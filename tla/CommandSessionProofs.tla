-------------------------- MODULE CommandSessionProofs --------------------------
(***************************************************************************)
(* Proofs about CommandSession.  The ring is pushed to and taken from by   *)
(* folds over sequences; FoldExists and FoldTurns make of a fold the       *)
(* sequence of its turns, by induction on the number of turns              *)
(* (Successors).  From there the ring and the line together are one        *)
(* sequence, Unread, that a read does not change, that a client extends by *)
(* a whole command and that a handler shortens by one.                     *)
(*                                                                         *)
(* The inductive invariant IInv says that Unread is a sequence of whole    *)
(* commands (LineInv), and that the chain of probes is at rest (Idle), or  *)
(* is at one place, for the last probe, with none before it disturbed      *)
(* (Probing).  Its hypotheses: the client sends no command without a       *)
(* handler, with which the framing is lost, and the ring has room for a    *)
(* read of ReadSize on top of two units of a command (1024 in 2048 bytes). *)
(***************************************************************************)
EXTENDS CommandSession, FiniteSetTheorems, WellFoundedInduction, TLAPS

-----------------------------------------------------------------------------
(* Induction, and folds *)

\* A set of naturals with zero and the successors of its elements has all of them.
LEMMA Successors ==
    ASSUME NEW S \in SUBSET Nat, 0 \in S, \A k \in S : k + 1 \in S
    PROVE  S = Nat
<1> SUFFICES ASSUME Nat \ S # {} PROVE FALSE
  OBVIOUS
<1> DEFINE T == Nat \ S
<1>1. PICK x \in T : \A y \in T : ~(<<y, x>> \in OpToRel(<, Nat))
  <2>1. T \subseteq Nat /\ T # {}
    OBVIOUS
  <2> HIDE DEF T
  <2> QED BY <2>1, NatLessThanWellFounded, WFMin
<1>2. x \in Nat /\ x # 0 /\ x - 1 \in Nat /\ x - 1 < x /\ (x - 1) + 1 = x
  OBVIOUS
<1>3. x - 1 \notin S
  BY <1>2
<1>4. <<x - 1, x>> \in OpToRel(<, Nat)
  BY <1>2 DEF OpToRel
<1> QED BY <1>1, <1>2, <1>3, <1>4

\* The greatest of the numbers up to k.
LEMMA MaxOfInterval ==
    ASSUME NEW k \in Nat, NEW s \in SUBSET (1..(k + 1)), k + 1 \in s
    PROVE  Max(s) = k + 1
<1>1. \A y \in s : y \in Nat /\ k + 1 >= y
  OBVIOUS
<1>2. \A x \in s : (\A y \in s : x >= y) => x = k + 1
  BY <1>1
<1> QED BY <1>1, <1>2 DEF Max

\* A step of the loops over the ring: a unit is taken off, or the next one is pushed.
Turn(turn, s, x, i) == IF turn = "pop" THEN Pop(x) ELSE Push(x, s[i])

\* K is the fold of the turns over the subsets of 1..n, each from its greatest element
\* down.
IsFold(K, turn, r, s, n) ==
    K = [t \in SUBSET (1..n) |->
           IF t = {} THEN r ELSE Turn(turn, s, K[t \ {Max(t)}], Max(t))]

\* There is such a fold.
LEMMA FoldExists ==
    ASSUME NEW turn, NEW r, NEW s, NEW n \in Nat
    PROVE  \E K : IsFold(K, turn, r, s, n)
<1> DEFINE S == {m \in Nat : \E K : IsFold(K, turn, r, s, m)}
<1>1. 0 \in S
  <2> DEFINE K == [t \in SUBSET (1..0) |-> r]
  <2>1. \A t \in SUBSET (1..0) : t = {}
    OBVIOUS
  <2>2. K = [t \in SUBSET (1..0) |->
               IF t = {} THEN r ELSE Turn(turn, s, K[t \ {Max(t)}], Max(t))]
    BY <2>1
  <2> HIDE DEF K
  <2> QED BY <2>2 DEF IsFold
<1>2. ASSUME NEW m \in S PROVE m + 1 \in S
  <2>1. m \in Nat /\ m + 1 \in Nat
    OBVIOUS
  <2>2. PICK L : IsFold(L, turn, r, s, m)
    OBVIOUS
  <2> DEFINE G(t) == IF t \subseteq 1..m THEN L[t]
                     ELSE Turn(turn, s, L[t \ {m + 1}], m + 1)
             K == [t \in SUBSET (1..(m + 1)) |-> G(t)]
  <2>3. ASSUME NEW t \in SUBSET (1..(m + 1))
        PROVE  G(t) = IF t = {} THEN r ELSE Turn(turn, s, K[t \ {Max(t)}], Max(t))
    <3>1. \A x : t \ {x} \in SUBSET (1..(m + 1))
      OBVIOUS
    <3>2. CASE t \subseteq 1..m
      <4>1. L[t] = IF t = {} THEN r ELSE Turn(turn, s, L[t \ {Max(t)}], Max(t))
        BY <2>2, <3>2 DEF IsFold
      <4>2. K[t \ {Max(t)}] = G(t \ {Max(t)})
        BY <3>1
      <4>3. t \ {Max(t)} \subseteq 1..m
        BY <3>2
      <4>4. K[t \ {Max(t)}] = L[t \ {Max(t)}]
        BY <4>2, <4>3
      <4> HIDE DEF K
      <4> QED BY <3>2, <4>1, <4>4
    <3>3. CASE ~(t \subseteq 1..m)
      <4>1. m + 1 \in t /\ t # {} /\ t \ {m + 1} \subseteq 1..m
        BY <2>1, <3>3
      <4>2. Max(t) = m + 1
        BY <2>1, <4>1, MaxOfInterval
      <4>3. K[t \ {m + 1}] = G(t \ {m + 1})
        BY <3>1
      <4>4. K[t \ {m + 1}] = L[t \ {m + 1}]
        BY <4>1, <4>3
      <4> HIDE DEF K
      <4> QED BY <3>3, <4>1, <4>2, <4>4
    <3> QED BY <3>2, <3>3
  <2>4. K = [t \in SUBSET (1..(m + 1)) |->
               IF t = {} THEN r ELSE Turn(turn, s, K[t \ {Max(t)}], Max(t))]
    <3> HIDE DEF G
    <3> SUFFICES \A t \in SUBSET (1..(m + 1)) :
                   G(t) = IF t = {} THEN r ELSE Turn(turn, s, K[t \ {Max(t)}], Max(t))
      OBVIOUS
    <3> QED BY <2>3
  <2>5. IsFold(K, turn, r, s, m + 1)
    <3> HIDE DEF K, G
    <3> QED BY <2>4 DEF IsFold
  <2> HIDE DEF K, G
  <2> QED BY <2>1, <2>5
<1>3. S = Nat
  <2> HIDE DEF S
  <2>1. S \in SUBSET Nat
    BY DEF S
  <2> QED BY <1>1, <1>2, <2>1, Successors
<1> QED BY <1>3

\* The fold has the turns from the first to the last, one after the other.
LEMMA FoldTurns ==
    ASSUME NEW turn, NEW r, NEW s, NEW n \in Nat, NEW K, IsFold(K, turn, r, s, n)
    PROVE  \E F : /\ F[0] = r /\ F[n] = K[1..n]
                  /\ \A k \in 1..n : F[k] = Turn(turn, s, F[k - 1], k)
<1> DEFINE F == [k \in 0..n |-> K[1..k]]
<1>1. F[0] = r
  <2>1. 1..0 = {} /\ {} \in SUBSET (1..n)
    OBVIOUS
  <2>2. K[{}] = r
    BY DEF IsFold
  <2> QED BY <2>1, <2>2
<1>2. ASSUME NEW k \in 1..n PROVE F[k] = Turn(turn, s, F[k - 1], k)
  <2>1. /\ 1..k \in SUBSET (1..n) /\ 1..k # {} /\ (1..k) \ {k} = 1..(k - 1)
        /\ k \in 0..n /\ k - 1 \in 0..n
    <3>1. k \in Nat /\ k >= 1 /\ k <= n
      OBVIOUS
    <3>2. 1..k \in SUBSET (1..n) /\ k \in 1..k /\ k \in 0..n /\ k - 1 \in 0..n
      BY <3>1
    <3>3. \A x : x \in (1..k) \ {k} <=> x \in 1..(k - 1)
      BY <3>1
    <3> QED BY <3>2, <3>3
  <2>2. Max(1..k) = k
    <3>1. k - 1 \in Nat /\ (k - 1) + 1 = k /\ k \in 1..k
      OBVIOUS
    <3> QED BY <3>1, MaxOfInterval
  <2>3. K[1..k] = Turn(turn, s, K[(1..k) \ {Max(1..k)}], Max(1..k))
    BY <2>1 DEF IsFold
  <2> QED BY <2>1, <2>2, <2>3
<1>3. F[n] = K[1..n]
  OBVIOUS
<1> HIDE DEF F
<1> QED BY <1>1, <1>2, <1>3

\* All the units of s are pushed.
PushAll(r, s) == FoldLeft(Push, r, s)

\* The rings after each of the n pushes.
IsPushed(F, r, s, n) ==
    /\ F[0] = r /\ F[n] = PushAll(r, s)
    /\ \A k \in 1..n : F[k] = Push(F[k - 1], s[k])

\* Units are pushed in their order.
LEMMA Pushes ==
    ASSUME NEW r, NEW s, NEW n \in Nat, DOMAIN s = 1..n
    PROVE  \E F : IsPushed(F, r, s, n)
<1> DEFINE K == CHOOSE L : IsFold(L, "push", r, s, n)
<1>1. IsFold(K, "push", r, s, n)
  BY FoldExists
<1>2. PushAll(r, s) = K[1..n]
  <2>1. PushAll(r, s) =
          (CHOOSE L : L = [t \in SUBSET (DOMAIN s) |->
               IF t = {} THEN r ELSE Push(L[t \ {Max(t)}], s[Max(t)])])[DOMAIN s]
    BY DEF PushAll, FoldLeft, MapThenFoldSet
  <2>2. K = (CHOOSE L : L = [t \in SUBSET (DOMAIN s) |->
               IF t = {} THEN r ELSE Push(L[t \ {Max(t)}], s[Max(t)])])
    BY DEF IsFold, Turn
  <2> QED BY <2>1, <2>2
<1> HIDE DEF K
<1>3. PICK F : /\ F[0] = r /\ F[n] = K[1..n]
               /\ \A k \in 1..n : F[k] = Turn("push", s, F[k - 1], k)
  BY <1>1, FoldTurns
<1>4. \A k \in 1..n : F[k] = Push(F[k - 1], s[k])
  BY <1>3 DEF Turn
<1> QED BY <1>2, <1>3, <1>4 DEF IsPushed

\* Units are taken off one after the other.
LEMMA Pops ==
    ASSUME NEW r, NEW n \in Nat
    PROVE  \E F : /\ F[0] = r /\ F[n] = PopAll(r, n)
                  /\ \A k \in 1..n : F[k] = Pop(F[k - 1])
<1> DEFINE s == [i \in 1..n |-> i]
           K == CHOOSE L : IsFold(L, "pop", r, s, n)
<1>1. IsFold(K, "pop", r, s, n)
  BY FoldExists
<1>2. PopAll(r, n) = K[1..n]
  <2>1. PopAll(r, n) =
          (CHOOSE L : L = [t \in SUBSET (1..n) |->
               IF t = {} THEN r ELSE Pop(L[t \ {Max(t)}])])[1..n]
    BY DEF PopAll, FoldLeft, MapThenFoldSet
  <2>2. K = (CHOOSE L : L = [t \in SUBSET (1..n) |->
               IF t = {} THEN r ELSE Pop(L[t \ {Max(t)}])])
    BY DEF IsFold, Turn
  <2> QED BY <2>1, <2>2
<1> HIDE DEF K
<1> HIDE DEF s
<1>3. PICK F : /\ F[0] = r /\ F[n] = K[1..n]
               /\ \A k \in 1..n : F[k] = Turn("pop", s, F[k - 1], k)
  BY <1>1, FoldTurns
<1>4. \A k \in 1..n : F[k] = Pop(F[k - 1])
  BY <1>3 DEF Turn
<1> QED BY <1>2, <1>3, <1>4

-----------------------------------------------------------------------------
(* The ring *)

\* The units of commands, and the rings of them.
UnitSet == Commands \X (1..3)

Rings == [head : 0..(RingSize - 1), size : 0..RingSize,
          cells : [0..(RingSize - 1) -> UnitSet]]

\* A place in the ring, and the places of two units of which there are as many as that.
LEMMA Places ==
    ASSUME NEW h \in 0..(RingSize - 1), NEW i \in 0..(RingSize - 1)
    PROVE  /\ NormalizeIndex(h + i) \in 0..(RingSize - 1)
           /\ \A j \in 0..(RingSize - 1) :
                 NormalizeIndex(h + i) = NormalizeIndex(h + j) => i = j
BY CommandSessionAssumption DEF NormalizeIndex

\* What is pushed to a ring that is not full comes after what is in it.
LEMMA PushFacts ==
    ASSUME NEW r \in Rings, NEW u \in UnitSet, r.size < RingSize
    PROVE  /\ Push(r, u) \in Rings /\ Push(r, u).size = r.size + 1
           /\ \A i \in 0..(r.size - 1) : At(Push(r, u), i) = At(r, i)
           /\ At(Push(r, u), r.size) = u
<1> DEFINE j == NormalizeIndex(r.head + r.size)
           q == Push(r, u)
<1>1. /\ RingSize \in Nat /\ r.head \in 0..(RingSize - 1) /\ r.size \in 0..(RingSize - 1)
      /\ r.cells \in [0..(RingSize - 1) -> UnitSet]
  BY CommandSessionAssumption DEF Rings
<1>2. q = [head |-> r.head, size |-> r.size + 1, cells |-> [r.cells EXCEPT ![j] = u]]
  <2>1. r.size # RingSize /\ r.head + (r.size + 1) - 1 = r.head + r.size
    BY <1>1
  <2> QED BY <2>1 DEF Push
<1>3. j \in 0..(RingSize - 1)
  BY <1>1, Places
<1>4. q \in Rings
  BY <1>1, <1>2, <1>3 DEF Rings
<1>5. ASSUME NEW i \in 0..(r.size - 1) PROVE At(q, i) = At(r, i)
  <2>1. i \in 0..(RingSize - 1) /\ i # r.size
    BY <1>1
  <2>2. NormalizeIndex(r.head + i) \in 0..(RingSize - 1) /\ NormalizeIndex(r.head + i) # j
    BY <1>1, <2>1, Places
  <2> HIDE DEF j, q
  <2>3. q.cells[NormalizeIndex(r.head + i)] = r.cells[NormalizeIndex(r.head + i)]
    BY <1>1, <1>2, <2>2
  <2> QED BY <1>2, <2>3 DEF At
<1>6. At(q, r.size) = u
  <2> HIDE DEF q
  <2> QED BY <1>1, <1>2, <1>3 DEF At
<1> QED BY <1>2, <1>4, <1>5, <1>6

\* What is left when the first unit is taken off.
LEMMA PopFacts ==
    ASSUME NEW r \in Rings, r.size > 0
    PROVE  /\ Pop(r) \in Rings /\ Pop(r).size = r.size - 1
           /\ \A i \in 0..(r.size - 2) : At(Pop(r), i) = At(r, i + 1)
<1> DEFINE q == Pop(r)
<1>1. /\ RingSize \in Nat /\ r.head \in 0..(RingSize - 1) /\ r.size \in 1..RingSize
      /\ r.cells \in [0..(RingSize - 1) -> UnitSet]
  BY CommandSessionAssumption DEF Rings
<1>2. q = [head |-> NormalizeIndex(r.head + 1), size |-> r.size - 1, cells |-> r.cells]
  <2>1. q = [r EXCEPT !.size = r.size - 1, !.head = NormalizeIndex(r.head + 1)]
    BY <1>1 DEF Pop
  <2> HIDE DEF q
  <2> QED BY <2>1, ZenonT(40) DEF Rings
<1> HIDE DEF q
<1>3. q.head \in 0..(RingSize - 1)
  BY <1>1, <1>2 DEF NormalizeIndex
<1>4. q \in Rings
  BY <1>1, <1>2, <1>3 DEF Rings
<1>5. ASSUME NEW i \in 0..(r.size - 2) PROVE At(q, i) = At(r, i + 1)
  <2>1. NormalizeIndex(NormalizeIndex(r.head + 1) + i) = NormalizeIndex(r.head + (i + 1))
    BY <1>1, SMTT(30) DEF NormalizeIndex
  <2> QED BY <1>2, <2>1 DEF At
<1> QED BY <1>2, <1>4, <1>5 DEF q

\* What was read comes after what was in the ring, when there is room for all of it.
LEMMA PushAllFacts ==
    ASSUME NEW r \in Rings, NEW s \in Seq(UnitSet), r.size + Len(s) <= RingSize
    PROVE  LET q == PushAll(r, s)
           IN  /\ q \in Rings /\ q.size = r.size + Len(s)
               /\ \A i \in 0..(r.size - 1) : At(q, i) = At(r, i)
               /\ \A i \in 1..Len(s) : At(q, r.size + i - 1) = s[i]
<1> DEFINE n == Len(s)
<1>1. /\ n \in Nat /\ DOMAIN s = 1..n /\ \A i \in 1..n : s[i] \in UnitSet
      /\ r.size \in Nat /\ r.size + n <= RingSize /\ RingSize \in Nat
  BY CommandSessionAssumption DEF Rings
<1> HIDE DEF n
<1>2. PICK F : IsPushed(F, r, s, n)
  BY <1>1, Pushes
<1> DEFINE P(k) == /\ F[k] \in Rings /\ F[k].size = r.size + k
                   /\ \A i \in 0..(r.size - 1) : At(F[k], i) = At(r, i)
                   /\ \A i \in 1..k : At(F[k], r.size + i - 1) = s[i]
           S == {k \in Nat : k <= n => P(k)}
<1>3. P(0)
  BY <1>1, <1>2 DEF IsPushed
<1>4. ASSUME NEW k \in Nat, k + 1 <= n, P(k) PROVE P(k + 1)
  <2>1. k + 1 \in 1..n /\ (k + 1) - 1 = k /\ s[k + 1] \in UnitSet
    BY <1>1, <1>4
  <2>2. F[k + 1] = Push(F[k], s[k + 1])
    BY <1>2, <2>1 DEF IsPushed
  <2>3. F[k].size < RingSize
    BY <1>1, <1>4
  <2>4. /\ F[k + 1] \in Rings /\ F[k + 1].size = F[k].size + 1
        /\ \A i \in 0..(F[k].size - 1) : At(F[k + 1], i) = At(F[k], i)
        /\ At(F[k + 1], F[k].size) = s[k + 1]
    BY <1>4, <2>1, <2>2, <2>3, PushFacts
  <2>5. \A i \in 0..(r.size - 1) : i \in 0..(F[k].size - 1)
    BY <1>1, <1>4
  <2>6. \A i \in 1..k : r.size + i - 1 \in 0..(F[k].size - 1)
    BY <1>1, <1>4
  <2>7. \A i \in 0..(r.size - 1) : At(F[k + 1], i) = At(r, i)
    BY <1>4, <2>4, <2>5
  <2>8. ASSUME NEW i \in 1..(k + 1) PROVE At(F[k + 1], r.size + i - 1) = s[i]
    <3>1. CASE i \in 1..k
      BY <1>4, <2>4, <2>6, <3>1
    <3>2. CASE i = k + 1
      <4>1. r.size + i - 1 = F[k].size
        BY <1>1, <1>4, <3>2
      <4> QED BY <2>4, <3>2, <4>1
    <3> QED BY <3>1, <3>2
  <2>9. F[k + 1].size = r.size + (k + 1)
    <3>1. F[k].size = r.size + k /\ r.size \in Nat
      BY <1>1, <1>4
    <3>2. F[k + 1].size = F[k].size + 1
      BY <2>4
    <3> QED BY <3>1, <3>2
  <2> QED BY <2>4, <2>7, <2>8, <2>9
<1>5. S = Nat
  <2>1. 0 \in S
    BY <1>3
  <2>2. ASSUME NEW k \in S PROVE k + 1 \in S
    <3>1. k \in Nat /\ (k <= n => P(k)) /\ (k + 1 <= n => k <= n)
      BY <1>1
    <3> HIDE DEF P
    <3> QED BY <1>4, <3>1
  <2>3. S \in SUBSET Nat
    OBVIOUS
  <2> HIDE DEF S
  <2> QED BY <2>1, <2>2, <2>3, Successors
<1>6. P(n)
  <2> HIDE DEF P
  <2> QED BY <1>1, <1>5
<1> QED BY <1>2, <1>6 DEF IsPushed, n

\* What is left when the first n units are taken off.
LEMMA PopAllFacts ==
    ASSUME NEW r \in Rings, NEW n \in 0..r.size
    PROVE  /\ PopAll(r, n) \in Rings /\ PopAll(r, n).size = r.size - n
           /\ \A i \in 0..(r.size - n - 1) : At(PopAll(r, n), i) = At(r, i + n)
<1>1. n \in Nat /\ r.size \in Nat /\ n <= r.size
  BY CommandSessionAssumption DEF Rings
<1>2. PICK F : /\ F[0] = r /\ F[n] = PopAll(r, n)
               /\ \A k \in 1..n : F[k] = Pop(F[k - 1])
  BY <1>1, Pops
<1> DEFINE P(k) == /\ F[k] \in Rings /\ F[k].size = r.size - k
                   /\ \A i \in 0..(r.size - k - 1) : At(F[k], i) = At(r, i + k)
           S == {k \in Nat : k <= n => P(k)}
<1>3. P(0)
  <2>1. \A i \in 0..(r.size - 0 - 1) : i + 0 = i
    OBVIOUS
  <2> QED BY <1>1, <1>2, <2>1
<1>4. ASSUME NEW k \in Nat, k + 1 <= n, P(k) PROVE P(k + 1)
  <2>1. k + 1 \in 1..n /\ (k + 1) - 1 = k
    BY <1>1, <1>4
  <2>2. F[k + 1] = Pop(F[k])
    BY <1>2, <2>1
  <2>3. F[k].size > 0
    BY <1>1, <1>4
  <2>4. /\ F[k + 1] \in Rings /\ F[k + 1].size = F[k].size - 1
        /\ \A i \in 0..(F[k].size - 2) : At(F[k + 1], i) = At(F[k], i + 1)
    BY <1>4, <2>2, <2>3, PopFacts
  <2>5. ASSUME NEW i \in 0..(r.size - (k + 1) - 1)
        PROVE  At(F[k + 1], i) = At(r, i + (k + 1))
    <3>1. /\ i \in 0..(F[k].size - 2) /\ i + 1 \in 0..(r.size - k - 1)
          /\ (i + 1) + k = i + (k + 1)
      BY <1>1, <1>4
    <3> QED BY <1>4, <2>4, <3>1
  <2>6. F[k + 1].size = r.size - (k + 1)
    <3>1. F[k].size = r.size - k
      BY <1>4
    <3> QED BY <1>1, <2>4, <3>1
  <2> QED BY <2>4, <2>5, <2>6
<1>5. S = Nat
  <2>1. 0 \in S
    BY <1>3
  <2>2. ASSUME NEW k \in S PROVE k + 1 \in S
    <3>1. k \in Nat /\ (k <= n => P(k)) /\ (k + 1 <= n => k <= n)
      BY <1>1
    <3> HIDE DEF P
    <3> QED BY <1>4, <3>1
  <2>3. S \in SUBSET Nat
    OBVIOUS
  <2> HIDE DEF S
  <2> QED BY <2>1, <2>2, <2>3, Successors
<1>6. P(n)
  <2> HIDE DEF P
  <2> QED BY <1>1, <1>5
<1> QED BY <1>2, <1>6

-----------------------------------------------------------------------------
(* The inductive invariant *)

\* The last unit of an answer to a ping.
IsAnswer(u) == u[1].event = "STMt" /\ u[1].probe # 0 /\ u[2] = Length(u[1])

\* s is a sequence of whole commands, each of which has a handler.
Whole(s) ==
    /\ \A i \in 1..Len(s) : HasHandler(s[i][1]) /\ s[i][2] <= Length(s[i][1])
    /\ Len(s) > 0 => s[1][2] = 1 /\ s[Len(s)][2] = Length(s[Len(s)][1])
    /\ \A i \in 1..(Len(s) - 1) :
          IF s[i][2] < Length(s[i][1])
            THEN s[i + 1] = <<s[i][1], s[i][2] + 1>>
            ELSE s[i + 1][2] = 1

NoAnswer(s) == \A i \in 1..Len(s) : ~IsAnswer(s[i])

\* There is one answer, to the ping of probe p.
OneAnswer(s, p) ==
    \E a \in 1..Len(s) : s[a][1].probe = p /\ \A i \in 1..Len(s) : IsAnswer(s[i]) <=> i = a

\* No series is under way: the probes are those of the beginning, or none.
Idle ==
    /\ pingTimer <=> commandHELO
    /\ tasks = <<>> /\ pings = <<>> /\ NoAnswer(Unread)
    /\ \/ /\ capacity = InitialProbes /\ Len(probes) = InitialProbes
          /\ \A j \in 1..Len(probes) : probes[j] = "zero"
       \/ commandHELO /\ probes = <<>> /\ capacity >= 2 * InitialProbes

\* A series is under way: its last probe is to be pinged, was pinged or has its answer
\* under way, and none before it was disturbed.
Probing ==
    /\ commandHELO /\ ~pingTimer
    /\ probes # <<>> /\ capacity >= 2 * InitialProbes
    /\ \A j \in 1..(Len(probes) - 1) : probes[j] # "disturbed"
    /\ \/ tasks = <<Len(probes)>> /\ pings = <<>> /\ NoAnswer(Unread)
       \/ tasks = <<>> /\ pings = <<Len(probes)>> /\ NoAnswer(Unread)
       \/ tasks = <<>> /\ pings = <<>> /\ OneAnswer(Unread, Len(probes))

IInv ==
    /\ TypeOK
    /\ Whole(Unread) /\ NothingWaits
    /\ Idle \/ Probing
    /\ OffsetMeasured

-----------------------------------------------------------------------------
(* Sequences of whole commands *)

\* The commands, and the units of one.
LEMMA CommandFacts ==
    ASSUME NEW c \in Commands
    PROVE  /\ Length(c) \in {2, 3} /\ (c.label = "STAT" => Length(c) = 3)
           /\ c.probe \in 0..MaxCapacity
           /\ c.label = "HELO" => c = HELO
           /\ c.label = "SETD" => c = SETD
           /\ c.label = "META" => c = META
           /\ c.event = "STMt" => c = STMt(c.probe) /\ c.label = "STAT"
           /\ Units(c) \in Seq(UnitSet) /\ Len(Units(c)) = Length(c)
           /\ \A k \in 1..Length(c) : Units(c)[k] = <<c, k>>
<1>1. MaxCapacity \in Nat
  BY CommandSessionAssumption
<1>2. /\ c.probe \in 0..MaxCapacity
      /\ c.label = "HELO" => c = HELO
      /\ c.label = "SETD" => c = SETD
      /\ c.label = "META" => c = META
      /\ c.event = "STMt" => c = STMt(c.probe) /\ c.label = "STAT"
  BY <1>1 DEF Commands, Command, HELO, SETD, STMs, META, STMt
<1>3. Length(c) \in {2, 3} /\ (c.label = "STAT" => Length(c) = 3)
  BY DEF Length, Command, SETD
<1>4. Units(c) \in Seq(UnitSet) /\ Len(Units(c)) = Length(c)
  <2>1. \A k \in 1..Length(c) : <<c, k>> \in UnitSet
    BY <1>3 DEF UnitSet
  <2>2. Length(c) \in Nat
    BY <1>3
  <2> QED BY <2>1, <2>2 DEF Units
<1>5. \A k \in 1..Length(c) : Units(c)[k] = <<c, k>>
  BY DEF Units
<1> QED BY <1>2, <1>3, <1>4, <1>5

\* The command is the answer to a ping.
Answering(c) == c.event = "STMt" /\ c.probe # 0

\* The units of a sequence, and the first command of a sequence of whole ones.
LEMMA FirstCommand ==
    ASSUME NEW s \in Seq(UnitSet), Whole(s), Len(s) > 0
    PROVE  LET c == s[1][1]
           IN  /\ c \in Commands /\ HasHandler(c) /\ Length(c) <= Len(s)
               /\ \A k \in 1..Length(c) : s[k] = <<c, k>>
               /\ Len(s) > Length(c) => s[Length(c) + 1][2] = 1
<1> DEFINE c == s[1][1]
<1>1. /\ Len(s) \in Nat /\ \A i \in 1..Len(s) : s[i] \in UnitSet
  OBVIOUS
<1>2. 1 \in 1..Len(s) /\ s[1] \in UnitSet /\ s[1][2] = 1 /\ HasHandler(c)
  BY <1>1 DEF Whole
<1>3. c \in Commands /\ s[1] = <<c, 1>>
  BY <1>2 DEF UnitSet
<1>4. Length(c) \in {2, 3}
  BY <1>3, CommandFacts
<1>5. s[Len(s)][2] = Length(s[Len(s)][1])
  BY DEF Whole
<1> HIDE DEF c
<1>6. /\ Len(s) # 1 /\ Len(s) >= 2
  BY <1>1, <1>3, <1>4, <1>5
<1>7. s[2] = <<c, 2>>
  <2>1. 1 \in 1..(Len(s) - 1) /\ s[1][2] < Length(s[1][1])
    BY <1>1, <1>3, <1>4, <1>6
  <2>2. s[1 + 1] = <<s[1][1], s[1][2] + 1>>
    BY <2>1 DEF Whole
  <2> QED BY <1>3, <2>2
<1>8. CASE Length(c) = 2
  <2>1. \A k \in 1..2 : s[k] = <<c, k>>
    BY <1>3, <1>7
  <2>2. Len(s) > 2 => s[2 + 1][2] = 1
    <3> SUFFICES ASSUME Len(s) > 2 PROVE s[2 + 1][2] = 1
      OBVIOUS
    <3>1. 2 \in 1..(Len(s) - 1) /\ ~(s[2][2] < Length(s[2][1]))
      BY <1>1, <1>7, <1>8
    <3> QED BY <3>1 DEF Whole
  <2> QED BY <1>2, <1>3, <1>6, <1>8, <2>1, <2>2 DEF c
<1>9. CASE Length(c) = 3
  <2>1. Len(s) # 2 /\ Len(s) >= 3
    BY <1>1, <1>5, <1>6, <1>7, <1>9
  <2>2. s[3] = <<c, 3>>
    <3>1. 2 \in 1..(Len(s) - 1) /\ s[2][2] < Length(s[2][1])
      BY <1>1, <1>7, <1>9, <2>1
    <3>2. s[2 + 1] = <<s[2][1], s[2][2] + 1>>
      BY <3>1 DEF Whole
    <3> QED BY <1>7, <3>2
  <2>3. \A k \in 1..3 : s[k] = <<c, k>>
    BY <1>3, <1>7, <2>2
  <2>4. Len(s) > 3 => s[3 + 1][2] = 1
    <3> SUFFICES ASSUME Len(s) > 3 PROVE s[3 + 1][2] = 1
      OBVIOUS
    <3>1. 3 \in 1..(Len(s) - 1) /\ ~(s[3][2] < Length(s[3][1]))
      BY <1>1, <2>2, <1>9
    <3> QED BY <3>1 DEF Whole
  <2> QED BY <1>2, <1>3, <1>9, <2>1, <2>3, <2>4 DEF c
<1> QED BY <1>4, <1>8, <1>9

\* The units of another command come after a sequence of whole commands.
LEMMA Extended ==
    ASSUME NEW s \in Seq(UnitSet), Whole(s), NEW c \in Commands, HasHandler(c)
    PROVE  LET t == s \o Units(c)
           IN  /\ t \in Seq(UnitSet) /\ Whole(t)
               /\ ~Answering(c) => /\ NoAnswer(s) => NoAnswer(t)
                                   /\ \A p : OneAnswer(s, p) => OneAnswer(t, p)
               /\ Answering(c) /\ NoAnswer(s) => OneAnswer(t, c.probe)
<1> DEFINE t == s \o Units(c)
           n == Len(s)
           m == Length(c)
<1>1. /\ n \in Nat /\ m \in {2, 3} /\ Units(c) \in Seq(UnitSet) /\ Len(Units(c)) = m
      /\ \A k \in 1..m : Units(c)[k] = <<c, k>>
  BY CommandFacts
<1>2. /\ t \in Seq(UnitSet) /\ Len(t) = n + m
      /\ \A i \in 1..n : t[i] = s[i]
      /\ \A i \in (n + 1)..(n + m) : t[i] = Units(c)[i - n]
  BY <1>1
<1> HIDE DEF t, n, m
<1>3. \A i \in (n + 1)..(n + m) : t[i] = <<c, i - n>>
  BY <1>1, <1>2
<1>4. \A i \in 1..(n + m) : i \in 1..n \/ i \in (n + 1)..(n + m)
  BY <1>1
<1>5. Whole(t)
  <2>1. \A i \in 1..Len(t) : HasHandler(t[i][1]) /\ t[i][2] <= Length(t[i][1])
    <3> SUFFICES ASSUME NEW i \in 1..Len(t)
                 PROVE  HasHandler(t[i][1]) /\ t[i][2] <= Length(t[i][1])
      OBVIOUS
    <3>1. CASE i \in 1..n
      BY <1>2, <3>1 DEF Whole, n
    <3>2. CASE i \in (n + 1)..(n + m)
      <4>1. i - n <= m
        BY <1>1, <3>2
      <4> QED BY <1>3, <3>2, <4>1 DEF m
    <3> QED BY <1>2, <1>4, <3>1, <3>2
  <2>2. t[1][2] = 1
    <3>1. CASE n = 0
      BY <1>1, <1>3, <3>1
    <3>2. CASE n > 0
      <4>1. 1 \in 1..n /\ s[1][2] = 1
        BY <1>1, <3>2 DEF Whole, n
      <4> QED BY <1>2, <4>1
    <3> QED BY <1>1, <3>1, <3>2
  <2>3. t[Len(t)][2] = Length(t[Len(t)][1])
    <3>1. n + m \in (n + 1)..(n + m) /\ (n + m) - n = m
      BY <1>1
    <3> QED BY <1>2, <1>3, <3>1 DEF m
  <2>4. ASSUME NEW i \in 1..(Len(t) - 1)
        PROVE  IF t[i][2] < Length(t[i][1])
               THEN t[i + 1] = <<t[i][1], t[i][2] + 1>>
               ELSE t[i + 1][2] = 1
    <3>1. CASE i \in 1..(n - 1)
      <4>1. i \in 1..n /\ i + 1 \in 1..n
        BY <1>1, <3>1
      <4>2. t[i] = s[i] /\ t[i + 1] = s[i + 1]
        BY <1>2, <4>1
      <4> QED BY <3>1, <4>2 DEF Whole, n
    <3>2. CASE i = n
      <4>1. n \in 1..n /\ n + 1 \in (n + 1)..(n + m) /\ (n + 1) - n = 1
        BY <1>1, <3>2
      <4>2. t[i] = s[n] /\ t[i + 1] = <<c, 1>>
        BY <1>2, <1>3, <3>2, <4>1
      <4>3. s[n][2] = Length(s[n][1])
        BY <1>1, <4>1 DEF Whole, n
      <4>4. s[n] \in UnitSet
        BY <4>1 DEF n
      <4>5. ~(t[i][2] < Length(t[i][1]))
        BY <4>2, <4>3, <4>4, CommandFacts DEF UnitSet
      <4> QED BY <4>2, <4>5
    <3>3. CASE i \in (n + 1)..(n + m - 1)
      <4>1. /\ i \in (n + 1)..(n + m) /\ i + 1 \in (n + 1)..(n + m)
            /\ i - n < m /\ (i + 1) - n = (i - n) + 1
        BY <1>1, <3>3
      <4>2. t[i] = <<c, i - n>> /\ t[i + 1] = <<c, (i - n) + 1>>
        BY <1>3, <4>1
      <4> QED BY <4>1, <4>2 DEF m
    <3>4. i \in 1..(n - 1) \/ i = n \/ i \in (n + 1)..(n + m - 1)
      BY <1>1, <1>2
    <3> QED BY <3>1, <3>2, <3>3, <3>4
  <2> QED BY <2>1, <2>2, <2>3, <2>4 DEF Whole
<1>6. ASSUME NEW i \in (n + 1)..(n + m) PROVE IsAnswer(t[i]) <=> Answering(c) /\ i = n + m
  <2>1. i - n = m <=> i = n + m
    BY <1>1
  <2> QED BY <1>3, <2>1 DEF IsAnswer, Answering, m
<1>7. ASSUME ~Answering(c), NoAnswer(s) PROVE NoAnswer(t)
  BY <1>2, <1>4, <1>6, <1>7 DEF NoAnswer, n
<1>8. ASSUME ~Answering(c), NEW p, OneAnswer(s, p) PROVE OneAnswer(t, p)
  <2>1. PICK a \in 1..n : s[a][1].probe = p /\ \A i \in 1..n : IsAnswer(s[i]) <=> i = a
    BY <1>8 DEF OneAnswer, n
  <2>2. a \in 1..Len(t) /\ t[a] = s[a]
    BY <1>1, <1>2
  <2>3. \A i \in 1..Len(t) : IsAnswer(t[i]) <=> i = a
    <3>1. \A i \in 1..n : IsAnswer(t[i]) <=> i = a
      BY <1>2, <2>1
    <3>2. \A i \in (n + 1)..(n + m) : ~IsAnswer(t[i]) /\ i # a
      BY <1>1, <1>6, <1>8
    <3> QED BY <1>2, <1>4, <3>1, <3>2
  <2> QED BY <2>1, <2>2, <2>3 DEF OneAnswer
<1>9. ASSUME Answering(c), NoAnswer(s) PROVE OneAnswer(t, c.probe)
  <2>1. n + m \in 1..Len(t) /\ n + m \in (n + 1)..(n + m)
    BY <1>1, <1>2
  <2>2. t[n + m][1].probe = c.probe
    BY <1>3, <2>1
  <2>3. \A i \in 1..Len(t) : IsAnswer(t[i]) <=> i = n + m
    <3>1. \A i \in 1..n : ~IsAnswer(t[i]) /\ i # n + m
      BY <1>1, <1>2, <1>9 DEF NoAnswer, n
    <3>2. \A i \in (n + 1)..(n + m) : IsAnswer(t[i]) <=> i = n + m
      BY <1>6, <1>9
    <3> QED BY <1>2, <1>4, <3>1, <3>2
  <2> QED BY <2>1, <2>2, <2>3 DEF OneAnswer
<1> QED BY <1>2, <1>5, <1>7, <1>8, <1>9 DEF t

\* The first command of a sequence of whole commands is taken off.
LEMMA Dropped ==
    ASSUME NEW s \in Seq(UnitSet), Whole(s), Len(s) > 0,
           NEW t \in Seq(UnitSet), Len(t) = Len(s) - Length(s[1][1]),
           \A i \in 1..Len(t) : t[i] = s[i + Length(s[1][1])]
    PROVE  LET c == s[1][1]
           IN  /\ Whole(t)
               /\ NoAnswer(s) => ~Answering(c) /\ NoAnswer(t)
               /\ \A p : OneAnswer(s, p) =>
                     IF Answering(c) THEN c.probe = p /\ NoAnswer(t) ELSE OneAnswer(t, p)
<1> DEFINE c == s[1][1]
           m == Length(c)
           n == Len(t)
<1>1. /\ c \in Commands /\ m <= Len(s) /\ Len(s) \in Nat
      /\ \A k \in 1..m : s[k] = <<c, k>>
      /\ Len(s) > m => s[m + 1][2] = 1
  BY FirstCommand
<1>2. m \in {2, 3} /\ n \in Nat /\ Len(s) = n + m /\ \A i \in 1..n : t[i] = s[i + m]
  <2>1. m \in {2, 3}
    BY <1>1, CommandFacts
  <2>2. n \in Nat /\ n = Len(s) - m /\ \A i \in 1..n : t[i] = s[i + m]
    OBVIOUS
  <2> HIDE DEF m, n
  <2>3. Len(s) = n + m
    BY <1>1, <2>1, <2>2
  <2> QED BY <2>1, <2>2, <2>3
<1>3. \A i \in 1..n : i + m \in 1..Len(s) /\ i + m > m
  BY <1>2
<1>4. \A i \in 1..Len(s) : i \in 1..m \/ (i - m \in 1..n /\ t[i - m] = s[i])
  <2> SUFFICES ASSUME NEW i \in 1..Len(s), i \notin 1..m
               PROVE  i - m \in 1..n /\ t[i - m] = s[i]
    OBVIOUS
  <2> HIDE DEF m, n
  <2>1. i - m \in 1..n /\ (i - m) + m = i
    BY <1>2
  <2> QED BY <1>2, <2>1
<1> HIDE DEF c, m, n
<1>5. Whole(t)
  <2>1. \A i \in 1..n : HasHandler(t[i][1]) /\ t[i][2] <= Length(t[i][1])
    BY <1>2, <1>3 DEF Whole
  <2>2. n > 0 => t[1][2] = 1 /\ t[n][2] = Length(t[n][1])
    <3> SUFFICES ASSUME n > 0 PROVE t[1][2] = 1 /\ t[n][2] = Length(t[n][1])
      OBVIOUS
    <3>1. 1 \in 1..n /\ n \in 1..n /\ Len(s) > m /\ Len(s) > 0
      BY <1>2
    <3>2. t[1] = s[m + 1] /\ t[n] = s[Len(s)]
      BY <1>2, <3>1
    <3>3. s[Len(s)][2] = Length(s[Len(s)][1])
      BY <3>1 DEF Whole
    <3> QED BY <1>1, <3>1, <3>2, <3>3
  <2>3. ASSUME NEW i \in 1..(n - 1)
        PROVE  IF t[i][2] < Length(t[i][1])
               THEN t[i + 1] = <<t[i][1], t[i][2] + 1>>
               ELSE t[i + 1][2] = 1
    <3>1. /\ i \in 1..n /\ i + 1 \in 1..n /\ i + m \in 1..(Len(s) - 1)
          /\ (i + 1) + m = (i + m) + 1
      BY <1>2
    <3>2. t[i] = s[i + m] /\ t[i + 1] = s[(i + m) + 1]
      BY <1>2, <3>1
    <3> QED BY <3>1, <3>2 DEF Whole
  <2> QED BY <2>1, <2>2, <2>3 DEF Whole, n
<1>6. ASSUME NEW k \in 1..m PROVE IsAnswer(s[k]) <=> Answering(c) /\ k = m
  BY <1>1 DEF IsAnswer, Answering, m
<1>7. m \in 1..m /\ m \in 1..Len(s)
  BY <1>1, <1>2
<1>8. ASSUME NoAnswer(s) PROVE ~Answering(c) /\ NoAnswer(t)
  <2>1. ~Answering(c)
    BY <1>6, <1>7, <1>8 DEF NoAnswer
  <2>2. \A i \in 1..n : ~IsAnswer(t[i])
    BY <1>2, <1>3, <1>8 DEF NoAnswer
  <2> QED BY <2>1, <2>2 DEF NoAnswer, n
<1>9. ASSUME NEW p, OneAnswer(s, p)
      PROVE  IF Answering(c) THEN c.probe = p /\ NoAnswer(t) ELSE OneAnswer(t, p)
  <2>1. PICK a \in 1..Len(s) : /\ s[a][1].probe = p
                               /\ \A i \in 1..Len(s) : IsAnswer(s[i]) <=> i = a
    BY <1>9 DEF OneAnswer
  <2>2. CASE Answering(c)
    <3>1. a = m
      BY <1>6, <1>7, <2>1, <2>2
    <3>2. c.probe = p
      BY <1>1, <1>7, <2>1, <3>1
    <3>3. \A i \in 1..n : ~IsAnswer(t[i])
      <4> SUFFICES ASSUME NEW i \in 1..n PROVE ~IsAnswer(t[i])
        OBVIOUS
      <4>1. i + m # m /\ i + m \in 1..Len(s)
        BY <1>2, <1>3
      <4> QED BY <1>2, <2>1, <3>1, <4>1
    <3> QED BY <2>2, <3>2, <3>3 DEF NoAnswer, n
  <2>3. CASE ~Answering(c)
    <3>1. a \notin 1..m
      BY <1>6, <2>1, <2>3
    <3>2. a - m \in 1..n /\ t[a - m] = s[a]
      BY <1>4, <3>1
    <3>3. ASSUME NEW i \in 1..n PROVE IsAnswer(t[i]) <=> i = a - m
      <4>1. IsAnswer(t[i]) <=> i + m = a
        BY <1>2, <1>3, <2>1
      <4>2. a \in Nat
        OBVIOUS
      <4> QED BY <1>2, <4>1, <4>2
    <3>4. OneAnswer(t, p)
      BY <2>1, <3>2, <3>3 DEF OneAnswer, n
    <3> QED BY <2>3, <3>4
  <2> QED BY <2>2, <2>3
<1> QED BY <1>5, <1>8, <1>9 DEF c

-----------------------------------------------------------------------------
(* What is not yet processed *)

\* The contents of a ring, and what is on the line.
UnreadOf(r, w) == Contents(r) \o w

\* The units in the ring come before those on the line.
LEMMA UnreadFacts ==
    ASSUME NEW r \in Rings, NEW w \in Seq(UnitSet)
    PROVE  /\ UnreadOf(r, w) \in Seq(UnitSet) /\ Len(UnreadOf(r, w)) = r.size + Len(w)
           /\ r.size \in 0..RingSize /\ r.size \in Nat
           /\ \A i \in 1..r.size : UnreadOf(r, w)[i] = At(r, i - 1)
           /\ \A i \in 1..Len(w) : UnreadOf(r, w)[r.size + i] = w[i]
<1>1. /\ RingSize \in Nat /\ r.size \in 0..RingSize /\ r.head \in 0..(RingSize - 1)
      /\ r.cells \in [0..(RingSize - 1) -> UnitSet]
  BY CommandSessionAssumption DEF Rings
<1>2. \A i \in 1..r.size : At(r, i - 1) \in UnitSet
  <2> SUFFICES ASSUME NEW i \in 1..r.size PROVE At(r, i - 1) \in UnitSet
    OBVIOUS
  <2>1. i - 1 \in 0..(RingSize - 1)
    BY <1>1
  <2> QED BY <1>1, <2>1, Places DEF At
<1>3. r.size \in Nat
  BY <1>1
<1>4. /\ Contents(r) \in Seq(UnitSet) /\ Len(Contents(r)) = r.size
      /\ \A i \in 1..r.size : Contents(r)[i] = At(r, i - 1)
  BY <1>2, <1>3 DEF Contents
<1> HIDE DEF Contents
<1>5. \A i \in 1..Len(w) : r.size + i \in (r.size + 1)..(r.size + Len(w))
  BY <1>3
<1>6. /\ UnreadOf(r, w) \in Seq(UnitSet) /\ Len(UnreadOf(r, w)) = r.size + Len(w)
      /\ \A i \in 1..r.size : UnreadOf(r, w)[i] = At(r, i - 1)
  <2>1. Len(w) \in Nat /\ \A i \in 1..r.size : i \in 1..(r.size + Len(w))
    BY <1>3
  <2> DEFINE s == Contents(r)
  <2> HIDE DEF s
  <2>2. s \in Seq(UnitSet) /\ Len(s) = r.size /\ \A i \in 1..r.size : s[i] = At(r, i - 1)
    BY <1>4 DEF s
  <2>3. s \o w \in Seq(UnitSet) /\ Len(s \o w) = r.size + Len(w)
    <3>1. s \in Seq(UnitSet) /\ Len(s) = r.size
      BY <2>2
    <3>2. s \o w \in Seq(UnitSet) /\ Len(s \o w) = Len(s) + Len(w)
      BY <3>1
    <3> QED BY <3>1, <3>2
  <2>4. \A i \in 1..r.size : (s \o w)[i] = s[i]
    BY <1>3, <2>1, <2>2
  <2> QED BY <2>2, <2>3, <2>4 DEF UnreadOf, s
<1>7. \A i \in 1..Len(w) : UnreadOf(r, w)[r.size + i] = w[i]
  BY <1>4, <1>5 DEF UnreadOf
<1> QED BY <1>1, <1>3, <1>6, <1>7

\* Two sequences are the same when their elements are.
LEMMA SameSequence ==
    ASSUME NEW s \in Seq(UnitSet), NEW t \in Seq(UnitSet), Len(s) = Len(t),
           \A i \in 1..Len(s) : s[i] = t[i]
    PROVE  s = t
OBVIOUS

\* Two sequences after one another.
LEMMA Joined ==
    ASSUME NEW s \in Seq(UnitSet), NEW t \in Seq(UnitSet)
    PROVE  /\ s \o t \in Seq(UnitSet) /\ Len(s \o t) = Len(s) + Len(t)
           /\ \A i \in 1..Len(s) : (s \o t)[i] = s[i]
           /\ \A i \in (Len(s) + 1)..(Len(s) + Len(t)) : (s \o t)[i] = t[i - Len(s)]
OBVIOUS

\* What is sent comes after what is not yet processed.
LEMMA Sent ==
    ASSUME NEW r \in Rings, NEW w \in Seq(UnitSet), NEW u \in Seq(UnitSet)
    PROVE  /\ w \o u \in Seq(UnitSet)
           /\ UnreadOf(r, w \o u) = UnreadOf(r, w) \o u
<1> DEFINE x == UnreadOf(r, w)
           y == w \o u
           z == UnreadOf(r, y)
<1>1. /\ y \in Seq(UnitSet) /\ Len(y) = Len(w) + Len(u)
      /\ \A i \in 1..Len(w) : y[i] = w[i]
      /\ \A i \in 1..Len(u) : y[Len(w) + i] = u[i]
  OBVIOUS
<1>2. /\ x \in Seq(UnitSet) /\ Len(x) = r.size + Len(w) /\ r.size \in Nat
      /\ \A i \in 1..r.size : x[i] = At(r, i - 1)
      /\ \A i \in 1..Len(w) : x[r.size + i] = w[i]
  BY UnreadFacts
<1> HIDE DEF y
<1>3. /\ z \in Seq(UnitSet) /\ Len(z) = r.size + Len(y)
      /\ \A i \in 1..r.size : z[i] = At(r, i - 1)
      /\ \A i \in 1..Len(y) : z[r.size + i] = y[i]
  BY <1>1, UnreadFacts
<1> HIDE DEF x, z
<1> DEFINE a == r.size
           b == Len(w)
           d == Len(u)
<1>4. a \in Nat /\ b \in Nat /\ d \in Nat /\ Len(z) = a + b + d /\ Len(x) = a + b
  BY <1>1, <1>2, <1>3
<1>5. /\ x \o u \in Seq(UnitSet) /\ Len(x \o u) = Len(x) + d
      /\ \A i \in 1..Len(x) : (x \o u)[i] = x[i]
      /\ \A i \in (Len(x) + 1)..(Len(x) + d) : (x \o u)[i] = u[i - Len(x)]
  BY <1>2, Joined
<1> HIDE DEF a, b, d
<1>6. ASSUME NEW i \in 1..Len(z) PROVE z[i] = (x \o u)[i]
  <2>1. CASE i \in 1..a
    <3>1. i \in 1..Len(x)
      BY <1>4, <2>1
    <3> QED BY <1>2, <1>3, <1>5, <2>1, <3>1 DEF a
  <2>2. CASE i \in (a + 1)..(a + b)
    <3>1. i - a \in 1..b /\ a + (i - a) = i /\ i - a \in 1..Len(y) /\ i \in 1..Len(x)
      BY <1>1, <1>4, <2>2 DEF b
    <3>2. z[i] = w[i - a]
      BY <1>1, <1>3, <3>1 DEF a, b
    <3>3. x[i] = w[i - a]
      BY <1>2, <3>1 DEF a, b
    <3> QED BY <1>5, <3>1, <3>2, <3>3
  <2>3. CASE i \in (a + b + 1)..(a + b + d)
    <3>1. /\ i - a - b \in 1..d /\ a + (b + (i - a - b)) = i /\ i - Len(x) = i - a - b
          /\ i \in (Len(x) + 1)..(Len(x) + d)
      BY <1>4, <2>3
    <3>2. b + (i - a - b) \in 1..Len(y)
      BY <1>1, <1>4, <3>1 DEF b, d
    <3>3. z[i] = u[i - a - b]
      BY <1>1, <1>3, <3>1, <3>2 DEF a, b, d
    <3> QED BY <1>5, <3>1, <3>3
  <2>4. i \in 1..a \/ i \in (a + 1)..(a + b) \/ i \in (a + b + 1)..(a + b + d)
    BY <1>4
  <2> QED BY <2>1, <2>2, <2>3, <2>4
<1>7. z = x \o u
  <2>1. Len(z) = Len(x \o u)
    BY <1>4, <1>5
  <2> HIDE DEF a, b, d
  <2> DEFINE v == x \o u
  <2> HIDE DEF v
  <2>2. v \in Seq(UnitSet) /\ Len(z) = Len(v) /\ \A i \in 1..Len(z) : z[i] = v[i]
    BY <1>5, <1>6, <2>1 DEF v
  <2>3. z = v
    BY <1>3, <2>2, SameSequence
  <2> QED BY <2>3 DEF v
<1> QED BY <1>1, <1>7 DEF x, y, z

\* What is read, and fits into the ring, is what it was and where it was.
LEMMA ReadIntoRing ==
    ASSUME NEW r \in Rings, NEW w \in Seq(UnitSet), NEW n \in 1..Len(w),
           r.size + n <= RingSize
    PROVE  LET q == PushAll(r, SubSeq(w, 1, n))
               v == SubSeq(w, n + 1, Len(w))
           IN  /\ q \in Rings /\ v \in Seq(UnitSet)
               /\ UnreadOf(q, v) = UnreadOf(r, w)
<1> DEFINE p == SubSeq(w, 1, n)
           v == SubSeq(w, n + 1, Len(w))
           q == PushAll(r, p)
           x == UnreadOf(r, w)
           z == UnreadOf(q, v)
<1>1. /\ p \in Seq(UnitSet) /\ Len(p) = n /\ \A i \in 1..n : p[i] = w[i]
  OBVIOUS
<1>2. /\ v \in Seq(UnitSet) /\ Len(v) = Len(w) - n
      /\ \A i \in 1..(Len(w) - n) : v[i] = w[n + i]
  OBVIOUS
<1> HIDE DEF p, v
<1>3. /\ q \in Rings /\ q.size = r.size + Len(p)
      /\ \A i \in 0..(r.size - 1) : At(q, i) = At(r, i)
      /\ \A i \in 1..Len(p) : At(q, r.size + i - 1) = p[i]
  BY <1>1, PushAllFacts
<1> HIDE DEF q
<1>4. /\ x \in Seq(UnitSet) /\ Len(x) = r.size + Len(w) /\ r.size \in Nat
      /\ \A i \in 1..r.size : x[i] = At(r, i - 1)
      /\ \A i \in 1..Len(w) : x[r.size + i] = w[i]
  BY UnreadFacts
<1>5. /\ z \in Seq(UnitSet) /\ Len(z) = q.size + Len(v)
      /\ \A i \in 1..q.size : z[i] = At(q, i - 1)
      /\ \A i \in 1..Len(v) : z[q.size + i] = v[i]
  BY <1>2, <1>3, UnreadFacts
<1> HIDE DEF x, z
<1> DEFINE a == r.size
           b == Len(w)
<1>6. /\ a \in Nat /\ b \in Nat /\ n \in 1..b /\ q.size = a + n
      /\ Len(z) = a + b /\ Len(x) = a + b
  BY <1>1, <1>2, <1>3, <1>4, <1>5
<1> HIDE DEF a, b
<1>7. ASSUME NEW i \in 1..Len(z) PROVE z[i] = x[i]
  <2>1. CASE i \in 1..a
    <3>1. i \in 1..q.size /\ i - 1 \in 0..(a - 1)
      BY <1>6, <2>1
    <3> QED BY <1>3, <1>4, <1>5, <2>1, <3>1 DEF a
  <2>2. CASE i \in (a + 1)..(a + n)
    <3>1. i \in 1..q.size /\ i - a \in 1..n /\ a + (i - a) = i /\ i - a \in 1..b
      BY <1>6, <2>2
    <3>2. z[i] = p[i - a]
      <4>1. i - 1 = a + (i - a) - 1 /\ i - a \in 1..Len(p)
        BY <1>1, <1>6, <3>1
      <4>2. z[i] = At(q, i - 1)
        BY <1>5, <3>1
      <4> QED BY <1>3, <4>1, <4>2 DEF a
    <3>3. p[i - a] = w[i - a]
      BY <1>1, <3>1
    <3>4. x[i] = w[i - a]
      BY <1>4, <3>1 DEF a, b
    <3> QED BY <3>2, <3>3, <3>4
  <2>3. CASE i \in (a + n + 1)..(a + b)
    <3>1. /\ i - a - n \in 1..(b - n) /\ (a + n) + (i - a - n) = i
          /\ i - a \in 1..b /\ a + (i - a) = i /\ n + (i - a - n) = i - a
      BY <1>6, <2>3
    <3>2. z[i] = v[i - a - n]
      BY <1>2, <1>5, <1>6, <3>1 DEF b
    <3>3. v[i - a - n] = w[i - a]
      BY <1>2, <3>1 DEF b
    <3>4. x[i] = w[i - a]
      BY <1>4, <3>1 DEF a, b
    <3> QED BY <3>2, <3>3, <3>4
  <2> QED BY <1>6, <2>1, <2>2, <2>3
<1>8. z = x
  BY <1>4, <1>5, <1>6, <1>7, SameSequence
<1> QED BY <1>2, <1>3, <1>8 DEF p, v, q, x, z

\* What is taken off the ring is the beginning of what is not yet processed.
LEMMA TakenOff ==
    ASSUME NEW r \in Rings, NEW w \in Seq(UnitSet), NEW m \in 0..r.size
    PROVE  LET s == UnreadOf(r, w)
               t == UnreadOf(PopAll(r, m), w)
           IN  /\ PopAll(r, m) \in Rings /\ t \in Seq(UnitSet)
               /\ Len(t) = Len(s) - m /\ \A i \in 1..Len(t) : t[i] = s[i + m]
<1> DEFINE q == PopAll(r, m)
           s == UnreadOf(r, w)
           t == UnreadOf(q, w)
           b == Len(w)
<1>1. /\ q \in Rings /\ q.size = r.size - m
      /\ \A i \in 0..(r.size - m - 1) : At(q, i) = At(r, i + m)
  BY PopAllFacts
<1> HIDE DEF q
<1>2. /\ s \in Seq(UnitSet) /\ Len(s) = r.size + b /\ r.size \in Nat /\ b \in Nat
      /\ \A i \in 1..r.size : s[i] = At(r, i - 1)
      /\ \A i \in 1..b : s[r.size + i] = w[i]
  <2>1. b \in Nat
    OBVIOUS
  <2>2. /\ s \in Seq(UnitSet) /\ Len(s) = r.size + b /\ r.size \in Nat
        /\ \A i \in 1..r.size : s[i] = At(r, i - 1)
        /\ \A i \in 1..b : s[r.size + i] = w[i]
    BY UnreadFacts
  <2> HIDE DEF s, b
  <2> QED BY <2>1, <2>2
<1>3. /\ t \in Seq(UnitSet) /\ Len(t) = q.size + b
      /\ \A i \in 1..q.size : t[i] = At(q, i - 1)
      /\ \A i \in 1..b : t[q.size + i] = w[i]
  BY <1>1, UnreadFacts
<1> HIDE DEF s, t, b
<1>4. m \in 0..r.size /\ m \in Nat /\ Len(t) = r.size + b - m /\ q.size = r.size - m
  BY <1>1, <1>2, <1>3
<1>5. ASSUME NEW i \in 1..Len(t) PROVE t[i] = s[i + m]
  <2>1. CASE i \in 1..q.size
    <3>1. /\ i - 1 \in 0..(r.size - m - 1) /\ i + m \in 1..r.size
          /\ (i + m) - 1 = (i - 1) + m
      BY <1>2, <1>4, <2>1
    <3>2. t[i] = At(q, i - 1) /\ s[i + m] = At(r, (i - 1) + m)
      <4>1. t[i] = At(q, i - 1)
        BY <1>3, <2>1
      <4>2. s[i + m] = At(r, (i + m) - 1)
        BY <1>2, <3>1
      <4> QED BY <3>1, <4>1, <4>2
    <3> QED BY <1>1, <3>1, <3>2
  <2>2. CASE i \in (q.size + 1)..(q.size + b)
    <3>1. /\ i - q.size \in 1..b /\ q.size + (i - q.size) = i
          /\ r.size + (i - q.size) = i + m
      <4>1. /\ r.size \in Nat /\ b \in Nat /\ m \in 0..r.size /\ q.size = r.size - m
        BY <1>2, <1>4
      <4>2. q.size \in Nat /\ i \in Nat /\ q.size < i /\ i <= q.size + b
        BY <2>2, <4>1
      <4>3. ASSUME NEW x \in Nat, NEW y \in Nat, x = y - m, x < i, i <= x + b
            PROVE  i - x \in 1..b /\ x + (i - x) = i /\ y + (i - x) = i + m
        BY <4>1, <4>2, <4>3
      <4> QED BY <4>1, <4>2, <4>3
    <3>2. t[i] = w[i - q.size]
      BY <1>3, <3>1
    <3>3. s[i + m] = w[i - q.size]
      BY <1>2, <3>1
    <3> QED BY <3>2, <3>3
  <2> QED BY <1>2, <1>3, <1>4, <2>1, <2>2
<1> QED BY <1>1, <1>2, <1>3, <1>4, <1>5 DEF q, s, t, b

-----------------------------------------------------------------------------
(* The line *)

\* The part of the invariant that is about the line.
LineInv ==
    /\ ring \in Rings /\ wire \in Seq(UnitSet) /\ processing \in BOOLEAN
    /\ Whole(Unread) /\ NothingWaits

\* The ring has what is first in what is not yet processed.
LEMMA LineFacts ==
    ASSUME LineInv
    PROVE  /\ Unread = UnreadOf(ring, wire) /\ Unread \in Seq(UnitSet)
           /\ Len(Unread) = ring.size + Len(wire) /\ ring.size \in Nat /\ Len(wire) \in Nat
           /\ \A i \in 1..ring.size : Unread[i] = At(ring, i - 1)
<1>1. ring \in Rings /\ wire \in Seq(UnitSet)
  BY DEF LineInv
<1>2. Unread = UnreadOf(ring, wire)
  BY DEF Unread, UnreadOf
<1>3. Len(wire) \in Nat
  BY <1>1
<1> QED BY <1>1, <1>2, <1>3, UnreadFacts

\* A ring with anything in it has the first command of the line.
LEMMA RingHead ==
    ASSUME LineInv, ring.size > 0
    PROVE  /\ IsLabelled(ring) /\ At(ring, 0) = Unread[1] /\ Len(Unread) > 0
           /\ ring.size > 1 => At(ring, 1) = <<Unread[1][1], 2>>
           /\ ring.size > 2 /\ Length(Unread[1][1]) = 3 => At(ring, 2) = <<Unread[1][1], 3>>
<1> DEFINE c == Unread[1][1]
<1>1. /\ Unread \in Seq(UnitSet) /\ Len(Unread) > 0 /\ ring.size \in Nat
      /\ \A i \in 1..ring.size : Unread[i] = At(ring, i - 1)
  BY LineFacts
<1>2. Whole(Unread)
  BY DEF LineInv
<1>3. /\ c \in Commands /\ HasHandler(c) /\ Length(c) \in {2, 3}
      /\ \A k \in 1..Length(c) : Unread[k] = <<c, k>>
  BY <1>1, <1>2, FirstCommand, CommandFacts
<1> HIDE DEF c
<1>4. At(ring, 0) = <<c, 1>> /\ At(ring, 0) = Unread[1]
  <2>1. 1 \in 1..ring.size /\ 1 \in 1..Length(c) /\ 1 - 1 = 0
    BY <1>1, <1>3
  <2> QED BY <1>1, <1>3, <2>1
<1>5. ring.size > 1 => At(ring, 1) = <<c, 2>>
  <2> SUFFICES ASSUME ring.size > 1 PROVE At(ring, 1) = <<c, 2>>
    OBVIOUS
  <2>1. 2 \in 1..ring.size /\ 2 \in 1..Length(c) /\ 2 - 1 = 1
    BY <1>1, <1>3
  <2> QED BY <1>1, <1>3, <2>1
<1>6. ring.size > 2 /\ Length(c) = 3 => At(ring, 2) = <<c, 3>>
  <2> SUFFICES ASSUME ring.size > 2, Length(c) = 3 PROVE At(ring, 2) = <<c, 3>>
    OBVIOUS
  <2>1. 3 \in 1..ring.size /\ 3 \in 1..Length(c) /\ 3 - 1 = 2
    BY <1>1
  <2> QED BY <1>1, <1>3, <2>1
<1>7. IsLabelled(ring)
  BY <1>3, <1>4 DEF IsLabelled
<1> QED BY <1>1, <1>4, <1>5, <1>6, <1>7 DEF c

\* Outside of onRequest, there is room in the ring for what is read at once.
LEMMA RingHasRoom ==
    ASSUME LineInv, ~processing
    PROVE  ring.size \in 0..2
<1>1. ring.size \in Nat
  BY LineFacts
<1>2. CASE ring.size > 0
  <2>1. IsLabelled(ring) /\ ~IsEnoughData(ring) /\ Len(Unread) > 0
        /\ (ring.size > 1 => At(ring, 1) = <<Unread[1][1], 2>>)
    BY <1>2, RingHead DEF LineInv, NothingWaits
  <2>2. Length(Unread[1][1]) \in {2, 3}
    BY <2>1, LineFacts, FirstCommand, CommandFacts DEF LineInv
  <2> QED BY <1>1, <2>1, <2>2 DEF IsEnoughData
<1> QED BY <1>1, <1>2

\* Another command comes on the line.
LEMMA LineExtended ==
    ASSUME LineInv, NEW c \in Commands, HasHandler(c),
           wire' = wire \o Units(c), UNCHANGED <<ring, processing>>
    PROVE  /\ LineInv'
           /\ ~Answering(c) => /\ NoAnswer(Unread) => NoAnswer(Unread')
                               /\ \A p : OneAnswer(Unread, p) => OneAnswer(Unread', p)
           /\ Answering(c) /\ NoAnswer(Unread) => OneAnswer(Unread', c.probe)
<1>1. /\ ring \in Rings /\ wire \in Seq(UnitSet) /\ Units(c) \in Seq(UnitSet)
      /\ Whole(Unread) /\ Unread \in Seq(UnitSet) /\ Unread = UnreadOf(ring, wire)
  BY LineFacts, CommandFacts DEF LineInv
<1>2. wire' \in Seq(UnitSet) /\ UnreadOf(ring, wire') = Unread \o Units(c)
  BY <1>1, Sent
<1>3. Unread' = Unread \o Units(c)
  BY <1>2 DEF Unread, UnreadOf
<1>4. NothingWaits'
  BY DEF LineInv, NothingWaits
<1> DEFINE t == Unread \o Units(c)
<1>5. /\ Whole(t)
      /\ ~Answering(c) => /\ NoAnswer(Unread) => NoAnswer(t)
                          /\ \A p : OneAnswer(Unread, p) => OneAnswer(t, p)
      /\ Answering(c) /\ NoAnswer(Unread) => OneAnswer(t, c.probe)
  BY <1>1, Extended
<1> HIDE DEF t
<1>6. Unread' = t
  BY <1>3 DEF t
<1>7. Whole(Unread')
  BY <1>5, <1>6
<1>8. LineInv'
  BY <1>1, <1>2, <1>4, <1>7 DEF LineInv
<1> QED BY <1>5, <1>6, <1>8

\* What is read was on the line before.
LEMMA LineRead ==
    ASSUME LineInv, ReadSize + 2 <= RingSize, NEW n \in 1..ReadSize, Receive(n)
    PROVE  LineInv' /\ Unread' = Unread
<1>1. /\ ring \in Rings /\ wire \in Seq(UnitSet) /\ Unread = UnreadOf(ring, wire)
      /\ Len(wire) \in Nat
  BY LineFacts DEF LineInv
<1>2. n \in 1..Len(wire) /\ ring.size + n <= RingSize
  <2>1. n <= Len(wire) /\ ring.size \in 0..2
    BY RingHasRoom DEF Receive
  <2> QED BY <1>1, <2>1, CommandSessionAssumption
<1>3. ring' = PushAll(ring, SubSeq(wire, 1, n)) /\ wire' = SubSeq(wire, n + 1, Len(wire))
  BY DEF Receive, PushAll
<1>4. ring' \in Rings /\ wire' \in Seq(UnitSet) /\ UnreadOf(ring', wire') = Unread
  BY <1>1, <1>2, <1>3, ReadIntoRing
<1>5. Unread' = Unread
  BY <1>4 DEF Unread, UnreadOf
<1>6. processing' = TRUE
  BY DEF Receive
<1> QED BY <1>4, <1>5, <1>6 DEF LineInv, NothingWaits

\* A handler runs for the first command of the line, which is then taken off.
LEMMA LineHandled ==
    ASSUME LineInv, NEW c \in Commands, Handle(c)
    PROVE  /\ LineInv' /\ UNCHANGED <<playing, pings, others>>
           /\ NoAnswer(Unread) => ~Answering(c) /\ NoAnswer(Unread')
           /\ \A p : OneAnswer(Unread, p) =>
                 IF Answering(c) THEN c.probe = p /\ NoAnswer(Unread')
                 ELSE OneAnswer(Unread', p)
<1> DEFINE d == Unread[1][1]
           m == Length(d)
<1>1. /\ ring \in Rings /\ wire \in Seq(UnitSet) /\ Unread \in Seq(UnitSet)
      /\ Unread = UnreadOf(ring, wire) /\ Whole(Unread) /\ ring.size \in Nat
  BY LineFacts DEF LineInv
<1>2. /\ ring.size > 1 /\ IsLabelled(ring) /\ IsEnoughData(ring)
      /\ At(ring, 0)[1].label = c.label
      /\ c.label = "STAT" => At(ring, 2)[1] = c
      /\ ring' = PopAll(ring, Length(At(ring, 1)[1]))
      /\ processing' = (Length(At(ring, 1)[1]) > 0)
      /\ UNCHANGED <<wire, playing, pings, others>>
  BY DEF Handle, IsEnoughData, ProcessedSize, IsLooped
<1>3. /\ At(ring, 0)[1] = d /\ At(ring, 1)[1] = d /\ Len(Unread) > 0
      /\ ring.size > 2 /\ m = 3 => At(ring, 2)[1] = d
  BY <1>1, <1>2, RingHead
<1>4. d \in Commands /\ m \in {2, 3} /\ HasHandler(d)
  BY <1>1, <1>3, FirstCommand, CommandFacts
<1>5. m \in 0..ring.size
  BY <1>1, <1>2, <1>3, <1>4 DEF IsEnoughData
<1>6. d = c
  <2>1. d.label = c.label /\ d.label \in {"HELO", "SETD", "STAT"}
    BY <1>2, <1>3, <1>4 DEF HasHandler
  <2>2. CASE d.label = "STAT"
    <3>1. m = 3
      BY <1>4, <2>2, CommandFacts
    <3>2. ring.size > 2
      BY <1>1, <1>5, <3>1
    <3> QED BY <1>2, <1>3, <2>1, <2>2, <3>1, <3>2
  <2>3. CASE d.label = "HELO"
    BY <1>4, <2>1, <2>3, CommandFacts
  <2>4. CASE d.label = "SETD"
    BY <1>4, <2>1, <2>4, CommandFacts
  <2> QED BY <2>1, <2>2, <2>3, <2>4
<1> DEFINE t == UnreadOf(PopAll(ring, m), wire)
<1>7. ring' = PopAll(ring, m) /\ wire' = wire /\ processing' = TRUE
  <2>1. Length(At(ring, 1)[1]) = m
    BY <1>3
  <2>2. (m > 0) = TRUE
    BY <1>4
  <2> QED BY <1>2, <2>1, <2>2
<1>8. /\ PopAll(ring, m) \in Rings /\ t \in Seq(UnitSet) /\ Len(t) = Len(Unread) - m
      /\ \A i \in 1..Len(t) : t[i] = Unread[i + m]
  BY <1>1, <1>5, TakenOff
<1>9. Unread' = t
  BY <1>7 DEF Unread, UnreadOf
<1> HIDE DEF t
<1>10. /\ Whole(t)
       /\ NoAnswer(Unread) => ~Answering(d) /\ NoAnswer(t)
       /\ \A p : OneAnswer(Unread, p) =>
             IF Answering(d) THEN d.probe = p /\ NoAnswer(t) ELSE OneAnswer(t, p)
  BY <1>1, <1>3, <1>8, Dropped
<1> HIDE DEF d, m
<1>11. LineInv'
  <2>1. Whole(Unread')
    BY <1>9, <1>10
  <2> QED BY <1>1, <1>7, <1>8, <2>1 DEF LineInv, NothingWaits
<1> QED BY <1>2, <1>6, <1>9, <1>10, <1>11

\* Nothing is skipped when the loop of onRequest is left.
LEMMA LineLeft ==
    ASSUME LineInv, Leave
    PROVE  LineInv' /\ Unread' = Unread
<1>1. ring.size \in Nat
  BY LineFacts
<1>2. UNCHANGED <<ring, wire>> /\ processing' = FALSE
  BY <1>1, RingHead DEF Leave
<1>3. Unread' = Unread
  BY <1>2 DEF Unread
<1>4. NothingWaits'
  BY <1>2 DEF Leave, NothingWaits
<1> QED BY <1>2, <1>3, <1>4 DEF LineInv

\* Other steps leave the line as it is.
LEMMA LineKept ==
    ASSUME LineInv, UNCHANGED lineVars
    PROVE  LineInv' /\ Unread' = Unread
<1>1. Unread' = Unread
  BY DEF lineVars, Unread
<1>2. NothingWaits'
  BY DEF LineInv, lineVars, NothingWaits
<1> QED BY <1>1, <1>2 DEF LineInv, lineVars

-----------------------------------------------------------------------------
(* The chain of probes *)

\* The part of TypeOK that is not about the line.
ProbeTypes ==
    /\ commandHELO \in BOOLEAN /\ playing \in BOOLEAN
    /\ probes \in Seq({"zero", "measured", "disturbed"}) /\ Len(probes) <= capacity
    /\ capacity \in 1..MaxCapacity
    /\ measuringLatency \in BOOLEAN
    /\ timeOffset \in {"none", "zero", "measured", "disturbed"}
    /\ pingTimer \in BOOLEAN
    /\ tasks \in Seq(1..MaxCapacity) /\ pings \in Seq(1..MaxCapacity)
    /\ others \in 0..MaxOthers

\* The invariant is that of the line and that of the probes.
LEMMA InvariantParts ==
    /\ IInv <=> LineInv /\ ProbeTypes /\ (Idle \/ Probing) /\ OffsetMeasured
    /\ IInv' <=> LineInv' /\ ProbeTypes' /\ (Idle' \/ Probing') /\ OffsetMeasured'
BY DEF IInv, LineInv, ProbeTypes, TypeOK, UnitSet, Rings

\* The numbers that the proofs about probes need.
LEMMA ProbeFacts ==
    ASSUME IInv
    PROVE  /\ ProbeTypes /\ LineInv /\ (Idle \/ Probing) /\ OffsetMeasured
           /\ Len(probes) \in Nat /\ capacity \in Nat /\ MaxCapacity \in Nat
           /\ InitialProbes \in Nat \ {0} /\ 2 * InitialProbes <= MaxCapacity
           /\ Skipped \in 0..InitialProbes
           /\ probes # <<>> => Len(probes) \in 1..MaxCapacity /\ Len(probes) \in 1..capacity
<1>1. /\ ProbeTypes /\ LineInv /\ (Idle \/ Probing) /\ OffsetMeasured
  BY InvariantParts
<1>2. /\ probes \in Seq({"zero", "measured", "disturbed"}) /\ Len(probes) <= capacity
      /\ capacity \in 1..MaxCapacity
  BY <1>1 DEF ProbeTypes
<1>3. /\ MaxCapacity \in Nat /\ InitialProbes \in Nat \ {0}
      /\ 2 * InitialProbes <= MaxCapacity /\ Skipped \in 0..InitialProbes
  BY CommandSessionAssumption
<1>4. Len(probes) \in Nat /\ (probes # <<>> => Len(probes) # 0)
  BY <1>2
<1> QED BY <1>1, <1>2, <1>3, <1>4

\* Where the answer of the chain may be.
LEMMA Quiet ==
    ASSUME Idle \/ Probing
    PROVE  NoAnswer(Unread) \/ OneAnswer(Unread, Len(probes))
BY DEF Idle, Probing

\* A step that keeps the probes, and the answer where it was, keeps the invariant.
LEMMA ProbesKept ==
    ASSUME IInv, LineInv', UNCHANGED <<probes, capacity, timeOffset, pingTimer, tasks,
                                       commandHELO, pings>>,
           measuringLatency' \in BOOLEAN, playing' \in BOOLEAN, others' \in 0..MaxOthers,
           NoAnswer(Unread) => NoAnswer(Unread'),
           OneAnswer(Unread, Len(probes)) => OneAnswer(Unread', Len(probes))
    PROVE  IInv'
<1>1. ProbeTypes /\ (Idle \/ Probing) /\ OffsetMeasured
  BY ProbeFacts
<1>2. ProbeTypes' /\ OffsetMeasured'
  BY <1>1 DEF ProbeTypes, OffsetMeasured
<1>3. CASE Idle
  <2>1. Idle'
    BY <1>3 DEF Idle
  <2> QED BY <1>2, <2>1, InvariantParts
<1>4. CASE Probing
  <2>1. Probing'
    BY <1>4 DEF Probing
  <2> QED BY <1>2, <2>1, InvariantParts
<1> QED BY <1>1, <1>3, <1>4

\* The commands that are not answers to pings.
LEMMA OtherCommands ==
    /\ HELO \in Commands /\ SETD \in Commands /\ STMs \in Commands
    /\ ~Answering(HELO) /\ ~Answering(SETD) /\ ~Answering(STMs) /\ ~Answering(STMt(0))
    /\ \A i \in 0..MaxCapacity :
          /\ STMt(i) \in Commands /\ STMt(i).probe = i /\ HasHandler(STMt(i))
          /\ i # 0 => Answering(STMt(i))
    /\ \A c \in Commands : c # META => HasHandler(c)
    /\ \A c \in Commands \ {STMt(i) : i \in 1..MaxCapacity} : ~Answering(c)
<1>1. MaxCapacity \in Nat
  BY CommandSessionAssumption
<1>2. /\ HELO \in Commands /\ SETD \in Commands /\ STMs \in Commands
      /\ ~Answering(HELO) /\ ~Answering(SETD) /\ ~Answering(STMs) /\ ~Answering(STMt(0))
      /\ HasHandler(HELO) /\ HasHandler(SETD) /\ HasHandler(STMs)
  BY DEF Commands, Answering, Command, HELO, SETD, STMs, STMt, HasHandler
<1>3. ASSUME NEW i \in 0..MaxCapacity
      PROVE  /\ STMt(i) \in Commands /\ STMt(i).probe = i /\ HasHandler(STMt(i))
             /\ i # 0 => Answering(STMt(i))
  BY DEF Commands, Answering, Command, STMt, HasHandler
<1>4. ASSUME NEW c \in Commands, c # META PROVE HasHandler(c)
  <2>1. c \in {HELO, SETD, STMs} \/ \E i \in 0..MaxCapacity : c = STMt(i)
    BY <1>4 DEF Commands
  <2> QED BY <1>2, <1>3, <2>1
<1>5. ASSUME NEW c \in Commands \ {STMt(i) : i \in 1..MaxCapacity} PROVE ~Answering(c)
  <2> SUFFICES ASSUME Answering(c) PROVE FALSE
    OBVIOUS
  <2>1. c = STMt(c.probe) /\ c.probe \in 0..MaxCapacity /\ c.probe # 0
    BY CommandFacts DEF Answering
  <2>2. c.probe \in 1..MaxCapacity
    BY <1>1, <2>1
  <2> QED BY <2>1, <2>2
<1> QED BY <1>2, <1>3, <1>4, <1>5

-----------------------------------------------------------------------------
(* Steps of the client *)

\* A command of the client that answers no ping leaves the chain where it is.
LEMMA SayIInv ==
    ASSUME IInv, ~Unsupported, NEW c \in Commands \ {STMt(i) : i \in 1..MaxCapacity}, Say(c)
    PROVE  IInv'
<1>1. c \in Commands /\ ~Answering(c) /\ HasHandler(c)
  BY OtherCommands DEF Say
<1>2. /\ LineInv' /\ (NoAnswer(Unread) => NoAnswer(Unread'))
      /\ \A p : OneAnswer(Unread, p) => OneAnswer(Unread', p)
  BY <1>1, ProbeFacts, LineExtended DEF Say
<1>3. others' \in 0..MaxOthers
  BY ProbeFacts, CommandSessionAssumption DEF Say, ProbeTypes
<1>4. ProbeTypes
  BY ProbeFacts
<1> QED BY <1>2, <1>3, <1>4, ProbesKept DEF Say, probeVars, ProbeTypes

\* A ping gives way to its answer.
LEMMA AnswerIInv == ASSUME IInv, Answer PROVE IInv'
<1> DEFINE p == Len(probes)
           c == STMt(p)
<1>1. pings = <<p>> /\ Probing /\ tasks = <<>> /\ NoAnswer(Unread) /\ p \in 1..MaxCapacity
  BY ProbeFacts DEF Answer, Idle, Probing
<1>2. c \in Commands /\ c.probe = p /\ HasHandler(c) /\ Answering(c)
  BY <1>1, ProbeFacts, OtherCommands
<1>3. wire' = wire \o Units(c) /\ pings' = <<>>
  BY <1>1 DEF Answer
<1> HIDE DEF c
<1>4. LineInv' /\ OneAnswer(Unread', c.probe)
  BY <1>1, <1>2, <1>3, ProbeFacts, LineExtended DEF Answer
<1>5. Probing'
  BY <1>1, <1>2, <1>3, <1>4 DEF Probing, Answer, probeVars
<1>6. ProbeTypes' /\ OffsetMeasured'
  BY <1>3, ProbeFacts DEF ProbeTypes, OffsetMeasured, Answer, probeVars
<1> QED BY <1>4, <1>5, <1>6, InvariantParts

-----------------------------------------------------------------------------
(* Steps of onRequest *)

\* What is read goes from the connection to the ring.
LEMMA ReceiveIInv ==
    ASSUME IInv, ReadSize + 2 <= RingSize, NEW n \in 1..ReadSize, Receive(n)
    PROVE  IInv'
<1>1. LineInv' /\ Unread' = Unread /\ ProbeTypes
  BY ProbeFacts, LineRead
<1> QED BY <1>1, ProbesKept DEF Receive, probeVars, ProbeTypes

\* The loop of onRequest is left.
LEMMA LeaveIInv == ASSUME IInv, Leave PROVE IInv'
<1>1. LineInv' /\ Unread' = Unread /\ ProbeTypes
  BY ProbeFacts, LineLeft
<1> QED BY <1>1, ProbesKept DEF Leave, probeVars, ProbeTypes

\* The first HELO starts the chain with the timer; another one changes nothing of it.
LEMMA HELOIInv == ASSUME IInv, OnHELO PROVE IInv'
<1>1. /\ LineInv' /\ UNCHANGED <<playing, pings, others>>
      /\ NoAnswer(Unread) => NoAnswer(Unread')
      /\ \A p : OneAnswer(Unread, p) => OneAnswer(Unread', p)
  BY ProbeFacts, LineHandled, OtherCommands DEF OnHELO
<1>2. ProbeTypes /\ (Idle \/ Probing) /\ OffsetMeasured
  BY ProbeFacts
<1>3. /\ measuringLatency' = FALSE /\ commandHELO' = TRUE
      /\ pingTimer' = (pingTimer \/ ~commandHELO)
      /\ UNCHANGED <<probes, capacity, timeOffset, tasks>>
  BY DEF OnHELO
<1>4. ProbeTypes' /\ OffsetMeasured'
  BY <1>1, <1>2, <1>3 DEF ProbeTypes, OffsetMeasured
<1>5. CASE Idle
  <2>1. pingTimer' = TRUE
    <3>1. pingTimer \/ ~commandHELO
      BY <1>5 DEF Idle
    <3> QED BY <1>3, <3>1
  <2>2. Idle'
    BY <1>1, <1>3, <1>5, <2>1 DEF Idle
  <2> QED BY <1>1, <1>4, <2>2, InvariantParts
<1>6. CASE Probing
  <2>1. ~pingTimer'
    BY <1>3, <1>6 DEF Probing
  <2>2. Probing'
    BY <1>1, <1>3, <1>6, <2>1 DEF Probing
  <2> QED BY <1>1, <1>4, <2>2, InvariantParts
<1> QED BY <1>2, <1>5, <1>6

\* SETD, RESP, DSCO and the events of STAT that are not STMt.
LEMMA OtherIInv == ASSUME IInv, OnOther PROVE IInv'
<1>1. PICK c \in {SETD, STMs} : Handle(c)
  BY DEF OnOther
<1>2. /\ LineInv' /\ UNCHANGED <<playing, pings, others>>
      /\ NoAnswer(Unread) => NoAnswer(Unread')
      /\ \A p : OneAnswer(Unread, p) => OneAnswer(Unread', p)
  BY <1>1, ProbeFacts, LineHandled, OtherCommands
<1>3. ProbeTypes
  BY ProbeFacts
<1> QED BY <1>2, <1>3, ProbesKept DEF OnOther, ProbeTypes

\* An STMt that the server has not asked for is not an answer of the chain.
LEMMA HeartbeatIInv == ASSUME IInv, OnHeartbeat PROVE IInv'
<1>1. PICK i \in {0} \cup (capacity + 1)..MaxCapacity : Handle(STMt(i))
  BY DEF OnHeartbeat
<1>2. i \in 0..MaxCapacity /\ (i # 0 => i > capacity)
  BY ProbeFacts
<1>3. STMt(i) \in Commands /\ STMt(i).probe = i /\ (Answering(STMt(i)) <=> i # 0)
  BY <1>2, OtherCommands
<1>4. /\ LineInv' /\ UNCHANGED <<playing, pings, others>>
      /\ NoAnswer(Unread) => ~Answering(STMt(i)) /\ NoAnswer(Unread')
      /\ \A p : OneAnswer(Unread, p) =>
            IF Answering(STMt(i)) THEN STMt(i).probe = p /\ NoAnswer(Unread')
            ELSE OneAnswer(Unread', p)
  BY <1>1, <1>3, ProbeFacts, LineHandled
<1>5. ProbeTypes /\ Len(probes) <= capacity /\ Len(probes) \in Nat /\ capacity \in Nat
  BY ProbeFacts DEF ProbeTypes
<1>6. OneAnswer(Unread, Len(probes)) => OneAnswer(Unread', Len(probes))
  <2>1. i = Len(probes) => i = 0
    BY <1>2, <1>5
  <2> QED BY <1>3, <1>4, <2>1
<1> QED BY <1>4, <1>5, <1>6, ProbesKept DEF OnHeartbeat, probeVars, ProbeTypes

-----------------------------------------------------------------------------
(* Answers *)

\* The answer that is handled is that to the ping of the last probe, and there is no other.
LEMMA AnswerHandled ==
    ASSUME IInv, NEW i \in 1..capacity, Handle(STMt(i))
    PROVE  /\ Probing /\ i = Len(probes) /\ tasks = <<>> /\ pings = <<>>
           /\ LineInv' /\ NoAnswer(Unread') /\ UNCHANGED <<playing, pings, others>>
<1>1. i \in 0..MaxCapacity /\ i # 0
  BY ProbeFacts DEF ProbeTypes
<1>2. STMt(i) \in Commands /\ STMt(i).probe = i /\ Answering(STMt(i))
  BY <1>1, OtherCommands
<1>3. /\ LineInv' /\ UNCHANGED <<playing, pings, others>>
      /\ ~NoAnswer(Unread)
      /\ \A p : OneAnswer(Unread, p) => i = p /\ NoAnswer(Unread')
  BY <1>2, ProbeFacts, LineHandled
<1> QED BY <1>3, ProbeFacts DEF Idle, Probing

\* What is calculated from a complete series in which no probe was disturbed.
LEMMA MeanMeasured ==
    ASSUME IInv, Probing, measuringLatency, Len(probes) = capacity,
           NEW t \in MeanProbes(Probed(Len(probes)))
    PROVE  t = "measured"
<1> DEFINE n == Len(probes)
           ps == Probed(n)
<1>1. /\ n \in Nat /\ n \in 1..n /\ probes \in Seq({"zero", "measured", "disturbed"})
      /\ Skipped \in 0..(n - 1)
  BY ProbeFacts DEF Probing, ProbeTypes
<1>2. \A j \in 1..n : probes[j] \in {"zero", "measured", "disturbed"}
  BY <1>1
<1>3. \A j \in 1..(n - 1) : probes[j] # "disturbed"
  BY DEF Probing
<1>4. Len(ps) = n /\ ps[n] = "measured" /\ \A j \in 1..(n - 1) : ps[j] = probes[j]
  BY <1>1 DEF Probed
<1> HIDE DEF n, ps
<1>5. \A j \in (Skipped + 1)..n : ps[j] \in {"zero", "measured"}
  BY <1>1, <1>2, <1>3, <1>4
<1>6. n \in (Skipped + 1)..n
  BY <1>1
<1> DEFINE samples == {ps[j] : j \in (Skipped + 1)..Len(ps)} \ {"zero"}
<1>7. samples = {"measured"}
  BY <1>4, <1>5, <1>6
<1>8. t \in IF samples = {} THEN {"zero"} ELSE samples
  BY DEF MeanProbes, ps, n
<1> QED BY <1>7, <1>8

\* The last answer of a series sets the offset and the timer of the next series.
LEMMA LastAnswerIInv == ASSUME IInv, OnLastAnswer PROVE IInv'
<1>1. PICK i \in 1..capacity : /\ Handle(STMt(i)) /\ measuringLatency
                               /\ \E accurate \in BOOLEAN : IsComplete(accurate)
                               /\ timeOffset' \in MeanProbes(Probed(i))
  BY DEF OnLastAnswer
<1>2. /\ Probing /\ i = Len(probes) /\ tasks = <<>> /\ pings = <<>>
      /\ LineInv' /\ NoAnswer(Unread') /\ UNCHANGED <<playing, pings, others>>
  BY <1>1, AnswerHandled
<1>3. timeOffset' = "measured"
  BY <1>1, <1>2, MeanMeasured DEF IsComplete
<1>4. /\ probes' = <<>> /\ pingTimer' = TRUE
      /\ UNCHANGED <<commandHELO, capacity, measuringLatency, tasks>>
  BY DEF OnLastAnswer
<1>5. Idle'
  BY <1>2, <1>4 DEF Idle, Probing
<1>6. ProbeTypes'
  BY <1>2, <1>3, <1>4, ProbeFacts DEF ProbeTypes
<1> QED BY <1>2, <1>3, <1>5, <1>6, InvariantParts DEF OffsetMeasured

\* An answer gives way to the ping of the next probe.
LEMMA OnAnswerIInv == ASSUME IInv, OnAnswer PROVE IInv'
<1>1. PICK i \in 1..capacity : /\ Handle(STMt(i)) /\ probes' = Append(Probed(i), "zero")
  BY DEF OnAnswer
<1>2. /\ Probing /\ i = Len(probes) /\ tasks = <<>> /\ pings = <<>>
      /\ LineInv' /\ NoAnswer(Unread') /\ UNCHANGED <<playing, pings, others>>
  BY <1>1, AnswerHandled
<1> DEFINE n == Len(probes)
           V == {"zero", "measured", "disturbed"}
<1>3. /\ n \in Nat /\ n \in 1..capacity /\ probes \in Seq(V) /\ capacity \in Nat
      /\ capacity >= 2 * InitialProbes /\ InitialProbes \in Nat
  BY <1>2, ProbeFacts DEF ProbeTypes, Probing
<1>4. /\ measuringLatency /\ capacity' = Grown(n) /\ capacity' <= MaxCapacity
      /\ tasks' = Append(tasks, Len(probes'))
      /\ UNCHANGED <<commandHELO, measuringLatency, timeOffset, pingTimer>>
  BY DEF OnAnswer
<1> HIDE DEF n
<1>5. /\ Probed(n) \in Seq(V) /\ Len(Probed(n)) = n /\ Probed(n)[n] = "measured"
      /\ \A j \in 1..(n - 1) : Probed(n)[j] = probes[j]
  BY <1>3, <1>4 DEF Probed, n
<1>6. /\ probes' \in Seq(V) /\ Len(probes') = n + 1 /\ probes' # <<>>
      /\ \A j \in 1..n : probes'[j] = Probed(n)[j]
  <2>1. probes' = Append(Probed(n), "zero")
    BY <1>1, <1>2 DEF n
  <2> DEFINE s == Probed(n)
  <2> HIDE DEF s, V
  <2>2. s \in Seq(V) /\ Len(s) = n /\ probes' = Append(s, "zero") /\ "zero" \in V
    BY <1>5, <2>1 DEF s, V
  <2> QED BY <2>2 DEF s
<1>7. \A j \in 1..n : probes'[j] # "disturbed"
  <2>1. \A j \in 1..(n - 1) : probes[j] # "disturbed"
    BY <1>2 DEF Probing, n
  <2>2. \A j \in 1..n : j = n \/ j \in 1..(n - 1)
    BY <1>3
  <2> QED BY <1>5, <1>6, <2>1, <2>2
<1>8. /\ capacity' \in 1..MaxCapacity /\ capacity' >= 2 * InitialProbes
      /\ n + 1 <= capacity'
  <2>1. MaxCapacity \in Nat
    BY ProbeFacts
  <2>2. capacity' = IF n = capacity THEN 2 * capacity ELSE capacity
    BY <1>4 DEF Grown
  <2> QED BY <1>3, <1>4, <2>1, <2>2
<1>9. tasks' = <<n + 1>> /\ n + 1 \in 1..MaxCapacity
  <2>1. n + 1 \in 1..MaxCapacity
    BY <1>3, <1>8, ProbeFacts
  <2> QED BY <1>2, <1>4, <1>6, <2>1
<1>10. Probing'
  <2>1. (n + 1) - 1 = n
    BY <1>3
  <2> QED BY <1>2, <1>4, <1>6, <1>7, <1>8, <1>9, <2>1 DEF Probing
<1>11. ProbeTypes' /\ OffsetMeasured'
  <2>1. ProbeTypes /\ OffsetMeasured
    BY ProbeFacts
  <2> QED BY <1>2, <1>4, <1>6, <1>8, <1>9, <2>1 DEF ProbeTypes, OffsetMeasured
<1> QED BY <1>2, <1>10, <1>11, InvariantParts

\* A disturbed answer gives way to another ping of the same probe.
LEMMA DisturbedAnswerIInv == ASSUME IInv, OnDisturbedAnswer PROVE IInv'
<1>1. PICK i \in 1..capacity :
        Handle(STMt(i)) /\ probes' = Probed(i) /\ tasks' = Append(tasks, i)
  BY DEF OnDisturbedAnswer
<1>2. /\ Probing /\ i = Len(probes) /\ tasks = <<>> /\ pings = <<>>
      /\ LineInv' /\ NoAnswer(Unread') /\ UNCHANGED <<playing, pings, others>>
  BY <1>1, AnswerHandled
<1> DEFINE V == {"zero", "measured", "disturbed"}
<1>3. /\ i \in Nat /\ i \in 1..MaxCapacity /\ probes \in Seq(V) /\ i \in 1..Len(probes)
  BY <1>2, ProbeFacts DEF ProbeTypes, Probing
<1>4. UNCHANGED <<commandHELO, capacity, measuringLatency, timeOffset, pingTimer>>
  BY DEF OnDisturbedAnswer
<1>5. /\ probes' \in Seq(V) /\ Len(probes') = i /\ probes' # <<>>
      /\ \A j \in 1..(i - 1) : probes'[j] = probes[j]
  BY <1>1, <1>2, <1>3 DEF Probed
<1>6. tasks' = <<i>>
  BY <1>1, <1>2
<1>7. Probing'
  BY <1>2, <1>4, <1>5, <1>6 DEF Probing
<1>8. ProbeTypes' /\ OffsetMeasured'
  <2>1. ProbeTypes /\ OffsetMeasured
    BY ProbeFacts
  <2> QED BY <1>2, <1>3, <1>4, <1>5, <1>6, <2>1 DEF ProbeTypes, OffsetMeasured
<1> QED BY <1>2, <1>7, <1>8, InvariantParts

-----------------------------------------------------------------------------
(* Steps of the other handlers *)

\* A ping handler gives way to its ping.
LEMMA PingIInv == ASSUME IInv, Ping PROVE IInv'
<1> DEFINE p == Len(probes)
<1>1. Probing /\ tasks = <<p>> /\ pings = <<>> /\ NoAnswer(Unread) /\ p \in 1..MaxCapacity
  BY ProbeFacts DEF Ping, Idle, Probing
<1>2. /\ pings' = <<p>> /\ tasks' = <<>> /\ measuringLatency' = TRUE
      /\ UNCHANGED <<lineVars, commandHELO, playing, probes, capacity, timeOffset, pingTimer,
                     others>>
  BY <1>1 DEF Ping
<1>3. LineInv' /\ NoAnswer(Unread')
  BY <1>1, <1>2, ProbeFacts, LineKept
<1>4. Probing'
  BY <1>1, <1>2, <1>3 DEF Probing
<1>5. ProbeTypes' /\ OffsetMeasured'
  BY <1>1, <1>2, ProbeFacts DEF ProbeTypes, OffsetMeasured
<1> QED BY <1>3, <1>4, <1>5, InvariantParts

\* The timer of a series gives way to the ping of its first probe.
LEMMA PingTimerIInv == ASSUME IInv, PingTimer PROVE IInv'
<1> DEFINE n == Len(probes)
           V == {"zero", "measured", "disturbed"}
<1>1. /\ Idle /\ commandHELO /\ tasks = <<>> /\ NoAnswer(Unread) /\ pings = <<>>
  BY ProbeFacts DEF PingTimer, Idle, Probing
<1>2. /\ pingTimer' = FALSE /\ probes' = Append(probes, "zero") /\ capacity' = Grown(n)
      /\ pings' = Append(pings, Len(probes')) /\ measuringLatency' = TRUE
      /\ UNCHANGED <<lineVars, commandHELO, playing, timeOffset, tasks, others>>
  BY DEF PingTimer
<1>3. /\ n \in Nat /\ probes \in Seq(V) /\ capacity \in Nat /\ MaxCapacity \in Nat
      /\ InitialProbes \in Nat \ {0} /\ 2 * InitialProbes <= MaxCapacity
      /\ capacity \in 1..MaxCapacity
  BY ProbeFacts DEF ProbeTypes
<1>4. LineInv' /\ NoAnswer(Unread')
  BY <1>1, <1>2, ProbeFacts, LineKept
<1>5. /\ probes' \in Seq(V) /\ Len(probes') = n + 1 /\ probes' # <<>>
      /\ \A j \in 1..n : probes'[j] = probes[j]
  BY <1>2, <1>3
<1>6. /\ \/ capacity = InitialProbes /\ n = InitialProbes
         \/ n = 0 /\ capacity >= 2 * InitialProbes
      /\ \A j \in 1..n : probes[j] # "disturbed"
  BY <1>1 DEF Idle
<1> HIDE DEF n
<1>7. /\ capacity' \in 1..MaxCapacity /\ capacity' >= 2 * InitialProbes
      /\ n + 1 <= capacity' /\ n + 1 \in 1..MaxCapacity
  <2>1. capacity' = IF n = capacity THEN 2 * capacity ELSE capacity
    BY <1>2 DEF Grown
  <2> QED BY <1>3, <1>6, <2>1
<1>8. pings' = <<n + 1>>
  BY <1>1, <1>2, <1>5
<1>9. Probing'
  <2>1. (n + 1) - 1 = n
    BY <1>3
  <2> QED BY <1>1, <1>2, <1>4, <1>5, <1>6, <1>7, <1>8, <2>1 DEF Probing
<1>10. ProbeTypes' /\ OffsetMeasured'
  <2>1. ProbeTypes /\ OffsetMeasured
    BY ProbeFacts
  <2>2. pings' \in Seq(1..MaxCapacity) /\ tasks' \in Seq(1..MaxCapacity)
    BY <1>1, <1>2, <1>7, <1>8
  <2>3. probes' \in Seq(V) /\ Len(probes') <= capacity' /\ capacity' \in 1..MaxCapacity
    BY <1>5, <1>7
  <2>4. /\ commandHELO' \in BOOLEAN /\ playing' \in BOOLEAN /\ pingTimer' \in BOOLEAN
        /\ measuringLatency' \in BOOLEAN /\ others' \in 0..MaxOthers
        /\ timeOffset' \in {"none", "measured"}
    BY <1>2, <2>1 DEF ProbeTypes, OffsetMeasured
  <2> QED BY <2>2, <2>3, <2>4 DEF ProbeTypes, OffsetMeasured
<1> QED BY <1>4, <1>9, <1>10, InvariantParts

\* Commands to the client, and the Streamer's, disturb a measurement and no more.
LEMMA StreamerIInv == ASSUME IInv, Send \/ StartPlaying \/ StopPlaying PROVE IInv'
<1>1. ProbeTypes
  BY ProbeFacts
<1>2. /\ UNCHANGED <<lineVars, probes, capacity, timeOffset, pingTimer, tasks, commandHELO,
                     pings, others>>
      /\ measuringLatency' \in BOOLEAN /\ playing' \in BOOLEAN
  BY <1>1 DEF Send, StartPlaying, StopPlaying, probeVars, ProbeTypes
<1>3. LineInv' /\ Unread' = Unread
  BY <1>2, ProbeFacts, LineKept
<1> QED BY <1>1, <1>2, <1>3, ProbesKept DEF ProbeTypes

-----------------------------------------------------------------------------
(* The specification *)

\* A new session has an empty line and no chain.
LEMMA InitIInv == ASSUME Init PROVE IInv
<1>1. /\ RingSize \in Nat \ {0} /\ InitialProbes \in Nat \ {0} /\ MaxCapacity \in Nat
      /\ 2 * InitialProbes <= MaxCapacity /\ MaxOthers \in Nat
  BY CommandSessionAssumption
<1>2. ring \in Rings /\ ring.size = 0 /\ wire = <<>> /\ wire \in Seq(UnitSet)
  <2>1. <<HELO, 1>> \in UnitSet
    BY OtherCommands DEF UnitSet
  <2> QED BY <1>1, <2>1 DEF Init, Rings
<1>3. Unread \in Seq(UnitSet) /\ Len(Unread) = 0
  <2>1. Unread = UnreadOf(ring, wire)
    BY DEF Unread, UnreadOf
  <2>2. ring.size + Len(wire) = 0
    BY <1>2
  <2>3. Unread \in Seq(UnitSet) /\ Len(Unread) = ring.size + Len(wire)
    BY <1>2, <2>1, UnreadFacts
  <2> QED BY <2>2, <2>3
<1>4. Whole(Unread) /\ NoAnswer(Unread)
  BY <1>3 DEF Whole, NoAnswer
<1>5. NothingWaits
  BY <1>2 DEF NothingWaits, IsLabelled
<1>6. LineInv
  BY <1>2, <1>4, <1>5 DEF LineInv, Init
<1>7. /\ probes \in Seq({"zero", "measured", "disturbed"}) /\ Len(probes) = InitialProbes
      /\ \A j \in 1..Len(probes) : probes[j] = "zero"
  BY <1>1 DEF Init
<1>8. ProbeTypes
  <2>1. tasks \in Seq(1..MaxCapacity) /\ pings \in Seq(1..MaxCapacity)
    BY DEF Init
  <2>2. Len(probes) <= capacity /\ capacity \in 1..MaxCapacity
    BY <1>1, <1>7 DEF Init
  <2>3. /\ commandHELO \in BOOLEAN /\ playing \in BOOLEAN /\ pingTimer \in BOOLEAN
        /\ measuringLatency \in BOOLEAN
        /\ timeOffset \in {"none", "zero", "measured", "disturbed"}
    BY Zenon DEF Init
  <2>4. others \in 0..MaxOthers
    <3>1. others = 0
      BY DEF Init
    <3> QED BY <1>1, <3>1
  <2> QED BY <1>7, <2>1, <2>2, <2>3, <2>4 DEF ProbeTypes
<1>9. Idle
  BY <1>4, <1>7 DEF Idle, Init
<1> QED BY <1>6, <1>8, <1>9, InvariantParts DEF OffsetMeasured, Init

\* No step leaves the invariant.
LEMMA NextIInv ==
    ASSUME IInv, [Next]_vars, ~Unsupported, ReadSize + 2 <= RingSize
    PROVE  IInv'
<1>1. ASSUME NEW c \in Commands \ {STMt(i) : i \in 1..MaxCapacity}, Say(c) PROVE IInv'
  BY <1>1, SayIInv
<1>2. ASSUME NEW n \in 1..ReadSize, Receive(n) PROVE IInv'
  BY <1>2, ReceiveIInv
<1>3. CASE OnRequest
  BY <1>3, HELOIInv, OtherIInv, HeartbeatIInv, LastAnswerIInv, OnAnswerIInv,
     DisturbedAnswerIInv, LeaveIInv DEF OnRequest
<1>4. CASE UNCHANGED vars
  <2>1. LineInv' /\ Unread' = Unread /\ ProbeTypes
    BY <1>4, ProbeFacts, LineKept DEF vars
  <2> QED BY <1>4, <2>1, ProbesKept DEF vars, probeVars, ProbeTypes
<1>5. CASE Answer
  BY <1>5, AnswerIInv
<1>6. CASE Ping
  BY <1>6, PingIInv
<1>7. CASE PingTimer
  BY <1>7, PingTimerIInv
<1>8. CASE Send \/ StartPlaying \/ StopPlaying
  BY <1>8, StreamerIInv
<1> QED BY <1>1, <1>2, <1>3, <1>4, <1>5, <1>6, <1>7, <1>8 DEF Next

\* The inductive invariant holds when the client sends no command without handler and the
\* ring has room for what is read at once besides the two units of a command that is not
\* complete.
LEMMA Invariance ==
    ASSUME ~Unsupported, ReadSize + 2 <= RingSize
    PROVE  Spec => []IInv
<1>1. Init => IInv
  BY InitIInv
<1>2. IInv /\ [Next]_vars => IInv'
  BY NextIInv
<1> QED BY <1>1, <1>2, PTL DEF Spec

-----------------------------------------------------------------------------
(* Theorems *)

\* The variables stay in their types: the ring's head never leaves it, and the probes, the
\* tasks and the pings are those that the vector has room for.
THEOREM CommandSessionTypeCorrect ==
    ASSUME ~Unsupported, ReadSize + 2 <= RingSize
    PROVE  Spec => []TypeOK
<1>1. IInv => TypeOK
  BY DEF IInv
<1> QED BY <1>1, Invariance, PTL

\* Whatever the pieces in which TCP delivers the commands, and wherever the ring wraps,
\* what onRequest has not processed is a sequence of whole commands, and none of them
\* waits in the buffer as a whole.
THEOREM FramedCorrect ==
    ASSUME ~Unsupported, ReadSize + 2 <= RingSize
    PROVE  Spec => []Framed
<1>1. IInv => Framed
  <2> SUFFICES ASSUME IInv PROVE Framed
    OBVIOUS
  <2>1. Whole(Unread) /\ NothingWaits /\ Unread \in Seq(UnitSet)
    BY ProbeFacts, LineFacts DEF LineInv
  <2>2. Unread # <<>> => Len(Unread) > 0
    BY <2>1
  <2> QED BY <2>1, <2>2 DEF Framed, Whole
<1> QED BY <1>1, Invariance, PTL

\* From the first HELO on there is exactly one of the timer of a series, a ping handler, a
\* ping and an answer, and it is that of a probe that exists: no answer indexes a vector
\* that was cleared.
THEOREM OneProbeCorrect ==
    ASSUME ~Unsupported, ReadSize + 2 <= RingSize
    PROVE  Spec => []OneProbe
<1>1. ASSUME IInv PROVE OneProbe
  <2> DEFINE p == Len(probes)
  <2>1. /\ Unread \in Seq(UnitSet) /\ (Idle \/ Probing) /\ ProbeTypes /\ p \in Nat
        /\ DOMAIN Unread = 1..Len(Unread) /\ DOMAIN probes = 1..p
    <3>1. Unread \in Seq(UnitSet) /\ (Idle \/ Probing) /\ ProbeTypes /\ p \in Nat
      BY <1>1, ProbeFacts, LineFacts
    <3>2. probes \in Seq({"zero", "measured", "disturbed"})
      BY <3>1 DEF ProbeTypes
    <3> QED BY <3>1, <3>2
  <2>2. Answers = {i \in 1..Len(Unread) : IsAnswer(Unread[i])}
    BY <2>1 DEF Answers, IsAnswer
  <2>3. NoAnswer(Unread) => Answers = {} /\ Cardinality(Answers) = 0
    BY <2>2, FS_EmptySet DEF NoAnswer
  <2>4. ASSUME OneAnswer(Unread, p)
        PROVE  /\ Cardinality(Answers) = 1
               /\ \A i \in Answers : Unread[i][1].probe = p
    <3>1. PICK a \in 1..Len(Unread) :
            /\ Unread[a][1].probe = p
            /\ \A i \in 1..Len(Unread) : IsAnswer(Unread[i]) <=> i = a
      BY <2>4 DEF OneAnswer
    <3>2. Answers = {a}
      BY <2>2, <3>1
    <3> QED BY <3>1, <3>2, FS_Singleton
  <2>5. CASE Idle
    <3>1. /\ pingTimer \in BOOLEAN /\ commandHELO \in BOOLEAN /\ (pingTimer <=> commandHELO)
          /\ tasks = <<>> /\ pings = <<>> /\ Answers = {} /\ Cardinality(Answers) = 0
      BY <2>1, <2>3, <2>5 DEF Idle, ProbeTypes
    <3>2. /\ Len(tasks) = 0 /\ Len(pings) = 0
          /\ \A s \in {tasks, pings} : \A i \in DOMAIN s : s[i] \in DOMAIN probes
      BY <3>1
    <3>3. (IF pingTimer THEN 1 ELSE 0) = (IF commandHELO THEN 1 ELSE 0)
      BY <3>1
    <3> QED BY <3>1, <3>2, <3>3 DEF OneProbe
  <2>6. CASE Probing
    <3>1. commandHELO /\ ~pingTimer /\ p \in DOMAIN probes
      <4>1. p # 0
        BY <1>1, <2>6, ProbeFacts DEF Probing
      <4> QED BY <2>1, <2>6, <4>1 DEF Probing
    <3> HIDE DEF p
    <3>2. CASE NoAnswer(Unread) /\ tasks = <<p>> /\ pings = <<>>
      BY <2>3, <3>1, <3>2 DEF OneProbe
    <3>3. CASE NoAnswer(Unread) /\ tasks = <<>> /\ pings = <<p>>
      BY <2>3, <3>1, <3>3 DEF OneProbe
    <3>4. CASE OneAnswer(Unread, p) /\ tasks = <<>> /\ pings = <<>>
      BY <2>4, <3>1, <3>4 DEF OneProbe
    <3> QED BY <2>6, <3>2, <3>3, <3>4 DEF Probing, p
  <2> QED BY <2>1, <2>5, <2>6
<1> QED BY <1>1, Invariance, PTL

\* The time offset comes from a probe that no other command disturbed, never from one
\* without values.
THEOREM OffsetMeasuredCorrect ==
    ASSUME ~Unsupported, ReadSize + 2 <= RingSize
    PROVE  Spec => []OffsetMeasured
<1>1. IInv => OffsetMeasured
  BY DEF IInv
<1> QED BY <1>1, Invariance, PTL

=============================================================================
