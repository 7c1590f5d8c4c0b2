---------------------------- MODULE EncodingProofs ----------------------------
(***************************************************************************)
(* Proofs about Encoding, for every size of a sample, a block, a buffer    *)
(* and a pool: the variables keep their types, and no sample is lost or    *)
(* changed on the way from the chunk to the client.                        *)
(*                                                                         *)
(* What the samples are is told by what flattening a sequence of buffers   *)
(* gives, and what a chunk adds to it by a fold over blocks; both are      *)
(* reduced to their steps first, and then proved about by induction on     *)
(* the number of steps.                                                    *)
(***************************************************************************)
EXTENDS Encoding, SequenceTheorems, WellFoundedInduction, TLAPS

-----------------------------------------------------------------------------
(* Induction *)

\* A set of naturals with zero and the successors of its elements has all of them.
LEMMA Successors ==
    ASSUME NEW S \in SUBSET Nat, 0 \in S, \A k \in S : k + 1 \in S
    PROVE  S = Nat
<1> SUFFICES ASSUME Nat \ S # {} PROVE FALSE
  OBVIOUS
<1> DEFINE T == Nat \ S
<1>1. PICK x \in T : \A y \in T : ~(<<y, x>> \in OpToRel(<, Nat))
  <2>1. T \subseteq Nat /\ T # {}
    OBVIOUS
  <2> HIDE DEF T
  <2> QED BY <2>1, NatLessThanWellFounded, WFMin
<1>2. x \in Nat /\ x # 0 /\ x - 1 \in Nat /\ x - 1 < x /\ (x - 1) + 1 = x
  OBVIOUS
<1>3. x - 1 \notin S
  BY <1>2
<1>4. <<x - 1, x>> \in OpToRel(<, Nat)
  BY <1>2 DEF OpToRel
<1> QED BY <1>1, <1>2, <1>3, <1>4

\* What holds of zero, and of the successor of each number below n that it holds of, holds
\* of every number up to n.
LEMMA UpTo ==
    ASSUME NEW n \in Nat, NEW S, 0 \in S, \A k \in 0..(n - 1) : k \in S => k + 1 \in S
    PROVE  \A k \in 0..n : k \in S
<1> DEFINE T == {k \in Nat : k <= n => k \in S}
<1>1. 0 \in T /\ \A k \in T : k + 1 \in T
  OBVIOUS
<1>2. T = Nat
  <2>1. T \in SUBSET Nat
    OBVIOUS
  <2> HIDE DEF T
  <2> QED BY <1>1, <2>1, Successors
<1> QED BY <1>2

-----------------------------------------------------------------------------
(* Flattening *)

\* F has, for each k, the first k sequences of s one after the other.
IsFlattened(F, s, n) == F[0] = <<>> /\ \A k \in 1..n : F[k] = F[k - 1] \o s[k]

\* There is such a function.
LEMMA FlattenedExists ==
    ASSUME NEW s, NEW n \in Nat
    PROVE  \E F : F = [k \in 0..n |-> F[k]] /\ IsFlattened(F, s, n)
<1> DEFINE S == {m \in Nat : \E F : F = [k \in 0..m |-> F[k]] /\ IsFlattened(F, s, m)}
<1>1. 0 \in S
  <2> DEFINE F == [k \in 0..0 |-> <<>>]
  <2>1. F = [k \in 0..0 |-> F[k]] /\ F[0] = <<>>
    OBVIOUS
  <2> HIDE DEF F
  <2>2. IsFlattened(F, s, 0)
    BY <2>1 DEF IsFlattened
  <2> QED BY <2>1, <2>2
<1>2. ASSUME NEW m \in S PROVE m + 1 \in S
  <2>1. m \in Nat /\ m + 1 \in Nat
    OBVIOUS
  <2>2. PICK F : F = [k \in 0..m |-> F[k]] /\ IsFlattened(F, s, m)
    OBVIOUS
  <2> DEFINE G == [k \in 0..(m + 1) |-> IF k <= m THEN F[k] ELSE F[m] \o s[m + 1]]
  <2>3. G = [k \in 0..(m + 1) |-> G[k]]
    OBVIOUS
  <2>4. (\A k \in 0..m : G[k] = F[k]) /\ G[m + 1] = F[m] \o s[m + 1]
    BY <2>1
  <2> HIDE DEF G
  <2>5. ASSUME NEW k \in 1..(m + 1) PROVE G[k] = G[k - 1] \o s[k]
    <3>1. CASE k = m + 1
      <4>1. k - 1 = m /\ m \in 0..m
        BY <2>1, <3>1
      <4> QED BY <2>4, <3>1, <4>1
    <3>2. CASE k \in 1..m
      <4>1. k \in 0..m /\ k - 1 \in 0..m
        BY <2>1, <3>2
      <4> QED BY <2>2, <2>4, <3>2, <4>1 DEF IsFlattened
    <3>3. k = m + 1 \/ k \in 1..m
      BY <2>1
    <3> QED BY <3>1, <3>2, <3>3
  <2>6. G[0] = <<>>
    BY <2>1, <2>2, <2>4 DEF IsFlattened
  <2> QED BY <2>1, <2>3, <2>5, <2>6 DEF IsFlattened
<1>3. S = Nat
  <2>1. S \in SUBSET Nat
    OBVIOUS
  <2> HIDE DEF S
  <2> QED BY <1>1, <1>2, <2>1, Successors
<1> QED BY <1>3

\* All such functions agree.
LEMMA FlattenedUnique ==
    ASSUME NEW s, NEW n \in Nat, NEW F, IsFlattened(F, s, n), NEW G, IsFlattened(G, s, n)
    PROVE  \A k \in 0..n : F[k] = G[k]
<1> DEFINE S == {k \in 0..n : F[k] = G[k]}
<1>1. 0 \in S
  BY DEF IsFlattened
<1>2. ASSUME NEW k \in 0..(n - 1), k \in S PROVE k + 1 \in S
  <2>1. k + 1 \in 1..n /\ k + 1 \in 0..n /\ (k + 1) - 1 = k
    OBVIOUS
  <2>2. F[k + 1] = F[k] \o s[k + 1] /\ G[k + 1] = G[k] \o s[k + 1]
    BY <2>1 DEF IsFlattened
  <2> QED BY <1>2, <2>1, <2>2
<1>3. \A k \in 0..n : k \in S
  <2> HIDE DEF S
  <2> QED BY <1>1, <1>2, UpTo
<1> QED BY <1>3

\* What FlattenSeq computes is the last of them.
LEMMA FlattenIs ==
    ASSUME NEW T, NEW s \in Seq(Seq(T)), NEW F, IsFlattened(F, s, Len(s))
    PROVE  FlattenSeq(s) = F[Len(s)]
<1> DEFINE n == Len(s)
           Def(f) == f = [i \in 1..n |-> IF i = 1 THEN s[i] ELSE f[i - 1] \o s[i]]
           f == CHOOSE f : Def(f)
<1>1. n \in Nat /\ DOMAIN s = 1..n /\ \A i \in 1..n : s[i] \in Seq(T)
  OBVIOUS
<1>2. CASE n = 0
  <2>1. FlattenSeq(s) = s /\ s = <<>>
    BY <1>1, <1>2 DEF FlattenSeq
  <2> QED BY <1>2, <2>1 DEF IsFlattened
<1>3. CASE n # 0
  <2>1. FlattenSeq(s) = f[n]
    BY <1>3, Zenon DEF FlattenSeq
  <2> HIDE DEF n
  <2> DEFINE g == [i \in 1..n |-> F[i]]
  <2>2. ASSUME NEW i \in 1..n
        PROVE  g[i] = IF i = 1 THEN s[i] ELSE g[i - 1] \o s[i]
    <3>1. F[i] = F[i - 1] \o s[i]
      BY DEF IsFlattened, n
    <3>2. CASE i = 1
      <4>1. i - 1 = 0 /\ F[0] = <<>> /\ s[i] \in Seq(T)
        BY <1>1, <3>2 DEF IsFlattened
      <4> QED BY <3>1, <3>2, <4>1, ConcatEmptySeq
    <3>3. CASE i # 1
      BY <1>1, <3>1, <3>3
    <3> QED BY <3>2, <3>3
  <2>3. Def(g)
    <3>1. g = [i \in 1..n |-> g[i]]
      OBVIOUS
    <3> HIDE DEF g
    <3> QED BY <2>2, <3>1
  <2>4. Def(f)
    <3> HIDE DEF Def, g
    <3> QED BY <2>3
  <2>5. \A i \in 1..n : f[i] = IF i = 1 THEN s[i] ELSE f[i - 1] \o s[i]
    <3> HIDE DEF f
    <3> QED BY <2>4
  <2> DEFINE h == [i \in 0..n |-> IF i = 0 THEN <<>> ELSE f[i]]
  <2> HIDE DEF f
  <2>6. IsFlattened(h, s, n)
    <3>1. h[0] = <<>>
      BY <1>1
    <3>2. ASSUME NEW i \in 1..n PROVE h[i] = h[i - 1] \o s[i]
      <4>1. CASE i = 1
        <5>1. i - 1 = 0 /\ i \in 0..n /\ i # 0 /\ 0 \in 0..n /\ s[i] \in Seq(T)
          BY <1>1, <4>1
        <5>2. h[i] = f[i] /\ h[i - 1] = <<>>
          BY <5>1
        <5>3. f[i] = s[i]
          BY <2>5, <4>1
        <5> HIDE DEF h
        <5> QED BY <5>1, <5>2, <5>3, ConcatEmptySeq
      <4>2. CASE i # 1
        <5>1. i \in 0..n /\ i # 0 /\ i - 1 \in 0..n /\ i - 1 # 0
          BY <1>1, <4>2
        <5>2. h[i] = f[i] /\ h[i - 1] = f[i - 1]
          BY <5>1
        <5>3. f[i] = f[i - 1] \o s[i]
          BY <2>5, <4>2
        <5> QED BY <5>2, <5>3
      <4> QED BY <4>1, <4>2
    <3> QED BY <3>1, <3>2 DEF IsFlattened
  <2>7. h[n] = f[n]
    BY <1>1, <1>3
  <2>8. IsFlattened(F, s, n)
    BY DEF n
  <2>9. n \in 0..n
    BY <1>1
  <2> HIDE DEF h
  <2> QED BY <1>1, <2>1, <2>6, <2>7, <2>8, <2>9, FlattenedUnique DEF n
<1> QED BY <1>2, <1>3

\* \o under a name: the prover, which expands \o, finds that it is associative for names
\* only.
Cat(a, b) == a \o b

\* It does not matter which of three sequences are put together first.
LEMMA Associative ==
    ASSUME NEW T, NEW a \in Seq(T), NEW b \in Seq(T), NEW c \in Seq(T)
    PROVE  Cat(Cat(a, b), c) = Cat(a, Cat(b, c))
<1>1. /\ (a \o b) \o c \in Seq(T) /\ a \o (b \o c) \in Seq(T)
      /\ Len((a \o b) \o c) = Len(a \o (b \o c))
  BY ConcatProperties
<1>2. \A i \in 1..Len((a \o b) \o c) : ((a \o b) \o c)[i] = (a \o (b \o c))[i]
  OBVIOUS
<1> QED BY <1>1, <1>2, SeqEqual DEF Cat

\* The first of the sequences, one after the other, are sequences, and the last of them is
\* what FlattenSeq computes.
LEMMA FlattenSteps ==
    ASSUME NEW T, NEW s \in Seq(Seq(T))
    PROVE  \E F : /\ IsFlattened(F, s, Len(s)) /\ FlattenSeq(s) = F[Len(s)]
                  /\ \A k \in 0..Len(s) : F[k] \in Seq(T)
<1> DEFINE n == Len(s)
<1>1. n \in Nat /\ \A i \in 1..n : s[i] \in Seq(T)
  OBVIOUS
<1>2. PICK F : IsFlattened(F, s, n)
  BY <1>1, FlattenedExists
<1>3. FlattenSeq(s) = F[n]
  BY <1>2, FlattenIs
<1> DEFINE S == {k \in 0..n : F[k] \in Seq(T)}
<1>4. 0 \in S
  <2>1. F[0] = <<>> /\ 0 \in 0..n
    BY <1>1, <1>2 DEF IsFlattened
  <2>2. F[0] \in Seq(T)
    BY <2>1, EmptySeq
  <2> QED BY <2>1, <2>2
<1>5. ASSUME NEW k \in 0..(n - 1), k \in S PROVE k + 1 \in S
  <2>1. k + 1 \in 1..n /\ k + 1 \in 0..n /\ (k + 1) - 1 = k
    BY <1>1
  <2>2. F[k + 1] = F[k] \o s[k + 1] /\ s[k + 1] \in Seq(T) /\ F[k] \in Seq(T)
    BY <1>1, <1>2, <1>5, <2>1 DEF IsFlattened
  <2>3. F[k + 1] \in Seq(T)
    BY <2>2, ConcatProperties
  <2> QED BY <2>1, <2>3
<1>6. \A k \in 0..n : k \in S
  <2> HIDE DEF S, n
  <2> QED BY <1>1, <1>4, <1>5, UpTo
<1> QED BY <1>2, <1>3, <1>6

\* A sequence of samples comes of buffers of samples.
LEMMA FlattenType ==
    ASSUME NEW T, NEW s \in Seq(Seq(T))
    PROVE  FlattenSeq(s) \in Seq(T)
<1>1. Len(s) \in 0..Len(s)
  OBVIOUS
<1> QED BY <1>1, FlattenSteps

\* Of no sequence, none.
LEMMA FlattenEmpty == FlattenSeq(<<>>) = <<>>
BY DEF FlattenSeq

\* What is behind in the sequence is behind in what it is flattened to.
LEMMA FlattenConcat ==
    ASSUME NEW T, NEW s \in Seq(Seq(T)), NEW t \in Seq(Seq(T))
    PROVE  FlattenSeq(s \o t) = FlattenSeq(s) \o FlattenSeq(t)
<1> DEFINE m == Len(s)
           n == Len(t)
           u == s \o t
<1>1. /\ m \in Nat /\ n \in Nat /\ u \in Seq(Seq(T)) /\ Len(u) = m + n
      /\ \A k \in 1..m : u[k] = s[k]
      /\ \A k \in (m + 1)..(m + n) : u[k] = t[k - m]
      /\ \A k \in 1..n : t[k] \in Seq(T)
  BY ConcatProperties
<1>2. PICK F : /\ IsFlattened(F, s, m) /\ FlattenSeq(s) = F[m]
               /\ \A k \in 0..m : F[k] \in Seq(T)
  BY FlattenSteps
<1>3. PICK G : /\ IsFlattened(G, t, n) /\ FlattenSeq(t) = G[n]
               /\ \A k \in 0..n : G[k] \in Seq(T)
  BY FlattenSteps
<1> DEFINE H == [k \in 0..(m + n) |-> IF k <= m THEN F[k] ELSE F[m] \o G[k - m]]
<1> HIDE DEF m, n, u
<1>4. /\ \A k \in 0..m : H[k] = F[k]
      /\ \A k \in (m + 1)..(m + n) : H[k] = F[m] \o G[k - m]
  <2>1. \A k \in 0..m : k \in 0..(m + n) /\ k <= m
    BY <1>1
  <2>2. \A k \in (m + 1)..(m + n) : k \in 0..(m + n) /\ ~(k <= m)
    BY <1>1
  <2> QED BY <2>1, <2>2, Zenon
<1> HIDE DEF H
<1>5. F[m] \in Seq(T) /\ F[m] \o <<>> = F[m] /\ G[0] = <<>> /\ F[0] = <<>> /\ m \in 0..m
  <2>1. m \in 0..m
    BY <1>1
  <2> QED BY <1>2, <1>3, <2>1, ConcatEmptySeq DEF IsFlattened
<1>6. \A k \in m..(m + n) : H[k] = F[m] \o G[k - m]
  <2> SUFFICES ASSUME NEW k \in m..(m + n) PROVE H[k] = F[m] \o G[k - m]
    OBVIOUS
  <2>1. CASE k = m
    <3>1. k - m = 0
      BY <1>1, <2>1
    <3> QED BY <1>4, <1>5, <2>1, <3>1
  <2>2. CASE k # m
    <3>1. k \in (m + 1)..(m + n)
      BY <1>1, <2>2
    <3> QED BY <1>4, <3>1
  <2> QED BY <2>1, <2>2
<1>7. ASSUME NEW k \in 1..(m + n) PROVE H[k] = H[k - 1] \o u[k]
  <2>1. CASE k \in 1..m
    <3>1. k \in 0..m /\ k - 1 \in 0..m
      BY <1>1, <2>1
    <3>2. F[k] = F[k - 1] \o s[k]
      BY <1>2, <2>1 DEF IsFlattened
    <3> QED BY <1>1, <1>4, <2>1, <3>1, <3>2
  <2>2. CASE k \notin 1..m
    <3> DEFINE j == k - m
    <3>1. /\ j \in 1..n /\ j - 1 \in 0..n /\ j - 1 = (k - 1) - m
          /\ k \in m..(m + n) /\ k - 1 \in m..(m + n) /\ k \in (m + 1)..(m + n)
      BY <1>1, <2>2
    <3>2. u[k] = t[j] /\ H[k] = F[m] \o G[j] /\ H[k - 1] = F[m] \o G[j - 1]
      BY <1>1, <1>6, <3>1
    <3> HIDE DEF j
    <3>3. G[j] = G[j - 1] \o t[j] /\ G[j - 1] \in Seq(T) /\ t[j] \in Seq(T)
      BY <1>1, <1>3, <3>1 DEF IsFlattened
    <3>4. Cat(Cat(F[m], G[j - 1]), t[j]) = Cat(F[m], Cat(G[j - 1], t[j]))
      BY <1>5, <3>3, Associative
    <3> QED BY <3>2, <3>3, <3>4 DEF Cat
  <2> QED BY <2>1, <2>2
<1>8. IsFlattened(H, u, Len(u))
  <2>1. H[0] = <<>>
    BY <1>1, <1>4, <1>5
  <2> QED BY <1>1, <1>7, <2>1 DEF IsFlattened
<1>9. FlattenSeq(u) = H[m + n]
  BY <1>1, <1>8, FlattenIs
<1>10. H[m + n] = F[m] \o G[n]
  <2>1. m + n \in m..(m + n) /\ (m + n) - m = n
    BY <1>1
  <2> QED BY <1>6, <2>1
<1> QED BY <1>2, <1>3, <1>9, <1>10 DEF u

\* One more sequence at the end.
LEMMA FlattenAppend ==
    ASSUME NEW T, NEW s \in Seq(Seq(T)), NEW x \in Seq(T)
    PROVE  FlattenSeq(Append(s, x)) = FlattenSeq(s) \o x
<1>1. <<x>> \in Seq(Seq(T)) /\ Len(<<x>>) = 1 /\ <<x>>[1] = x
  OBVIOUS
<1>2. FlattenSeq(<<x>>) = x
  <2> DEFINE F == [k \in 0..1 |-> IF k = 0 THEN <<>> ELSE x]
  <2>1. F[0] = <<>> /\ F[1] = <<>> \o x
    BY ConcatEmptySeq
  <2>2. F[1] = x
    OBVIOUS
  <2> HIDE DEF F
  <2>3. IsFlattened(F, <<x>>, 1)
    BY <1>1, <2>1 DEF IsFlattened
  <2> QED BY <1>1, <2>2, <2>3, FlattenIs
<1>3. Append(s, x) = s \o <<x>>
  BY <1>1, AppendIsConcat
<1> QED BY <1>1, <1>2, <1>3, FlattenConcat

\* The first one, and the rest.
LEMMA FlattenHead ==
    ASSUME NEW T, NEW s \in Seq(Seq(T)), s # <<>>
    PROVE  /\ Head(s) \in Seq(T) /\ Tail(s) \in Seq(Seq(T))
           /\ FlattenSeq(s) = Head(s) \o FlattenSeq(Tail(s))
<1> DEFINE h == <<Head(s)>>
<1>1. Head(s) \in Seq(T) /\ Tail(s) \in Seq(Seq(T))
  BY HeadTailProperties
<1>2. h \in Seq(Seq(T)) /\ h = Append(<<>>, Head(s)) /\ <<>> \in Seq(Seq(T))
  BY <1>1
<1>3. FlattenSeq(h) = <<>> \o Head(s)
  BY <1>1, <1>2, FlattenAppend, FlattenEmpty
<1>4. FlattenSeq(h) = Head(s)
  BY <1>1, <1>3, ConcatEmptySeq
<1>5. s = h \o Tail(s)
  OBVIOUS
<1> HIDE DEF h
<1> QED BY <1>1, <1>2, <1>4, <1>5, FlattenConcat

\* The n sequences of s are x, cut at the places c.
IsCut(s, x, c, n) ==
    /\ c[0] = 0 /\ \A k \in 0..n : c[k] \in 0..Len(x)
    /\ \A k \in 1..n : c[k - 1] <= c[k]
    /\ s = [b \in 1..n |-> SubSeq(x, c[b - 1] + 1, c[b])]

\* The slices one after the other are what was cut.
LEMMA FlattenSlices ==
    ASSUME NEW T, NEW x \in Seq(T), NEW n \in Nat, NEW c, NEW s, IsCut(s, x, c, n)
    PROVE  /\ s \in Seq(Seq(T)) /\ Len(s) = n
           /\ FlattenSeq(s) = SubSeq(x, 1, c[n])
<1>1. Len(x) \in Nat /\ \A i \in 1..Len(x) : x[i] \in T
  OBVIOUS
<1>2. ASSUME NEW b \in 1..n
      PROVE  /\ SubSeq(x, c[b - 1] + 1, c[b]) \in Seq(T)
             /\ SubSeq(x, 1, c[b]) = SubSeq(x, 1, c[b - 1]) \o SubSeq(x, c[b - 1] + 1, c[b])
  <2>1. b \in 0..n /\ b - 1 \in 0..n
    OBVIOUS
  <2>2. c[b - 1] \in 0..Len(x) /\ c[b] \in c[b - 1]..Len(x) /\ 1 \in 1..(Len(x) + 1)
    BY <1>1, <2>1 DEF IsCut
  <2>3. SubSeq(x, 1, c[b - 1]) \o SubSeq(x, c[b - 1] + 1, c[b]) = SubSeq(x, 1, c[b])
    <3>1. /\ c[b - 1] \in (1 - 1)..Len(x) /\ c[b] \in c[b - 1]..Len(x)
          /\ 1 \in 1..(Len(x) + 1)
      BY <1>1, <2>2
    <3> QED BY <3>1, ConcatAdjacentSubSeq
  <2>4. SubSeq(x, c[b - 1] + 1, c[b]) \in Seq(T)
    <3>1. \A i \in (c[b - 1] + 1)..c[b] : x[i] \in T
      BY <1>1, <2>2
    <3>2. c[b - 1] + 1 \in Int /\ c[b] \in Int
      BY <1>1, <2>2
    <3> QED BY <3>1, <3>2, SubSeqProperties
  <2> QED BY <2>3, <2>4
<1>3. s \in Seq(Seq(T)) /\ Len(s) = n
  BY <1>2 DEF IsCut
<1> DEFINE F == [k \in 0..n |-> SubSeq(x, 1, c[k])]
<1>4. F[0] = <<>>
  <2>1. SubSeq(x, 1, 0) = <<>>
    BY SubSeqEmpty
  <2> QED BY <2>1 DEF IsCut
<1>5. ASSUME NEW k \in 1..n PROVE F[k] = F[k - 1] \o s[k]
  <2>1. k \in 0..n /\ k - 1 \in 0..n
    OBVIOUS
  <2>2. F[k] = SubSeq(x, 1, c[k]) /\ F[k - 1] = SubSeq(x, 1, c[k - 1])
    BY <2>1
  <2>3. s[k] = SubSeq(x, c[k - 1] + 1, c[k])
    BY DEF IsCut
  <2> HIDE DEF F
  <2> QED BY <1>2, <2>2, <2>3
<1>6. F[n] = SubSeq(x, 1, c[n])
  <2>1. n \in 0..n
    OBVIOUS
  <2> QED BY <2>1
<1> HIDE DEF F
<1>7. IsFlattened(F, s, Len(s))
  BY <1>3, <1>4, <1>5 DEF IsFlattened
<1> QED BY <1>3, <1>6, <1>7, FlattenIs

-----------------------------------------------------------------------------
(* Numbers *)

\* Multiples keep their order.
LEMMA TimesLeq ==
    ASSUME NEW a \in Nat, NEW b \in Nat, a <= b, NEW n \in Nat
    PROVE  a * n <= b * n
<1>1. (b - a) * n >= 0
  <2>1. b - a \in Nat
    OBVIOUS
  <2>2. \A k \in Nat : k * n >= 0
    OBVIOUS
  <2> QED BY <2>1, <2>2
<1>2. b * n = a * n + (b - a) * n
  OBVIOUS
<1> DEFINE x == a * n
           y == b * n
           z == (b - a) * n
<1>3. x \in Int /\ y \in Int /\ z \in Int
  OBVIOUS
<1> HIDE DEF x, y, z
<1>4. x <= y
  BY <1>1, <1>2, <1>3 DEF x, y, z
<1> QED BY <1>4 DEF x, y

\* A quotient and what it leaves.
LEMMA Quotient ==
    ASSUME NEW x \in Nat, NEW n \in Nat \ {0}
    PROVE  /\ x \div n \in Nat
           /\ (x \div n) * n \in 0..x /\ x - (x \div n) * n \in 0..(n - 1)
<1> DEFINE q == x \div n
           r == x % n
<1>1. q \in Int /\ r \in 0..(n - 1) /\ x = n * q + r
  OBVIOUS
<1> HIDE DEF q, r
<1>2. q >= 0
  <2>1. \A k \in Int : k <= -1 => n * k <= -n
    OBVIOUS
  <2> QED BY <1>1, <2>1
<1>3. q * n >= 0 /\ q * n = n * q
  <2>1. \A k \in Nat : k * n >= 0
    OBVIOUS
  <2> QED BY <1>1, <1>2, <2>1
<1>4. q * n \in Int
  BY <1>1
<1>5. q * n \in 0..x /\ x - q * n \in 0..(n - 1)
  BY <1>1, <1>3, <1>4
<1> QED BY <1>1, <1>2, <1>5 DEF q

\* As many parts of a size as the whole has, the last of them perhaps smaller.
LEMMA PartsFacts ==
    ASSUME NEW x \in Nat, NEW n \in Nat \ {0}, NEW p, p = (x + n - 1) \div n
    PROVE  /\ p \in Nat /\ p * n >= x
           /\ \A b \in 1..p : (b - 1) * n \in 0..(x - 1)
<1>1. x + n - 1 \in Nat
  OBVIOUS
<1>2. p \in Nat /\ p * n \in 0..(x + n - 1) /\ (x + n - 1) - p * n \in 0..(n - 1)
  BY <1>1, Quotient
<1>3. p * n >= x /\ p * n <= x + n - 1
  BY <1>2
<1>4. ASSUME NEW b \in 1..p PROVE (b - 1) * n \in 0..(x - 1)
  <2>1. b - 1 \in Nat /\ p - 1 \in Nat /\ b - 1 <= p - 1
    BY <1>2
  <2>2. (b - 1) * n <= (p - 1) * n /\ 0 * n <= (b - 1) * n
    BY <2>1, TimesLeq
  <2>3. (p - 1) * n = p * n - n /\ 0 * n = 0
    BY <1>2
  <2>4. (b - 1) * n \in Int /\ p * n \in Int
    BY <1>2
  <2> QED BY <1>3, <2>2, <2>3, <2>4
<1> QED BY <1>2, <1>3, <1>4

\* The less of two numbers.
LEMMA MinOfTwo ==
    ASSUME NEW a \in Nat, NEW b \in Nat
    PROVE  Min({a, b}) = IF a <= b THEN a ELSE b
<1>1. CASE a <= b
  <2>1. \A x \in {a, b} : (\A y \in {a, b} : x <= y) <=> x = a
    BY <1>1
  <2> QED BY <1>1, <2>1 DEF Min
<1>2. CASE ~(a <= b)
  <2>1. \A x \in {a, b} : (\A y \in {a, b} : x <= y) <=> x = b
    BY <1>2
  <2> QED BY <1>2, <2>1 DEF Min
<1> QED BY <1>1, <1>2

-----------------------------------------------------------------------------
(* Cutting, and the buffers of the pool *)

Sample == [0..(SampleSize - 1) -> Bytes]

\* Buffers that have something in them, and queues of no more than there are.
Buffer == {b \in Seq(Sample) : Len(b) \in 1..BufferSize}

Queue == {q \in Seq(Buffer) : Len(q) <= PoolSize}

\* The buffers that n samples are cut into.
Parts(n) == (n + BufferSize - 1) \div BufferSize

\* The constants, as far as the numbers of buffers are concerned.
LEMMA Sizes ==
    /\ Channels \in Nat \ {0} /\ SampleSize \in Nat \ {0} /\ BlockFrames \in Nat \ {0}
    /\ BufferSize \in Nat \ {0} /\ PoolSize \in Nat \ {0} /\ Reserve \in 1..PoolSize
    /\ MaxFrames \in Nat \ {0} /\ MaxChunks \in Nat
BY EncodingAssumption

\* A queue is a sequence of sequences of samples.
LEMMA QueueType ==
    ASSUME NEW q \in Queue
    PROVE  /\ q \in Seq(Buffer) /\ q \in Seq(Seq(Sample)) /\ Len(q) \in 0..PoolSize
<1>1. q \in Seq(Buffer) /\ Len(q) <= PoolSize /\ Buffer \subseteq Seq(Sample)
  BY DEF Queue, Buffer
<1>2. Len(q) \in Nat
  BY <1>1, LenProperties
<1>3. q \in Seq(Seq(Sample))
  BY <1>1, SeqMonotonic
<1> QED BY <1>1, <1>2, <1>3, Sizes

\* Samples are cut into buffers that are not empty, and that have all of them in order.
LEMMA CutFacts ==
    ASSUME NEW x \in Seq(Sample)
    PROVE  /\ Cut(x) \in Seq(Buffer) /\ Len(Cut(x)) = Parts(Len(x)) /\ Parts(Len(x)) \in Nat
           /\ FlattenSeq(Cut(x)) = x
<1> DEFINE B == BufferSize
           l == Len(x)
           n == Parts(l)
           c == [b \in 0..n |-> Min({b * B, l})]
           s == Cut(x)
<1>1. l \in Nat /\ B \in Nat \ {0}
  BY Sizes, LenProperties
<1>2. n \in Nat /\ n * B >= l /\ \A b \in 1..n : (b - 1) * B \in 0..(l - 1)
  BY <1>1, PartsFacts DEF Parts
<1> HIDE DEF B, l, n
<1>3. ASSUME NEW b \in 0..n PROVE b * B \in Nat /\ c[b] = IF b * B <= l THEN b * B ELSE l
  <2>1. b * B \in Nat
    BY <1>1, <1>2
  <2> QED BY <1>1, <2>1, MinOfTwo
<1> HIDE DEF c
<1>4. ASSUME NEW b \in 1..n
      PROVE  /\ c[b - 1] = (b - 1) * B /\ c[b - 1] \in 0..(l - 1)
             /\ c[b] \in (c[b - 1] + 1)..l /\ c[b] - c[b - 1] \in 1..B
  <2>1. b \in 0..n /\ b - 1 \in 0..n
    BY <1>2
  <2>2. (b - 1) * B \in 0..(l - 1) /\ b * B = (b - 1) * B + B
    BY <1>1, <1>2, <2>1
  <2>3. c[b - 1] = (b - 1) * B
    <3>1. (b - 1) * B <= l
      BY <1>1, <2>2
    <3> QED BY <1>3, <2>1, <3>1
  <2> DEFINE k == (b - 1) * B
             j == b * B
  <2>4. k \in 0..(l - 1) /\ j = k + B /\ c[b - 1] = k /\ c[b] = IF j <= l THEN j ELSE l
    BY <1>3, <2>1, <2>2, <2>3
  <2> HIDE DEF k, j
  <2>5. c[b - 1] \in 0..(l - 1) /\ c[b] \in (c[b - 1] + 1)..l /\ c[b] - c[b - 1] \in 1..B
    BY <1>1, <2>4
  <2> QED BY <2>3, <2>5
<1>5. c[0] = 0 /\ c[n] = l
  <2>1. 0 * B = 0 /\ 0 \in 0..n /\ n \in 0..n
    BY <1>1, <1>2
  <2>2. c[0] = 0
    BY <1>1, <1>3, <2>1
  <2>3. n * B \in Nat /\ c[n] = IF n * B <= l THEN n * B ELSE l
    BY <1>3, <2>1
  <2>4. c[n] = l
    BY <1>1, <1>2, <2>3
  <2> QED BY <2>2, <2>4
<1>6. s = [b \in 1..n |-> SubSeq(x, c[b - 1] + 1, c[b])]
  <2>1. s = [b \in 1..n |-> SubSeq(x, (b - 1) * B + 1, Min({b * B, l}))]
    BY Zenon DEF Cut, Parts, B, l, n
  <2>2. \A b \in 1..n : c[b] = Min({b * B, l}) /\ c[b - 1] = (b - 1) * B
    <3>1. \A b \in 1..n : b \in 0..n
      BY <1>2
    <3>2. \A b \in 1..n : c[b] = Min({b * B, l})
      BY <3>1 DEF c
    <3> QED BY <1>4, <3>2
  <2> QED BY <2>1, <2>2
<1> HIDE DEF s
<1>7. \A k \in 0..n : c[k] \in 0..Len(x)
  <2>1. \A k \in 0..n : c[k] \in 0..l
    BY <1>1, <1>3
  <2> QED BY <2>1 DEF l
<1>8. \A k \in 1..n : c[k - 1] <= c[k]
  BY <1>1, <1>4
<1>9. s \in Seq(Seq(Sample)) /\ Len(s) = n /\ FlattenSeq(s) = SubSeq(x, 1, c[n])
  <2>1. IsCut(s, x, c, n)
    BY <1>5, <1>6, <1>7, <1>8 DEF IsCut
  <2> QED BY <1>2, <2>1, FlattenSlices
<1>10. SubSeq(x, 1, c[n]) = x
  BY <1>5, SubSeqFull DEF l
<1>11. \A b \in 1..n : s[b] \in Buffer
  <2> SUFFICES ASSUME NEW b \in 1..n PROVE s[b] \in Buffer
    OBVIOUS
  <2>1. s[b] \in Seq(Sample)
    BY <1>9
  <2>2. c[b - 1] \in 0..(l - 1) /\ c[b] \in (c[b - 1] + 1)..l /\ c[b] - c[b - 1] \in 1..B
    BY <1>4
  <2> DEFINE m == c[b - 1] + 1
  <2>3. m \in Int /\ c[b] \in Int /\ m <= c[b] /\ c[b] - m + 1 \in 1..B
    <3> DEFINE e == c[b - 1]
               g == c[b]
    <3>1. /\ e \in 0..(l - 1) /\ g \in (e + 1)..l /\ g - e \in 1..B
          /\ l \in Nat /\ B \in Nat
      BY <1>1, <2>2
    <3> HIDE DEF e, g
    <3>2. /\ e + 1 \in Int /\ g \in Int /\ e + 1 <= g /\ g - (e + 1) + 1 \in 1..B
      BY <3>1
    <3> QED BY <3>2 DEF e, g
  <2>4. \A i \in m..c[b] : x[i] \in Sample
    BY <1>1, <2>2 DEF l
  <2>5. s[b] = SubSeq(x, m, c[b])
    BY <1>6
  <2> HIDE DEF m
  <2>6. Len(s[b]) = c[b] - m + 1
    BY <2>3, <2>4, <2>5, SubSeqProperties
  <2> QED BY <2>1, <2>3, <2>6 DEF Buffer, B
<1>12. s \in Seq(Buffer)
  <2>1. s \in [1..n -> Buffer]
    BY <1>6, <1>11
  <2> QED BY <1>2, <2>1, SeqDef
<1> QED BY <1>2, <1>9, <1>10, <1>12 DEF s, n, l

\* The encoded callback: a queue stays one, and what is queued is what was there before and
\* as much as there are buffers for of what was encoded, all of it if there are enough.
LEMMA PushedFacts ==
    ASSUME NEW q \in Queue, NEW x \in Seq(Sample)
    PROVE  /\ Pushed(q, x) \in Queue
           /\ Len(Pushed(q, x)) <= Len(q) + Parts(Len(x))
           /\ \E r \in Seq(Sample) :
                /\ Cat(FlattenSeq(Pushed(q, x)), r) = Cat(FlattenSeq(q), x)
                /\ Len(q) + Parts(Len(x)) <= PoolSize => r = <<>>
<1> DEFINE s == Cut(x)
           n == Len(s)
           m == Min({Available(q), n})
           t == SubSeq(s, 1, m)
           u == SubSeq(s, m + 1, n)
<1>1. /\ s \in Seq(Buffer) /\ n = Parts(Len(x)) /\ n \in Nat /\ FlattenSeq(s) = x
      /\ q \in Seq(Buffer) /\ q \in Seq(Seq(Sample)) /\ Len(q) \in 0..PoolSize
      /\ PoolSize \in Nat
  BY CutFacts, QueueType, Sizes
<1>2. /\ Available(q) \in Nat /\ Available(q) = PoolSize - Len(q)
      /\ m = IF Available(q) <= n THEN Available(q) ELSE n
  <2>1. Available(q) \in Nat /\ Available(q) = PoolSize - Len(q)
    BY <1>1 DEF Available
  <2> QED BY <1>1, <2>1, MinOfTwo
<1>3. /\ m \in 0..n /\ Len(q) + m <= PoolSize
      /\ Len(q) + n <= PoolSize => m = n
  <2> DEFINE a == Available(q)
             l == Len(q)
  <2>1. /\ a \in Nat /\ a = PoolSize - l /\ n \in Nat /\ PoolSize \in Nat /\ l \in 0..PoolSize
        /\ m = IF a <= n THEN a ELSE n
    BY <1>1, <1>2
  <2> HIDE DEF m, n, a, l
  <2>2. /\ m \in 0..n /\ l + m <= PoolSize
        /\ l + n <= PoolSize => m = n
    BY <2>1
  <2> QED BY <2>2 DEF l
<1>4. Pushed(q, x) = q \o t
  BY DEF Pushed
<1> HIDE DEF s, m
<1>5. t \in Seq(Buffer) /\ Len(t) = m /\ u \in Seq(Buffer) /\ t \o u = s
  <2>1. /\ m \in 0..Len(s) /\ 1 \in 1..(Len(s) + 1) /\ m \in (1 - 1)..Len(s)
        /\ n \in m..Len(s)
    BY <1>1, <1>3
  <2>2. t \o u = SubSeq(s, 1, n)
    BY <1>1, <2>1, ConcatAdjacentSubSeq
  <2>3. SubSeq(s, 1, n) = s
    BY <1>1, SubSeqFull
  <2>4. t \in Seq(Buffer) /\ Len(t) = m
    <3>1. \A i \in 1..m : s[i] \in Buffer
      BY <1>1, <1>3
    <3>2. m \in Int /\ 1 \in Int
      BY <1>3
    <3>3. Len(t) = IF 1 <= m THEN m - 1 + 1 ELSE 0
      BY <3>1, <3>2, SubSeqProperties
    <3> QED BY <1>3, <3>1, <3>2, <3>3, SubSeqProperties
  <2>5. u \in Seq(Buffer)
    <3>1. \A i \in (m + 1)..n : s[i] \in Buffer
      BY <1>1, <1>3
    <3>2. m + 1 \in Int /\ n \in Int
      BY <1>1, <1>3
    <3> QED BY <3>1, <3>2, SubSeqProperties
  <2> QED BY <2>2, <2>3, <2>4, <2>5
<1> HIDE DEF t, u
<1>6. q \o t \in Seq(Buffer) /\ Len(q \o t) = Len(q) + m
  BY <1>1, <1>5, ConcatProperties
<1>7. Pushed(q, x) \in Queue /\ Len(Pushed(q, x)) <= Len(q) + n
  <2> HIDE DEF n
  <2> QED BY <1>1, <1>3, <1>4, <1>6 DEF Queue
<1>8. t \in Seq(Seq(Sample)) /\ u \in Seq(Seq(Sample))
  <2>1. Buffer \subseteq Seq(Sample)
    BY DEF Buffer
  <2> QED BY <1>5, <2>1, SeqMonotonic
<1>9. /\ FlattenSeq(q) \in Seq(Sample) /\ FlattenSeq(t) \in Seq(Sample)
      /\ FlattenSeq(u) \in Seq(Sample)
  BY <1>1, <1>8, FlattenType
<1>10. /\ FlattenSeq(q \o t) = FlattenSeq(q) \o FlattenSeq(t)
       /\ x = FlattenSeq(t) \o FlattenSeq(u)
  <2>1. FlattenSeq(t \o u) = FlattenSeq(t) \o FlattenSeq(u)
    BY <1>8, FlattenConcat
  <2>2. FlattenSeq(q \o t) = FlattenSeq(q) \o FlattenSeq(t)
    BY <1>1, <1>8, FlattenConcat
  <2> QED BY <1>1, <1>5, <2>1, <2>2
<1>11. Cat(FlattenSeq(Pushed(q, x)), FlattenSeq(u)) = Cat(FlattenSeq(q), x)
  <2>1. Cat(Cat(FlattenSeq(q), FlattenSeq(t)), FlattenSeq(u))
          = Cat(FlattenSeq(q), Cat(FlattenSeq(t), FlattenSeq(u)))
    BY <1>9, Associative
  <2>2. /\ FlattenSeq(Pushed(q, x)) = Cat(FlattenSeq(q), FlattenSeq(t))
        /\ x = Cat(FlattenSeq(t), FlattenSeq(u))
    BY <1>4, <1>10 DEF Cat
  <2> QED BY <2>1, <2>2, Zenon
<1>12. m = n => FlattenSeq(u) = <<>>
  <2> SUFFICES ASSUME m = n PROVE FlattenSeq(u) = <<>>
    OBVIOUS
  <2>1. u = <<>>
    <3>1. m + 1 \in Int /\ n \in Int /\ n < m + 1
      BY <1>1
    <3> QED BY <3>1, SubSeqEmpty DEF u
  <2> QED BY <2>1, FlattenEmpty
<1> QED BY <1>1, <1>3, <1>7, <1>9, <1>11, <1>12

\* If there are buffers for all that was encoded, it is all queued.
LEMMA PushedFits ==
    ASSUME NEW q \in Queue, NEW x \in Seq(Sample), Len(q) + Parts(Len(x)) <= PoolSize
    PROVE  FlattenSeq(Pushed(q, x)) = Cat(FlattenSeq(q), x)
<1> DEFINE y == FlattenSeq(Pushed(q, x))
<1>1. \E r \in Seq(Sample) :
        /\ Cat(y, r) = Cat(FlattenSeq(q), x)
        /\ Len(q) + Parts(Len(x)) <= PoolSize => r = <<>>
  BY PushedFacts
<1>2. y \in Seq(Sample)
  BY PushedFacts, QueueType, FlattenType
<1> HIDE DEF y
<1>3. Cat(y, <<>>) = Cat(FlattenSeq(q), x)
  BY <1>1
<1>4. Cat(y, <<>>) = y
  BY <1>2, ConcatEmptySeq DEF Cat
<1> QED BY <1>3, <1>4 DEF y

\* The greatest of the numbers up to k.
LEMMA MaxOfInterval ==
    ASSUME NEW k \in Nat, NEW s \in SUBSET (1..(k + 1)), k + 1 \in s
    PROVE  Max(s) = k + 1
<1>1. \A y \in s : y \in Nat /\ k + 1 >= y
  OBVIOUS
<1>2. \A x \in s : (\A y \in s : x >= y) => x = k + 1
  BY <1>1
<1> QED BY <1>1, <1>2 DEF Max

\* K is the fold of Pushed over the subsets of 1..n, each from its greatest element down.
IsFold(K, q, s, n) ==
    K = [t \in SUBSET (1..n) |->
           IF t = {} THEN q ELSE Pushed(K[t \ {Max(t)}], s[Max(t)])]

\* There is such a fold.
LEMMA FoldExists ==
    ASSUME NEW q, NEW s, NEW n \in Nat
    PROVE  \E K : IsFold(K, q, s, n)
<1> DEFINE S == {m \in Nat : \E K : IsFold(K, q, s, m)}
<1>1. 0 \in S
  <2> DEFINE K == [t \in SUBSET (1..0) |-> q]
  <2>1. \A t \in SUBSET (1..0) : t = {}
    OBVIOUS
  <2>2. K = [t \in SUBSET (1..0) |->
               IF t = {} THEN q ELSE Pushed(K[t \ {Max(t)}], s[Max(t)])]
    BY <2>1
  <2> HIDE DEF K
  <2> QED BY <2>2 DEF IsFold
<1>2. ASSUME NEW m \in S PROVE m + 1 \in S
  <2>1. m \in Nat /\ m + 1 \in Nat
    OBVIOUS
  <2>2. PICK L : IsFold(L, q, s, m)
    OBVIOUS
  <2> DEFINE G(t) == IF t \subseteq 1..m THEN L[t] ELSE Pushed(L[t \ {m + 1}], s[m + 1])
             K == [t \in SUBSET (1..(m + 1)) |-> G(t)]
  <2>3. ASSUME NEW t \in SUBSET (1..(m + 1))
        PROVE  G(t) = IF t = {} THEN q ELSE Pushed(K[t \ {Max(t)}], s[Max(t)])
    <3>1. \A x : t \ {x} \in SUBSET (1..(m + 1))
      OBVIOUS
    <3>2. CASE t \subseteq 1..m
      <4>1. L[t] = IF t = {} THEN q ELSE Pushed(L[t \ {Max(t)}], s[Max(t)])
        BY <2>2, <3>2 DEF IsFold
      <4>2. K[t \ {Max(t)}] = G(t \ {Max(t)})
        BY <3>1
      <4>3. t \ {Max(t)} \subseteq 1..m
        BY <3>2
      <4>4. K[t \ {Max(t)}] = L[t \ {Max(t)}]
        BY <4>2, <4>3
      <4> HIDE DEF K
      <4> QED BY <3>2, <4>1, <4>4
    <3>3. CASE ~(t \subseteq 1..m)
      <4>1. m + 1 \in t /\ t # {} /\ t \ {m + 1} \subseteq 1..m
        BY <2>1, <3>3
      <4>2. Max(t) = m + 1
        BY <2>1, <4>1, MaxOfInterval
      <4>3. K[t \ {m + 1}] = G(t \ {m + 1})
        BY <3>1
      <4>4. K[t \ {m + 1}] = L[t \ {m + 1}]
        BY <4>1, <4>3
      <4> HIDE DEF K
      <4> QED BY <3>3, <4>1, <4>2, <4>4
    <3> QED BY <3>2, <3>3
  <2>4. K = [t \in SUBSET (1..(m + 1)) |->
               IF t = {} THEN q ELSE Pushed(K[t \ {Max(t)}], s[Max(t)])]
    <3> HIDE DEF G
    <3> SUFFICES \A t \in SUBSET (1..(m + 1)) :
                   G(t) = IF t = {} THEN q ELSE Pushed(K[t \ {Max(t)}], s[Max(t)])
      OBVIOUS
    <3> QED BY <2>3
  <2>5. IsFold(K, q, s, m + 1)
    <3> HIDE DEF K, G
    <3> QED BY <2>4 DEF IsFold
  <2> HIDE DEF K, G
  <2> QED BY <2>1, <2>5
<1>3. S = Nat
  <2> HIDE DEF S
  <2>1. S \in SUBSET Nat
    BY DEF S
  <2> QED BY <1>1, <1>2, <2>1, Successors
<1> QED BY <1>3

\* F has, for each k, the queue when k of the n blocks were pushed.
IsPushed(F, q, s, n) ==
    /\ F[0] = q /\ F[n] = FoldLeft(Pushed, q, s)
    /\ \A k \in 1..n : F[k] = Pushed(F[k - 1], s[k])

\* What libFLAC emits is pushed block by block.
LEMMA FoldTurns ==
    ASSUME NEW q, NEW s, NEW n \in Nat, DOMAIN s = 1..n
    PROVE  \E F : IsPushed(F, q, s, n)
<1> DEFINE K == CHOOSE L : IsFold(L, q, s, n)
           F == [k \in 0..n |-> K[1..k]]
<1>1. IsFold(K, q, s, n)
  BY FoldExists
<1>2. FoldLeft(Pushed, q, s) = K[1..n]
  <2>1. FoldLeft(Pushed, q, s) =
          (CHOOSE L : L = [t \in SUBSET (DOMAIN s) |->
               IF t = {} THEN q ELSE Pushed(L[t \ {Max(t)}], s[Max(t)])])[DOMAIN s]
    BY DEF FoldLeft, MapThenFoldSet
  <2>2. K = (CHOOSE L : L = [t \in SUBSET (DOMAIN s) |->
               IF t = {} THEN q ELSE Pushed(L[t \ {Max(t)}], s[Max(t)])])
    BY DEF IsFold
  <2> QED BY <2>1, <2>2
<1> HIDE DEF K
<1>3. F[0] = q
  <2>1. 1..0 = {} /\ {} \in SUBSET (1..n)
    OBVIOUS
  <2>2. K[{}] = q
    BY <1>1 DEF IsFold
  <2> QED BY <2>1, <2>2
<1>4. ASSUME NEW k \in 1..n PROVE F[k] = Pushed(F[k - 1], s[k])
  <2>1. /\ 1..k \in SUBSET (1..n) /\ 1..k # {} /\ (1..k) \ {k} = 1..(k - 1)
        /\ k \in 0..n /\ k - 1 \in 0..n
    <3>1. k \in Nat /\ k >= 1 /\ k <= n
      OBVIOUS
    <3>2. 1..k \in SUBSET (1..n) /\ k \in 1..k /\ k \in 0..n /\ k - 1 \in 0..n
      BY <3>1
    <3>3. \A x : x \in (1..k) \ {k} <=> x \in 1..(k - 1)
      BY <3>1
    <3> QED BY <3>2, <3>3
  <2>2. Max(1..k) = k
    <3>1. k - 1 \in Nat /\ (k - 1) + 1 = k /\ k \in 1..k
      OBVIOUS
    <3> QED BY <3>1, MaxOfInterval
  <2>3. K[1..k] = Pushed(K[(1..k) \ {Max(1..k)}], s[Max(1..k)])
    BY <1>1, <2>1 DEF IsFold
  <2> QED BY <2>1, <2>2, <2>3
<1>5. F[n] = K[1..n]
  <2>1. n \in 0..n
    OBVIOUS
  <2> QED BY <2>1
<1> HIDE DEF F
<1> QED BY <1>2, <1>3, <1>4, <1>5 DEF IsPushed

\* However many blocks are pushed, a queue stays one.
LEMMA FoldPushedType ==
    ASSUME NEW q \in Queue, NEW s \in Seq(Seq(Sample))
    PROVE  FoldLeft(Pushed, q, s) \in Queue
<1> DEFINE n == Len(s)
<1>1. n \in Nat /\ DOMAIN s = 1..n /\ \A k \in 1..n : s[k] \in Seq(Sample)
  BY LenProperties
<1>2. PICK F : IsPushed(F, q, s, n)
  BY <1>1, FoldTurns
<1> HIDE DEF n
<1> DEFINE S == {k \in 0..n : F[k] \in Queue}
<1>3. 0 \in S
  BY <1>1, <1>2 DEF IsPushed
<1>4. ASSUME NEW k \in 0..(n - 1), k \in S PROVE k + 1 \in S
  <2>1. k + 1 \in 1..n /\ k + 1 \in 0..n /\ (k + 1) - 1 = k
    BY <1>1
  <2>2. F[k + 1] = Pushed(F[k], s[k + 1]) /\ F[k] \in Queue /\ s[k + 1] \in Seq(Sample)
    BY <1>1, <1>2, <1>4, <2>1 DEF IsPushed
  <2>3. F[k + 1] \in Queue
    BY <2>2, PushedFacts
  <2> QED BY <2>1, <2>3
<1>5. \A k \in 0..n : k \in S
  <2> HIDE DEF S
  <2> QED BY <1>1, <1>3, <1>4, UpTo
<1>6. n \in 0..n
  BY <1>1
<1> QED BY <1>2, <1>5, <1>6 DEF IsPushed

\* When there are buffers for all of the blocks, what is queued is what was there before
\* and the blocks.
LEMMA FoldPushedAll ==
    ASSUME NEW q \in Queue, NEW s \in Seq(Seq(Sample)), NEW m \in Nat,
           \A k \in 1..Len(s) : Parts(Len(s[k])) <= m,
           Len(q) + Len(s) * m <= PoolSize
    PROVE  FlattenSeq(FoldLeft(Pushed, q, s)) = Cat(FlattenSeq(q), FlattenSeq(s))
<1> DEFINE n == Len(s)
<1>1. /\ n \in Nat /\ DOMAIN s = 1..n /\ PoolSize \in Nat
      /\ \A k \in 1..n : s[k] \in Seq(Sample) /\ Parts(Len(s[k])) <= m
      /\ \A k \in 1..n : Parts(Len(s[k])) \in Nat
      /\ Len(q) \in Nat /\ FlattenSeq(q) \in Seq(Sample) /\ Len(q) + n * m <= PoolSize
  <2>1. \A k \in 1..n : s[k] \in Seq(Sample)
    BY LenProperties
  <2>2. \A k \in 1..n : Parts(Len(s[k])) \in Nat
    BY <2>1, CutFacts
  <2>3. n \in Nat /\ DOMAIN s = 1..n
    BY LenProperties
  <2>4. Len(q) \in Nat /\ FlattenSeq(q) \in Seq(Sample)
    BY QueueType, FlattenType
  <2> QED BY <2>1, <2>2, <2>3, <2>4, Sizes
<1>2. PICK F : IsPushed(F, q, s, n)
  BY <1>1, FoldTurns
<1>3. PICK G : /\ IsFlattened(G, s, n) /\ FlattenSeq(s) = G[n]
               /\ \A k \in 0..n : G[k] \in Seq(Sample)
  BY FlattenSteps
<1> HIDE DEF n
<1> DEFINE S == {k \in 0..n : /\ F[k] \in Queue /\ Len(F[k]) <= Len(q) + k * m
                              /\ FlattenSeq(F[k]) = Cat(FlattenSeq(q), G[k])}
<1>4. 0 \in S
  <2>1. Len(q) <= Len(q) + 0 * m
    BY <1>1
  <2>2. FlattenSeq(q) = Cat(FlattenSeq(q), G[0])
    <3>1. G[0] = <<>>
      BY <1>3 DEF IsFlattened
    <3> QED BY <1>1, <3>1, ConcatEmptySeq DEF Cat
  <2> QED BY <1>1, <1>2, <2>1, <2>2 DEF IsPushed
<1>5. ASSUME NEW k \in 0..(n - 1), k \in S PROVE k + 1 \in S
  <2>1. k \in Nat /\ k + 1 \in 1..n /\ k + 1 \in 0..n /\ k \in 0..n /\ (k + 1) - 1 = k
    BY <1>1
  <2> DEFINE x == s[k + 1]
             p == Parts(Len(x))
  <2>2. /\ F[k + 1] = Pushed(F[k], x) /\ x \in Seq(Sample) /\ p \in Nat /\ p <= m
        /\ F[k] \in Queue /\ Len(F[k]) <= Len(q) + k * m
        /\ FlattenSeq(F[k]) = Cat(FlattenSeq(q), G[k])
        /\ G[k + 1] = Cat(G[k], x) /\ G[k] \in Seq(Sample)
    <3>1. G[k + 1] = G[k] \o x
      BY <1>3, <2>1 DEF IsFlattened
    <3>2. F[k + 1] = Pushed(F[k], x)
      BY <1>2, <2>1 DEF IsPushed
    <3> QED BY <1>1, <1>3, <1>5, <2>1, <3>1, <3>2 DEF Cat
  <2>3. Len(F[k]) \in Nat
    BY <2>2, QueueType
  <2>4. (k + 1) * m = k * m + m /\ k * m \in Nat /\ (k + 1) * m <= n * m /\ n * m \in Nat
    <3>1. (k + 1) * m <= n * m
      BY <1>1, <2>1, TimesLeq
    <3>2. \A j \in Nat : j * m \in Nat
      OBVIOUS
    <3> QED BY <1>1, <2>1, <3>1, <3>2
  <2> DEFINE a == k * m
             b == n * m
             l == Len(q)
             j == Len(F[k])
  <2>5. /\ a \in Nat /\ b \in Nat /\ l \in Nat /\ j \in Nat /\ PoolSize \in Nat
        /\ (k + 1) * m = a + m /\ a + m <= b
        /\ j <= l + a /\ l + b <= PoolSize /\ p \in Nat /\ p <= m
    BY <1>1, <2>2, <2>3, <2>4
  <2> HIDE DEF x, p, a, b, l, j
  <2>6. j + p <= PoolSize /\ j + p <= l + (k + 1) * m
    BY <2>5
  <2>7. /\ F[k + 1] \in Queue /\ Len(F[k + 1]) <= Len(F[k]) + p
        /\ FlattenSeq(F[k + 1]) = Cat(FlattenSeq(F[k]), x)
    <3>1. PICK r \in Seq(Sample) :
            /\ Cat(FlattenSeq(Pushed(F[k], x)), r) = Cat(FlattenSeq(F[k]), x)
            /\ Len(F[k]) + Parts(Len(x)) <= PoolSize => r = <<>>
      BY <2>2, PushedFacts
    <3>2. r = <<>>
      BY <2>6, <3>1 DEF p, j
    <3>3. Pushed(F[k], x) \in Queue /\ Len(Pushed(F[k], x)) <= Len(F[k]) + p
      BY <2>2, PushedFacts DEF p
    <3>4. FlattenSeq(Pushed(F[k], x)) \in Seq(Sample)
      BY <3>3, QueueType, FlattenType
    <3>5. Cat(FlattenSeq(Pushed(F[k], x)), r) = FlattenSeq(Pushed(F[k], x))
      BY <3>2, <3>4, ConcatEmptySeq DEF Cat
    <3> QED BY <2>2, <3>1, <3>3, <3>5
  <2>8. Len(F[k + 1]) <= Len(q) + (k + 1) * m
    <3>1. Len(F[k + 1]) \in Nat
      BY <2>7, QueueType
    <3> DEFINE i == Len(F[k + 1])
               z == (k + 1) * m
    <3>2. /\ i \in Nat /\ j \in Nat /\ p \in Nat /\ l \in Nat /\ z \in Nat
          /\ i <= j + p /\ j + p <= l + z
      BY <2>4, <2>5, <2>6, <2>7, <3>1 DEF j
    <3> HIDE DEF i, z
    <3>3. i <= l + z
      BY <3>2
    <3> QED BY <3>3 DEF i, z, l
  <2>9. FlattenSeq(F[k + 1]) = Cat(FlattenSeq(q), G[k + 1])
    <3> DEFINE c == FlattenSeq(q)
               g == G[k]
    <3>1. c \in Seq(Sample) /\ g \in Seq(Sample) /\ x \in Seq(Sample)
      BY <1>1, <2>2
    <3> HIDE DEF c, g
    <3>2. Cat(Cat(c, g), x) = Cat(c, Cat(g, x))
      BY <3>1, Associative
    <3>3. FlattenSeq(F[k + 1]) = Cat(Cat(c, g), x) /\ G[k + 1] = Cat(g, x)
      BY <2>2, <2>7 DEF c, g
    <3> QED BY <3>2, <3>3 DEF c
  <2> QED BY <2>1, <2>7, <2>8, <2>9
<1>6. \A k \in 0..n : k \in S
  <2> HIDE DEF S
  <2> QED BY <1>1, <1>4, <1>5, UpTo
<1>7. n \in 0..n
  BY <1>1
<1> QED BY <1>2, <1>3, <1>6, <1>7 DEF IsPushed

-----------------------------------------------------------------------------
(* libFLAC *)

\* A block has samples.
LEMMA BlockSizeType == BlockSize \in Nat \ {0}
<1>1. \A a, b \in Nat \ {0} : a * b \in Nat \ {0}
  <2> SUFFICES ASSUME NEW a \in Nat \ {0}, NEW b \in Nat \ {0} PROVE a * b \in Nat \ {0}
    OBVIOUS
  <2>1. 1 * b <= a * b
    BY TimesLeq
  <2> QED BY <2>1
<1> QED BY <1>1, Sizes DEF BlockSize

\* What libFLAC is given comes as whole blocks, and as a rest that is less than a block.
LEMMA BlocksFacts ==
    ASSUME NEW x \in Seq(Sample)
    PROVE  /\ Blocks(x) \in Seq(Seq(Sample)) /\ Len(Blocks(x)) = Len(x) \div BlockSize
           /\ \A b \in 1..Len(Blocks(x)) : Len(Blocks(x)[b]) = BlockSize
           /\ Rest(x) \in Seq(Sample) /\ Len(Rest(x)) < BlockSize
           /\ Cat(FlattenSeq(Blocks(x)), Rest(x)) = x
<1> DEFINE l == Len(x)
           B == BlockSize
           n == l \div B
           c == [b \in 0..n |-> b * B]
           s == Blocks(x)
<1>1. l \in Nat /\ B \in Nat \ {0} /\ n \in Nat /\ n * B \in 0..l /\ l - n * B \in 0..(B - 1)
  BY BlockSizeType, LenProperties, Quotient
<1> HIDE DEF l, B, n
<1>2. s = [b \in 1..n |-> SubSeq(x, (b - 1) * B + 1, b * B)]
  BY Zenon DEF Blocks, l, B, n
<1>3. \A b \in 0..n : c[b] = b * B
  OBVIOUS
<1> HIDE DEF c, s
<1>4. ASSUME NEW b \in 0..n PROVE b * B \in 0..l
  <2>1. b * B <= n * B /\ b * B \in Nat
    <3>1. b * B <= n * B
      BY <1>1, TimesLeq
    <3>2. \A j \in Nat : j * B \in Nat
      BY <1>1
    <3> QED BY <1>1, <3>1, <3>2
  <2> QED BY <1>1, <2>1
<1>5. ASSUME NEW b \in 1..n
      PROVE  /\ c[b] = b * B /\ c[b - 1] = (b - 1) * B /\ b * B = (b - 1) * B + B
             /\ (b - 1) * B \in 0..l /\ b * B \in 0..l
  <2>1. b \in 0..n /\ b - 1 \in 0..n
    BY <1>1
  <2>2. b * B = (b - 1) * B + B
    BY <1>1
  <2> QED BY <1>3, <1>4, <2>1, <2>2
<1>6. IsCut(s, x, c, n)
  <2>1. c[0] = 0
    BY <1>1, <1>3
  <2>2. \A k \in 0..n : c[k] \in 0..Len(x)
    BY <1>3, <1>4 DEF l
  <2>3. \A k \in 1..n : c[k - 1] <= c[k]
    <3> SUFFICES ASSUME NEW k \in 1..n PROVE c[k - 1] <= c[k]
      OBVIOUS
    <3> DEFINE d == (k - 1) * B
    <3>1. c[k - 1] = d /\ c[k] = d + B /\ d \in 0..l
      BY <1>5
    <3> HIDE DEF d
    <3> QED BY <1>1, <3>1
  <2>4. s = [b \in 1..n |-> SubSeq(x, c[b - 1] + 1, c[b])]
    BY <1>2, <1>5
  <2> QED BY <2>1, <2>2, <2>3, <2>4 DEF IsCut
<1>7. s \in Seq(Seq(Sample)) /\ Len(s) = n /\ FlattenSeq(s) = SubSeq(x, 1, n * B)
  <2>1. n \in 0..n
    BY <1>1
  <2> QED BY <1>1, <1>3, <1>6, <2>1, FlattenSlices
<1>8. ASSUME NEW b \in 1..n PROVE Len(s[b]) = B
  <2> DEFINE d == (b - 1) * B
             e == b * B
  <2>1. s[b] = SubSeq(x, d + 1, e) /\ e = d + B /\ d \in 0..l /\ e \in 0..l
    BY <1>2, <1>5
  <2> HIDE DEF d, e
  <2>2. d + 1 \in Int /\ e \in Int /\ d + 1 <= e /\ e - (d + 1) + 1 = B
    BY <1>1, <2>1
  <2>3. \A i \in (d + 1)..e : x[i] \in Sample
    BY <1>1, <2>1 DEF l
  <2> QED BY <2>1, <2>2, <2>3, SubSeqProperties
<1> DEFINE t == n * B
<1>9. t \in 0..l /\ l - t \in 0..(B - 1) /\ Rest(x) = SubSeq(x, t + 1, l)
  BY <1>1 DEF Rest, l, B, n
<1> HIDE DEF t
<1>10. Rest(x) \in Seq(Sample) /\ Len(Rest(x)) < B
  <2>1. t + 1 \in Int /\ l \in Int
    BY <1>1, <1>9
  <2>2. \A i \in (t + 1)..l : x[i] \in Sample
    BY <1>1, <1>9 DEF l
  <2>3. Len(Rest(x)) = IF t + 1 <= l THEN l - (t + 1) + 1 ELSE 0
    BY <1>9, <2>1, <2>2, SubSeqProperties
  <2>4. Len(Rest(x)) < B
    BY <1>1, <1>9, <2>3
  <2> QED BY <1>9, <2>1, <2>2, <2>4, SubSeqProperties
<1>11. SubSeq(x, 1, t) \o SubSeq(x, t + 1, l) = x
  <2>1. /\ 1 \in 1..(Len(x) + 1) /\ t \in (1 - 1)..Len(x) /\ l \in t..Len(x)
    BY <1>1, <1>9 DEF l
  <2>2. SubSeq(x, 1, t) \o SubSeq(x, t + 1, l) = SubSeq(x, 1, l)
    BY <2>1, ConcatAdjacentSubSeq
  <2> QED BY <2>2, SubSeqFull DEF l
<1>12. Cat(FlattenSeq(s), Rest(x)) = x
  BY <1>7, <1>9, <1>11 DEF Cat, t
<1> QED BY <1>7, <1>8, <1>10, <1>12 DEF s, n, l, B

-----------------------------------------------------------------------------
(* Samples of the chunk *)

\* The remainder is what is added to a multiple.
LEMMA Remainder ==
    ASSUME NEW n \in Nat \ {0}, NEW q \in Int, NEW r \in 0..(n - 1)
    PROVE  (q * n + r) % n = r
<1> DEFINE x == q * n + r
           p == x \div n
           s == x % n
<1>1. x \in Int /\ p \in Int /\ s \in 0..(n - 1) /\ x = n * p + s
  OBVIOUS
<1> HIDE DEF p, s
<1>2. n * (p - q) = r - s
  BY <1>1
<1>3. \A k \in Int : k >= 1 => n * k >= n
  OBVIOUS
<1>4. \A k \in Int : k <= -1 => n * k <= -n
  OBVIOUS
<1>5. p - q = 0
  BY <1>1, <1>2, <1>3, <1>4
<1> QED BY <1>1, <1>2, <1>5 DEF s

\* Byte j of sample k is among the bytes of n samples, the lowest one of the next sample
\* behind it.
LEMMA ByteOf ==
    ASSUME NEW n \in Nat, NEW k \in 1..n, NEW j \in 0..(SampleSize - 1)
    PROVE  LET i == (k - 1) * SampleSize + j IN
           /\ i \in 0..(n * SampleSize - 1) /\ i % SampleSize = j
           /\ j < SampleSize - 1 =>
                i + 1 \in 0..(n * SampleSize - 1) /\ (i + 1) % SampleSize = j + 1
           /\ j = SampleSize - 1 =>
                /\ (i + 1) % SampleSize = 0
                /\ k < n => i + 1 \in 0..(n * SampleSize - 1)
                /\ k = n => i + 1 = n * SampleSize
<1> DEFINE S == SampleSize
           a == (k - 1) * S
           b == n * S
           i == a + j
<1>1. S \in Nat \ {0} /\ k - 1 \in Nat /\ k \in Nat /\ k - 1 <= k /\ k <= n
  BY Sizes
<1> HIDE DEF S
<1>2. k * S = a + S /\ a \in Nat /\ a + S <= b /\ b \in Nat
  <2>1. k * S <= b
    BY <1>1, TimesLeq
  <2>2. \A x \in Nat : x * S \in Nat
    BY <1>1
  <2>3. k * S = (k - 1) * S + S
    BY <1>1
  <2> QED BY <1>1, <2>1, <2>2, <2>3
<1>3. k < n => a + S + S <= b
  <2> SUFFICES ASSUME k < n PROVE a + S + S <= b
    OBVIOUS
  <2>1. k + 1 \in Nat /\ k + 1 <= n
    BY <1>1
  <2>2. (k + 1) * S <= b
    BY <1>1, <2>1, TimesLeq
  <2>3. (k + 1) * S = k * S + S
    BY <1>1
  <2> QED BY <1>2, <2>2, <2>3
<1>4. k = n => a + S = b
  BY <1>2
<1>5. \A r \in 0..(S - 1) : (a + r) % S = r
  BY <1>1, Remainder
<1>6. (a + S) % S = 0
  <2>1. (k * S + 0) % S = 0
    <3>1. 0 \in 0..(S - 1) /\ k \in Int
      BY <1>1
    <3> QED BY <1>1, <3>1, Remainder
  <2>2. k * S + 0 = a + S
    <3>1. \A x, y \in Nat : x = y + S => x + 0 = y + S
      BY <1>1
    <3>2. k * S \in Nat
      <4>1. \A x, y \in Nat : x * y \in Nat
        OBVIOUS
      <4> QED BY <1>1, <4>1
    <3> QED BY <1>2, <3>1, <3>2
  <2> QED BY <2>1, <2>2
<1> HIDE DEF a, b
<1>7. j \in 0..(S - 1)
  BY DEF S
<1>8. i \in 0..(b - 1) /\ i % S = j
  BY <1>1, <1>2, <1>5, <1>7
<1>9. ASSUME j < S - 1 PROVE i + 1 \in 0..(b - 1) /\ (i + 1) % S = j + 1
  <2>1. j + 1 \in 0..(S - 1) /\ i + 1 = a + (j + 1)
    BY <1>1, <1>2, <1>7, <1>9
  <2>2. (i + 1) % S = j + 1
    BY <1>5, <2>1
  <2> QED BY <1>1, <1>2, <2>1, <2>2
<1>10. ASSUME j = S - 1
       PROVE  /\ (i + 1) % S = 0
              /\ k < n => i + 1 \in 0..(b - 1)
              /\ k = n => i + 1 = b
  <2>1. i + 1 = a + S
    BY <1>1, <1>2, <1>10
  <2> HIDE DEF i
  <2>2. (i + 1) % S = 0
    BY <1>6, <2>1
  <2> QED BY <1>1, <1>2, <1>3, <1>4, <2>1, <2>2
<1> QED BY <1>8, <1>9, <1>10 DEF S, a, b

\* The bytes of a chunk are whole samples.
LEMMA ChunkSize ==
    ASSUME NEW frames \in 0..MaxFrames
    PROVE  /\ frames * Channels \in Nat
           /\ frames * FrameSize = frames * Channels * SampleSize
           /\ frames * FrameSize \in 0..(MaxFrames * FrameSize)
<1>1. frames \in Nat /\ FrameSize \in Nat /\ frames <= MaxFrames
  <2>1. \A a, b \in Nat : a * b \in Nat
    OBVIOUS
  <2> QED BY <2>1, Sizes DEF FrameSize
<1>2. frames * Channels \in Nat /\ frames * FrameSize \in Nat
  <2>1. \A a, b \in Nat : a * b \in Nat
    OBVIOUS
  <2> QED BY <1>1, <2>1, Sizes
<1>3. frames * FrameSize <= MaxFrames * FrameSize
  BY <1>1, Sizes, TimesLeq
<1>4. frames * FrameSize = frames * Channels * SampleSize
  BY <1>1, Sizes DEF FrameSize
<1> DEFINE x == frames * FrameSize
           y == MaxFrames * FrameSize
<1>5. x \in Nat /\ y \in Int /\ x <= y
  BY <1>1, <1>2, <1>3, Sizes
<1> HIDE DEF x, y
<1>6. x \in 0..y
  BY <1>5
<1> QED BY <1>2, <1>4, <1>6 DEF x, y

\* The samples of a chunk c in a format f.
Taken(f, c) ==
    [k \in 1..(c.frames * Channels) |->
        [j \in 0..(SampleSize - 1) |->
            IF f = "PCM" THEN Captured(c.number, (k - 1) * SampleSize + j)
            ELSE IF j = SampleSize - 1 THEN Cleared
            ELSE Captured(c.number, (k - 1) * SampleSize + j + 1)]]

Chunk == [number : 1..MaxChunks, frames : 1..MaxFrames]

\* A chunk is a sequence of samples.
LEMMA TakenType ==
    ASSUME NEW f, NEW c \in Chunk
    PROVE  Taken(f, c) \in Seq(Sample)
<1> DEFINE n == c.frames * Channels
           S == SampleSize
           M == MaxFrames * FrameSize
           x == Taken(f, c)
<1>1. /\ n \in Nat /\ c.number \in 1..MaxChunks /\ n * S \in 0..M /\ M \in Int
      /\ c.frames \in 0..MaxFrames
  <2>1. c.frames \in 0..MaxFrames /\ c.number \in 1..MaxChunks
    BY Sizes DEF Chunk
  <2>2. M \in Int
    <3>1. \A a, b \in Nat : a * b \in Int
      OBVIOUS
    <3> QED BY <3>1, Sizes DEF FrameSize
  <2> QED BY <2>1, <2>2, ChunkSize
<1>2. ASSUME NEW k \in 1..n, NEW j \in 0..(S - 1)
      PROVE  (IF f = "PCM" THEN Captured(c.number, (k - 1) * S + j)
              ELSE IF j = S - 1 THEN Cleared
              ELSE Captured(c.number, (k - 1) * S + j + 1)) \in Bytes
  <2> DEFINE i == (k - 1) * S + j
             b == n * S
  <2>1. i \in 0..(b - 1) /\ (j < S - 1 => i + 1 \in 0..(b - 1))
    BY <1>1, ByteOf
  <2>2. b \in 0..M
    BY <1>1
  <2> HIDE DEF i, b, M
  <2>3. i \in 0..(M - 1) /\ (j # S - 1 => i + 1 \in 0..(M - 1))
    BY <1>1, <2>1, <2>2, Sizes
  <2>4. \A z \in 0..(M - 1) : Captured(c.number, z) \in Bytes
    BY <1>1 DEF Bytes, M
  <2>5. Cleared \in Bytes
    BY DEF Bytes
  <2> QED BY <2>3, <2>4, <2>5 DEF i
<1>3. x \in [1..n -> Sample]
  BY <1>2 DEF Taken, Sample
<1> HIDE DEF x, n
<1> QED BY <1>1, <1>3, SeqDef DEF x

\* What is read from the chunk's buffer are samples.
LEMMA SamplesType ==
    ASSUME NEW bytes, NEW address \in Nat, NEW n \in Nat, NEW m \in Nat,
           \A i \in 0..(m - 1) : bytes[i] \in Bytes, address + n * SampleSize <= m
    PROVE  Samples(bytes, address, n) \in Seq(Sample) /\ Len(Samples(bytes, address, n)) = n
<1> DEFINE S == SampleSize
           x == Samples(bytes, address, n)
<1>1. ASSUME NEW k \in 1..n, NEW j \in 0..(S - 1)
      PROVE  bytes[address + (k - 1) * S + j] \in Bytes
  <2> DEFINE i == (k - 1) * S + j
             b == n * S
  <2>1. i \in 0..(b - 1) /\ b \in Int
    <3>1. b \in Int
      BY Sizes
    <3> QED BY <3>1, ByteOf
  <2>2. address + (k - 1) * S + j = address + i
    <3>1. (k - 1) * S \in Int
      BY Sizes
    <3> QED BY <3>1, Sizes
  <2>3. address + b <= m
    OBVIOUS
  <2> HIDE DEF i, b
  <2>4. address + i \in 0..(m - 1)
    BY <2>1, <2>3
  <2> QED BY <2>2, <2>4
<1>2. x \in [1..n -> Sample]
  BY <1>1 DEF Samples, Sample
<1>3. x \in Seq(Sample) /\ Len(x) = n
  <2> HIDE DEF x
  <2> QED BY <1>2, SeqDef, LenProperties
<1> QED BY <1>3

\* The last frame, and the ones before it.
LEMMA Frames ==
    ASSUME NEW frames \in 1..MaxFrames
    PROVE  /\ (frames - 1) * Channels \in Nat /\ FrameSize = Channels * SampleSize
           /\ FrameSize \in Nat \ {0}
           /\ frames * Channels = (frames - 1) * Channels + Channels
           /\ frames * FrameSize = (frames - 1) * FrameSize + FrameSize
           /\ (frames - 1) * FrameSize = (frames - 1) * Channels * SampleSize
           /\ (frames - 1) * FrameSize \in Nat
           /\ MaxFrames * FrameSize \in Nat
           /\ frames * FrameSize <= MaxFrames * FrameSize
<1>1. frames \in 0..MaxFrames /\ frames - 1 \in 0..MaxFrames /\ frames \in Nat
  BY Sizes
<1>2. FrameSize \in Nat \ {0} /\ FrameSize = Channels * SampleSize
  <2>1. \A a, b \in Nat \ {0} : a * b \in Nat \ {0} /\ a * b = b * a
    <3> SUFFICES ASSUME NEW a \in Nat \ {0}, NEW b \in Nat \ {0}
                 PROVE  a * b \in Nat \ {0} /\ a * b = b * a
      OBVIOUS
    <3>1. 1 * b <= a * b
      BY TimesLeq
    <3> QED BY <3>1
  <2> QED BY <2>1, Sizes DEF FrameSize
<1>3. frames * Channels = (frames - 1) * Channels + Channels
  BY <1>1, Sizes
<1>4. frames * FrameSize = (frames - 1) * FrameSize + FrameSize
  BY <1>1, <1>2
<1>5. /\ (frames - 1) * Channels \in Nat /\ (frames - 1) * FrameSize \in Nat
      /\ (frames - 1) * FrameSize = (frames - 1) * Channels * SampleSize
  BY <1>1, ChunkSize
<1>6. MaxFrames * FrameSize \in Nat
  <2>1. \A a, b \in Nat : a * b \in Nat
    OBVIOUS
  <2> QED BY <1>2, <2>1, Sizes
<1>7. frames * FrameSize <= MaxFrames * FrameSize
  <2>1. frames <= MaxFrames /\ MaxFrames \in Nat
    BY <1>1, Sizes
  <2> QED BY <1>1, <1>2, <2>1, TimesLeq
<1> QED BY <1>2, <1>3, <1>4, <1>5, <1>6, <1>7

\* What libFLAC is given of a chunk are as many samples as it has.
LEMMA ShiftedType ==
    ASSUME chunk \in Chunk, NEW bytes, bytes \in [0..(MaxFrames * FrameSize - 1) -> Bytes]
    PROVE  /\ Samples(bytes, 1, (chunk.frames - 1) * Channels) \in Seq(Sample)
           /\ Len(Samples(bytes, 1, (chunk.frames - 1) * Channels))
                = (chunk.frames - 1) * Channels
           /\ Samples(LastFrame(bytes), 0, Channels) \in Seq(Sample)
           /\ Len(Samples(LastFrame(bytes), 0, Channels)) = Channels
           /\ Shifted(bytes) \in Seq(Sample)
           /\ Len(Shifted(bytes)) = chunk.frames * Channels
<1> DEFINE f == chunk.frames
           N == (f - 1) * Channels
           a == (f - 1) * FrameSize
           M == MaxFrames * FrameSize
           A == Samples(bytes, 1, N)
           L == LastFrame(bytes)
           B == Samples(L, 0, Channels)
<1>1. /\ N \in Nat /\ f * Channels = N + Channels /\ a = N * SampleSize
      /\ FrameSize = Channels * SampleSize /\ FrameSize \in Nat \ {0} /\ M \in Nat /\ a \in Nat
      /\ a + FrameSize <= M
  <2>1. f \in 1..MaxFrames
    BY DEF Chunk
  <2> QED BY <2>1, Frames
<1> HIDE DEF N, M
<1>2. A \in Seq(Sample) /\ Len(A) = N
  <2>1. 1 + N * SampleSize <= M
    <3> HIDE DEF a
    <3>1. 1 + a <= M
      BY <1>1
    <3> QED BY <1>1, <3>1
  <2>2. \A i \in 0..(M - 1) : bytes[i] \in Bytes
    BY DEF M
  <2> QED BY <1>1, <2>1, <2>2, SamplesType
<1>3. \A j \in 0..(FrameSize - 1) : L[j] \in Bytes
  <2> SUFFICES ASSUME NEW j \in 0..(FrameSize - 1) PROVE L[j] \in Bytes
    OBVIOUS
  <2>1. L[j] = IF j = FrameSize - 1 THEN Cleared ELSE bytes[a + j + 1]
    BY DEF LastFrame
  <2> HIDE DEF a
  <2>2. j # FrameSize - 1 => a + j + 1 \in 0..(M - 1)
    <3> DEFINE F == FrameSize
    <3>1. /\ a \in Nat /\ M \in Nat /\ F \in Nat /\ a + F <= M
          /\ j \in 0..(F - 1)
      BY <1>1
    <3> HIDE DEF F
    <3>2. j # F - 1 => a + j + 1 \in 0..(M - 1)
      BY <3>1
    <3> QED BY <3>2 DEF F
  <2>3. Cleared \in Bytes
    BY DEF Bytes
  <2> QED BY <2>1, <2>2, <2>3 DEF M
<1>4. B \in Seq(Sample) /\ Len(B) = Channels
  <2>1. 0 + Channels * SampleSize <= FrameSize
    BY <1>1
  <2>2. Channels \in Nat /\ FrameSize \in Nat /\ 0 \in Nat
    BY <1>1, Sizes
  <2> HIDE DEF L
  <2> QED BY <1>3, <2>1, <2>2, SamplesType
<1>5. Shifted(bytes) = A \o B
  BY DEF Shifted, N
<1> HIDE DEF A, B
<1>6. A \o B \in Seq(Sample) /\ Len(A \o B) = N + Channels
  BY <1>2, <1>4, ConcatProperties
<1> QED BY <1>1, <1>2, <1>4, <1>5, <1>6 DEF A, B, N

\* The n samples are what was captured of a chunk, with the lowest byte of each cleared.
Scaled(number, n, bytes) ==
    \A i \in 0..(n * SampleSize - 1) :
        bytes[i] = IF i % SampleSize = 0 THEN Cleared ELSE Captured(number, i)

\* The byte behind byte j of sample k, in such a chunk.
LEMMA ByteBehind ==
    ASSUME NEW n \in Nat, NEW k \in 1..n, NEW j \in 0..(SampleSize - 1), NEW number, NEW bytes,
           Scaled(number, n, bytes)
    PROVE  LET i == (k - 1) * SampleSize + j + 1 IN
           /\ (k < n \/ j # SampleSize - 1) =>
                /\ i \in 0..(n * SampleSize - 1)
                /\ bytes[i] = IF j = SampleSize - 1 THEN Cleared ELSE Captured(number, i)
           /\ (k = n /\ j = SampleSize - 1) => i = n * SampleSize
<1> DEFINE S == SampleSize
           h == (k - 1) * S + j
           m == n * S
<1>1. /\ j < S - 1 => h + 1 \in 0..(m - 1) /\ (h + 1) % S = j + 1
      /\ j = S - 1 => /\ (h + 1) % S = 0
                      /\ k < n => h + 1 \in 0..(m - 1)
                      /\ k = n => h + 1 = m
  BY ByteOf
<1>2. S \in Nat \ {0} /\ \A z \in 0..(m - 1) :
        bytes[z] = IF z % S = 0 THEN Cleared ELSE Captured(number, z)
  BY Sizes DEF Scaled
<1> HIDE DEF h, m, S
<1>3. CASE j = S - 1
  <2>1. k < n => bytes[h + 1] = Cleared
    BY <1>1, <1>2, <1>3
  <2> QED BY <1>1, <1>3, <2>1 DEF h, m, S
<1>4. CASE j # S - 1
  <2>1. j < S - 1 /\ j + 1 # 0
    BY <1>2, <1>4 DEF S
  <2>2. bytes[h + 1] = Captured(number, h + 1) /\ h + 1 \in 0..(m - 1)
    BY <1>1, <1>2, <2>1
  <2> QED BY <1>4, <2>2 DEF h, m, S
<1> QED BY <1>3, <1>4

\* The samples of the last frame are behind those of the n frames before it.
LEMMA InLastFrame ==
    ASSUME NEW n \in Nat, NEW i \in 1..Channels, NEW j \in 0..(SampleSize - 1)
    PROVE  LET p == (i - 1) * SampleSize + j
               k == n + i
           IN  /\ p \in 0..(FrameSize - 1) /\ 0 + (i - 1) * SampleSize + j = p
               /\ n * SampleSize + p + 1 = (k - 1) * SampleSize + j + 1
               /\ p = FrameSize - 1 <=>
                    n * SampleSize + p + 1 = (n + Channels) * SampleSize
<1> DEFINE S == SampleSize
           b == (i - 1) * S
           a == n * S
           p == b + j
<1>1. /\ Channels \in Nat /\ S \in Nat \ {0} /\ FrameSize = Channels * S
      /\ j \in 0..(S - 1) /\ i - 1 \in Nat
  <2>1. FrameSize = Channels * S
    BY Sizes DEF FrameSize
  <2> QED BY <2>1, Sizes
<1>2. p \in 0..(FrameSize - 1)
  BY <1>1, ByteOf
<1> HIDE DEF S
<1>3. /\ b \in Nat /\ a \in Nat /\ FrameSize \in Nat
      /\ ((n + i) - 1) * S = a + b /\ (n + Channels) * S = a + FrameSize
  <2>1. \A x, y \in Nat : x * y \in Nat
    OBVIOUS
  <2>2. ((n + i) - 1) * S = a + b
    <3>1. \A x \in Nat : (n + x) * S = n * S + x * S
      BY <1>1
    <3>2. (n + i) - 1 = n + (i - 1)
      OBVIOUS
    <3> QED BY <1>1, <3>1, <3>2
  <2>3. (n + Channels) * S = a + FrameSize
    BY <1>1
  <2> QED BY <1>1, <2>1, <2>2, <2>3
<1> HIDE DEF a, b
<1>4. /\ 0 + b + j = p /\ a + p + 1 = a + b + j + 1
      /\ p = FrameSize - 1 <=> a + p + 1 = a + FrameSize
  BY <1>1, <1>2, <1>3
<1> QED BY <1>2, <1>3, <1>4 DEF S, a, b

\* What libFLAC is given of such a chunk are its samples, as they should be.
LEMMA ShiftedTaken ==
    ASSUME chunk \in Chunk, NEW bytes, bytes \in [0..(MaxFrames * FrameSize - 1) -> Bytes],
           Scaled(chunk.number, chunk.frames * Channels, bytes)
    PROVE  Shifted(bytes) = Taken("FLAC", chunk)
<1> DEFINE f == chunk.frames
           S == SampleSize
           n == f * Channels
           N == (f - 1) * Channels
           a == (f - 1) * FrameSize
           A == Samples(bytes, 1, N)
           L == LastFrame(bytes)
           B == Samples(L, 0, Channels)
           x == Shifted(bytes)
           y == Taken("FLAC", chunk)
           Byte(k, j) == IF j = S - 1 THEN Cleared
                                      ELSE Captured(chunk.number, (k - 1) * S + j + 1)
<1>1. /\ N \in Nat /\ n = N + Channels /\ a = N * S /\ n * S = f * FrameSize
      /\ f * FrameSize = a + FrameSize /\ n \in Nat
      /\ FrameSize = Channels * S /\ FrameSize \in Nat \ {0} /\ a \in Nat
      /\ Channels \in Nat \ {0} /\ S \in Nat \ {0}
  <2>1. f \in 1..MaxFrames /\ f \in 0..MaxFrames
    BY DEF Chunk
  <2> QED BY <2>1, Frames, ChunkSize, Sizes
<1>2. /\ A \in Seq(Sample) /\ Len(A) = N /\ B \in Seq(Sample) /\ Len(B) = Channels
      /\ x \in Seq(Sample) /\ Len(x) = n /\ x = A \o B
  BY ShiftedType DEF Shifted
<1>3. y \in Seq(Sample) /\ y = [k \in 1..n |-> [j \in 0..(S - 1) |-> Byte(k, j)]]
  BY TakenType DEF Taken
<1>4. Len(y) = n
  <2> HIDE DEF y, Byte, n, S
  <2> QED BY <1>1, <1>3, LenProperties
<1>5. ASSUME NEW k \in 1..n, NEW j \in 0..(S - 1), NEW i, i = (k - 1) * S + j + 1
      PROVE  /\ (k < n \/ j # S - 1) => i \in 0..(n * S - 1) /\ bytes[i] = Byte(k, j)
             /\ (k = n /\ j = S - 1) => i = n * S
  <2>1. Scaled(chunk.number, n, bytes)
    OBVIOUS
  <2> DEFINE h == (k - 1) * S + j + 1
             number == chunk.number
  <2>2. /\ (k < n \/ j # S - 1) =>
             /\ h \in 0..(n * S - 1)
             /\ bytes[h] = IF j = S - 1 THEN Cleared ELSE Captured(number, h)
        /\ (k = n /\ j = S - 1) => h = n * S
    <3> HIDE DEF n, number
    <3>1. Scaled(number, n, bytes) /\ n \in Nat
      BY <1>1, <2>1 DEF number
    <3> QED BY <3>1, ByteBehind, Zenon
  <2> HIDE DEF n, S
  <2> QED BY <1>5, <2>2
<1>6. ASSUME NEW k \in 1..n PROVE x[k] = y[k]
  <2>1. y[k] = [j \in 0..(S - 1) |-> Byte(k, j)]
    BY <1>3
  <2>2. CASE k <= N
    <3>1. k \in 1..N /\ k < n
      BY <1>1, <2>2
    <3>2. x[k] = A[k]
      <4> HIDE DEF A, B, x, N
      <4> QED BY <1>1, <1>2, <3>1, ConcatProperties
    <3>3. A[k] = [j \in 0..(S - 1) |-> bytes[1 + (k - 1) * S + j]]
      BY <3>1 DEF Samples
    <3>4. \A j \in 0..(S - 1) : bytes[1 + (k - 1) * S + j] = Byte(k, j)
      <4> SUFFICES ASSUME NEW j \in 0..(S - 1)
                   PROVE  bytes[1 + (k - 1) * S + j] = Byte(k, j)
        OBVIOUS
      <4>1. 1 + (k - 1) * S + j = (k - 1) * S + j + 1
        <5>1. (k - 1) * S \in Int
          BY <1>1
        <5> QED BY <1>1, <5>1
      <4> HIDE DEF n, Byte, S
      <4> QED BY <1>5, <3>1, <4>1
    <3> HIDE DEF Byte, x, y, A
    <3> QED BY <2>1, <3>2, <3>3, <3>4
  <2>3. CASE ~(k <= N)
    <3> DEFINE i == k - N
    <3>1. i \in 1..Channels /\ k = N + i
      <4>1. N \in Nat /\ n = N + Channels /\ Channels \in Nat /\ k \in 1..n /\ ~(k <= N)
        BY <1>1, <2>3
      <4> HIDE DEF N, n
      <4> QED BY <4>1
    <3>2. x[k] = B[i]
      <4> HIDE DEF A, B, x, N
      <4>1. k \in 1..(Len(A) + Len(B)) /\ ~(k <= Len(A)) /\ k - Len(A) = i
        BY <1>1, <1>2, <2>3
      <4>2. (A \o B)[k] = B[k - Len(A)]
        BY <1>2, <4>1, ConcatProperties
      <4> QED BY <1>2, <4>1, <4>2
    <3>3. B[i] = [j \in 0..(S - 1) |-> L[0 + (i - 1) * S + j]]
      BY <3>1 DEF Samples
    <3>4. \A j \in 0..(S - 1) : L[0 + (i - 1) * S + j] = Byte(k, j)
      <4> SUFFICES ASSUME NEW j \in 0..(S - 1)
                   PROVE  L[0 + (i - 1) * S + j] = Byte(k, j)
        OBVIOUS
      <4> DEFINE p == (i - 1) * S + j
      <4> HIDE DEF i, N
      <4>1. /\ p \in 0..(FrameSize - 1) /\ 0 + (i - 1) * S + j = p
            /\ N * S + p + 1 = ((N + i) - 1) * S + j + 1
            /\ p = FrameSize - 1 <=> N * S + p + 1 = (N + Channels) * S
        <5>1. N \in Nat /\ i \in 1..Channels /\ j \in 0..(SampleSize - 1)
          BY <1>1, <3>1
        <5> QED BY <5>1, InLastFrame, Zenon
      <4>2. L[p] = IF p = FrameSize - 1 THEN Cleared ELSE bytes[a + p + 1]
        BY <4>1 DEF LastFrame
      <4>3. a + p + 1 = (k - 1) * S + j + 1
        BY <1>1, <3>1, <4>1, Zenon
      <4> DEFINE z == a + p + 1
      <4>4. /\ (k < n \/ j # S - 1) => z \in 0..(n * S - 1) /\ bytes[z] = Byte(k, j)
            /\ (k = n /\ j = S - 1) => z = n * S
        <5> HIDE DEF z, n, Byte, S
        <5> QED BY <1>5, <4>3 DEF z
      <4>5. p = FrameSize - 1 <=> z = n * S
        BY <1>1, <4>1, Zenon
      <4>6. k <= n
        BY <1>1
      <4>7. CASE k = n /\ j = S - 1
        <5>1. L[p] = Cleared
          BY <4>2, <4>4, <4>5, <4>7
        <5> QED BY <4>1, <4>7, <5>1
      <4>8. CASE ~(k = n /\ j = S - 1)
        <5>1. z \in 0..(n * S - 1) /\ bytes[z] = Byte(k, j)
          BY <1>1, <4>4, <4>6, <4>8
        <5>2. z # n * S
          <6> DEFINE w == n * S
          <6> HIDE DEF w, z
          <6> QED BY <5>1 DEF w
        <5>3. L[p] = bytes[z]
          BY <4>2, <4>5, <5>2
        <5> HIDE DEF Byte, p, z
        <5> QED BY <4>1, <5>1, <5>3
      <4> QED BY <4>7, <4>8
    <3> HIDE DEF Byte, x, y, B
    <3> QED BY <2>1, <3>2, <3>3, <3>4
  <2> QED BY <2>2, <2>3
<1> HIDE DEF x, y, n
<1> QED BY <1>2, <1>3, <1>4, <1>6, SeqEqual DEF x, y

\* What the wave encoder is given of a chunk that nothing has changed are its samples.
LEMMA SamplesTaken ==
    ASSUME chunk \in Chunk, NEW bytes,
           \A i \in 0..(chunk.frames * FrameSize - 1) : bytes[i] = Captured(chunk.number, i)
    PROVE  /\ Samples(bytes, 0, chunk.frames * Channels) = Taken("PCM", chunk)
           /\ Len(Taken("PCM", chunk)) = chunk.frames * Channels
<1> DEFINE S == SampleSize
           n == chunk.frames * Channels
<1>1. n \in Nat /\ n * S = chunk.frames * FrameSize /\ S \in Nat \ {0}
  <2>1. chunk.frames \in 0..MaxFrames
    BY DEF Chunk
  <2> QED BY <2>1, ChunkSize, Sizes
<1>2. Taken("PCM", chunk) =
        [k \in 1..n |-> [j \in 0..(S - 1) |-> Captured(chunk.number, (k - 1) * S + j)]]
  BY DEF Taken
<1>3. Samples(bytes, 0, n) =
        [k \in 1..n |-> [j \in 0..(S - 1) |-> bytes[0 + (k - 1) * S + j]]]
  BY DEF Samples
<1>4. ASSUME NEW k \in 1..n, NEW j \in 0..(S - 1)
      PROVE  bytes[0 + (k - 1) * S + j] = Captured(chunk.number, (k - 1) * S + j)
  <2>1. (k - 1) * S + j \in 0..(n * S - 1)
    BY <1>1, ByteOf
  <2>2. 0 + (k - 1) * S + j = (k - 1) * S + j
    <3>1. (k - 1) * S \in Int
      BY <1>1
    <3> QED BY <1>1, <3>1
  <2> QED BY <1>1, <2>1, <2>2
<1> HIDE DEF n, S
<1>5. Samples(bytes, 0, n) = Taken("PCM", chunk)
  <2>1. ASSUME NEW k \in 1..n
        PROVE  [j \in 0..(S - 1) |-> bytes[0 + (k - 1) * S + j]]
                 = [j \in 0..(S - 1) |-> Captured(chunk.number, (k - 1) * S + j)]
    BY <1>4, Zenon
  <2> QED BY <1>2, <1>3, <2>1, Zenon
<1>6. Len(Taken("PCM", chunk)) = n
  <2>1. Taken("PCM", chunk) \in Seq(Sample)
    BY TakenType
  <2> QED BY <1>1, <1>2, <2>1, LenProperties
<1> QED BY <1>5, <1>6 DEF n

-----------------------------------------------------------------------------
(* Types *)

\* As TypeOK, with what it takes to be inductive: who waits, waits for a chunk that has
\* frames, and so have the chunks that were encoded.
Types ==
    /\ format \in {"PCM", "FLAC"}
    /\ chunk \in [number : 0..MaxChunks, frames : 0..MaxFrames]
    /\ data \in [0..(MaxFrames * FrameSize - 1) -> Bytes]
    /\ waiting \subseteq Sessions
    /\ waiting # {} => chunk \in Chunk
    /\ phase \in [Sessions -> {"new", "running", "stopped", "flushed"}]
    /\ pending \in [Sessions -> Seq(Sample)]
    /\ \A s \in Sessions : Len(pending[s]) < BlockSize
    /\ sent \in [Sessions -> Seq(Sample)]
    /\ queue \in [Sessions -> Queue]
    /\ provided \in [Sessions -> Seq(Chunk)]

\* The queue that is empty, and the one without its first buffer, which a transfer leaves.
LEMMA QueueSteps ==
    /\ <<>> \in Queue
    /\ \A q \in Queue : q # <<>> =>
         /\ Head(q) \in Seq(Sample) /\ Tail(q) \in Queue
         /\ FlattenSeq(q) = Cat(Head(q), FlattenSeq(Tail(q)))
<1>1. <<>> \in Queue
  BY EmptySeq, Sizes DEF Queue
<1>2. ASSUME NEW q \in Queue, q # <<>>
      PROVE  /\ Head(q) \in Seq(Sample) /\ Tail(q) \in Queue
             /\ FlattenSeq(q) = Cat(Head(q), FlattenSeq(Tail(q)))
  <2>1. q \in Seq(Buffer) /\ q \in Seq(Seq(Sample)) /\ Len(q) \in 0..PoolSize
    BY QueueType
  <2>2. Tail(q) \in Seq(Buffer) /\ Len(Tail(q)) = Len(q) - 1
    BY <1>2, <2>1, HeadTailProperties
  <2>3. Tail(q) \in Queue
    BY <2>1, <2>2, Sizes DEF Queue
  <2> QED BY <1>2, <2>1, <2>3, FlattenHead DEF Cat
<1> QED BY <1>1, <1>2

\* What libFLAC emits when a stream begins is a sample.
LEMMA HeaderType == Header \in Sample /\ <<Header>> \in Seq(Sample) /\ Len(<<Header>>) = 1
<1>1. Captured(0, 1) \in Bytes
  BY DEF Bytes
<1>2. Header \in Sample
  BY <1>1 DEF Header, Sample
<1> HIDE DEF Header
<1> QED BY <1>2

\* What a session encodes of a chunk in its buffer is a sequence of samples.
LEMMA EncodedType ==
    ASSUME Types, chunk \in Chunk
    PROVE  /\ Samples(data, 0, chunk.frames * Channels) \in Seq(Sample)
           /\ DownScaled \in [0..(MaxFrames * FrameSize - 1) -> Bytes]
<1> DEFINE f == chunk.frames
           M == MaxFrames * FrameSize
<1>1. /\ f * Channels \in Nat /\ f * Channels * SampleSize <= M /\ M \in Nat
  <2>1. f \in 0..MaxFrames /\ f \in 1..MaxFrames
    BY DEF Chunk
  <2>2. f * FrameSize <= M /\ M \in Nat
    BY <2>1, Frames
  <2> QED BY <2>1, <2>2, ChunkSize
<1>2. \A i \in 0..(M - 1) : data[i] \in Bytes
  BY DEF Types
<1>3. Samples(data, 0, f * Channels) \in Seq(Sample)
  <2> DEFINE n == f * Channels
             z == n * SampleSize
  <2>1. z <= M /\ n \in Nat /\ z \in Nat
    <3>1. \A a, b \in Nat : a * b \in Nat
      OBVIOUS
    <3> QED BY <1>1, <3>1, Sizes
  <2> HIDE DEF M, n
  <2>2. 0 + z <= M
    <3> HIDE DEF z
    <3> QED BY <2>1
  <2> QED BY <1>1, <1>2, <2>1, <2>2, SamplesType DEF n
<1>4. DownScaled \in [0..(M - 1) -> Bytes]
  <2>1. DOMAIN data = 0..(M - 1)
    BY DEF Types
  <2>2. Cleared \in Bytes
    BY DEF Bytes
  <2> HIDE DEF M
  <2> QED BY <1>2, <2>1, <2>2 DEF DownScaled
<1> QED BY <1>3, <1>4

\* Types holds at the start.
LEMMA TypesInit == Init => Types
<1> SUFFICES ASSUME Init PROVE Types
  OBVIOUS
<1>1. format \in {"PCM", "FLAC"} /\ waiting = {}
  BY DEF Init
<1>2. chunk \in [number : 0..MaxChunks, frames : 0..MaxFrames]
  BY Sizes DEF Init
<1>3. data \in [0..(MaxFrames * FrameSize - 1) -> Bytes]
  <2>1. Cleared \in Bytes
    BY DEF Bytes
  <2> QED BY <2>1 DEF Init
<1>4. phase \in [Sessions -> {"new", "running", "stopped", "flushed"}]
  BY DEF Init
<1>5. <<>> \in Seq(Sample) /\ <<>> \in Seq(Chunk) /\ Len(<<>>) = 0 /\ 0 < BlockSize
  BY BlockSizeType
<1>6. /\ pending \in [Sessions -> Seq(Sample)]
      /\ \A s \in Sessions : Len(pending[s]) < BlockSize
  BY <1>5 DEF Init
<1>7. sent \in [Sessions -> Seq(Sample)] /\ provided \in [Sessions -> Seq(Chunk)]
  BY <1>5 DEF Init
<1>8. queue \in [Sessions -> Queue]
  BY QueueSteps DEF Init
<1> QED BY <1>1, <1>2, <1>3, <1>4, <1>6, <1>7, <1>8 DEF Types

\* Every step preserves Types.
LEMMA TypesStep == Types /\ [Next]_vars => Types'
<1> SUFFICES ASSUME Types, [Next]_vars PROVE Types'
  OBVIOUS
<1> USE DEF Types
<1>1. ASSUME NEW frames \in 1..MaxFrames, Produce(frames) PROVE Types'
  <2> USE <1>1 DEF Produce
  <2>1. chunk' \in Chunk /\ chunk' \in [number : 0..MaxChunks, frames : 0..MaxFrames]
    <3>1. chunk.number + 1 \in 1..MaxChunks /\ chunk.number + 1 \in 0..MaxChunks
      BY Sizes
    <3>2. frames \in 0..MaxFrames
      BY Sizes
    <3> QED BY <3>1, <3>2 DEF Chunk
  <2>2. data' \in [0..(MaxFrames * FrameSize - 1) -> Bytes]
    <3>1. \A i \in 0..(MaxFrames * FrameSize - 1) : Captured(chunk.number + 1, i) \in Bytes
      <4>1. chunk.number + 1 \in 1..MaxChunks
        BY Sizes
      <4> QED BY <4>1 DEF Bytes
    <3>2. data' = [i \in 0..(MaxFrames * FrameSize - 1) |->
                     IF i < frames * FrameSize THEN Captured(chunk.number + 1, i)
                                               ELSE data[i]]
      OBVIOUS
    <3> QED BY <3>1, <3>2
  <2>3. waiting' \subseteq Sessions
    OBVIOUS
  <2>4. UNCHANGED <<format, phase, pending, queue, sent, provided>>
    BY DEF sessionVars
  <2> QED BY <2>1, <2>2, <2>3, <2>4
<1>2. ASSUME NEW s \in Sessions, Start(s) PROVE Types'
  <2> USE <1>2 DEF Start
  <2>1. queue' \in [Sessions -> Queue]
    <3>1. Pushed(queue[s], <<Header>>) \in Queue
      BY HeaderType, PushedFacts
    <3> QED BY <3>1
  <2>2. phase' \in [Sessions -> {"new", "running", "stopped", "flushed"}]
    OBVIOUS
  <2>3. UNCHANGED <<format, chunk, data, waiting, pending, sent, provided>>
    BY DEF sourceVars
  <2> QED BY <2>1, <2>2, <2>3
<1>3. ASSUME NEW s \in Sessions, Accepts(s), Provided(s)
      PROVE  /\ chunk \in Chunk /\ provided' \in [Sessions -> Seq(Chunk)]
             /\ waiting' \subseteq Sessions /\ (waiting' # {} => chunk' \in Chunk)
             /\ UNCHANGED <<format, chunk, phase, sent>>
  BY <1>3, AppendProperties DEF Accepts, Provided
<1>4. ASSUME NEW s \in Sessions, EncodePCM(s) PROVE Types'
  <2>1. Accepts(s) /\ Provided(s) /\ UNCHANGED <<data, pending>>
    BY <1>4 DEF EncodePCM
  <2>2. Pushed(queue[s], Samples(data, 0, chunk.frames * Channels)) \in Queue
    <3>1. Samples(data, 0, chunk.frames * Channels) \in Seq(Sample)
      BY <1>3, <2>1, EncodedType
    <3> QED BY <3>1, PushedFacts
  <2>3. queue' \in [Sessions -> Queue]
    BY <1>4, <2>2 DEF EncodePCM
  <2> QED BY <1>3, <2>1, <2>3
<1>5. ASSUME NEW s \in Sessions, EncodeFLAC(s) PROVE Types'
  <2> DEFINE x == pending[s] \o Shifted(data')
  <2>1. Accepts(s) /\ Provided(s)
    BY <1>5 DEF EncodeFLAC
  <2>2. data' \in [0..(MaxFrames * FrameSize - 1) -> Bytes]
    BY <1>3, <1>5, <2>1, EncodedType DEF EncodeFLAC
  <2>3. x \in Seq(Sample)
    <3>1. Shifted(data') \in Seq(Sample)
      BY <1>3, <2>1, <2>2, ShiftedType
    <3> QED BY <3>1, ConcatProperties
  <2>4. /\ queue' = [queue EXCEPT ![s] = FoldLeft(Pushed, queue[s], Blocks(x))]
        /\ pending' = [pending EXCEPT ![s] = Rest(x)]
    BY <1>5 DEF EncodeFLAC
  <2> HIDE DEF x
  <2>5. /\ Blocks(x) \in Seq(Seq(Sample))
        /\ Rest(x) \in Seq(Sample) /\ Len(Rest(x)) < BlockSize
    BY <2>3, BlocksFacts
  <2>6. FoldLeft(Pushed, queue[s], Blocks(x)) \in Queue
    BY <2>5, FoldPushedType
  <2>7. queue' \in [Sessions -> Queue]
    BY <2>4, <2>6
  <2>8. /\ pending' \in [Sessions -> Seq(Sample)]
        /\ \A t \in Sessions : Len(pending'[t]) < BlockSize
    BY <2>4, <2>5
  <2> QED BY <1>3, <2>1, <2>2, <2>7, <2>8
<1>6. ASSUME NEW s \in Sessions, Stop(s) PROVE Types'
  <2> USE <1>6 DEF Stop
  <2>1. queue' \in [Sessions -> Queue]
    <3>1. Pushed(queue[s], pending[s]) \in Queue
      BY PushedFacts
    <3> QED BY <3>1
  <2>2. /\ pending' \in [Sessions -> Seq(Sample)]
        /\ \A t \in Sessions : Len(pending'[t]) < BlockSize
    <3>1. <<>> \in Seq(Sample) /\ Len(<<>>) = 0 /\ 0 < BlockSize
      BY BlockSizeType
    <3> QED BY <3>1
  <2>3. phase' \in [Sessions -> {"new", "running", "stopped", "flushed"}]
    OBVIOUS
  <2>4. waiting' \subseteq Sessions /\ (waiting' # {} => chunk' \in Chunk)
    OBVIOUS
  <2> QED BY <2>1, <2>2, <2>3, <2>4
<1>7. ASSUME NEW s \in Sessions, Transfer(s) PROVE Types'
  <2> USE <1>7 DEF Transfer
  <2>1. Head(queue[s]) \in Seq(Sample) /\ Tail(queue[s]) \in Queue
    BY QueueSteps
  <2>2. sent' \in [Sessions -> Seq(Sample)]
    <3>1. sent[s] \o Head(queue[s]) \in Seq(Sample)
      BY <2>1, ConcatProperties
    <3> QED BY <3>1
  <2>3. queue' \in [Sessions -> Queue]
    BY <2>1
  <2>4. UNCHANGED <<format, chunk, data, waiting, phase, pending, provided>>
    BY DEF sourceVars
  <2> QED BY <2>2, <2>3, <2>4
<1>8. ASSUME NEW s \in Sessions, Flush(s) PROVE Types'
  <2> USE <1>8 DEF Flush
  <2>1. queue' \in [Sessions -> Queue]
    BY QueueSteps
  <2>2. phase' \in [Sessions -> {"new", "running", "stopped", "flushed"}]
    OBVIOUS
  <2>3. UNCHANGED <<format, chunk, data, waiting, pending, sent, provided>>
    BY DEF sourceVars
  <2> QED BY <2>1, <2>2, <2>3
<1>9. CASE UNCHANGED vars
  BY <1>9 DEF vars, sourceVars, sessionVars
<1> HIDE DEF Types
<1> QED BY <1>1, <1>2, <1>4, <1>5, <1>6, <1>7, <1>8, <1>9 DEF Next

\* Types is TypeOK, and more.
LEMMA TypesTypeOK == Types => TypeOK
<1> SUFFICES ASSUME Types PROVE TypeOK
  OBVIOUS
<1>1. \A x \in Seq(Sample) : IsSamples(x)
  BY DEF IsSamples, Sample
<1>2. ASSUME NEW q \in Queue
      PROVE  /\ Len(q) <= PoolSize
             /\ \A b \in DOMAIN q : IsSamples(q[b]) /\ Len(q[b]) \in 1..BufferSize
  <2>1. \A b \in DOMAIN q : q[b] \in Buffer
    BY DEF Queue
  <2> QED BY <1>1, <2>1 DEF Queue, Buffer
<1> QED BY <1>1, <1>2 DEF Types, TypeOK

\* The variables stay in their types, for any sizes of samples, blocks, buffers and pools.
THEOREM EncodingTypeCorrect == Spec => []TypeOK
<1>1. Init => Types
  BY TypesInit
<1>2. Types /\ [Next]_vars => Types'
  BY TypesStep
<1>3. Types => TypeOK
  BY TypesTypeOK
<1> QED BY <1>1, <1>2, <1>3, PTL DEF Spec

-----------------------------------------------------------------------------
(* Nothing is lost *)

\* There are buffers for what a chunk is encoded into, however much libFLAC has kept, when
\* as many are free as a session wants to be; and the format has the 32 bits of a sample.
ChunksFit ==
    IF format = "PCM"
    THEN \A frames \in 1..MaxFrames : Parts(frames * Channels) <= Reserve
    ELSE /\ DownScale
         /\ \A frames \in 1..MaxFrames, kept \in 0..(BlockSize - 1) :
              ((kept + frames * Channels) \div BlockSize) * Parts(BlockSize) <= Reserve

\* Nothing but the lowest bytes of the chunk at the head was changed, and that as FLAC only.
Intact ==
    \A i \in 0..(chunk.frames * FrameSize - 1) :
        \/ data[i] = Captured(chunk.number, i)
        \/ format = "FLAC" /\ i % SampleSize = 0 /\ data[i] = Cleared

\* A session that has not begun has nothing, and only a running one is given a chunk.
Idle ==
    \A s \in Sessions :
        /\ phase[s] = "new" =>
             pending[s] = <<>> /\ queue[s] = <<>> /\ sent[s] = <<>> /\ provided[s] = <<>>
        /\ format = "PCM" => pending[s] = <<>>
        /\ s \in waiting => phase[s] = "running"

\* What the chunks p are in a format f.
Wanted(f, p) ==
    Cat(IF f = "FLAC" THEN <<Header>> ELSE <<>>,
        FlattenSeq([i \in DOMAIN p |-> Taken(f, p[i])]))

\* The samples that are sent and queued, and those of r, are all there are.
IsAll(s, r) == Cat(Cat(sent[s], FlattenSeq(queue[s])), r) = Wanted(format, provided[s])

\* What a session that runs has neither sent nor queued is what libFLAC keeps; one that is
\* stopped may have lost some, at the end.
Complete ==
    \A s \in Sessions :
        /\ phase[s] = "running" => IsAll(s, pending[s])
        /\ phase[s] # "new" => \E r \in Seq(Sample) : IsAll(s, r)

IInv == Types /\ ChunksFit /\ Intact /\ Idle /\ Complete

\* The chunks that were encoded are a sequence of samples, and one more of them is more of
\* its samples.
LEMMA WantedFacts ==
    ASSUME NEW f, NEW p \in Seq(Chunk)
    PROVE  /\ Wanted(f, p) \in Seq(Sample)
           /\ \A c \in Chunk : Wanted(f, Append(p, c)) = Cat(Wanted(f, p), Taken(f, c))
           /\ Wanted(f, <<>>) = IF f = "FLAC" THEN <<Header>> ELSE <<>>
<1> DEFINE h == IF f = "FLAC" THEN <<Header>> ELSE <<>>
           T(q) == [i \in DOMAIN q |-> Taken(f, q[i])]
<1>1. h \in Seq(Sample)
  BY HeaderType
<1>2. ASSUME NEW q \in Seq(Chunk)
      PROVE  /\ T(q) \in Seq(Seq(Sample)) /\ Len(T(q)) = Len(q)
             /\ FlattenSeq(T(q)) \in Seq(Sample)
  <2> DEFINE n == Len(q)
             t == T(q)
  <2>1. n \in Nat /\ DOMAIN q = 1..n /\ \A i \in 1..n : q[i] \in Chunk
    BY LenProperties
  <2>2. t \in [1..n -> Seq(Sample)]
    BY <2>1, TakenType
  <2> HIDE DEF n, t
  <2>3. t \in Seq(Seq(Sample)) /\ Len(t) = n
    BY <2>1, <2>2, SeqDef, LenProperties
  <2>4. FlattenSeq(t) \in Seq(Sample)
    BY <2>3, FlattenType
  <2> QED BY <2>3, <2>4 DEF n, t
<1>3. Wanted(f, p) \in Seq(Sample)
  <2>1. FlattenSeq(T(p)) \in Seq(Sample)
    BY <1>2
  <2>2. Wanted(f, p) = h \o FlattenSeq(T(p))
    BY DEF Wanted, Cat
  <2> HIDE DEF h, T
  <2> QED BY <1>1, <2>1, <2>2, ConcatProperties
<1>4. ASSUME NEW c \in Chunk PROVE Wanted(f, Append(p, c)) = Cat(Wanted(f, p), Taken(f, c))
  <2> DEFINE n == Len(p)
             q == Append(p, c)
             x == Taken(f, c)
             t == T(p)
             u == T(q)
             v == Append(t, x)
  <2>1. /\ n \in Nat /\ DOMAIN p = 1..n /\ q \in Seq(Chunk) /\ Len(q) = n + 1
        /\ DOMAIN q = 1..(n + 1) /\ q[n + 1] = c /\ \A i \in 1..n : q[i] = p[i]
    BY AppendProperties, LenProperties
  <2>2. x \in Seq(Sample)
    BY TakenType
  <2>3. t \in Seq(Seq(Sample)) /\ Len(t) = n /\ u \in Seq(Seq(Sample)) /\ Len(u) = n + 1
    BY <1>2, <2>1
  <2>4. /\ \A i \in 1..n : u[i] = t[i]
        /\ u[n + 1] = x
    <3>1. \A i \in 1..n : i \in 1..(n + 1)
      BY <2>1
    <3>2. n + 1 \in 1..(n + 1)
      BY <2>1
    <3> HIDE DEF q, n
    <3> QED BY <2>1, <3>1, <3>2
  <2> HIDE DEF n, q, t, u, x
  <2>5. /\ v \in Seq(Seq(Sample)) /\ Len(v) = n + 1 /\ v[n + 1] = x
        /\ \A i \in 1..n : v[i] = t[i]
    BY <2>2, <2>3, AppendProperties
  <2> HIDE DEF v
  <2>6. \A i \in 1..(n + 1) : u[i] = v[i]
    BY <2>1, <2>4, <2>5
  <2>7. u = v
    BY <2>3, <2>5, <2>6, SeqEqual
  <2>8. FlattenSeq(u) = Cat(FlattenSeq(t), x) /\ FlattenSeq(t) \in Seq(Sample)
    <3>1. FlattenSeq(v) = FlattenSeq(t) \o x
      BY <2>2, <2>3, FlattenAppend DEF v
    <3> QED BY <2>3, <2>7, <3>1, FlattenType DEF Cat
  <2> HIDE DEF h
  <2>9. Cat(Cat(h, FlattenSeq(t)), x) = Cat(h, Cat(FlattenSeq(t), x))
    BY <1>1, <2>2, <2>8, Associative
  <2>10. Wanted(f, q) = Cat(h, FlattenSeq(u)) /\ Wanted(f, p) = Cat(h, FlattenSeq(t))
    BY Zenon DEF Wanted, h, t, u
  <2>11. Wanted(f, q) = Cat(Wanted(f, p), x)
    BY <2>8, <2>9, <2>10, Zenon
  <2> QED BY <2>11 DEF q, x
<1>5. Wanted(f, <<>>) = h
  <2>1. T(<<>>) = <<>>
    OBVIOUS
  <2>2. Wanted(f, <<>>) = h \o <<>>
    BY <2>1, FlattenEmpty DEF Wanted, Cat
  <2> HIDE DEF h
  <2> QED BY <1>1, <2>2, ConcatEmptySeq
<1> QED BY <1>3, <1>4, <1>5

\* To IInv at the start.
LEMMA IInvInit == Init /\ ChunksFit => IInv
<1> SUFFICES ASSUME Init, ChunksFit PROVE IInv
  OBVIOUS
<1>1. Types
  BY TypesInit
<1>2. Intact
  <2>1. chunk.frames * FrameSize = 0
    <3>1. FrameSize \in Int
      <4>1. 1 \in 1..MaxFrames
        BY Sizes
      <4> QED BY <4>1, Frames
    <3> QED BY <3>1 DEF Init
  <2> QED BY <2>1 DEF Intact
<1>3. Idle /\ Complete
  BY DEF Init, Idle, Complete
<1> QED BY <1>1, <1>2, <1>3 DEF IInv

\* A session's buffer of a part.
LEMMA OnePart == Parts(1) = 1
<1>1. BufferSize \in Nat \ {0} /\ 0 \in 0..(BufferSize - 1)
  BY Sizes
<1> DEFINE x == 1 + BufferSize - 1
           p == x \div BufferSize
           r == x % BufferSize
<1>2. x = BufferSize /\ p \in Int /\ r \in 0..(BufferSize - 1) /\ x = BufferSize * p + r
  BY <1>1
<1> HIDE DEF p, r
<1>3. BufferSize * (p - 1) = -r
  BY <1>1, <1>2
<1>4. \A k \in Int : (k >= 1 => BufferSize * k >= BufferSize)
                     /\ (k <= -1 => BufferSize * k <= -BufferSize)
  BY <1>1
<1>5. p - 1 = 0
  BY <1>1, <1>2, <1>3, <1>4
<1> QED BY <1>2, <1>5 DEF Parts, p

\* What a session has are sequences of samples.
LEMMA SessionTypes ==
    ASSUME Types, NEW s \in Sessions
    PROVE  /\ sent[s] \in Seq(Sample) /\ pending[s] \in Seq(Sample) /\ queue[s] \in Queue
           /\ Len(pending[s]) \in 0..(BlockSize - 1)
           /\ FlattenSeq(queue[s]) \in Seq(Sample) /\ provided[s] \in Seq(Chunk)
           /\ Len(queue[s]) \in 0..PoolSize
<1>1. /\ sent[s] \in Seq(Sample) /\ pending[s] \in Seq(Sample) /\ queue[s] \in Queue
      /\ provided[s] \in Seq(Chunk) /\ Len(pending[s]) < BlockSize
  BY DEF Types
<1>2. FlattenSeq(queue[s]) \in Seq(Sample) /\ Len(queue[s]) \in 0..PoolSize
  BY <1>1, QueueType, FlattenType
<1>3. Len(pending[s]) \in 0..(BlockSize - 1)
  BY <1>1, BlockSizeType, LenProperties
<1> QED BY <1>1, <1>2, <1>3

\* A step of one session leaves the others what they have.
LEMMA OtherSessions ==
    ASSUME Complete, NEW s \in Sessions, format' = format,
           \A t \in Sessions \ {s} :
              /\ phase'[t] = phase[t] /\ pending'[t] = pending[t] /\ queue'[t] = queue[t]
              /\ sent'[t] = sent[t] /\ provided'[t] = provided[t],
           phase'[s] = "running" => IsAll(s, pending[s])',
           phase'[s] # "new" => \E r \in Seq(Sample) : IsAll(s, r)'
    PROVE  Complete'
<1>1. ASSUME NEW t \in Sessions \ {s}
      PROVE  /\ phase'[t] = "running" => IsAll(t, pending[t])'
             /\ phase'[t] # "new" => \E r \in Seq(Sample) : IsAll(t, r)'
  BY DEF Complete, IsAll
<1> QED BY <1>1 DEF Complete

\* Parts of IInv that a step of one session does not touch.
LEMMA OtherIdle ==
    ASSUME Idle, NEW s \in Sessions, format' = format,
           \A t \in Sessions \ {s} :
              /\ phase'[t] = phase[t] /\ pending'[t] = pending[t] /\ queue'[t] = queue[t]
              /\ sent'[t] = sent[t] /\ provided'[t] = provided[t],
           waiting' \subseteq waiting,
           phase'[s] # "new" /\ (s \in waiting' => phase'[s] = "running"),
           format = "PCM" => pending'[s] = <<>>
    PROVE  Idle'
BY DEF Idle

\* A new chunk is what was captured.
LEMMA ProduceStep ==
    ASSUME IInv, NEW frames \in 1..MaxFrames, Produce(frames)
    PROVE  Intact' /\ Idle' /\ Complete'
<1>1. Types /\ Idle /\ Complete /\ UNCHANGED <<format, phase, pending, queue, sent, provided>>
  BY DEF IInv, Produce, sessionVars
<1>2. Intact'
  <2> DEFINE m == frames * FrameSize
             M == MaxFrames * FrameSize
  <2>1. m \in Nat /\ M \in Nat /\ m <= M
    <3>1. frames \in 0..MaxFrames
      BY Sizes
    <3>2. m \in 0..M /\ m <= M /\ M \in Nat
      BY <3>1, ChunkSize, Frames
    <3> HIDE DEF m, M
    <3> QED BY <3>2
  <2>2. chunk'.frames * FrameSize = m /\ chunk'.number = chunk.number + 1
    BY DEF Produce
  <2>3. data' = [i \in 0..(M - 1) |->
                   IF i < m THEN Captured(chunk.number + 1, i) ELSE data[i]]
    BY <1>1 DEF Types, Produce
  <2> HIDE DEF m, M
  <2>4. \A i \in 0..(m - 1) : data'[i] = Captured(chunk'.number, i)
    BY <2>1, <2>2, <2>3
  <2> QED BY <2>2, <2>4 DEF Intact
<1>3. Idle'
  BY <1>1 DEF Idle, Produce
<1>4. Complete'
  BY <1>1 DEF Complete, IsAll
<1> QED BY <1>2, <1>3, <1>4

\* A session begins with the header of its format.
LEMMA StartStep ==
    ASSUME IInv, NEW s \in Sessions, Start(s)
    PROVE  Intact' /\ Idle' /\ Complete'
<1>1. /\ Types /\ Idle /\ Complete /\ Intact /\ phase[s] = "new"
      /\ UNCHANGED <<format, chunk, data, waiting, pending, sent, provided>>
      /\ phase' = [phase EXCEPT ![s] = "running"]
      /\ queue' = [queue EXCEPT ![s] =
                     IF format = "FLAC" THEN Pushed(queue[s], <<Header>>) ELSE queue[s]]
  BY DEF IInv, Start, sourceVars
<1>2. Intact'
  BY <1>1 DEF Intact
<1>3. /\ pending[s] = <<>> /\ queue[s] = <<>> /\ sent[s] = <<>> /\ provided[s] = <<>>
      /\ s \notin waiting
  BY <1>1 DEF Idle
<1>4. /\ phase'[s] = "running" /\ pending'[s] = <<>> /\ sent'[s] = <<>> /\ provided'[s] = <<>>
      /\ queue'[s] = IF format = "FLAC" THEN Pushed(<<>>, <<Header>>) ELSE <<>>
  BY <1>1, <1>3 DEF Types
<1>5. \A t \in Sessions \ {s} :
        /\ phase'[t] = phase[t] /\ pending'[t] = pending[t] /\ queue'[t] = queue[t]
        /\ sent'[t] = sent[t] /\ provided'[t] = provided[t]
  BY <1>1 DEF Types
<1>6. Idle'
  BY <1>1, <1>3, <1>4, <1>5, OtherIdle
<1>7. FlattenSeq(queue'[s]) = Wanted(format, <<>>)
  <2>1. Wanted(format, <<>>) = IF format = "FLAC" THEN <<Header>> ELSE <<>>
    BY EmptySeq, WantedFacts
  <2>2. FlattenSeq(Pushed(<<>>, <<Header>>)) = <<Header>>
    <3> DEFINE h == <<Header>>
               e == <<>>
    <3>1. h \in Seq(Sample) /\ e \in Queue /\ Len(e) + Parts(Len(h)) <= PoolSize
      BY HeaderType, QueueSteps, OnePart, Sizes
    <3> HIDE DEF h, e
    <3>2. FlattenSeq(Pushed(e, h)) = Cat(FlattenSeq(e), h)
      BY <3>1, PushedFits
    <3>3. Cat(FlattenSeq(e), h) = h
      BY <3>1, FlattenEmpty, ConcatEmptySeq DEF Cat, e
    <3> QED BY <3>2, <3>3 DEF h, e
  <2> QED BY <1>4, <2>1, <2>2, FlattenEmpty
<1>8. IsAll(s, <<>>)'
  <2> DEFINE w == Wanted(format, <<>>)
  <2>1. w \in Seq(Sample)
    BY EmptySeq, WantedFacts
  <2> HIDE DEF w
  <2>2. Cat(Cat(<<>>, w), <<>>) = w
    BY <2>1, ConcatEmptySeq DEF Cat
  <2>3. Cat(Cat(sent'[s], FlattenSeq(queue'[s])), <<>>) = Wanted(format', provided'[s])
    BY <1>1, <1>4, <1>7, <2>2 DEF w
  <2> QED BY <2>3 DEF IsAll
<1>9. IsAll(s, pending[s])' /\ \E r \in Seq(Sample) : IsAll(s, r)'
  BY <1>4, <1>8, EmptySeq DEF IsAll
<1>10. Complete'
  BY <1>1, <1>5, <1>9, OtherSessions
<1> QED BY <1>2, <1>6, <1>10

\* What was added to what is queued or kept, is added to what was provided.
LEMMA Encoded ==
    ASSUME NEW a \in Seq(Sample), NEW q \in Seq(Sample), NEW k \in Seq(Sample),
           NEW x \in Seq(Sample), NEW p \in Seq(Sample), NEW l \in Seq(Sample), NEW w,
           Cat(p, l) = Cat(q, Cat(k, x)), Cat(Cat(a, q), k) = w
    PROVE  Cat(Cat(a, p), l) = Cat(w, x)
<1>1. Cat(a, q) \in Seq(Sample) /\ Cat(k, x) \in Seq(Sample)
  BY ConcatProperties DEF Cat
<1>2. Cat(Cat(a, p), l) = Cat(a, Cat(p, l))
  BY Associative
<1>3. Cat(a, Cat(q, Cat(k, x))) = Cat(Cat(a, q), Cat(k, x))
  BY <1>1, Associative
<1>4. Cat(Cat(a, q), Cat(k, x)) = Cat(Cat(Cat(a, q), k), x)
  BY <1>1, Associative
<1> HIDE DEF Cat
<1> QED BY <1>2, <1>3, <1>4

\* What each of the two encoders does, but for the samples.
LEMMA EncodeFacts ==
    ASSUME IInv, NEW s \in Sessions, Accepts(s), Provided(s)
    PROVE  /\ Types /\ Idle /\ Complete /\ Intact /\ ChunksFit
           /\ chunk \in Chunk /\ phase[s] = "running" /\ phase'[s] = "running"
           /\ waiting' \subseteq waiting
           /\ UNCHANGED <<format, chunk, phase, sent>>
           /\ provided'[s] = Append(provided[s], chunk)
           /\ \A t \in Sessions \ {s} : provided'[t] = provided[t]
           /\ IsAll(s, pending[s]) /\ Reserve + Len(queue[s]) <= PoolSize
           /\ Wanted(format, provided'[s])
                = Cat(Wanted(format, provided[s]), Taken(format, chunk))
<1>1. Types /\ Idle /\ Complete /\ Intact /\ ChunksFit
  BY DEF IInv
<1>2. /\ chunk \in Chunk /\ phase[s] = "running" /\ waiting' \subseteq waiting
      /\ UNCHANGED <<format, chunk, phase, sent>>
      /\ provided'[s] = Append(provided[s], chunk)
      /\ \A t \in Sessions \ {s} : provided'[t] = provided[t]
  BY <1>1 DEF Accepts, Provided, Types, Idle
<1>3. IsAll(s, pending[s])
  BY <1>1, <1>2 DEF Complete
<1>4. Reserve + Len(queue[s]) <= PoolSize
  <2>1. Len(queue[s]) \in Nat
    BY <1>1, SessionTypes
  <2> QED BY <2>1, Sizes DEF Accepts, Available
<1>5. provided[s] \in Seq(Chunk)
  BY <1>1, SessionTypes
<1> QED BY <1>1, <1>2, <1>3, <1>4, <1>5, WantedFacts

\* The wave encoder gives all samples of the chunk.
LEMMA EncodePCMStep ==
    ASSUME IInv, NEW s \in Sessions, EncodePCM(s)
    PROVE  Intact' /\ Idle' /\ Complete'
<1> DEFINE n == chunk.frames * Channels
           x == Samples(data, 0, n)
           w == Wanted(format, provided[s])
<1>1. /\ Accepts(s) /\ Provided(s) /\ format = "PCM"
      /\ queue' = [queue EXCEPT ![s] = Pushed(queue[s], x)] /\ UNCHANGED <<data, pending>>
  BY DEF EncodePCM
<1> HIDE DEF x
<1>2. /\ Types /\ Idle /\ Complete /\ Intact /\ ChunksFit
      /\ chunk \in Chunk /\ phase[s] = "running" /\ phase'[s] = "running"
      /\ waiting' \subseteq waiting
      /\ UNCHANGED <<format, chunk, phase, sent>>
      /\ \A t \in Sessions \ {s} : provided'[t] = provided[t]
      /\ IsAll(s, pending[s]) /\ Reserve + Len(queue[s]) <= PoolSize
      /\ Wanted(format, provided'[s]) = Cat(w, Taken(format, chunk))
  BY <1>1, EncodeFacts
<1>3. Intact'
  BY <1>1, <1>2 DEF Intact
<1>4. pending[s] = <<>>
  BY <1>1, <1>2 DEF Idle
<1>5. \A t \in Sessions \ {s} :
        /\ phase'[t] = phase[t] /\ pending'[t] = pending[t] /\ queue'[t] = queue[t]
        /\ sent'[t] = sent[t] /\ provided'[t] = provided[t]
  BY <1>1, <1>2 DEF Types
<1>6. Idle'
  BY <1>1, <1>2, <1>4, <1>5, OtherIdle
<1>7. x = Taken(format, chunk) /\ x \in Seq(Sample) /\ Len(x) = n
  <2>1. \A i \in 0..(chunk.frames * FrameSize - 1) : data[i] = Captured(chunk.number, i)
    BY <1>1, <1>2 DEF Intact
  <2> QED BY <1>1, <1>2, <2>1, SamplesTaken, TakenType DEF x
<1>8. Len(queue[s]) + Parts(Len(x)) <= PoolSize
  <2>1. Parts(n) <= Reserve
    BY <1>1, <1>2 DEF ChunksFit, Chunk
  <2>2. Parts(n) \in Nat /\ Len(queue[s]) \in Nat
    BY <1>2, <1>7, CutFacts, SessionTypes
  <2> HIDE DEF n
  <2> QED BY <1>2, <1>7, <2>1, <2>2, Sizes
<1> DEFINE q == queue[s]
           p == Pushed(q, x)
<1>9. /\ sent[s] \in Seq(Sample) /\ q \in Queue /\ FlattenSeq(q) \in Seq(Sample)
      /\ queue'[s] = p
  BY <1>1, <1>2, SessionTypes DEF Types
<1> HIDE DEF q
<1> DEFINE a == sent[s]
           fq == FlattenSeq(q)
           fp == FlattenSeq(p)
<1>10. fp = Cat(fq, x) /\ p \in Queue
  BY <1>7, <1>8, <1>9, PushedFits, PushedFacts DEF q
<1>11. fp \in Seq(Sample) /\ <<>> \in Seq(Sample)
  BY <1>10, QueueType, FlattenType, EmptySeq
<1>12. Cat(Cat(a, fq), <<>>) = w
  BY <1>2, <1>4 DEF IsAll, q
<1>13. Cat(Cat(a, fp), <<>>) = Cat(w, x)
  <2> HIDE DEF w, p, a, fq, fp
  <2>1. Cat(a, fq) \in Seq(Sample) /\ Cat(a, fp) \in Seq(Sample)
    BY <1>9, <1>11, ConcatProperties DEF Cat, a, fq
  <2>2. Cat(Cat(a, fq), <<>>) = Cat(a, fq) /\ Cat(Cat(a, fp), <<>>) = Cat(a, fp)
    BY <2>1, ConcatEmptySeq DEF Cat
  <2>3. Cat(a, Cat(fq, x)) = Cat(Cat(a, fq), x)
    BY <1>7, <1>9, Associative DEF a, fq
  <2> QED BY <1>10, <1>12, <2>2, <2>3
<1>14. IsAll(s, <<>>)'
  <2> HIDE DEF p, w
  <2> QED BY <1>2, <1>7, <1>9, <1>13 DEF IsAll
<1>15. IsAll(s, pending[s])' /\ \E r \in Seq(Sample) : IsAll(s, r)'
  BY <1>1, <1>4, <1>11, <1>14 DEF IsAll
<1>16. Complete'
  BY <1>2, <1>5, <1>15, OtherSessions
<1> QED BY <1>3, <1>6, <1>16

\* What the flac encoder makes of the bytes of the chunk.
LEMMA ScaledFacts ==
    ASSUME IInv, NEW s \in Sessions, EncodeFLAC(s), chunk \in Chunk
    PROVE  /\ Intact' /\ Shifted(data') = Taken("FLAC", chunk)
           /\ Taken("FLAC", chunk) \in Seq(Sample)
           /\ Len(Taken("FLAC", chunk)) = chunk.frames * Channels
<1> DEFINE m == chunk.frames * FrameSize
           M == MaxFrames * FrameSize
<1>1. /\ Types /\ Intact /\ ChunksFit /\ format = "FLAC" /\ format' = format
      /\ chunk' = chunk /\ DownScale
  BY DEF IInv, EncodeFLAC, Provided, ChunksFit
<1>2. data' = DownScaled /\ data' \in [0..(M - 1) -> Bytes]
  BY <1>1, EncodedType DEF EncodeFLAC
<1>3. /\ m = chunk.frames * Channels * SampleSize
      /\ m \in Nat /\ M \in Nat /\ m <= M
  <2>1. chunk.frames \in 0..MaxFrames /\ chunk.frames \in 1..MaxFrames
    BY DEF Chunk
  <2>2. m \in 0..M /\ M \in Nat /\ m = chunk.frames * Channels * SampleSize
    BY <2>1, ChunkSize, Frames
  <2> HIDE DEF m, M
  <2> QED BY <2>2
<1>4. ASSUME NEW i \in 0..(m - 1)
      PROVE  data'[i] = IF i % SampleSize = 0 THEN Cleared ELSE Captured(chunk.number, i)
  <2>1. DOMAIN data = 0..(M - 1)
    BY <1>1 DEF Types
  <2>2. data[i] = Captured(chunk.number, i) \/ (i % SampleSize = 0 /\ data[i] = Cleared)
    BY <1>1 DEF Intact
  <2>3. data' = [k \in DOMAIN data |->
                   IF k < m /\ k % SampleSize = 0 THEN Cleared ELSE data[k]]
    BY <1>2 DEF DownScaled
  <2> HIDE DEF m, M
  <2>4. i \in 0..(M - 1) /\ i < m
    BY <1>3
  <2> QED BY <2>1, <2>2, <2>3, <2>4
<1>5. Intact'
  BY <1>1, <1>4 DEF Intact
<1>6. Scaled(chunk.number, chunk.frames * Channels, data')
  BY <1>3, <1>4 DEF Scaled
<1>7. Shifted(data') = Taken("FLAC", chunk)
  BY <1>2, <1>6, ShiftedTaken
<1>8. Shifted(data') \in Seq(Sample) /\ Len(Shifted(data')) = chunk.frames * Channels
  BY <1>2, ShiftedType
<1> QED BY <1>5, <1>7, <1>8

\* The blocks that libFLAC emits and what it keeps are what it kept and was given.
LEMMA BlocksQueued ==
    ASSUME NEW q \in Queue, NEW y \in Seq(Sample),
           Len(q) + (Len(y) \div BlockSize) * Parts(BlockSize) <= PoolSize
    PROVE  LET p == FoldLeft(Pushed, q, Blocks(y)) IN
           /\ FlattenSeq(p) \in Seq(Sample)
           /\ Cat(FlattenSeq(p), Rest(y)) = Cat(FlattenSeq(q), y)
<1> DEFINE b == Blocks(y)
           m == Parts(BlockSize)
           fq == FlattenSeq(q)
           fb == FlattenSeq(b)
           p == FoldLeft(Pushed, q, b)
<1>1. /\ b \in Seq(Seq(Sample)) /\ Len(b) = Len(y) \div BlockSize
      /\ \A k \in 1..Len(b) : Len(b[k]) = BlockSize
      /\ Rest(y) \in Seq(Sample) /\ Cat(fb, Rest(y)) = y
  BY BlocksFacts
<1>2. m \in Nat
  <2>1. BlockSize + BufferSize - 1 \in Nat
    BY BlockSizeType, Sizes
  <2> QED BY <2>1, Sizes, Quotient DEF Parts
<1>3. (\A k \in 1..Len(b) : Parts(Len(b[k])) <= m) /\ Len(q) + Len(b) * m <= PoolSize
  BY <1>1, <1>2
<1> HIDE DEF b, m
<1>4. FlattenSeq(p) = Cat(fq, fb)
  BY <1>1, <1>2, <1>3, FoldPushedAll
<1>5. FlattenSeq(p) \in Seq(Sample) /\ fq \in Seq(Sample) /\ fb \in Seq(Sample)
  BY <1>1, FoldPushedType, QueueType, FlattenType
<1> HIDE DEF fq, fb, p
<1>6. Cat(Cat(fq, fb), Rest(y)) = Cat(fq, Cat(fb, Rest(y)))
  BY <1>1, <1>5, Associative
<1> QED BY <1>1, <1>4, <1>5, <1>6 DEF fq, p, b

\* The flac encoder gives all samples of the chunk, as they should be.
LEMMA EncodeFLACStep ==
    ASSUME IInv, NEW s \in Sessions, EncodeFLAC(s)
    PROVE  Intact' /\ Idle' /\ Complete'
<1> DEFINE n == chunk.frames * Channels
           k == pending[s]
           x == Shifted(data')
           y == k \o x
           q == queue[s]
           p == FoldLeft(Pushed, q, Blocks(y))
           w == Wanted(format, provided[s])
<1>1. /\ Accepts(s) /\ Provided(s) /\ format = "FLAC"
      /\ queue' = [queue EXCEPT ![s] = p]
      /\ pending' = [pending EXCEPT ![s] = Rest(y)]
  BY DEF EncodeFLAC
<1>2. /\ Types /\ Idle /\ Complete /\ ChunksFit
      /\ chunk \in Chunk /\ phase[s] = "running" /\ phase'[s] = "running"
      /\ waiting' \subseteq waiting
      /\ UNCHANGED <<format, chunk, phase, sent>>
      /\ \A t \in Sessions \ {s} : provided'[t] = provided[t]
      /\ IsAll(s, k) /\ Reserve + Len(q) <= PoolSize
      /\ Wanted(format, provided'[s]) = Cat(w, Taken(format, chunk))
  BY <1>1, EncodeFacts
<1>3. Intact' /\ x = Taken(format, chunk) /\ x \in Seq(Sample) /\ Len(x) = n
  BY <1>1, <1>2, ScaledFacts
<1> HIDE DEF x
<1>4. /\ sent[s] \in Seq(Sample) /\ k \in Seq(Sample) /\ q \in Queue
      /\ FlattenSeq(q) \in Seq(Sample) /\ Len(k) \in 0..(BlockSize - 1)
      /\ Len(q) \in 0..PoolSize
  BY <1>2, SessionTypes
<1>5. y \in Seq(Sample) /\ Len(y) = Len(k) + n
  BY <1>3, <1>4, ConcatProperties
<1>6. Len(q) + (Len(y) \div BlockSize) * Parts(BlockSize) <= PoolSize
  <2>1. \A kept \in 0..(BlockSize - 1) :
          ((kept + n) \div BlockSize) * Parts(BlockSize) <= Reserve
    BY <1>1, <1>2 DEF ChunksFit, Chunk
  <2> DEFINE a == (Len(y) \div BlockSize) * Parts(BlockSize)
             l == Len(q)
  <2>2. a <= Reserve
    BY <1>4, <1>5, <2>1
  <2>3. a \in Int /\ l \in Nat /\ Reserve + l <= PoolSize
    <3>1. BlockSize + BufferSize - 1 \in Nat
      BY BlockSizeType, Sizes
    <3>2. Parts(BlockSize) \in Nat
      BY <3>1, Sizes, Quotient DEF Parts
    <3>3. Len(y) \div BlockSize \in Nat
      BY <1>5, BlockSizeType, LenProperties, Quotient
    <3>4. \A c, d \in Nat : c * d \in Int
      OBVIOUS
    <3> QED BY <1>2, <1>4, <3>2, <3>3, <3>4
  <2> HIDE DEF a, l
  <2>4. l + a <= PoolSize
    BY <2>2, <2>3, Sizes
  <2> QED BY <2>4 DEF a, l
<1> HIDE DEF y
<1>7. /\ FlattenSeq(p) \in Seq(Sample) /\ Cat(FlattenSeq(p), Rest(y)) = Cat(FlattenSeq(q), y)
      /\ Rest(y) \in Seq(Sample)
  <2> HIDE DEF q
  <2> QED BY <1>4, <1>5, <1>6, BlocksQueued, BlocksFacts
<1>8. \A t \in Sessions \ {s} :
        /\ phase'[t] = phase[t] /\ pending'[t] = pending[t] /\ queue'[t] = queue[t]
        /\ sent'[t] = sent[t] /\ provided'[t] = provided[t]
  <2> HIDE DEF p
  <2> QED BY <1>1, <1>2 DEF Types
<1>9. queue'[s] = p /\ pending'[s] = Rest(y) /\ sent'[s] = sent[s]
  <2> HIDE DEF p
  <2> QED BY <1>1, <1>2 DEF Types
<1>10. Idle'
  BY <1>1, <1>2, <1>8, OtherIdle
<1> DEFINE a == sent[s]
           fq == FlattenSeq(q)
           fp == FlattenSeq(p)
           r == Rest(y)
<1>11. Cat(Cat(a, fq), k) = w /\ y = Cat(k, x)
  BY <1>2 DEF IsAll, Cat, y
<1>12. Cat(Cat(a, fp), r) = Cat(w, x)
  <2>1. /\ a \in Seq(Sample) /\ fq \in Seq(Sample) /\ k \in Seq(Sample) /\ x \in Seq(Sample)
        /\ fp \in Seq(Sample) /\ r \in Seq(Sample) /\ Cat(fp, r) = Cat(fq, y)
    BY <1>3, <1>4, <1>7
  <2> HIDE DEF a, fq, fp, r, w, k
  <2>2. Cat(fp, r) = Cat(fq, Cat(k, x))
    BY <1>11, <2>1
  <2> QED BY <1>11, <2>1, <2>2, Encoded
<1>13. Cat(Cat(sent'[s], FlattenSeq(queue'[s])), pending'[s]) = Wanted(format', provided'[s])
  <2> HIDE DEF p, w
  <2> QED BY <1>2, <1>3, <1>9, <1>12
<1>14. pending'[s] \in Seq(Sample)
  BY <1>7, <1>9
<1>15. IsAll(s, pending[s])' /\ \E z \in Seq(Sample) : IsAll(s, z)'
  <2> HIDE DEF p, q, w, a, fq, fp, r, k
  <2> QED BY <1>13, <1>14 DEF IsAll
<1>16. Complete'
  BY <1>2, <1>8, <1>15, OtherSessions
<1> QED BY <1>3, <1>10, <1>16

\* A session that stops queues what libFLAC has kept, as far as there are buffers.
LEMMA StopStep ==
    ASSUME IInv, NEW s \in Sessions, Stop(s)
    PROVE  Intact' /\ Idle' /\ Complete'
<1> DEFINE a == sent[s]
           k == pending[s]
           q == queue[s]
           p == Pushed(q, k)
           w == Wanted(format, provided[s])
<1>1. /\ Types /\ Idle /\ Complete /\ Intact /\ phase[s] = "running"
      /\ UNCHANGED <<format, chunk, data, sent, provided>> /\ waiting' = waiting \ {s}
      /\ phase' = [phase EXCEPT ![s] = "stopped"]
      /\ queue' = [queue EXCEPT ![s] = p]
      /\ pending' = [pending EXCEPT ![s] = <<>>]
  BY DEF IInv, Stop
<1>2. Intact'
  BY <1>1 DEF Intact
<1>3. /\ a \in Seq(Sample) /\ k \in Seq(Sample) /\ q \in Queue /\ FlattenSeq(q) \in Seq(Sample)
  BY <1>1, SessionTypes
<1>4. Cat(Cat(a, FlattenSeq(q)), k) = w
  BY <1>1 DEF Complete, IsAll
<1>5. PICK r \in Seq(Sample) : Cat(FlattenSeq(p), r) = Cat(FlattenSeq(q), k)
  <2> HIDE DEF q, k
  <2> QED BY <1>3, PushedFacts
<1>6. FlattenSeq(p) \in Seq(Sample)
  <2>1. p \in Queue
    BY <1>3, PushedFacts
  <2> HIDE DEF p
  <2> QED BY <2>1, QueueType, FlattenType
<1> HIDE DEF p
<1>7. /\ phase'[s] = "stopped" /\ pending'[s] = <<>> /\ queue'[s] = p /\ sent'[s] = a
      /\ provided'[s] = provided[s] /\ s \notin waiting' /\ waiting' \subseteq waiting
  BY <1>1 DEF Types
<1>8. \A t \in Sessions \ {s} :
        /\ phase'[t] = phase[t] /\ pending'[t] = pending[t] /\ queue'[t] = queue[t]
        /\ sent'[t] = sent[t] /\ provided'[t] = provided[t]
  BY <1>1 DEF Types
<1>9. Idle'
  BY <1>1, <1>7, <1>8, OtherIdle
<1> DEFINE fq == FlattenSeq(q)
           fp == FlattenSeq(p)
<1>10. Cat(Cat(a, fp), r) = w
  <2> HIDE DEF a, k, q, w, fq, fp
  <2>1. fq \in Seq(Sample) /\ fp \in Seq(Sample) /\ Cat(fp, r) = Cat(fq, k)
        /\ Cat(Cat(a, fq), k) = w
    BY <1>3, <1>4, <1>5, <1>6 DEF fq, fp
  <2>2. Cat(Cat(a, fp), r) = Cat(a, Cat(fp, r)) /\ Cat(Cat(a, fq), k) = Cat(a, Cat(fq, k))
    BY <1>3, <1>5, <2>1, Associative
  <2> QED BY <2>1, <2>2
<1>11. IsAll(s, r)'
  BY <1>1, <1>7, <1>10 DEF IsAll
<1>12. Complete'
  BY <1>1, <1>7, <1>8, <1>11, OtherSessions
<1> QED BY <1>2, <1>9, <1>12

\* What is transferred was the first that was queued.
LEMMA TransferStep ==
    ASSUME IInv, NEW s \in Sessions, Transfer(s)
    PROVE  Intact' /\ Idle' /\ Complete'
<1> DEFINE a == sent[s]
           q == queue[s]
           h == Head(q)
           u == Tail(q)
           fu == FlattenSeq(u)
<1>1. /\ Types /\ Idle /\ Complete /\ Intact /\ q # <<>>
      /\ UNCHANGED <<format, chunk, data, waiting, phase, pending, provided>>
      /\ sent' = [sent EXCEPT ![s] = a \o h]
      /\ queue' = [queue EXCEPT ![s] = u]
  BY DEF IInv, Transfer, sourceVars
<1>2. Intact'
  BY <1>1 DEF Intact
<1>3. a \in Seq(Sample) /\ q \in Queue /\ phase[s] # "new"
  BY <1>1, SessionTypes DEF Idle
<1>4. h \in Seq(Sample) /\ u \in Queue /\ FlattenSeq(q) = Cat(h, fu)
  BY <1>1, <1>3, QueueSteps
<1>5. fu \in Seq(Sample)
  BY <1>4, QueueType, FlattenType
<1>6. sent'[s] = Cat(a, h) /\ queue'[s] = u
  BY <1>1 DEF Types, Cat
<1>7. \A t \in Sessions \ {s} :
        /\ phase'[t] = phase[t] /\ pending'[t] = pending[t] /\ queue'[t] = queue[t]
        /\ sent'[t] = sent[t] /\ provided'[t] = provided[t]
  BY <1>1 DEF Types
<1>8. Idle'
  BY <1>1, <1>3, <1>7, OtherIdle DEF Idle
<1> HIDE DEF h, u
<1>9. Cat(Cat(a, h), fu) = Cat(a, FlattenSeq(q))
  <2> HIDE DEF a, fu
  <2> QED BY <1>3, <1>4, <1>5, Associative
<1>10. ASSUME NEW r, IsAll(s, r) PROVE IsAll(s, r)'
  BY <1>1, <1>6, <1>9, <1>10 DEF IsAll
<1>11. phase'[s] = "running" => IsAll(s, pending[s])'
  <2> SUFFICES ASSUME phase'[s] = "running" PROVE IsAll(s, pending[s])'
    OBVIOUS
  <2>1. Cat(Cat(a, FlattenSeq(q)), pending[s]) = Wanted(format, provided[s])
    BY <1>1 DEF Complete, IsAll
  <2>2. Cat(Cat(sent'[s], FlattenSeq(queue'[s])), pending'[s])
          = Wanted(format', provided'[s])
    BY <1>1, <1>6, <1>9, <2>1
  <2> QED BY <2>2 DEF IsAll
<1>12. \E r \in Seq(Sample) : IsAll(s, r)'
  BY <1>1, <1>3, <1>10 DEF Complete
<1>13. Complete'
  BY <1>1, <1>7, <1>11, <1>12, OtherSessions
<1> QED BY <1>2, <1>8, <1>13

\* What is discarded was the last.
LEMMA FlushStep ==
    ASSUME IInv, NEW s \in Sessions, Flush(s)
    PROVE  Intact' /\ Idle' /\ Complete'
<1> DEFINE a == sent[s]
           fq == FlattenSeq(queue[s])
<1>1. /\ Types /\ Idle /\ Complete /\ Intact /\ phase[s] = "stopped"
      /\ UNCHANGED <<format, chunk, data, waiting, pending, sent, provided>>
      /\ phase' = [phase EXCEPT ![s] = "flushed"]
      /\ queue' = [queue EXCEPT ![s] = <<>>]
  BY DEF IInv, Flush, sourceVars
<1>2. Intact'
  BY <1>1 DEF Intact
<1>3. a \in Seq(Sample) /\ fq \in Seq(Sample)
  BY <1>1, SessionTypes
<1>4. phase'[s] = "flushed" /\ queue'[s] = <<>> /\ sent'[s] = a /\ provided'[s] = provided[s]
  BY <1>1 DEF Types
<1>5. \A t \in Sessions \ {s} :
        /\ phase'[t] = phase[t] /\ pending'[t] = pending[t] /\ queue'[t] = queue[t]
        /\ sent'[t] = sent[t] /\ provided'[t] = provided[t]
  BY <1>1 DEF Types
<1>6. Idle'
  BY <1>1, <1>4, <1>5, OtherIdle DEF Idle
<1>7. PICK r \in Seq(Sample) : Cat(Cat(a, fq), r) = Wanted(format, provided[s])
  BY <1>1 DEF Complete, IsAll
<1>8. Cat(fq, r) \in Seq(Sample)
  <2> HIDE DEF fq
  <2> QED BY <1>3, <1>7, ConcatProperties DEF Cat
<1>9. Cat(Cat(a, <<>>), Cat(fq, r)) = Wanted(format, provided[s])
  <2> HIDE DEF a, fq
  <2>1. Cat(a, <<>>) = a
    BY <1>3, ConcatEmptySeq DEF Cat
  <2>2. Cat(Cat(a, fq), r) = Cat(a, Cat(fq, r))
    BY <1>3, <1>7, Associative
  <2> QED BY <1>7, <2>1, <2>2
<1>10. \E z \in Seq(Sample) : IsAll(s, z)'
  <2> DEFINE z == Cat(fq, r)
  <2>1. Cat(Cat(sent'[s], FlattenSeq(queue'[s])), z) = Wanted(format', provided'[s])
    BY <1>1, <1>4, <1>9, FlattenEmpty
  <2>2. z \in Seq(Sample)
    BY <1>8
  <2> HIDE DEF z
  <2> QED BY <2>1, <2>2 DEF IsAll
<1>11. Complete'
  BY <1>1, <1>4, <1>5, <1>10, OtherSessions
<1> QED BY <1>2, <1>6, <1>11

\* Every step preserves IInv.
LEMMA IInvStep == IInv /\ [Next]_vars => IInv'
<1> SUFFICES ASSUME IInv, [Next]_vars PROVE IInv'
  OBVIOUS
<1>1. Types'
  BY TypesStep DEF IInv
<1>2. ChunksFit'
  <2>1. format' = format
    BY DEF Next, Produce, Start, EncodePCM, EncodeFLAC, Provided, Stop, Transfer, Flush, vars
  <2> QED BY <2>1 DEF IInv, ChunksFit
<1>3. Intact' /\ Idle' /\ Complete'
  <2>1. CASE UNCHANGED vars
    <3>1. /\ Intact /\ Idle /\ Complete
          /\ UNCHANGED <<format, chunk, data, waiting, phase, pending, queue, sent, provided>>
      BY <2>1 DEF IInv, vars, sourceVars, sessionVars
    <3> QED BY <3>1 DEF Intact, Idle, Complete, IsAll
  <2>2. ASSUME NEW frames \in 1..MaxFrames, Produce(frames)
        PROVE  Intact' /\ Idle' /\ Complete'
    BY <2>2, ProduceStep
  <2>3. ASSUME NEW s \in Sessions,
               Start(s) \/ EncodePCM(s) \/ EncodeFLAC(s) \/ Stop(s) \/ Transfer(s) \/ Flush(s)
        PROVE  Intact' /\ Idle' /\ Complete'
    BY <2>3, StartStep, EncodePCMStep, EncodeFLACStep, StopStep, TransferStep, FlushStep
  <2> QED BY <2>1, <2>2, <2>3 DEF Next
<1> QED BY <1>1, <1>2, <1>3 DEF IInv

\* What has all samples but some at the end has a prefix of them.
LEMMA PrefixOf ==
    ASSUME NEW a \in Seq(Sample), NEW r \in Seq(Sample), NEW w, Cat(a, r) = w
    PROVE  IsPrefix(a, w)
<1>1. /\ Len(a) \in Nat /\ Len(r) \in Nat /\ Len(a \o r) = Len(a) + Len(r) /\ w = a \o r
      /\ a \o r \in Seq(Sample)
  BY LenProperties, ConcatProperties DEF Cat
<1>2. Len(a) <= Len(w)
  BY <1>1
<1>3. \A i \in 1..Len(a) : a[i] = w[i]
  BY <1>1, ConcatProperties
<1>4. SubSeq(w, 1, Len(a)) = a
  <2> DEFINE b == SubSeq(w, 1, Len(a))
  <2>1. b \in Seq(Sample) /\ Len(b) = Len(a) /\ \A i \in 1..Len(a) : b[i] = w[i]
    BY <1>1, <1>2
  <2> HIDE DEF b
  <2>2. \A i \in 1..Len(b) : b[i] = a[i]
    BY <1>3, <2>1
  <2>3. b = a
    BY <2>1, <2>2, SeqEqual
  <2> QED BY <2>3 DEF b
<1> QED BY <1>1, <1>2, <1>4 DEF IsPrefix

\* IInv is Lossless, and more.
LEMMA IInvLossless == IInv => Lossless
<1> SUFFICES ASSUME IInv, NEW s \in Sessions, phase[s] # "new"
             PROVE  LET emitted == sent[s] \o FlattenSeq(queue[s])
                    IN  /\ phase[s] = "running" => emitted \o pending[s] = Expected(s)
                        /\ IsPrefix(emitted, Expected(s))
  BY DEF Lossless
<1> DEFINE e == sent[s] \o FlattenSeq(queue[s])
<1>1. Expected(s) = Wanted(format, provided[s])
  BY DEF Expected, Wanted, Cat, CapturedSamples, Taken
<1>2. Types /\ Complete
  BY DEF IInv
<1>3. e \in Seq(Sample)
  BY <1>2, SessionTypes, ConcatProperties
<1>4. \A r : IsAll(s, r) => Cat(e, r) = Expected(s)
  BY <1>1 DEF IsAll, Cat
<1>5. phase[s] = "running" => e \o pending[s] = Expected(s)
  BY <1>2, <1>4 DEF Complete, Cat
<1>6. IsPrefix(e, Expected(s))
  <2>1. PICK r \in Seq(Sample) : IsAll(s, r)
    BY <1>2 DEF Complete
  <2>2. Cat(e, r) = Expected(s)
    BY <1>4, <2>1
  <2> HIDE DEF e
  <2> QED BY <1>3, <2>2, PrefixOf
<1> QED BY <1>5, <1>6

\* Whatever the sizes of samples, blocks, buffers and pools, as long as chunks fit into the
\* reserve: every session is sent the samples of the chunks it took as they were captured, in
\* order and without a gap, although others have worked on the same buffer before.
THEOREM LosslessCorrect == Spec /\ ChunksFit => []Lossless
<1>1. Init /\ ChunksFit => IInv
  BY IInvInit
<1>2. IInv /\ [Next]_vars => IInv'
  BY IInvStep
<1>3. IInv => Lossless
  BY IInvLossless
<1> QED BY <1>1, <1>2, <1>3, PTL DEF Spec
=============================================================================
