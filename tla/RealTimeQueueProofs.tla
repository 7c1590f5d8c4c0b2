-------------------------- MODULE RealTimeQueueProofs --------------------------
(***************************************************************************)
(* Proofs about RealTimeQueue, for every size and every multiple of it at  *)
(* which the counters wrap.                                                *)
(***************************************************************************)
EXTENDS RealTimeQueue, TLAPS

-----------------------------------------------------------------------------
(* Remainders *)

\* The remainder is the only number in range that differs by a multiple.
LEMMA ModUnique ==
    ASSUME NEW n \in Nat \ {0}, NEW q \in Int, NEW r \in 0..(n - 1)
    PROVE  (q * n + r) % n = r
<1> DEFINE x == q * n + r
           p == x \div n
           s == x % n
<1>1. x \in Int /\ p \in Int /\ s \in 0..(n - 1) /\ x = n * p + s
  OBVIOUS
<1> HIDE DEF p, s
<1>2. n * (p - q) = r - s
  BY <1>1
<1>3. \A k \in Int : k >= 1 => n * k >= n
  OBVIOUS
<1>4. \A k \in Int : k <= -1 => n * k <= -n
  OBVIOUS
<1>5. p - q = 0
  BY <1>1, <1>2, <1>3, <1>4
<1> QED BY <1>1, <1>2, <1>5 DEF s

\* A remainder is in range.
LEMMA ModRange ==
    ASSUME NEW n \in Nat \ {0}, NEW x \in Int
    PROVE  /\ x % n \in 0..(n - 1)
           /\ \E q \in Int : x = q * n + (x % n)
<1>1. x = n * (x \div n) + (x % n) /\ x \div n \in Int /\ x % n \in 0..(n - 1)
  OBVIOUS
<1>2. n * (x \div n) = (x \div n) * n
  BY <1>1
<1> QED BY <1>1, <1>2

\* A whole number of times round the counter is a whole number of times round the
\* slots.
LEMMA SlotMultiple ==
    ASSUME NEW x \in Int, NEW q \in Int
    PROVE  Slot(q * Wrap + x) = Slot(x)
<1>1. PICK k \in Int : Wrap = k * Size
  <2>1. Wrap \in Int /\ Wrap % Size = 0
    BY WrapAssumption
  <2>2. PICK k \in Int : Wrap = k * Size + (Wrap % Size)
    BY <2>1, ModRange, SizeAssumption
  <2>3. k * Size \in Int
    BY SizeAssumption
  <2>4. Wrap = k * Size
    BY <2>1, <2>2, <2>3
  <2> QED BY <2>4
<1>2. PICK p \in Int : x = p * Size + (x % Size)
  BY ModRange, SizeAssumption
<1>3. x % Size \in 0..(Size - 1)
  BY ModRange, SizeAssumption
<1> DEFINE r == x % Size
<1> HIDE DEF r
<1>4. q * Wrap = (q * k) * Size
  BY <1>1, SizeAssumption
<1>5. (q * k) * Size + p * Size = (q * k + p) * Size
  BY SizeAssumption
<1>6. q * Wrap + x = (q * k + p) * Size + r
  BY <1>2, <1>3, <1>4, <1>5, SizeAssumption DEF r
<1>7. q * k + p \in Int
  OBVIOUS
<1>8. ((q * k + p) * Size + r) % Size = r
  BY <1>3, <1>7, ModUnique, SizeAssumption DEF r
<1> QED BY <1>6, <1>8 DEF Slot, r

\* Masking a counter and masking a number that wraps to it are the same.
LEMMA SlotWrap ==
    ASSUME NEW x \in Int
    PROVE  Slot(x % Wrap) = Slot(x)
<1>1. PICK q \in Int : x = q * Wrap + (x % Wrap)
  BY ModRange, WrapAssumption
<1>2. x % Wrap \in Int
  BY ModRange, WrapAssumption
<1> QED BY <1>1, <1>2, SlotMultiple

\* Numbers less than a round apart have different slots.
LEMMA SlotDistinct ==
    ASSUME NEW x \in Int, NEW y \in Int, 0 < y - x, y - x < Size
    PROVE  Slot(x) # Slot(y)
<1> SUFFICES ASSUME Slot(x) = Slot(y) PROVE FALSE
  OBVIOUS
<1>1. PICK p \in Int : x = p * Size + (x % Size)
  BY ModRange, SizeAssumption
<1>2. PICK q \in Int : y = q * Size + (y % Size)
  BY ModRange, SizeAssumption
<1>3. x % Size = y % Size /\ x % Size \in Int
  BY ModRange, SizeAssumption DEF Slot
<1>4. y - x = (q - p) * Size
  BY <1>1, <1>2, <1>3, SizeAssumption
<1>5. \A k \in Int : k >= 1 => k * Size >= Size
  BY SizeAssumption
<1>6. \A k \in Int : k <= 0 => k * Size <= 0
  BY SizeAssumption
<1>7. q - p \in Int
  OBVIOUS
<1> DEFINE k == q - p
<1>8. k \in Int /\ y - x = k * Size
  BY <1>4, <1>7
<1> HIDE DEF k
<1>9. k <= 0 \/ k >= 1
  BY <1>8
<1>10. k * Size \in Int
  BY <1>8, SizeAssumption
<1>11. k * Size <= 0 \/ k * Size >= Size
  BY <1>5, <1>6, <1>8, <1>9
<1> QED BY <1>8, <1>10, <1>11, SizeAssumption

\* A number in range is its own slot; a whole round is slot 0.
LEMMA SlotSmall ==
    /\ \A x \in 0..(Size - 1) : Slot(x) = x
    /\ Slot(-Size) = 0
<1>1. ASSUME NEW x \in 0..(Size - 1)
      PROVE  Slot(x) = x
  <2>1. (0 * Size + x) % Size = x
    BY ModUnique, SizeAssumption
  <2> QED BY <2>1, SizeAssumption DEF Slot
<1>2. Slot(-Size) = 0
  <2>1. ((-1) * Size + 0) % Size = 0
    BY ModUnique, SizeAssumption
  <2>2. (-1) * Size + 0 = -Size
    BY SizeAssumption
  <2> QED BY <2>1, <2>2 DEF Slot
<1> QED BY <1>1, <1>2

-----------------------------------------------------------------------------
(* Distances between counters *)

\* The distance, without remainders.
LEMMA DistanceValue ==
    ASSUME NEW a \in Counters, NEW b \in Counters
    PROVE  /\ Distance(a, b) \in Counters
           /\ Distance(a, b) = IF a <= b THEN b - a ELSE b - a + Wrap
<1>0. Wrap \in Nat \ {0}
  BY WrapAssumption
<1>1. CASE a <= b
  <2>1. b - a \in 0..(Wrap - 1)
    BY <1>0, <1>1 DEF Counters
  <2>2. (0 * Wrap + (b - a)) % Wrap = b - a
    BY <1>0, <2>1, ModUnique, SMTT(30)
  <2>3. 0 * Wrap + (b - a) = b - a
    BY <1>0, <2>1
  <2> QED BY <1>1, <2>1, <2>2, <2>3 DEF Distance, Counters
<1>2. CASE ~(a <= b)
  <2>1. b - a + Wrap \in 0..(Wrap - 1)
    BY <1>0, <1>2 DEF Counters
  <2>2. ((-1) * Wrap + (b - a + Wrap)) % Wrap = b - a + Wrap
    BY <1>0, <2>1, ModUnique
  <2>3. (-1) * Wrap + (b - a + Wrap) = b - a
    BY <1>0, <2>1 DEF Counters
  <2> QED BY <1>2, <2>1, <2>2, <2>3 DEF Distance, Counters
<1> QED BY <1>1, <1>2

\* A counter incremented, without remainders.
LEMMA Increment ==
    ASSUME NEW a \in Counters
    PROVE  /\ (a + 1) % Wrap \in Counters
           /\ (a + 1) % Wrap = IF a + 1 = Wrap THEN 0 ELSE a + 1
<1>0. Wrap \in Nat \ {0}
  BY WrapAssumption
<1>1. CASE a + 1 = Wrap
  <2>1. (1 * Wrap + 0) % Wrap = 0
    BY <1>0, ModUnique
  <2> QED BY <1>0, <1>1, <2>1 DEF Counters
<1>2. CASE a + 1 # Wrap
  <2>1. a + 1 \in 0..(Wrap - 1)
    BY <1>0, <1>2 DEF Counters
  <2>2. (0 * Wrap + (a + 1)) % Wrap = a + 1
    BY <1>0, <2>1, ModUnique
  <2>3. 0 * Wrap + (a + 1) = a + 1
    BY <1>0, <2>1
  <2> QED BY <1>2, <2>1, <2>2, <2>3 DEF Counters
<1> QED BY <1>1, <1>2

\* A load returns a value on the way from what was seen to what is current.
LEMMA LoadsValue ==
    ASSUME NEW s \in Counters, NEW c \in Counters, NEW v \in Loads(s, c)
    PROVE  /\ v \in Counters
           /\ Distance(s, v) + Distance(v, c) = Distance(s, c)
<1>0. Wrap \in Nat \ {0}
  BY WrapAssumption
<1>1. PICK d \in 0..Distance(s, c) : v = (s + d) % Wrap
  BY DEF Loads
<1>2. Distance(s, c) \in Counters /\ d \in 0..(Wrap - 1)
  BY <1>0, <1>1, DistanceValue DEF Counters
<1>3. v = IF s + d < Wrap THEN s + d ELSE s + d - Wrap
  <2>1. CASE s + d < Wrap
    <3>1. s + d \in 0..(Wrap - 1)
      BY <1>0, <1>2, <2>1 DEF Counters
    <3>2. (0 * Wrap + (s + d)) % Wrap = s + d
      BY <1>0, <3>1, ModUnique
    <3>3. 0 * Wrap + (s + d) = s + d
      BY <1>0, <3>1
    <3> QED BY <1>1, <2>1, <3>2, <3>3
  <2>2. CASE ~(s + d < Wrap)
    <3>1. s + d - Wrap \in 0..(Wrap - 1)
      BY <1>0, <1>2, <2>2 DEF Counters
    <3>2. (1 * Wrap + (s + d - Wrap)) % Wrap = s + d - Wrap
      BY <1>0, <3>1, ModUnique
    <3>3. 1 * Wrap + (s + d - Wrap) = s + d
      BY <1>0, <1>2 DEF Counters
    <3> QED BY <1>1, <2>2, <3>2, <3>3
  <2> QED BY <2>1, <2>2
<1>4. v \in Counters
  BY <1>0, <1>2, <1>3 DEF Counters
<1>5. Distance(s, v) = IF s <= v THEN v - s ELSE v - s + Wrap
  BY <1>4, DistanceValue
<1>6. Distance(v, c) = IF v <= c THEN c - v ELSE c - v + Wrap
  BY <1>4, DistanceValue
<1>7. Distance(s, c) = IF s <= c THEN c - s ELSE c - s + Wrap
  BY DistanceValue
<1>8. d >= 0 /\ d <= Distance(s, c) /\ d \in Int
  BY <1>1, <1>2 DEF Counters
<1> QED BY <1>0, <1>3, <1>4, <1>5, <1>6, <1>7, <1>8 DEF Counters

\* Distances add up while they are less than a round.
LEMMA DistanceSum ==
    ASSUME NEW a \in Counters, NEW b \in Counters, NEW c \in Counters,
           Distance(a, b) + Distance(b, c) < Wrap
    PROVE  Distance(a, c) = Distance(a, b) + Distance(b, c)
<1>1. Distance(a, b) = IF a <= b THEN b - a ELSE b - a + Wrap
  BY DistanceValue
<1>2. Distance(b, c) = IF b <= c THEN c - b ELSE c - b + Wrap
  BY DistanceValue
<1>3. Distance(a, c) = IF a <= c THEN c - a ELSE c - a + Wrap
  BY DistanceValue
<1> QED BY <1>1, <1>2, <1>3, WrapAssumption DEF Counters

\* Moving the far end on.
LEMMA DistanceFar ==
    ASSUME NEW a \in Counters, NEW b \in Counters, Distance(a, b) + 1 < Wrap
    PROVE  Distance(a, (b + 1) % Wrap) = Distance(a, b) + 1
<1> DEFINE n == (b + 1) % Wrap
<1>1. n \in Counters /\ n = IF b + 1 = Wrap THEN 0 ELSE b + 1
  BY Increment
<1> HIDE DEF n
<1>2. Distance(a, b) = IF a <= b THEN b - a ELSE b - a + Wrap
  BY DistanceValue
<1>3. Distance(a, n) = IF a <= n THEN n - a ELSE n - a + Wrap
  BY <1>1, DistanceValue
<1>4. Distance(a, n) = Distance(a, b) + 1
  BY <1>1, <1>2, <1>3, WrapAssumption DEF Counters
<1> QED BY <1>4 DEF n

\* Moving the near end on.
LEMMA DistanceNear ==
    ASSUME NEW a \in Counters, NEW b \in Counters, Distance(a, b) >= 1
    PROVE  Distance((a + 1) % Wrap, b) = Distance(a, b) - 1
<1> DEFINE n == (a + 1) % Wrap
<1>1. n \in Counters /\ n = IF a + 1 = Wrap THEN 0 ELSE a + 1
  BY Increment
<1> HIDE DEF n
<1>2. Distance(a, b) = IF a <= b THEN b - a ELSE b - a + Wrap
  BY DistanceValue
<1>3. Distance(n, b) = IF n <= b THEN b - n ELSE b - n + Wrap
  BY <1>1, DistanceValue
<1>4. Distance(n, b) = Distance(a, b) - 1
  BY <1>1, <1>2, <1>3, WrapAssumption DEF Counters
<1> QED BY <1>4 DEF n

\* The slot of a counter is the slot its distance from another leads to.
LEMMA SlotAt ==
    ASSUME NEW a \in Counters, NEW b \in Counters
    PROVE  Slot(b) = Slot(a + Distance(a, b))
<1>1. Distance(a, b) = b - a \/ Distance(a, b) = b - a + Wrap
  BY DistanceValue
<1>2. a + Distance(a, b) = b \/ a + Distance(a, b) = 1 * Wrap + b
  BY <1>1, WrapAssumption DEF Counters
<1>3. Slot(1 * Wrap + b) = Slot(b)
  BY SlotMultiple DEF Counters
<1> QED BY <1>2, <1>3

-----------------------------------------------------------------------------
(* The inductive invariant *)

\* How far the head is from the producer's view of the tail.
Span == Distance(seenTail, tail) + Distance(tail, seenHead) + Distance(seenHead, head)

\* A producer past its check has a slot to spare, a consumer past its check an item.
Checked ==
    /\ producer # "idle" => Span <= Size - 2
    /\ consumer = "using" => Distance(tail, seenHead) >= 1

\* What is in the queue, or about to be, is an item.
Filled ==
    /\ \A i \in 1..Distance(tail, head) : buffer[Slot(tail + i - 1)] \in Items
    /\ producer = "moved" => buffer[Slot(head)] \in Items

IInv == TypeOK /\ Window /\ Checked /\ Filled

\* There are no more slots than counter values.
LEMMA SizeSmall == Size <= Wrap
<1>0. Wrap \in Int /\ Wrap % Size = 0 /\ Wrap >= 1
  BY WrapAssumption
<1>1. PICK k \in Int : Wrap = k * Size + (Wrap % Size)
  BY <1>0, ModRange, SizeAssumption
<1>2. Wrap = k * Size
  <2>1. k * Size \in Int
    BY SizeAssumption
  <2> QED BY <1>0, <1>1, <2>1
<1>3. \A j \in Int : j >= 1 => j * Size >= Size
  BY SizeAssumption
<1>4. \A j \in Int : j <= 0 => j * Size <= 0
  BY SizeAssumption
<1>5. ~(k <= 0)
  BY <1>2, <1>4, WrapAssumption
<1>6. k >= 1
  BY <1>5
<1> QED BY <1>2, <1>3, <1>6

\* Any number has a slot.
LEMMA SlotType == \A x \in Int : Slot(x) \in Slots
BY ModRange, SizeAssumption DEF Slot, Slots

\* enqueue's check: with the counters a window apart, one slot is still to spare.
LEMMA RoomFree ==
    ASSUME NEW t \in Counters, head \in Counters,
           Distance(t, head) <= Size - 1, HasRoom(t)
    PROVE  Distance(t, head) <= Size - 2
<1>1. Distance(t, head) = (IF t <= head THEN head - t ELSE head - t + Wrap)
      /\ Distance(t, head) \in Counters
  BY DistanceValue
<1> SUFFICES ASSUME Distance(t, head) = Size - 1 PROVE FALSE
  BY <1>1, SizeAssumption DEF Counters
<1>2. \/ t - (head + 1) = -Size
      \/ t - (head + 1) = 1 * Wrap + (-Size)
  <2>1. Size \in Int /\ Wrap \in Int /\ t \in Int /\ head \in Int
    BY SizeAssumption, WrapAssumption DEF Counters
  <2>2. head - t = Size - 1 \/ head - t + Wrap = Size - 1
    BY <1>1
  <2> QED BY <2>1, <2>2
<1>3. Slot(1 * Wrap + (-Size)) = Slot(-Size)
  BY SlotMultiple, SizeAssumption
<1>4. Slot(t - (head + 1)) = 0
  BY <1>2, <1>3, SlotSmall
<1> QED BY <1>4 DEF HasRoom

\* dequeue's check: there is an item to use.
LEMMA ItemReady ==
    ASSUME NEW h \in Counters, tail \in Counters, HasItem(h)
    PROVE  Distance(tail, h) >= 1
<1>1. Distance(tail, h) = (IF tail <= h THEN h - tail ELSE h - tail + Wrap)
      /\ Distance(tail, h) \in Counters
  BY DistanceValue
<1> SUFFICES ASSUME Distance(tail, h) = 0 PROVE FALSE
  BY <1>1 DEF Counters
<1>2. h - tail = 0
  BY <1>1, WrapAssumption DEF Counters
<1>3. Slot(h - tail) = 0
  BY <1>2, SlotSmall, SizeAssumption
<1> QED BY <1>3 DEF HasItem

\* The window seen from the consumer, and as one distance from the producer.
LEMMA WindowParts ==
    ASSUME TypeOK, Window
    PROVE  /\ Distance(seenTail, tail) \in Nat
           /\ Distance(tail, seenHead) \in Nat
           /\ Distance(seenHead, head) \in Nat
           /\ Distance(tail, head) = Distance(tail, seenHead) + Distance(seenHead, head)
           /\ Distance(seenTail, head) = Span
           /\ Span < Wrap
<1> USE DEF TypeOK
<1>1. /\ Distance(seenTail, tail) \in Nat
      /\ Distance(tail, seenHead) \in Nat
      /\ Distance(seenHead, head) \in Nat
  <2>1. /\ Distance(seenTail, tail) \in Counters
        /\ Distance(tail, seenHead) \in Counters
        /\ Distance(seenHead, head) \in Counters
    BY DistanceValue
  <2> QED BY <2>1, WrapAssumption DEF Counters
<1>2. Span < Wrap
  BY <1>1, SizeSmall, SizeAssumption, WrapAssumption DEF Window, Span
<1>3. Distance(tail, head) = Distance(tail, seenHead) + Distance(seenHead, head)
  <2>1. Distance(tail, seenHead) + Distance(seenHead, head) < Wrap
    BY <1>1, <1>2, WrapAssumption DEF Span
  <2> QED BY <2>1, DistanceSum
<1>4. Distance(seenTail, head) = Span
  <2>1. Distance(seenTail, tail) + Distance(tail, head) < Wrap
    BY <1>1, <1>2, <1>3, WrapAssumption DEF Span
  <2>2. Distance(seenTail, head) = Distance(seenTail, tail) + Distance(tail, head)
    BY <2>1, DistanceSum
  <2> QED BY <1>1, <1>3, <2>2 DEF Span
<1> QED BY <1>1, <1>2, <1>3, <1>4

\* The slot the producer may write is not one of an item's.
LEMMA HeadSlotFree ==
    ASSUME TypeOK, Window, NEW i \in 1..Distance(tail, head)
    PROVE  Slot(tail + i - 1) # Slot(head)
<1>1. Distance(tail, head) \in Nat /\ Distance(tail, head) <= Size - 1
  BY WindowParts, SizeAssumption DEF Window
<1>2. tail \in Int /\ head \in Counters /\ tail \in Counters
  BY WrapAssumption DEF TypeOK, Counters
<1> DEFINE d == Distance(tail, head)
           x == tail + i - 1
           y == tail + d
<1>3. Slot(head) = Slot(y)
  BY <1>2, SlotAt
<1>4. x \in Int /\ y \in Int /\ 0 < y - x /\ y - x < Size
  <2>1. i \in Int /\ i >= 1 /\ i <= d /\ d \in Int /\ d <= Size - 1 /\ Size \in Int
    BY <1>1, SizeAssumption
  <2> HIDE DEF d
  <2> QED BY <1>2, <2>1
<1>5. Slot(x) # Slot(y)
  BY <1>4, SlotDistinct
<1> QED BY <1>3, <1>5

-----------------------------------------------------------------------------
(* Every step preserves the invariant *)

\* The queue starts empty.
LEMMA InitIInv == ASSUME Init PROVE IInv
<1>0. Size \in Nat \ {0} /\ Wrap \in Nat \ {0}
  BY SizeAssumption, WrapAssumption
<1>1. 0 \in Counters
  BY <1>0 DEF Counters
<1>2. Distance(0, 0) = 0
  BY <1>0, <1>1, DistanceValue
<1>3. TypeOK
  BY <1>1 DEF Init, TypeOK
<1>4. Window
  BY <1>0, <1>2 DEF Init, Window
<1>5. Checked
  BY DEF Init, Checked
<1>6. Filled
  BY <1>2 DEF Init, Filled
<1> QED BY <1>3, <1>4, <1>5, <1>6 DEF IInv

\* enqueue loads the tail and finds room, or not.
LEMMA EnqueueLoads ==
    ASSUME IInv, seenTail' \in Loads(seenTail, tail),
           UNCHANGED <<head, tail, seenHead>>
    PROVE  /\ seenTail' \in Counters
           /\ Window'
           /\ Span' \in Int
           /\ Span' <= Span
           /\ Span' = Distance(seenTail', head)
<1> USE DEF IInv, TypeOK
<1>1. /\ seenTail' \in Counters
      /\ Distance(seenTail, seenTail') + Distance(seenTail', tail)
            = Distance(seenTail, tail)
  BY LoadsValue
<1>2. /\ Distance(seenTail, seenTail') \in Counters
      /\ Distance(seenTail', tail) \in Counters
  BY <1>1, DistanceValue
<1>3. /\ Distance(seenTail, tail) \in Nat
      /\ Distance(tail, seenHead) \in Nat
      /\ Distance(seenHead, head) \in Nat
      /\ Distance(tail, head) = Distance(tail, seenHead) + Distance(seenHead, head)
      /\ Span < Wrap
  BY WindowParts
<1>4. Span' = Distance(seenTail', tail) + Distance(tail, seenHead) + Distance(seenHead, head)
  BY DEF Span, Distance
<1>5. Distance(seenTail', tail) \in Nat /\ Distance(seenTail', tail) <= Distance(seenTail, tail)
  BY <1>1, <1>2, <1>3, WrapAssumption DEF Counters
<1>6. Span' \in Int /\ Span' <= Span
  BY <1>3, <1>4, <1>5 DEF Span
<1>7. Window'
  BY <1>3, <1>4, <1>5, SizeAssumption DEF Window, Distance
<1>8. Distance(seenTail', head) = Distance(seenTail', tail) + Distance(tail, head)
  <2>1. Distance(seenTail', tail) + Distance(tail, head) < Wrap
    BY <1>3, <1>4, <1>5, <1>6, WrapAssumption DEF Span
  <2> QED BY <1>1, <2>1, DistanceSum
<1>9. Span' = Distance(seenTail', head)
  BY <1>3, <1>4, <1>5, <1>8
<1> QED BY <1>1, <1>6, <1>7, <1>9

\* dequeue loads the head and finds an item, or not.
LEMMA DequeueLoads ==
    ASSUME IInv, seenHead' \in Loads(seenHead, head),
           UNCHANGED <<head, tail, seenTail>>
    PROVE  /\ seenHead' \in Counters
           /\ Window'
           /\ Span' = Span
           /\ Distance(tail, head) = Distance(tail, seenHead') + Distance(seenHead', head)
<1> USE DEF IInv, TypeOK
<1>1. /\ seenHead' \in Counters
      /\ Distance(seenHead, seenHead') + Distance(seenHead', head)
            = Distance(seenHead, head)
  BY LoadsValue
<1>2. /\ Distance(seenHead, seenHead') \in Counters
      /\ Distance(seenHead', head) \in Counters
  BY <1>1, DistanceValue
<1>3. /\ Distance(seenTail, tail) \in Nat
      /\ Distance(tail, seenHead) \in Nat
      /\ Distance(seenHead, head) \in Nat
      /\ Span < Wrap
  BY WindowParts
<1>4. Distance(tail, seenHead') = Distance(tail, seenHead) + Distance(seenHead, seenHead')
  <2>1. Distance(tail, seenHead) + Distance(seenHead, seenHead') < Wrap
    BY <1>1, <1>2, <1>3, WrapAssumption DEF Span, Counters
  <2> QED BY <1>1, <2>1, DistanceSum
<1>5. Span' = Distance(seenTail, tail) + Distance(tail, seenHead') + Distance(seenHead', head)
  BY DEF Span, Distance
<1>6. Span' = Span
  BY <1>1, <1>2, <1>3, <1>4, <1>5, WrapAssumption DEF Span, Counters
<1>7. Window' <=> Span' <= Size - 1
  BY DEF Window, Span, Distance
<1>8. Window <=> Span <= Size - 1
  BY DEF Window, Span
<1>9. Distance(tail, head) = Distance(tail, seenHead') + Distance(seenHead', head)
  <2>1. Distance(tail, head) = Distance(tail, seenHead) + Distance(seenHead, head)
    BY WindowParts
  <2> QED BY <1>1, <1>2, <1>3, <1>4, <2>1, WrapAssumption DEF Counters
<1> QED BY <1>1, <1>6, <1>7, <1>8, <1>9

\* Writing the head's slot changes none of the queue's items.
LEMMA WriteHead ==
    ASSUME TypeOK, Window, NEW v \in Items \cup {None},
           buffer' = [buffer EXCEPT ![Slot(head)] = v],
           UNCHANGED <<head, tail>>
    PROVE  /\ buffer' \in [Slots -> Items \cup {None}]
           /\ buffer'[Slot(head)] = v
           /\ \A i \in 1..Distance(tail, head) :
                buffer'[Slot(tail + i - 1)] = buffer[Slot(tail + i - 1)]
<1>1. Slot(head) \in Slots
  BY SlotType, WrapAssumption DEF TypeOK, Counters
<1>2. buffer' \in [Slots -> Items \cup {None}] /\ buffer'[Slot(head)] = v
  BY <1>1 DEF TypeOK
<1>3. ASSUME NEW i \in 1..Distance(tail, head)
      PROVE  buffer'[Slot(tail + i - 1)] = buffer[Slot(tail + i - 1)]
  <2>1. Slot(tail + i - 1) # Slot(head)
    BY HeadSlotFree
  <2>2. i \in Int /\ tail \in Int
    BY WindowParts, WrapAssumption DEF TypeOK, Counters
  <2>3. Slot(tail + i - 1) \in Slots
    BY <2>2, SlotType
  <2> QED BY <2>1, <2>3 DEF TypeOK
<1> QED BY <1>2, <1>3

\* enqueue's load, with room.
LEMMA EnqueueLoadStep == ASSUME IInv, EnqueueLoad PROVE IInv'
<1> USE DEF EnqueueLoad
<1>1. /\ seenTail' \in Counters /\ Window'
      /\ Span' \in Int /\ Span' <= Span /\ Span' = Distance(seenTail', head)
  BY EnqueueLoads
<1>2. Span <= Size - 1
  BY DEF IInv, Window, Span
<1>3. Span' <= Size - 2
  <2>1. Span \in Int
    BY WindowParts DEF IInv, Span
  <2>2. Distance(seenTail', head) <= Size - 1
    BY <1>1, <1>2, <2>1, SizeAssumption
  <2>3. head \in Counters /\ HasRoom(seenTail')
    BY DEF IInv, TypeOK
  <2>4. Distance(seenTail', head) <= Size - 2
    BY <1>1, <2>2, <2>3, RoomFree
  <2> QED BY <1>1, <2>4
<1>4. /\ buffer' \in [Slots -> Items \cup {None}]
      /\ \A i \in 1..Distance(tail, head) :
            buffer'[Slot(tail + i - 1)] = buffer[Slot(tail + i - 1)]
  BY WriteHead DEF IInv
<1>5. TypeOK'
  BY <1>1, <1>4 DEF IInv, TypeOK
<1>6. Checked'
  BY <1>3 DEF IInv, Checked, Distance
<1>7. Filled'
  BY <1>4 DEF IInv, Filled, Distance
<1> QED BY <1>1, <1>5, <1>6, <1>7 DEF IInv

\* enqueue's load, without room.
LEMMA EnqueueOverflowStep == ASSUME IInv, EnqueueOverflow PROVE IInv'
<1> USE DEF EnqueueOverflow
<1>1. seenTail' \in Counters /\ Window'
  BY EnqueueLoads
<1>2. TypeOK'
  BY <1>1 DEF IInv, TypeOK
<1>3. Checked'
  BY DEF IInv, Checked, Distance
<1>4. Filled'
  BY DEF IInv, Filled, Distance
<1> QED BY <1>1, <1>2, <1>3, <1>4 DEF IInv

\* The mover writes the slot.
LEMMA EnqueueMovedStep ==
    ASSUME IInv, NEW v \in Items, EnqueueMoved(v)
    PROVE  IInv'
<1> USE DEF EnqueueMoved
<1>1. /\ buffer' \in [Slots -> Items \cup {None}]
      /\ buffer'[Slot(head)] = v
      /\ \A i \in 1..Distance(tail, head) :
            buffer'[Slot(tail + i - 1)] = buffer[Slot(tail + i - 1)]
  BY WriteHead DEF IInv
<1>2. TypeOK'
  BY <1>1 DEF IInv, TypeOK
<1>3. Window'
  BY DEF IInv, Window, Distance
<1>4. Checked'
  BY DEF IInv, Checked, Span, Distance
<1>5. Filled'
  BY <1>1 DEF IInv, Filled, Distance, Slot
<1> QED BY <1>2, <1>3, <1>4, <1>5 DEF IInv

\* enqueue's store publishes the slot: the queue is one item longer.
LEMMA HeadMoves ==
    ASSUME IInv, EnqueueStore
    PROVE  /\ head' \in Counters
           /\ Distance(seenHead, head') = Distance(seenHead, head) + 1
           /\ Distance(tail, head') = Distance(tail, head) + 1
           /\ Slot(tail + Distance(tail, head)) = Slot(head)
<1> USE DEF IInv, TypeOK, EnqueueStore
<1>1. head' \in Counters
  BY Increment
<1>2. /\ Distance(seenTail, tail) \in Nat
      /\ Distance(tail, seenHead) \in Nat
      /\ Distance(seenHead, head) \in Nat
      /\ Distance(tail, head) = Distance(tail, seenHead) + Distance(seenHead, head)
      /\ Span <= Size - 2
  BY WindowParts DEF Checked
<1>3. Distance(seenHead, head) + 1 < Wrap /\ Distance(tail, head) + 1 < Wrap
  BY <1>2, SizeSmall, SizeAssumption, WrapAssumption DEF Span
<1>4. Distance(seenHead, head') = Distance(seenHead, head) + 1
  BY <1>3, DistanceFar
<1>5. Distance(tail, head') = Distance(tail, head) + 1
  BY <1>3, DistanceFar
<1>6. Slot(tail + Distance(tail, head)) = Slot(head)
  BY SlotAt
<1> QED BY <1>1, <1>4, <1>5, <1>6

\* The store of the head.
LEMMA EnqueueStoreStep == ASSUME IInv, EnqueueStore PROVE IInv'
<1> USE DEF EnqueueStore
<1>1. /\ head' \in Counters
      /\ Distance(seenHead, head') = Distance(seenHead, head) + 1
      /\ Distance(tail, head') = Distance(tail, head) + 1
      /\ Slot(tail + Distance(tail, head)) = Slot(head)
  BY HeadMoves
<1>2. /\ Distance(seenTail, tail) \in Nat
      /\ Distance(tail, seenHead) \in Nat
      /\ Distance(seenHead, head) \in Nat
      /\ Distance(tail, head) = Distance(tail, seenHead) + Distance(seenHead, head)
      /\ Span <= Size - 2
  BY WindowParts DEF IInv, Checked
<1>3. TypeOK'
  BY <1>1 DEF IInv, TypeOK
<1>4. Window'
  BY <1>1, <1>2, SizeAssumption DEF Window, Span, Distance
<1>5. Checked'
  BY DEF IInv, Checked, Distance
<1>6. Filled'
  <2>1. ASSUME NEW i \in 1..(Distance(tail, head) + 1)
        PROVE  buffer[Slot(tail + i - 1)] \in Items
    <3>1. CASE i = Distance(tail, head) + 1
      <4>1. tail + i - 1 = tail + Distance(tail, head)
        BY <1>2, <3>1, WrapAssumption DEF IInv, TypeOK, Counters
      <4> QED BY <1>1, <4>1 DEF IInv, Filled
    <3>2. CASE i # Distance(tail, head) + 1
      <4>1. i \in 1..Distance(tail, head)
        BY <1>2, <3>2
      <4> QED BY <4>1 DEF IInv, Filled
    <3> QED BY <3>1, <3>2
  <2>2. Distance(tail, head)' = Distance(tail, head) + 1
    BY <1>1 DEF Distance
  <2> QED BY <2>1, <2>2 DEF Filled, Slot
<1> QED BY <1>3, <1>4, <1>5, <1>6 DEF IInv

\* dequeue's load, with an item.
LEMMA DequeueLoadStep == ASSUME IInv, DequeueLoad PROVE IInv'
<1> USE DEF DequeueLoad
<1>1. seenHead' \in Counters /\ Window' /\ Span' = Span
  BY DequeueLoads
<1>2. TypeOK'
  BY <1>1 DEF IInv, TypeOK
<1>3. Distance(tail, seenHead') >= 1
  BY <1>1, ItemReady DEF IInv, TypeOK
<1>4. Checked'
  BY <1>1, <1>3 DEF IInv, Checked, Distance
<1>5. Filled'
  BY DEF IInv, Filled, Distance
<1> QED BY <1>1, <1>2, <1>4, <1>5 DEF IInv

\* dequeue's load, without an item.
LEMMA DequeueUnderflowStep == ASSUME IInv, DequeueUnderflow PROVE IInv'
<1> USE DEF DequeueUnderflow
<1>1. seenHead' \in Counters /\ Window' /\ Span' = Span
  BY DequeueLoads
<1>2. TypeOK'
  BY <1>1 DEF IInv, TypeOK
<1>3. Checked'
  BY <1>1 DEF IInv, Checked
<1>4. Filled'
  BY DEF IInv, Filled, Distance
<1> QED BY <1>1, <1>2, <1>3, <1>4 DEF IInv

\* The slots after the next counter value.
LEMMA SlotNext ==
    ASSUME NEW t \in Counters, NEW i \in Int
    PROVE  Slot(((t + 1) % Wrap) + i - 1) = Slot(t + (i + 1) - 1)
<1> DEFINE n == (t + 1) % Wrap
<1>1. n \in Counters /\ n = IF t + 1 = Wrap THEN 0 ELSE t + 1
  BY Increment
<1> HIDE DEF n
<1>2. t \in Int /\ n \in Int /\ Wrap \in Int
  BY <1>1, WrapAssumption DEF Counters
<1>3. \/ t + (i + 1) - 1 = n + i - 1
      \/ t + (i + 1) - 1 = 1 * Wrap + (n + i - 1)
  BY <1>1, <1>2
<1>4. Slot(1 * Wrap + (n + i - 1)) = Slot(n + i - 1)
  <2>1. n + i - 1 \in Int
    BY <1>2
  <2> QED BY <2>1, SlotMultiple
<1>5. Slot(n + i - 1) = Slot(t + (i + 1) - 1)
  BY <1>3, <1>4
<1> QED BY <1>5 DEF n

\* dequeue's store gives the slot back: the queue is one item shorter.
LEMMA TailMoves ==
    ASSUME IInv, DequeueStore
    PROVE  /\ tail' \in Counters
           /\ Distance(seenTail, tail') = Distance(seenTail, tail) + 1
           /\ Distance(tail', seenHead) = Distance(tail, seenHead) - 1
           /\ Distance(tail', head) = Distance(tail, head) - 1
           /\ Distance(tail, head) >= 1
           /\ \A i \in Int : Slot(tail' + i - 1) = Slot(tail + (i + 1) - 1)
<1> USE DEF IInv, TypeOK, DequeueStore
<1>1. tail' \in Counters /\ tail' = IF tail + 1 = Wrap THEN 0 ELSE tail + 1
  BY Increment
<1>2. /\ Distance(seenTail, tail) \in Nat
      /\ Distance(tail, seenHead) \in Nat
      /\ Distance(seenHead, head) \in Nat
      /\ Distance(tail, head) = Distance(tail, seenHead) + Distance(seenHead, head)
      /\ Span <= Size - 1
      /\ Distance(tail, seenHead) >= 1
  BY WindowParts DEF Checked, Window, Span
<1>3. Distance(seenTail, tail) + 1 < Wrap
  BY <1>2, SizeSmall, SizeAssumption, WrapAssumption DEF Span
<1>4. Distance(seenTail, tail') = Distance(seenTail, tail) + 1
  BY <1>3, DistanceFar
<1>5. Distance(tail', seenHead) = Distance(tail, seenHead) - 1
  BY <1>2, DistanceNear
<1>6. Distance(tail, head) >= 1
  BY <1>2
<1>7. Distance(tail', head) = Distance(tail, head) - 1
  BY <1>6, DistanceNear
<1>8. ASSUME NEW i \in Int
      PROVE  Slot(tail' + i - 1) = Slot(tail + (i + 1) - 1)
  BY SlotNext
<1> QED BY <1>1, <1>4, <1>5, <1>6, <1>7, <1>8

\* The store of the tail.
LEMMA DequeueStoreStep == ASSUME IInv, DequeueStore PROVE IInv'
<1> USE DEF DequeueStore
<1>1. /\ tail' \in Counters
      /\ Distance(seenTail, tail') = Distance(seenTail, tail) + 1
      /\ Distance(tail', seenHead) = Distance(tail, seenHead) - 1
      /\ Distance(tail', head) = Distance(tail, head) - 1
      /\ Distance(tail, head) >= 1
      /\ \A i \in Int : Slot(tail' + i - 1) = Slot(tail + (i + 1) - 1)
  BY TailMoves
<1>2. /\ Distance(seenTail, tail) \in Nat
      /\ Distance(tail, seenHead) \in Nat
      /\ Distance(seenHead, head) \in Nat
      /\ Distance(tail, head) \in Nat
  BY WindowParts DEF IInv
<1>3. Span' = Span
  BY <1>1, <1>2 DEF Span, Distance
<1>4. TypeOK'
  BY <1>1 DEF IInv, TypeOK
<1>5. Window'
  BY <1>3 DEF IInv, Window, Span
<1>6. Checked'
  BY <1>3 DEF IInv, Checked
<1>7. Filled'
  <2>1. ASSUME NEW i \in 1..(Distance(tail, head) - 1)
        PROVE  buffer[Slot(tail' + i - 1)] \in Items
    <3>1. i \in Int /\ i + 1 \in 1..Distance(tail, head)
      BY <1>2
    <3>2. buffer[Slot(tail + (i + 1) - 1)] \in Items
      BY <3>1 DEF IInv, Filled
    <3> QED BY <1>1, <3>1, <3>2
  <2>2. Distance(tail, head)' = Distance(tail, head) - 1
    BY <1>1 DEF Distance
  <2> QED BY <2>1, <2>2 DEF IInv, Filled, Slot
<1> QED BY <1>4, <1>5, <1>6, <1>7 DEF IInv

\* The item is left in.
LEMMA DequeueKeepStep == ASSUME IInv, DequeueKeep PROVE IInv'
<1> USE DEF DequeueKeep
<1>1. TypeOK'
  BY DEF IInv, TypeOK
<1>2. Window'
  BY DEF IInv, Window, Distance
<1>3. Checked'
  BY DEF IInv, Checked, Span, Distance
<1>4. Filled'
  BY DEF IInv, Filled, Distance
<1> QED BY <1>1, <1>2, <1>3, <1>4 DEF IInv

-----------------------------------------------------------------------------
(* Theorems *)

\* The invariant is inductive.
THEOREM Invariance == Spec => []IInv
<1>1. Init => IInv
  BY InitIInv
<1>2. IInv /\ [Next]_vars => IInv'
  <2> SUFFICES ASSUME IInv, [Next]_vars PROVE IInv'
    OBVIOUS
  <2>1. CASE EnqueueLoad
    BY <2>1, EnqueueLoadStep
  <2>2. CASE EnqueueOverflow
    BY <2>2, EnqueueOverflowStep
  <2>3. CASE EnqueueStore
    BY <2>3, EnqueueStoreStep
  <2>4. ASSUME NEW v \in Items, EnqueueMoved(v) PROVE IInv'
    BY <2>4, EnqueueMovedStep
  <2>5. CASE DequeueLoad
    BY <2>5, DequeueLoadStep
  <2>6. CASE DequeueUnderflow
    BY <2>6, DequeueUnderflowStep
  <2>7. CASE DequeueStore
    BY <2>7, DequeueStoreStep
  <2>8. CASE DequeueKeep
    BY <2>8, DequeueKeepStep
  <2>9. CASE UNCHANGED vars
    BY <2>9 DEF vars, IInv, TypeOK, Window, Checked, Filled, Span, Distance, Slot
  <2> QED BY <2>1, <2>2, <2>3, <2>4, <2>5, <2>6, <2>7, <2>8, <2>9 DEF Next
<1> QED BY <1>1, <1>2, PTL DEF Spec

\* Counters stay counters, and slots hold items.
THEOREM TypeCorrect == Spec => []TypeOK
<1>1. IInv => TypeOK
  BY DEF IInv
<1> QED BY <1>1, Invariance, PTL

\* However stale the loads and however often the counters have wrapped, tail and head
\* are never further apart than the slots allow.
THEOREM WindowCorrect == Spec => []Window
<1>1. IInv => Window
  BY DEF IInv
<1> QED BY <1>1, Invariance, PTL

\* The movers of enqueue and dequeue never use the same slot at the same time.
THEOREM NoRaceCorrect == Spec => []NoRace
<1>1. IInv => NoRace
  <2> SUFFICES ASSUME IInv, producer # "idle", consumer = "using"
               PROVE  Slot(head) # Slot(tail)
    BY DEF NoRace
  <2>1. /\ Distance(tail, head) \in Nat
        /\ Distance(tail, head) >= 1
        /\ tail \in Int
    BY WindowParts, WrapAssumption DEF IInv, Checked, TypeOK, Counters
  <2>2. 1 \in 1..Distance(tail, head)
    BY <2>1
  <2>3. Slot(tail + 1 - 1) # Slot(head)
    BY <2>2, HeadSlotFree DEF IInv
  <2>4. tail + 1 - 1 = tail
    BY <2>1
  <2> QED BY <2>3, <2>4
<1> QED BY <1>1, Invariance, PTL

-----------------------------------------------------------------------------
(* The queue implements a bounded FIFO *)

\* A sequence is a function of its indices.
LEMMA SeqFunction ==
    ASSUME NEW S, NEW s \in Seq(S), NEW n \in Nat, Len(s) = n
    PROVE  s = [i \in 1..n |-> s[i]]
<1>1. s \in [1..n -> S]
  OBVIOUS
<1> QED BY <1>1

\* What the queue holds, as a sequence.
LEMMA ContentFacts ==
    ASSUME IInv
    PROVE  /\ Distance(tail, head) \in Nat
           /\ Distance(tail, head) <= Size - 1
           /\ Content \in Seq(Items)
           /\ Len(Content) = Distance(tail, head)
           /\ \A i \in 1..Distance(tail, head) :
                Content[i] = buffer[Slot(tail + i - 1)]
<1>1. Distance(tail, head) \in Nat /\ Distance(tail, head) <= Size - 1
  BY WindowParts, SizeAssumption DEF IInv, Window
<1>2. \A i \in 1..Distance(tail, head) : buffer[Slot(tail + i - 1)] \in Items
  BY DEF IInv, Filled
<1> DEFINE d == Distance(tail, head)
           at(i) == buffer[Slot(tail + i - 1)]
<1>3. d \in Nat /\ Content = [i \in 1..d |-> at(i)] /\ \A i \in 1..d : at(i) \in Items
  BY <1>1, <1>2 DEF Content
<1> HIDE DEF d, at
<1>4. Content \in Seq(Items) /\ Len(Content) = d /\ \A i \in 1..d : Content[i] = at(i)
  BY <1>3
<1> QED BY <1>1, <1>4 DEF d, at

\* What the consumer is using is the first item.
LEMMA LentFirst ==
    ASSUME IInv, consumer = "using"
    PROVE  /\ Distance(tail, head) >= 1
           /\ buffer[Slot(tail)] \in Items
           /\ Content[1] = buffer[Slot(tail)]
<1>1. Distance(tail, head) \in Nat /\ Distance(tail, head) >= 1 /\ tail \in Int
  BY WindowParts, WrapAssumption DEF IInv, Checked, TypeOK, Counters
<1>2. 1 \in 1..Distance(tail, head) /\ tail + 1 - 1 = tail
  BY <1>1
<1> QED BY <1>1, <1>2, ContentFacts DEF IInv, Filled

\* Writing the head's slot is not seen outside.
LEMMA WriteUnseen ==
    ASSUME IInv, NEW v \in Items \cup {None},
           buffer' = [buffer EXCEPT ![Slot(head)] = v],
           UNCHANGED <<head, tail, consumer>>
    PROVE  UNCHANGED <<Content, Lent>>
<1>1. \A i \in 1..Distance(tail, head) :
        buffer'[Slot(tail + i - 1)] = buffer[Slot(tail + i - 1)]
  BY WriteHead DEF IInv
<1>2. Content' = Content
  BY <1>1 DEF Content, Distance, Slot
<1>3. Lent' = Lent
  <2>1. CASE consumer = "using"
    <3>1. 1 \in 1..Distance(tail, head) /\ tail + 1 - 1 = tail
      BY <2>1, LentFirst, ContentFacts, WrapAssumption DEF IInv, TypeOK, Counters
    <3>2. buffer'[Slot(tail)] = buffer[Slot(tail)]
      BY <1>1, <3>1
    <3> QED BY <2>1, <3>2 DEF Lent, Slot
  <2>2. CASE consumer # "using"
    BY <2>2 DEF Lent
  <2> QED BY <2>1, <2>2
<1> QED BY <1>2, <1>3

\* enqueue's store is the abstract Put.
LEMMA StoreIsPut ==
    ASSUME IInv, EnqueueStore
    PROVE  \E v \in Items : Fifo!Put(v)
<1> USE DEF EnqueueStore
<1> DEFINE v == buffer[Slot(head)]
           d == Distance(tail, head)
<1>1. v \in Items
  BY DEF IInv, Filled
<1>2. Distance(tail, head') = d + 1 /\ Slot(tail + d) = Slot(head)
  BY HeadMoves
<1>3. /\ d \in Nat /\ Content \in Seq(Items) /\ Len(Content) = d
      /\ \A i \in 1..d : Content[i] = buffer[Slot(tail + i - 1)]
  BY ContentFacts
<1>4. d <= Size - 2
  <2>1. Span <= Size - 2
    BY DEF IInv, Checked
  <2>2. /\ Distance(seenTail, tail) \in Nat
        /\ Distance(tail, seenHead) \in Nat
        /\ Distance(seenHead, head) \in Nat
        /\ d = Distance(tail, seenHead) + Distance(seenHead, head)
    BY WindowParts DEF IInv
  <2> QED BY <2>1, <2>2, SizeAssumption DEF Span
<1>5. Content' = [i \in 1..(d + 1) |-> buffer[Slot(tail + i - 1)]]
  BY <1>2 DEF Content, Distance, Slot
<1>6. buffer[Slot(tail + (d + 1) - 1)] = v
  <2>1. tail + (d + 1) - 1 = tail + d
    BY <1>3, WrapAssumption DEF IInv, TypeOK, Counters
  <2> QED BY <1>2, <2>1
<1>7. Content' = Append(Content, v)
  <2> DEFINE at(i) == buffer[Slot(tail + i - 1)]
  <2>1. Content' = [i \in 1..(d + 1) |-> at(i)] /\ at(d + 1) = v
        /\ \A i \in 1..d : Content[i] = at(i)
    BY <1>3, <1>5, <1>6
  <2> HIDE DEF d, v, at
  <2>2. Append(Content, v) = [i \in 1..(d + 1) |-> at(i)]
    <3>1. /\ Append(Content, v) \in Seq(Items)
          /\ Len(Append(Content, v)) = d + 1
          /\ \A i \in 1..d : Append(Content, v)[i] = Content[i]
          /\ Append(Content, v)[d + 1] = v
      BY <1>1, <1>3
    <3>2. \A i \in 1..(d + 1) : Append(Content, v)[i] = at(i)
      BY <1>3, <2>1, <3>1
    <3>3. Append(Content, v) = [i \in 1..(d + 1) |-> Append(Content, v)[i]]
      <4> DEFINE q == Append(Content, v)
                 n == d + 1
      <4>1. q \in Seq(Items) /\ n \in Nat /\ Len(q) = n
        BY <1>3, <3>1
      <4> HIDE DEF q, n
      <4>2. q = [i \in 1..n |-> q[i]]
        BY <4>1, SeqFunction
      <4> QED BY <4>2 DEF q, n
    <3> QED BY <3>2, <3>3
  <2> QED BY <2>1, <2>2
<1>8. UNCHANGED Lent
  BY DEF Lent, Slot
<1>9. Len(Content) < Size - 1
  BY <1>3, <1>4, SizeAssumption
<1> QED BY <1>1, <1>7, <1>8, <1>9 DEF Fifo!Put

\* dequeue's load of an item is the abstract Lend.
LEMMA LoadIsLend ==
    ASSUME IInv, DequeueLoad
    PROVE  Fifo!Lend
<1> USE DEF DequeueLoad
<1>1. IInv' /\ consumer' = "using"
  BY DequeueLoadStep
<1>2. Distance(tail, head) >= 1
  <2>1. /\ seenHead' \in Counters
        /\ Distance(tail, head) = Distance(tail, seenHead') + Distance(seenHead', head)
    BY DequeueLoads
  <2>2. Distance(tail, seenHead') >= 1
    BY <2>1, ItemReady DEF IInv, TypeOK
  <2>3. /\ Distance(tail, seenHead') \in Counters
        /\ Distance(seenHead', head) \in Counters
    BY <2>1, DistanceValue DEF IInv, TypeOK
  <2> QED BY <2>1, <2>2, <2>3, WrapAssumption DEF Counters
<1>3. /\ Distance(tail, head) \in Nat /\ Content \in Seq(Items)
      /\ Len(Content) = Distance(tail, head)
      /\ \A i \in 1..Distance(tail, head) : Content[i] = buffer[Slot(tail + i - 1)]
  BY ContentFacts
<1>4. Content # <<>> /\ Head(Content) = buffer[Slot(tail)]
  <2>1. 1 \in 1..Distance(tail, head) /\ tail + 1 - 1 = tail
    BY <1>2, <1>3, WrapAssumption DEF IInv, TypeOK, Counters
  <2>2. Content # <<>> /\ Head(Content) = Content[1]
    BY <1>2, <1>3
  <2> QED BY <1>3, <2>1, <2>2
<1>5. Lent = None /\ Lent' = buffer[Slot(tail)]
  BY DEF Lent, Slot
<1>6. UNCHANGED Content
  BY DEF Content, Distance, Slot
<1> QED BY <1>4, <1>5, <1>6 DEF Fifo!Lend

\* dequeue's store is the abstract Take.
LEMMA StoreIsTake ==
    ASSUME IInv, DequeueStore
    PROVE  Fifo!Take
<1> USE DEF DequeueStore
<1> DEFINE d == Distance(tail, head)
           at(i) == buffer[Slot(tail + i - 1)]
<1>1. /\ Distance(tail', head) = d - 1
      /\ d >= 1
      /\ \A i \in Int : Slot(tail' + i - 1) = Slot(tail + (i + 1) - 1)
  BY TailMoves
<1>2. /\ d \in Nat /\ Content \in Seq(Items) /\ Len(Content) = d
      /\ \A i \in 1..d : Content[i] = at(i)
  BY ContentFacts
<1>3. Content' = [i \in 1..(d - 1) |-> at(i + 1)]
  <2>1. Content' = [i \in 1..(d - 1) |-> buffer[Slot(tail' + i - 1)]]
    BY <1>1 DEF Content, Distance, Slot
  <2>2. ASSUME NEW i \in 1..(d - 1)
        PROVE  buffer[Slot(tail' + i - 1)] = at(i + 1)
    <3>1. i \in Int
      OBVIOUS
    <3>2. Slot(tail' + i - 1) = Slot(tail + (i + 1) - 1)
      BY <1>1, <3>1
    <3> QED BY <3>2
  <2> QED BY <2>1, <2>2
<1>4. Content' = Tail(Content)
  <2> HIDE DEF d, at
  <2>1. /\ Tail(Content) \in Seq(Items)
        /\ Len(Tail(Content)) = d - 1
        /\ \A i \in 1..(d - 1) : Tail(Content)[i] = Content[i + 1]
    BY <1>1, <1>2
  <2>2. \A i \in 1..(d - 1) : Tail(Content)[i] = at(i + 1)
    BY <1>2, <2>1
  <2>3. Tail(Content) = [i \in 1..(d - 1) |-> Tail(Content)[i]]
    <3> DEFINE q == Tail(Content)
               n == d - 1
    <3>1. q \in Seq(Items) /\ n \in Nat /\ Len(q) = n
      BY <1>1, <1>2, <2>1
    <3> HIDE DEF q, n
    <3>2. q = [i \in 1..n |-> q[i]]
      BY <3>1, SeqFunction
    <3> QED BY <3>2 DEF q, n
  <2> QED BY <1>3, <2>2, <2>3
<1>5. Lent # None /\ Lent' = None
  BY LentFirst, NoneAssumption DEF Lent
<1> QED BY <1>4, <1>5 DEF Fifo!Take

\* Whatever the slots, loads and wraps, and for every size, the queue behaves as a
\* bounded FIFO of Size - 1 items: each step is one of its operations, or unseen.
THEOREM FifoCorrect == Spec => ImplementsFifo
<1>1. Init => Fifo!Init
  <2> SUFFICES ASSUME Init PROVE Fifo!Init
    OBVIOUS
  <2>1. IInv
    BY InitIInv
  <2>2. Distance(tail, head) = 0
    BY DistanceValue, WrapAssumption DEF Init, Counters
  <2>3. Content = <<>>
    BY <2>1, <2>2, ContentFacts
  <2>4. Lent = None
    BY DEF Init, Lent
  <2> QED BY <2>3, <2>4 DEF Fifo!Init
<1>2. IInv /\ [Next]_vars => [Fifo!Next]_<<Content, Lent>>
  <2> SUFFICES ASSUME IInv, [Next]_vars PROVE [Fifo!Next]_<<Content, Lent>>
    OBVIOUS
  <2>1. CASE EnqueueLoad
    <3>1. UNCHANGED <<Content, Lent>>
      BY <2>1, WriteUnseen DEF EnqueueLoad
    <3> QED BY <3>1
  <2>2. CASE EnqueueOverflow
    BY <2>2 DEF EnqueueOverflow, Content, Lent, Distance, Slot
  <2>3. CASE EnqueueStore
    BY <2>3, StoreIsPut DEF Fifo!Next
  <2>4. ASSUME NEW v \in Items, EnqueueMoved(v)
        PROVE  [Fifo!Next]_<<Content, Lent>>
    <3>1. UNCHANGED <<Content, Lent>>
      BY <2>4, WriteUnseen DEF EnqueueMoved
    <3> QED BY <3>1
  <2>5. CASE DequeueLoad
    BY <2>5, LoadIsLend DEF Fifo!Next
  <2>6. CASE DequeueUnderflow
    BY <2>6 DEF DequeueUnderflow, Content, Lent, Distance, Slot
  <2>7. CASE DequeueStore
    BY <2>7, StoreIsTake DEF Fifo!Next
  <2>8. CASE DequeueKeep
    <3>1. Lent # None /\ Lent' = None
      BY <2>8, LentFirst, NoneAssumption DEF DequeueKeep, Lent
    <3>2. UNCHANGED Content
      BY <2>8 DEF DequeueKeep, Content, Distance, Slot
    <3> QED BY <3>1, <3>2 DEF Fifo!Next, Fifo!Leave
  <2>9. CASE UNCHANGED vars
    BY <2>9 DEF vars, Content, Lent, Distance, Slot
  <2> QED BY <2>1, <2>2, <2>3, <2>4, <2>5, <2>6, <2>7, <2>8, <2>9 DEF Next
<1> QED BY <1>1, <1>2, Invariance, PTL DEF Spec, ImplementsFifo, Fifo!Spec

=============================================================================
