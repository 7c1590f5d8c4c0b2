----------------------------- MODULE SourceProofs -----------------------------
(***************************************************************************)
(* Proofs about Source, for every queue and every period: the variables    *)
(* keep their types, the source is a ChunkSource, a chunk has the frames   *)
(* it should have although a period is looked through twice, and what the  *)
(* event loop takes are whole streams.                                     *)
(***************************************************************************)
EXTENDS Source, FunctionTheorems, FiniteSetTheorems, SequenceTheorems, TLAPS

-----------------------------------------------------------------------------
(* Periods and their marks *)

\* A period is a sequence of marked frames, at least one and at most MaxFrames.
LEMMA PeriodType ==
    ASSUME NEW p \in Periods
    PROVE  /\ p \in Seq(Markers)
           /\ Len(p) \in 1..MaxFrames /\ Len(p) \in Nat
           /\ DOMAIN p = 1..Len(p)
<1>1. PICK n \in 1..MaxFrames : p \in [1..n -> Markers]
  BY DEF Periods
<1>2. n \in Nat /\ MaxFrames \in Nat
  BY <1>1, SourceAssumption
<1>3. p \in Seq(Markers)
  BY <1>1, <1>2, SeqDef
<1>4. DOMAIN p = 1..n /\ Len(p) = n
  BY <1>1, <1>2, <1>3, LenProperties
<1> QED BY <1>1, <1>2, <1>3, <1>4

\* The rest of a period, from an offset on.
LEMMA RestType ==
    ASSUME NEW p \in Seq(Markers), NEW offset \in 1..Len(p)
    PROVE  LET rest == SubSeq(p, offset, Len(p)) IN
           /\ rest \in Seq(Markers)
           /\ Len(rest) = Len(p) - offset + 1 /\ Len(rest) \in 1..Len(p)
           /\ DOMAIN rest = 1..Len(rest)
           /\ \A j \in 1..Len(rest) : rest[j] = p[offset + j - 1]
<1> DEFINE rest == SubSeq(p, offset, Len(p))
<1>1. Len(p) \in Nat /\ offset \in Int /\ Len(p) \in Int /\ offset <= Len(p)
  BY LenProperties
<1>2. \A i \in offset..Len(p) : p[i] \in Markers
  BY <1>1, ElementOfSeq
<1>3. /\ rest \in Seq(Markers) /\ Len(rest) = Len(p) - offset + 1
      /\ \A j \in 1..(Len(p) - offset + 1) : rest[j] = p[offset + j - 1]
  BY <1>1, <1>2, SubSeqProperties
<1>4. DOMAIN rest = 1..Len(rest)
  BY <1>3, LenProperties
<1> HIDE DEF rest
<1>5. Len(rest) \in 1..Len(p)
  BY <1>1, <1>3
<1> QED BY <1>3, <1>4, <1>5 DEF rest

\* Looking through the rest of a period with what was known at its offset is as good as
\* looking through the period.
LEMMA InStreamRest ==
    ASSUME NEW p \in Seq(Markers), NEW before \in BOOLEAN, NEW offset \in 1..Len(p),
           p[offset] # "end", p[offset] # "beginning",
           NEW j \in 1..(Len(p) - offset + 1)
    PROVE  InStream(SubSeq(p, offset, Len(p)), j, InStream(p, offset, before))
             <=> InStream(p, offset + j - 1, before)
<1> DEFINE rest == SubSeq(p, offset, Len(p))
           i == offset + j - 1
           known == InStream(p, offset, before)
<1>1. Len(p) \in Nat /\ offset \in Nat /\ j \in Nat /\ i \in offset..Len(p)
  BY LenProperties
<1>2. \A k \in 1..j : rest[k] = p[offset + k - 1]
  BY RestType
<1> HIDE DEF rest
<1>3. ASSUME InStream(rest, j, known)
      PROVE  InStream(p, i, before)
  <2>1. CASE known /\ \A k \in 1..j : rest[k] # "end"
    <3>1. \A k \in offset..i : p[k] # "end"
      <4> SUFFICES ASSUME NEW k \in offset..i PROVE p[k] # "end"
        OBVIOUS
      <4>1. k - offset + 1 \in 1..j /\ offset + (k - offset + 1) - 1 = k
        BY <1>1
      <4> QED BY <1>2, <2>1, <4>1
    <3>2. CASE before /\ \A k \in 1..offset : p[k] # "end"
      BY <1>1, <3>1, <3>2 DEF InStream
    <3>3. CASE \E k \in 1..offset : p[k] = "beginning" /\ \A l \in k..offset : p[l] # "end"
      <4>1. PICK k \in 1..offset : p[k] = "beginning" /\ \A l \in k..offset : p[l] # "end"
        BY <3>3
      <4>2. k \in 1..i /\ \A l \in k..i : p[l] # "end"
        BY <1>1, <3>1, <4>1
      <4> QED BY <4>1, <4>2 DEF InStream
    <3> QED BY <2>1, <3>2, <3>3 DEF InStream
  <2>2. CASE \E k \in 1..j : rest[k] = "beginning" /\ \A l \in k..j : rest[l] # "end"
    <3>1. PICK k \in 1..j : rest[k] = "beginning" /\ \A l \in k..j : rest[l] # "end"
      BY <2>2
    <3>2. offset + k - 1 \in 1..i /\ p[offset + k - 1] = "beginning"
      BY <1>1, <1>2, <3>1
    <3>3. \A m \in (offset + k - 1)..i : p[m] # "end"
      <4> SUFFICES ASSUME NEW m \in (offset + k - 1)..i PROVE p[m] # "end"
        OBVIOUS
      <4>1. m - offset + 1 \in k..j /\ m - offset + 1 \in 1..j
            /\ offset + (m - offset + 1) - 1 = m
        BY <1>1
      <4> QED BY <1>2, <3>1, <4>1
    <3> QED BY <3>2, <3>3 DEF InStream
  <2> QED BY <1>3, <2>1, <2>2 DEF InStream
<1>4. ASSUME InStream(p, i, before)
      PROVE  InStream(rest, j, known)
  <2>1. ASSUME \A m \in offset..i : p[m] # "end"
        PROVE  \A k \in 1..j : rest[k] # "end"
    <3> SUFFICES ASSUME NEW k \in 1..j PROVE rest[k] # "end"
      OBVIOUS
    <3>1. offset + k - 1 \in offset..i
      BY <1>1
    <3> QED BY <1>2, <2>1, <3>1
  <2>2. CASE before /\ \A k \in 1..i : p[k] # "end"
    <3>1. known
      BY <1>1, <2>2 DEF InStream
    <3>2. \A k \in 1..j : rest[k] # "end"
      BY <1>1, <2>1, <2>2
    <3> QED BY <3>1, <3>2 DEF InStream
  <2>3. CASE \E k \in 1..i : p[k] = "beginning" /\ \A l \in k..i : p[l] # "end"
    <3>1. PICK k \in 1..i : p[k] = "beginning" /\ \A l \in k..i : p[l] # "end"
      BY <2>3
    <3>2. CASE k <= offset
      <4>1. k \in 1..offset /\ \A l \in k..offset : p[l] # "end"
        BY <1>1, <3>1, <3>2
      <4>2. known
        BY <3>1, <4>1 DEF InStream
      <4>3. \A m \in offset..i : p[m] # "end"
        BY <1>1, <3>1, <3>2
      <4> QED BY <2>1, <4>2, <4>3 DEF InStream
    <3>3. CASE k > offset
      <4> DEFINE n == k - offset + 1
      <4>1. n \in 1..j /\ offset + n - 1 = k
        BY <1>1, <3>1, <3>3
      <4>2. rest[n] = "beginning"
        BY <1>2, <3>1, <4>1
      <4>3. \A l \in n..j : rest[l] # "end"
        <5> SUFFICES ASSUME NEW l \in n..j PROVE rest[l] # "end"
          OBVIOUS
        <5>1. l \in 1..j /\ offset + l - 1 \in k..i
          BY <1>1, <4>1
        <5> QED BY <1>2, <3>1, <5>1
      <4> HIDE DEF n
      <4> QED BY <4>1, <4>2, <4>3 DEF InStream
    <3> QED BY <1>1, <3>1, <3>2, <3>3
  <2> QED BY <1>4, <2>2, <2>3 DEF InStream
<1> QED BY <1>3, <1>4 DEF rest

\* The numbers up to n are n.
LEMMA UpTo ==
    ASSUME NEW n \in Nat
    PROVE  IsFiniteSet(1..n) /\ Cardinality(1..n) = n
<1>1. n \in Int /\ 1 \in Int
  OBVIOUS
<1>2. /\ IsFiniteSet(1..n)
      /\ Cardinality(1..n) = IF 1 > n THEN 0 ELSE n - 1 + 1
  BY <1>1, FS_Interval
<1>3. n = IF 1 > n THEN 0 ELSE n - 1 + 1
  OBVIOUS
<1> QED BY <1>2, <1>3

\* The frames that copyData finds behind the offset are those of the period: both lists
\* have the same length, which is at least one.
LEMMA CopiedCount ==
    ASSUME NEW p \in Periods, producing \in BOOLEAN,
           NEW offset \in DOMAIN p, IsOffset(p, offset)
    PROVE  /\ Cardinality(Copied(p, offset)) = Cardinality(StreamFrames(p, producing))
           /\ Cardinality(Copied(p, offset)) \in 1..MaxFrames
<1> DEFINE rest == SubSeq(p, offset, Len(p))
           C == Copied(p, offset)
           S == StreamFrames(p, producing)
<1>1. /\ p \in Seq(Markers) /\ DOMAIN p = 1..Len(p)
      /\ Len(p) \in Nat /\ Len(p) \in 1..MaxFrames /\ MaxFrames \in Nat
  BY PeriodType, SourceAssumption
<1>2. offset \in 1..Len(p) /\ offset \in Nat
  BY <1>1
<1>3. p[offset] = "data"
  BY DEF IsOffset, StreamFrames
<1>4. /\ Len(rest) = Len(p) - offset + 1 /\ DOMAIN rest = 1..Len(rest)
      /\ \A j \in 1..Len(rest) : rest[j] = p[offset + j - 1]
  BY <1>1, <1>2, RestType
<1>5. S \subseteq offset..Len(p)
  <2> SUFFICES ASSUME NEW i \in S PROVE i \in offset..Len(p)
    OBVIOUS
  <2>1. i \in 1..Len(p)
    BY <1>1 DEF StreamFrames
  <2>2. offset <= i
    BY DEF IsOffset
  <2> QED BY <1>1, <1>2, <2>1, <2>2
<1>6. \A j \in 1..Len(rest) : j \in C <=> offset + j - 1 \in S
  <2> SUFFICES ASSUME NEW j \in 1..Len(rest)
               PROVE  j \in C <=> offset + j - 1 \in S
    OBVIOUS
  <2>1. InStream(rest, j, InStream(p, offset, producing))
          <=> InStream(p, offset + j - 1, producing)
    <3>1. j \in 1..(Len(p) - offset + 1)
      BY <1>4
    <3>2. p[offset] # "end" /\ p[offset] # "beginning"
      BY <1>3
    <3> QED BY <1>1, <1>2, <3>1, <3>2, InStreamRest
  <2>2. j \in C <=> rest[j] = "data" /\ InStream(rest, j, InStream(p, offset, producing))
    BY <1>4, Zenon DEF Copied, StreamFrames, Scanned
  <2>3. offset + j - 1 \in 1..Len(p)
    BY <1>1, <1>2, <1>4
  <2>4. offset + j - 1 \in S
          <=> p[offset + j - 1] = "data" /\ InStream(p, offset + j - 1, producing)
    BY <1>1, <2>3, Zenon DEF StreamFrames
  <2>5. rest[j] = p[offset + j - 1]
    BY <1>4
  <2> QED BY <2>1, <2>2, <2>4, <2>5, Zenon
<1>7. C \subseteq 1..Len(rest)
  BY <1>4, Zenon DEF Copied, StreamFrames
<1>8. ASSUME NEW i \in S
      PROVE  /\ i - offset + 1 \in 1..Len(rest)
             /\ offset + (i - offset + 1) - 1 = i
  BY <1>1, <1>2, <1>4, <1>5
<1>9. 1 \in C
  <2>1. 1 \in 1..Len(rest) /\ offset + 1 - 1 = offset
    BY <1>1, <1>2, <1>4
  <2>2. offset \in S
    BY DEF IsOffset
  <2> QED BY <1>6, <2>1, <2>2
<1>10. IsFiniteSet(C) /\ Cardinality(C) <= Len(rest)
  <2>1. Len(rest) \in Nat
    BY <1>1, <1>2, <1>4
  <2>2. IsFiniteSet(1..Len(rest)) /\ Cardinality(1..Len(rest)) = Len(rest)
    BY <2>1, UpTo
  <2> QED BY <1>7, <2>2, FS_Subset
<1> HIDE DEF C, S, rest
<1>11. ExistsBijection(C, S)
  <2> DEFINE f == [j \in C |-> offset + j - 1]
  <2>1. \A j \in C : f[j] \in S
    BY <1>6, <1>7
  <2>2. \A a, b \in C : f[a] = f[b] => a = b
    BY <1>1, <1>2, <1>4, <1>7
  <2>3. \A i \in S : \E j \in C : f[j] = i
    <3> SUFFICES ASSUME NEW i \in S PROVE \E j \in C : f[j] = i
      OBVIOUS
    <3>1. i - offset + 1 \in C
      BY <1>6, <1>8
    <3>2. f[i - offset + 1] = i
      BY <1>8, <3>1
    <3> QED BY <3>1, <3>2
  <2>4. f \in [C -> S]
    BY <2>1
  <2> HIDE DEF f
  <2>5. f \in Bijection(C, S)
    BY <2>2, <2>3, <2>4, Fun_IsBij
  <2> QED BY <2>5, Fun_ExistsBij
<1>12. Cardinality(S) = Cardinality(C)
  BY <1>10, <1>11, FS_Bijection
<1>13. Cardinality(C) \in Nat /\ Cardinality(C) # 0
  BY <1>9, <1>10, FS_CardinalityType, FS_EmptySet
<1>14. Cardinality(C) \in 1..MaxFrames
  BY <1>1, <1>2, <1>4, <1>10, <1>13
<1> QED BY <1>12, <1>14 DEF C, S

-----------------------------------------------------------------------------
(* What the thread knows *)

\* The marks that were read say at least that a stream has begun, and never that one is
\* being played whose beginning was not read.
Marked ==
    /\ stream = "begun" => producing
    /\ stream = "before" => ~producing

\* There being no data outside of a stream, the marks that were lost with a period that
\* was not queued do not show in the next one.
LEMMA PlayedFrames ==
    ASSUME NEW p \in Periods, Play(p), Marked, producing \in BOOLEAN,
           stream \in {"none", "before", "begun"}
    PROVE  StreamFrames(p, producing) = StreamFrames(p, stream = "begun")
<1>1. SUFFICES ASSUME NEW i \in DOMAIN p, p[i] = "data"
               PROVE  InStream(p, i, producing) <=> InStream(p, i, stream = "begun")
  BY Zenon DEF StreamFrames
<1>2. InStream(p, i, stream # "none")
  BY <1>1 DEF Play
<1> QED BY <1>2 DEF InStream, Marked

\* A period has no more frames of a stream than frames.
LEMMA FramesBound ==
    ASSUME NEW p \in Periods, NEW before
    PROVE  Cardinality(StreamFrames(p, before)) \in 0..MaxFrames
<1> DEFINE S == StreamFrames(p, before)
<1>1. DOMAIN p = 1..Len(p) /\ Len(p) \in Nat /\ Len(p) \in 1..MaxFrames /\ MaxFrames \in Nat
  BY PeriodType, SourceAssumption
<1>2. S \subseteq 1..Len(p)
  BY <1>1, Zenon DEF StreamFrames
<1>3. IsFiniteSet(1..Len(p)) /\ Cardinality(1..Len(p)) = Len(p)
  BY <1>1, UpTo
<1> HIDE DEF S
<1>4. IsFiniteSet(S) /\ Cardinality(S) <= Len(p)
  BY <1>2, <1>3, FS_Subset
<1>5. Cardinality(S) \in Nat
  BY <1>4, FS_CardinalityType
<1> QED BY <1>1, <1>4, <1>5 DEF S

\* After a period was copied the same marks count as if it had been looked through once.
LEMMA AfterCopyMarks ==
    ASSUME NEW p \in Periods, producing \in BOOLEAN,
           NEW offset \in DOMAIN p, IsOffset(p, offset)
    PROVE  AfterCopy(p, offset) <=> InStream(p, Len(p), producing)
<1> DEFINE rest == SubSeq(p, offset, Len(p))
<1>1. /\ p \in Seq(Markers) /\ offset \in 1..Len(p) /\ Len(p) \in Nat
  BY PeriodType
<1>2. p[offset] # "end" /\ p[offset] # "beginning"
  BY DEF IsOffset, StreamFrames
<1>3. Len(rest) = Len(p) - offset + 1
  BY <1>1, RestType
<1>4. Len(rest) \in 1..(Len(p) - offset + 1) /\ offset + Len(rest) - 1 = Len(p)
  BY <1>1, <1>3
<1>5. InStream(rest, Len(rest), InStream(p, offset, producing))
        <=> InStream(p, offset + Len(rest) - 1, producing)
  BY <1>1, <1>2, <1>4, InStreamRest
<1> QED BY <1>4, <1>5 DEF AfterCopy, Scanned

\* The marks of a whole period keep what is known in step with what is played.
LEMMA ScannedMarks ==
    ASSUME NEW p \in Periods, Play(p), Marked, producing \in BOOLEAN,
           stream \in {"none", "before", "begun"},
           producing' <=> InStream(p, Len(p), producing)
    PROVE  Marked'
BY DEF Marked, Play, InStream

\* So do the marks up to the first data, behind which no beginning is lost: the stream
\* that has begun then ends, or is the one that is being played.
LEMMA LostMarks ==
    ASSUME NEW p \in Periods, Play(p), Marked, producing \in BOOLEAN,
           stream \in {"none", "before", "begun"},
           NEW offset \in DOMAIN p, IsOffset(p, offset),
           producing' = Scanned(p, offset)
    PROVE  Marked' /\ producing' = TRUE
<1>1. InStream(p, offset, producing)
  BY DEF IsOffset, StreamFrames
<1>2. producing' = TRUE
  BY <1>1, Zenon DEF Scanned, InStream
<1>3. offset \in 1..Len(p) /\ Len(p) \in Nat
  BY PeriodType
<1>4. ASSUME stream' = "before" PROVE FALSE
  <2>1. stream = "before" /\ ~producing
    BY <1>4 DEF Play, InStream, Marked
  <2>2. PICK k \in 1..offset : p[k] = "beginning" /\ \A l \in k..offset : p[l] # "end"
    BY <1>1, <2>1 DEF InStream
  <2>3. InStream(p, Len(p), stream # "none") /\ ~InStream(p, Len(p), stream = "begun")
    BY <1>4 DEF Play
  <2>4. ~ \E m \in 1..Len(p) : p[m] = "beginning" /\ \A l \in m..Len(p) : p[l] # "end"
    BY <2>3 DEF InStream
  <2>5. \A l \in 1..Len(p) : p[l] # "end"
    BY <2>3, <2>4 DEF InStream
  <2>6. k \in 1..Len(p) /\ \A l \in k..Len(p) : l \in 1..Len(p)
    BY <1>3, <2>2
  <2> QED BY <2>2, <2>4, <2>5, <2>6
<1> QED BY <1>2, <1>4, Zenon DEF Marked

-----------------------------------------------------------------------------
(* The types and the marks *)

IInv == TypeOK /\ Marked

\* The initial states are of the invariant.
LEMMA InitIInv == Init => IInv
<1> SUFFICES ASSUME Init PROVE IInv
  OBVIOUS
<1>1. queue \in Seq(Chunks) /\ Len(queue) <= Capacity
  BY SourceAssumption DEF Init
<1>2. expected \in 0..MaxFrames
  BY SourceAssumption DEF Init
<1>3. TypeOK
  BY <1>1, <1>2, Zenon DEF Init, TypeOK
<1>4. Marked
  BY DEF Init, Marked
<1> QED BY <1>3, <1>4 DEF IInv

\* A chunk is appended where there is room.
LEMMA AppendType ==
    ASSUME TypeOK, HasRoom, NEW chunk \in Chunks, queue' = Append(queue, chunk)
    PROVE  queue' \in Seq(Chunks) /\ Len(queue') <= Capacity
<1>1. queue \in Seq(Chunks) /\ Len(queue) < Capacity
  BY DEF TypeOK, HasRoom
<1>2. queue' \in Seq(Chunks) /\ Len(queue') = Len(queue) + 1 /\ Len(queue) \in Nat
  BY <1>1, AppendProperties, LenProperties
<1> QED BY <1>1, <1>2, SourceAssumption

\* What is played is of its type.
LEMMA PlayType ==
    ASSUME NEW p \in Periods, Play(p)
    PROVE  stream' \in {"none", "before", "begun"} /\ expected' \in 0..MaxFrames
<1>1. stream' \in {"none", "before", "begun"}
  BY Zenon DEF Play
<1>2. expected' \in 0..MaxFrames
  BY FramesBound, Zenon DEF Play
<1> QED BY <1>1, <1>2

\* A turn of the producer's loop keeps the invariant.
LEMMA ReadIInv == ASSUME IInv, Read PROVE IInv'
<1>1. PICK p \in Periods :
        Play(p) /\ (ReadSilence(p) \/ \E offset \in DOMAIN p : ReadData(p, offset))
  BY DEF Read
<1>2. TypeOK /\ Marked /\ producing \in BOOLEAN /\ stream \in {"none", "before", "begun"}
  BY DEF IInv, TypeOK
<1>3. UNCHANGED <<threadVars, consuming>>
  BY DEF Read
<1>4. ASSUME producing' \in BOOLEAN, isBeginningOfStream' \in BOOLEAN,
             queue' \in Seq(Chunks) /\ Len(queue') <= Capacity
      PROVE  TypeOK'
  BY <1>1, <1>2, <1>3, <1>4, PlayType, Zenon DEF TypeOK, threadVars
<1>5. queue \in Seq(Chunks) /\ Len(queue) <= Capacity /\ isBeginningOfStream \in BOOLEAN
  BY <1>2 DEF TypeOK
<1>6. CASE ReadSilence(p)
  <2>1. producing' = InStream(p, Len(p), producing)
    BY <1>6 DEF ReadSilence
  <2>2. producing' \in BOOLEAN
    BY <2>1, Zenon DEF InStream
  <2>3. CASE ~isBeginningOfStream /\ HasRoom
    <3>1. queue' = Append(queue, EndOfStream) /\ isBeginningOfStream' = TRUE
      BY <1>6, <2>3 DEF ReadSilence
    <3>2. EndOfStream \in Chunks
      BY DEF EndOfStream, Chunks
    <3> QED BY <1>1, <1>2, <1>4, <2>1, <2>2, <2>3, <3>1, <3>2, AppendType, ScannedMarks DEF IInv
  <2>4. CASE ~(~isBeginningOfStream /\ HasRoom)
    <3>1. UNCHANGED <<queue, isBeginningOfStream>>
      BY <1>6, <2>4 DEF ReadSilence
    <3> QED BY <1>1, <1>2, <1>4, <1>5, <2>1, <2>2, <3>1, ScannedMarks DEF IInv
  <2> QED BY <2>3, <2>4
<1>7. CASE \E offset \in DOMAIN p : ReadData(p, offset)
  <2>1. PICK offset \in DOMAIN p : ReadData(p, offset)
    BY <1>7
  <2>2. IsOffset(p, offset)
    BY <2>1 DEF ReadData
  <2>3. CASE HasRoom
    <3>1. /\ queue' = Append(queue, Chunk(Cardinality(Copied(p, offset))))
          /\ producing' = AfterCopy(p, offset)
          /\ isBeginningOfStream' = FALSE
      BY <2>1, <2>3 DEF ReadData
    <3>2. Chunk(Cardinality(Copied(p, offset))) \in Chunks
      BY <1>2, <2>2, CopiedCount DEF Chunk, Chunks
    <3>3. producing' \in BOOLEAN
      BY <3>1, Zenon DEF AfterCopy, InStream
    <3>4. producing' <=> InStream(p, Len(p), producing)
      BY <1>2, <2>2, <3>1, AfterCopyMarks
    <3> QED BY <1>1, <1>2, <1>4, <2>3, <3>1, <3>2, <3>3, <3>4, AppendType, ScannedMarks DEF IInv
  <2>4. CASE ~HasRoom
    <3>1. producing' = Scanned(p, offset) /\ UNCHANGED <<queue, isBeginningOfStream>>
      BY <2>1, <2>4 DEF ReadData
    <3>2. Marked' /\ producing' = TRUE
      BY <1>1, <1>2, <2>2, <3>1, LostMarks
    <3> QED BY <1>4, <1>5, <3>1, <3>2 DEF IInv
  <2> QED BY <2>3, <2>4
<1> QED BY <1>1, <1>6, <1>7

\* No step leaves the invariant.
LEMMA NextIInv == ASSUME IInv, [Next]_vars PROVE IInv'
<1> USE DEF IInv, TypeOK, Marked, threadVars, captureVars
<1>1. CASE Open
  BY <1>1 DEF Open
<1>2. CASE Read
  BY <1>2, ReadIInv
<1>3. CASE ReadFails
  BY <1>3 DEF ReadFails
<1>4. CASE Close
  BY <1>4 DEF Close
<1>5. CASE Start
  BY <1>5 DEF Start
<1>6. CASE Consume
  <2>1. queue # <<>> /\ queue' = Tail(queue) /\ UNCHANGED <<threadVars, captureVars>>
    BY <1>6 DEF Consume
  <2>2. queue' \in Seq(Chunks) /\ Len(queue') <= Capacity
    <3>1. queue \in Seq(Chunks) /\ Len(queue) <= Capacity
      OBVIOUS
    <3>2. queue' \in Seq(Chunks) /\ Len(queue') = Len(queue) - 1 /\ Len(queue) \in Nat
      BY <2>1, <3>1, HeadTailProperties, LenProperties
    <3> QED BY <3>1, <3>2, SourceAssumption
  <2>3. consuming' \in BOOLEAN
    BY <1>6, Zenon DEF Consume
  <2> QED BY <2>1, <2>2, <2>3, ZenonT(40)
<1>7. CASE Refuse
  BY <1>7 DEF Refuse
<1>8. CASE Stop
  BY <1>8 DEF Stop
<1>9. CASE Join
  BY <1>9 DEF Join
<1>10. CASE UNCHANGED vars
  BY <1>10 DEF vars
<1> QED BY <1>1, <1>2, <1>3, <1>4, <1>5, <1>6, <1>7, <1>8, <1>9, <1>10, Zenon
         DEF Next, Produce

\* The invariant holds in every state.
LEMMA IInvCorrect == Spec => []IInv
<1> QED BY InitIInv, NextIInv, PTL DEF Spec

\* The variables keep their types, for every queue and every period: the thread never
\* queues a chunk without room, nor one without frames, and what it knows of the marks
\* never says that a stream is played whose beginning it did not read.
THEOREM SourceTypeCorrect == Spec => [](TypeOK /\ Marked)
BY IInvCorrect DEF IInv

-----------------------------------------------------------------------------
(* The frames of a chunk *)

\* In one turn of the loop, a chunk that is queued has the frames that are expected; when
\* any are and there is room, one is queued.  None is taken.
LEMMA ReadFrames ==
    ASSUME IInv, Read
    PROVE  /\ Len(queue') > Len(queue) => queue'[Len(queue')].frames = expected'
           /\ expected' # 0 /\ Len(queue) < Capacity => Len(queue') > Len(queue)
           /\ Len(queue') >= Len(queue)
<1>1. PICK p \in Periods :
        Play(p) /\ (ReadSilence(p) \/ \E offset \in DOMAIN p : ReadData(p, offset))
  BY DEF Read
<1>2. Marked /\ producing \in BOOLEAN /\ stream \in {"none", "before", "begun"}
  BY DEF IInv, TypeOK
<1>3. queue \in Seq(Chunks) /\ Len(queue) \in Nat
  BY LenProperties DEF IInv, TypeOK
<1>4. expected' = Cardinality(StreamFrames(p, producing))
  <2>1. StreamFrames(p, producing) = StreamFrames(p, stream = "begun")
    BY <1>1, <1>2, PlayedFrames
  <2>2. expected' = Cardinality(StreamFrames(p, stream = "begun"))
    BY <1>1, Zenon DEF Play
  <2> QED BY <2>1, <2>2, Zenon
<1>5. ASSUME NEW chunk \in Chunks, queue' = Append(queue, chunk)
      PROVE  Len(queue') > Len(queue) /\ queue'[Len(queue')] = chunk
  BY <1>3, <1>5, AppendProperties
<1>6. CASE ReadSilence(p)
  <2>1. expected' = 0
    BY <1>4, <1>6, FS_EmptySet DEF ReadSilence
  <2>2. EndOfStream \in Chunks /\ EndOfStream.frames = 0
    BY DEF EndOfStream, Chunks
  <2>3. queue' = Append(queue, EndOfStream) \/ queue' = queue
    BY <1>6, Zenon DEF ReadSilence
  <2> QED BY <1>3, <1>5, <2>1, <2>2, <2>3
<1>7. CASE \E offset \in DOMAIN p : ReadData(p, offset)
  <2>1. PICK offset \in DOMAIN p : ReadData(p, offset)
    BY <1>7
  <2> DEFINE n == Cardinality(Copied(p, offset))
  <2>2. n = expected' /\ n \in 1..MaxFrames
    BY <1>2, <1>4, <2>1, CopiedCount DEF ReadData
  <2>3. Chunk(n) \in Chunks /\ Chunk(n).frames = n
    <3> HIDE DEF n
    <3> QED BY <2>2 DEF Chunk, Chunks
  <2>4. HasRoom => queue' = Append(queue, Chunk(n))
    BY <2>1 DEF ReadData
  <2>5. ~HasRoom => queue' = queue
    BY <2>1 DEF ReadData
  <2> HIDE DEF n
  <2> QED BY <1>3, <1>5, <2>2, <2>3, <2>4, <2>5 DEF HasRoom
<1> QED BY <1>1, <1>6, <1>7

\* A chunk has the frames of its period that belong to streams whose beginning was read,
\* all of them and no other, for every queue and every period: that containsData stops at
\* the first data, that copyData looks through the rest again, and that a period is lost
\* with marks nobody has come to when the queue is full, neither adds a frame nor loses one.
THEOREM FramesKeptCorrect == Spec => FramesKept
<1> DEFINE Kept == /\ Len(queue') > Len(queue) => queue'[Len(queue')].frames = expected'
                   /\ Read /\ expected' # 0 /\ Len(queue) < Capacity
                        => Len(queue') > Len(queue)
<1>1. ASSUME IInv, [Next]_vars PROVE [Kept]_vars
  <2>0. Len(queue) \in Nat
    BY <1>1, LenProperties DEF IInv, TypeOK
  <2>1. CASE Read
    BY <1>1, <2>1, ReadFrames
  <2>2. CASE UNCHANGED vars
    BY <2>2
  <2>3. CASE Consume
    <3>1. queue \in Seq(Chunks) /\ queue # <<>> /\ queue' = Tail(queue)
      BY <1>1, <2>3 DEF Consume, IInv, TypeOK
    <3>2. Len(queue') = Len(queue) - 1
      BY <3>1, HeadTailProperties
    <3>3. ~Read
      <4> SUFFICES ASSUME Read PROVE FALSE
        OBVIOUS
      <4>1. Len(queue') >= Len(queue)
        BY <1>1, ReadFrames
      <4> QED BY <2>0, <3>2, <4>1
    <3> QED BY <2>0, <3>2, <3>3
  <2>4. CASE ~Read /\ ~Consume /\ Next
    <3>1. queue' = queue
      BY <2>4 DEF Next, Produce, Open, ReadFails, Close, Start, Refuse, Stop, Join
    <3> QED BY <2>0, <2>4, <3>1
  <2> QED BY <1>1, <2>1, <2>2, <2>3, <2>4
<1>2. Spec => [][Kept]_vars
  BY <1>1, IInvCorrect, PTL DEF Spec
<1> QED BY <1>2 DEF FramesKept

-----------------------------------------------------------------------------
(* A source is a ChunkSource *)

\* The queue as ChunkSource sees it.
Kinds(q) == [i \in DOMAIN q |-> IF q[i].endOfStream THEN "end" ELSE "data"]

\* Of a queue of chunks it is a queue of the same length.
LEMMA KindsType ==
    ASSUME NEW q \in Seq(Chunks)
    PROVE  /\ Kinds(q) \in Seq({"data", "end"}) /\ Len(Kinds(q)) = Len(q)
           /\ \A i \in 1..Len(q) : Kinds(q)[i] = IF q[i].endOfStream THEN "end" ELSE "data"
<1>1. Len(q) \in Nat /\ DOMAIN q = 1..Len(q)
  BY LenProperties
<1>2. Kinds(q) \in [1..Len(q) -> {"data", "end"}]
  BY <1>1 DEF Kinds
<1>3. Kinds(q) \in Seq({"data", "end"})
  BY <1>1, <1>2, SeqDef
<1>4. Len(Kinds(q)) = Len(q)
  BY <1>1, <1>2, <1>3, LenProperties
<1>5. \A i \in 1..Len(q) : Kinds(q)[i] = IF q[i].endOfStream THEN "end" ELSE "data"
  BY <1>1 DEF Kinds
<1> QED BY <1>3, <1>4, <1>5

\* A chunk that is queued is queued there.
LEMMA KindsAppend ==
    ASSUME NEW q \in Seq(Chunks), NEW chunk \in Chunks
    PROVE  Kinds(Append(q, chunk))
             = Append(Kinds(q), IF chunk.endOfStream THEN "end" ELSE "data")
<1> DEFINE kind == IF chunk.endOfStream THEN "end" ELSE "data"
           s == Kinds(Append(q, chunk))
           t == Append(Kinds(q), kind)
<1>0. kind \in {"data", "end"}
  OBVIOUS
<1>1. /\ Append(q, chunk) \in Seq(Chunks) /\ Len(Append(q, chunk)) = Len(q) + 1
      /\ \A i \in 1..Len(q) : Append(q, chunk)[i] = q[i]
      /\ Append(q, chunk)[Len(q) + 1] = chunk
      /\ Len(q) \in Nat
  BY AppendProperties, LenProperties
<1>2. /\ s \in Seq({"data", "end"}) /\ Len(s) = Len(q) + 1
      /\ \A i \in 1..(Len(q) + 1) :
            s[i] = IF Append(q, chunk)[i].endOfStream THEN "end" ELSE "data"
  BY <1>1, KindsType
<1>3. /\ Kinds(q) \in Seq({"data", "end"}) /\ Len(Kinds(q)) = Len(q)
      /\ \A i \in 1..Len(q) : Kinds(q)[i] = IF q[i].endOfStream THEN "end" ELSE "data"
  BY KindsType
<1> HIDE DEF s
<1>4. s[Len(q) + 1] = kind
  BY <1>1, <1>2
<1> HIDE DEF kind
<1>5. /\ t \in Seq({"data", "end"}) /\ Len(t) = Len(q) + 1
      /\ \A i \in 1..Len(q) : t[i] = Kinds(q)[i]
      /\ t[Len(q) + 1] = kind
  BY <1>0, <1>3, AppendProperties
<1> HIDE DEF t
<1>6. \A i \in 1..Len(s) : s[i] = t[i]
  <2> SUFFICES ASSUME NEW i \in 1..Len(s) PROVE s[i] = t[i]
    OBVIOUS
  <2>1. CASE i = Len(q) + 1
    BY <1>4, <1>5, <2>1
  <2>2. CASE i \in 1..Len(q)
    <3>1. s[i] = IF q[i].endOfStream THEN "end" ELSE "data"
      BY <1>1, <1>2, <2>2
    <3> QED BY <1>3, <1>5, <2>2, <3>1
  <2> QED BY <1>1, <1>2, <2>1, <2>2
<1>7. s = t
  BY <1>2, <1>5, <1>6, SeqEqual
<1> QED BY <1>7 DEF s, t, kind

\* The first chunk is the first there, and taking it takes that.
LEMMA KindsTail ==
    ASSUME NEW q \in Seq(Chunks), q # <<>>
    PROVE  /\ Kinds(q) # <<>> /\ Kinds(Tail(q)) = Tail(Kinds(q))
           /\ Head(Kinds(q)) = IF Head(q).endOfStream THEN "end" ELSE "data"
<1>1. /\ Len(q) \in Nat \ {0} /\ Tail(q) \in Seq(Chunks) /\ Len(Tail(q)) = Len(q) - 1
      /\ \A i \in 1..Len(Tail(q)) : Tail(q)[i] = q[i + 1]
  BY HeadTailProperties, EmptySeq
<1> DEFINE k == Kinds(q)
           s == Kinds(Tail(q))
           t == Tail(k)
<1>2. /\ k \in Seq({"data", "end"}) /\ Len(k) = Len(q)
      /\ \A i \in 1..Len(q) : k[i] = IF q[i].endOfStream THEN "end" ELSE "data"
  BY KindsType
<1>3. /\ s \in Seq({"data", "end"}) /\ Len(s) = Len(Tail(q))
      /\ \A i \in 1..Len(Tail(q)) : s[i] = IF Tail(q)[i].endOfStream THEN "end" ELSE "data"
  BY <1>1, KindsType
<1> HIDE DEF k, s
<1>4. k # <<>>
  BY <1>1, <1>2, EmptySeq
<1>5. /\ t \in Seq({"data", "end"}) /\ Len(t) = Len(k) - 1
      /\ \A i \in 1..Len(t) : t[i] = k[i + 1]
  BY <1>2, <1>4, HeadTailProperties
<1> HIDE DEF t
<1>6. \A i \in 1..Len(s) : s[i] = t[i]
  <2> SUFFICES ASSUME NEW i \in 1..Len(s) PROVE s[i] = t[i]
    OBVIOUS
  <2>1. i \in 1..Len(Tail(q)) /\ i \in 1..Len(t) /\ i + 1 \in 1..Len(q)
    BY <1>1, <1>2, <1>3, <1>5
  <2>2. s[i] = IF q[i + 1].endOfStream THEN "end" ELSE "data"
    BY <1>1, <1>3, <2>1
  <2>3. t[i] = IF q[i + 1].endOfStream THEN "end" ELSE "data"
    BY <1>2, <1>5, <2>1
  <2> QED BY <2>2, <2>3
<1>7. s = t
  BY <1>1, <1>2, <1>3, <1>5, <1>6, SeqEqual
<1>8. Head(k) = k[1] /\ Head(q) = q[1]
  OBVIOUS
<1>9. k[1] = IF q[1].endOfStream THEN "end" ELSE "data"
  BY <1>1, <1>2
<1> QED BY <1>4, <1>7, <1>8, <1>9 DEF k, s, t

\* A turn of the producer's loop queues data, or the end of a stream that is not empty, or
\* nothing.
LEMMA ReadPromise ==
    ASSUME IInv, Read
    PROVE  Promise!PutData \/ Promise!PutEnd \/ UNCHANGED Promise!sourceVars
<1>1. PICK p \in Periods :
        Play(p) /\ (ReadSilence(p) \/ \E offset \in DOMAIN p : ReadData(p, offset))
  BY DEF Read
<1>2. /\ queue \in Seq(Chunks) /\ Len(Kinds(queue)) = Len(queue)
      /\ producing \in BOOLEAN /\ isBeginningOfStream \in BOOLEAN
  BY KindsType DEF IInv, TypeOK
<1>3. /\ thread \in {"starting", "reading"}
      /\ (thread \in {"starting", "reading"})' = (thread \in {"starting", "reading"})
      /\ consuming' = consuming
  BY DEF Read, threadVars
<1>4. ASSUME queue' = queue, isBeginningOfStream' = isBeginningOfStream
      PROVE  UNCHANGED Promise!sourceVars
  BY <1>3, <1>4 DEF Promise!sourceVars
<1>5. ASSUME HasRoom, NEW chunk \in Chunks, NEW kind,
             kind = IF chunk.endOfStream THEN "end" ELSE "data",
             queue' = Append(queue, chunk), isBeginningOfStream' = (kind = "end")
      PROVE  Promise!Put(kind)
  <2>1. Kinds(queue') = Append(Kinds(queue), kind)
    BY <1>2, <1>5, KindsAppend
  <2>2. Len(Kinds(queue)) < Capacity
    BY <1>2, <1>5 DEF HasRoom
  <2> QED BY <1>3, <1>5, <2>1, <2>2, Zenon DEF Promise!Put, Kinds
<1>6. CASE ReadSilence(p)
  <2>1. CASE ~isBeginningOfStream /\ HasRoom
    <3>1. queue' = Append(queue, EndOfStream) /\ isBeginningOfStream' = TRUE
      BY <1>6, <2>1 DEF ReadSilence
    <3>2. EndOfStream \in Chunks /\ "end" = IF EndOfStream.endOfStream THEN "end" ELSE "data"
      BY DEF EndOfStream, Chunks
    <3>3. isBeginningOfStream' = ("end" = "end")
      BY <3>1
    <3>4. Promise!Put("end")
      BY <1>5, <2>1, <3>1, <3>2, <3>3
    <3> QED BY <2>1, <3>4 DEF Promise!PutEnd
  <2>2. CASE ~(~isBeginningOfStream /\ HasRoom)
    BY <1>4, <1>6, <2>2 DEF ReadSilence
  <2> QED BY <2>1, <2>2
<1>7. CASE \E offset \in DOMAIN p : ReadData(p, offset)
  <2>1. PICK offset \in DOMAIN p : ReadData(p, offset)
    BY <1>7
  <2>2. CASE HasRoom
    <3> DEFINE n == Cardinality(Copied(p, offset))
    <3>1. queue' = Append(queue, Chunk(n)) /\ isBeginningOfStream' = FALSE
      BY <2>1, <2>2 DEF ReadData
    <3>2. n \in 1..MaxFrames
      BY <1>2, <2>1, CopiedCount DEF ReadData
    <3> HIDE DEF n
    <3>3. Chunk(n) \in Chunks /\ "data" = IF Chunk(n).endOfStream THEN "end" ELSE "data"
      BY <3>2 DEF Chunk, Chunks
    <3>4. isBeginningOfStream' = ("data" = "end")
      BY <3>1
    <3>5. Promise!Put("data")
      BY <1>5, <2>2, <3>1, <3>3, <3>4
    <3> QED BY <3>5 DEF Promise!PutData
  <2>3. CASE ~HasRoom
    <3>1. UNCHANGED <<queue, isBeginningOfStream>>
      BY <2>1, <2>3 DEF ReadData
    <3> QED BY <1>4, <3>1
  <2> QED BY <2>2, <2>3
<1> QED BY <1>1, <1>6, <1>7

\* Every step of a source is one of a ChunkSource, or none.
LEMMA NextPromise ==
    ASSUME IInv, [Next]_vars
    PROVE  Promise!Next \/ UNCHANGED Promise!sourceVars
<1>1. queue \in Seq(Chunks) /\ thread \in {"none", "starting", "reading", "closing", "ended"}
  BY DEF IInv, TypeOK
<1>2. CASE Read
  BY <1>2, ReadPromise DEF Promise!Next
<1>3. ASSUME UNCHANGED <<queue, isBeginningOfStream, consuming>>,
             thread' \notin {"starting", "reading"}
      PROVE  Promise!Next
  <2>1. (thread \in {"starting", "reading"})' = FALSE
    BY <1>3
  <2>2. Promise!End
    BY <1>3, <2>1 DEF Promise!End
  <2> QED BY <2>2 DEF Promise!Next
<1>4. CASE Open
  <2>1. /\ UNCHANGED <<queue, isBeginningOfStream, consuming>>
        /\ thread \in {"starting", "reading"} /\ thread' \in {"reading", "closing"}
    BY <1>4, Zenon DEF Open, captureVars
  <2>2. CASE thread' = "reading"
    BY <2>1, <2>2 DEF Promise!sourceVars
  <2>3. CASE thread' = "closing"
    BY <1>3, <2>1, <2>3
  <2> QED BY <2>1, <2>2, <2>3
<1>5. CASE ReadFails
  BY <1>3, <1>5 DEF ReadFails, captureVars
<1>6. CASE Close
  <2>1. /\ UNCHANGED <<queue, isBeginningOfStream, consuming>>
        /\ thread' \in {"closing", "ended"}
    BY <1>6 DEF Close, captureVars
  <2> QED BY <1>3, <2>1
<1>7. CASE Start
  <2>1. UNCHANGED <<queue, isBeginningOfStream, consuming>>
        /\ (thread \in {"starting", "reading"})' = TRUE
    BY <1>7 DEF Start, captureVars
  <2>2. Promise!Begin
    BY <2>1 DEF Promise!Begin
  <2> QED BY <2>2 DEF Promise!Next
<1>8. CASE Consume
  <2>1. /\ queue # <<>> /\ queue' = Tail(queue) /\ consuming' = ~Head(queue).endOfStream
        /\ isBeginningOfStream' = isBeginningOfStream /\ thread' = thread
    BY <1>8, Zenon DEF Consume, threadVars, captureVars
  <2>2. /\ Kinds(queue) # <<>> /\ Kinds(queue') = Tail(Kinds(queue))
        /\ Head(Kinds(queue)) = IF Head(queue).endOfStream THEN "end" ELSE "data"
    BY <1>1, <2>1, KindsTail
  <2>3. consuming' = (Head(Kinds(queue)) # "end")
    <3>1. Head(queue) \in Chunks
      BY <1>1, <2>1, HeadTailProperties
    <3>2. ASSUME NEW n \in 1..MaxFrames,
                 Head(queue) = [endOfStream |-> FALSE, frames |-> n]
          PROVE  Head(queue).endOfStream = FALSE
      BY <3>2
    <3>3. ASSUME Head(queue) = [endOfStream |-> TRUE, frames |-> 0]
          PROVE  Head(queue).endOfStream = TRUE
      BY <3>3
    <3>4. Head(queue).endOfStream \in BOOLEAN
      BY <3>1, <3>2, <3>3, Zenon DEF Chunks
    <3> QED BY <2>1, <2>2, <3>4
  <2>4. (thread \in {"starting", "reading"})' = (thread \in {"starting", "reading"})
    BY <2>1
  <2>5. Promise!Take
    BY <2>1, <2>2, <2>3, <2>4, Zenon DEF Promise!Take, Kinds
  <2> QED BY <2>5 DEF Promise!Next
<1>9. CASE Refuse
  <2>1. /\ queue # <<>> /\ queue' = queue /\ consuming' = TRUE
        /\ isBeginningOfStream' = isBeginningOfStream /\ thread' = thread
    BY <1>9, Zenon DEF Refuse, threadVars, captureVars
  <2>2. Kinds(queue) # <<>>
    BY <1>1, <2>1, KindsTail
  <2>3. Kinds(queue') = Kinds(queue)
    BY <2>1
  <2>4. (thread \in {"starting", "reading"})' = (thread \in {"starting", "reading"})
    BY <2>1
  <2>5. Promise!Leave
    BY <2>1, <2>2, <2>3, <2>4, Zenon DEF Promise!Leave, Kinds
  <2> QED BY <2>5 DEF Promise!Next
<1>10. CASE Stop \/ Join \/ UNCHANGED vars
  <2>1. UNCHANGED <<queue, isBeginningOfStream, consuming, thread>>
    BY <1>10 DEF Stop, Join, vars, threadVars, captureVars
  <2> QED BY <2>1 DEF Promise!sourceVars
<1> QED BY <1>2, <1>4, <1>5, <1>6, <1>7, <1>8, <1>9, <1>10 DEF Next, Produce

\* A source is what the event loop takes it for, for every queue and every period: its
\* streams are not empty, each has one end, which is put off and not lost when the queue
\* is full.
THEOREM ImplementsChunkSourceCorrect == Spec => ImplementsChunkSource
<1>1. Init => Promise!Init
  <2> SUFFICES ASSUME Init PROVE Promise!Init
    OBVIOUS
  <2>1. Kinds(queue) = <<>>
    <3>1. queue \in Seq(Chunks) /\ queue = <<>>
      BY DEF Init
    <3>2. Kinds(queue) \in Seq({"data", "end"}) /\ Len(Kinds(queue)) = 0
      BY <3>1, KindsType
    <3> QED BY <3>2, EmptySeq
  <2>2. (thread \in {"starting", "reading"}) = FALSE
    BY DEF Init
  <2> QED BY <2>1, <2>2, Zenon DEF Init, Promise!Init, Kinds
<1>2. IInv /\ [Next]_vars => [Promise!Next]_(Promise!sourceVars)
  BY NextPromise
<1>3. Spec => Promise!Spec
  BY <1>1, <1>2, IInvCorrect, PTL DEF Spec, Promise!Spec
<1> QED BY <1>3 DEF ImplementsChunkSource

-----------------------------------------------------------------------------
(* The streams of a ChunkSource are whole *)

\* The last chunk that was queued tells whether an end is owed; when it has been taken,
\* consuming tells it.
Whole(q, beginning, taken) ==
    /\ q \in Seq({"data", "end"}) /\ beginning \in BOOLEAN /\ taken \in BOOLEAN
    /\ \A i \in 1..Len(q) : q[i] = "end" => IF i = 1 THEN taken ELSE q[i - 1] = "data"
    /\ Len(q) = 0 => (taken <=> ~beginning)
    /\ Len(q) # 0 => (q[Len(q)] = "end" <=> beginning)

\* A chunk that is queued follows what is there: an end follows data.
LEMMA PutWhole ==
    ASSUME NEW q, NEW beginning, NEW taken, Whole(q, beginning, taken),
           NEW chunk \in {"data", "end"}, chunk = "end" => ~beginning
    PROVE  Whole(Append(q, chunk), chunk = "end", taken)
<1> DEFINE t == Append(q, chunk)
           n == Len(q)
<1>1. /\ q \in Seq({"data", "end"}) /\ beginning \in BOOLEAN /\ taken \in BOOLEAN
      /\ n \in Nat /\ \A i \in 1..n : q[i] \in {"data", "end"}
  BY DEF Whole
<1>2. /\ t \in Seq({"data", "end"}) /\ Len(t) = n + 1 /\ t[n + 1] = chunk
      /\ \A i \in 1..n : t[i] = q[i]
  BY <1>1
<1> HIDE DEF t, n
<1>3. ASSUME NEW i \in 1..(n + 1), t[i] = "end"
      PROVE  IF i = 1 THEN taken ELSE t[i - 1] = "data"
  <2>1. CASE i \in 1..n
    <3>1. IF i = 1 THEN taken ELSE q[i - 1] = "data"
      BY <1>2, <1>3, <2>1 DEF Whole, n
    <3>2. i # 1 => t[i - 1] = q[i - 1]
      BY <1>1, <1>2, <2>1
    <3> QED BY <3>1, <3>2
  <2>2. CASE i = n + 1
    <3>1. ~beginning
      BY <1>2, <1>3, <2>2
    <3>2. CASE n = 0
      BY <2>2, <3>1, <3>2 DEF Whole, n
    <3>3. CASE n # 0
      <4>1. i # 1 /\ i - 1 = n /\ n \in 1..n
        BY <1>1, <2>2, <3>3
      <4>2. q[n] # "end"
        BY <3>1, <3>3 DEF Whole, n
      <4> QED BY <1>1, <1>2, <4>1, <4>2
    <3> QED BY <3>2, <3>3
  <2> QED BY <1>1, <2>1, <2>2
<1>4. Len(t) # 0 /\ (t[Len(t)] = "end" <=> (chunk = "end"))
  BY <1>1, <1>2
<1> QED BY <1>1, <1>2, <1>3, <1>4 DEF Whole, t

\* When the first chunk has been taken, consuming says what it was.
LEMMA TakeWhole ==
    ASSUME NEW q, NEW beginning, NEW taken, Whole(q, beginning, taken), q # <<>>
    PROVE  Whole(Tail(q), beginning, Head(q) # "end")
<1> DEFINE t == Tail(q)
           n == Len(q)
<1>1. /\ q \in Seq({"data", "end"}) /\ beginning \in BOOLEAN /\ taken \in BOOLEAN
      /\ n \in Nat \ {0} /\ \A i \in 1..n : q[i] \in {"data", "end"}
  BY DEF Whole
<1>2. /\ t \in Seq({"data", "end"}) /\ Len(t) = n - 1 /\ Head(q) = q[1]
      /\ \A i \in 1..(n - 1) : t[i] = q[i + 1]
  BY <1>1
<1>3. ASSUME NEW i \in 1..n, q[i] = "end"
      PROVE  IF i = 1 THEN taken ELSE q[i - 1] = "data"
  BY <1>3 DEF Whole, n
<1>4. q[n] = "end" <=> beginning
  BY <1>1 DEF Whole, n
<1> HIDE DEF t, n
<1>5. ASSUME NEW i \in 1..(n - 1), t[i] = "end"
      PROVE  IF i = 1 THEN Head(q) # "end" ELSE t[i - 1] = "data"
  <2>1. i + 1 \in 1..n /\ i + 1 # 1 /\ (i + 1) - 1 = i /\ q[i + 1] = "end"
    BY <1>1, <1>2, <1>5
  <2>2. q[i] = "data"
    BY <1>3, <2>1
  <2>3. i # 1 => t[i - 1] = q[i]
    BY <1>1, <1>2
  <2> QED BY <1>2, <2>2, <2>3
<1>6. Len(t) = 0 => ((Head(q) # "end") <=> ~beginning)
  BY <1>1, <1>2, <1>4
<1>7. Len(t) # 0 => (t[Len(t)] = "end" <=> beginning)
  BY <1>1, <1>2, <1>4
<1> QED BY <1>1, <1>2, <1>5, <1>6, <1>7 DEF Whole, t

\* The source as the ChunkSource that it is has whole streams.
SourceWhole == Whole(Kinds(queue), isBeginningOfStream, consuming)

\* No step of a ChunkSource leaves a stream that is not whole.
LEMMA NextWhole ==
    ASSUME SourceWhole, Promise!Next \/ UNCHANGED Promise!sourceVars
    PROVE  Whole(Kinds(queue'), isBeginningOfStream', consuming')
<1>1. Whole(Kinds(queue), isBeginningOfStream, consuming)
  BY DEF SourceWhole
<1>2. ASSUME NEW chunk \in {"data", "end"}, Promise!Put(chunk),
             chunk = "end" => ~isBeginningOfStream
      PROVE  Whole(Kinds(queue'), isBeginningOfStream', consuming')
  <2>1. /\ Kinds(queue') = Append(Kinds(queue), chunk)
        /\ isBeginningOfStream' = (chunk = "end") /\ consuming' = consuming
    BY <1>2, Zenon DEF Promise!Put, Kinds
  <2> QED BY <1>1, <1>2, <2>1, PutWhole
<1>3. CASE Promise!PutData
  BY <1>2, <1>3 DEF Promise!PutData
<1>4. CASE Promise!PutEnd
  BY <1>2, <1>4 DEF Promise!PutEnd
<1>5. CASE Promise!Take
  <2>1. /\ Kinds(queue) # <<>> /\ Kinds(queue') = Tail(Kinds(queue))
        /\ isBeginningOfStream' = isBeginningOfStream
        /\ consuming' = (Head(Kinds(queue)) # "end")
    BY <1>5, Zenon DEF Promise!Take, Kinds
  <2> QED BY <1>1, <2>1, TakeWhole
<1>6. CASE Promise!Leave
  <2>1. /\ Kinds(queue) # <<>> /\ Kinds(queue') = Kinds(queue)
        /\ isBeginningOfStream' = isBeginningOfStream /\ consuming' = TRUE
    BY <1>6, Zenon DEF Promise!Leave, Kinds
  <2>2. Len(Kinds(queue)) # 0
    BY <1>1, <2>1 DEF Whole
  <2> QED BY <1>1, <2>1, <2>2 DEF Whole
<1>7. CASE Promise!Begin \/ Promise!End \/ UNCHANGED Promise!sourceVars
  <2>1. /\ Kinds(queue') = Kinds(queue)
        /\ isBeginningOfStream' = isBeginningOfStream /\ consuming' = consuming
    BY <1>7, Zenon DEF Promise!Begin, Promise!End, Promise!sourceVars, Kinds
  <2> QED BY <1>1, <2>1
<1> QED BY <1>3, <1>4, <1>5, <1>6, <1>7 DEF Promise!Next

\* What follows for a source from what ChunkSource says: the event loop never waits for a
\* stream whose end is neither queued nor owed by the thread, and no stream that it gets
\* is empty, for every queue and every period.
THEOREM StreamsWhole == Spec => [](Promise!EndsFollowData /\ Promise!EndIsDue)
<1>1. Init => SourceWhole
  <2> SUFFICES ASSUME Init PROVE SourceWhole
    OBVIOUS
  <2>1. queue \in Seq(Chunks) /\ queue = <<>>
    BY DEF Init
  <2>2. Kinds(queue) \in Seq({"data", "end"}) /\ Len(Kinds(queue)) = 0
    BY <2>1, KindsType
  <2>3. isBeginningOfStream = TRUE /\ consuming = FALSE
    BY DEF Init
  <2>4. \A i \in 1..Len(Kinds(queue)) : FALSE
    BY <2>2
  <2>5. isBeginningOfStream \in BOOLEAN /\ consuming \in BOOLEAN
    BY <2>3
  <2>6. consuming <=> ~isBeginningOfStream
    BY <2>3
  <2> QED BY <2>2, <2>4, <2>5, <2>6, Zenon DEF SourceWhole, Whole
<1>2. ASSUME SourceWhole, Promise!Next \/ UNCHANGED Promise!sourceVars PROVE SourceWhole'
  BY <1>2, NextWhole DEF SourceWhole
<1>3. ASSUME SourceWhole PROVE Promise!EndsFollowData /\ Promise!EndIsDue
  <2> DEFINE q == Kinds(queue)
  <2>1. Whole(q, isBeginningOfStream, consuming)
    BY <1>3 DEF SourceWhole
  <2> HIDE DEF q
  <2>2. Len(q) \in Nat /\ DOMAIN q = 1..Len(q)
    BY <2>1 DEF Whole
  <2>3. \A i \in DOMAIN q : q[i] = "end" => IF i = 1 THEN consuming ELSE q[i - 1] = "data"
    BY <2>1, <2>2 DEF Whole
  <2>4. consuming => ~isBeginningOfStream \/ \E i \in DOMAIN q : q[i] = "end"
    <3> SUFFICES ASSUME consuming, isBeginningOfStream PROVE \E i \in DOMAIN q : q[i] = "end"
      BY DEF Whole
    <3>1. Len(q) # 0 /\ q[Len(q)] = "end"
      BY <2>1 DEF Whole
    <3>2. Len(q) \in DOMAIN q
      BY <2>2, <3>1
    <3> QED BY <3>1, <3>2
  <2>5. Promise!EndsFollowData
    BY <2>3, Zenon DEF Promise!EndsFollowData, q, Kinds
  <2>6. Promise!EndIsDue
    BY <2>4, Zenon DEF Promise!EndIsDue, q, Kinds
  <2> QED BY <2>5, <2>6
<1>4. Spec => Promise!Spec
  BY ImplementsChunkSourceCorrect DEF ImplementsChunkSource
<1>5. SourceWhole /\ [Promise!Next]_(Promise!sourceVars) => SourceWhole'
  BY <1>2
<1> QED BY <1>1, <1>3, <1>4, <1>5, PTL DEF Spec, Promise!Spec
=============================================================================
