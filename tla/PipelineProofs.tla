---------------------------- MODULE PipelineProofs ----------------------------
(***************************************************************************)
(* Proofs about Pipeline, for every number of sources, every queue and     *)
(* every quantum: the variables keep their types, the consumer gets one    *)
(* stream at a time, and a chunk that was refused is the next offered.     *)
(*                                                                         *)
(* The source whose stream was taken in part is the current one, and the   *)
(* Multiplexor leaves no source that is being consumed; what the threads   *)
(* have queued since says whether an end may come first.                   *)
(***************************************************************************)
EXTENDS Pipeline, SequenceTheorems, TLAPS

-----------------------------------------------------------------------------
(* The inductive invariant *)

\* Only the current source has been offered a chunk of a stream that was not ended, and
\* the stream that was taken in part is its.
Current ==
    /\ \A s \in Sources : consuming[s] => current = s
    /\ open # 0 => consuming[open]

\* In the queue of s an end follows data, or comes first in a stream that is open.
Ended(s) ==
    \A i \in 1..Len(queue[s]) :
        queue[s][i] = "end" => IF i = 1 THEN open = s ELSE queue[s][i - 1] = "data"

\* What the thread of s knows: whether a stream was begun that it has not ended.
Owed(s) ==
    /\ Len(queue[s]) = 0 => (open = s <=> ~isBeginningOfStream[s])
    /\ Len(queue[s]) # 0 => (queue[s][Len(queue[s])] = "end" <=> isBeginningOfStream[s])

Whole == \A s \in Sources : Ended(s) /\ Owed(s)

IInv == TypeOK /\ Current /\ Whole

Kinds == {"data", "end"}

\* The type of each variable, apart.
LEMMA Types ==
    ASSUME TypeOK
    PROVE  /\ queue \in [Sources -> Seq(Kinds)]
           /\ \A s \in Sources : Len(queue[s]) <= Capacity /\ Len(queue[s]) \in Nat
           /\ isBeginningOfStream \in [Sources -> BOOLEAN]
           /\ capturing \in [Sources -> BOOLEAN]
           /\ consuming \in [Sources -> BOOLEAN]
           /\ index \in Sources /\ current \in {0, index}
           /\ emptySwitches \in 0..(NumSources - 1)
           /\ left \in 0..Quantum /\ open \in 0..NumSources
<1>1. queue \in [Sources -> Seq(Kinds)]
  BY DEF TypeOK, Kinds
<1>2. \A s \in Sources : Len(queue[s]) \in Nat
  BY <1>1, LenProperties
<1> QED BY <1>1, <1>2 DEF TypeOK

\* The next index is one of a source.
LEMMA NextIndexType == ASSUME NEW i \in Sources PROVE NextIndex(i) \in Sources
BY PipelineAssumption DEF NextIndex, Sources

\* So is the polled one, which is the current one if there is any.
LEMMA PolledType ==
    ASSUME TypeOK
    PROVE  Polled \in Sources /\ (current # 0 => Polled = current)
<1>1. index \in Sources /\ current \in {0, index}
  BY Types
<1>2. NextIndex(index) \in Sources
  BY <1>1, NextIndexType
<1> QED BY <1>1, <1>2 DEF Polled

\* A source that is being consumed is the one that is polled.
LEMMA ConsumingPolled ==
    ASSUME TypeOK, Current, NEW s \in Sources, consuming[s]
    PROVE  current = s /\ Polled = s
<1>1. current = s /\ s # 0
  BY PipelineAssumption DEF Current, Sources
<1> QED BY <1>1, PolledType

\* A poll that stays keeps the Multiplexor's variables in their types.
LEMMA StayType ==
    ASSUME TypeOK, NEW pause \in {"none", "pause"}, Stay(pause)
    PROVE  /\ index' \in Sources /\ current' = index' /\ current' = Polled
           /\ emptySwitches' \in 0..(NumSources - 1) /\ delay' \in {"none", "pause"}
BY PolledType, PipelineAssumption DEF Stay

\* So does one that switches.
LEMMA SwitchType ==
    ASSUME TypeOK, Switch
    PROVE  /\ index' \in Sources /\ current' = index'
           /\ emptySwitches' \in 0..(NumSources - 1) /\ delay' \in {"none", "pause"}
<1>1. emptySwitches \in 0..(NumSources - 1)
  BY Types
<1>2. index' \in Sources /\ current' = index'
  BY PolledType, NextIndexType DEF Switch
<1>3. emptySwitches' \in 0..(NumSources - 1) /\ delay' \in {"none", "pause"}
  BY <1>1, PipelineAssumption DEF Switch
<1> QED BY <1>2, <1>3

\* A poll is counted.
LEMMA PollsType ==
    ASSUME TypeOK, Polls
    PROVE  left' \in 0..Quantum
<1>1. left \in 0..Quantum
  BY Types
<1> QED BY <1>1, PipelineAssumption DEF Polls

-----------------------------------------------------------------------------
(* Initial states *)

\* The initial states are of the invariant.
LEMMA InitIInv == Init => IInv
<1> SUFFICES ASSUME Init PROVE IInv
  OBVIOUS
<1>1. TypeOK
  <2>1. \A s \in Sources : queue[s] = <<>>
    BY DEF Init
  <2>2. queue \in [Sources -> Seq({"data", "end"})]
    BY DEF Init
  <2>3. \A s \in Sources : Len(queue[s]) <= Capacity
    BY <2>1, PipelineAssumption
  <2>4. index \in Sources /\ current \in {0, index} /\ emptySwitches \in 0..(NumSources - 1)
        /\ left \in 0..Quantum /\ open \in 0..NumSources
    BY PipelineAssumption DEF Init, Sources
  <2>5. /\ isBeginningOfStream \in [Sources -> BOOLEAN] /\ capturing \in [Sources -> BOOLEAN]
        /\ consuming \in [Sources -> BOOLEAN]
    BY DEF Init
  <2> QED BY <2>2, <2>3, <2>4, <2>5, Zenon DEF Init, TypeOK
<1>2. Current
  BY DEF Init, Current
<1>3. Whole
  <2> SUFFICES ASSUME NEW s \in Sources PROVE Ended(s) /\ Owed(s)
    BY DEF Whole
  <2>1. queue[s] = <<>> /\ isBeginningOfStream[s] = TRUE /\ open = 0 /\ s # 0
    BY PipelineAssumption DEF Init, Sources
  <2> QED BY <2>1 DEF Ended, Owed
<1> QED BY <1>1, <1>2, <1>3 DEF IInv

-----------------------------------------------------------------------------
(* The sources' threads *)

\* A queue that is left alone stays whole, unless its stream is opened or closed.
LEMMA WholeStays ==
    ASSUME NEW s \in Sources, Ended(s), Owed(s),
           queue'[s] = queue[s], isBeginningOfStream'[s] = isBeginningOfStream[s],
           open' = s <=> open = s
    PROVE  Ended(s)' /\ Owed(s)'
BY DEF Ended, Owed

\* A chunk that is queued keeps the queue whole: an end follows data, or comes first in
\* the stream that is open.
LEMMA CaptureIInv ==
    ASSUME IInv, NEW s \in Sources, NEW kind \in Kinds,
           HasRoom(s), kind = "end" => ~isBeginningOfStream[s],
           queue' = [queue EXCEPT ![s] = Append(@, kind)],
           isBeginningOfStream' = [isBeginningOfStream EXCEPT ![s] = (kind = "end")],
           UNCHANGED <<capturing, consuming, multiplexorVars, schedulerVars, open>>
    PROVE  IInv'
<1>1. /\ queue \in [Sources -> Seq(Kinds)] /\ queue[s] \in Seq(Kinds)
      /\ Len(queue[s]) \in Nat /\ Len(queue[s]) < Capacity
      /\ isBeginningOfStream \in [Sources -> BOOLEAN]
  BY Types DEF IInv, HasRoom
<1>2. /\ queue'[s] \in Seq(Kinds) /\ Len(queue'[s]) = Len(queue[s]) + 1
      /\ \A i \in 1..Len(queue[s]) : queue'[s][i] = queue[s][i]
      /\ queue'[s][Len(queue[s]) + 1] = kind
  <2>1. queue'[s] = Append(queue[s], kind)
    BY <1>1
  <2> QED BY <1>1, <2>1, AppendProperties
<1>3. \A t \in Sources \ {s} : /\ queue'[t] = queue[t]
                               /\ isBeginningOfStream'[t] = isBeginningOfStream[t]
  BY <1>1
<1>4. isBeginningOfStream'[s] = (kind = "end")
  BY <1>1
<1>5. TypeOK'
  <2>1. queue' \in [Sources -> Seq({"data", "end"})]
    BY <1>1, <1>2 DEF Kinds
  <2>2. \A t \in Sources : Len(queue'[t]) <= Capacity
    <3> SUFFICES ASSUME NEW t \in Sources PROVE Len(queue'[t]) <= Capacity
      OBVIOUS
    <3>1. CASE t = s
      BY <1>1, <1>2, <3>1, PipelineAssumption
    <3>2. CASE t # s
      BY <1>3, <3>2, Types DEF IInv
    <3> QED BY <3>1, <3>2
  <2>3. isBeginningOfStream' \in [Sources -> BOOLEAN]
    <3>1. (kind = "end") \in BOOLEAN
      BY Zenon
    <3> QED BY <1>1, <3>1, Zenon
  <2> QED BY <2>1, <2>2, <2>3, Zenon DEF IInv, TypeOK, multiplexorVars, schedulerVars
<1>6. Current'
  BY DEF IInv, Current, multiplexorVars
<1>7. Whole'
  <2> SUFFICES ASSUME NEW t \in Sources PROVE Ended(t)' /\ Owed(t)'
    BY DEF Whole
  <2>1. Ended(t) /\ Owed(t)
    BY DEF IInv, Whole
  <2>2. CASE t # s
    BY <1>3, <2>1, <2>2, WholeStays
  <2>3. CASE t = s
    <3>1. Owed(s)'
      <4>1. Len(queue'[s]) # 0 /\ queue'[s][Len(queue'[s])] = kind
        BY <1>1, <1>2
      <4> QED BY <1>4, <4>1, Zenon DEF Owed
    <3>2. ASSUME NEW i \in 1..Len(queue'[s]), queue'[s][i] = "end"
          PROVE  IF i = 1 THEN open = s ELSE queue'[s][i - 1] = "data"
      <4>1. i \in 1..(Len(queue[s]) + 1)
        BY <1>2
      <4>2. CASE i \in 1..Len(queue[s])
        <5>1. queue[s][i] = "end"
          BY <1>2, <3>2, <4>2
        <5>2. IF i = 1 THEN open = s ELSE queue[s][i - 1] = "data"
          BY <2>1, <2>3, <4>2, <5>1 DEF Ended
        <5>3. i # 1 => i - 1 \in 1..Len(queue[s])
          BY <1>1, <4>2
        <5> QED BY <1>2, <5>2, <5>3
      <4>3. CASE i = Len(queue[s]) + 1
        <5>1. ~isBeginningOfStream[s]
          BY <1>2, <3>2, <4>3
        <5>2. CASE Len(queue[s]) = 0
          BY <2>1, <2>3, <4>3, <5>1, <5>2 DEF Owed
        <5>3. CASE Len(queue[s]) # 0
          <6>1. queue[s][Len(queue[s])] # "end" /\ Len(queue[s]) \in 1..Len(queue[s])
            BY <1>1, <2>1, <2>3, <5>1, <5>3 DEF Owed
          <6>2. queue[s][Len(queue[s])] = "data"
            BY <1>1, <6>1, ElementOfSeq DEF Kinds
          <6> QED BY <1>1, <1>2, <4>3, <5>3, <6>1, <6>2
        <5> QED BY <5>2, <5>3
      <4> QED BY <1>1, <4>1, <4>2, <4>3
    <3>3. Ended(s)'
      BY <3>2 DEF Ended
    <3> QED BY <2>3, <3>1, <3>3
  <2> QED BY <2>2, <2>3
<1> QED BY <1>5, <1>6, <1>7 DEF IInv

\* Nothing but a thread's beginning or end, or the Scheduler's state.
LEMMA SchedulerIInv ==
    ASSUME IInv, UNCHANGED <<queue, isBeginningOfStream, consuming, multiplexorVars, open>>,
           TypeOK'
    PROVE  IInv'
<1>1. Current'
  BY DEF IInv, Current, multiplexorVars
<1>2. Whole'
  <2> SUFFICES ASSUME NEW s \in Sources PROVE Ended(s)' /\ Owed(s)'
    BY DEF Whole
  <2> QED BY WholeStays DEF IInv, Whole
<1> QED BY <1>1, <1>2 DEF IInv

-----------------------------------------------------------------------------
(* The polls *)

\* A source without chunks is left only if no stream of it is open.
LEMMA UnderflowIInv == ASSUME IInv, Underflow PROVE IInv'
<1>1. /\ UNCHANGED <<queue, isBeginningOfStream, capturing, consuming>>
      /\ UNCHANGED <<running, consumer, task, open>>
      /\ Polls /\ IF consuming[Polled] THEN Stay("pause") ELSE Switch
  BY DEF Underflow, sourceVars
<1>2. TypeOK /\ Current
  BY DEF IInv
<1>3. /\ index' \in Sources /\ current' = index'
      /\ emptySwitches' \in 0..(NumSources - 1) /\ delay' \in {"none", "pause"}
  BY <1>1, <1>2, StayType, SwitchType
<1>4. left' \in 0..Quantum
  BY <1>1, <1>2, PollsType
<1>5. TypeOK'
  BY <1>1, <1>2, <1>3, <1>4 DEF TypeOK
<1>6. Current'
  <2>1. ASSUME NEW s \in Sources, consuming[s] PROVE current' = s
    <3>1. Polled = s
      BY <1>2, <2>1, ConsumingPolled
    <3>2. Stay("pause")
      BY <1>1, <2>1, <3>1
    <3> QED BY <3>1, <3>2 DEF Stay
  <2> QED BY <1>1, <1>2, <2>1 DEF Current
<1>7. Whole'
  <2> SUFFICES ASSUME NEW s \in Sources PROVE Ended(s)' /\ Owed(s)'
    BY DEF Whole
  <2> QED BY <1>1, WholeStays DEF IInv, Whole
<1> QED BY <1>5, <1>6, <1>7 DEF IInv

\* A chunk that is refused or thrown at is offered again: its source stays the current one.
LEMMA OfferedCurrent ==
    ASSUME IInv, open' = open, current' = Polled,
           consuming' = [consuming EXCEPT ![Polled] = TRUE]
    PROVE  Current' /\ consuming' \in [Sources -> BOOLEAN]
<1>1. consuming \in [Sources -> BOOLEAN] /\ Polled \in Sources /\ open \in 0..NumSources
  BY Types, PolledType DEF IInv
<1>2. ASSUME NEW s \in Sources, consuming'[s] PROVE current' = s
  <2>1. CASE s = Polled
    BY <2>1
  <2>2. CASE s # Polled
    <3>1. consuming[s]
      BY <1>1, <1>2, <2>2
    <3> QED BY <2>2, <3>1, ConsumingPolled DEF IInv
  <2> QED BY <2>1, <2>2
<1>3. ASSUME open # 0 PROVE consuming'[open]
  <2>1. open \in Sources /\ consuming[open]
    BY <1>1, <1>3, PipelineAssumption DEF IInv, Current, Sources
  <2> QED BY <1>1, <2>1
<1>4. consuming' \in [Sources -> BOOLEAN]
  BY <1>1
<1> QED BY <1>2, <1>3, <1>4 DEF Current

\* A chunk that is refused changes nothing but what is offered next.
LEMMA RefuseIInv == ASSUME IInv, Refuse PROVE IInv'
<1>1. /\ UNCHANGED <<queue, isBeginningOfStream, capturing, running, consumer, task, open>>
      /\ Polls /\ Stay("pause") /\ consuming' = [consuming EXCEPT ![Polled] = TRUE]
  BY DEF Refuse
<1>2. TypeOK
  BY DEF IInv
<1>3. /\ index' \in Sources /\ current' = index' /\ current' = Polled
      /\ emptySwitches' \in 0..(NumSources - 1) /\ delay' \in {"none", "pause"}
  BY <1>1, <1>2, StayType
<1>4. left' \in 0..Quantum
  BY <1>1, <1>2, PollsType
<1>5. Current' /\ consuming' \in [Sources -> BOOLEAN]
  BY <1>1, <1>3, OfferedCurrent
<1>6. TypeOK'
  BY <1>1, <1>2, <1>3, <1>4, <1>5 DEF TypeOK
<1>7. Whole'
  <2> SUFFICES ASSUME NEW s \in Sources PROVE Ended(s)' /\ Owed(s)'
    BY DEF Whole
  <2> QED BY <1>1, WholeStays DEF IInv, Whole
<1> QED BY <1>5, <1>6, <1>7 DEF IInv

\* Nor does one that the consumer throws at, though everything is stopped.
LEMMA ThrowIInv == ASSUME IInv, Throw PROVE IInv'
<1>1. /\ UNCHANGED <<queue, isBeginningOfStream, emptySwitches, open>>
      /\ Polls /\ consuming' = [consuming EXCEPT ![Polled] = TRUE]
      /\ index' = Polled /\ current' = Polled
      /\ running' = FALSE /\ consumer' = FALSE
      /\ capturing' = [s \in Sources |-> FALSE]
      /\ task' = "none" /\ delay' = "none"
  BY DEF Throw, StopAll
<1>2. TypeOK
  BY DEF IInv
<1>3. index' \in Sources /\ current' = index'
  BY <1>1, <1>2, PolledType
<1>4. left' \in 0..Quantum
  BY <1>1, <1>2, PollsType
<1>5. Current' /\ consuming' \in [Sources -> BOOLEAN]
  BY <1>1, OfferedCurrent
<1>6. TypeOK'
  BY <1>1, <1>2, <1>3, <1>4, <1>5 DEF TypeOK
<1>7. Whole'
  <2> SUFFICES ASSUME NEW s \in Sources PROVE Ended(s)' /\ Owed(s)'
    BY DEF Whole
  <2> QED BY <1>1, WholeStays DEF IInv, Whole
<1> QED BY <1>5, <1>6, <1>7 DEF IInv

\* What the consumer is given: a chunk of the stream that is open, or the first of one.
LEMMA TakenChunk ==
    ASSUME IInv, queue[Polled] # <<>>
    PROVE  /\ open \in {0, Polled}
           /\ Head(queue[Polled]) = queue[Polled][1] /\ queue[Polled][1] \in Kinds
           /\ queue[Polled][1] = "end" => open = Polled
<1>1. /\ Polled \in Sources /\ queue[Polled] \in Seq(Kinds)
      /\ Len(queue[Polled]) \in Nat /\ open \in 0..NumSources
  BY Types, PolledType DEF IInv
<1>2. 1 \in 1..Len(queue[Polled])
  BY <1>1, EmptySeq
<1>3. queue[Polled][1] \in Kinds
  BY <1>1, <1>2, ElementOfSeq
<1>4. Head(queue[Polled]) = queue[Polled][1]
  OBVIOUS
<1>5. ASSUME open # 0 PROVE open = Polled
  <2>1. open \in Sources /\ consuming[open]
    BY <1>1, <1>5, PipelineAssumption DEF IInv, Current, Sources
  <2> QED BY <2>1, ConsumingPolled DEF IInv
<1>6. queue[Polled][1] = "end" => open = Polled
  BY <1>1, <1>2 DEF IInv, Whole, Ended
<1> QED BY <1>3, <1>4, <1>5, <1>6

\* What is left of a queue is whole, and its first chunk is no end unless its stream is
\* open.
LEMMA TailWhole ==
    ASSUME IInv, NEW s \in Sources, queue[s] # <<>>, queue'[s] = Tail(queue[s]),
           isBeginningOfStream'[s] = isBeginningOfStream[s],
           open' = IF queue[s][1] = "end" THEN 0 ELSE s
    PROVE  Ended(s)' /\ Owed(s)'
<1>1. /\ queue[s] \in Seq(Kinds) /\ Len(queue[s]) \in Nat /\ s # 0
      /\ Ended(s) /\ Owed(s)
  BY Types, PipelineAssumption DEF IInv, Whole, Sources
<1>2. /\ Len(queue[s]) # 0 /\ Len(queue'[s]) = Len(queue[s]) - 1
      /\ \A i \in 1..Len(queue'[s]) : queue'[s][i] = queue[s][i + 1]
  BY <1>1, HeadTailProperties, EmptySeq
<1>3. open' = s <=> queue[s][1] # "end"
  BY <1>1
<1>4. Owed(s)'
  <2>1. queue[s][Len(queue[s])] = "end" <=> isBeginningOfStream[s]
    BY <1>1, <1>2 DEF Owed
  <2>2. CASE Len(queue'[s]) = 0
    <3>1. Len(queue[s]) = 1
      BY <1>1, <1>2, <2>2
    <3>2. open' = s <=> ~isBeginningOfStream[s]
      BY <1>3, <2>1, <3>1
    <3> QED BY <2>2, <3>2, Zenon DEF Owed
  <2>3. CASE Len(queue'[s]) # 0
    <3>0. ASSUME NEW n \in Nat, NEW m, n # 0, m = n - 1, m # 0
          PROVE  m \in 1..m /\ m + 1 = n
      BY <3>0
    <3>1. /\ Len(queue'[s]) \in 1..Len(queue'[s])
          /\ Len(queue'[s]) + 1 = Len(queue[s])
      BY <1>1, <1>2, <2>3, <3>0, Zenon
    <3>2. queue'[s][Len(queue'[s])] = queue[s][Len(queue[s])]
      BY <1>2, <3>1
    <3> QED BY <2>1, <2>3, <3>2, Zenon DEF Owed
  <2> QED BY <2>2, <2>3
<1>5. ASSUME NEW i \in 1..Len(queue'[s]), queue'[s][i] = "end"
      PROVE  IF i = 1 THEN open' = s ELSE queue'[s][i - 1] = "data"
  <2>1. /\ i + 1 \in 1..Len(queue[s]) /\ i + 1 # 1 /\ i + 1 - 1 = i
        /\ queue[s][i + 1] = "end"
    BY <1>1, <1>2, <1>5
  <2>2. queue[s][i] = "data"
    BY <1>1, <2>1 DEF Ended
  <2>3. i # 1 => i - 1 \in 1..Len(queue'[s]) /\ queue'[s][i - 1] = queue[s][i]
    BY <1>1, <1>2
  <2> QED BY <1>3, <2>2, <2>3
<1>6. Ended(s)'
  BY <1>5 DEF Ended
<1> QED BY <1>4, <1>6

\* A chunk that is taken opens the stream of its source, or closes it.
LEMMA ConsumeIInv == ASSUME IInv, Consume PROVE IInv'
<1> DEFINE p == Polled
<1>1. TypeOK /\ Current /\ Whole
  BY DEF IInv
<1>2. /\ Polls /\ queue[p] # <<>> /\ queue' = [queue EXCEPT ![p] = Tail(@)]
      /\ UNCHANGED <<isBeginningOfStream, capturing, running, consumer, task>>
  BY DEF Consume
<1>3. /\ p \in Sources /\ p \in 1..NumSources /\ p # 0
      /\ queue \in [Sources -> Seq(Kinds)] /\ consuming \in [Sources -> BOOLEAN]
  BY <1>1, Types, PolledType, PipelineAssumption DEF Sources
<1>4. /\ open \in {0, p} /\ Head(queue[p]) = queue[p][1]
      /\ queue[p][1] = "end" => open = p
  BY <1>2, TakenChunk
<1> DEFINE Polling == /\ index' \in Sources /\ current' = index'
                      /\ emptySwitches' \in 0..(NumSources - 1)
                      /\ delay' \in {"none", "pause"}
<1>5. ASSUME queue[p][1] = "end"
      PROVE  /\ Polling /\ Current'
             /\ consuming' \in [Sources -> BOOLEAN] /\ open' = 0
  <2>1. consuming' = [consuming EXCEPT ![p] = FALSE] /\ open' = 0 /\ Switch
    BY <1>4, <1>5 DEF Consume
  <2>2. Polling
    BY <1>1, <2>1, SwitchType
  <2> HIDE DEF p, Polling
  <2>3. \A s \in Sources : ~consuming'[s]
    <3> SUFFICES ASSUME NEW s \in Sources, consuming'[s] PROVE FALSE
      OBVIOUS
    <3>1. s # p /\ consuming[s]
      BY <1>3, <2>1
    <3> QED BY <1>1, <3>1, ConsumingPolled DEF p
  <2> QED BY <1>3, <2>1, <2>2, <2>3 DEF Current
<1>6. ASSUME queue[p][1] # "end"
      PROVE  /\ Polling /\ Current'
             /\ consuming' \in [Sources -> BOOLEAN] /\ open' = p
  <2>1. consuming' = [consuming EXCEPT ![p] = TRUE] /\ open' = p /\ Stay("none")
    BY <1>4, <1>6 DEF Consume
  <2>2. Polling /\ current' = p
    BY <1>1, <2>1, StayType
  <2> HIDE DEF p, Polling
  <2>3. \A s \in Sources : consuming'[s] => current' = s
    <3> SUFFICES ASSUME NEW s \in Sources, consuming'[s], s # p PROVE FALSE
      BY <2>2
    <3>1. consuming[s]
      BY <1>3, <2>1
    <3> QED BY <1>1, <3>1, ConsumingPolled DEF p
  <2> QED BY <1>3, <2>1, <2>2, <2>3 DEF Current
<1> HIDE DEF p
<1>7. open' = IF queue[p][1] = "end" THEN 0 ELSE p
  BY <1>5, <1>6
<1>8. queue'[p] = Tail(queue[p]) /\ \A s \in Sources \ {p} : queue'[s] = queue[s]
  BY <1>2, <1>3
<1>9. Whole'
  <2> SUFFICES ASSUME NEW s \in Sources PROVE Ended(s)' /\ Owed(s)'
    BY DEF Whole
  <2>1. CASE s = p
    BY <1>2, <1>3, <1>7, <1>8, <2>1, TailWhole
  <2>2. CASE s # p
    <3>1. open # s /\ open' # s
      BY <1>3, <1>4, <1>7, <2>2, PipelineAssumption DEF Sources
    <3> QED BY <1>1, <1>2, <1>8, <2>2, <3>1, WholeStays DEF Whole
  <2> QED BY <2>1, <2>2
<1>10. TypeOK'
  <2>1. queue[p] \in Seq(Kinds) /\ Len(queue[p]) <= Capacity /\ Len(queue[p]) \in Nat
    BY <1>1, <1>3, Types
  <2>2. queue'[p] \in Seq(Kinds) /\ Len(queue'[p]) <= Capacity
    <3>0. queue[p] # <<>>
      BY <1>2
    <3>1. Tail(queue[p]) \in Seq(Kinds) /\ Len(Tail(queue[p])) = Len(queue[p]) - 1
      BY <2>1, <3>0, HeadTailProperties
    <3> QED BY <1>8, <2>1, <3>1, PipelineAssumption
  <2>3. queue' \in [Sources -> Seq({"data", "end"})]
    BY <1>2, <1>3, <1>8, <2>2 DEF Kinds
  <2>4. \A s \in Sources : Len(queue'[s]) <= Capacity
    BY <1>1, <1>8, <2>2, Types
  <2>5. open' \in 0..NumSources
    BY <1>3, <1>7, PipelineAssumption
  <2>6. left' \in 0..Quantum
    BY <1>1, <1>2, PollsType
  <2> QED BY <1>1, <1>2, <1>5, <1>6, <2>3, <2>4, <2>5, <2>6, Zenon DEF TypeOK
<1> QED BY <1>9, <1>10, <1>5, <1>6 DEF IInv

-----------------------------------------------------------------------------
(* The invariant and what follows *)

\* No step leaves the invariant.
LEMMA NextIInv == ASSUME IInv, [Next]_vars PROVE IInv'
<1>1. ASSUME NEW s \in Sources, CaptureData(s)
      PROVE  IInv'
  <2>1. "data" \in Kinds /\ (("data" = "end") = FALSE)
    BY DEF Kinds
  <2>2. /\ HasRoom(s) /\ queue' = [queue EXCEPT ![s] = Append(@, "data")]
        /\ isBeginningOfStream' = [isBeginningOfStream EXCEPT ![s] = ("data" = "end")]
        /\ UNCHANGED <<capturing, consuming, multiplexorVars, schedulerVars, open>>
    BY <1>1, <2>1 DEF CaptureData
  <2> QED BY <1>1, <2>1, <2>2, CaptureIInv
<1>2. ASSUME NEW s \in Sources, CaptureEnd(s)
      PROVE  IInv'
  <2>1. "end" \in Kinds /\ (("end" = "end") = TRUE)
    BY DEF Kinds
  <2>2. /\ HasRoom(s) /\ ~isBeginningOfStream[s]
        /\ queue' = [queue EXCEPT ![s] = Append(@, "end")]
        /\ isBeginningOfStream' = [isBeginningOfStream EXCEPT ![s] = ("end" = "end")]
        /\ UNCHANGED <<capturing, consuming, multiplexorVars, schedulerVars, open>>
    BY <1>2, <2>1 DEF CaptureEnd
  <2> QED BY <1>2, <2>1, <2>2, CaptureIInv
<1>3. ASSUME NEW s \in Sources, CaptureFails(s)
      PROVE  IInv'
  <2>1. capturing' \in [Sources -> BOOLEAN]
    BY <1>3, Types DEF CaptureFails, IInv
  <2>2. TypeOK'
    BY <1>3, <2>1, Zenon DEF CaptureFails, IInv, TypeOK, multiplexorVars, schedulerVars
  <2> QED BY <1>3, <2>2, SchedulerIInv DEF CaptureFails
<1>4. ASSUME \/ BeginTurn
             \/ Expire
             \/ EndTurn
      PROVE  IInv'
  <2>1. UNCHANGED <<queue, isBeginningOfStream, consuming, capturing, multiplexorVars,
                    running, consumer, open>>
    BY <1>4 DEF BeginTurn, Expire, EndTurn, sourceVars
  <2>2. /\ task' \in {"none", "ready", "timer", "turn"} /\ left' \in 0..Quantum
        /\ delay' \in {"none", "pause"}
    <3>1. left \in 0..Quantum /\ delay \in {"none", "pause"}
      BY DEF IInv, TypeOK
    <3> QED BY <1>4, <3>1, PipelineAssumption DEF BeginTurn, Expire, EndTurn
  <2>3. TypeOK'
    BY <2>1, <2>2, Zenon DEF IInv, TypeOK, multiplexorVars
  <2> QED BY <2>1, <2>3, SchedulerIInv
<1>5. ASSUME Start \/ Stop
      PROVE  IInv'
  <2>1. UNCHANGED <<queue, isBeginningOfStream, consuming, multiplexorVars, left, delay, open>>
    BY <1>5 DEF Start, Stop
  <2>2. /\ capturing' \in [Sources -> BOOLEAN]
        /\ running' \in BOOLEAN /\ consumer' \in BOOLEAN
        /\ task' \in {"none", "ready", "timer", "turn"}
    BY <1>5 DEF Start, Stop, StopAll, IInv, TypeOK
  <2>3. TypeOK'
    BY <2>1, <2>2, Zenon DEF IInv, TypeOK, multiplexorVars
  <2> QED BY <2>1, <2>3, SchedulerIInv
<1>6. ASSUME UNCHANGED vars
      PROVE  IInv'
  <2>1. TypeOK'
    BY <1>6, Zenon DEF IInv, TypeOK, vars, sourceVars, multiplexorVars, schedulerVars
  <2> QED BY <1>6, <2>1, SchedulerIInv DEF vars, sourceVars, schedulerVars
<1> QED BY <1>1, <1>2, <1>3, <1>4, <1>5, <1>6, UnderflowIInv, ConsumeIInv, RefuseIInv,
           ThrowIInv, Zenon DEF Next, ProcessTask

\* The invariant holds in every state.
LEMMA IInvCorrect == Spec => []IInv
<1> QED BY InitIInv, NextIInv, PTL DEF Spec

\* The variables keep their types: no queue is overdrawn, and the Multiplexor's index stays
\* within its sources and is that of the current one.
THEOREM PipelineTypeCorrect == Spec => []TypeOK
<1>1. IInv => TypeOK
  BY DEF IInv
<1> QED BY <1>1, IInvCorrect, PTL

\* Which queues lose a chunk: the polled one, when the consumer takes it.
LEMMA TakenFrom ==
    ASSUME IInv, [Next]_vars,
           NEW s \in Sources, queue[s] # <<>>, queue'[s] = Tail(queue[s])
    PROVE  Consume /\ s = Polled
<1>1. /\ queue \in [Sources -> Seq(Kinds)] /\ queue[s] \in Seq(Kinds)
      /\ Len(queue[s]) \in Nat /\ Polled \in Sources
  BY Types, PolledType DEF IInv
<1>2. Len(queue'[s]) = Len(queue[s]) - 1
  BY <1>1, HeadTailProperties
<1>3. queue'[s] # queue[s]
  <2>1. \A n \in Nat : n - 1 # n
    OBVIOUS
  <2> QED BY <1>1, <1>2, <2>1, Zenon
<1>4. ASSUME NEW t \in Sources, NEW kind \in Kinds, queue' = [queue EXCEPT ![t] = Append(@, kind)]
      PROVE  FALSE
  <2>1. CASE t = s
    <3>1. queue'[s] = Append(queue[s], kind)
      BY <1>1, <1>4, <2>1
    <3>2. Len(queue'[s]) = Len(queue[s]) + 1
      BY <1>1, <3>1, AppendProperties
    <3> QED BY <1>1, <1>2, <3>2
  <2>2. CASE t # s
    BY <1>1, <1>3, <1>4, <2>2
  <2> QED BY <2>1, <2>2
<1>5. \A t \in Sources : ~CaptureData(t) /\ ~CaptureEnd(t)
  BY <1>4 DEF CaptureData, CaptureEnd, Kinds
<1>6. queue' # queue
  BY <1>3
<1>7. Consume
  BY <1>5, <1>6, Zenon DEF Next, ProcessTask, CaptureFails, BeginTurn, Expire, Underflow,
       Refuse, EndTurn, Throw, Start, Stop, vars, sourceVars
<1>8. queue' = [queue EXCEPT ![Polled] = Tail(@)]
  BY <1>7 DEF Consume
<1> QED BY <1>1, <1>3, <1>7, <1>8

\* The consumer gets one stream at a time, whole, for every number of sources, every queue
\* and every quantum: after the first chunk of a stream it is given no chunk of another
\* source before the end, whatever the threads queue between two polls and wherever a turn
\* of the task ends, a consumer refuses or a source runs dry.
THEOREM OneStreamAtATimeCorrect == Spec => OneStreamAtATime
<1> DEFINE One == \A s \in Sources :
                    queue[s] # <<>> /\ queue'[s] = Tail(queue[s]) =>
                      IF Head(queue[s]) = "end" THEN open = s ELSE open \in {0, s}
<1>1. ASSUME IInv, [Next]_vars PROVE [One]_vars
  <2> SUFFICES ASSUME NEW s \in Sources, queue[s] # <<>>, queue'[s] = Tail(queue[s])
               PROVE  IF Head(queue[s]) = "end" THEN open = s ELSE open \in {0, s}
    OBVIOUS
  <2>1. s = Polled
    BY <1>1, TakenFrom
  <2> QED BY <1>1, <2>1, TakenChunk
<1>2. Spec => [][One]_vars
  BY <1>1, IInvCorrect, PTL DEF Spec
<1> QED BY <1>2 DEF OneStreamAtATime

\* A chunk that was refused is the next that is offered, for every number of sources: the
\* Multiplexor does not leave a source that is being consumed, in this turn of the task or
\* in a later one.
THEOREM RefusedIsNextCorrect == Spec => RefusedIsNext
<1> DEFINE Next1 == \A s \in Sources : consuming[s] /\ consuming'[s] => current' = current
<1>1. ASSUME IInv, [Next]_vars PROVE [Next1]_vars
  <2> SUFFICES ASSUME NEW s \in Sources, consuming[s], consuming'[s]
               PROVE  current' = current
    OBVIOUS
  <2>1. TypeOK /\ current = s /\ Polled = s /\ consuming \in [Sources -> BOOLEAN]
    BY <1>1, ConsumingPolled, Types DEF IInv
  <2>2. CASE Underflow
    BY <2>1, <2>2 DEF Underflow, Stay
  <2>3. CASE Consume
    <3>1. Head(queue[Polled]) # "end"
      BY <2>1, <2>3 DEF Consume
    <3> QED BY <2>1, <2>3, <3>1 DEF Consume, Stay
  <2>4. CASE Refuse
    BY <2>1, <2>4 DEF Refuse, Stay
  <2>5. CASE Throw
    BY <2>1, <2>5 DEF Throw
  <2>6. CASE UNCHANGED multiplexorVars
    BY <2>6 DEF multiplexorVars
  <2> QED BY <1>1, <2>2, <2>3, <2>4, <2>5, <2>6, Zenon
          DEF Next, ProcessTask, CaptureData, CaptureEnd, CaptureFails, BeginTurn, Expire,
              EndTurn, Start, Stop, vars
<1>2. Spec => [][Next1]_vars
  BY <1>1, IInvCorrect, PTL DEF Spec
<1> QED BY <1>2 DEF RefusedIsNext
=============================================================================
