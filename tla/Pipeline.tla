------------------------------- MODULE Pipeline -------------------------------
(***************************************************************************)
(* The Scheduler, whose task on the event loop moves chunks from the       *)
(* sources to the consumer, and the Multiplexor, which makes one producer  *)
(* of the sources.  Of a source there is what Source promises: its thread  *)
(* queues streams, each of some data chunks and an end; the part of it     *)
(* that runs on the event loop is modelled in full.                        *)
(*                                                                         *)
(* A turn of the task is not one step: the threads queue chunks between    *)
(* the polls of the same turn.                                             *)
(***************************************************************************)
EXTENDS Naturals, Sequences

CONSTANTS
    NumSources,  \* producers.size()
    Capacity,    \* chunks a queue has room for
    Quantum      \* chunks that one turn of the task processes (5)

ASSUME PipelineAssumption ==
    NumSources \in Nat \ {0} /\ Capacity \in Nat \ {0} /\ Quantum \in Nat \ {0}

VARIABLES
    queue,       \* of each source
    isBeginningOfStream,
    capturing,   \* the threads that run
    consuming,   \* of each source: a chunk was offered and no end consumed since
    running,     \* the sources' flag: started and not stopped
    consumer,    \* isRunning of the consumer
    index,       \* currentProducerIndex, counted from 1
    current,     \* currentProducer, 0 if none
    emptySwitches,
    task,        \* "none", "ready", "timer" while it waits, or "turn" while it runs
    left,        \* chunksToProcess
    delay,       \* delayProcessing: "none" or "pause"
    open         \* the source of the stream that the consumer has taken in part, 0 if none

sourceVars == <<queue, isBeginningOfStream, capturing, consuming>>
multiplexorVars == <<index, current, emptySwitches>>
schedulerVars == <<running, consumer, task, left, delay>>
vars == <<sourceVars, multiplexorVars, schedulerVars, open>>

Sources == 1..NumSources

Init ==
    /\ queue = [s \in Sources |-> <<>>]
    /\ isBeginningOfStream = [s \in Sources |-> TRUE]
    /\ capturing = [s \in Sources |-> FALSE]
    /\ consuming = [s \in Sources |-> FALSE]
    /\ running = FALSE /\ consumer = FALSE
    /\ index = 1 /\ current = 0 /\ emptySwitches = 0
    /\ task = "none" /\ left = 0 /\ delay = "none"
    /\ open = 0

-----------------------------------------------------------------------------
(* The sources' threads *)

HasRoom(s) == Len(queue[s]) < Capacity

\* A period with data: queued, or lost when the queue is full, which changes nothing.
CaptureData(s) ==
    /\ capturing[s]
    /\ HasRoom(s)
    /\ queue' = [queue EXCEPT ![s] = Append(@, "data")]
    /\ isBeginningOfStream' = [isBeginningOfStream EXCEPT ![s] = FALSE]
    /\ UNCHANGED <<capturing, consuming, multiplexorVars, schedulerVars, open>>

\* A period without data after a stream.
CaptureEnd(s) ==
    /\ capturing[s]
    /\ ~isBeginningOfStream[s] /\ HasRoom(s)
    /\ queue' = [queue EXCEPT ![s] = Append(@, "end")]
    /\ isBeginningOfStream' = [isBeginningOfStream EXCEPT ![s] = TRUE]
    /\ UNCHANGED <<capturing, consuming, multiplexorVars, schedulerVars, open>>

\* The thread of s ends because of an error of its device.
CaptureFails(s) ==
    /\ capturing[s]
    /\ capturing' = [capturing EXCEPT ![s] = FALSE]
    /\ UNCHANGED <<queue, isBeginningOfStream, consuming, multiplexorVars, schedulerVars, open>>

-----------------------------------------------------------------------------
(* Multiplexor *)

\* Mutant: the index grows beyond the last producer.
NextIndexUnbounded(i) == i + 1

\* switchToNextProducer.
NextIndex(i) == IF i = NumSources THEN 1 ELSE i + 1

\* produceChunk: the producer that is polled; the first poll switches to one.
Polled == IF current = 0 THEN NextIndex(index) ELSE index

\* The polled source has asked to be polled again, at once or after a pause.
Stay(pause) ==
    /\ index' = Polled /\ current' = Polled
    /\ emptySwitches' = 0
    /\ delay' = pause

\* Mutant: the switch is forgotten.
SwitchToSame ==
    /\ index' = Polled /\ current' = Polled
    /\ IF emptySwitches + 1 >= NumSources
         THEN emptySwitches' = 0 /\ delay' = "pause"
         ELSE emptySwitches' = emptySwitches + 1 /\ delay' = "none"

\* It has not: the next source is switched to, with a pause when this has happened as
\* often as there are sources.
Switch ==
    /\ index' = NextIndex(Polled) /\ current' = NextIndex(Polled)
    /\ IF emptySwitches + 1 >= NumSources
         THEN emptySwitches' = 0 /\ delay' = "pause"
         ELSE emptySwitches' = emptySwitches + 1 /\ delay' = "none"

-----------------------------------------------------------------------------
(* The polls of a turn *)

Polls ==
    /\ task = "turn" /\ left > 0 /\ delay = "none"
    /\ left' = left - 1

\* Mutant: a source without chunks is left in the middle of a stream.
UnderflowSwitches ==
    /\ Polls
    /\ queue[Polled] = <<>>
    /\ Switch
    /\ UNCHANGED <<sourceVars, running, consumer, task, open>>

\* The queue is empty: a source whose stream has not ended is not left.
Underflow ==
    /\ Polls
    /\ queue[Polled] = <<>>
    /\ IF consuming[Polled] THEN Stay("pause") ELSE Switch
    /\ UNCHANGED <<sourceVars, running, consumer, task, open>>

\* The consumer takes the chunk.  After the end of a stream the source is left.
Consume ==
    /\ Polls
    /\ consumer
    /\ LET p == Polled IN
       /\ queue[p] # <<>>
       /\ queue' = [queue EXCEPT ![p] = Tail(@)]
       /\ IF Head(queue[p]) = "end"
            THEN /\ consuming' = [consuming EXCEPT ![p] = FALSE]
                 /\ open' = 0
                 /\ Switch
            ELSE /\ consuming' = [consuming EXCEPT ![p] = TRUE]
                 /\ open' = p
                 /\ Stay("none")
    /\ UNCHANGED <<isBeginningOfStream, capturing, running, consumer, task>>

\* Mutant: a source whose chunk was refused is left.
RefuseSwitches ==
    /\ Polls
    /\ queue[Polled] # <<>>
    /\ consuming' = [consuming EXCEPT ![Polled] = TRUE]
    /\ Switch
    /\ UNCHANGED <<queue, isBeginningOfStream, capturing, running, consumer, task, open>>

\* The consumer does not take it, as it never does once it was stopped.
Refuse ==
    /\ Polls
    /\ queue[Polled] # <<>>
    /\ consuming' = [consuming EXCEPT ![Polled] = TRUE]
    /\ Stay("pause")
    /\ UNCHANGED <<queue, isBeginningOfStream, capturing, running, consumer, task, open>>

\* Scheduler::stop: the threads are stopped and waited for, then the consumer.
StopAll ==
    /\ running' = FALSE /\ consumer' = FALSE
    /\ capturing' = [s \in Sources |-> FALSE]

\* The consumer throws: everything is stopped and the turn is over.
Throw ==
    /\ Polls
    /\ consumer
    /\ queue[Polled] # <<>>
    /\ index' = Polled /\ current' = Polled
    /\ consuming' = [consuming EXCEPT ![Polled] = TRUE]
    /\ StopAll
    /\ task' = "none" /\ delay' = "none"
    /\ UNCHANGED <<queue, isBeginningOfStream, emptySwitches, open>>

-----------------------------------------------------------------------------
(* Scheduler *)

\* start is called once, before anything was polled.
Start ==
    /\ task = "none" /\ ~running /\ ~consumer
    /\ current = 0
    /\ running' = TRUE /\ consumer' = TRUE
    /\ capturing' = [s \in Sources |-> TRUE]
    /\ task' = "ready"
    /\ UNCHANGED <<queue, isBeginningOfStream, consuming, multiplexorVars, left, delay, open>>

\* Container::stop, between two handlers.
Stop ==
    /\ running
    /\ task # "turn"
    /\ StopAll
    /\ UNCHANGED <<queue, isBeginningOfStream, consuming, multiplexorVars, task, left, delay,
                   open>>

BeginTurn ==
    /\ task = "ready"
    /\ task' = "turn" /\ left' = Quantum /\ delay' = "none"
    /\ UNCHANGED <<sourceVars, multiplexorVars, running, consumer, open>>

Expire ==
    /\ task = "timer"
    /\ task' = "ready"
    /\ UNCHANGED <<sourceVars, multiplexorVars, running, consumer, left, delay, open>>

IsRunning == running \/ consumer

\* Mutant: the task is submitted again whatever has been stopped.
EndTurnAlways ==
    /\ task = "turn"
    /\ left = 0 \/ delay = "pause"
    /\ task' = IF delay = "pause" THEN "timer" ELSE "ready"
    /\ left' = 0 /\ delay' = "none"
    /\ UNCHANGED <<sourceVars, multiplexorVars, running, consumer, open>>

\* The end of processTask: it is submitted again, at once or after the pause.
EndTurn ==
    /\ task = "turn"
    /\ left = 0 \/ delay = "pause"
    /\ task' = IF ~IsRunning THEN "none" ELSE IF delay = "pause" THEN "timer" ELSE "ready"
    /\ left' = 0 /\ delay' = "none"
    /\ UNCHANGED <<sourceVars, multiplexorVars, running, consumer, open>>

-----------------------------------------------------------------------------
(* Specification *)

ProcessTask == BeginTurn \/ Expire \/ Underflow \/ Consume \/ Refuse \/ EndTurn

Next ==
    \/ \E s \in Sources : CaptureData(s) \/ CaptureEnd(s) \/ CaptureFails(s)
    \/ ProcessTask
    \/ Throw
    \/ Start
    \/ Stop

Spec == Init /\ [][Next]_vars

\* The event loop runs the task and its timer; a consumer that is offered chunks again
\* and again takes one in the end.
FairSpec ==
    /\ Spec
    /\ WF_vars(ProcessTask)
    /\ SF_vars(Consume)

-----------------------------------------------------------------------------
(* Properties *)

\* The variables stay in their types.
TypeOK ==
    /\ queue \in [Sources -> Seq({"data", "end"})]
    /\ \A s \in Sources : Len(queue[s]) <= Capacity
    /\ isBeginningOfStream \in [Sources -> BOOLEAN]
    /\ capturing \in [Sources -> BOOLEAN]
    /\ consuming \in [Sources -> BOOLEAN]
    /\ running \in BOOLEAN /\ consumer \in BOOLEAN
    /\ index \in Sources /\ current \in {0, index}
    /\ emptySwitches \in 0..(NumSources - 1)
    /\ task \in {"none", "ready", "timer", "turn"}
    /\ left \in 0..Quantum /\ delay \in {"none", "pause"}
    /\ open \in 0..NumSources

\* The consumer gets one stream at a time, whole: between the first chunk of a stream and
\* its end it is given no chunk of another source, and no end without a stream.
OneStreamAtATime ==
    [][\A s \in Sources :
          queue[s] # <<>> /\ queue'[s] = Tail(queue[s]) =>
              IF Head(queue[s]) = "end" THEN open = s ELSE open \in {0, s}]_vars

\* A chunk that was refused is the next that is offered: no other source is polled before
\* it was taken.  Streamer relies on this: some sessions have already taken the chunk.
RefusedIsNext ==
    [][\A s \in Sources :
          consuming[s] /\ consuming'[s] => current' = current]_vars

\* Every source gets its turn while all streams end.
Served ==
    (\A s \in Sources : []<>isBeginningOfStream[s])
        => \A s \in Sources : (running /\ queue[s] # <<>> ~> current = s \/ ~running)

\* The task goes on while anything runs, and ends after a stop.
PollsUntilStopped ==
    /\ running ~> task = "turn" \/ ~running
    /\ ~running /\ task # "none" ~> task = "none"
=============================================================================
