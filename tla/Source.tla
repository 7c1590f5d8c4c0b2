-------------------------------- MODULE Source --------------------------------
(***************************************************************************)
(* An alsa::Source: the producer thread that captures the periods of one   *)
(* device and queues the frames of the stream in them, and the event loop  *)
(* that offers the queue's chunks to a consumer and stops the thread.      *)
(*                                                                         *)
(* SlimPlexor marks every frame in its last channel.  A stream is played   *)
(* between a beginning and an end; the device gives silence without marks  *)
(* otherwise.  The queue is a BoundedFifo: RealTimeQueue implements it.    *)
(* What the event loop may rely on is ChunkSource.                         *)
(*                                                                         *)
(* What a program does that uses a device it has not opened, or has        *)
(* closed, is undefined: the model ends there.                             *)
(***************************************************************************)
EXTENDS Naturals, Sequences, FiniteSets

CONSTANTS
    Capacity,   \* chunks the queue has room for
    MaxFrames   \* frames of a period

ASSUME SourceAssumption == Capacity \in Nat \ {0} /\ MaxFrames \in Nat \ {0}

VARIABLES
    running,
    thread,      \* producer thread: "none", "starting", "reading", "closing" or "ended"
    handle,      \* the device: "null", "open", "dropped" (it gives no more data), "closed"
    producing,   \* the marks read so far say that a stream is being played
    isBeginningOfStream,  \* no chunk of the current stream has been queued
    queue,
    consuming,   \* a chunk was offered, and no end of stream consumed since
    loop,        \* event loop: "free", "joining" the thread in stop, or "stopped"
    undefined,   \* the call on a device that is not open, "none" so far
    stream,      \* what SlimPlexor plays: "none", a stream that had begun "before" the
                 \* device was read, or one that has "begun" since
    expected     \* frames of a stream that has begun in the last period

threadVars == <<running, thread, handle, loop, undefined>>
captureVars == <<producing, isBeginningOfStream, stream, expected>>
vars == <<threadVars, captureVars, queue, consuming>>

Markers == {"beginning", "end", "data", "none"}

Periods == UNION {[1..n -> Markers] : n \in 1..MaxFrames}

\* A chunk with its frames; a chunk without frames is the end of the stream.
Chunks == {[endOfStream |-> FALSE, frames |-> n] : n \in 1..MaxFrames}
          \cup {[endOfStream |-> TRUE, frames |-> 0]}

Chunk(n) == [endOfStream |-> FALSE, frames |-> n]
EndOfStream == [endOfStream |-> TRUE, frames |-> 0]

Init ==
    /\ running = FALSE /\ thread = "none" /\ handle = "null"
    /\ producing = FALSE /\ isBeginningOfStream = TRUE
    /\ queue = <<>> /\ consuming = FALSE
    /\ loop = "free" /\ undefined = "none"
    /\ stream \in {"none", "before"} /\ expected = 0

Defined == undefined = "none"

-----------------------------------------------------------------------------
(* Marks *)

\* A stream is being played after the first i frames of p, if one was before p or not.
InStream(p, i, before) ==
    \/ before /\ \A k \in 1..i : p[k] # "end"
    \/ \E k \in 1..i : p[k] = "beginning" /\ \A l \in k..i : p[l] # "end"

\* The frames of p with data of a stream.
StreamFrames(p, before) ==
    {i \in DOMAIN p : p[i] = "data" /\ InStream(p, i, before)}

\* containsData: the first frame with data of a stream.
IsOffset(p, i) ==
    /\ i \in StreamFrames(p, producing)
    /\ \A k \in StreamFrames(p, producing) : i <= k

\* Mutant: all of the period is scanned for marks before it is copied.
ScannedToEnd(p, offset) == InStream(p, Len(p), producing)

\* What containsData leaves in producing: it stops at the first frame with data.
Scanned(p, offset) == InStream(p, offset, producing)

\* copyData: the frames from the offset on, where the marks are looked at again.
Copied(p, offset) ==
    StreamFrames(SubSeq(p, offset, Len(p)), Scanned(p, offset))

AfterCopy(p, offset) ==
    LET rest == SubSeq(p, offset, Len(p))
    IN  InStream(rest, Len(rest), Scanned(p, offset))

-----------------------------------------------------------------------------
(* Producer thread *)

HasRoom == Len(queue) < Capacity

\* open, under deviceLock.  It may fail before the device is open, or after.
Open ==
    /\ Defined
    /\ thread = "starting"
    /\ \/ handle' = "open" /\ thread' = "reading"
       \/ handle' \in {"null", "open"} /\ thread' = "closing"
    /\ UNCHANGED <<running, loop, undefined, captureVars, queue, consuming>>

\* SlimPlexor plays p: there is no data outside of a stream.
Play(p) ==
    /\ \A i \in DOMAIN p : p[i] = "data" => InStream(p, i, stream # "none")
    /\ expected' = Cardinality(StreamFrames(p, stream = "begun"))
    /\ stream' = IF ~InStream(p, Len(p), stream # "none") THEN "none"
                 ELSE IF InStream(p, Len(p), stream = "begun") THEN "begun" ELSE "before"

\* A period with data of a stream is queued; when the queue is full it is lost, with
\* the marks that containsData has not come to.
ReadData(p, offset) ==
    /\ IsOffset(p, offset)
    /\ \/ /\ HasRoom
          /\ queue' = Append(queue, Chunk(Cardinality(Copied(p, offset))))
          /\ producing' = AfterCopy(p, offset)
          /\ isBeginningOfStream' = FALSE
       \/ /\ ~HasRoom
          /\ producing' = Scanned(p, offset)
          /\ UNCHANGED <<queue, isBeginningOfStream>>

\* Mutant: every period without data is taken for the end of a stream.
ReadSilenceAgain(p) ==
    /\ StreamFrames(p, producing) = {}
    /\ producing' = InStream(p, Len(p), producing)
    /\ IF HasRoom
         THEN queue' = Append(queue, EndOfStream) /\ isBeginningOfStream' = TRUE
         ELSE UNCHANGED <<queue, isBeginningOfStream>>

\* A period without data ends the stream; when the queue is full, the next one does.
ReadSilence(p) ==
    /\ StreamFrames(p, producing) = {}
    /\ producing' = InStream(p, Len(p), producing)
    /\ IF ~isBeginningOfStream /\ HasRoom
         THEN queue' = Append(queue, EndOfStream) /\ isBeginningOfStream' = TRUE
         ELSE UNCHANGED <<queue, isBeginningOfStream>>

\* One turn of the loop in produce.
Read ==
    /\ Defined
    /\ thread = "reading" /\ handle = "open"
    /\ \E p \in Periods :
         /\ Play(p)
         /\ ReadSilence(p) \/ \E offset \in DOMAIN p : ReadData(p, offset)
    /\ UNCHANGED <<threadVars, consuming>>

\* snd_pcm_readi fails: the device was dropped, or it has an error, of which restore
\* repairs none.
ReadFails ==
    /\ Defined
    /\ thread = "reading"
    /\ thread' = "closing"
    /\ UNCHANGED <<running, handle, loop, undefined, captureVars, queue, consuming>>

\* close, under deviceLock, whether open has succeeded or not.
Close ==
    /\ Defined
    /\ thread = "closing"
    /\ IF handle = "null"
         THEN undefined' = "close" /\ UNCHANGED <<thread, handle>>
         ELSE handle' = "closed" /\ thread' = "ended" /\ UNCHANGED undefined
    /\ UNCHANGED <<running, loop, captureVars, queue, consuming>>

-----------------------------------------------------------------------------
(* Event loop *)

Start ==
    /\ Defined
    /\ ~running /\ loop = "free"
    /\ running' = TRUE /\ thread' = "starting"
    /\ UNCHANGED <<handle, loop, undefined, captureVars, queue, consuming>>

\* Mutant: the end of a stream is consumed like any chunk.
ConsumeEndless ==
    /\ Defined
    /\ loop # "joining" /\ queue # <<>>
    /\ queue' = Tail(queue)
    /\ consuming' = TRUE
    /\ UNCHANGED <<threadVars, captureVars>>

\* producer: the consumer takes the first chunk.
Consume ==
    /\ Defined
    /\ loop # "joining" /\ queue # <<>>
    /\ queue' = Tail(queue)
    /\ consuming' = ~Head(queue).endOfStream
    /\ UNCHANGED <<threadVars, captureVars>>

\* producer: the consumer does not take it.
Refuse ==
    /\ Defined
    /\ loop # "joining" /\ queue # <<>>
    /\ consuming' = TRUE
    /\ UNCHANGED <<threadVars, captureVars, queue>>

\* Mutant: stop waits for the thread without telling it.
StopWithoutDrop ==
    /\ Defined
    /\ running /\ loop = "free"
    /\ running' = FALSE /\ loop' = "joining"
    /\ UNCHANGED <<thread, handle, undefined, captureVars, queue, consuming>>

\* stop: the device is dropped, under deviceLock, and the thread joined.
Stop ==
    /\ Defined
    /\ running /\ loop = "free"
    /\ \/ /\ handle = "open"
          /\ handle' = "dropped" /\ running' = FALSE /\ loop' = "joining"
          /\ UNCHANGED undefined
       \/ /\ handle # "open"
          /\ undefined' = "drop"
          /\ UNCHANGED <<handle, running, loop>>
    /\ UNCHANGED <<thread, captureVars, queue, consuming>>

Join ==
    /\ Defined
    /\ loop = "joining" /\ thread = "ended"
    /\ loop' = "stopped"
    /\ UNCHANGED <<running, thread, handle, undefined, captureVars, queue, consuming>>

-----------------------------------------------------------------------------
(* Specification *)

Produce == Open \/ Read \/ ReadFails \/ Close

Next == Produce \/ Start \/ Consume \/ Refuse \/ Stop \/ Join

Spec == Init /\ [][Next]_vars

\* The device delivers periods at its rate, and none when it was dropped; the thread
\* goes on; the consumer that is offered a chunk again and again takes it in the end.
FairSpec ==
    /\ Spec
    /\ WF_vars(Read)
    /\ WF_vars(Open)
    /\ WF_vars(ReadFails /\ handle = "dropped")
    /\ WF_vars(Close)
    /\ WF_vars(Consume)
    /\ WF_vars(Join)

-----------------------------------------------------------------------------
(* Properties *)

\* The variables stay in their types; the queue is never overdrawn.
TypeOK ==
    /\ running \in BOOLEAN
    /\ thread \in {"none", "starting", "reading", "closing", "ended"}
    /\ handle \in {"null", "open", "dropped", "closed"}
    /\ producing \in BOOLEAN /\ isBeginningOfStream \in BOOLEAN
    /\ queue \in Seq(Chunks) /\ Len(queue) <= Capacity
    /\ consuming \in BOOLEAN
    /\ loop \in {"free", "joining", "stopped"}
    /\ undefined \in {"none", "drop", "close"}
    /\ stream \in {"none", "before", "begun"}
    /\ expected \in 0..MaxFrames

\* The source is what the event loop takes it for: streams that are not empty, each with
\* one end, which is put off and not lost when the queue is full, and which the event loop
\* waits for only if it is due.  ChunkSource says what follows.
Promise == INSTANCE ChunkSource WITH
    queue <- [i \in DOMAIN queue |-> IF queue[i].endOfStream THEN "end" ELSE "data"],
    atBeginning <- isBeginningOfStream,
    capturing <- thread \in {"starting", "reading"}

ImplementsChunkSource == Promise!Spec

\* A chunk has the frames of the period that belong to streams whose beginning was read,
\* all of them and no other, although the period is looked through twice, and not to its
\* end when the queue is full.
FramesKept ==
    [][ /\ Len(queue') > Len(queue) => queue'[Len(queue')].frames = expected'
        /\ Read /\ expected' # 0 /\ Len(queue) < Capacity => Len(queue') > Len(queue) ]_vars

\* A stream that was consumed in part is consumed to its end once the device is silent.
EndDelivered ==
    <>[](expected = 0 /\ thread = "reading" /\ handle = "open")
        => (consuming ~> ~consuming)

\* stop does not wait for ever.
StopEnds == loop = "joining" ~> loop = "stopped"
=============================================================================
