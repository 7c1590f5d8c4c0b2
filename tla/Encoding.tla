------------------------------- MODULE Encoding -------------------------------
(***************************************************************************)
(* What becomes of the samples: the chunk at the head of a source's queue  *)
(* is encoded by one streaming session after the other, out of the one     *)
(* buffer they share, and what the encoders emit is cut into the buffers   *)
(* of each session's pool and transferred.                                 *)
(*                                                                         *)
(* The FLAC encoder works on the chunk itself: it clears the lowest byte   *)
(* of each sample where it is, and gives libFLAC the address of the second *)
(* byte, so that the 32 bits which libFLAC reads are the upper 24 of the   *)
(* sample and the lowest byte of the next.  A chunk that was refused stays *)
(* in the queue and is encoded later, by others after some.                *)
(*                                                                         *)
(* A byte is told by the chunk and the place it was captured at.  How a    *)
(* session stops and what refuses a chunk, at the granularity of handlers, *)
(* are in StreamingSession; the order of the sessions is Streamer's.       *)
(***************************************************************************)
EXTENDS Naturals, Sequences, SequencesExt

CONSTANTS
    Sessions,
    Channels,     \* of the chunk, the one of the marks taken out
    SampleSize,   \* bytes of a sample (4)
    BitsPerValue, \* of the device's format (32)
    BlockFrames,  \* frames of libFLAC's blocks
    PoolSize,     \* buffers of a session's pool (64)
    BufferSize,   \* samples that a buffer has room for
    Reserve,      \* buffers that are free when a chunk is accepted (10)
    MaxFrames,    \* bound: frames of a chunk
    MaxChunks     \* bound: chunks of the stream

ASSUME EncodingAssumption ==
    /\ Channels \in Nat \ {0} /\ SampleSize \in Nat \ {0} /\ BitsPerValue \in Nat
    /\ BlockFrames \in Nat \ {0} /\ BufferSize \in Nat \ {0}
    /\ PoolSize \in Nat \ {0} /\ Reserve \in 1..PoolSize
    /\ MaxFrames \in Nat \ {0} /\ MaxChunks \in Nat

VARIABLES
    format,   \* of all the sessions: "PCM" or "FLAC"
    chunk,    \* the chunk at the head of the queue: its number and its frames
    data,     \* the bytes of its buffer, which earlier chunks have used too
    waiting,  \* sessions it was not yet given to
    phase,    \* of a session: "new", "running", "stopped", which has its queue, or "flushed"
    pending,  \* samples that libFLAC keeps until it has a block of them
    queue,    \* buffers to be transferred, with the samples encoded in them
    sent,     \* history: samples that the client was sent
    provided  \* history: chunks that were encoded

sourceVars == <<chunk, data, waiting>>
sessionVars == <<phase, pending, queue, sent, provided>>
vars == <<format, sourceVars, sessionVars>>

FrameSize == SampleSize * Channels

Captured(n, i) == <<n, i>>   \* byte i of chunk n

Cleared == Captured(0, 0)

\* What libFLAC emits when a stream begins.
Header == [j \in 0..(SampleSize - 1) |-> Captured(0, 1)]

Init ==
    /\ format \in {"PCM", "FLAC"}
    /\ chunk = [number |-> 0, frames |-> 0]
    /\ data = [i \in 0..(MaxFrames * FrameSize - 1) |-> Cleared]
    /\ waiting = {}
    /\ phase = [s \in Sessions |-> "new"]
    /\ pending = [s \in Sessions |-> <<>>]
    /\ queue = [s \in Sessions |-> <<>>]
    /\ sent = [s \in Sessions |-> <<>>]
    /\ provided = [s \in Sessions |-> <<>>]

-----------------------------------------------------------------------------
(* flac::Encoder *)

DownScale == BitsPerValue > 24

\* The lowest byte of each sample of the chunk is cleared.
DownScaled ==
    [i \in DOMAIN data |->
        IF i < chunk.frames * FrameSize /\ i % SampleSize = 0 THEN Cleared ELSE data[i]]

\* The n samples that libFLAC reads from an address on.
Samples(bytes, address, n) ==
    [k \in 1..n |->
        [j \in 0..(SampleSize - 1) |-> bytes[address + (k - 1) * SampleSize + j]]]

\* The last frame without its first byte, and with a cleared one at its end.
LastFrame(bytes) ==
    [j \in 0..(FrameSize - 1) |->
        IF j = FrameSize - 1 THEN Cleared
                             ELSE bytes[(chunk.frames - 1) * FrameSize + j + 1]]

\* Mutant: the last frame is taken like the others, with the byte behind the chunk.
ShiftedToEnd(bytes) ==
    Samples([i \in 0..(MaxFrames * FrameSize) |->
                IF i \in DOMAIN bytes THEN bytes[i] ELSE Cleared],
            1, chunk.frames * Channels)

\* What is given to process_interleaved: all frames but the last, then the last.
Shifted(bytes) ==
    Samples(bytes, 1, (chunk.frames - 1) * Channels) \o Samples(LastFrame(bytes), 0, Channels)

\* libFLAC emits whole blocks, and keeps the rest.
BlockSize == BlockFrames * Channels

Blocks(samples) ==
    [b \in 1..(Len(samples) \div BlockSize) |->
        SubSeq(samples, (b - 1) * BlockSize + 1, b * BlockSize)]

Rest(samples) ==
    SubSeq(samples, (Len(samples) \div BlockSize) * BlockSize + 1, Len(samples))

-----------------------------------------------------------------------------
(* The encoded callback of a streaming session *)

Available(buffers) == PoolSize - Len(buffers)

\* The buffers that encoded samples are cut into.
Cut(samples) ==
    [b \in 1..((Len(samples) + BufferSize - 1) \div BufferSize) |->
        SubSeq(samples, (b - 1) * BufferSize + 1, Min({b * BufferSize, Len(samples)}))]

\* Mutant: the pool gives more buffers than it has.
PushedAll(buffers, samples) == buffers \o Cut(samples)

\* As many as the pool has are filled; the rest of the samples is skipped.
Pushed(buffers, samples) ==
    buffers \o SubSeq(Cut(samples), 1, Min({Available(buffers), Len(Cut(samples))}))

-----------------------------------------------------------------------------
(* Actions *)

\* The source queues a chunk and it is offered, first to all sessions that run.
Produce(frames) ==
    /\ waiting = {}
    /\ chunk.number < MaxChunks
    /\ chunk' = [number |-> chunk.number + 1, frames |-> frames]
    /\ data' = [i \in DOMAIN data |->
                  IF i < frames * FrameSize THEN Captured(chunk.number + 1, i) ELSE data[i]]
    /\ waiting' = {s \in Sessions : phase[s] = "running"}
    /\ UNCHANGED <<format, sessionVars>>

\* The session is created and its encoder started.
Start(s) ==
    /\ phase[s] = "new"
    /\ phase' = [phase EXCEPT ![s] = "running"]
    /\ queue' = [queue EXCEPT ![s] = IF format = "FLAC" THEN Pushed(@, <<Header>>) ELSE @]
    /\ UNCHANGED <<format, sourceVars, pending, sent, provided>>

Accepts(s) == s \in waiting /\ Reserve <= Available(queue[s])

Provided(s) ==
    /\ waiting' = waiting \ {s}
    /\ provided' = [provided EXCEPT ![s] = Append(@, chunk)]
    /\ UNCHANGED <<format, chunk, phase, sent>>

\* wave::Encoder: the chunk as it is, in one piece.
EncodePCM(s) ==
    /\ format = "PCM"
    /\ Accepts(s)
    /\ queue' = [queue EXCEPT ![s] = Pushed(@, Samples(data, 0, chunk.frames * Channels))]
    /\ Provided(s)
    /\ UNCHANGED <<data, pending>>

\* flac::Encoder: the chunk is changed, and as many blocks as there are emitted.
EncodeFLAC(s) ==
    /\ format = "FLAC"
    /\ Accepts(s)
    /\ data' = IF DownScale THEN DownScaled ELSE data
    /\ LET samples == pending[s] \o Shifted(data') IN
         /\ queue' = [queue EXCEPT ![s] = FoldLeft(Pushed, @, Blocks(samples))]
         /\ pending' = [pending EXCEPT ![s] = Rest(samples)]
    /\ Provided(s)

\* stop, for whatever reason: the encoder emits what it has kept.
Stop(s) ==
    /\ phase[s] = "running"
    /\ phase' = [phase EXCEPT ![s] = "stopped"]
    /\ queue' = [queue EXCEPT ![s] = Pushed(@, pending[s])]
    /\ pending' = [pending EXCEPT ![s] = <<>>]
    /\ waiting' = waiting \ {s}
    /\ UNCHANGED <<format, chunk, data, sent, provided>>

\* A buffer was written, and goes back to the pool.
Transfer(s) ==
    /\ queue[s] # <<>>
    /\ sent' = [sent EXCEPT ![s] = @ \o Head(queue[s])]
    /\ queue' = [queue EXCEPT ![s] = Tail(@)]
    /\ UNCHANGED <<format, sourceVars, phase, pending, provided>>

\* What is still queued when a stopped session has no transfer in progress is discarded.
Flush(s) ==
    /\ phase[s] = "stopped"
    /\ phase' = [phase EXCEPT ![s] = "flushed"]
    /\ queue' = [queue EXCEPT ![s] = <<>>]
    /\ UNCHANGED <<format, sourceVars, pending, sent, provided>>

Next ==
    \/ \E frames \in 1..MaxFrames : Produce(frames)
    \/ \E s \in Sessions :
         Start(s) \/ EncodePCM(s) \/ EncodeFLAC(s) \/ Stop(s) \/ Transfer(s) \/ Flush(s)

Spec == Init /\ [][Next]_vars

-----------------------------------------------------------------------------
(* Properties *)

Bytes == {Cleared, Captured(0, 1)}
           \cup {Captured(n, i) : n \in 1..MaxChunks, i \in 0..(MaxFrames * FrameSize - 1)}

IsSamples(q) == \A k \in DOMAIN q : q[k] \in [0..(SampleSize - 1) -> Bytes]

\* The variables stay in their types; no session has more buffers than its pool, and none
\* is filled beyond its size.
TypeOK ==
    /\ format \in {"PCM", "FLAC"}
    /\ chunk \in [number : 0..MaxChunks, frames : 0..MaxFrames]
    /\ data \in [0..(MaxFrames * FrameSize - 1) -> Bytes]
    /\ waiting \subseteq Sessions
    /\ phase \in [Sessions -> {"new", "running", "stopped", "flushed"}]
    /\ \A s \in Sessions :
         /\ IsSamples(pending[s]) /\ Len(pending[s]) < BlockSize
         /\ IsSamples(sent[s])
         /\ Len(queue[s]) <= PoolSize
         /\ \A b \in DOMAIN queue[s] :
              IsSamples(queue[s][b]) /\ Len(queue[s][b]) \in 1..BufferSize

\* The samples of a chunk as they were captured: all of each as PCM, the upper 24 bits as
\* FLAC.
CapturedSamples(c) ==
    [k \in 1..(c.frames * Channels) |->
        [j \in 0..(SampleSize - 1) |->
            IF format = "PCM" THEN Captured(c.number, (k - 1) * SampleSize + j)
            ELSE IF j = SampleSize - 1 THEN Cleared
            ELSE Captured(c.number, (k - 1) * SampleSize + j + 1)]]

Expected(s) ==
    (IF format = "FLAC" THEN <<Header>> ELSE <<>>)
        \o FlattenSeq([i \in DOMAIN provided[s] |-> CapturedSamples(provided[s][i])])

\* Every session is sent the samples of the chunks it took as they were captured, in
\* order and without a gap, although others have worked on the same buffer before, it is
\* longer than the chunk, and blocks and buffers are cut elsewhere than chunks; a running
\* session misses none, one that is stopped may lose the last ones only.
Lossless ==
    \A s \in Sessions \ {t \in Sessions : phase[t] = "new"} :
        LET emitted == sent[s] \o FlattenSeq(queue[s])
        IN  /\ phase[s] = "running" => emitted \o pending[s] = Expected(s)
            /\ IsPrefix(emitted, Expected(s))
=============================================================================
