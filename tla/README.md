# SlimStreamer in TLA+

A model of [SlimStreamer](../src), a multi-room audio server that speaks SlimProto:
it captures PCM from ALSA loopback devices (one per sampling rate), encodes it and
streams it to every connected Squeezebox client so that they all play in step.

1. [Inventory](#inventory) - the system's parts
2. [Modules](#modules) - which module models what, and how
3. [Runs](#runs) - what TLC checks, with which bounds
4. [Proofs](#proofs) - what TLAPS proves, and along which argument
5. [Findings](#findings) - where the code and its words differ
6. [Not modelled](#not-modelled), and the [plan](#plan)

To check a module: `tlc -config streamer.cfg MCStreamer`; to check the proofs of a
module: `tlapm StreamerProofs.tla`.

## Inventory

Threads: one *producer thread* per ALSA device, one *event loop* thread (the
conwrap2 processor) on which everything else runs as handlers, and *main*, which starts
the program, waits for a signal and stops it. A producer shares a `RealTimeQueue` with the
event loop, and main the flag `schedulerRunning` and the queue of handlers.

```
 ALSA --(producer thread)--> Source/RealTimeQueue --(event loop)--> Multiplexor
                                                                      |
   SlimProto clients <--TCP--> Server/Connection <--> Streamer <-- Scheduler
                      (3483: commands, 9000: HTTP)      |
                                       CommandSession *-+-* StreamingSession
```

| Component | State | Operations | Correct if |
|---|---|---|---|
| `RealTimeQueue` | slots, `_head`, `_tail` | `enqueue`, `dequeue`, on two threads without a lock | it is a bounded FIFO; the threads never use one slot together |
| `alsa::Source` | queue, `running`, `producing`, `consuming`, device handle | `start`, `stop`, `produce` (thread), `produceChunk`, `skipChunk` | a stream is delivered as data chunks closed by one end-of-stream chunk, also when the queue overflows |
| `Multiplexor` | current producer, empty switches | `produceChunk`, `start`, `stop` | a source is left only after its stream's end; every source gets its turn |
| `Scheduler` | task timer | `start`, `stop`, `processTask` | the head of the queue is offered until it is consumed; at most 5 chunks per turn |
| `Streamer` | state machine, rate, `streamedChunks`, maps of sessions, chunk sequence per session | `consumeChunk`, `stop`, open/data/close of SlimProto and HTTP connections | sessions stay in step through refusals, joins and leaves; clients start together; each stream ends and the next can begin |
| `CommandSession` | state machine, `streamingSession` reference, `clientBufferIsReady`, time offset, probes, command ring | `prepare`, `consumeChunk`, `stop`, HELO, STAT, DSCO, RESP, SETD | follows the Streamer; its reference never dangles; every stream it takes part in ends for it |
| `StreamingSession` | `running`, `transferring`, transfer queue, buffer pool, flush timer | `start`, `consumeChunk`, `stop`, transfer callbacks | what the encoder produced reaches the client in order; it ends after `stop` |
| `tcp::Server`, `tcp::Connection` | acceptor, connections, `opened` | accept, open, data, close, stop, removal | one connection waits for clients while below the limit; no handler outlives its connection |
| `udp::Server` | socket, one buffer | `start`, `stop`, receive, answer | waits for one datagram at a time until stopped |
| `InboundCommand`, `Ring`, `BufferPool` | ring, pool | framing of commands, allocation | a command is delivered once, however TCP cuts it |
| `Container`, `SlimStreamer.cpp` | main's loops, `schedulerRunning` | `start`, `stop`, polls | the TCP servers stop after the Scheduler; main ends, and nothing it destroys still runs |
| `flac::Encoder`, `wave::Encoder` | `running`, `downScale`, libFLAC's block | `start`, `encode`, `stop` | every session is sent the samples of the chunk, although they encode one buffer |
| `Demultiplexor`, `FileConsumer`, writers | consumers, current one, `bytesWritten`, files | `consumeChunk`, `start`, `stop`, headers | what is consumed is in the file of its rate |
| logging | - | - | - |

How they interact. The Scheduler's task asks the Multiplexor for a chunk; the current
Source takes the head of its queue and hands it, through the call, to
`Streamer::consumeChunk`; only if that returns true is the chunk removed. `consumeChunk`
calls `CommandSession::consumeChunk` for every session, which calls
`StreamingSession::consumeChunk` through a reference kept in the session. That
reference is set by `onHTTPData` and reset by `onHTTPClose`, both of which find the
command session by client ID. Clients answer commands with STAT events, which are the
events of the session's state machine.

What is hard: a session may refuse a chunk that others took; clients connect,
disconnect and open their HTTP connection at any point of a stream; Draining ends only
through a chain of closes and messages; a removed object may still be referred to by a
handler, a timer or the other session; the two threads of a queue see each other's
counter late. `PROJECT.json` lists the hazards at their lines.

## Modules

| Module | Models | Proofs |
|---|---|---|
| `Streamer` | `Streamer`, `CommandSession` (its state machine), `StreamingSession` as a phase | `StreamerProofs` |
| `MCStreamer` | its instances for TLC | |
| `BoundedFifo` | what `RealTimeQueue` promises (abstract) | |
| `RealTimeQueue` | `RealTimeQueue`, atomic access by atomic access | `RealTimeQueueProofs` |
| `AudioStream` | what a streaming session promises (abstract) | |
| `StreamingSession` | `StreamingSession` with its connection, handler by handler | `StreamingSessionProofs` |
| `TcpServer` | `tcp::Server`, `tcp::Connection` on the event loop | `ContainerProofs` |
| `Container` | `Container`, main and `udp::Server`, with one `TcpServer` | `ContainerProofs` |
| `Encoding` | the encoders, and the buffers that what they emit is cut into | `EncodingProofs` |
| `FileDump` | `Demultiplexor`, `FileConsumer` and how main creates them | |
| `ChunkSource` | what a source promises the event loop (abstract) | `SourceProofs` |
| `Source` | `alsa::Source`: the producer thread, the device, the marks | `SourceProofs` |
| `Pipeline` | `Multiplexor` and `Scheduler` over several sources | `PipelineProofs` |
| `CommandSession` | the commands of `CommandSession` over `Ring`, and its latency probes | `CommandSessionProofs` |

### Streamer

One action is one handler, run to its end, as on the event loop. The variables are the
members of `Streamer` (`state`, `samplingRate`, `streamedChunks`; `deferExpired` is the
comparison of `preparingStartedAt` with 2000 ms), one record per command session
(`sess`) and per streaming session (`http`), and the chunk at the head of the
producer's queue. A session's `conn` says whether it is in the `commandSessions` map.

`ConsumeChunk` is the whole of `consumeChunk`. The code falls from one state to the
next inside one call (Started -> Preparing -> Buffering -> Playing -> Draining ->
Started), so the action is a composition of stages `Begin`, `Buffer`, `Play`,
`StreamChunk`, `Count`, `Drain`, `Flush`; each maps the call so far to the next, and
its guard is the guard of the transition. `full` is the set of streaming sessions that
have fewer than 10 free buffers in this call; only those in `Slow` ever have.

`streamedFrames` is merged with `streamedChunks`: it is reset and increased with it, and
is only compared with the 2000 ms of buffering (`MinBuffered` chunks).

What clients do is part of the model where the server depends on it. A client requests
a stream only after a Start command and includes its ID; it answers a Stop with STMf
and sends STMf for nothing else; it reports STMu only after it was unpaused and when
the HTTP connections it had are closed; it sends nothing over a connection the server
has stopped. DSCO, RESP, SETD and the other STAT events change no state that matters
here. A client ID belongs to one session forever (`++nextID`); when the server stops a
command connection, its close callback comes later (`conn = "closing"`).

Abstracted: the probes of `onSTMt` (the time offset becomes known or not; `CommandSession`
models how), the volume
and the playback times sent to the clients, and inside of `StreamingSession` (`phase`):
*running* until `stop`, *flushing* until the flush callback clears `running`, *stopped*
until the connection's close callback. `StreamingSession` models what is behind them.

### RealTimeQueue

A step is one access to shared memory. `enqueue` is `EnqueueLoad` (the acquire load of
`_tail` with the check), `EnqueueMoved` (the mover writes the slot; `None` stands for a
slot that is half written) and `EnqueueStore` (the release store of `_head`), or
`EnqueueOverflow`; `dequeue` likewise. An acquire load may return an old value:
`Loads(seen, current)` are the values between what the thread saw last and what is
stored now. This is what release/acquire on a counter with one writer allows.
`_head` and `_tail` are taken modulo `Wrap`, which stands for 2^64, and `Slot` is the
masking; the model needs only that `Wrap` is a multiple of `Size`.

`BoundedFifo` is the promise: a queue of `Size - 1` items, the first of which is lent
to the consumer, who takes it or leaves it. `ImplementsFifo` is the refinement, with the
slots between tail and head as the queue.

### StreamingSession

One session, its encoder as far as it fills buffers, and the connection it writes to.
`ready` is the event loop's queue of handlers, first in, first out; the network appends
completions (`WriteEnds`, `PeerCloses`), a timer its handler (`Expire`), and `Run` runs
the first one. Calls that come from the Scheduler's task or the Streamer (`ConsumeChunk`,
`ConsumeLastChunk`, `StopSession`, `Request`) happen between any two handlers, because
those tasks stand anywhere in the queue. A buffer is a number; `queue` holds those that
wait, `writing` is the one the socket reads from, and the pool has what is not in the
queue. `Flush` is the body of `flush` with the callback it captures: *none* from `stop`,
*erase* from `removeSession`; `timers` are the pending flush timers in the order in
which they were set, which, all being of 1 ms, is the order in which they expire. The
connection goes through the states of `TcpServer` (open, failing, closed, removed).

`net::async_write` transfers all of a buffer or fails, so the branch of the write
callback for a part of a buffer is never taken and is left out. A write error and a
success do the same in the callback, which only logs the difference.

A handler that runs on a deleted session or connection is undefined behaviour,
modelled as the end of the program (`undefined`).

`AudioStream` is the promise: phases that only go forward and buffers that are received
in order. Its phases are those of `Streamer`: `phase` maps the flags of the session to
*running*, *flushing*, *stopped* and *free* (deleted, or no longer referred to because
the close callback has run, although the session may still be flushing then).

### TcpServer

`ready` is the event loop's queue of handlers. Completions (`Accepted`, `Refused`,
`ReadFails`) append a handler to it whenever they like; `Run` runs the first one. A
Connection object goes through none, accepting, accepted or refused (the accept has
completed, its handler has not run), open, failing (its read has completed with an
error), closed, and none again when it is removed two handlers later. Data that
arrives changes nothing here. The dereference of a null acceptor is undefined
behaviour, modelled as the end of the program (`crashed`). The module has the server's
part of a state and no specification of its own: `Container` extends it, starts and stops
the server and runs its handlers between those of the program.

### Container

`main` and the event loop are two processes over one queue of handlers. main submits the
start, waits for the signal (`Signal` submits the stop), then submits a poll every 50 ms
(`SubmitPoll`) until it reads that the Scheduler does not run (`Leave`); a poll is a handler
that writes what it found (`Poll`). main may read an old value, so a poll may be submitted
after the flag was written. `Start` may fail half-way, as it does when a port is taken: the
exception is logged and what was started stays. `Stop` stops the discovery server and
tells the threads to stop; `Join` stands for the wait for them (`Source` shows that it
ends), and stops the Streamer, which submits `Callback`, which stops the TCP server.
`SchedulerFails` is the error handler of the Scheduler, which stops it without a callback.
When main has left, the processor is destroyed, and its thread may run some more handlers
before it ends (`LoopEnds`).

The command server and the streaming server do the same at the same times, so one
`TcpServer` stands for either. The discovery server is modelled with each of its receives:
posted by `StartDiscovery` and by every answer, aborted by `StopDiscovery`, and failed at
any time.

### Encoding

The state is the one buffer of the chunk at the head of a source's queue, byte for byte,
and for each session libFLAC's unfinished block, the transfer queue and what was sent. A
byte is named by its chunk and its place, so that any byte that is moved, lost, repeated or
left over from an earlier chunk can be seen. `EncodeFLAC` is `encode` of `flac::Encoder`: it
clears the lowest byte of each sample in the chunk itself (`DownScaled`), lets libFLAC read
all frames but the last one byte further (`Samples` at address 1), and copies the last
frame (`LastFrame`), which has no byte behind it. `EncodePCM` is that of `wave::Encoder`.
`Pushed` is the encoded callback: it cuts what it gets into buffers, and skips the rest
when the pool has none left. All sessions have one format, which main chooses.

libFLAC is taken to be what it promises: it emits its header at `init`, whole blocks as it
gets them, and the rest at `finish`. `Transfer` and `Flush` are the transfers of
`StreamingSession`, a whole buffer at a time. A chunk is given to one session after the
other, and to those that refused it later; which ones is free here and is `Streamer`'s
matter.

### FileDump

The steps of main up to the Demultiplexor, one call of `Demultiplexor::consumeChunk` with
`FileConsumer::consumeChunk` and the encoder (`ConsumeChunk`, `ConsumeEnd`), `stop`, and the
destructors, which write the headers again. What a moved vector holds is nothing
(`MoveProducers`), and no encoder is ever started (`encoding`), because
`FileConsumer::start` sets its own flag only.

### Source

Two processes: the producer thread (`Open`, `Read`, `ReadFails`, `Close`) and the event
loop (`Start`, `Consume`, `Refuse`, `Stop`, `Join`). The queue is a sequence because
`RealTimeQueue` implements `BoundedFifo`; what a step puts in or takes out is therefore
atomic. `Read` is one turn of the loop in `produce`: a period is a sequence of marks, and
`ReadData` and `ReadSilence` are the two branches. `containsData` looks for the first frame
of a stream and changes `producing` on its way (`Scanned`); `copyData` starts there and goes
over the rest again (`Copied`, `AfterCopy`), but only inside of the mover, so a period that
finds the queue full leaves the rest of its marks unread. `StreamFrames` gives the frames
that both call data of a stream. `expected` and `stream` are what SlimPlexor really
plays (`Play`): they do not belong to the program, and the properties compare it with them.
A stream may have begun before the device was opened; its mark is not seen then and its
frames belong to nobody.

`stop` is two steps, as the thread goes on between them: the drop under `deviceLock`, and
the end of the thread. A device is *null*, *open*, *dropped* or *closed*; a call that ALSA
does not define for it ends the program (`undefined`): a drop of a null or closed handle,
and a close of one that `snd_pcm_open` has not set. `restore` repairs nothing, so any error
of the device ends the thread, with `running` still set.

`ChunkSource` is the promise: a bounded queue of data and ends, `atBeginning` for
`isBeginningOfStream`, and `consuming`. `Source` implements it under a refinement mapping
that forgets the device, the marks and the frames. That the streams in it are not empty,
have one end each, and that the event loop never waits for an end nobody owes, is what
`ChunkSource` says of them (`EndsFollowData`, `EndIsDue`), and is proved of `Source` through
the refinement, for every capacity.

### Pipeline

The event loop's half of the sources in full, their threads as far as `Source` promises:
data, then an end, if there is room (`CaptureData`, `CaptureEnd`). A turn of the
Scheduler's task is several steps, `BeginTurn`, one poll for each chunk and `EndTurn`,
because the threads queue chunks meanwhile. A poll is one call of
`Multiplexor::produceChunk` with all it calls: `Underflow`, `Consume`, `Refuse` or `Throw`.
`Polled` is the source it asks; `Stay` and `Switch` are what the Multiplexor does with a
result and without. The pauses of 10 and 100 ms are one (`delay`). The consumption of an
end of stream counts as an *empty switch* as in the code, so that a pause may follow it
although other sources have chunks. `open` is the source whose stream the consumer has
taken in part; it is there for the properties. The consumer refuses everything once
stopped, as `Streamer::consumeChunk` does. `Scheduler::start` is called once, as
`Container` does.

### CommandSession

A client sends commands, TCP cuts them anywhere (`Receive` takes any number of units up to
what a connection reads at once), and `onRequest` pushes them to the ring and goes through
it. A unit stands for the four bytes of a label, for those of a size, or for the data: less
than four of them is as good as nothing to the code. The ring is concrete, with its head,
its size, and cells that keep what was popped. One call of `onRequest` is `Receive`, a
`Handle` for each command and `Leave`; no other handler runs as long as `processing` is set.
A heartbeat of the client's own is an STMt of probe zero.

`probes{13}` is a vector of 13 probes without values, so the first `push_back` doubles its
capacity, and "enough samples" (size equal to capacity) comes after 13 pings, with indices
13 to 25; every series after that is one of 26. `Grown` is that doubling. While playing, a
series that lacks an accurate duration goes on, and the vector grows. `timeOffset` keeps
what kind of probe it was calculated from: *measured*, *disturbed* (another command came
between the ping and its answer) or *zero* (without values).

Left out: commands whose size contradicts their type, which throw and clear the ring, and
the deletion of the session while a ping handler is ready. `StartPlaying` and
`StopPlaying` are what the Streamer does with the session.

## Runs

| Run | Expect | Shows |
|---|---|---|
| `streamer` | pass | streams are delivered whole, clients start together and end for everybody, with connects, handshakes, disconnects and streams in any order |
| `streamer_slow` | pass | the sessions stay in step when one refuses chunks; Preparing and Draining end |
| `streamer_end_refused` | violation | see [Findings](#findings) |
| `realtimequeue` | pass | no slot is shared, the queue implements `BoundedFifo` |
| `session` | pass | buffers are transferred in order, one at a time, none is stuck, skipped or reused while it is written; the phases are those `Streamer` relies on; flush and removal end |
| `session_removed` | violation | see [Findings](#findings) |
| `container` | pass | from start to end, with ports that are taken, a signal at any moment and clients that come and go: no handler outlives its connection; a server that runs accepts, or a removal to come lets it; the discovery server waits for one datagram; everything stops in order, main ends and the connections are removed |
| `source` | pass | chunks hold the frames of the stream and no other; the source implements `ChunkSource`; an end is delivered although the queue overflows; `stop` ends |
| `pipeline` | pass | one whole stream at a time, a refused chunk next, every source in its turn; the task polls until it is stopped |
| `commands` | pass | however TCP cuts them and wherever the ring wraps, commands are put together right and none waits; there is one chain of probes from the first HELO on; the time offset comes from undisturbed probes, and becomes known |
| `encoding` | pass | however sessions take turns on the one buffer, late, refusing or stopping, each is sent the samples of the chunks it took, in order, to the last byte |
| `files` | violation | see [Findings](#findings) |

Bounds, and why they are enough:

- *Streamer*: two clients and two HTTP connections: what a session does depends on
  itself, on its own streaming session and on whether *all* others are ready or took
  the chunk, so a second session is every other one; two connections let a client be on
  its second stream while the first is still being closed. Two rates make a stream
  differ from the next, and from the encoder of a late request. `MaxChunks = 3` with
  `MinBuffered = 1` has a first chunk, one in buffering, one in playing and the end.
  `streamer_slow` uses one rate and two chunks, and one streaming session that may be
  slow: the other one is then the one that took the chunk, and which is which does not
  matter, since either client may request either.
  A session that has gone does not come back: a client that reconnects is a new session.
- *RealTimeQueue*: four slots with counters modulo eight, so that both the slots and the
  counters wrap with the queue empty, full and between; two items tell orders apart.
  Nothing else is bounded.
- *StreamingSession*: a pool of three buffers with a reserve of two, and chunks of up to
  two: the pool is full, short and free; four buffers from chunks and one from the start
  and the end of the encoder; two calls of `stop` besides that of the close, so that
  three flushes may wait. Chunks that need more than the reserve (PCM at 88.2 kHz and
  above) are left out of the run: they are cut when the pool runs out, and
  `ImplementsAudioStream` is then violated.
- *Container*: a limit of two with three objects (`Accepted` waits until there is an object
  left for the connection it adds), so that the server is below its limit, at it, and
  waits for a removal; one failing accept; one poll of main that is ready at a time, since
  a second would write the same.
- *Encoding*: two sessions, one that works on the buffer before the other; three chunks of
  one or two frames, so that the last frame has others before it or none, and a chunk is
  shorter than the one that used the buffer before; blocks of two frames and buffers of
  three samples, neither of which ends where chunks do; a pool of three buffers, so that the
  end of a stopped encoder may find it full. Chunks fit into the reserve of two buffers, as
  those of up to 48 kHz do in the code; `Lossless` is violated otherwise.
- *FileDump*: two rates and two chunks of each.
- *Source*: a queue of two, so that it is empty, full and between, and periods of up to
  three frames: a beginning, data and an end fit into one, and so do the end of a stream
  and the start of the next.
- *Pipeline*: three sources, so that the next one is not the one before; queues of two;
  turns of two polls instead of five, which end by the count and by a pause.
- *CommandSession*: a ring of five units and reads of up to three, so that a read behind an
  incomplete command just fits (as 1024 bytes do in 2048), two commands end in one read, and
  a command lies across the end of the ring. Three commands of the client's own, the first
  of which is HELO, and no more than two units under way when it sends another; pings and
  answers are not bounded. A vector of one probe of which one is skipped stands for 13 and
  3; it grows to two and, by a series without accurate duration, to four (`MaxCapacity`; at
  that limit a series is one with an accurate duration).

`CHECK_DEADLOCK FALSE` is said where the system really stops: after `StreamerStop`,
when main has left and the event loop has ended, when a streaming session is removed, when a
source was stopped and when the Scheduler's task has ended; and in `encoding` and `files`,
where the chunks are bounded. `RealTimeQueue` never stops.

Fairness. `ConsumeChunk` is weakly fair because the Scheduler's task submits itself
again while the Streamer runs; `DeferTimeout` because time passes; `Flushed` because a
transfer in progress ends or fails, and the flush timer polls that every millisecond;
`LocalClose` and the close of a stopped command connection because a shut down socket
fails its pending read. For the clients it is assumed that they answer a Stop and
report when they have played everything: without that Draining need not end, and the
properties say so in their premises (`WillFlush`). In `StreamingSession` the event loop,
the timers and the end of a write are fair, the last because a client goes on reading
or its connection breaks; its liveness properties end with the program where that does. No fairness is assumed for
connecting, handshakes, requests, filled buffers or probes. In `Container` the event loop runs
its handlers, which includes that the threads end and that it is not blocked; main polls,
and reads in the end what was written; clients, datagrams and the signal may never come.
No fairness is assumed in `Encoding` and `FileDump`, whose runs check safety only. In `CommandSession` TCP delivers, the event loop
runs its handlers and timers, and the client answers pings; the server's own commands must
cease for a time, because they disturb every measurement (the premise of `OffsetKnown`). In `Source` the thread's steps are fair, since a device
delivers periods at its rate and a dropped one fails the pending read, and so is the
consumption of a chunk that is offered for ever. In `Pipeline` the task and its timer are
weakly fair; `Consume` is strongly fair, because refusals and pauses come between two
offers of the same chunk: `Streamer` takes a chunk in the end, which is what
`PreparingEnds` and `PlayedOutDrains` are about.

Each property has a mutant in its module, a definition changed the way a bug might;
`PROJECT.json` pairs them, and TLC finds the property violated with the mutant.

## Proofs

All proofs are for every value of the constants that satisfies the named assumptions of the
module, and the hypotheses a theorem states. An invariant that is needed was checked by TLC
on the module's run before it was proved.

`StreamerProofs`:

- `TypeCorrect`: TypeOK. One lemma per stage of `ConsumeChunk` and per handler.
- `InStepCorrect`: a session's entry in the sequence map is `streamedChunks` or one more.
  The argument goes through the stages of one call: `Offered` lifts a session that is
  level with the stream by one or leaves it, `Count` adds one to the stream only if all
  sessions are ahead, `Begin` sets both to zero, and a joining session starts level. No
  strengthening but TypeOK is needed, because each stage preserves the relation.
- `RefValidCorrect`: the reference points to a streaming session of the same client. The
  invariant needs TypeOK, and that the stages of `ConsumeChunk` never free a session.
- `HeadInStepCorrect`: needs TypeOK only; a stage either counts a chunk and lets the call
  return true, which takes the chunk off, or does neither.
- `DrainingEndsStreamCorrect`, `NoOrphanStreamCorrect`: from the invariant `SessionsOK`. A
  session that is `Quiet` (it has to request its stream, has not begun, or has played out)
  has no HTTP connection at all; a session dials only when it prepares or was stopped, and
  owes an STMf only when it drains or was stopped; before HELO its client was told nothing
  (`Lawful`). From these it follows that a client has one stream at most, the one its session
  refers to (`Bound`), so that the close which resets a reference by client ID resets that of
  no other stream.
- `ContiguousCorrect`, `StartTogetherCorrect`, `NoneLeftStreamingCorrect`: with `Slow = {}`,
  from the invariant `AllLevel`: between two calls every session is level with the stream,
  streams only if the Streamer does, drains before it only if it has no HTTP connection, and
  the last chunk it has encoded is the one that was counted last. The hypothesis says that no
  buffer pool runs short, and leaves everything else as it is; without it none of the three
  is true (see [Findings](#findings)).

`RealTimeQueueProofs`:

- `WindowCorrect`, `NoRaceCorrect`: from the inductive invariant `IInv`. The four counter
  values (what the producer has seen of the tail, the tail, what the consumer has seen
  of the head, the head) stay in this order round the circle of counter values and span
  at most `Size - 1`. That alone is not inductive: a producer past its check must have a
  slot to spare (`Span <= Size - 2`), a consumer past its check an item, and the slots
  between tail and head must hold items (`Checked`, `Filled`). The lemmas under it are
  about remainders: masking agrees with wrapping (`SlotWrap`, `SlotMultiple`), numbers
  less than a round apart have different slots (`SlotDistinct`), distances add up
  (`DistanceSum`), and a load moves a view forward only (`LoadsValue`).
- `FifoCorrect`: every step is a step of `BoundedFifo` or a stutter: `EnqueueStore` is
  `Put`, `DequeueLoad` is `Lend`, `DequeueStore` is `Take`, `DequeueKeep` is `Leave`.

`StreamingSessionProofs`:

- `TypeCorrect`, `WritesFromQueueCorrect`, `OneTransferCorrect`: from the inductive
  invariant `IInv`. That the buffer being written stays at the head of the queue depends
  on `transferring` being set as long as there is a write or its callback is in the event
  loop's queue (`Transfer`), because `flush` waits for that flag alone. This in turn needs
  that the callback of a write is there at most once, and not during a write; that a
  session that does not run has nothing queued and no transfer (`Idle`), so that deleting
  it forgets none; that only a flushed session is deleted by a callback (`Life`); and that
  no flush is pending while the encoder runs (`Unflushed`). The lemmas before the handlers
  say what concatenating and taking off handlers does to the kinds of handlers in the
  queue (`Concat`, `TakeOff`), what `flush` and `stop` leave (`FlushStep`, `StopStep`).
- `NoStallCorrect`: from `IInv` and `Awake`, that buffers which wait and are not being
  transferred have a transfer task, which holds also when the session is gone.
- `ImplementsAudioStreamCorrect`: the refinement, step by step, from two more invariants.
  `Numbers`: there is a number up to which buffers have left the queue, those that wait are the
  next ones without a gap, up to the last that was produced while the encoder runs, and the
  client has what has left the queue, or one more when the callback of its write is due.
  `Ends`: who stops, closes and removes agrees with the state of the connection. The
  hypotheses are `MaxEncoded <= Reserve` and `MaxTail <= PoolSize`: a chunk, and what the
  encoder has left at its end, fit into the buffers that are free when they are encoded.
  Otherwise the encoded callback skips buffers, and `ImplementsAudioStream` is false: in the
  code, for PCM at 88.2 kHz and above.

`SourceProofs`:

- `SourceTypeCorrect`: TypeOK and `Marked`, which is inductive with it: the thread never
  takes frames for data whose stream it has not seen begin, and never misses that it did,
  whatever marks are lost with the periods that find the queue full. The lemmas before it say
  what `containsData` and `copyData` find in a period, of whatever length: where the stream
  begins, which frames are copied, and that the second pass agrees with the first.
- `FramesKeptCorrect`: what is copied is as much as `expected` says, which reads the period by
  itself.
- `ImplementsChunkSourceCorrect`: every step is one of `ChunkSource` or a stutter, under the
  mapping that forgets the device, the marks and the frames: `Read` puts data, an end, or is
  lost to an overflow; `Consume` takes, `Refuse` leaves.
- `StreamsWhole`: what the event loop takes are streams that are not empty and are ended
  once, and it waits for no end that is neither queued nor owed. This is argued on
  `ChunkSource`, whose steps are the only ones by the refinement, from an inductive invariant
  (`Whole`): in the queue an end follows data, or comes first when the stream that was
  taken in part is open (`consuming`); and the last chunk that was queued, or `consuming` when
  there is none, tells whether the thread owes an end (`isBeginningOfStream`).

`PipelineProofs`:

- `PipelineTypeCorrect`, `OneStreamAtATimeCorrect`, `RefusedIsNextCorrect`: from an invariant
  that says that only the current source is being consumed, and that the stream which was
  taken in part is its (`Current`), and that in each queue an end follows data, or comes
  first in the stream that is open (`Whole`). So the Multiplexor, which leaves a source that
  has no chunk only if it is not being consumed, leaves none inside of a stream.

`ContainerProofs`:

- `HandlersHaveConnectionCorrect`, `ServesCorrect`: the invariant says that a connection has a
  ready handler only in accordance with where it is in its life (`Handled`: onOpen when it
  was accepted or refused, onData when its read has failed, onStop and the removal when it is
  closed), and one at most; so a removal finds no other handler of its connection. `Serves`
  is inductive with one addition (`Accepting`): a server that was started and has no acceptor
  has no connection between accept and open either, so a removal that starts to accept again
  is the only one to do so. The set of connections is any finite one, and the limit any
  number.
- `DiscoveryListensCorrect`: `Listening` counts one receive or its handler; that no datagram
  of an earlier socket is left when one is opened follows from the start being the first
  handler of all (`Starting`).
- `StopOrderCorrect`: the program goes through four stages (`BeforeSignal`, `ToStop`, `ToJoin`,
  `Joined`). What makes it go through them in order is the event loop's queue: the
  stop is submitted before any poll and so stays ahead of them (`StopAhead`); a poll that is
  run finds the threads ended, and only a poll lets main leave.
- `ContainerTypeCorrect`: TypeOK, from the same invariant.

`CommandSessionProofs`:

- `FramedCorrect`: the ring and the line together are one sequence, `Unread`, that begins
  at a command and consists of whole ones (`LineInv`). A client extends it by a command
  (`LineExtended`), a read moves units from the line to the ring and leaves it as it is
  (`LineRead`), and a handler takes the first command off (`LineHandled`). Between two calls
  of `onRequest` the ring holds two units at most, because a command of three would be
  complete (`RingHasRoom`); so a read always fits, and no push drops anything. The ring
  is pushed to and taken from by folds. `FoldExists` and `FoldTurns` make of a fold the
  sequence of its turns, by induction on their number (`Successors`, from the library's
  theorem that a set of naturals has a least element, which takes no operator as a
  parameter); `PushAllFacts` and `PopAllFacts` say what the turns make of the contents,
  wherever the ring wraps.
- `OneProbeCorrect`: the chain of probes is at rest (`Idle`) or is at one place, which is for
  the last probe of the vector (`Probing`). That every other answer is out of `Unread` needs
  that nothing but a ping adds one, and a command is handled as it was sent: `Whole`.
- `OffsetMeasuredCorrect`: in `Probing`, no probe before the last one was disturbed, because a
  disturbed probe is pinged again until nothing comes in between, and only then is
  there a next one, so that the mean that a complete
  series ends with is of measured ones (`MeanMeasured`).
- `CommandSessionTypeCorrect`: TypeOK, from the same invariant.

All four assume `ReadSize + 2 <= RingSize`, which the code has with reads of 1024 bytes into
a ring of 2048, and `~Unsupported`: a command without handler breaks the framing, and then the
rest (see [Findings](#findings)). The number and the order of the client's commands, and how
TCP cuts them, are any.

`EncodingProofs`:

- `EncodingTypeCorrect`: from the inductive invariant `Types`, which says in addition that
  whoever waits for a chunk waits for one that has frames. It assumes nothing but
  `EncodingAssumption`, so the buffers of a session never exceed its pool, whatever is
  encoded.
- `LosslessCorrect`: from `IInv`. What a session was sent and has queued, and a rest, are all
  it should get (`IsAll`); the rest is what libFLAC keeps as long as the session runs, and
  anything afterwards (`Complete`), when stopping and flushing discard the last ones. For a
  chunk that is encoded by one session after the other, `Intact` says that nothing was
  changed in it but the lowest bytes, and those for FLAC only; from which follows, byte by
  byte, that what libFLAC is given are the samples as they should be (`ShiftedTaken`,
  with the last frame in `InLastFrame`) and what the wave encoder is given are those that
  were captured (`SamplesTaken`).
- The lemmas before it are about the operators. `FlattenSeq` and `FoldLeft` are defined by
  choosing a function that satisfies a recursion; `FlattenIs` and `FoldTurns` make of each
  the sequence of its steps, by induction on their number (`Successors`). From these:
  flattening what was put together is putting together what was flattened (`FlattenConcat`),
  the slices of a sequence flatten to it (`FlattenSlices`), so that neither cutting into
  buffers (`CutFacts`) nor into blocks (`BlocksFacts`) changes anything, and what the encoded
  callback queues is all there was if the pool has buffers for it (`PushedFits`,
  `FoldPushedAll`). `TimesLeq`, `Quotient`, `PartsFacts` and `Remainder` are the arithmetic.

The hypothesis of `LosslessCorrect` is `ChunksFit`: what a chunk is encoded into, together with
what libFLAC has kept, needs no more buffers than the reserve that `consumeChunk` waits for,
and the samples that FLAC is made of have 32 bits, which is the format that main opens the
device with. The first is true of the instance that TLC checks, and of the code up to 48 kHz:
the 4800 frames of 100 ms are 38400 bytes as PCM, which is 10 buffers of 4096; as FLAC, with
the 1151 frames that libFLAC may have kept of a block of 1152, they make 5 blocks, each of
2 buffers when nothing in it can be compressed. At 88.2 kHz and above the callback
skips buffers of PCM, and `Lossless` is false.

Only model-checked: the liveness properties (`PreparingEnds`, `PlayedOutDrains`,
`OffsetKnown`, `FlushEnds`, `EndDelivered`, `StopEnds`, `Served`, `PollsUntilStopped`,
`ShutdownEnds`, `StopCleansUp`), since fairness and what is enabled are out of the prover's
reach. Every invariant and every other action property or refinement that a passing run
checks is proved. `StreamingSessionProofs!TypeCorrect`,
`SourceTypeCorrect` and `StreamsWhole` are proved only.

## Findings

- `streamer_end_refused`: a session that refuses the end-of-stream chunk never gets it
  again, because the Streamer enters Draining at once and Draining streams nothing.
- `session_removed`: a session is deleted while a handler of it is ready: the destructor
  cancels only the last timer. The shortest case is a stop, with the close handler of the
  connection and a transfer task in the queue; another is a request whose command session has
  gone.
- `files`: with `--files` nothing is dumped: main has moved the sources away before it
  creates a file for each.

Seen while modelling, without a run of their own: a client whose HELO arrives after a chunk
was offered to its session is disconnected, because the session has left Started and only
Started accepts a handshake (`OnHELO`), although the comment at CommandSession.hpp:187 means
to serve sessions that are created while streaming; a command without handler is skipped one
byte for each read, because the loop of `onRequest` ends when nothing was processed, and
complete commands behind it wait for data that may never come (`Leave`; with
`Unsupported = TRUE` TLC finds `Framed` violated). A flush that begins, or looks again,
between two transfers discards all that waits (`Flush`), although its comment speaks of
waiting until data is transferred; the removal of a connection adds one without counting
(`RemoveConnection`), with no more than the maximum connected in the instance that was
checked; two streams
without a silent period between them, or whose only silent period found the queue full,
become one (`ReadSilence`); a source whose device fails in the middle of a stream is never
left by the Multiplexor (the premise of `Served`). `Source::stop` drops the device whenever
`running` is set, which it is before the thread has opened the device and still is after the
thread has ended by an error, and `close` is called on a null handle when `snd_pcm_open` fails
(`undefined`). A connection whose accept completed just before `Server::stop` is opened after
it, and `addConnection` dereferences the acceptor that is gone (`crashed`). The vector of probes doubles for
every series that lacks an accurate duration while playing (`Grown`), and nothing shrinks it.
A ping handler refers to its session, which may be deleted before it runs.

When some session is slow, what `StartTogether` says is not true either (TLC finds it violated
with `Slow` not empty): the chunk at which the Streamer goes to Playing was refused before by
one session and taken by another, which is not offered it again and so stays in Buffering
and starts a chunk later than the rest. `Contiguous` is violated then too, by the stream
whose end was refused, which goes on with the chunks of the next one.

Of the program's end: main may leave before the callback that stops the TCP servers has run
(`StopOrder` says what does hold), because a poll may run before it; a program whose port was
taken keeps half of its parts and only waits for the signal; the discovery server posts no
receive after an error and is deaf from then on (the premise of `DiscoveryListens`);
`Demultiplexor::stop` drops its callback, so with `--files` the TCP servers are never
stopped. libFLAC is given samples whose upper byte is cleared and not the sign.

## Not modelled

The layout of the outbound commands (their effect on a client is part of `Streamer`) and
the fields of the inbound ones beyond what `CommandSession` names, the times and durations
of playback (reduced to the thresholds they are compared with), logging, the parsing of the
command line, and libFLAC, ALSA and conwrap2, which are third-party code. Hazards that no
property covers are in `PROJECT.json` with the reason.

## Plan

In order of what matters most:

1. `TcpServer` and `StreamingSession` composed: connections at reused addresses, and
   requests that arrive in pieces.
