--------------------------- MODULE StreamingSession ---------------------------
(***************************************************************************)
(* One StreamingSession and the TCP connection it writes to, on the event  *)
(* loop: every handler that is ready is in a queue and runs to its end.    *)
(* The Streamer module reduces all this to the phases of AudioStream.      *)
(*                                                                         *)
(* The session's handlers hold references to the session and through it to *)
(* the connection, both of which other handlers delete.  What a program    *)
(* does that uses a deleted object is undefined: the model ends there.     *)
(***************************************************************************)
EXTENDS Naturals, Sequences

CONSTANTS
    PoolSize,     \* buffers of the pool (64)
    Reserve,      \* buffers that must be free for a chunk to be accepted (10)
    MaxEncoded,   \* buffers the encoded form of a chunk may take
    MaxTail,      \* buffers the encoder may emit when it starts or stops
    MaxProduced,  \* bound: buffers filled by chunks
    MaxStops      \* bound: calls of stop by the Streamer and by requests

ASSUME PoolAssumption == PoolSize \in Nat /\ Reserve \in 1..PoolSize
ASSUME EncoderAssumption == MaxEncoded \in Nat /\ MaxTail \in Nat
ASSUME BoundsAssumption == MaxProduced \in Nat /\ MaxStops \in Nat

VARIABLES
    session,       \* "none", "alive", or "gone" once it is deleted
    encoding,      \* the encoder is running
    running,
    transferring,
    queue,         \* transferBufferQueue: the numbers of the buffers in it
    timers,        \* callbacks of the pending flush timers, in the order they were set
    writing,       \* the buffer the socket is writing, 0 if none
    connection,    \* "open", "failing" once its read has completed with an error,
                   \* "closed" once its close callback has run, "removed"
    socket,        \* "open", "broken" by the peer, or "closed"
    ready,         \* handlers of the event loop
    produced,      \* buffers the encoder has filled
    received,      \* the last buffer transferred to the client
    stops,         \* calls of stop so far
    undefined      \* the deleted object that was used, "none" so far

sessionVars == <<session, encoding, running, transferring, queue, timers>>
networkVars == <<writing, connection, socket>>
vars == <<sessionVars, networkVars, ready, produced, received, stops, undefined>>

\* What to do when a session has been flushed: nothing, or to delete it.
Callbacks == {"none", "erase"}

Handlers == [handler : {"transferTask", "written", "onData", "onStop", "remove"},
             callback : {"none"}]
            \cup [handler : {"flush", "callback"}, callback : Callbacks]

Handler(h) == [handler |-> h, callback |-> "none"]

Tasks(n) == [i \in 1..n |-> Handler("transferTask")]

Init ==
    /\ session = "none"
    /\ encoding = FALSE /\ running = FALSE /\ transferring = FALSE
    /\ queue = <<>> /\ timers = <<>>
    /\ writing = 0 /\ connection = "open" /\ socket = "open"
    /\ ready = <<>>
    /\ produced = 0 /\ received = 0 /\ stops = 0
    /\ undefined = "none"

Defined == undefined = "none"

\* The handler at the head of the event loop's queue.
Runs(h) == Defined /\ ready # <<>> /\ Head(ready).handler = h

Undefined(object) ==
    /\ undefined' = object
    /\ UNCHANGED <<sessionVars, networkVars, ready, produced, received, stops>>

-----------------------------------------------------------------------------
(* The encoder and its buffers *)

Available == PoolSize - Len(queue)

\* Buffers there is room for, of the n that encoded data needs.
Fitting(n) == IF n < Available THEN n ELSE Available

\* The callback of the encoder: the data is cut into buffers; when the pool is empty
\* the rest of it is skipped.  A transfer is submitted for each buffer.
Pushed(n) == queue \o [i \in 1..Fitting(n) |-> produced + i]

-----------------------------------------------------------------------------
(* tcp::Connection *)

\* What connection.stop() makes of the outstanding read.
Stopped == IF connection = "open" THEN "failing" ELSE connection

AbortedRead == IF connection = "open" THEN <<Handler("onData")>> ELSE <<>>

AbortedWrite == IF writing # 0 THEN <<Handler("written")>> ELSE <<>>

\* connection.stop(): an outstanding read and an outstanding write are aborted.
CloseSocket(rest) ==
    /\ socket' = "closed"
    /\ connection' = Stopped
    /\ writing' = 0
    /\ ready' = rest \o AbortedRead \o AbortedWrite

\* The client closes its side, or resets the connection.
PeerCloses ==
    /\ Defined
    /\ connection = "open"
    /\ connection' = "failing"
    /\ socket' \in {socket, "broken"}
    /\ ready' = Append(ready, Handler("onData"))
    /\ UNCHANGED <<sessionVars, writing, produced, received, stops, undefined>>

\* async_write completes: all of the buffer was transferred, or an error occurred.
WriteEnds ==
    /\ Defined
    /\ writing # 0
    /\ \/ socket = "open" /\ received' = writing /\ UNCHANGED socket
       \/ socket' = "broken" /\ UNCHANGED received
    /\ writing' = 0
    /\ ready' = Append(ready, Handler("written"))
    /\ UNCHANGED <<sessionVars, connection, produced, stops, undefined>>

\* Server::stop closes the sockets of all connections.
ServerStop ==
    /\ Defined
    /\ session # "none"
    /\ connection # "removed" /\ socket # "closed"
    /\ CloseSocket(ready)
    /\ UNCHANGED <<sessionVars, produced, received, stops, undefined>>

-----------------------------------------------------------------------------
(* Stopping *)

\* The session has been flushed: it runs no more, its connection is stopped and the
\* callback submitted, behind the handler of the aborted read.
Finish(callback, rest, after) ==
    /\ queue' = <<>> /\ running' = FALSE
    /\ socket' = "closed"
    /\ ready' = rest \o AbortedRead
                \o <<[handler |-> "callback", callback |-> callback]>> \o after
    /\ UNCHANGED <<timers, undefined>>

\* Mutant: a transfer in progress is not waited for.
FlushAtOnce(callback, q, rest, after) ==
    Finish(callback, rest, after) /\ UNCHANGED <<transferring, writing>>

\* Mutant: the flush is not tried again.
FlushOnce(callback, q, rest, after) ==
    /\ UNCHANGED <<transferring, writing>>
    /\ IF transferring
         THEN /\ queue' = q /\ ready' = rest \o after
              /\ UNCHANGED <<running, timers, socket, undefined>>
         ELSE Finish(callback, rest, after)

\* flush(): while a transfer is in progress, try again later; then discard what is
\* queued and finish.  rest are the handlers before those that it submits.
Flush(callback, q, rest, after) ==
    /\ UNCHANGED <<transferring, writing>>
    /\ \/ /\ transferring
          /\ queue' = q /\ ready' = rest \o after
          /\ timers' = Append(timers, callback)
          /\ UNCHANGED <<running, socket, undefined>>
       \/ ~transferring /\ connection # "removed" /\ Finish(callback, rest, after)
       \/ /\ ~transferring /\ connection = "removed"
          /\ undefined' = "connection"
          /\ queue' = q /\ ready' = rest \o after
          /\ UNCHANGED <<running, timers, socket>>

\* The connection when flush has returned.
Flushed == IF transferring THEN connection ELSE Stopped

\* stop() of a running session: the encoder is stopped, which may emit what it has
\* kept back, then the session is flushed.
Stop(callback, rest, after) ==
    /\ encoding' = FALSE
    /\ \E n \in IF encoding THEN 0..MaxTail ELSE {0} :
         /\ produced' = produced + n
         /\ Flush(callback, Pushed(n), rest \o Tasks(Fitting(n)), after)

\* A call of stop that removes nothing: Streamer::stop, or a request that is not GET.
StopSession ==
    /\ Defined
    /\ session = "alive" /\ running
    /\ stops < MaxStops
    /\ stops' = stops + 1
    /\ Stop("none", ready, <<>>)
    /\ connection' = Flushed
    /\ UNCHANGED <<session, received>>

-----------------------------------------------------------------------------
(* The Streamer's calls.  A command session refers to the session until the *)
(* close callback of the connection.                                        *)

\* onHTTPData, the first request: the session is created and started.  When the
\* command session has gone the connection is stopped and the session dropped.
Request(known) ==
    /\ Defined
    /\ session = "none" /\ connection = "open"
    /\ \E n \in 0..MaxTail :
         /\ produced' = n
         /\ IF known
              THEN /\ session' = "alive"
                   /\ encoding' = TRUE /\ running' = TRUE
                   /\ queue' = Pushed(n)
                   /\ ready' = ready \o Tasks(Fitting(n))
                   /\ UNCHANGED networkVars
              ELSE /\ session' = "gone"
                   /\ CloseSocket(ready \o Tasks(Fitting(n)))
                   /\ UNCHANGED <<encoding, running, queue>>
    /\ UNCHANGED <<transferring, timers, received, stops, undefined>>

\* A chunk is offered to a session that has room for it.
Accepts ==
    /\ Defined
    /\ session = "alive" /\ running /\ connection \in {"open", "failing"}
    /\ Reserve <= Available

\* Mutant: a chunk is accepted while there is any room.
ConsumeChunkWithoutReserve ==
    /\ Defined
    /\ session = "alive" /\ running /\ encoding /\ connection \in {"open", "failing"}
    /\ 0 < Available
    /\ \E n \in 0..MaxEncoded :
         /\ produced + n <= MaxProduced
         /\ produced' = produced + n
         /\ queue' = Pushed(n)
         /\ ready' = ready \o Tasks(Fitting(n))
    /\ UNCHANGED <<session, encoding, running, transferring, timers, networkVars,
                   received, stops, undefined>>

\* consumeChunk: the encoder fills buffers.  After it was stopped it does nothing.
ConsumeChunk ==
    /\ Accepts
    /\ encoding
    /\ \E n \in 0..MaxEncoded :
         /\ produced + n <= MaxProduced
         /\ produced' = produced + n
         /\ queue' = Pushed(n)
         /\ ready' = ready \o Tasks(Fitting(n))
    /\ UNCHANGED <<session, encoding, running, transferring, timers, networkVars,
                   received, stops, undefined>>

\* consumeChunk: the end of the stream, or a chunk of another rate.
ConsumeLastChunk ==
    /\ Accepts
    /\ stops < MaxStops
    /\ stops' = stops + 1
    /\ Stop("none", ready, <<>>)
    /\ connection' = Flushed
    /\ UNCHANGED <<session, received>>

-----------------------------------------------------------------------------
(* Handlers *)

\* Mutant: a transfer in progress is not noticed.
TransferTaskAgain ==
    /\ Runs("transferTask")
    /\ session = "alive" /\ queue # <<>> /\ connection # "removed" /\ socket # "closed"
    /\ transferring' = TRUE
    /\ writing' = Head(queue)
    /\ ready' = Tail(ready)
    /\ UNCHANGED <<session, encoding, running, queue, timers, connection, socket,
                   produced, received, stops, undefined>>

\* transferTask: the first buffer is written unless another one is being written.
TransferTask ==
    /\ Runs("transferTask")
    /\ session = "alive" /\ queue # <<>> /\ ~transferring
    /\ connection # "removed" /\ socket # "closed"
    /\ transferring' = TRUE
    /\ writing' = Head(queue)
    /\ ready' = Tail(ready)
    /\ UNCHANGED <<session, encoding, running, queue, timers, connection, socket,
                   produced, received, stops, undefined>>

NothingToTransfer ==
    /\ Runs("transferTask")
    /\ session = "alive"
    /\ queue = <<>> \/ transferring
    /\ ready' = Tail(ready)
    /\ UNCHANGED <<sessionVars, networkVars, produced, received, stops, undefined>>

\* writeAsync on a closed socket calls its callback at once: the buffer is released.
TransferToClosed ==
    /\ Runs("transferTask")
    /\ session = "alive" /\ queue # <<>> /\ ~transferring
    /\ connection # "removed" /\ socket = "closed"
    /\ queue' = Tail(queue)
    /\ ready' = Append(Tail(ready), Handler("transferTask"))
    /\ UNCHANGED <<session, encoding, running, transferring, timers, networkVars,
                   produced, received, stops, undefined>>

\* Mutant: the next transfer is not submitted.
WrittenLast ==
    /\ Runs("written")
    /\ session = "alive"
    /\ queue' = IF queue = <<>> THEN queue ELSE Tail(queue)
    /\ transferring' = FALSE
    /\ ready' = Tail(ready)
    /\ UNCHANGED <<session, encoding, running, timers, networkVars,
                   produced, received, stops, undefined>>

\* The callback of writeAsync: the buffer is released and the next transfer submitted.
Written ==
    /\ Runs("written")
    /\ session = "alive"
    /\ queue' = IF queue = <<>> THEN queue ELSE Tail(queue)
    /\ transferring' = FALSE
    /\ ready' = Append(Tail(ready), Handler("transferTask"))
    /\ UNCHANGED <<session, encoding, running, timers, networkVars,
                   produced, received, stops, undefined>>

\* A millisecond has passed since the oldest pending timer was set.
Expire ==
    /\ Defined
    /\ timers # <<>>
    /\ timers' = Tail(timers)
    /\ ready' = Append(ready, [handler |-> "flush", callback |-> Head(timers)])
    /\ UNCHANGED <<session, encoding, running, transferring, queue, networkVars,
                   produced, received, stops, undefined>>

FlushAgain ==
    /\ Runs("flush")
    /\ session = "alive"
    /\ Flush(Head(ready).callback, queue, Tail(ready), <<>>)
    /\ connection' = Flushed
    /\ UNCHANGED <<session, encoding, produced, received, stops>>

\* The session is deleted with all it has; its destructor cancels the timer that was
\* set last.
Erase ==
    /\ session' = "gone"
    /\ running' = FALSE /\ encoding' = FALSE /\ transferring' = FALSE
    /\ queue' = <<>>
    /\ timers' = IF timers = <<>> THEN timers ELSE SubSeq(timers, 1, Len(timers) - 1)

\* The callback of stop, submitted when the session was flushed.
Callback ==
    /\ Runs("callback")
    /\ IF Head(ready).callback = "erase" THEN Erase ELSE UNCHANGED sessionVars
    /\ ready' = Tail(ready)
    /\ UNCHANGED <<networkVars, produced, received, stops, undefined>>

\* A handler of the session runs after the session was deleted.
UseOfDeleted ==
    /\ Defined
    /\ session = "gone" /\ ready # <<>>
    /\ Head(ready).handler \in {"transferTask", "written", "flush"}
    /\ Undefined("session")

\* A transfer is started on a connection that was deleted.
TransferToDeleted ==
    /\ Runs("transferTask")
    /\ session = "alive" /\ queue # <<>> /\ ~transferring
    /\ connection = "removed"
    /\ Undefined("connection")

\* onClose of the connection and onHTTPClose: the session is to be removed once it
\* has stopped; a session that does not run is removed at once.
OnCloseRunning ==
    /\ Runs("onData")
    /\ session = "alive" /\ running
    /\ Stop("erase", Tail(ready), <<Handler("onStop")>>)
    /\ connection' = "closed"
    /\ UNCHANGED <<session, received, stops>>

OnCloseStopped ==
    /\ Runs("onData")
    /\ session # "alive" \/ ~running
    /\ IF session = "alive" THEN Erase ELSE UNCHANGED sessionVars
    /\ connection' = "closed"
    /\ ready' = Append(Tail(ready), Handler("onStop"))
    /\ UNCHANGED <<writing, socket, produced, received, stops, undefined>>

\* The server's stop callback submits the removal of the connection.
OnStop ==
    /\ Runs("onStop")
    /\ ready' = Append(Tail(ready), Handler("remove"))
    /\ UNCHANGED <<sessionVars, networkVars, produced, received, stops, undefined>>

\* The connection is deleted; its socket is closed, which aborts a write.
Remove ==
    /\ Runs("remove")
    /\ connection' = "removed" /\ socket' = "closed" /\ writing' = 0
    /\ ready' = Tail(ready) \o AbortedWrite
    /\ UNCHANGED <<sessionVars, produced, received, stops, undefined>>

-----------------------------------------------------------------------------
(* Specification *)

Transfers == TransferTask \/ NothingToTransfer \/ TransferToClosed \/ Written

Closes == OnCloseRunning \/ OnCloseStopped \/ OnStop \/ Remove

Run ==
    \/ Transfers
    \/ FlushAgain
    \/ Callback
    \/ Closes
    \/ UseOfDeleted
    \/ TransferToDeleted

Next ==
    \/ \E known \in BOOLEAN : Request(known)
    \/ ConsumeChunk
    \/ ConsumeLastChunk
    \/ StopSession
    \/ ServerStop
    \/ PeerCloses
    \/ WriteEnds
    \/ Expire
    \/ Run

Spec == Init /\ [][Next]_vars

\* The event loop runs its handlers, timers expire, and a write ends because the
\* client goes on reading or the connection breaks.
FairSpec ==
    /\ Spec
    /\ WF_vars(Run)
    /\ WF_vars(Expire)
    /\ WF_vars(WriteEnds)

-----------------------------------------------------------------------------
(* Properties *)

\* The variables stay in their types; the pool is never overdrawn.
TypeOK ==
    /\ session \in {"none", "alive", "gone"}
    /\ encoding \in BOOLEAN /\ running \in BOOLEAN /\ transferring \in BOOLEAN
    /\ queue \in Seq(Nat \ {0}) /\ Len(queue) <= PoolSize
    /\ timers \in Seq(Callbacks)
    /\ writing \in Nat
    /\ connection \in {"open", "failing", "closed", "removed"}
    /\ socket \in {"open", "broken", "closed"}
    /\ ready \in Seq(Handlers)
    /\ produced \in Nat /\ received \in Nat /\ stops \in Nat
    /\ undefined \in {"none", "session", "connection"}

IsReady(h) == \E i \in DOMAIN ready : ready[i].handler = h

\* The buffer the socket writes from is the first of the queue: no stop, flush or
\* close returns it to the pool, where the encoder would overwrite it.
WritesFromQueue == writing # 0 => queue # <<>> /\ writing = Head(queue)

\* The transferring flag tells exactly when a write is in progress or its callback is
\* due, so there is never a second write nor one whose end goes unnoticed.
OneTransfer ==
    session = "alive" => (transferring <=> (writing # 0 \/ IsReady("written")))

\* No wake-up is lost: buffers that wait and are not being transferred have a task.
NoStall ==
    session = "alive" /\ Defined /\ queue # <<>> /\ ~transferring
        => IsReady("transferTask")

\* The phases by which the Streamer module knows this session.
phase ==
    CASE session = "none" -> "none"
      [] session = "gone" \/ (session = "alive" /\ connection \in {"closed", "removed"})
           -> "free"
      [] session = "alive" /\ ~running /\ connection \in {"open", "failing"} -> "stopped"
      [] session = "alive" /\ running /\ ~encoding
           /\ connection \in {"open", "failing"} -> "flushing"
      [] OTHER -> "running"

Audio == INSTANCE AudioStream WITH phase <- phase, sent <- produced, received <- received

\* The session goes through its phases forward, and its client receives what was
\* encoded in order, none skipped, and nothing after the session has stopped.
ImplementsAudioStream == Audio!Spec

\* A session that was stopped gets through its flush, and one whose connection was closed
\* is deleted.
FlushEnds ==
    /\ session = "alive" /\ running /\ ~encoding ~> ~running \/ ~Defined
    /\ session = "alive" /\ connection \in {"closed", "removed"}
           ~> session = "gone" \/ ~Defined

\* The deferred operations of a session (transfers, timers, the callbacks of writes)
\* are over or cancelled when the session or its connection is deleted.
DeferredCancelled == undefined = "none"
=============================================================================
