------------------------------- MODULE Streamer -------------------------------
(***************************************************************************)
(* The streaming core of SlimStreamer: the Streamer, the CommandSession it *)
(* keeps for every SlimProto client, and the StreamingSession it keeps for *)
(* every HTTP connection over which a client receives audio.  All of them  *)
(* run on one event loop, so every action below is one handler, run to its *)
(* end.  A session is identified by the client ID the Streamer gives it    *)
(* (++nextID), which is never reused.                                      *)
(*                                                                         *)
(* The inside of a StreamingSession (its queue, its flush timer) is        *)
(* reduced to a phase; the Source and the Multiplexor are reduced to the   *)
(* chunk at the head of their queue.                                       *)
(***************************************************************************)
EXTENDS Naturals

CONSTANTS
    Clients,      \* SlimProto sessions, by client ID
    Streams,      \* HTTP connections
    None,         \* the empty reference
    Rates,        \* sampling rates of the sources
    MaxChunks,    \* bound: data chunks in one stream
    MinBuffered,  \* the 2000 ms of isReadyToPlay, in chunks
    Slow          \* HTTP connections whose buffer pool may run short

ASSUME NoneAssumption == None \notin Streams \cup Clients
ASSUME RatesAssumption == Rates \subseteq Nat \ {0}
ASSUME BoundsAssumption == MaxChunks \in Nat \ {0} /\ MinBuffered \in Nat
ASSUME SlowAssumption == Slow \subseteq Streams

VARIABLES
    state,           \* state of the Streamer's state machine
    samplingRate,    \* rate of the current stream, 0 before the first one
    streamedChunks,  \* chunks of the current stream every session has taken
    deferExpired,    \* the 2000 ms of isReadyToBuffer have passed
    chunk,           \* head of the producer's queue
    sess,            \* command sessions
    http             \* streaming sessions

vars == <<state, samplingRate, streamedChunks, deferExpired, chunk, sess, http>>

-----------------------------------------------------------------------------
(* Data *)

\* States shared by both state machines.
Started   == "Started"
Preparing == "Preparing"
Buffering == "Buffering"
Playing   == "Playing"
Draining  == "Draining"
Stopped   == "Stopped"
States == {Started, Preparing, Buffering, Playing, Draining, Stopped}
Feeding == {Buffering, Playing}

\* A chunk: its rate, the end-of-stream mark, its position in its stream.
Chunks == [rate : Rates, eos : BOOLEAN, pos : 1..(MaxChunks + 1)]

\* A command session.  conn: the connection; http: the streamingSession
\* reference; ready: clientBufferIsReady; offset: timeOffset is known;
\* seq: its entry of sessionToChunkSequenceMap.  The last three fields are the
\* client's: it was told to start and has not requested the stream yet, it was
\* told to unpause and has not run out of data yet, it owes an STMf to a Stop.
Sessions == [conn : {"new", "open", "closing", "gone"}, state : States,
             rate : Rates \cup {0}, http : Streams \cup {None}, helo : BOOLEAN,
             ready : BOOLEAN, offset : BOOLEAN, seq : Nat,
             dialing : BOOLEAN, cued : BOOLEAN, owesFlush : BOOLEAN]

\* A streaming session.  phase: running until stop(), flushing until the flush
\* callback sets running to false, stopped until the connection's close
\* callback; last: position of the last chunk it encoded.
HttpSessions == [phase : {"free", "running", "flushing", "stopped"},
                 client : Clients \cup {None}, rate : Rates \cup {0},
                 last : 0..(MaxChunks + 1)]

Absent(conn) == [conn |-> conn, state |-> Stopped, rate |-> 0, http |-> None,
                 helo |-> FALSE, ready |-> FALSE, offset |-> FALSE, seq |-> 0,
                 dialing |-> FALSE, cued |-> FALSE, owesFlush |-> FALSE]

Free == [phase |-> "free", client |-> None, rate |-> 0, last |-> 0]

\* Sessions in the commandSessions map.
Live(s) == s.conn \in {"open", "closing"}

\* A streaming session whose running flag is set.
IsRunning(x) == x.phase \in {"running", "flushing"}

\* Mutant: the source never marks the end of its stream.
NextChunksNoEnd(k) == [rate : {k.rate}, eos : {FALSE}, pos : {k.pos + 1}]

\* The chunks a source may put behind k: a stream is a run of data chunks of one
\* rate closed by one end-of-stream chunk.
NextChunks(k) ==
    IF k.eos
    THEN [rate : Rates, eos : {FALSE}, pos : {1}]
    ELSE [rate : {k.rate}, eos : {TRUE}, pos : {k.pos + 1}]
         \cup IF k.pos < MaxChunks
              THEN [rate : {k.rate}, eos : {FALSE}, pos : {k.pos + 1}]
              ELSE {}

Init ==
    /\ state = Started
    /\ samplingRate = 0
    /\ streamedChunks = 0
    /\ deferExpired = FALSE
    /\ chunk \in [rate : Rates, eos : {FALSE}, pos : {1}]
    /\ sess = [c \in Clients |-> Absent("new")]
    /\ http = [h \in Streams |-> Free]

-----------------------------------------------------------------------------
(* CommandSession *)

IsReadyToBuffer(s) == s.rate # 0 /\ s.http # None

IsReadyToPlay(s) == IsReadyToBuffer(s) /\ s.offset /\ s.ready

\* Mutant: Start is sent again to a session that is preparing already.
PreparedAgain(s, r) ==
    CASE s.state \in {Started, Preparing} /\ r # 0 ->
           [s EXCEPT !.state = Preparing, !.rate = r, !.ready = FALSE,
                     !.http = None, !.dialing = TRUE, !.cued = FALSE]
      [] s.state \in Feeding -> [s EXCEPT !.rate = r]
      [] OTHER -> s

\* prepare(r): only a Started session sends the Start command and forgets the
\* stream of the previous playback.
Prepared(s, r) ==
    CASE s.state = Started /\ r # 0 ->
           [s EXCEPT !.state = Preparing, !.rate = r, !.ready = FALSE,
                     !.http = None, !.dialing = TRUE, !.cued = FALSE]
      [] s.state \in {Preparing} \cup Feeding -> [s EXCEPT !.rate = r]
      [] OTHER -> s

\* The transitions consumeChunk tries before it hands the chunk over.
Advanced(s, r, playing) ==
    LET p == IF s.state = Started THEN Prepared(s, r) ELSE s
        b == IF p.state = Preparing /\ IsReadyToBuffer(p)
             THEN [p EXCEPT !.state = Buffering] ELSE p
    IN  IF b.state = Buffering /\ playing /\ IsReadyToPlay(b)
        THEN [b EXCEPT !.state = Playing, !.cued = TRUE] ELSE b

\* Mutant: the end of the stream drains no session.
ConsumedKeepsState(s, eos) == [s EXCEPT !.seq = @ + 1]

\* The session after it consumed a chunk.
Consumed(s, eos) ==
    LET t == [s EXCEPT !.seq = @ + 1]
    IN  IF eos /\ s.state \in Feeding THEN [t EXCEPT !.state = Draining] ELSE t

-----------------------------------------------------------------------------
(* StreamingSession *)

\* stop(): the session is flushed before its connection is closed.
Stopping(x) == IF IsRunning(x) THEN [x EXCEPT !.phase = "flushing"] ELSE x

\* Mutant: the end of the stream does not stop the session.
EncodedWithoutStop(x, k) ==
    IF ~IsRunning(x) THEN x
    ELSE IF k.rate # x.rate THEN Stopping(x)
    ELSE [x EXCEPT !.last = k.pos]

\* consumeChunk past the test of the buffer pool: a chunk of another rate and
\* the end of the stream stop the session; the former is not encoded.
Encoded(x, k) ==
    IF ~IsRunning(x) THEN x
    ELSE IF k.rate # x.rate THEN Stopping(x)
    ELSE [(IF k.eos THEN Stopping(x) ELSE x) EXCEPT !.last = k.pos]

\* Session s hands its chunk to a streaming session with no room for it.
Refuses(s, hs, full) ==
    /\ s.state \in Feeding
    /\ s.http # None
    /\ s.http \in full
    /\ IsRunning(hs[s.http])

-----------------------------------------------------------------------------
(* Streamer::consumeChunk.  One call may pass through several states: it is a  *)
(* sequence of stages, each of which maps the state of the call so far (the    *)
(* variables it may change and its result, done) to the next.                  *)

Call == [state |-> state, rate |-> samplingRate, n |-> streamedChunks,
         expired |-> deferExpired, sess |-> sess, http |-> http, done |-> FALSE]

\* Started: a new stream begins.
Begin(r) ==
    IF r.state # Started THEN r
    ELSE [r EXCEPT
            !.state = Preparing, !.rate = chunk.rate, !.n = 0, !.expired = FALSE,
            !.sess = [c \in Clients |->
                        IF Live(r.sess[c])
                        THEN [Prepared(r.sess[c], chunk.rate) EXCEPT !.seq = 0]
                        ELSE r.sess[c]]]

AllReadyToBuffer(ss) == \A c \in Clients : Live(ss[c]) => IsReadyToBuffer(ss[c])

AllReadyToPlay(ss) == \A c \in Clients : Live(ss[c]) => IsReadyToPlay(ss[c])

\* Mutant: there is no deferring time-out.
BufferWithoutTimeout(r) ==
    IF r.state = Preparing /\ AllReadyToBuffer(r.sess)
    THEN [r EXCEPT !.state = Buffering] ELSE r

\* Preparing: streaming starts when every session has its stream, or when the
\* deferring time-out has expired.
Buffer(r) ==
    IF r.state = Preparing /\ (r.expired \/ AllReadyToBuffer(r.sess))
    THEN [r EXCEPT !.state = Buffering] ELSE r

\* Mutant: playback does not wait for the clients.
PlayUnready(r) ==
    IF r.state = Buffering /\ MinBuffered < r.n
    THEN [r EXCEPT !.state = Playing] ELSE r

\* Buffering: playback starts when enough is streamed and every client is ready.
Play(r) ==
    IF r.state = Buffering /\ MinBuffered < r.n /\ AllReadyToPlay(r.sess)
    THEN [r EXCEPT !.state = Playing] ELSE r

\* Mutant: a redelivered chunk is offered to every session.
OfferedToAll(s, r, full) ==
    IF ~Live(s) THEN s
    ELSE LET a == Advanced(s, r.rate, r.state = Playing)
         IN  IF Refuses(a, r.http, full) THEN a ELSE Consumed(a, chunk.eos)

\* What streamChunk makes of session s and of the streaming session x it feeds;
\* a session that refused the chunk gets it again, the others do not.
Offered(s, r, full) ==
    IF ~Live(s) \/ r.n < s.seq THEN s
    ELSE LET a == Advanced(s, r.rate, r.state = Playing)
         IN  IF Refuses(a, r.http, full) THEN a ELSE Consumed(a, chunk.eos)

IsFed(h, r, full) ==
    /\ h \notin full
    /\ \E c \in Clients :
         /\ Live(r.sess[c]) /\ r.sess[c].seq <= r.n
         /\ \E a \in {Advanced(r.sess[c], r.rate, r.state = Playing)} :
              a.state \in Feeding /\ a.http = h

AllTook(ss, n) == \A c \in Clients : Live(ss[c]) => n < ss[c].seq

StreamChunk(r, full) ==
    IF r.state \notin Feeding \/ r.rate # chunk.rate THEN r
    ELSE [r EXCEPT
            !.sess = [c \in Clients |-> Offered(r.sess[c], r, full)],
            !.http = [h \in Streams |-> IF IsFed(h, r, full)
                                        THEN Encoded(r.http[h], chunk) ELSE r.http[h]]]

\* Every session has taken the chunk: it is counted and done with.
Count(r) ==
    IF r.state \in Feeding /\ r.rate = chunk.rate /\ AllTook(r.sess, r.n)
    THEN [r EXCEPT !.n = @ + 1, !.done = TRUE] ELSE r

\* Mutant: the last chunk leaves the queue before the clients have drained.
DrainDone(r) ==
    IF r.state \in Feeding /\ (r.rate # chunk.rate \/ chunk.eos)
    THEN [r EXCEPT !.state = Draining] ELSE r

\* The end of the stream, or a chunk of another rate, ends it.
Drain(r) ==
    IF r.state \in Feeding /\ (r.rate # chunk.rate \/ chunk.eos)
    THEN [r EXCEPT !.state = Draining, !.done = FALSE] ELSE r

IsDraining(ss) == \E c \in Clients : Live(ss[c]) /\ ss[c].state = Draining

\* Draining: the stream is over once no client drains.
Flush(r) ==
    IF r.state = Draining /\ ~IsDraining(r.sess)
    THEN [r EXCEPT !.state = Started, !.done = TRUE] ELSE r

\* The Scheduler offers the head of the queue; full are the streaming sessions
\* with fewer than 10 buffers left.  A chunk that is not consumed is kept.
ConsumeChunk ==
    /\ state # Stopped
    /\ \E full \in SUBSET Slow :
       \E r1 \in {Begin(Call)} :
       \E r2 \in {Buffer(r1)} :
       \E r3 \in {Play(r2)} :
       \E r4 \in {StreamChunk(r3, full)} :
       \E r5 \in {Drain(Count(r4))} :
       \E r6 \in {Flush(r5)} :
         /\ state' = r6.state
         /\ samplingRate' = r6.rate
         /\ streamedChunks' = r6.n
         /\ deferExpired' = r6.expired
         /\ sess' = r6.sess
         /\ http' = r6.http
         /\ chunk' \in IF r6.done THEN NextChunks(chunk) ELSE {chunk}

-----------------------------------------------------------------------------
(* Streamer: other handlers *)

\* 2000 ms have passed since preparing started.
DeferTimeout ==
    /\ state = Preparing
    /\ ~deferExpired
    /\ deferExpired' = TRUE
    /\ UNCHANGED <<state, samplingRate, streamedChunks, chunk, sess, http>>

\* stop()
StreamerStop ==
    /\ state # Stopped
    /\ state' = Stopped
    /\ sess' = [c \in Clients |->
                  IF Live(sess[c])
                  THEN [sess[c] EXCEPT !.state = Stopped, !.rate = 0,
                          !.owesFlush = @ \/ sess[c].state \notin {Started, Stopped}]
                  ELSE sess[c]]
    /\ http' = [h \in Streams |-> Stopping(http[h])]
    /\ UNCHANGED <<samplingRate, streamedChunks, deferExpired, chunk>>

SessionStep(c, s) ==
    /\ sess' = [sess EXCEPT ![c] = s]
    /\ UNCHANGED <<state, samplingRate, streamedChunks, deferExpired, chunk>>

OnSlimProtoOpen(c) ==
    /\ sess[c].conn = "new"
    /\ SessionStep(c, [Absent("open") EXCEPT !.state = Started, !.seq = streamedChunks])
    /\ UNCHANGED http

\* The client disconnected, or the connection was closed after an error.
OnSlimProtoClose(c) ==
    /\ Live(sess[c])
    /\ SessionStep(c, Absent("gone"))
    /\ UNCHANGED http

\* The HTTP request of a client that was told to start: a streaming session is
\* created whose encoder has the rate of the current stream.
OnHTTPData(c, h) ==
    /\ Live(sess[c])
    /\ sess[c].dialing
    /\ http[h] = Free
    /\ SessionStep(c, [sess[c] EXCEPT !.http = h, !.dialing = FALSE])
    /\ http' = [http EXCEPT ![h] = [phase |-> "running", client |-> c,
                                    rate |-> samplingRate, last |-> 0]]

\* Mutant: the reference is kept.
OnHTTPCloseKeepsReference(h) ==
    /\ http' = [http EXCEPT ![h] = Free]
    /\ UNCHANGED <<state, samplingRate, streamedChunks, deferExpired, chunk, sess>>

\* The streaming session is removed; the reference of its client's command
\* session, found by the client ID, is reset.
OnHTTPClose(h) ==
    /\ http' = [http EXCEPT ![h] = Free]
    /\ sess' = [c \in Clients |->
                  IF c = http[h].client /\ Live(sess[c])
                  THEN [sess[c] EXCEPT !.http = None] ELSE sess[c]]
    /\ UNCHANGED <<state, samplingRate, streamedChunks, deferExpired, chunk>>

\* The flush callback: the session no longer runs and its connection is stopped.
Flushed(h) ==
    /\ http[h].phase = "flushing"
    /\ http' = [http EXCEPT ![h].phase = "stopped"]
    /\ UNCHANGED <<state, samplingRate, streamedChunks, deferExpired, chunk, sess>>

\* The close callback of a connection the server stopped.
LocalClose(h) == http[h].phase = "stopped" /\ OnHTTPClose(h)

\* The close callback of a connection the client closed.
PeerClose(h) == IsRunning(http[h]) /\ OnHTTPClose(h)

-----------------------------------------------------------------------------
(* CommandSession: handlers of the client's messages.  A connection  *)
(* stopped by the handler of its own data delivers no further messages.        *)

\* The handshake sends Stop and waits for the STMf; it is possible in Started only.
OnHELO(c) ==
    /\ sess[c].conn = "open"
    /\ ~sess[c].helo
    /\ SessionStep(c, IF sess[c].state = Started
                      THEN [sess[c] EXCEPT !.helo = TRUE, !.owesFlush = TRUE,
                                           !.state = Draining]
                      ELSE [sess[c] EXCEPT !.helo = TRUE, !.owesFlush = TRUE,
                                           !.conn = "closing"])
    /\ UNCHANGED http

OnSTMf(c) ==
    /\ sess[c].conn = "open"
    /\ sess[c].owesFlush
    /\ SessionStep(c, [sess[c] EXCEPT !.owesFlush = FALSE,
                         !.state = IF @ = Draining THEN Started ELSE @])
    /\ UNCHANGED http

\* The client has filled its buffer up to the threshold of the Start command.
OnSTMl(c) ==
    /\ sess[c].conn = "open"
    /\ sess[c].helo
    /\ \E h \in Streams : http[h].client = c /\ http[h].last # 0
    /\ SessionStep(c, [sess[c] EXCEPT !.ready = TRUE])
    /\ UNCHANGED http

\* The reply to the last probe of a series.
OnSTMt(c) ==
    /\ sess[c].conn = "open"
    /\ sess[c].helo
    /\ SessionStep(c, [sess[c] EXCEPT !.offset = TRUE])
    /\ UNCHANGED http

\* Mutant: no Stop is sent when the client has run out of data.
OnSTMuWithoutStop(c) ==
    /\ sess[c].conn = "open"
    /\ sess[c].cued
    /\ \A h \in Streams : http[h].client # c
    /\ SessionStep(c, [sess[c] EXCEPT !.cued = FALSE])
    /\ UNCHANGED http

\* The client has played all it received over connections that are closed.
OnSTMu(c) ==
    /\ sess[c].conn = "open"
    /\ sess[c].cued
    /\ \A h \in Streams : http[h].client # c
    /\ SessionStep(c, [sess[c] EXCEPT !.cued = FALSE,
                         !.owesFlush = @ \/ sess[c].state = Draining])
    /\ UNCHANGED http

-----------------------------------------------------------------------------
(* Specification *)

ClientStep(c) ==
    \/ OnSlimProtoOpen(c)
    \/ OnSlimProtoClose(c)
    \/ OnHELO(c)
    \/ OnSTMf(c)
    \/ OnSTMl(c)
    \/ OnSTMt(c)
    \/ OnSTMu(c)
    \/ \E h \in Streams : OnHTTPData(c, h)

HttpStep(h) == Flushed(h) \/ LocalClose(h) \/ PeerClose(h)

Next ==
    \/ ConsumeChunk
    \/ DeferTimeout
    \/ StreamerStop
    \/ \E c \in Clients : ClientStep(c)
    \/ \E h \in Streams : HttpStep(h)

Spec == Init /\ [][Next]_vars

\* The Scheduler's task reschedules itself while the Streamer runs, timers fire,
\* flushes end because a transfer ends or fails, a stopped connection reports its
\* close; a client that was sent Stop answers STMf and one that was unpaused
\* reports when it has played everything (TCP keep-alive closes the others).
FairSpec ==
    /\ Spec
    /\ WF_vars(ConsumeChunk)
    /\ WF_vars(DeferTimeout)
    /\ \A h \in Streams : WF_vars(Flushed(h)) /\ WF_vars(LocalClose(h))
    /\ \A c \in Clients :
         /\ WF_vars(OnSTMf(c)) /\ WF_vars(OnSTMu(c))
         /\ WF_vars(sess[c].conn = "closing" /\ OnSlimProtoClose(c))

-----------------------------------------------------------------------------
(* Properties *)

\* The variables stay in their types: sessions and streaming sessions keep their shape,
\* and the chunk at the head of the queue stays within its stream.
TypeOK ==
    /\ state \in States
    /\ samplingRate \in Rates \cup {0}
    /\ streamedChunks \in Nat
    /\ deferExpired \in BOOLEAN
    /\ chunk \in Chunks
    /\ sess \in [Clients -> Sessions]
    /\ http \in [Streams -> HttpSessions]

\* Redelivery in streamChunk neither repeats a chunk for a session nor lets one
\* fall behind: a session is level with the stream or one chunk ahead of it.
InStep ==
    \A c \in Clients : Live(sess[c]) =>
        sess[c].seq \in {streamedChunks, streamedChunks + 1}

\* The head of the queue is the chunk the Streamer is at: between two calls of
\* consumeChunk no chunk was dropped and none is counted that is still queued.
HeadInStep ==
    /\ state \in {Started, Preparing} => chunk.pos = 1 /\ ~chunk.eos
    /\ state = Preparing => streamedChunks = 0
    /\ state \in Feeding => chunk.pos = streamedChunks + 1
    /\ state \in {Preparing, Draining} \cup Feeding => samplingRate = chunk.rate
    /\ state = Draining => chunk.eos

\* The streamingSession reference is never dangling and never another client's.
RefValid ==
    \A c \in Clients : Live(sess[c]) /\ sess[c].http # None =>
        http[sess[c].http].phase # "free" /\ http[sess[c].http].client = c

\* The stream of a draining session is being closed: the client will see its end,
\* play it out and report STMu.
DrainingEndsStream ==
    \A c \in Clients :
        Live(sess[c]) /\ sess[c].state = Draining /\ sess[c].http # None =>
            http[sess[c].http].phase \in {"flushing", "stopped"}

\* onHTTPClose resets only the reference to the stream that closed: a stream that
\* runs for a connected client is the one its session feeds.
NoOrphanStream ==
    \A h \in Streams :
        http[h].phase = "running" /\ Live(sess[http[h].client]) =>
            sess[http[h].client].http = h

\* Between streams no session still streams: each took the end of the last one.
NoneLeftStreaming ==
    state = Started =>
        \A c \in Clients : Live(sess[c]) => sess[c].state \notin Feeding

\* What a client receives over one connection has no gap, repeats nothing and
\* does not run from one stream into the next.
Contiguous ==
    [][\A h \in Streams :
          http[h].last # 0 /\ http'[h].phase # "free" =>
              http'[h].last \in {http[h].last, http[h].last + 1}]_vars

\* When playback starts, it starts in the same call for every connected client.
StartTogether ==
    [][state = Buffering /\ state' = Playing =>
          \A c \in Clients : Live(sess'[c]) => sess'[c].state = Playing]_vars

\* A client that does not get ready delays a stream by the time-out, not forever.
PreparingEnds == state = Preparing ~> state # Preparing

\* A session whose draining has an end in sight: its client plays, or owes an
\* STMf, or its connection is being closed.
WillFlush(s) == s.cued \/ s.owesFlush \/ s.conn = "closing"

\* When every draining client is one that plays or is being flushed, the Streamer
\* gets back to Started (or is stopped).
PlayedOutDrains ==
    (state = Draining /\ \A c \in Clients :
        Live(sess[c]) /\ sess[c].state = Draining => WillFlush(sess[c]))
    ~> state # Draining
=============================================================================
