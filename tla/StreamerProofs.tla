---------------------------- MODULE StreamerProofs ----------------------------
(***************************************************************************)
(* Proofs about Streamer, for every set of clients and connections, every  *)
(* set of rates and every bound.  A call of consumeChunk is a sequence of  *)
(* stages; each lemma about a stage says what it preserves of the state of *)
(* the call, and the step of ConsumeChunk chains the lemmas.               *)
(***************************************************************************)
EXTENDS Streamer, TLAPS

\* The state of a call of consumeChunk.
Calls == [state : States, rate : Rates \cup {0}, n : Nat, expired : BOOLEAN,
          sess : [Clients -> Sessions], http : [Streams -> HttpSessions],
          done : BOOLEAN]

\* Only the end of a stream is at the last position: with it TypeOK is inductive.
TypeInv == TypeOK /\ (~chunk.eos => chunk.pos <= MaxChunks)

-----------------------------------------------------------------------------
(* Updates of a session, one or two fields at a time *)

\* A session may be put into any state of its state machine.
LEMMA StateUpdate ==
    ASSUME NEW s \in Sessions, NEW t \in States
    PROVE  [s EXCEPT !.state = t] \in Sessions
BY DEF Sessions, States

\* A session may be put at any position in the stream.
LEMMA SeqUpdate ==
    ASSUME NEW s \in Sessions, NEW n \in Nat
    PROVE  [s EXCEPT !.seq = n] \in Sessions
BY DEF Sessions

\* The Start command leaves a well-formed session.
LEMMA StartUpdate ==
    ASSUME NEW s \in Sessions, NEW r \in Rates \cup {0}
    PROVE  [s EXCEPT !.state = Preparing, !.rate = r, !.ready = FALSE,
                     !.http = None, !.dialing = TRUE, !.cued = FALSE] \in Sessions
BY DEF Sessions, States, Preparing

-----------------------------------------------------------------------------
(* What the helpers keep and what they change *)

\* prepare() keeps the connection and the position, and the reference or resets it.
LEMMA PreparedFacts ==
    ASSUME NEW s \in Sessions, NEW r \in Rates \cup {0}
    PROVE  /\ Prepared(s, r) \in Sessions
           /\ Prepared(s, r).conn = s.conn
           /\ Prepared(s, r).seq = s.seq
           /\ Prepared(s, r).http \in {s.http, None}
<1>1. CASE s.state = Started /\ r # 0
  <2> DEFINE t == [s EXCEPT !.state = Preparing, !.rate = r, !.ready = FALSE,
                            !.http = None, !.dialing = TRUE, !.cued = FALSE]
  <2>1. Prepared(s, r) = t
    BY <1>1 DEF Prepared, Started, Preparing, Feeding, Buffering, Playing
  <2>2. t \in Sessions
    BY StartUpdate
  <2>3. t.conn = s.conn /\ t.seq = s.seq /\ t.http = None
    BY DEF Sessions
  <2> QED BY <2>1, <2>2, <2>3
<1>2. CASE s.state \in {Preparing} \cup Feeding
  <2>1. Prepared(s, r) = [s EXCEPT !.rate = r]
    BY <1>2 DEF Prepared, Started, Preparing, Feeding, Buffering, Playing
  <2>2. [s EXCEPT !.rate = r] \in Sessions
    BY DEF Sessions
  <2>3. /\ [s EXCEPT !.rate = r].conn = s.conn
        /\ [s EXCEPT !.rate = r].seq = s.seq
        /\ [s EXCEPT !.rate = r].http = s.http
    BY DEF Sessions
  <2> QED BY <2>1, <2>2, <2>3
<1>3. CASE ~(s.state = Started /\ r # 0) /\ s.state \notin {Preparing} \cup Feeding
  BY <1>3 DEF Prepared
<1> QED BY <1>1, <1>2, <1>3

\* The transitions before a chunk is handed over keep connection and position.
LEMMA AdvancedFacts ==
    ASSUME NEW s \in Sessions, NEW r \in Rates \cup {0}, NEW p \in BOOLEAN
    PROVE  /\ Advanced(s, r, p) \in Sessions
           /\ Advanced(s, r, p).conn = s.conn
           /\ Advanced(s, r, p).seq = s.seq
           /\ Advanced(s, r, p).http \in {s.http, None}
<1> DEFINE q == IF s.state = Started THEN Prepared(s, r) ELSE s
           b == IF q.state = Preparing /\ IsReadyToBuffer(q)
                THEN [q EXCEPT !.state = Buffering] ELSE q
           a == IF b.state = Buffering /\ p /\ IsReadyToPlay(b)
                THEN [b EXCEPT !.state = Playing, !.cued = TRUE] ELSE b
           Kept(x) == /\ x \in Sessions
                      /\ x.conn = s.conn
                      /\ x.seq = s.seq
                      /\ x.http \in {s.http, None}
<1>1. Kept(q)
  BY PreparedFacts
<1>2. ASSUME NEW x, Kept(x)
      PROVE  Kept([x EXCEPT !.state = Buffering])
  <2>1. [x EXCEPT !.state = Buffering] \in Sessions
    BY <1>2, StateUpdate DEF States
  <2> QED BY <1>2, <2>1 DEF Sessions
<1>3. Kept(b)
  <2> HIDE DEF q, Kept
  <2> QED BY <1>1, <1>2
<1>4. ASSUME NEW x, Kept(x)
      PROVE  Kept([x EXCEPT !.state = Playing, !.cued = TRUE])
  <2>1. [x EXCEPT !.state = Playing, !.cued = TRUE] \in Sessions
    BY <1>4 DEF Sessions, States, Playing
  <2> QED BY <1>4, <2>1 DEF Sessions
<1>5. Kept(a)
  <2> HIDE DEF b, Kept
  <2> QED BY <1>3, <1>4
<1>6. Advanced(s, r, p) = a
  BY DEF Advanced
<1> HIDE DEF a
<1> QED BY <1>5, <1>6

\* A session that consumed a chunk is one chunk further; it may drain.
LEMMA ConsumedFacts ==
    ASSUME NEW s \in Sessions, NEW eos \in BOOLEAN
    PROVE  /\ Consumed(s, eos) \in Sessions
           /\ Consumed(s, eos).conn = s.conn
           /\ Consumed(s, eos).seq = s.seq + 1
           /\ Consumed(s, eos).http = s.http
<1> DEFINE t == [s EXCEPT !.seq = @ + 1]
<1>1. t \in Sessions /\ t.conn = s.conn /\ t.seq = s.seq + 1 /\ t.http = s.http
  BY DEF Sessions
<1>2. Consumed(s, eos) \in {t, [t EXCEPT !.state = Draining]}
  BY DEF Consumed
<1> HIDE DEF t
<1>3. [t EXCEPT !.state = Draining] \in Sessions
  BY <1>1, StateUpdate DEF States
<1>4. /\ [t EXCEPT !.state = Draining].conn = t.conn
      /\ [t EXCEPT !.state = Draining].seq = t.seq
      /\ [t EXCEPT !.state = Draining].http = t.http
  BY <1>1 DEF Sessions
<1> QED BY <1>1, <1>2, <1>3, <1>4

\* Neither stopping nor encoding frees a streaming session or changes its client.
LEMMA StoppingFacts ==
    ASSUME NEW x \in HttpSessions
    PROVE  /\ Stopping(x) \in HttpSessions
           /\ Stopping(x).client = x.client
           /\ (Stopping(x).phase = "free") <=> (x.phase = "free")
BY DEF Stopping, HttpSessions, IsRunning

\* Encoding a chunk keeps the client of a streaming session and frees none.
LEMMA EncodedFacts ==
    ASSUME NEW x \in HttpSessions, NEW k \in Chunks
    PROVE  /\ Encoded(x, k) \in HttpSessions
           /\ Encoded(x, k).client = x.client
           /\ (Encoded(x, k).phase = "free") <=> (x.phase = "free")
<1>1. k.pos \in 0..(MaxChunks + 1)
  BY BoundsAssumption DEF Chunks
<1>2. ASSUME NEW y \in HttpSessions
      PROVE  /\ [y EXCEPT !.last = k.pos] \in HttpSessions
             /\ [y EXCEPT !.last = k.pos].client = y.client
             /\ [y EXCEPT !.last = k.pos].phase = y.phase
  BY <1>1 DEF HttpSessions
<1>3. Encoded(x, k) \in {x, Stopping(x), [Stopping(x) EXCEPT !.last = k.pos],
                         [x EXCEPT !.last = k.pos]}
  BY DEF Encoded
<1> QED BY <1>2, <1>3, StoppingFacts, ZenonT(40)

-----------------------------------------------------------------------------
(* The stages of consumeChunk *)

\* InStep, of a call.
InStepOf(r) == \A c \in Clients : Live(r.sess[c]) => r.sess[c].seq \in {r.n, r.n + 1}

\* A stage keeps the connections and the clients of the streams; it frees no
\* stream, and a reference is kept or reset.
Keeps(r, q) ==
    /\ \A c \in Clients : q.sess[c].conn = r.sess[c].conn
    /\ \A c \in Clients : q.sess[c].http \in {r.sess[c].http, None}
    /\ \A h \in Streams : q.http[h].client = r.http[h].client
    /\ \A h \in Streams : (q.http[h].phase = "free") <=> (r.http[h].phase = "free")

\* The stages that change only the state of the call.
LEMMA CallUpdate ==
    ASSUME NEW r \in Calls, NEW t \in States
    PROVE  /\ [r EXCEPT !.state = t] \in Calls
           /\ [r EXCEPT !.state = t].sess = r.sess
           /\ [r EXCEPT !.state = t].http = r.http
           /\ [r EXCEPT !.state = t].n = r.n
BY DEF Calls

\* A stage that sets the state and the result changes nothing else.
LEMMA CallDone ==
    ASSUME NEW r \in Calls, NEW t \in States, NEW d \in BOOLEAN
    PROVE  /\ [r EXCEPT !.state = t, !.done = d] \in Calls
           /\ [r EXCEPT !.state = t, !.done = d].sess = r.sess
           /\ [r EXCEPT !.state = t, !.done = d].http = r.http
           /\ [r EXCEPT !.state = t, !.done = d].n = r.n
BY DEF Calls

\* A stage that counts the chunk changes the counter and the result only.
LEMMA CallCounted ==
    ASSUME NEW r \in Calls, NEW n \in Nat
    PROVE  /\ [r EXCEPT !.n = n, !.done = TRUE] \in Calls
           /\ [r EXCEPT !.n = n, !.done = TRUE].sess = r.sess
           /\ [r EXCEPT !.n = n, !.done = TRUE].http = r.http
           /\ [r EXCEPT !.n = n, !.done = TRUE].n = n
BY DEF Calls

\* The start of a stream resets the counter and every position together.
LEMMA BeginStage ==
    ASSUME chunk \in Chunks, NEW r \in Calls
    PROVE  /\ Begin(r) \in Calls
           /\ Keeps(r, Begin(r))
           /\ InStepOf(r) => InStepOf(Begin(r))
<1>1. CASE r.state # Started
  BY <1>1 DEF Begin, Keeps
<1>2. CASE r.state = Started
  <2> DEFINE s(c) == IF Live(r.sess[c])
                     THEN [Prepared(r.sess[c], chunk.rate) EXCEPT !.seq = 0]
                     ELSE r.sess[c]
             ss == [c \in Clients |-> s(c)]
             q == [r EXCEPT !.state = Preparing, !.rate = chunk.rate, !.n = 0,
                            !.expired = FALSE, !.sess = ss]
  <2>1. Begin(r) = q
    BY <1>2 DEF Begin
  <2>2. chunk.rate \in Rates
    BY DEF Chunks
  <2>3. ASSUME NEW c \in Clients
        PROVE  /\ s(c) \in Sessions
               /\ s(c).conn = r.sess[c].conn
               /\ s(c).http \in {r.sess[c].http, None}
               /\ Live(s(c)) => s(c).seq = 0
    <3>1. r.sess[c] \in Sessions
      BY DEF Calls
    <3> DEFINE p == Prepared(r.sess[c], chunk.rate)
    <3>2. p \in Sessions /\ p.conn = r.sess[c].conn /\ p.http \in {r.sess[c].http, None}
      BY <2>2, <3>1, PreparedFacts
    <3> HIDE DEF p
    <3>3. /\ [p EXCEPT !.seq = 0] \in Sessions
          /\ [p EXCEPT !.seq = 0].conn = p.conn
          /\ [p EXCEPT !.seq = 0].http = p.http
          /\ [p EXCEPT !.seq = 0].seq = 0
      BY <3>2 DEF Sessions
    <3> QED BY <3>1, <3>2, <3>3 DEF Live, p
  <2> HIDE DEF s
  <2>4. ss \in [Clients -> Sessions]
    BY <2>3
  <2> HIDE DEF ss
  <2>5. q \in Calls /\ q.n = 0 /\ q.sess = ss /\ q.http = r.http
    BY <2>2, <2>4 DEF Calls, States, Preparing
  <2> HIDE DEF q
  <2>6. Keeps(r, q)
    BY <2>3, <2>5 DEF Keeps, ss
  <2>7. InStepOf(q)
    BY <2>3, <2>5 DEF InStepOf, ss
  <2> QED BY <2>1, <2>5, <2>6, <2>7
<1> QED BY <1>1, <1>2

\* Entering Buffering changes the state of the call only.
LEMMA BufferStage ==
    ASSUME NEW r \in Calls
    PROVE  /\ Buffer(r) \in Calls
           /\ Buffer(r).sess = r.sess /\ Buffer(r).http = r.http /\ Buffer(r).n = r.n
<1>1. Buffer(r) \in {r, [r EXCEPT !.state = Buffering]}
  BY DEF Buffer
<1> QED BY <1>1, CallUpdate, ZenonT(40) DEF States

\* Entering Playing changes the state of the call only.
LEMMA PlayStage ==
    ASSUME NEW r \in Calls
    PROVE  /\ Play(r) \in Calls
           /\ Play(r).sess = r.sess /\ Play(r).http = r.http /\ Play(r).n = r.n
<1>1. Play(r) \in {r, [r EXCEPT !.state = Playing]}
  BY DEF Play
<1> QED BY <1>1, CallUpdate DEF States

\* The session keeps its connection and its position, or takes one chunk if the
\* stream is not behind it.
LEMMA OfferedFacts ==
    ASSUME chunk \in Chunks, NEW r \in Calls, NEW s \in Sessions, NEW full
    PROVE  /\ Offered(s, r, full) \in Sessions
           /\ Offered(s, r, full).conn = s.conn
           /\ Offered(s, r, full).http \in {s.http, None}
           /\ \/ Offered(s, r, full).seq = s.seq
              \/ s.seq <= r.n /\ Offered(s, r, full).seq = s.seq + 1
<1> DEFINE a == Advanced(s, r.rate, r.state = Playing)
<1>1. r.rate \in Rates \cup {0} /\ (r.state = Playing) \in BOOLEAN /\ r.n \in Nat
  BY DEF Calls
<1>2. /\ a \in Sessions /\ a.conn = s.conn /\ a.seq = s.seq
      /\ a.http \in {s.http, None}
  BY <1>1, AdvancedFacts
<1>3. chunk.eos \in BOOLEAN
  BY DEF Chunks
<1>4. CASE ~Live(s) \/ r.n < s.seq
  BY <1>4 DEF Offered
<1>5. CASE ~(~Live(s) \/ r.n < s.seq)
  <2>1. Offered(s, r, full) \in {a, Consumed(a, chunk.eos)}
    BY <1>5 DEF Offered
  <2>2. s.seq <= r.n
    BY <1>1, <1>5 DEF Sessions
  <2> HIDE DEF a
  <2> QED BY <1>2, <1>3, <2>1, <2>2, ConsumedFacts
<1> QED BY <1>4, <1>5

\* Offering the chunk to all sessions keeps them in step with the counter.
LEMMA StreamChunkStage ==
    ASSUME chunk \in Chunks, NEW r \in Calls, NEW full
    PROVE  /\ StreamChunk(r, full) \in Calls
           /\ Keeps(r, StreamChunk(r, full))
           /\ StreamChunk(r, full).n = r.n
           /\ InStepOf(r) => InStepOf(StreamChunk(r, full))
<1>1. CASE r.state \notin Feeding \/ r.rate # chunk.rate
  BY <1>1 DEF StreamChunk, Keeps
<1>2. CASE ~(r.state \notin Feeding \/ r.rate # chunk.rate)
  <2> DEFINE ss == [c \in Clients |-> Offered(r.sess[c], r, full)]
             hs == [h \in Streams |-> IF IsFed(h, r, full)
                                      THEN Encoded(r.http[h], chunk) ELSE r.http[h]]
             q == [r EXCEPT !.sess = ss, !.http = hs]
  <2>1. StreamChunk(r, full) = q
    BY <1>2 DEF StreamChunk
  <2>2. ASSUME NEW c \in Clients
        PROVE  /\ ss[c] \in Sessions /\ ss[c].conn = r.sess[c].conn
               /\ ss[c].http \in {r.sess[c].http, None}
               /\ \/ ss[c].seq = r.sess[c].seq
                  \/ r.sess[c].seq <= r.n /\ ss[c].seq = r.sess[c].seq + 1
    BY OfferedFacts DEF Calls
  <2>3. ASSUME NEW h \in Streams
        PROVE  /\ hs[h] \in HttpSessions
               /\ hs[h].client = r.http[h].client
               /\ (hs[h].phase = "free") <=> (r.http[h].phase = "free")
    BY EncodedFacts DEF Calls
  <2>4. ss \in [Clients -> Sessions] /\ hs \in [Streams -> HttpSessions]
    <3>1. \A c \in Clients : ss[c] \in Sessions
      BY <2>2
    <3>2. \A h \in Streams : hs[h] \in HttpSessions
      BY <2>3
    <3> QED BY <3>1, <3>2
  <2> HIDE DEF ss, hs
  <2>5. q \in Calls /\ q.sess = ss /\ q.http = hs /\ q.n = r.n
    BY <2>4 DEF Calls
  <2> HIDE DEF q
  <2>6. Keeps(r, q)
    BY <2>2, <2>3, <2>5 DEF Keeps
  <2>7. ASSUME InStepOf(r) PROVE InStepOf(q)
    <3> SUFFICES ASSUME NEW c \in Clients, Live(q.sess[c])
                 PROVE  q.sess[c].seq \in {q.n, q.n + 1}
      BY DEF InStepOf
    <3>1. r.sess[c].seq \in {r.n, r.n + 1} /\ r.n \in Nat
      BY <2>2, <2>5, <2>7 DEF InStepOf, Live, Calls
    <3> QED BY <2>2, <2>5, <3>1
  <2> QED BY <2>1, <2>5, <2>6, <2>7
<1> QED BY <1>1, <1>2

\* The stream moves on only when every session is ahead of it.
LEMMA CountStage ==
    ASSUME NEW r \in Calls
    PROVE  /\ Count(r) \in Calls
           /\ Count(r).sess = r.sess /\ Count(r).http = r.http
           /\ InStepOf(r) => InStepOf(Count(r))
<1>1. CASE r.state \in Feeding /\ r.rate = chunk.rate /\ AllTook(r.sess, r.n)
  <2> DEFINE q == [r EXCEPT !.n = @ + 1, !.done = TRUE]
  <2>1. Count(r) = q
    BY <1>1 DEF Count
  <2>2. q \in Calls /\ q.sess = r.sess /\ q.http = r.http /\ q.n = r.n + 1
    <3>1. r.n + 1 \in Nat
      BY DEF Calls
    <3> QED BY <3>1, CallCounted
  <2> HIDE DEF q
  <2>3. ASSUME InStepOf(r) PROVE InStepOf(q)
    BY <1>1, <2>2, <2>3 DEF InStepOf, AllTook, Calls
  <2> QED BY <2>1, <2>2, <2>3
<1>2. CASE ~(r.state \in Feeding /\ r.rate = chunk.rate /\ AllTook(r.sess, r.n))
  BY <1>2 DEF Count
<1> QED BY <1>1, <1>2

\* Entering Draining changes the state and the result of the call only.
LEMMA DrainStage ==
    ASSUME NEW r \in Calls
    PROVE  /\ Drain(r) \in Calls
           /\ Drain(r).sess = r.sess /\ Drain(r).http = r.http /\ Drain(r).n = r.n
<1> DEFINE t == [r EXCEPT !.state = Draining, !.done = FALSE]
<1>1. Drain(r) = r \/ Drain(r) = t
  BY DEF Drain
<1>2. Draining \in States /\ FALSE \in BOOLEAN
  BY DEF States
<1>3. t \in Calls /\ t.sess = r.sess /\ t.http = r.http /\ t.n = r.n
  BY <1>2, CallDone
<1> HIDE DEF t
<1> QED BY <1>1, <1>3

\* Leaving Draining changes the state and the result of the call only.
LEMMA FlushStage ==
    ASSUME NEW r \in Calls
    PROVE  /\ Flush(r) \in Calls
           /\ Flush(r).sess = r.sess /\ Flush(r).http = r.http /\ Flush(r).n = r.n
<1> DEFINE t == [r EXCEPT !.state = Started, !.done = TRUE]
<1>1. Flush(r) = r \/ Flush(r) = t
  BY DEF Flush
<1>2. Started \in States /\ TRUE \in BOOLEAN
  BY DEF States
<1>3. t \in Calls /\ t.sess = r.sess /\ t.http = r.http /\ t.n = r.n
  BY <1>2, CallDone
<1> HIDE DEF t
<1> QED BY <1>1, <1>3

-----------------------------------------------------------------------------
(* ConsumeChunk *)

\* A call starts from a well-formed state.
LEMMA CallType ==
    ASSUME TypeOK
    PROVE  Call \in Calls
BY DEF TypeOK, Call, Calls

\* A source puts chunks of its own rate, at positions in range, into its queue.
LEMMA NextChunksType ==
    ASSUME NEW k \in Chunks, ~k.eos => k.pos <= MaxChunks, NEW l \in NextChunks(k)
    PROVE  l \in Chunks /\ (~l.eos => l.pos <= MaxChunks)
<1> USE BoundsAssumption
<1>1. CASE k.eos
  <2>1. l \in [rate : Rates, eos : {FALSE}, pos : {1}]
    BY <1>1 DEF NextChunks
  <2>2. l.pos = 1 /\ 1 \in 1..(MaxChunks + 1) /\ 1 <= MaxChunks
    BY <2>1
  <2> QED BY <2>1, <2>2 DEF Chunks
<1>2. CASE ~k.eos
  <2>1. \/ l \in [rate : {k.rate}, eos : {TRUE}, pos : {k.pos + 1}]
        \/ k.pos < MaxChunks /\ l \in [rate : {k.rate}, eos : {FALSE}, pos : {k.pos + 1}]
    BY <1>2 DEF NextChunks
  <2>2. k.pos \in 1..MaxChunks /\ k.rate \in Rates
    BY <1>2 DEF Chunks
  <2>3. k.pos + 1 \in 1..(MaxChunks + 1) /\ (k.pos < MaxChunks => k.pos + 1 <= MaxChunks)
    BY <2>2
  <2> QED BY <2>1, <2>2, <2>3 DEF Chunks
<1> QED BY <1>1, <1>2

\* What a call of consumeChunk leaves: a call state r reached from the current one
\* by stages, whose components are the new values of the variables.
LEMMA ConsumeChunkOutcome ==
    ASSUME TypeOK, ConsumeChunk
    PROVE  \E r \in Calls :
              /\ state' = r.state /\ samplingRate' = r.rate /\ streamedChunks' = r.n
              /\ deferExpired' = r.expired /\ sess' = r.sess /\ http' = r.http
              /\ chunk' \in NextChunks(chunk) \cup {chunk}
              /\ Keeps(Call, r)
              /\ InStepOf(Call) => InStepOf(r)
<1>1. PICK full \in SUBSET Slow :
      \E r1 \in {Begin(Call)} :
      \E r2 \in {Buffer(r1)} :
      \E r3 \in {Play(r2)} :
      \E r4 \in {StreamChunk(r3, full)} :
      \E r5 \in {Drain(Count(r4))} :
      \E r6 \in {Flush(r5)} :
         /\ state' = r6.state
         /\ samplingRate' = r6.rate
         /\ streamedChunks' = r6.n
         /\ deferExpired' = r6.expired
         /\ sess' = r6.sess
         /\ http' = r6.http
         /\ chunk' \in IF r6.done THEN NextChunks(chunk) ELSE {chunk}
  BY DEF ConsumeChunk
<1> DEFINE r1 == Begin(Call)
           r2 == Buffer(r1)
           r3 == Play(r2)
           r4 == StreamChunk(r3, full)
           r5 == Count(r4)
           r6 == Drain(r5)
           r7 == Flush(r6)
<1>2. chunk \in Chunks
  BY DEF TypeOK
<1>3. /\ state' = r7.state /\ samplingRate' = r7.rate /\ streamedChunks' = r7.n
      /\ deferExpired' = r7.expired /\ sess' = r7.sess /\ http' = r7.http
      /\ chunk' \in NextChunks(chunk) \cup {chunk}
  BY <1>1
<1>4. r1 \in Calls /\ Keeps(Call, r1) /\ (InStepOf(Call) => InStepOf(r1))
  BY <1>2, CallType, BeginStage
<1> HIDE DEF r1
<1>5. r2 \in Calls /\ r2.sess = r1.sess /\ r2.http = r1.http /\ r2.n = r1.n
  BY <1>4, BufferStage
<1> HIDE DEF r2
<1>6. r3 \in Calls /\ r3.sess = r2.sess /\ r3.http = r2.http /\ r3.n = r2.n
  BY <1>5, PlayStage
<1> HIDE DEF r3
<1>7. r4 \in Calls /\ Keeps(r3, r4) /\ (InStepOf(r3) => InStepOf(r4))
  BY <1>2, <1>6, StreamChunkStage
<1> HIDE DEF r4
<1>8. r5 \in Calls /\ r5.sess = r4.sess /\ r5.http = r4.http
      /\ (InStepOf(r4) => InStepOf(r5))
  BY <1>7, CountStage
<1> HIDE DEF r5
<1>9. r6 \in Calls /\ r6.sess = r5.sess /\ r6.http = r5.http /\ r6.n = r5.n
  BY <1>8, DrainStage
<1> HIDE DEF r6
<1>10. r7 \in Calls /\ r7.sess = r6.sess /\ r7.http = r6.http /\ r7.n = r6.n
  BY <1>9, FlushStage
<1> HIDE DEF r7
<1>11. Keeps(Call, r7)
  <2>1. r3.sess = r1.sess /\ r3.http = r1.http /\ r7.sess = r4.sess /\ r7.http = r4.http
    BY <1>5, <1>6, <1>8, <1>9, <1>10
  <2>2. ASSUME NEW c \in Clients
        PROVE  /\ r7.sess[c].conn = Call.sess[c].conn
               /\ r7.sess[c].http \in {Call.sess[c].http, None}
    BY <1>4, <1>7, <2>1 DEF Keeps
  <2>3. ASSUME NEW h \in Streams
        PROVE  /\ r7.http[h].client = Call.http[h].client
               /\ (r7.http[h].phase = "free") <=> (Call.http[h].phase = "free")
    <3>1. /\ r1.http[h].client = Call.http[h].client
          /\ (r1.http[h].phase = "free") <=> (Call.http[h].phase = "free")
      BY <1>4 DEF Keeps
    <3>2. /\ r4.http[h].client = r3.http[h].client
          /\ (r4.http[h].phase = "free") <=> (r3.http[h].phase = "free")
      BY <1>7 DEF Keeps
    <3> QED BY <3>1, <3>2, <2>1
  <2> QED BY <2>2, <2>3 DEF Keeps
<1>12. InStepOf(Call) => InStepOf(r7)
  BY <1>4, <1>5, <1>6, <1>7, <1>8, <1>9, <1>10 DEF InStepOf
<1> QED BY <1>3, <1>10, <1>11, <1>12

-----------------------------------------------------------------------------
(* Type correctness *)

\* The Streamer starts in a well-formed state.
LEMMA TypeInit == Init => TypeInv
<1> SUFFICES ASSUME Init PROVE TypeInv
  OBVIOUS
<1> USE BoundsAssumption DEF Init
<1>1. Absent("new") \in Sessions
  BY DEF Absent, Sessions, States
<1>2. Free \in HttpSessions
  BY DEF Free, HttpSessions
<1>3. chunk \in Chunks /\ (~chunk.eos => chunk.pos <= MaxChunks)
  <2>1. chunk \in [rate : Rates, eos : {FALSE}, pos : {1}]
    OBVIOUS
  <2>2. chunk.pos = 1 /\ 1 \in 1..(MaxChunks + 1) /\ 1 <= MaxChunks
    BY <2>1
  <2> QED BY <2>1, <2>2 DEF Chunks
<1>4. state \in States /\ samplingRate \in Rates \cup {0} /\ streamedChunks \in Nat
      /\ deferExpired \in BOOLEAN
  BY DEF States
<1> QED BY <1>1, <1>2, <1>3, <1>4 DEF TypeInv, TypeOK

\* An action that changes one session and keeps the Streamer's own state.
LEMMA SessionStepType ==
    ASSUME TypeOK, NEW c \in Clients, NEW s \in Sessions, SessionStep(c, s)
    PROVE  /\ sess' \in [Clients -> Sessions]
           /\ sess'[c] = s
           /\ \A d \in Clients \ {c} : sess'[d] = sess[d]
BY DEF TypeOK, SessionStep

\* The session a handler leaves, for each handler that changes one session.
LEMMA OpenedType ==
    ASSUME NEW n \in Nat
    PROVE  /\ [Absent("open") EXCEPT !.state = Started, !.seq = n] \in Sessions
           /\ [Absent("open") EXCEPT !.state = Started, !.seq = n].http = None
           /\ [Absent("open") EXCEPT !.state = Started, !.seq = n].seq = n
BY DEF Absent, Sessions, States, Started

\* A closed command session is out of the commandSessions map.
LEMMA GoneType == Absent("gone") \in Sessions /\ ~Live(Absent("gone"))
BY DEF Absent, Sessions, States, Live

\* A session takes the reference to the streaming session made for it.
LEMMA HTTPDataType ==
    ASSUME NEW s \in Sessions, NEW h \in Streams
    PROVE  /\ [s EXCEPT !.http = h, !.dialing = FALSE] \in Sessions
           /\ [s EXCEPT !.http = h, !.dialing = FALSE].conn = s.conn
           /\ [s EXCEPT !.http = h, !.dialing = FALSE].seq = s.seq
           /\ [s EXCEPT !.http = h, !.dialing = FALSE].http = h
BY DEF Sessions

\* The session after a message of its client: same place in the stream, same
\* reference, and not live unless it was.
SameStream(s, t) ==
    /\ t \in Sessions
    /\ t.seq = s.seq
    /\ t.http = s.http
    /\ Live(t) => Live(s)

\* A handshake, accepted or refused, does not touch the place in the stream.
LEMMA HELOSame ==
    ASSUME NEW s \in Sessions, s.conn = "open"
    PROVE  SameStream(s, IF s.state = Started
                         THEN [s EXCEPT !.helo = TRUE, !.owesFlush = TRUE,
                                        !.state = Draining]
                         ELSE [s EXCEPT !.helo = TRUE, !.owesFlush = TRUE,
                                        !.conn = "closing"])
<1>1. SameStream(s, [s EXCEPT !.helo = TRUE, !.owesFlush = TRUE, !.state = Draining])
  BY DEF SameStream, Sessions, States, Draining, Live
<1>2. SameStream(s, [s EXCEPT !.helo = TRUE, !.owesFlush = TRUE, !.conn = "closing"])
  BY DEF SameStream, Sessions, Live
<1> QED BY <1>1, <1>2

\* The answer to Stop does not touch the place in the stream.
LEMMA STMfSame ==
    ASSUME NEW s \in Sessions
    PROVE  SameStream(s, [s EXCEPT !.owesFlush = FALSE,
                            !.state = IF @ = Draining THEN Started ELSE @])
<1>1. (IF s.state = Draining THEN Started ELSE s.state) \in States
  BY DEF Sessions, States
<1> QED BY <1>1 DEF SameStream, Sessions, Live

\* The client's buffer being ready does not touch the place in the stream.
LEMMA STMlSame ==
    ASSUME NEW s \in Sessions
    PROVE  SameStream(s, [s EXCEPT !.ready = TRUE])
BY DEF SameStream, Sessions, Live

\* The end of a series of probes does not touch the place in the stream.
LEMMA STMtSame ==
    ASSUME NEW s \in Sessions
    PROVE  SameStream(s, [s EXCEPT !.offset = TRUE])
BY DEF SameStream, Sessions, Live

\* The client running out of data does not touch the place in the stream.
LEMMA STMuSame ==
    ASSUME NEW s \in Sessions
    PROVE  SameStream(s, [s EXCEPT !.cued = FALSE,
                            !.owesFlush = @ \/ s.state = Draining])
BY DEF SameStream, Sessions, Live

\* Stopping the Streamer does not touch a session's place in the stream.
LEMMA StopSame ==
    ASSUME NEW s \in Sessions
    PROVE  SameStream(s, [s EXCEPT !.state = Stopped, !.rate = 0,
                            !.owesFlush = @ \/ s.state \notin {Started, Stopped}])
<1>1. (s.owesFlush \/ s.state \notin {Started, Stopped}) \in BOOLEAN
  BY DEF Sessions
<1> QED BY <1>1 DEF SameStream, Sessions, States, Live

\* Every message leaves its session at its place in the stream.
LEMMA MessageStep ==
    ASSUME TypeOK, NEW c \in Clients,
           OnHELO(c) \/ OnSTMf(c) \/ OnSTMl(c) \/ OnSTMt(c) \/ OnSTMu(c)
    PROVE  \E t \in Sessions :
              SameStream(sess[c], t) /\ SessionStep(c, t) /\ http' = http
<1>1. sess[c] \in Sessions
  BY DEF TypeOK
<1>2. CASE OnHELO(c)
  BY <1>1, <1>2, HELOSame DEF OnHELO, SameStream
<1>3. CASE OnSTMf(c)
  BY <1>1, <1>3, STMfSame DEF OnSTMf, SameStream
<1>4. CASE OnSTMl(c)
  BY <1>1, <1>4, STMlSame DEF OnSTMl, SameStream
<1>5. CASE OnSTMt(c)
  BY <1>1, <1>5, STMtSame DEF OnSTMt, SameStream
<1>6. CASE OnSTMu(c)
  BY <1>1, <1>6, STMuSame DEF OnSTMu, SameStream
<1> QED BY <1>2, <1>3, <1>4, <1>5, <1>6

\* onHTTPClose resets a reference at most.
LEMMA HTTPCloseStep ==
    ASSUME TypeOK, NEW h \in Streams, OnHTTPClose(h)
    PROVE  /\ sess' \in [Clients -> Sessions]
           /\ \A c \in Clients : /\ sess'[c].conn = sess[c].conn
                                 /\ sess'[c].seq = sess[c].seq
                                 /\ sess'[c].http = IF c = http[h].client /\ Live(sess[c])
                                                    THEN None ELSE sess[c].http
           /\ http' \in [Streams -> HttpSessions]
<1>1. ASSUME NEW s \in Sessions
      PROVE  /\ [s EXCEPT !.http = None] \in Sessions
             /\ [s EXCEPT !.http = None].conn = s.conn
             /\ [s EXCEPT !.http = None].seq = s.seq
             /\ [s EXCEPT !.http = None].http = None
  BY DEF Sessions
<1>2. sess' = [c \in Clients |-> IF c = http[h].client /\ Live(sess[c])
                                 THEN [sess[c] EXCEPT !.http = None] ELSE sess[c]]
  BY DEF OnHTTPClose
<1>3. \A c \in Clients : sess[c] \in Sessions
  BY DEF TypeOK
<1>4. Free \in HttpSessions
  BY BoundsAssumption DEF Free, HttpSessions
<1>5. http' \in [Streams -> HttpSessions]
  BY <1>4 DEF OnHTTPClose, TypeOK
<1>6. ASSUME NEW c \in Clients
      PROVE  /\ sess'[c] \in Sessions
             /\ sess'[c].conn = sess[c].conn
             /\ sess'[c].seq = sess[c].seq
             /\ sess'[c].http = IF c = http[h].client /\ Live(sess[c])
                                THEN None ELSE sess[c].http
  <2>1. CASE c = http[h].client /\ Live(sess[c])
    BY <1>1, <1>2, <1>3, <2>1
  <2>2. CASE ~(c = http[h].client /\ Live(sess[c]))
    BY <1>2, <1>3, <2>2
  <2> QED BY <2>1, <2>2
<1>7. sess' \in [Clients -> Sessions]
  BY <1>2, <1>6
<1> QED BY <1>5, <1>6, <1>7

\* Every handler preserves the types.
LEMMA TypeStep == TypeInv /\ [Next]_vars => TypeInv'
<1> SUFFICES ASSUME TypeInv, [Next]_vars PROVE TypeInv'
  OBVIOUS
<1>0. TypeOK /\ (~chunk.eos => chunk.pos <= MaxChunks)
  BY DEF TypeInv
<1>1. CASE ConsumeChunk
  <2>1. PICK r \in Calls :
           /\ state' = r.state /\ samplingRate' = r.rate /\ streamedChunks' = r.n
           /\ deferExpired' = r.expired /\ sess' = r.sess /\ http' = r.http
           /\ chunk' \in NextChunks(chunk) \cup {chunk}
    BY <1>0, <1>1, ConsumeChunkOutcome
  <2>2. chunk' \in Chunks /\ (~chunk'.eos => chunk'.pos <= MaxChunks)
    BY <1>0, <2>1, NextChunksType DEF TypeOK
  <2>3. /\ r.state \in States /\ r.rate \in Rates \cup {0} /\ r.n \in Nat
        /\ r.expired \in BOOLEAN /\ r.sess \in [Clients -> Sessions]
        /\ r.http \in [Streams -> HttpSessions]
    BY DEF Calls
  <2> QED BY <2>1, <2>2, <2>3 DEF TypeInv, TypeOK
<1>2. CASE DeferTimeout
  BY <1>0, <1>2 DEF DeferTimeout, TypeInv, TypeOK
<1>3. CASE StreamerStop
  <2>1. \A c \in Clients : sess[c] \in Sessions
    BY <1>0 DEF TypeOK
  <2>2. sess' \in [Clients -> Sessions]
    BY <1>3, <2>1, StopSame DEF StreamerStop, SameStream
  <2>3. http' \in [Streams -> HttpSessions]
    BY <1>0, <1>3, StoppingFacts DEF StreamerStop, TypeOK
  <2> QED BY <1>0, <1>3, <2>2, <2>3 DEF StreamerStop, TypeInv, TypeOK, States
<1>4. ASSUME NEW c \in Clients, ClientStep(c)
      PROVE  TypeInv'
  <2> SUFFICES sess' \in [Clients -> Sessions] /\ http' \in [Streams -> HttpSessions]
               /\ UNCHANGED <<state, samplingRate, streamedChunks, deferExpired, chunk>>
    BY <1>0 DEF TypeInv, TypeOK
  <2>1. CASE OnSlimProtoOpen(c)
    <3>1. streamedChunks \in Nat
      BY <1>0 DEF TypeOK
    <3> QED BY <1>0, <2>1, <3>1, OpenedType, SessionStepType
               DEF OnSlimProtoOpen, TypeOK, SessionStep
  <2>2. CASE OnSlimProtoClose(c)
    BY <1>0, <2>2, GoneType, SessionStepType DEF OnSlimProtoClose, TypeOK, SessionStep
  <2>3. CASE OnHELO(c) \/ OnSTMf(c) \/ OnSTMl(c) \/ OnSTMt(c) \/ OnSTMu(c)
    BY <1>0, <2>3, MessageStep, SessionStepType DEF TypeOK, SessionStep
  <2>4. ASSUME NEW h \in Streams, OnHTTPData(c, h)
        PROVE  sess' \in [Clients -> Sessions] /\ http' \in [Streams -> HttpSessions]
               /\ UNCHANGED <<state, samplingRate, streamedChunks, deferExpired, chunk>>
    <3>1. sess[c] \in Sessions /\ samplingRate \in Rates \cup {0}
      BY <1>0 DEF TypeOK
    <3>2. sess' \in [Clients -> Sessions]
      BY <1>0, <2>4, <3>1, HTTPDataType, SessionStepType DEF OnHTTPData
    <3>3. [phase |-> "running", client |-> c, rate |-> samplingRate, last |-> 0]
             \in HttpSessions
      BY <3>1, BoundsAssumption DEF HttpSessions
    <3>4. http' \in [Streams -> HttpSessions]
      BY <1>0, <2>4, <3>3 DEF OnHTTPData, TypeOK
    <3> QED BY <2>4, <3>2, <3>4 DEF OnHTTPData, SessionStep
  <2> QED BY <1>4, <2>1, <2>2, <2>3, <2>4 DEF ClientStep
<1>5. ASSUME NEW h \in Streams, HttpStep(h)
      PROVE  TypeInv'
  <2>1. CASE Flushed(h)
    <3>1. http' \in [Streams -> HttpSessions]
      BY <1>0, <2>1 DEF Flushed, TypeOK, HttpSessions
    <3> QED BY <1>0, <2>1, <3>1 DEF Flushed, TypeInv, TypeOK
  <2>2. CASE OnHTTPClose(h)
    BY <1>0, <2>2, HTTPCloseStep DEF OnHTTPClose, TypeInv, TypeOK
  <2> QED BY <1>5, <2>1, <2>2 DEF HttpStep, LocalClose, PeerClose
<1>6. CASE UNCHANGED vars
  BY <1>0, <1>6 DEF vars, TypeInv, TypeOK
<1> QED BY <1>1, <1>2, <1>3, <1>4, <1>5, <1>6 DEF Next

\* Every variable keeps its type: the counters stay numbers, the references stay
\* connections, the state machines stay in their states.
THEOREM TypeCorrect == Spec => []TypeOK
<1>1. TypeInv => TypeOK
  BY DEF TypeInv
<1> QED BY <1>1, TypeInit, TypeStep, PTL DEF Spec

-----------------------------------------------------------------------------
(* Redelivery: every session is level with the stream or one chunk ahead *)

\* Every handler keeps the sessions in step with the stream.
LEMMA InStepStep == TypeInv /\ InStep /\ [Next]_vars => InStep'
<1> SUFFICES ASSUME TypeInv, InStep, [Next]_vars PROVE InStep'
  OBVIOUS
<1>0. TypeOK
  BY DEF TypeInv
<1>1. CASE ConsumeChunk
  <2>1. InStepOf(Call)
    BY DEF InStep, InStepOf, Call
  <2>2. \E r \in Calls : streamedChunks' = r.n /\ sess' = r.sess /\ InStepOf(r)
    BY <1>0, <1>1, <2>1, ConsumeChunkOutcome
  <2> QED BY <2>2 DEF InStep, InStepOf
<1>2. CASE DeferTimeout
  BY <1>2 DEF DeferTimeout, InStep
<1>3. CASE StreamerStop
  <2>1. \A c \in Clients : sess'[c].seq = sess[c].seq /\ (Live(sess'[c]) => Live(sess[c]))
    <3>1. \A c \in Clients : sess[c] \in Sessions
      BY <1>0 DEF TypeOK
    <3> QED BY <1>3, <3>1, StopSame DEF StreamerStop, SameStream
  <2> QED BY <1>3, <2>1 DEF StreamerStop, InStep
<1>4. ASSUME NEW c \in Clients, ClientStep(c)
      PROVE  InStep'
  <2>0. sess[c] \in Sessions /\ streamedChunks \in Nat
    BY <1>0 DEF TypeOK
  <2>1. CASE OnSlimProtoOpen(c)
    BY <1>0, <2>0, <2>1, OpenedType, SessionStepType
       DEF OnSlimProtoOpen, SessionStep, InStep
  <2>2. CASE OnSlimProtoClose(c)
    BY <1>0, <2>2, GoneType, SessionStepType DEF OnSlimProtoClose, SessionStep, InStep
  <2>3. CASE OnHELO(c) \/ OnSTMf(c) \/ OnSTMl(c) \/ OnSTMt(c) \/ OnSTMu(c)
    <3>1. PICK t \in Sessions : SameStream(sess[c], t) /\ SessionStep(c, t)
      BY <1>0, <2>3, MessageStep
    <3> QED BY <1>0, <3>1, SessionStepType DEF SameStream, SessionStep, InStep
  <2>4. ASSUME NEW h \in Streams, OnHTTPData(c, h)
        PROVE  InStep'
    <3> DEFINE t == [sess[c] EXCEPT !.http = h, !.dialing = FALSE]
    <3>1. t \in Sessions /\ t.conn = sess[c].conn /\ t.seq = sess[c].seq
      BY <2>0, HTTPDataType
    <3>2. SessionStep(c, t)
      BY <2>4 DEF OnHTTPData
    <3> HIDE DEF t
    <3> QED BY <1>0, <3>1, <3>2, SessionStepType DEF SessionStep, InStep, Live
  <2> QED BY <1>4, <2>1, <2>2, <2>3, <2>4 DEF ClientStep
<1>5. ASSUME NEW h \in Streams, HttpStep(h)
      PROVE  InStep'
  <2>1. CASE Flushed(h)
    BY <2>1 DEF Flushed, InStep
  <2>2. CASE OnHTTPClose(h)
    BY <1>0, <2>2, HTTPCloseStep DEF OnHTTPClose, InStep, Live
  <2> QED BY <1>5, <2>1, <2>2 DEF HttpStep, LocalClose, PeerClose
<1>6. CASE UNCHANGED vars
  BY <1>6 DEF vars, InStep
<1> QED BY <1>1, <1>2, <1>3, <1>4, <1>5, <1>6 DEF Next

\* Whatever the clients refuse and whenever they come and go, no session is given
\* a chunk of the stream twice and none falls behind it.
THEOREM InStepCorrect == Spec => []InStep
<1>1. Init => InStep
  BY DEF Init, InStep, Absent, Live
<1> QED BY <1>1, TypeInit, TypeStep, InStepStep, PTL DEF Spec

-----------------------------------------------------------------------------
(* References to streaming sessions *)

\* Every handler keeps the references valid.
LEMMA RefValidStep == TypeInv /\ RefValid /\ [Next]_vars => RefValid'
<1> SUFFICES ASSUME TypeInv, RefValid, [Next]_vars PROVE RefValid'
  OBVIOUS
<1>0. TypeOK /\ \A c \in Clients : sess[c] \in Sessions
  BY DEF TypeInv, TypeOK
<1>1. CASE ConsumeChunk
  <2>1. PICK r \in Calls : sess' = r.sess /\ http' = r.http /\ Keeps(Call, r)
    BY <1>0, <1>1, ConsumeChunkOutcome
  <2>2. Call.sess = sess /\ Call.http = http
    BY DEF Call
  <2> SUFFICES ASSUME NEW c \in Clients, Live(sess'[c]), sess'[c].http # None
               PROVE  /\ http'[sess'[c].http].phase # "free"
                      /\ http'[sess'[c].http].client = c
    BY DEF RefValid
  <2>3. Live(sess[c]) /\ sess'[c].http = sess[c].http /\ sess[c].http # None
    BY <2>1, <2>2 DEF Keeps, Live
  <2>4. http[sess[c].http].phase # "free" /\ http[sess[c].http].client = c
    BY <2>3 DEF RefValid
  <2>5. sess[c].http \in Streams
    BY <1>0, <2>3 DEF Sessions
  <2> QED BY <2>1, <2>2, <2>3, <2>4, <2>5 DEF Keeps
<1>2. CASE DeferTimeout
  BY <1>2 DEF DeferTimeout, RefValid
<1>3. CASE StreamerStop
  <2>1. \A c \in Clients : sess'[c].http = sess[c].http /\ (Live(sess'[c]) => Live(sess[c]))
    BY <1>0, <1>3, StopSame DEF StreamerStop, SameStream
  <2>2. \A h \in Streams : /\ (http'[h].phase = "free") <=> (http[h].phase = "free")
                           /\ http'[h].client = http[h].client
    BY <1>0, <1>3, StoppingFacts DEF StreamerStop, TypeOK
  <2>3. \A c \in Clients : sess[c].http \in Streams \cup {None}
    BY <1>0 DEF Sessions
  <2> QED BY <2>1, <2>2, <2>3 DEF RefValid
<1>4. ASSUME NEW c \in Clients, ClientStep(c)
      PROVE  RefValid'
  <2>1. CASE OnSlimProtoOpen(c)
    <3>1. streamedChunks \in Nat
      BY <1>0 DEF TypeOK
    <3> DEFINE t == [Absent("open") EXCEPT !.state = Started, !.seq = streamedChunks]
    <3>2. t \in Sessions /\ t.http = None
      BY <3>1, OpenedType
    <3>3. SessionStep(c, t) /\ http' = http
      BY <2>1 DEF OnSlimProtoOpen
    <3> HIDE DEF t
    <3> QED BY <1>0, <3>2, <3>3, SessionStepType DEF RefValid
  <2>2. CASE OnSlimProtoClose(c)
    BY <1>0, <2>2, GoneType, SessionStepType DEF OnSlimProtoClose, RefValid
  <2>3. CASE OnHELO(c) \/ OnSTMf(c) \/ OnSTMl(c) \/ OnSTMt(c) \/ OnSTMu(c)
    <3>1. PICK t \in Sessions : SameStream(sess[c], t) /\ SessionStep(c, t) /\ http' = http
      BY <1>0, <2>3, MessageStep
    <3> QED BY <1>0, <3>1, SessionStepType DEF SameStream, RefValid
  <2>4. ASSUME NEW h \in Streams, OnHTTPData(c, h)
        PROVE  RefValid'
    <3> DEFINE t == [sess[c] EXCEPT !.http = h, !.dialing = FALSE]
    <3>1. t \in Sessions /\ t.http = h
      BY <1>0, HTTPDataType
    <3>2. SessionStep(c, t)
      BY <2>4 DEF OnHTTPData
    <3> HIDE DEF t
    <3>3. sess'[c].http = h /\ \A d \in Clients \ {c} : sess'[d] = sess[d]
      BY <1>0, <3>1, <3>2, SessionStepType
    <3>4. /\ http'[h].phase = "running" /\ http'[h].client = c
          /\ \A g \in Streams \ {h} : http'[g] = http[g]
      BY <1>0, <2>4 DEF OnHTTPData, TypeOK
    <3>5. http[h].phase = "free"
      BY <2>4 DEF OnHTTPData, Free
    <3> SUFFICES ASSUME NEW d \in Clients, Live(sess'[d]), sess'[d].http # None
                 PROVE  /\ http'[sess'[d].http].phase # "free"
                        /\ http'[sess'[d].http].client = d
      BY DEF RefValid
    <3>6. CASE d = c
      BY <3>3, <3>4, <3>6
    <3>7. CASE d # c
      <4>1. sess'[d] = sess[d] /\ sess[d].http \in Streams
        BY <1>0, <3>3, <3>7 DEF Sessions
      <4>2. http[sess[d].http].phase # "free" /\ http[sess[d].http].client = d
        BY <4>1 DEF RefValid
      <4> QED BY <3>4, <3>5, <4>1, <4>2
    <3> QED BY <3>6, <3>7
  <2> QED BY <1>4, <2>1, <2>2, <2>3, <2>4 DEF ClientStep
<1>5. ASSUME NEW h \in Streams, HttpStep(h)
      PROVE  RefValid'
  <2>1. CASE Flushed(h)
    <3>1. \A g \in Streams : /\ http'[g].client = http[g].client
                             /\ http'[g].phase = "free" => http[g].phase = "free"
      BY <1>0, <2>1 DEF Flushed, TypeOK, HttpSessions
    <3>2. sess' = sess /\ \A c \in Clients : sess[c].http \in Streams \cup {None}
      BY <1>0, <2>1 DEF Flushed, Sessions
    <3> QED BY <3>1, <3>2 DEF RefValid
  <2>2. CASE OnHTTPClose(h)
    <3> SUFFICES ASSUME NEW d \in Clients, Live(sess'[d]), sess'[d].http # None
                 PROVE  /\ http'[sess'[d].http].phase # "free"
                        /\ http'[sess'[d].http].client = d
      BY DEF RefValid
    <3>1. Live(sess[d]) /\ sess'[d].http = sess[d].http /\ d # http[h].client
      BY <1>0, <2>2, HTTPCloseStep DEF Live
    <3>2. /\ sess[d].http \in Streams
          /\ http[sess[d].http].phase # "free" /\ http[sess[d].http].client = d
      BY <1>0, <3>1 DEF RefValid, Sessions
    <3>3. http'[sess[d].http] = http[sess[d].http]
      BY <1>0, <2>2, <3>1, <3>2 DEF OnHTTPClose, TypeOK
    <3> QED BY <3>1, <3>2, <3>3
  <2> QED BY <1>5, <2>1, <2>2 DEF HttpStep, LocalClose, PeerClose
<1>6. CASE UNCHANGED vars
  BY <1>6 DEF vars, RefValid
<1> QED BY <1>1, <1>2, <1>3, <1>4, <1>5, <1>6 DEF Next

\* A command session never feeds, and never tests, a streaming session that has
\* been removed or that belongs to another client.
THEOREM RefValidCorrect == Spec => []RefValid
<1>1. Init => RefValid
  BY DEF Init, RefValid, Absent, Live
<1> QED BY <1>1, TypeInit, TypeStep, RefValidStep, PTL DEF Spec

-----------------------------------------------------------------------------
(* The head of the queue is the chunk the Streamer is at *)

\* The call when the chunk has been offered, and when it is over.
Streamed(full) == StreamChunk(Play(Buffer(Begin(Call))), full)

Outcome(full) == Flush(Drain(Count(Streamed(full))))

\* The variables after a call are the state of the call when it is over.
LEMMA ConsumeChunkIsOutcome ==
    ASSUME ConsumeChunk
    PROVE  \E full \in SUBSET Slow :
              /\ state' = Outcome(full).state
              /\ samplingRate' = Outcome(full).rate
              /\ streamedChunks' = Outcome(full).n
              /\ sess' = Outcome(full).sess
              /\ http' = Outcome(full).http
              /\ chunk' \in IF Outcome(full).done THEN NextChunks(chunk) ELSE {chunk}
BY DEF ConsumeChunk, Outcome, Streamed

\* The start of a stream takes its rate and counts from zero.
LEMMA BeginProgress ==
    ASSUME NEW r \in Calls
    PROVE  IF r.state = Started
           THEN /\ Begin(r).state = Preparing /\ Begin(r).rate = chunk.rate
                /\ Begin(r).n = 0 /\ Begin(r).done = r.done /\ Begin(r).http = r.http
           ELSE Begin(r) = r
BY DEF Begin, Calls

\* The two transitions before a chunk is offered change the state of the call only, and
\* Playing is entered when every session is ready.
LEMMA ReadyProgress ==
    ASSUME NEW r \in Calls
    PROVE  LET q == Play(Buffer(r)) IN
           /\ q \in Calls
           /\ q.rate = r.rate /\ q.n = r.n /\ q.done = r.done
           /\ q.sess = r.sess /\ q.http = r.http
           /\ q.state = r.state \/ (r.state \in {Preparing, Buffering} /\ q.state \in Feeding)
           /\ q.state = Playing /\ r.state # Playing => AllReadyToPlay(r.sess)
<1> DEFINE b == Buffer(r)
           q == Play(b)
<1>1. /\ b \in Calls
      /\ b.rate = r.rate /\ b.n = r.n /\ b.done = r.done
      /\ b.sess = r.sess /\ b.http = r.http
      /\ b.state = r.state \/ (r.state = Preparing /\ b.state = Buffering)
  BY DEF Buffer, Calls, States
<1> HIDE DEF b
<1>2. /\ q \in Calls
      /\ q.rate = b.rate /\ q.n = b.n /\ q.done = b.done
      /\ q.sess = b.sess /\ q.http = b.http
      /\ q.state = b.state
         \/ (b.state = Buffering /\ q.state = Playing /\ AllReadyToPlay(b.sess))
  BY <1>1 DEF Play, Calls, States
<1> HIDE DEF q
<1>3. q.state = Playing /\ r.state # Playing => AllReadyToPlay(r.sess)
  BY <1>1, <1>2 DEF Buffering, Playing
<1>4. q.state = r.state \/ (r.state \in {Preparing, Buffering} /\ q.state \in Feeding)
  BY <1>1, <1>2 DEF Feeding
<1> QED BY <1>1, <1>2, <1>3, <1>4 DEF b, q

\* Offering the chunk changes sessions and streams only.
LEMMA StreamChunkProgress ==
    ASSUME NEW r \in Calls, NEW full
    PROVE  /\ StreamChunk(r, full).state = r.state /\ StreamChunk(r, full).rate = r.rate
           /\ StreamChunk(r, full).n = r.n /\ StreamChunk(r, full).done = r.done
BY DEF StreamChunk, Calls

\* How a call ends: the chunk is counted, or not; a stream that is at its end, or at a
\* chunk of another rate, is drained; one that is drained ends.
LEMMA LastStages ==
    ASSUME NEW r \in Calls
    PROVE  LET q == Flush(Drain(Count(r)))
               counted == /\ r.state \in Feeding /\ r.rate = chunk.rate
                          /\ AllTook(r.sess, r.n)
               drains == r.state \in Feeding /\ (r.rate # chunk.rate \/ chunk.eos)
               flushed == (drains \/ r.state = Draining) /\ ~IsDraining(r.sess)
           IN  /\ q \in Calls
               /\ q.rate = r.rate /\ q.sess = r.sess /\ q.http = r.http
               /\ q.n = IF counted THEN r.n + 1 ELSE r.n
               /\ q.state = IF flushed THEN Started ELSE IF drains THEN Draining ELSE r.state
               /\ q.done = IF flushed THEN TRUE
                           ELSE IF drains THEN FALSE ELSE IF counted THEN TRUE ELSE r.done
<1> DEFINE counted == /\ r.state \in Feeding /\ r.rate = chunk.rate /\ AllTook(r.sess, r.n)
           drains == r.state \in Feeding /\ (r.rate # chunk.rate \/ chunk.eos)
           flushed == (drains \/ r.state = Draining) /\ ~IsDraining(r.sess)
           k == Count(r)
           d == Drain(k)
           q == Flush(d)
<1>1. /\ k \in Calls
      /\ k.rate = r.rate /\ k.sess = r.sess /\ k.http = r.http /\ k.state = r.state
      /\ k.n = IF counted THEN r.n + 1 ELSE r.n
      /\ k.done = IF counted THEN TRUE ELSE r.done
  <2>1. CASE counted
    <3>1. r.n + 1 \in Nat
      BY DEF Calls
    <3>2. k = [r EXCEPT !.n = r.n + 1, !.done = TRUE]
      BY <2>1 DEF Count
    <3> HIDE DEF k
    <3> QED BY <2>1, <3>1, <3>2 DEF Calls
  <2>2. CASE ~counted
    BY <2>2 DEF Count
  <2> QED BY <2>1, <2>2
<1> HIDE DEF k, counted
<1>2. /\ d \in Calls
      /\ d.rate = k.rate /\ d.sess = k.sess /\ d.http = k.http /\ d.n = k.n
      /\ d.state = IF drains THEN Draining ELSE k.state
      /\ d.done = IF drains THEN FALSE ELSE k.done
  BY <1>1 DEF Drain, Calls, States
<1>3. Draining \notin Feeding
  BY DEF Feeding, Draining, Buffering, Playing
<1> HIDE DEF d, drains
<1>4. /\ q \in Calls
      /\ q.rate = d.rate /\ q.sess = d.sess /\ q.http = d.http /\ q.n = d.n
      /\ q.state = IF d.state = Draining /\ ~IsDraining(d.sess) THEN Started ELSE d.state
      /\ q.done = IF d.state = Draining /\ ~IsDraining(d.sess) THEN TRUE ELSE d.done
  BY <1>2 DEF Flush, Calls, States
<1> HIDE DEF q
<1>5. d.state = Draining /\ ~IsDraining(d.sess) <=> flushed
  BY <1>1, <1>2
<1> QED BY <1>1, <1>2, <1>4, <1>5 DEF k, d, q, counted, drains

\* HeadInStep, of a call.
HeadOf(r) ==
    /\ r.state \in {Started, Preparing} => chunk.pos = 1 /\ ~chunk.eos
    /\ r.state = Preparing => r.n = 0
    /\ r.state \in Feeding => chunk.pos = r.n + 1
    /\ r.state \in {Preparing, Draining} \cup Feeding => r.rate = chunk.rate
    /\ r.state = Draining => chunk.eos

\* When the chunk is about to be offered, the call is at it.
LEMMA ReadyHead ==
    ASSUME TypeOK, HeadInStep, state # Stopped
    PROVE  LET p == Play(Buffer(Begin(Call))) IN
           /\ p \in Calls
           /\ HeadOf(p)
           /\ p.done = FALSE
           /\ p.state \notin {Started, Stopped}
<1> DEFINE b == Begin(Call)
           p == Play(Buffer(b))
<1> USE DEF Started, Preparing, Buffering, Playing, Draining, Stopped, Feeding
<1>1. /\ Call \in Calls /\ Call.state = state /\ Call.n = streamedChunks
      /\ Call.rate = samplingRate /\ Call.done = FALSE
  BY CallType DEF Call
<1>2. chunk \in Chunks
  BY DEF TypeOK
<1>3. HeadOf(Call)
  BY <1>1, <1>2 DEF HeadInStep, HeadOf, Chunks
<1>4. b \in Calls
  BY <1>1, <1>2, BeginStage
<1>5. HeadOf(b) /\ b.done = FALSE /\ b.state \notin {Started, Stopped}
  <2>1. CASE state = Started
    <3>1. b.state = Preparing /\ b.rate = chunk.rate /\ b.n = 0 /\ b.done = FALSE
      BY <1>1, <2>1, BeginProgress
    <3>2. chunk.pos = 1 /\ ~chunk.eos
      BY <1>1, <1>3, <2>1 DEF HeadOf
    <3> HIDE DEF b
    <3> QED BY <3>1, <3>2 DEF HeadOf
  <2>2. CASE state # Started
    <3>1. b = Call
      BY <1>1, <2>2, BeginProgress
    <3> HIDE DEF b
    <3> QED BY <1>1, <1>3, <2>2, <3>1
  <2> QED BY <2>1, <2>2
<1> HIDE DEF b
<1>6. /\ p \in Calls
      /\ p.rate = b.rate /\ p.n = b.n /\ p.done = b.done
      /\ p.state = b.state \/ (b.state \in {Preparing, Buffering} /\ p.state \in Feeding)
  BY <1>4, ReadyProgress
<1> HIDE DEF p
<1>7. HeadOf(p) /\ p.done = FALSE /\ p.state \notin {Started, Stopped}
  BY <1>2, <1>5, <1>6 DEF HeadOf, Chunks
<1> QED BY <1>6, <1>7 DEF p, b

\* When the chunk has been offered, the call is still at it, and has not consumed it.
LEMMA StreamedHead ==
    ASSUME TypeOK, HeadInStep, state # Stopped, NEW full
    PROVE  /\ Streamed(full) \in Calls
           /\ HeadOf(Streamed(full))
           /\ Streamed(full).done = FALSE
           /\ Streamed(full).state \notin {Started, Stopped}
<1> DEFINE p == Play(Buffer(Begin(Call)))
<1>1. p \in Calls /\ HeadOf(p) /\ p.done = FALSE /\ p.state \notin {Started, Stopped}
  BY ReadyHead
<1>2. Streamed(full) = StreamChunk(p, full) /\ chunk \in Chunks
  BY DEF Streamed, TypeOK
<1> HIDE DEF p
<1> QED BY <1>1, <1>2, StreamChunkStage, StreamChunkProgress DEF HeadOf

\* A call that keeps the chunk stays at it; one that consumes it is at the next.
LEMMA ConsumeChunkHead ==
    ASSUME TypeOK, HeadInStep, ConsumeChunk
    PROVE  HeadInStep'
<1> USE DEF Started, Preparing, Buffering, Playing, Draining, Stopped, Feeding
<1>0. state # Stopped
  BY DEF ConsumeChunk
<1>1. PICK full \in SUBSET Slow :
         /\ state' = Outcome(full).state
         /\ samplingRate' = Outcome(full).rate
         /\ streamedChunks' = Outcome(full).n
         /\ chunk' \in IF Outcome(full).done THEN NextChunks(chunk) ELSE {chunk}
  BY ConsumeChunkIsOutcome
<1> DEFINE r == Streamed(full)
           q == Outcome(full)
<1>2. r \in Calls /\ HeadOf(r) /\ r.done = FALSE /\ r.state \notin {Started, Stopped}
  BY <1>0, StreamedHead
<1>3. chunk \in Chunks
  BY DEF TypeOK
<1>4. /\ q.rate = r.rate
      /\ q.n = r.n \/ (q.n = r.n + 1 /\ r.state \in Feeding)
      /\ \/ q.state = Started /\ q.done = TRUE
            /\ (r.state = Draining \/ r.rate # chunk.rate \/ chunk.eos)
         \/ q.state = Draining /\ q.done = FALSE
            /\ (r.state = Draining \/ r.rate # chunk.rate \/ chunk.eos)
         \/ q.state = r.state /\ q.n = r.n /\ q.done = r.done /\ r.state # Draining
         \/ q.state = r.state /\ q.n = r.n + 1 /\ q.done = TRUE /\ r.state \in Feeding
            /\ ~chunk.eos
  <2> HIDE DEF r
  <2>1. q = Flush(Drain(Count(r)))
    BY DEF Outcome, r
  <2> HIDE DEF q
  <2> QED BY <1>2, <2>1, LastStages DEF Calls
<1> HIDE DEF r, q
<1>5. r.rate = chunk.rate \/ r.state \notin {Preparing, Draining} \cup Feeding
  BY <1>2 DEF HeadOf
<1>6. CASE q.state = Started /\ q.done = TRUE
  <2>1. chunk.eos
    BY <1>2, <1>4, <1>5, <1>6 DEF HeadOf, Calls, States
  <2>2. chunk' \in [rate : Rates, eos : {FALSE}, pos : {1}]
    BY <1>1, <1>6, <2>1 DEF NextChunks, q
  <2> QED BY <1>1, <1>6, <2>2 DEF HeadInStep, q
<1>7. CASE q.state = Draining /\ q.done = FALSE
  <2>1. chunk.eos /\ r.rate = chunk.rate
    BY <1>2, <1>4, <1>5, <1>7 DEF HeadOf, Calls, States
  <2>2. chunk' = chunk
    BY <1>1, <1>7 DEF q
  <2> QED BY <1>1, <1>4, <1>7, <2>1, <2>2 DEF HeadInStep, q
<1>8. CASE q.state = r.state /\ q.n = r.n /\ q.done = r.done
  <2>1. chunk' = chunk
    BY <1>1, <1>2, <1>8 DEF q
  <2> QED BY <1>1, <1>2, <1>4, <1>8, <2>1 DEF HeadInStep, HeadOf, q
<1>9. CASE q.state = r.state /\ q.n = r.n + 1 /\ q.done = TRUE /\ r.state \in Feeding
           /\ ~chunk.eos
  <2>1. \/ chunk' \in [rate : {chunk.rate}, eos : {TRUE}, pos : {chunk.pos + 1}]
        \/ chunk' \in [rate : {chunk.rate}, eos : {FALSE}, pos : {chunk.pos + 1}]
    BY <1>1, <1>9 DEF NextChunks, q
  <2>2. chunk'.rate = chunk.rate /\ chunk'.pos = chunk.pos + 1
    BY <2>1
  <2>3. chunk.pos = r.n + 1 /\ r.rate = chunk.rate
    BY <1>2, <1>9 DEF HeadOf
  <2> QED BY <1>1, <1>4, <1>9, <2>2, <2>3 DEF HeadInStep, q
<1> QED BY <1>4, <1>6, <1>7, <1>8, <1>9

\* What the other handlers leave of the Streamer's own state.
LEMMA OthersKeep ==
    ASSUME [Next]_vars
    PROVE  \/ ConsumeChunk
           \/ UNCHANGED <<samplingRate, streamedChunks, chunk>> /\ state' \in {state, Stopped}
<1> SUFFICES ASSUME ~ConsumeChunk
             PROVE  UNCHANGED <<samplingRate, streamedChunks, chunk>>
                    /\ state' \in {state, Stopped}
  OBVIOUS
<1>1. CASE DeferTimeout
  BY <1>1 DEF DeferTimeout
<1>2. CASE StreamerStop
  BY <1>2 DEF StreamerStop
<1>3. ASSUME NEW c \in Clients, ClientStep(c)
      PROVE  UNCHANGED <<samplingRate, streamedChunks, chunk, state>>
  <2>1. ASSUME NEW s, SessionStep(c, s)
        PROVE  UNCHANGED <<samplingRate, streamedChunks, chunk, state>>
    BY <2>1 DEF SessionStep
  <2> QED BY <1>3, <2>1 DEF ClientStep, OnSlimProtoOpen, OnSlimProtoClose, OnHELO, OnSTMf,
                           OnSTMl, OnSTMt, OnSTMu, OnHTTPData
<1>4. ASSUME NEW h \in Streams, HttpStep(h)
      PROVE  UNCHANGED <<samplingRate, streamedChunks, chunk, state>>
  BY <1>4 DEF HttpStep, Flushed, LocalClose, PeerClose, OnHTTPClose
<1>5. CASE UNCHANGED vars
  BY <1>5 DEF vars
<1> QED BY <1>1, <1>2, <1>3, <1>4, <1>5 DEF Next

\* No handler moves the head of the queue and the stream apart.
LEMMA HeadStep == TypeInv /\ HeadInStep /\ [Next]_vars => HeadInStep'
<1> SUFFICES ASSUME TypeInv, HeadInStep, [Next]_vars PROVE HeadInStep'
  OBVIOUS
<1>1. CASE ConsumeChunk
  BY <1>1, ConsumeChunkHead DEF TypeInv
<1>2. CASE UNCHANGED <<samplingRate, streamedChunks, chunk>> /\ state' \in {state, Stopped}
  BY <1>2 DEF HeadInStep, Feeding, Started, Preparing, Buffering, Playing, Draining, Stopped
<1> QED BY <1>1, <1>2, OthersKeep

\* The first chunk of the first stream is at the head of the queue at the start.
LEMMA HeadInit == Init => HeadInStep
<1> SUFFICES ASSUME Init PROVE HeadInStep
  OBVIOUS
<1>1. chunk \in [rate : Rates, eos : {FALSE}, pos : {1}] /\ state = Started
  BY DEF Init
<1> QED BY <1>1 DEF HeadInStep, Feeding, Started, Preparing, Buffering, Playing, Draining

\* Between two calls of consumeChunk no chunk was dropped, and none is counted that is
\* still queued, whatever was refused and whenever a stream ended.
THEOREM HeadInStepCorrect == Spec => []HeadInStep
BY TypeInit, TypeStep, HeadInit, HeadStep, PTL DEF Spec

-----------------------------------------------------------------------------
(* Sessions and their streams.  A client has one stream at most, and none from *)
(* the moment on at which it is known to have played out the last one until it *)
(* has requested the next.                                                     *)

\* Sessions that have no stream: the client is not connected yet, has not requested the
\* stream, or has nothing left to play.
Quiet(s) ==
    \/ s.conn = "new"
    \/ Live(s) /\ \/ s.dialing
                  \/ s.state = Started
                  \/ s.conn = "open" /\ s.state = Draining /\ s.owesFlush

\* What a session is by itself: it dials while preparing; one whose connection closes was
\* not Started; an STMf is owed while draining; before HELO the client is not asked for
\* anything.
Lawful(s) ==
    Live(s) =>
        /\ s.dialing => s.state \in {Preparing, Stopped}
        /\ s.conn = "closing" => s.state # Started
        /\ s.conn = "open" /\ s.owesFlush => s.state \in {Draining, Stopped}
        /\ ~s.helo => ~s.ready /\ ~s.cued /\ (s.owesFlush => s.state = Stopped)
        /\ s.state = Preparing => s.rate # 0

\* What session s of client c is to the streams hs.
Bound(s, c, hs) ==
    /\ Quiet(s) => \A h \in Streams : hs[h].client # c
    /\ Live(s) =>
         /\ \A h \in Streams : hs[h].client = c => s.http = h
         /\ s.http # None => hs[s.http].client = c
         /\ s.state = Draining /\ s.http # None =>
              hs[s.http].phase \in {"flushing", "stopped"}

\* A stream has a client as long as it is not removed.
Owned(x) == x.phase = "free" <=> x.client = None

SessionsOK ==
    /\ \A c \in Clients : Lawful(sess[c]) /\ Bound(sess[c], c, http)
    /\ \A h \in Streams : Owned(http[h])

\* A stream keeps its client, and what is being closed stays so.
Later(x, y) ==
    /\ y.client = x.client
    /\ y.phase = "free" <=> x.phase = "free"
    /\ x.phase \in {"flushing", "stopped"} => y.phase \in {"flushing", "stopped"}

\* A session that is Quiet has no reference.
LEMMA QuietFree ==
    ASSUME NEW s \in Sessions, NEW c \in Clients, NEW hs, Bound(s, c, hs), Quiet(s), Live(s)
    PROVE  s.http = None
BY DEF Bound, Sessions

\* A session that neither begins to be quiet nor to drain stays bound to its streams.
LEMMA BoundKept ==
    ASSUME NEW s \in Sessions, NEW t \in Sessions, NEW c \in Clients,
           NEW hs, NEW gs, \A h \in Streams : Later(hs[h], gs[h]),
           Bound(s, c, hs), Live(t) => Live(s), t.http = s.http,
           Quiet(t) => Quiet(s), t.state = Draining => s.state = Draining
    PROVE  Bound(t, c, gs)
<1>1. s.http # None => s.http \in Streams
  BY DEF Sessions
<1>2. \A h \in Streams : gs[h].client = hs[h].client
  BY DEF Later
<1>3. Quiet(t) => \A h \in Streams : gs[h].client # c
  BY <1>2 DEF Bound
<1>4. Live(t) => \A h \in Streams : gs[h].client = c => t.http = h
  BY <1>2 DEF Bound
<1>5. Live(t) /\ t.http # None => gs[t.http].client = c
  BY <1>1, <1>2 DEF Bound
<1>6. Live(t) /\ t.state = Draining /\ t.http # None =>
        gs[t.http].phase \in {"flushing", "stopped"}
  BY <1>1 DEF Bound, Later
<1> QED BY <1>3, <1>4, <1>5, <1>6 DEF Bound

\* Nothing binds a session without streams.
LEMMA BoundFree ==
    ASSUME NEW s \in Sessions, NEW c \in Clients, NEW hs,
           \A h \in Streams : hs[h].client # c, s.http = None
    PROVE  Bound(s, c, hs)
BY DEF Bound

-----------------------------------------------------------------------------
(* Sessions and their streams: what a call does to a session *)

\* What prepare() makes of a session.
LEMMA PreparedCases ==
    ASSUME NEW s \in Sessions, NEW r \in Rates
    PROVE  LET p == Prepared(s, r) IN
           \/ /\ s.state = Started /\ p.state = Preparing /\ p.http = None /\ p.dialing
              /\ p.rate = r /\ ~p.ready /\ ~p.cued
              /\ p.helo = s.helo /\ p.owesFlush = s.owesFlush /\ p.conn = s.conn
           \/ /\ s.state # Started /\ p.state = s.state /\ p.http = s.http
              /\ p.dialing = s.dialing /\ p.rate \in {r, s.rate}
              /\ p.ready = s.ready /\ p.cued = s.cued
              /\ p.helo = s.helo /\ p.owesFlush = s.owesFlush /\ p.conn = s.conn
<1>0. r # 0
  BY RatesAssumption
<1>1. CASE s.state = Started
  <2>1. Prepared(s, r) = [s EXCEPT !.state = Preparing, !.rate = r, !.ready = FALSE,
                                   !.http = None, !.dialing = TRUE, !.cued = FALSE]
    BY <1>0, <1>1 DEF Prepared, Started, Preparing, Feeding, Buffering, Playing
  <2> QED BY <1>1, <2>1 DEF Sessions
<1>2. CASE s.state \in {Preparing} \cup Feeding
  <2>1. Prepared(s, r) = [s EXCEPT !.rate = r]
    BY <1>2 DEF Prepared, Started, Preparing, Feeding, Buffering, Playing
  <2>2. s.state # Started
    BY <1>2 DEF Started, Preparing, Feeding, Buffering, Playing
  <2> QED BY <2>1, <2>2 DEF Sessions
<1>3. CASE s.state # Started /\ s.state \notin {Preparing} \cup Feeding
  BY <1>3 DEF Prepared
<1> QED BY <1>1, <1>2, <1>3

\* What the transitions before a chunk is handed over make of a session: one that has its
\* stream feeds it, and plays if it is ready.
LEMMA AdvancedCases ==
    ASSUME NEW s \in Sessions, NEW r \in Rates, NEW p \in BOOLEAN
    PROVE  LET a == Advanced(s, r, p) IN
           \/ s.state = Started /\ a = Prepared(s, r)
           \/ /\ s.state # Started
              /\ a.http = s.http /\ a.dialing = s.dialing /\ a.rate = s.rate
              /\ a.ready = s.ready /\ a.helo = s.helo /\ a.owesFlush = s.owesFlush
              /\ a.conn = s.conn
              /\ a.cued = s.cued \/ s.ready
              /\ \/ a.state = s.state
                 \/ /\ IsReadyToBuffer(s) /\ s.state \in {Preparing, Buffering}
                    /\ a.state \in Feeding
              /\ s.state = Preparing /\ IsReadyToBuffer(s) => a.state \in Feeding
              /\ s.state \in {Preparing} \cup Feeding /\ p /\ IsReadyToPlay(s) =>
                   a.state = Playing
<1> USE DEF Started, Preparing, Buffering, Playing, Feeding
<1>0. r # 0
  BY RatesAssumption
<1>1. CASE s.state = Started
  <2> DEFINE q == Prepared(s, r)
  <2>1. q.state = Preparing /\ q.http = None
    BY <1>1, PreparedCases
  <2> HIDE DEF q
  <2>2. ~IsReadyToBuffer(q)
    BY <2>1 DEF IsReadyToBuffer
  <2>3. Advanced(s, r, p) = q
    BY <1>1, <2>1, <2>2 DEF Advanced, q
  <2> QED BY <1>1, <2>3 DEF q
<1>2. CASE s.state # Started
  <2> DEFINE b == IF s.state = Preparing /\ IsReadyToBuffer(s)
                  THEN [s EXCEPT !.state = Buffering] ELSE s
             a == IF b.state = Buffering /\ p /\ IsReadyToPlay(b)
                  THEN [b EXCEPT !.state = Playing, !.cued = TRUE] ELSE b
  <2>1. Advanced(s, r, p) = a
    BY <1>2 DEF Advanced
  <2>2. /\ b.http = s.http /\ b.dialing = s.dialing /\ b.rate = s.rate
        /\ b.ready = s.ready /\ b.helo = s.helo /\ b.owesFlush = s.owesFlush
        /\ b.conn = s.conn /\ b.cued = s.cued /\ b.offset = s.offset
        /\ b.state = IF s.state = Preparing /\ IsReadyToBuffer(s) THEN Buffering ELSE s.state
        /\ b \in Sessions
    BY DEF Sessions, States
  <2> HIDE DEF b
  <2>3. IsReadyToBuffer(b) <=> IsReadyToBuffer(s)
    BY <2>2 DEF IsReadyToBuffer
  <2>4. IsReadyToPlay(b) <=> IsReadyToPlay(s)
    BY <2>2, <2>3 DEF IsReadyToPlay
  <2>5. IsReadyToPlay(s) => IsReadyToBuffer(s) /\ s.ready
    BY DEF IsReadyToPlay
  <2>6. /\ a.http = b.http /\ a.dialing = b.dialing /\ a.rate = b.rate
        /\ a.ready = b.ready /\ a.helo = b.helo /\ a.owesFlush = b.owesFlush
        /\ a.conn = b.conn
        /\ a.cued = b.cued \/ IsReadyToPlay(b)
        /\ a.state = IF b.state = Buffering /\ p /\ IsReadyToPlay(b) THEN Playing ELSE b.state
    BY <2>2 DEF Sessions
  <2> HIDE DEF a
  <2>7. a.cued = s.cued \/ s.ready
    BY <2>2, <2>4, <2>5, <2>6
  <2>8. \/ a.state = s.state
        \/ /\ IsReadyToBuffer(s) /\ s.state \in {Preparing, Buffering}
           /\ a.state \in Feeding
    BY <2>2, <2>4, <2>5, <2>6
  <2>9. s.state = Preparing /\ IsReadyToBuffer(s) => a.state \in Feeding
    BY <2>2, <2>6
  <2>10. s.state \in {Preparing} \cup Feeding /\ p /\ IsReadyToPlay(s) => a.state = Playing
    BY <2>2, <2>4, <2>5, <2>6
  <2> QED BY <1>2, <2>1, <2>2, <2>6, <2>7, <2>8, <2>9, <2>10
<1> QED BY <1>1, <1>2

\* What is Lawful and bound does not depend on the place in the stream.
LEMMA SeqApart ==
    ASSUME NEW s \in Sessions, NEW n \in Nat, NEW c \in Clients, NEW hs,
           Lawful(s), Bound(s, c, hs)
    PROVE  Lawful([s EXCEPT !.seq = n]) /\ Bound([s EXCEPT !.seq = n], c, hs)
<1> DEFINE t == [s EXCEPT !.seq = n]
<1>1. /\ t.conn = s.conn /\ t.state = s.state /\ t.http = s.http /\ t.helo = s.helo
      /\ t.ready = s.ready /\ t.dialing = s.dialing /\ t.cued = s.cued
      /\ t.owesFlush = s.owesFlush /\ t.rate = s.rate
  BY DEF Sessions
<1> HIDE DEF t
<1>2. Lawful(t)
  BY <1>1 DEF Lawful, Live
<1>3. Bound(t, c, hs)
  BY <1>1 DEF Bound, Quiet, Live
<1> QED BY <1>2, <1>3 DEF t

\* The Start command goes to a session without streams.
LEMMA PreparedOK ==
    ASSUME NEW s \in Sessions, NEW r \in Rates, NEW c \in Clients, NEW hs,
           Live(s), Lawful(s), Bound(s, c, hs)
    PROVE  Lawful(Prepared(s, r)) /\ Bound(Prepared(s, r), c, hs)
<1> DEFINE p == Prepared(s, r)
<1> USE DEF Started, Preparing, Draining, Stopped
<1>0. p \in Sessions /\ r # 0
  BY PreparedFacts, RatesAssumption
<1>1. CASE s.state = Started
  <2>1. /\ p.state = Preparing /\ p.http = None /\ p.dialing /\ p.rate = r
        /\ ~p.ready /\ ~p.cued
        /\ p.helo = s.helo /\ p.owesFlush = s.owesFlush /\ p.conn = s.conn
    BY <1>1, PreparedCases
  <2> HIDE DEF p
  <2>2. s.conn = "open" /\ ~s.owesFlush
    BY <1>1 DEF Lawful, Live
  <2>3. Lawful(p)
    BY <1>0, <2>1, <2>2 DEF Lawful
  <2>4. \A h \in Streams : hs[h].client # c
    BY <1>1 DEF Bound, Quiet
  <2>5. Bound(p, c, hs)
    BY <1>0, <2>1, <2>4, BoundFree
  <2> QED BY <2>3, <2>5 DEF p
<1>2. CASE s.state # Started
  <2>1. /\ p.state = s.state /\ p.http = s.http /\ p.dialing = s.dialing
        /\ p.rate \in {r, s.rate} /\ p.ready = s.ready /\ p.cued = s.cued
        /\ p.helo = s.helo /\ p.owesFlush = s.owesFlush /\ p.conn = s.conn
    BY <1>2, PreparedCases
  <2> HIDE DEF p
  <2>2. Lawful(p)
    BY <1>0, <2>1 DEF Lawful, Live
  <2>3. Bound(p, c, hs)
    BY <2>1 DEF Bound, Quiet, Live
  <2> QED BY <2>2, <2>3 DEF p
<1> QED BY <1>1, <1>2

\* A session that feeds has its stream: it neither dials nor owes an STMf.
LEMMA AdvancedOK ==
    ASSUME NEW s \in Sessions, NEW r \in Rates, NEW p \in BOOLEAN, NEW c \in Clients,
           NEW hs, Live(s), Lawful(s), Bound(s, c, hs)
    PROVE  Lawful(Advanced(s, r, p)) /\ Bound(Advanced(s, r, p), c, hs)
<1> DEFINE a == Advanced(s, r, p)
<1>0. a \in Sessions
  BY AdvancedFacts
<1>1. CASE s.state = Started
  BY <1>1, AdvancedCases, PreparedOK
<1>2. CASE s.state # Started
  <2>1. /\ a.http = s.http /\ a.dialing = s.dialing /\ a.rate = s.rate
        /\ a.ready = s.ready /\ a.helo = s.helo /\ a.owesFlush = s.owesFlush
        /\ a.conn = s.conn
        /\ a.cued = s.cued \/ s.ready
        /\ \/ a.state = s.state
           \/ /\ IsReadyToBuffer(s) /\ s.state \in {Preparing, Buffering}
              /\ a.state \in Feeding
    BY <1>2, AdvancedCases
  <2> HIDE DEF a
  <2> USE DEF Feeding, Started, Preparing, Buffering, Playing, Draining, Stopped
  <2>2. a.state # s.state => ~s.dialing
    BY <2>1, QuietFree DEF IsReadyToBuffer, Quiet
  <2>3. a.cued => s.cued \/ s.ready
    BY <1>0, <2>1 DEF Sessions
  <2>4. Lawful(a)
    BY <1>2, <2>1, <2>2, <2>3 DEF Lawful, Live
  <2>5. Quiet(a) => Quiet(s)
    BY <1>2, <2>1 DEF Quiet, Live
  <2>6. a.state = Draining => s.state = Draining
    BY <2>1
  <2>7. \A h \in Streams : Later(hs[h], hs[h])
    BY DEF Later
  <2>8. Bound(a, c, hs)
    BY <1>0, <2>1, <2>5, <2>6, <2>7, BoundKept DEF Live
  <2> QED BY <2>4, <2>8 DEF a
<1> QED BY <1>1, <1>2

\* Stopping or feeding a stream does not reopen it.
LEMMA EncodedLater ==
    ASSUME NEW x \in HttpSessions, NEW k \in Chunks
    PROVE  /\ Later(x, Stopping(x))
           /\ Later(x, Encoded(x, k))
           /\ k.eos /\ x.phase # "free" => Encoded(x, k).phase \in {"flushing", "stopped"}
<1>1. Later(x, Stopping(x)) /\ (IsRunning(x) => Stopping(x).phase = "flushing")
  BY DEF Later, Stopping, HttpSessions, IsRunning
<1>2. ASSUME NEW y \in HttpSessions
      PROVE  /\ [y EXCEPT !.last = k.pos].phase = y.phase
             /\ [y EXCEPT !.last = k.pos].client = y.client
  BY DEF HttpSessions
<1>3. CASE ~IsRunning(x)
  <2>1. Encoded(x, k) = x
    BY <1>3 DEF Encoded
  <2>2. x.phase \in {"free", "stopped"}
    BY <1>3 DEF IsRunning, HttpSessions
  <2> QED BY <1>1, <2>1, <2>2 DEF Later
<1>4. CASE IsRunning(x) /\ k.rate # x.rate
  <2>1. Encoded(x, k) = Stopping(x)
    BY <1>4 DEF Encoded
  <2> QED BY <1>1, <1>4, <2>1
<1>5. CASE IsRunning(x) /\ k.rate = x.rate /\ k.eos
  <2>1. Encoded(x, k) = [Stopping(x) EXCEPT !.last = k.pos]
    BY <1>5 DEF Encoded
  <2>2. Stopping(x) \in HttpSessions
    BY StoppingFacts
  <2> QED BY <1>1, <1>2, <1>5, <2>1, <2>2 DEF Later
<1>6. CASE IsRunning(x) /\ k.rate = x.rate /\ ~k.eos
  <2>1. Encoded(x, k) = [x EXCEPT !.last = k.pos]
    BY <1>6 DEF Encoded
  <2> QED BY <1>1, <1>2, <1>6, <2>1 DEF Later
<1> QED BY <1>3, <1>4, <1>5, <1>6

\* A session that consumes the end of the stream drains, and its stream is being closed.
LEMMA ConsumedOK ==
    ASSUME NEW a \in Sessions, NEW eos \in BOOLEAN, NEW c \in Clients, NEW hs, NEW gs,
           \A h \in Streams : Later(hs[h], gs[h]),
           Live(a), Lawful(a), Bound(a, c, hs),
           eos /\ a.state \in Feeding /\ a.http # None =>
               gs[a.http].phase \in {"flushing", "stopped"}
    PROVE  Lawful(Consumed(a, eos)) /\ Bound(Consumed(a, eos), c, gs)
<1> DEFINE t == [a EXCEPT !.seq = @ + 1]
<1>1. a.seq + 1 \in Nat
  BY DEF Sessions
<1>2. Bound(a, c, gs)
  BY BoundKept
<1>3. t \in Sessions /\ Lawful(t) /\ Bound(t, c, gs)
  BY <1>1, <1>2, SeqApart, SeqUpdate
<1>4. /\ t.conn = a.conn /\ t.state = a.state /\ t.http = a.http /\ t.dialing = a.dialing
      /\ t.owesFlush = a.owesFlush
  BY DEF Sessions
<1> HIDE DEF t
<1>5. CASE ~(eos /\ a.state \in Feeding)
  <2>1. Consumed(a, eos) = t
    BY <1>5 DEF Consumed, t
  <2> QED BY <1>3, <2>1
<1>6. CASE eos /\ a.state \in Feeding
  <2> DEFINE d == [t EXCEPT !.state = Draining]
  <2>1. Consumed(a, eos) = d
    BY <1>6 DEF Consumed, t
  <2>2. /\ d.conn = t.conn /\ d.state = Draining /\ d.http = t.http /\ d.rate = t.rate
        /\ d.dialing = t.dialing /\ d.owesFlush = t.owesFlush /\ d.helo = t.helo
        /\ d.ready = t.ready /\ d.cued = t.cued
    BY <1>3 DEF Sessions
  <2> HIDE DEF d
  <2> USE DEF Feeding, Started, Preparing, Buffering, Playing, Draining, Stopped
  <2>3. ~d.dialing /\ (d.conn = "open" => ~d.owesFlush) /\ Live(d) /\ Live(t)
    BY <1>3, <1>4, <1>6, <2>2 DEF Lawful, Live
  <2>4. Lawful(d)
    BY <1>3, <1>4, <1>6, <2>2, <2>3 DEF Lawful
  <2>5. ~Quiet(d)
    BY <1>4, <2>2, <2>3 DEF Quiet, Live
  <2>6. Bound(d, c, gs)
    BY <1>3, <1>4, <1>6, <2>2, <2>3, <2>5 DEF Bound
  <2> QED BY <2>1, <2>4, <2>6
<1> QED BY <1>5, <1>6

\* SessionsOK, of a call.
SessionsOf(r) ==
    /\ \A c \in Clients : Lawful(r.sess[c]) /\ Bound(r.sess[c], c, r.http)
    /\ \A h \in Streams : Owned(r.http[h])

\* A stage that closes streams at most keeps their owners.
LEMMA OwnedLater ==
    ASSUME NEW x, NEW y, Later(x, y), Owned(x)
    PROVE  Owned(y)
BY DEF Later, Owned

\* The start of a stream finds no stream of the sessions it asks to request one.
LEMMA BeginSessions ==
    ASSUME chunk \in Chunks, NEW r \in Calls, SessionsOf(r)
    PROVE  SessionsOf(Begin(r))
<1>1. CASE r.state # Started
  BY <1>1 DEF Begin
<1>2. CASE r.state = Started
  <2> DEFINE s(c) == IF Live(r.sess[c])
                     THEN [Prepared(r.sess[c], chunk.rate) EXCEPT !.seq = 0]
                     ELSE r.sess[c]
             q == Begin(r)
  <2>1. q.sess = [c \in Clients |-> s(c)] /\ q.http = r.http
    BY <1>2 DEF Begin, Calls
  <2>2. chunk.rate \in Rates
    BY DEF Chunks
  <2>3. ASSUME NEW c \in Clients
        PROVE  Lawful(s(c)) /\ Bound(s(c), c, r.http)
    <3>1. r.sess[c] \in Sessions /\ Lawful(r.sess[c]) /\ Bound(r.sess[c], c, r.http)
      BY DEF Calls, SessionsOf
    <3>2. CASE Live(r.sess[c])
      <4> DEFINE p == Prepared(r.sess[c], chunk.rate)
      <4>1. p \in Sessions /\ Lawful(p) /\ Bound(p, c, r.http)
        BY <2>2, <3>1, <3>2, PreparedFacts, PreparedOK
      <4> HIDE DEF p
      <4>2. Lawful([p EXCEPT !.seq = 0]) /\ Bound([p EXCEPT !.seq = 0], c, r.http)
        BY <4>1, SeqApart
      <4> QED BY <3>2, <4>2 DEF p
    <3>3. CASE ~Live(r.sess[c])
      BY <3>1, <3>3
    <3> QED BY <3>2, <3>3
  <2> HIDE DEF q, s
  <2>4. \A c \in Clients : q.sess[c] = s(c)
    BY <2>1
  <2>5. \A c \in Clients : Lawful(q.sess[c]) /\ Bound(q.sess[c], c, q.http)
    BY <2>1, <2>3, <2>4
  <2>6. \A h \in Streams : Owned(q.http[h])
    BY <2>1 DEF SessionsOf
  <2>7. SessionsOf(q)
    BY <2>5, <2>6 DEF SessionsOf
  <2> QED BY <2>7 DEF q
<1> QED BY <1>1, <1>2

\* What a session is when the chunk has been offered to it.
LEMMA OfferedCases ==
    ASSUME NEW r \in Calls, NEW s \in Sessions, NEW full
    PROVE  LET a == Advanced(s, r.rate, r.state = Playing)
               t == Offered(s, r, full)
           IN  \/ (~Live(s) \/ r.n < s.seq) /\ t = s
               \/ /\ Live(s) /\ s.seq <= r.n
                  /\ \/ Refuses(a, r.http, full) /\ t = a
                     \/ ~Refuses(a, r.http, full) /\ t = Consumed(a, chunk.eos)
<1>1. r.n \in Nat /\ s.seq \in Nat
  BY DEF Calls, Sessions
<1>2. r.n < s.seq \/ s.seq <= r.n
  BY <1>1
<1> QED BY <1>2 DEF Offered

\* The streams after a chunk was offered.
LEMMA StreamedHttp ==
    ASSUME chunk \in Chunks, NEW r \in Calls, NEW full, NEW h \in Streams
    PROVE  LET g == StreamChunk(r, full).http[h] IN
           /\ Later(r.http[h], g)
           /\ \/ g = r.http[h]
              \/ /\ r.state \in Feeding /\ r.rate = chunk.rate /\ IsFed(h, r, full)
                 /\ g = Encoded(r.http[h], chunk)
           /\ r.state \in Feeding /\ r.rate = chunk.rate /\ IsFed(h, r, full) =>
                g = Encoded(r.http[h], chunk)
<1> DEFINE g == StreamChunk(r, full).http[h]
<1>1. r.http[h] \in HttpSessions
  BY DEF Calls
<1>2. Later(r.http[h], r.http[h]) /\ Later(r.http[h], Encoded(r.http[h], chunk))
  BY <1>1, EncodedLater DEF Later
<1>3. CASE r.state \notin Feeding \/ r.rate # chunk.rate
  BY <1>2, <1>3 DEF StreamChunk
<1>4. CASE ~(r.state \notin Feeding \/ r.rate # chunk.rate)
  <2>1. g = IF IsFed(h, r, full) THEN Encoded(r.http[h], chunk) ELSE r.http[h]
    BY <1>4 DEF StreamChunk, Calls
  <2> QED BY <1>2, <1>4, <2>1
<1> QED BY <1>3, <1>4

\* A session whose chunk was encoded is fed; so the end of the stream reaches the stream of
\* every session that drains.
LEMMA StreamedSessions ==
    ASSUME chunk \in Chunks, NEW r \in Calls, NEW full, SessionsOf(r)
    PROVE  SessionsOf(StreamChunk(r, full))
<1>1. CASE r.state \notin Feeding \/ r.rate # chunk.rate
  BY <1>1 DEF StreamChunk
<1>2. CASE r.state \in Feeding /\ r.rate = chunk.rate
  <2> DEFINE q == StreamChunk(r, full)
  <2>1. \A c \in Clients : q.sess[c] = Offered(r.sess[c], r, full)
    BY <1>2 DEF StreamChunk, Calls
  <2>2. \A h \in Streams : Later(r.http[h], q.http[h])
    BY StreamedHttp
  <2>3. \A h \in Streams : Owned(q.http[h])
    BY <2>2, OwnedLater DEF SessionsOf
  <2>4. r.rate \in Rates /\ chunk.eos \in BOOLEAN /\ (r.state = Playing) \in BOOLEAN
    BY <1>2 DEF Chunks
  <2>5. ASSUME NEW c \in Clients
        PROVE  Lawful(q.sess[c]) /\ Bound(q.sess[c], c, q.http)
    <3> DEFINE s == r.sess[c]
               a == Advanced(s, r.rate, r.state = Playing)
    <3>1. s \in Sessions /\ Lawful(s) /\ Bound(s, c, r.http)
      BY DEF Calls, SessionsOf
    <3>2. CASE q.sess[c] = s
      <4>1. Bound(s, c, q.http)
        BY <2>2, <3>1, BoundKept
      <4> QED BY <3>1, <3>2, <4>1
    <3>3. CASE Live(s) /\ s.seq <= r.n
      <4>1. a \in Sessions /\ a.conn = s.conn /\ Lawful(a) /\ Bound(a, c, r.http)
        BY <2>4, <3>1, <3>3, AdvancedFacts, AdvancedOK
      <4>2. Bound(a, c, q.http)
        BY <2>2, <4>1, BoundKept
      <4>3. ASSUME ~Refuses(a, r.http, full), chunk.eos, a.state \in Feeding, a.http # None
            PROVE  q.http[a.http].phase \in {"flushing", "stopped"}
        <5>1. a.http \in Streams
          BY <4>1, <4>3 DEF Sessions
        <5> DEFINE h == a.http
        <5>2. r.http[h] \in HttpSessions /\ r.http[h].phase # "free"
          <6>1. r.http[h].client = c /\ c # None
            BY <3>3, <4>1, <4>3, NoneAssumption DEF Bound, Live
          <6> QED BY <5>1, <6>1 DEF Calls, SessionsOf, Owned
        <5>3. CASE h \in full
          <6>1. r.http[h].phase = "stopped"
            BY <4>3, <5>2, <5>3 DEF Refuses, IsRunning, HttpSessions
          <6> QED BY <2>2, <5>1, <6>1 DEF Later
        <5>4. CASE h \notin full
          <6>1. IsFed(h, r, full)
            BY <3>3, <4>3, <5>4 DEF IsFed
          <6>2. q.http[h] = Encoded(r.http[h], chunk)
            BY <1>2, <5>1, <6>1, StreamedHttp
          <6> QED BY <4>3, <5>2, <6>2, EncodedLater
        <5> QED BY <5>3, <5>4
      <4>4. q.sess[c] = a \/ (~Refuses(a, r.http, full) /\ q.sess[c] = Consumed(a, chunk.eos))
        BY <2>1, <3>1, <3>3, OfferedCases DEF Calls, Sessions
      <4>5. Live(a)
        BY <3>3, <4>1 DEF Live
      <4> HIDE DEF a, q
      <4>6. CASE q.sess[c] = a
        BY <4>1, <4>2, <4>6
      <4>7. CASE ~Refuses(a, r.http, full) /\ q.sess[c] = Consumed(a, chunk.eos)
        BY <2>2, <2>4, <4>1, <4>3, <4>5, <4>7, ConsumedOK
      <4> QED BY <4>4, <4>6, <4>7
    <3> QED BY <2>1, <3>1, <3>2, <3>3, OfferedCases
  <2> HIDE DEF q
  <2>6. SessionsOf(q)
    BY <2>3, <2>5 DEF SessionsOf
  <2> QED BY <2>6 DEF q
<1> QED BY <1>1, <1>2

-----------------------------------------------------------------------------
(* Sessions and their streams: the handlers *)

\* A call of consumeChunk.
LEMMA ConsumeChunkSessions ==
    ASSUME TypeOK, SessionsOK, ConsumeChunk
    PROVE  SessionsOK'
<1>1. PICK full \in SUBSET Slow :
         sess' = Outcome(full).sess /\ http' = Outcome(full).http
  BY ConsumeChunkIsOutcome
<1> DEFINE b == Begin(Call)
           p == Play(Buffer(b))
           r == StreamChunk(p, full)
<1>2. chunk \in Chunks /\ Call \in Calls
  BY CallType DEF TypeOK
<1>3. SessionsOf(Call)
  BY DEF SessionsOf, SessionsOK, Call
<1>4. b \in Calls /\ SessionsOf(b)
  BY <1>2, <1>3, BeginStage, BeginSessions
<1> HIDE DEF b
<1>5. p \in Calls /\ p.sess = b.sess /\ p.http = b.http
  BY <1>4, ReadyProgress
<1> HIDE DEF p
<1>6. SessionsOf(p)
  BY <1>4, <1>5 DEF SessionsOf
<1>7. r \in Calls /\ SessionsOf(r)
  BY <1>2, <1>5, <1>6, StreamChunkStage, StreamedSessions
<1>8. Outcome(full) = Flush(Drain(Count(r)))
  BY DEF Outcome, Streamed, r, p, b
<1> HIDE DEF r
<1>9. Outcome(full).sess = r.sess /\ Outcome(full).http = r.http
  BY <1>7, <1>8, LastStages
<1> QED BY <1>1, <1>7, <1>9 DEF SessionsOf, SessionsOK

\* A handler that changes one session.
LEMMA OneSession ==
    ASSUME TypeOK, SessionsOK, NEW c \in Clients, NEW t \in Sessions, SessionStep(c, t),
           http' = http, Lawful(t), Bound(t, c, http)
    PROVE  SessionsOK'
<1>1. sess'[c] = t /\ \A d \in Clients \ {c} : sess'[d] = sess[d]
  BY SessionStepType
<1> QED BY <1>1 DEF SessionsOK

\* A new session has no stream.
LEMMA OpenSessions ==
    ASSUME TypeOK, SessionsOK, NEW c \in Clients, OnSlimProtoOpen(c)
    PROVE  SessionsOK'
<1> DEFINE t == [Absent("open") EXCEPT !.state = Started, !.seq = streamedChunks]
<1>1. t \in Sessions /\ t.http = None
  BY OpenedType DEF TypeOK
<1>2. Lawful(t)
  BY DEF Lawful, Absent, Started, Preparing, Stopped, Draining
<1> HIDE DEF t
<1>3. sess[c] \in Sessions /\ Bound(sess[c], c, http) /\ Quiet(sess[c])
  BY DEF TypeOK, SessionsOK, OnSlimProtoOpen, Quiet
<1>4. Bound(t, c, http)
  BY <1>1, <1>3, BoundFree DEF Bound
<1>5. SessionStep(c, t) /\ http' = http
  BY DEF OnSlimProtoOpen, t
<1> QED BY <1>1, <1>2, <1>4, <1>5, OneSession

\* A closed session is bound to nothing.
LEMMA CloseSessions ==
    ASSUME TypeOK, SessionsOK, NEW c \in Clients, OnSlimProtoClose(c)
    PROVE  SessionsOK'
<1> DEFINE t == Absent("gone")
<1>1. t \in Sessions /\ ~Live(t) /\ t.conn = "gone"
  BY GoneType DEF Absent
<1> HIDE DEF t
<1>2. Lawful(t) /\ Bound(t, c, http)
  BY <1>1 DEF Lawful, Bound, Quiet
<1>3. SessionStep(c, t) /\ http' = http
  BY DEF OnSlimProtoClose, t
<1> QED BY <1>1, <1>2, <1>3, OneSession

\* The handshake: a session that drains for it has no stream.
LEMMA HELOSessions ==
    ASSUME TypeOK, SessionsOK, NEW c \in Clients, OnHELO(c)
    PROVE  SessionsOK'
<1> USE DEF Started, Preparing, Draining, Stopped
<1> DEFINE s == sess[c]
           d == [s EXCEPT !.helo = TRUE, !.owesFlush = TRUE, !.state = Draining]
           k == [s EXCEPT !.helo = TRUE, !.owesFlush = TRUE, !.conn = "closing"]
<1>1. s \in Sessions /\ Lawful(s) /\ Bound(s, c, http) /\ s.conn = "open" /\ Live(s)
  BY DEF TypeOK, SessionsOK, OnHELO, Live
<1>2. http' = http
  BY DEF OnHELO
<1>3. CASE s.state = Started
  <2>1. SessionStep(c, d)
    BY <1>3 DEF OnHELO
  <2>2. /\ d \in Sessions /\ d.conn = "open" /\ d.state = Draining /\ d.helo
        /\ d.dialing = s.dialing /\ d.http = s.http
    BY <1>1 DEF Sessions, States
  <2>3. Quiet(s)
    BY <1>1, <1>3 DEF Quiet
  <2> HIDE DEF d
  <2>4. Lawful(d)
    BY <1>1, <1>3, <2>2 DEF Lawful
  <2>5. Bound(d, c, http)
    <3>1. s.http = None /\ \A h \in Streams : http[h].client # c
      BY <1>1, <2>3, QuietFree DEF Bound
    <3> QED BY <2>2, <3>1, BoundFree
  <2> QED BY <1>2, <2>1, <2>2, <2>4, <2>5, OneSession
<1>4. CASE s.state # Started
  <2>1. SessionStep(c, k)
    BY <1>4 DEF OnHELO
  <2>2. /\ k \in Sessions /\ k.conn = "closing" /\ k.state = s.state /\ k.helo
        /\ k.dialing = s.dialing /\ k.http = s.http /\ k.rate = s.rate
    BY <1>1 DEF Sessions
  <2> HIDE DEF k
  <2>3. Lawful(k)
    BY <1>1, <1>4, <2>2 DEF Lawful
  <2>4. Quiet(k) => Quiet(s)
    BY <1>1, <2>2 DEF Quiet
  <2>5. \A h \in Streams : Later(http[h], http[h])
    BY DEF Later
  <2>6. Bound(k, c, http)
    BY <1>1, <2>2, <2>4, <2>5, BoundKept
  <2> QED BY <1>2, <2>1, <2>2, <2>3, <2>6, OneSession
<1> QED BY <1>3, <1>4

\* The answer to Stop: a draining session that owes it has no stream.
LEMMA STMfSessions ==
    ASSUME TypeOK, SessionsOK, NEW c \in Clients, OnSTMf(c)
    PROVE  SessionsOK'
<1> USE DEF Started, Preparing, Draining, Stopped
<1> DEFINE s == sess[c]
           t == [s EXCEPT !.owesFlush = FALSE, !.state = IF @ = Draining THEN Started ELSE @]
<1>1. /\ s \in Sessions /\ Lawful(s) /\ Bound(s, c, http)
      /\ s.conn = "open" /\ Live(s) /\ s.owesFlush
  BY DEF TypeOK, SessionsOK, OnSTMf, Live
<1>2. http' = http /\ SessionStep(c, t)
  BY DEF OnSTMf
<1>3. t \in Sessions
  BY <1>1, STMfSame DEF SameStream
<1>4. /\ t.conn = "open" /\ ~t.owesFlush /\ t.http = s.http /\ t.dialing = s.dialing
      /\ t.helo = s.helo /\ t.ready = s.ready /\ t.cued = s.cued /\ t.rate = s.rate
      /\ t.state = IF s.state = Draining THEN Started ELSE s.state
  BY <1>1 DEF Sessions
<1> HIDE DEF t
<1>5. s.state \in {Draining, Stopped}
  BY <1>1 DEF Lawful
<1>6. Lawful(t)
  BY <1>1, <1>4, <1>5 DEF Lawful
<1>7. Bound(t, c, http)
  <2>1. CASE s.state = Draining
    <3>1. Quiet(s)
      BY <1>1, <2>1 DEF Quiet
    <3>2. s.http = None /\ \A h \in Streams : http[h].client # c
      BY <1>1, <3>1, QuietFree DEF Bound
    <3> QED BY <1>3, <1>4, <3>2, BoundFree
  <2>2. CASE s.state = Stopped
    <3>1. Quiet(t) => Quiet(s)
      BY <1>1, <1>4, <2>2 DEF Quiet
    <3>2. \A h \in Streams : Later(http[h], http[h])
      BY DEF Later
    <3> QED BY <1>1, <1>3, <1>4, <2>2, <3>1, <3>2, BoundKept
  <2> QED BY <1>5, <2>1, <2>2
<1> QED BY <1>2, <1>3, <1>6, <1>7, OneSession

\* The messages that only report on the client.
LEMMA ReportSessions ==
    ASSUME TypeOK, SessionsOK, NEW c \in Clients, OnSTMl(c) \/ OnSTMt(c)
    PROVE  SessionsOK'
<1> DEFINE s == sess[c]
<1>1. s \in Sessions /\ Lawful(s) /\ Bound(s, c, http) /\ s.helo /\ http' = http
  BY DEF TypeOK, SessionsOK, OnSTMl, OnSTMt
<1>2. PICK t \in Sessions :
         /\ SessionStep(c, t)
         /\ t.conn = s.conn /\ t.state = s.state /\ t.http = s.http /\ t.helo = s.helo
         /\ t.dialing = s.dialing /\ t.owesFlush = s.owesFlush /\ t.rate = s.rate
  <2>1. CASE OnSTMl(c)
    <3> DEFINE t == [s EXCEPT !.ready = TRUE]
    <3>1. SessionStep(c, t)
      BY <2>1 DEF OnSTMl
    <3>2. /\ t \in Sessions
          /\ t.conn = s.conn /\ t.state = s.state /\ t.http = s.http /\ t.helo = s.helo
          /\ t.dialing = s.dialing /\ t.owesFlush = s.owesFlush /\ t.rate = s.rate
      BY <1>1 DEF Sessions
    <3> HIDE DEF t
    <3> QED BY <3>1, <3>2
  <2>2. CASE OnSTMt(c)
    <3> DEFINE t == [s EXCEPT !.offset = TRUE]
    <3>1. SessionStep(c, t)
      BY <2>2 DEF OnSTMt
    <3>2. /\ t \in Sessions
          /\ t.conn = s.conn /\ t.state = s.state /\ t.http = s.http /\ t.helo = s.helo
          /\ t.dialing = s.dialing /\ t.owesFlush = s.owesFlush /\ t.rate = s.rate
      BY <1>1 DEF Sessions
    <3> HIDE DEF t
    <3> QED BY <3>1, <3>2
  <2> QED BY <2>1, <2>2
<1>3. Lawful(t)
  BY <1>1, <1>2 DEF Lawful, Live
<1>4. Bound(t, c, http)
  BY <1>1, <1>2 DEF Bound, Quiet, Live
<1> QED BY <1>1, <1>2, <1>3, <1>4, OneSession

\* The client that has played everything has no stream.
LEMMA STMuSessions ==
    ASSUME TypeOK, SessionsOK, NEW c \in Clients, OnSTMu(c)
    PROVE  SessionsOK'
<1> DEFINE s == sess[c]
           t == [s EXCEPT !.cued = FALSE, !.owesFlush = @ \/ s.state = Draining]
<1>1. /\ s \in Sessions /\ Lawful(s) /\ Bound(s, c, http)
      /\ s.conn = "open" /\ Live(s) /\ s.cued /\ \A h \in Streams : http[h].client # c
  BY DEF TypeOK, SessionsOK, OnSTMu, Live
<1>2. http' = http /\ SessionStep(c, t)
  BY DEF OnSTMu
<1>3. t \in Sessions
  BY <1>1, STMuSame DEF SameStream
<1>4. /\ t.conn = "open" /\ t.http = s.http /\ t.dialing = s.dialing
      /\ t.helo = s.helo /\ t.ready = s.ready /\ t.rate = s.rate
      /\ t.state = s.state
      /\ t.owesFlush => s.owesFlush \/ s.state = Draining
  BY <1>1 DEF Sessions
<1> HIDE DEF t
<1>5. Lawful(t)
  BY <1>1, <1>4 DEF Lawful
<1>6. s.http = None
  BY <1>1 DEF Bound, Sessions
<1>7. Bound(t, c, http)
  BY <1>1, <1>3, <1>4, <1>6, BoundFree
<1> QED BY <1>2, <1>3, <1>5, <1>7, OneSession

\* A stream is made for a session that has none.
LEMMA HTTPDataSessions ==
    ASSUME TypeOK, SessionsOK, NEW c \in Clients, NEW h \in Streams, OnHTTPData(c, h)
    PROVE  SessionsOK'
<1> USE DEF Started, Preparing, Draining, Stopped
<1> DEFINE s == sess[c]
           t == [s EXCEPT !.http = h, !.dialing = FALSE]
<1>1. s \in Sessions /\ Lawful(s) /\ Bound(s, c, http) /\ Live(s) /\ s.dialing
  BY DEF TypeOK, SessionsOK, OnHTTPData
<1>2. /\ t \in Sessions /\ t.http = h /\ ~t.dialing /\ t.conn = s.conn /\ t.state = s.state
      /\ t.owesFlush = s.owesFlush /\ t.helo = s.helo /\ t.ready = s.ready
      /\ t.cued = s.cued /\ t.rate = s.rate
  BY <1>1 DEF Sessions
<1>3. SessionStep(c, t)
  BY DEF OnHTTPData
<1> HIDE DEF t
<1>4. sess'[c] = t /\ \A d \in Clients \ {c} : sess'[d] = sess[d]
  BY <1>2, <1>3, SessionStepType
<1>5. /\ http'[h].phase = "running" /\ http'[h].client = c
      /\ \A g \in Streams \ {h} : http'[g] = http[g]
      /\ http[h].client = None
  BY DEF OnHTTPData, TypeOK, Free
<1>6. \A d \in Clients : d # None
  BY NoneAssumption
<1>7. s.state \in {Preparing, Stopped} /\ Quiet(s)
  BY <1>1 DEF Lawful, Quiet
<1>8. Lawful(t)
  BY <1>1, <1>2 DEF Lawful, Live
<1>9. Bound(t, c, http')
  <2>1. \A g \in Streams : http[g].client # c
    BY <1>1, <1>7 DEF Bound
  <2>2. ~Quiet(t)
    BY <1>1, <1>2, <1>7 DEF Quiet, Live
  <2> QED BY <1>2, <1>5, <1>7, <2>1, <2>2 DEF Bound
<1>10. ASSUME NEW d \in Clients \ {c}
       PROVE  Bound(sess[d], d, http')
  <2>1. Bound(sess[d], d, http) /\ sess[d] \in Sessions
    BY DEF SessionsOK, TypeOK
  <2>2. ASSUME NEW g \in Streams, http'[g].client = d
        PROVE  http[g].client = d
    BY <1>5, <2>2
  <2>3. ASSUME NEW g \in Streams, http[g].client = d
        PROVE  http'[g] = http[g]
    BY <1>5, <1>6, <2>3
  <2>4. sess[d].http # None => sess[d].http \in Streams
    BY <2>1 DEF Sessions
  <2> QED BY <2>1, <2>2, <2>3, <2>4 DEF Bound
<1>11. \A g \in Streams : Owned(http'[g])
  BY <1>5, <1>6 DEF SessionsOK, Owned
<1>12. \A d \in Clients : Lawful(sess[d])
  BY DEF SessionsOK
<1> QED BY <1>4, <1>8, <1>9, <1>10, <1>11, <1>12 DEF SessionsOK

\* The session of a stream that is removed has no other one.
LEMMA HTTPCloseSessions ==
    ASSUME TypeOK, SessionsOK, NEW h \in Streams, http[h].phase # "free", OnHTTPClose(h)
    PROVE  SessionsOK'
<1>1. /\ http'[h].client = None /\ http'[h].phase = "free"
      /\ \A g \in Streams \ {h} : http'[g] = http[g]
  BY DEF OnHTTPClose, TypeOK, Free
<1>2. \A d \in Clients : d # None
  BY NoneAssumption
<1>3. \A g \in Streams : Owned(http'[g])
  BY <1>1 DEF SessionsOK, Owned
<1>4. ASSUME NEW c \in Clients
      PROVE  Lawful(sess'[c]) /\ Bound(sess'[c], c, http')
  <2> DEFINE s == sess[c]
             t == [s EXCEPT !.http = None]
  <2>1. s \in Sessions /\ Lawful(s) /\ Bound(s, c, http)
    BY DEF TypeOK, SessionsOK
  <2>2. \A g \in Streams : http'[g].client = c => http[g].client = c /\ g # h
    BY <1>1, <1>2
  <2>3. CASE c = http[h].client /\ Live(s)
    <3>1. sess'[c] = t
      BY <2>3 DEF OnHTTPClose
    <3>2. /\ t \in Sessions /\ t.http = None /\ t.dialing = s.dialing /\ t.conn = s.conn
          /\ t.owesFlush = s.owesFlush /\ t.helo = s.helo /\ t.ready = s.ready
          /\ t.cued = s.cued /\ t.rate = s.rate /\ t.state = s.state
      BY <2>1 DEF Sessions
    <3> HIDE DEF t
    <3>3. Lawful(t)
      BY <2>1, <3>2 DEF Lawful, Live
    <3>4. \A g \in Streams : http'[g].client # c
      BY <2>1, <2>2, <2>3 DEF Bound
    <3> QED BY <3>1, <3>2, <3>3, <3>4, BoundFree
  <2>4. CASE ~(c = http[h].client /\ Live(s))
    <3>1. sess'[c] = s
      BY <2>4 DEF OnHTTPClose
    <3>2. ASSUME Live(s), s.http # None
          PROVE  s.http \in Streams \ {h}
      <4>1. http[s.http].client = c /\ s.http \in Streams
        BY <2>1, <3>2 DEF Bound, Sessions
      <4> QED BY <2>4, <3>2, <4>1
    <3> HIDE DEF s
    <3>3. Bound(s, c, http')
      BY <1>1, <2>1, <2>2, <3>2 DEF Bound
    <3> QED BY <2>1, <3>1, <3>3
  <2> QED BY <2>3, <2>4
<1> QED BY <1>3, <1>4 DEF SessionsOK

\* Streams that are closed, at most, leave the sessions bound to them.
LEMMA StreamsLater ==
    ASSUME TypeOK, SessionsOK, sess' = sess, \A h \in Streams : Later(http[h], http'[h])
    PROVE  SessionsOK'
<1>1. \A c \in Clients : sess[c] \in Sessions /\ Bound(sess[c], c, http) /\ Lawful(sess[c])
  BY DEF TypeOK, SessionsOK
<1>2. \A c \in Clients : Bound(sess[c], c, http')
  BY <1>1, BoundKept
<1>3. \A h \in Streams : Owned(http'[h])
  BY OwnedLater DEF SessionsOK
<1> QED BY <1>1, <1>2, <1>3 DEF SessionsOK

\* The end of a flush.
LEMMA FlushedSessions ==
    ASSUME TypeOK, SessionsOK, NEW h \in Streams, Flushed(h)
    PROVE  SessionsOK'
<1>1. \A g \in Streams : Later(http[g], http'[g])
  BY DEF Flushed, TypeOK, HttpSessions, Later
<1> QED BY <1>1, StreamsLater DEF Flushed

\* The stop of the Streamer: no session drains.
LEMMA StopSessions ==
    ASSUME TypeOK, SessionsOK, StreamerStop
    PROVE  SessionsOK'
<1> USE DEF Started, Preparing, Draining, Stopped
<1>1. \A h \in Streams : Later(http[h], http'[h])
  <2>1. \A h \in Streams : http[h] \in HttpSessions /\ http'[h] = Stopping(http[h])
    BY DEF TypeOK, StreamerStop
  <2>2. \A x \in HttpSessions : Later(x, Stopping(x))
    BY DEF Later, Stopping, HttpSessions, IsRunning
  <2> QED BY <2>1, <2>2
<1>2. \A h \in Streams : Owned(http'[h])
  BY <1>1, OwnedLater DEF SessionsOK
<1>3. ASSUME NEW c \in Clients
      PROVE  Lawful(sess'[c]) /\ Bound(sess'[c], c, http')
  <2> DEFINE s == sess[c]
             t == [s EXCEPT !.state = Stopped, !.rate = 0,
                            !.owesFlush = @ \/ s.state \notin {Started, Stopped}]
  <2>1. s \in Sessions /\ Lawful(s) /\ Bound(s, c, http)
    BY DEF TypeOK, SessionsOK
  <2>2. CASE Live(s)
    <3>1. sess'[c] = t
      BY <2>2 DEF StreamerStop
    <3>2. t \in Sessions
      BY <2>1, StopSame DEF SameStream
    <3>3. /\ t.http = s.http /\ t.dialing = s.dialing /\ t.conn = s.conn
          /\ t.helo = s.helo /\ t.ready = s.ready /\ t.cued = s.cued /\ t.state = Stopped
      BY <2>1 DEF Sessions
    <3> HIDE DEF t
    <3>4. Lawful(t)
      BY <2>1, <3>3 DEF Lawful, Live
    <3>5. Quiet(t) => Quiet(s)
      BY <3>3 DEF Quiet, Live
    <3>6. Bound(t, c, http')
      BY <1>1, <2>1, <2>2, <3>2, <3>3, <3>5, BoundKept
    <3> QED BY <3>1, <3>4, <3>6
  <2>3. CASE ~Live(s)
    <3>1. sess'[c] = s
      BY <2>3 DEF StreamerStop
    <3>2. Bound(s, c, http')
      BY <1>1, <2>1, BoundKept
    <3> QED BY <2>1, <3>1, <3>2
  <2> QED BY <2>2, <2>3
<1> QED BY <1>2, <1>3 DEF SessionsOK

\* Every handler keeps sessions and streams bound to each other.
LEMMA SessionsStep == TypeInv /\ SessionsOK /\ [Next]_vars => SessionsOK'
<1> SUFFICES ASSUME TypeInv, SessionsOK, [Next]_vars PROVE SessionsOK'
  OBVIOUS
<1>0. TypeOK
  BY DEF TypeInv
<1>1. CASE ConsumeChunk
  BY <1>0, <1>1, ConsumeChunkSessions
<1>2. CASE DeferTimeout
  BY <1>2 DEF DeferTimeout, SessionsOK
<1>3. CASE StreamerStop
  BY <1>0, <1>3, StopSessions
<1>4. ASSUME NEW c \in Clients, ClientStep(c)
      PROVE  SessionsOK'
  BY <1>0, <1>4, OpenSessions, CloseSessions, HELOSessions, STMfSessions, ReportSessions,
     STMuSessions, HTTPDataSessions DEF ClientStep
<1>5. ASSUME NEW h \in Streams, HttpStep(h)
      PROVE  SessionsOK'
  <2>1. CASE Flushed(h)
    BY <1>0, <2>1, FlushedSessions
  <2>2. CASE LocalClose(h) \/ PeerClose(h)
    BY <1>0, <2>2, HTTPCloseSessions DEF LocalClose, PeerClose, IsRunning
  <2> QED BY <1>5, <2>1, <2>2 DEF HttpStep
<1>6. CASE UNCHANGED vars
  BY <1>6 DEF vars, SessionsOK
<1> QED BY <1>1, <1>2, <1>3, <1>4, <1>5, <1>6 DEF Next

\* No session and no stream exist at the start.
LEMMA SessionsInit == Init => SessionsOK
<1> SUFFICES ASSUME Init PROVE SessionsOK
  OBVIOUS
<1>1. ASSUME NEW c \in Clients
      PROVE  Lawful(sess[c]) /\ Bound(sess[c], c, http)
  <2>1. sess[c] = Absent("new") /\ ~Live(sess[c])
    BY DEF Init, Absent, Live
  <2>2. \A h \in Streams : http[h].client # c
    BY NoneAssumption DEF Init, Free
  <2> QED BY <2>1, <2>2 DEF Lawful, Bound
<1>2. \A h \in Streams : Owned(http[h])
  BY DEF Init, Free, Owned
<1> QED BY <1>1, <1>2 DEF SessionsOK

\* The stream of a client that drains is being closed: the client will see its end,
\* whichever streams refused the last chunk and whatever was closed meanwhile.
THEOREM DrainingEndsStreamCorrect == Spec => []DrainingEndsStream
<1>1. SessionsOK => DrainingEndsStream
  BY DEF SessionsOK, Bound, DrainingEndsStream
<1> QED BY <1>1, TypeInit, TypeStep, SessionsInit, SessionsStep, PTL DEF Spec

\* A stream that runs for a connected client is the one its session feeds: a close resets
\* no other reference, and no client is asked for a second stream while it has one.
THEOREM NoOrphanStreamCorrect == Spec => []NoOrphanStream
<1>1. TypeOK /\ SessionsOK => NoOrphanStream
  <2> SUFFICES ASSUME TypeOK, SessionsOK, NEW h \in Streams,
                      http[h].phase = "running", Live(sess[http[h].client])
               PROVE  sess[http[h].client].http = h
    BY DEF NoOrphanStream
  <2>1. http[h].client \in Clients
    BY DEF SessionsOK, Owned, TypeOK, HttpSessions
  <2> QED BY <2>1 DEF SessionsOK, Bound
<1>2. TypeInv => TypeOK
  BY DEF TypeInv
<1> QED BY <1>1, <1>2, TypeInit, TypeStep, SessionsInit, SessionsStep, PTL DEF Spec

-----------------------------------------------------------------------------
(* Playback while no stream is short of buffers (Slow = {}).  Every session    *)
(* takes every chunk, so all sessions are level with the stream: they start    *)
(* and end it together, and what a client receives is contiguous.              *)

\* What session s is to a stream in state st, at rate and n, over the connections hs.  It
\* is stopped with the Streamer only; one that drains while the stream runs has been
\* connected late and has no connection; it is level with the stream and streams no longer
\* than it; it streams over a connection from the first chunk on that was encoded for it.
Level(s, st, rate, n, hs) ==
    /\ st # Stopped => s.state # Stopped
    /\ st \in {Started, Preparing} \cup Feeding /\ s.state = Draining => s.http = None
    /\ s.seq = n
    /\ st \notin Feeding => s.state \notin Feeding
    /\ s.http # None /\ hs[s.http].last # 0 /\ IsRunning(hs[s.http]) =>
         /\ s.state # Preparing
         /\ s.state \in Feeding /\ hs[s.http].rate = rate => hs[s.http].last = n

AllLevel ==
    \A c \in Clients : Live(sess[c]) =>
        Level(sess[c], state, samplingRate, streamedChunks, http)

\* AllLevel, of a call.
LevelOf(r) ==
    \A c \in Clients : Live(r.sess[c]) => Level(r.sess[c], r.state, r.rate, r.n, r.http)

\* The start of a stream.
LEMMA BeginLevel ==
    ASSUME chunk \in Chunks, NEW r \in Calls, SessionsOf(r), LevelOf(r)
    PROVE  LevelOf(Begin(r))
<1> USE DEF Feeding, Started, Preparing, Buffering, Playing, Draining, Stopped
<1>1. CASE r.state # Started
  BY <1>1 DEF Begin
<1>2. CASE r.state = Started
  <2> DEFINE q == Begin(r)
  <2>1. q.state = Preparing /\ q.rate = chunk.rate /\ q.n = 0 /\ q.http = r.http
    BY <1>2, BeginProgress
  <2>2. q.sess = [c \in Clients |->
                    IF Live(r.sess[c])
                    THEN [Prepared(r.sess[c], chunk.rate) EXCEPT !.seq = 0]
                    ELSE r.sess[c]]
    BY <1>2 DEF Begin, Calls
  <2> HIDE DEF q
  <2>3. chunk.rate \in Rates
    BY DEF Chunks
  <2>4. ASSUME NEW c \in Clients, Live(q.sess[c])
        PROVE  Level(q.sess[c], q.state, q.rate, q.n, q.http)
    <3> DEFINE s == r.sess[c]
               p == Prepared(s, chunk.rate)
               t == [p EXCEPT !.seq = 0]
    <3>1. s \in Sessions /\ p \in Sessions
      BY <2>3, PreparedFacts DEF Calls
    <3>2. Live(s)
      BY <2>2, <2>4
    <3>3. q.sess[c] = t
      BY <2>2, <3>2
    <3>4. Level(s, Started, r.rate, r.n, r.http)
      BY <1>2, <3>2 DEF LevelOf
    <3>5. \/ p.state = Preparing /\ p.http = None
          \/ p.state = s.state /\ p.http = s.http
      BY <2>3, <3>1, PreparedCases
    <3> HIDE DEF p
    <3>6. t.state = p.state /\ t.http = p.http /\ t.seq = 0
      BY <3>1 DEF Sessions
    <3> HIDE DEF t
    <3>7. CASE p.state = Preparing /\ p.http = None
      BY <2>1, <3>3, <3>6, <3>7 DEF Level
    <3>8. CASE p.state = s.state /\ p.http = s.http
      BY <2>1, <3>3, <3>4, <3>6, <3>8 DEF Level
    <3> QED BY <2>1, <3>3, <3>5, <3>6, <3>7, <3>8 DEF Level
  <2>5. LevelOf(q)
    BY <2>4 DEF LevelOf
  <2> QED BY <2>5 DEF q
<1> QED BY <1>1, <1>2

\* Entering Buffering and Playing.
LEMMA ReadyLevel ==
    ASSUME NEW r \in Calls, LevelOf(r)
    PROVE  LevelOf(Play(Buffer(r)))
<1> DEFINE q == Play(Buffer(r))
<1>1. /\ q.rate = r.rate /\ q.n = r.n /\ q.sess = r.sess /\ q.http = r.http
      /\ q.state = r.state \/ (r.state \in {Preparing, Buffering} /\ q.state \in Feeding)
  BY ReadyProgress
<1> HIDE DEF q
<1>2. ASSUME NEW c \in Clients, Live(q.sess[c])
      PROVE  Level(q.sess[c], q.state, q.rate, q.n, q.http)
  <2>1. Level(r.sess[c], r.state, r.rate, r.n, r.http)
    BY <1>1, <1>2 DEF LevelOf
  <2> QED BY <1>1, <2>1
          DEF Level, Feeding, Started, Preparing, Buffering, Playing, Draining, Stopped
<1>3. LevelOf(q)
  BY <1>2 DEF LevelOf
<1> QED BY <1>3 DEF q

\* A session feeds its connection as soon as it has one, unless it drains or is stopped.
LEMMA AdvancedFeeds ==
    ASSUME NEW s \in Sessions, NEW r \in Rates, NEW p \in BOOLEAN,
           s.state = Preparing => s.rate # 0
    PROVE  LET a == Advanced(s, r, p) IN
           /\ a.http # None /\ a.state \notin Feeding =>
                a.state = s.state /\ s.state \in {Draining, Stopped}
           /\ a.state \in Feeding => s.state \in {Preparing} \cup Feeding /\ a.http = s.http
           /\ a.state \in {Draining, Stopped} => a.state = s.state /\ a.http = s.http
<1> DEFINE a == Advanced(s, r, p)
<1> USE DEF Feeding, Started, Preparing, Buffering, Playing, Draining, Stopped
<1>1. CASE s.state = Started
  <2>1. a.state = Preparing /\ a.http = None
    BY <1>1, AdvancedCases, PreparedCases
  <2> HIDE DEF a
  <2>2. a.state \notin Feeding
    BY <2>1
  <2> QED BY <2>1, <2>2 DEF a
<1>2. CASE s.state # Started
  <2>1. /\ a.http = s.http
        /\ \/ a.state = s.state
           \/ s.state \in {Preparing, Buffering} /\ a.state \in Feeding
        /\ s.state = Preparing /\ IsReadyToBuffer(s) => a.state \in Feeding
    BY <1>2, AdvancedCases
  <2>2. s.state = Preparing /\ s.http # None => IsReadyToBuffer(s)
    BY DEF IsReadyToBuffer
  <2>3. s.state \in States
    BY DEF Sessions
  <2> HIDE DEF a
  <2> QED BY <1>2, <2>1, <2>2, <2>3 DEF States, a
<1> QED BY <1>1, <1>2

\* A session that is ready plays with the Streamer.
LEMMA AdvancedPlays ==
    ASSUME NEW s \in Sessions, s.state \in {Preparing} \cup Feeding, IsReadyToPlay(s),
           NEW r, NEW p, p
    PROVE  Advanced(s, r, p).state = Playing
<1> USE DEF Feeding, Started, Preparing, Buffering, Playing
<1> DEFINE b == IF s.state = Preparing /\ IsReadyToBuffer(s)
                THEN [s EXCEPT !.state = Buffering] ELSE s
<1>1. IsReadyToBuffer(s)
  BY DEF IsReadyToPlay
<1>2. /\ b \in Sessions /\ b.rate = s.rate /\ b.http = s.http /\ b.offset = s.offset
      /\ b.ready = s.ready /\ b.state \in Feeding
  BY <1>1 DEF Sessions, States
<1>3. Advanced(s, r, p) = IF b.state = Buffering /\ p /\ IsReadyToPlay(b)
                          THEN [b EXCEPT !.state = Playing, !.cued = TRUE] ELSE b
  BY DEF Advanced
<1> HIDE DEF b
<1>4. IsReadyToPlay(b)
  BY <1>2 DEF IsReadyToPlay, IsReadyToBuffer
<1>5. CASE b.state = Buffering
  <2>1. Advanced(s, r, p) = [b EXCEPT !.state = Playing, !.cued = TRUE]
    BY <1>3, <1>4, <1>5
  <2>2. \A x \in Sessions : [x EXCEPT !.state = Playing, !.cued = TRUE].state = Playing
    BY DEF Sessions
  <2> QED BY <1>2, <2>1, <2>2
<1>6. CASE b.state = Playing
  BY <1>3, <1>6
<1> QED BY <1>2, <1>5, <1>6

\* A session that is level with the stream takes the chunk; it feeds its connection unless
\* it drains or is stopped.
LEMMA TakesChunk ==
    ASSUME chunk \in Chunks, NEW r \in Calls, r.state \in Feeding, r.rate = chunk.rate,
           NEW c \in Clients, Live(r.sess[c]), Lawful(r.sess[c]),
           Bound(r.sess[c], c, r.http),
           Level(r.sess[c], r.state, r.rate, r.n, r.http)
    PROVE  LET s == r.sess[c]
               a == Advanced(s, r.rate, r.state = Playing)
               t == StreamChunk(r, {}).sess[c]
           IN  /\ t = Consumed(a, chunk.eos)
               /\ t.seq = r.n + 1 /\ t.http = a.http /\ a.http \in {s.http, None}
               /\ t.state = IF chunk.eos /\ a.state \in Feeding THEN Draining ELSE a.state
               /\ a.http # None /\ a.state \notin Feeding =>
                    a.state = s.state /\ s.state \in {Draining, Stopped}
               /\ a.state \in Feeding =>
                    s.state \in {Preparing} \cup Feeding /\ a.http = s.http
               /\ a.state \in {Draining, Stopped} => a.state = s.state /\ a.http = s.http
<1> DEFINE s == r.sess[c]
           a == Advanced(s, r.rate, r.state = Playing)
           t == StreamChunk(r, {}).sess[c]
<1> USE DEF Feeding, Started, Preparing, Buffering, Playing, Draining, Stopped
<1>1. s \in Sessions /\ r.rate \in Rates /\ chunk.eos \in BOOLEAN /\ r.n \in Nat
  BY DEF Calls, Chunks
<1>2. a \in Sessions /\ a.seq = s.seq /\ a.http \in {s.http, None} /\ s.seq = r.n
  BY <1>1, AdvancedFacts DEF Level
<1>3. t = Offered(s, r, {})
  BY DEF StreamChunk, Calls
<1>4. ~Refuses(a, r.http, {})
  BY DEF Refuses
<1>5. t = Consumed(a, chunk.eos)
  <2>1. ~(r.n < s.seq)
    BY <1>1, <1>2
  <2> QED BY <1>3, <1>4, <2>1 DEF Offered
<1>6. t.seq = r.n + 1 /\ t.http = a.http
  BY <1>1, <1>2, <1>5, ConsumedFacts
<1>7. t.state = IF chunk.eos /\ a.state \in Feeding THEN Draining ELSE a.state
  <2> HIDE DEF a
  <2>1. a \in Sessions /\ t = Consumed(a, chunk.eos)
    BY <1>2, <1>5
  <2> HIDE DEF t
  <2> QED BY <2>1 DEF Consumed, Sessions
<1>8. /\ a.http # None /\ a.state \notin Feeding =>
           a.state = s.state /\ s.state \in {Draining, Stopped}
      /\ a.state \in Feeding => s.state \in {Preparing} \cup Feeding /\ a.http = s.http
      /\ a.state \in {Draining, Stopped} => a.state = s.state /\ a.http = s.http
  BY <1>1, AdvancedFeeds DEF Lawful
<1> QED BY <1>2, <1>5, <1>6, <1>7, <1>8

\* What encoding a chunk makes of the last chunk of a connection.
LEMMA EncodedLast ==
    ASSUME NEW x \in HttpSessions, NEW k \in Chunks
    PROVE  /\ Encoded(x, k).rate = x.rate
           /\ IsRunning(Encoded(x, k)) => IsRunning(x)
           /\ IsRunning(x) /\ x.rate = k.rate => Encoded(x, k).last = k.pos
           /\ ~(IsRunning(x) /\ x.rate = k.rate) => Encoded(x, k).last = x.last
<1>1. /\ Stopping(x) \in HttpSessions /\ Stopping(x).rate = x.rate
      /\ Stopping(x).last = x.last
  BY DEF Stopping, HttpSessions
<1>2. ASSUME NEW y \in HttpSessions
      PROVE  /\ [y EXCEPT !.last = k.pos].last = k.pos
             /\ [y EXCEPT !.last = k.pos].rate = y.rate
  BY DEF HttpSessions
<1>3. CASE ~IsRunning(x)
  <2>1. Encoded(x, k) = x
    BY <1>3 DEF Encoded
  <2> QED BY <1>3, <2>1
<1>4. CASE IsRunning(x) /\ k.rate # x.rate
  <2>1. Encoded(x, k) = Stopping(x)
    BY <1>4 DEF Encoded
  <2> QED BY <1>1, <1>4, <2>1
<1>5. CASE IsRunning(x) /\ k.rate = x.rate
  <2>1. \/ Encoded(x, k) = [Stopping(x) EXCEPT !.last = k.pos]
        \/ Encoded(x, k) = [x EXCEPT !.last = k.pos]
    BY <1>5 DEF Encoded
  <2> QED BY <1>1, <1>2, <1>5, <2>1
<1> QED BY <1>3, <1>4, <1>5

\* A session that took a chunk from a stream that feeds it is level with the next chunk.
LEMMA TookLevel ==
    ASSUME chunk \in Chunks, NEW r \in Calls, HeadOf(r), r.state \in Feeding,
           r.rate = chunk.rate, NEW c \in Clients, Live(r.sess[c]), Lawful(r.sess[c]),
           Bound(r.sess[c], c, r.http),
           Level(r.sess[c], r.state, r.rate, r.n, r.http),
           NEW st, IF chunk.eos THEN st \in {Draining, Started} ELSE st = r.state,
           st = Started => StreamChunk(r, {}).sess[c].state # Draining
    PROVE  Level(StreamChunk(r, {}).sess[c], st, r.rate, r.n + 1, StreamChunk(r, {}).http)
<1> DEFINE s == r.sess[c]
           a == Advanced(s, r.rate, r.state = Playing)
           t == StreamChunk(r, {}).sess[c]
           gs == StreamChunk(r, {}).http
<1> USE DEF Feeding, Started, Preparing, Buffering, Playing, Draining, Stopped
<1>1. /\ t.seq = r.n + 1 /\ t.http = a.http /\ a.http \in {s.http, None}
      /\ t.state = IF chunk.eos /\ a.state \in Feeding THEN Draining ELSE a.state
      /\ a.http # None /\ a.state \notin Feeding =>
           a.state = s.state /\ s.state \in {Draining, Stopped}
      /\ a.state \in Feeding => s.state \in {Preparing} \cup Feeding /\ a.http = s.http
      /\ a.state \in {Draining, Stopped} => a.state = s.state /\ a.http = s.http
  BY TakesChunk
<1>2. /\ s.state # Stopped /\ s.seq = r.n
      /\ s.state = Draining => s.http = None
  BY DEF Level
<1>3. ASSUME a.state \in Feeding, ~chunk.eos, a.http # None, IsRunning(gs[a.http]),
             gs[a.http].rate = r.rate
      PROVE  gs[a.http].last = r.n + 1
  <2> DEFINE h == a.http
             x == r.http[h]
  <2>1. h \in Streams /\ s.seq <= r.n
    <3>1. s \in Sessions /\ r.n \in Nat
      BY DEF Calls
    <3> HIDE DEF s, a
    <3>2. s.http \in Streams \cup {None}
      BY <3>1 DEF Sessions
    <3> QED BY <1>1, <1>2, <1>3, <3>1, <3>2
  <2>2. IsFed(h, r, {})
    BY <1>3, <2>1 DEF IsFed
  <2>3. gs[h] = Encoded(x, chunk) /\ x \in HttpSessions
    BY <2>1, <2>2, StreamedHttp DEF Calls
  <2>4. chunk.pos = r.n + 1
    BY DEF HeadOf
  <2> HIDE DEF a, gs, x
  <2> QED BY <1>3, <2>3, <2>4, EncodedLast
<1> HIDE DEF a, t, gs
<1>4. st # Stopped => t.state # Stopped
  BY <1>1, <1>2
<1>5. st \in {Started, Preparing} \cup Feeding /\ t.state = Draining => t.http = None
  BY <1>1, <1>2 DEF t
<1>6. st \notin Feeding => t.state \notin Feeding
  BY <1>1
<1>7. t.http # None /\ IsRunning(gs[t.http]) =>
        /\ t.state # Preparing
        /\ t.state \in Feeding /\ gs[t.http].rate = r.rate => gs[t.http].last = r.n + 1
  BY <1>1, <1>3
<1>8. Level(t, st, r.rate, r.n + 1, gs)
  BY <1>1, <1>4, <1>5, <1>6, <1>7 DEF Level
<1> QED BY <1>8 DEF t, gs

\* The chunk is offered to all sessions and the call ends: all are level with the stream.
LEMMA StreamedLevel ==
    ASSUME chunk \in Chunks, NEW r \in Calls, HeadOf(r), SessionsOf(r), LevelOf(r)
    PROVE  LevelOf(Flush(Drain(Count(StreamChunk(r, {})))))
<1> DEFINE m == StreamChunk(r, {})
           q == Flush(Drain(Count(m)))
<1> USE DEF Feeding, Started, Preparing, Buffering, Playing, Draining, Stopped
<1>1. m \in Calls /\ m.state = r.state /\ m.rate = r.rate /\ m.n = r.n
  BY StreamChunkStage, StreamChunkProgress
<1>2. \A c \in Clients : m.sess[c].conn = r.sess[c].conn
  BY StreamChunkStage DEF Keeps
<1>3. CASE r.state \notin Feeding
  <2>1. m = r
    BY <1>3 DEF StreamChunk
  <2> HIDE DEF m
  <2>2. /\ q.rate = r.rate /\ q.sess = r.sess /\ q.http = r.http /\ q.n = r.n
        /\ q.state = r.state \/ (q.state = Started /\ r.state = Draining /\ ~IsDraining(r.sess))
    BY <1>3, <2>1, LastStages
  <2> HIDE DEF q
  <2>3. ASSUME NEW c \in Clients, Live(q.sess[c])
        PROVE  Level(q.sess[c], q.state, q.rate, q.n, q.http)
    <3>1. Level(r.sess[c], r.state, r.rate, r.n, r.http)
      BY <2>2, <2>3 DEF LevelOf
    <3>2. q.state # r.state => r.sess[c].state # Draining
      BY <2>2, <2>3 DEF IsDraining
    <3> QED BY <2>2, <3>1, <3>2 DEF Level
  <2>4. LevelOf(q)
    BY <2>3 DEF LevelOf
  <2> QED BY <2>4 DEF m, q
<1>4. CASE r.state \in Feeding
  <2>1. r.rate = chunk.rate /\ r.n \in Nat
    BY <1>4 DEF HeadOf, Calls
  <2>2. ASSUME NEW c \in Clients, Live(m.sess[c])
        PROVE  /\ Live(r.sess[c]) /\ Lawful(r.sess[c]) /\ Bound(r.sess[c], c, r.http)
               /\ Level(r.sess[c], r.state, r.rate, r.n, r.http)
               /\ m.sess[c].seq = r.n + 1
    <3>1. /\ Live(r.sess[c]) /\ Lawful(r.sess[c]) /\ Bound(r.sess[c], c, r.http)
          /\ Level(r.sess[c], r.state, r.rate, r.n, r.http)
      BY <1>2, <2>2 DEF Live, LevelOf, SessionsOf
    <3> QED BY <1>4, <2>1, <3>1, TakesChunk
  <2>3. AllTook(m.sess, m.n)
    BY <1>1, <2>1, <2>2 DEF AllTook
  <2>4. /\ q.rate = r.rate /\ q.sess = m.sess /\ q.http = m.http /\ q.n = r.n + 1
        /\ IF chunk.eos
           THEN q.state = IF IsDraining(m.sess) THEN Draining ELSE Started
           ELSE q.state = r.state
    <3> HIDE DEF m
    <3>1. m.state \in Feeding /\ m.rate = chunk.rate
      BY <1>1, <1>4, <2>1
    <3> QED BY <1>1, <2>3, <3>1, LastStages, ZenonT(40)
  <2>5. ASSUME NEW c \in Clients, Live(m.sess[c])
        PROVE  Level(m.sess[c], q.state, r.rate, r.n + 1, m.http)
    <3>1. q.state = Started => m.sess[c].state # Draining
      BY <1>4, <2>4, <2>5 DEF IsDraining
    <3>2. IF chunk.eos THEN q.state \in {Draining, Started} ELSE q.state = r.state
      BY <2>4
    <3> HIDE DEF q
    <3> QED BY <1>4, <2>1, <2>2, <2>5, <3>1, <3>2, TookLevel
  <2> HIDE DEF m, q
  <2>6. LevelOf(q)
    BY <2>4, <2>5 DEF LevelOf
  <2> QED BY <2>6 DEF m, q
<1> QED BY <1>3, <1>4

\* A call of consumeChunk that nobody refuses.
LEMMA ConsumeChunkLevel ==
    ASSUME TypeOK, HeadInStep, SessionsOK, AllLevel, Slow = {}, ConsumeChunk
    PROVE  AllLevel'
<1>0. state # Stopped
  BY DEF ConsumeChunk
<1>1. PICK full \in SUBSET Slow :
         /\ state' = Outcome(full).state /\ samplingRate' = Outcome(full).rate
         /\ streamedChunks' = Outcome(full).n
         /\ sess' = Outcome(full).sess /\ http' = Outcome(full).http
  BY ConsumeChunkIsOutcome
<1>2. full = {}
  OBVIOUS
<1> DEFINE b == Begin(Call)
           p == Play(Buffer(b))
<1>3. chunk \in Chunks /\ Call \in Calls /\ SessionsOf(Call) /\ LevelOf(Call)
  BY CallType DEF TypeOK, SessionsOf, SessionsOK, LevelOf, AllLevel, Call
<1>4. b \in Calls /\ SessionsOf(b) /\ LevelOf(b)
  BY <1>3, BeginStage, BeginSessions, BeginLevel
<1>5. p \in Calls /\ SessionsOf(p) /\ LevelOf(p)
  <2> HIDE DEF b
  <2>1. p \in Calls /\ p.sess = b.sess /\ p.http = b.http
    BY <1>4, ReadyProgress
  <2>2. LevelOf(p)
    BY <1>4, ReadyLevel
  <2> HIDE DEF p
  <2> QED BY <1>4, <2>1, <2>2 DEF SessionsOf
<1>6. HeadOf(p)
  BY <1>0, ReadyHead DEF p, b
<1>7. Outcome({}) = Flush(Drain(Count(StreamChunk(p, {}))))
  BY DEF Outcome, Streamed, p, b
<1>8. LevelOf(Outcome({}))
  <2> HIDE DEF p
  <2> QED BY <1>3, <1>5, <1>6, <1>7, StreamedLevel
<1> QED BY <1>1, <1>2, <1>8 DEF LevelOf, AllLevel

\* A handler that changes one session.
LEMMA OneLevel ==
    ASSUME TypeOK, AllLevel, NEW c \in Clients, NEW t \in Sessions, SessionStep(c, t),
           http' = http, Live(t) => Level(t, state, samplingRate, streamedChunks, http)
    PROVE  AllLevel'
<1>1. sess'[c] = t /\ \A d \in Clients \ {c} : sess'[d] = sess[d]
  BY SessionStepType
<1>2. UNCHANGED <<state, samplingRate, streamedChunks>>
  BY DEF SessionStep
<1> QED BY <1>1, <1>2 DEF AllLevel

\* A message keeps its session level: it keeps the place in the stream, and drains only a
\* session without a connection.
LEMMA MessageLevel ==
    ASSUME TypeOK, SessionsOK, AllLevel, NEW c \in Clients,
           OnHELO(c) \/ OnSTMf(c) \/ OnSTMl(c) \/ OnSTMt(c) \/ OnSTMu(c)
    PROVE  AllLevel'
<1> USE DEF Feeding, Started, Preparing, Buffering, Playing, Draining, Stopped
<1> DEFINE s == sess[c]
<1>1. s \in Sessions /\ Lawful(s) /\ Bound(s, c, http) /\ Live(s)
  BY DEF TypeOK, SessionsOK, OnHELO, OnSTMf, OnSTMl, OnSTMt, OnSTMu, Live
<1>2. Level(s, state, samplingRate, streamedChunks, http)
  BY <1>1 DEF AllLevel
<1>3. \E t \in Sessions :
         /\ SessionStep(c, t) /\ http' = http /\ t.seq = s.seq /\ t.http = s.http
         /\ \/ t.state = s.state
            \/ s.state = Started /\ t.state = Draining
            \/ s.state = Draining /\ t.state = Started
  <2>1. CASE OnHELO(c)
    <3> DEFINE d == [s EXCEPT !.helo = TRUE, !.owesFlush = TRUE, !.state = Draining]
               k == [s EXCEPT !.helo = TRUE, !.owesFlush = TRUE, !.conn = "closing"]
    <3>1. d \in Sessions /\ d.seq = s.seq /\ d.http = s.http /\ d.state = Draining
      BY <1>1 DEF Sessions, States
    <3>2. k \in Sessions /\ k.seq = s.seq /\ k.http = s.http /\ k.state = s.state
      BY <1>1 DEF Sessions
    <3>3. http' = http /\ IF s.state = Started THEN SessionStep(c, d) ELSE SessionStep(c, k)
      BY <2>1 DEF OnHELO
    <3> HIDE DEF d, k
    <3> QED BY <3>1, <3>2, <3>3
  <2>2. CASE OnSTMf(c)
    <3> DEFINE t == [s EXCEPT !.owesFlush = FALSE,
                              !.state = IF @ = Draining THEN Started ELSE @]
    <3>1. t \in Sessions /\ t.seq = s.seq /\ t.http = s.http
      BY <1>1, STMfSame DEF SameStream
    <3>2. t.state = IF s.state = Draining THEN Started ELSE s.state
      BY <1>1 DEF Sessions
    <3>3. SessionStep(c, t) /\ http' = http
      BY <2>2 DEF OnSTMf
    <3> HIDE DEF t
    <3> QED BY <3>1, <3>2, <3>3
  <2>3. CASE OnSTMl(c)
    <3> DEFINE t == [s EXCEPT !.ready = TRUE]
    <3>1. t \in Sessions /\ t.seq = s.seq /\ t.http = s.http /\ t.state = s.state
      BY <1>1 DEF Sessions
    <3>2. SessionStep(c, t) /\ http' = http
      BY <2>3 DEF OnSTMl
    <3> HIDE DEF t
    <3> QED BY <3>1, <3>2
  <2>4. CASE OnSTMt(c)
    <3> DEFINE t == [s EXCEPT !.offset = TRUE]
    <3>1. t \in Sessions /\ t.seq = s.seq /\ t.http = s.http /\ t.state = s.state
      BY <1>1 DEF Sessions
    <3>2. SessionStep(c, t) /\ http' = http
      BY <2>4 DEF OnSTMt
    <3> HIDE DEF t
    <3> QED BY <3>1, <3>2
  <2>5. CASE OnSTMu(c)
    <3> DEFINE t == [s EXCEPT !.cued = FALSE, !.owesFlush = @ \/ s.state = Draining]
    <3>1. t \in Sessions /\ t.seq = s.seq /\ t.http = s.http
      BY <1>1, STMuSame DEF SameStream
    <3>2. t.state = s.state
      BY <1>1 DEF Sessions
    <3>3. SessionStep(c, t) /\ http' = http
      BY <2>5 DEF OnSTMu
    <3> HIDE DEF t
    <3> QED BY <3>1, <3>2, <3>3
  <2> QED BY <2>1, <2>2, <2>3, <2>4, <2>5
<1>4. s.state = Started => s.http = None
  BY <1>1, QuietFree DEF Quiet
<1>5. \A t : /\ t.seq = s.seq /\ t.http = s.http
             /\ \/ t.state = s.state
                \/ s.state = Started /\ t.state = Draining
                \/ s.state = Draining /\ t.state = Started
             => Level(t, state, samplingRate, streamedChunks, http)
  BY <1>2, <1>4 DEF Level
<1> QED BY <1>3, <1>5, OneLevel

\* A stream begins and ends, for one session at a time, without moving the session.
LEMMA HTTPLevel ==
    ASSUME TypeOK, SessionsOK, AllLevel, NEW h \in Streams,
           (\E c \in Clients : OnHTTPData(c, h)) \/ OnHTTPClose(h)
    PROVE  AllLevel'
<1> USE DEF Feeding, Started, Preparing, Buffering, Playing, Draining, Stopped
<1>1. /\ UNCHANGED <<state, samplingRate, streamedChunks>>
      /\ http'[h].last = 0
      /\ \A g \in Streams \ {h} : http'[g] = http[g]
  <2>1. ASSUME NEW c \in Clients, OnHTTPData(c, h)
        PROVE  /\ UNCHANGED <<state, samplingRate, streamedChunks>>
               /\ http'[h].last = 0
               /\ \A g \in Streams \ {h} : http'[g] = http[g]
    <3> DEFINE x == [phase |-> "running", client |-> c, rate |-> samplingRate, last |-> 0]
    <3>1. x.last = 0 /\ http' = [http EXCEPT ![h] = x]
      BY <2>1 DEF OnHTTPData
    <3> HIDE DEF x
    <3>2. http'[h] = x /\ \A g \in Streams \ {h} : http'[g] = http[g]
      BY <3>1 DEF TypeOK
    <3>3. UNCHANGED <<state, samplingRate, streamedChunks>>
      BY <2>1 DEF OnHTTPData, SessionStep
    <3> QED BY <3>1, <3>2, <3>3
  <2>2. CASE OnHTTPClose(h)
    BY <2>2 DEF OnHTTPClose, TypeOK, Free
  <2> QED BY <2>1, <2>2
<1>2. ASSUME NEW d \in Clients, Live(sess'[d])
      PROVE  /\ Live(sess[d]) /\ sess[d] \in Sessions
             /\ sess'[d].seq = sess[d].seq /\ sess'[d].state = sess[d].state
             /\ \/ sess'[d].http = sess[d].http
                \/ sess'[d].http = None
                \/ sess'[d].http = h /\ sess[d].state \in {Preparing, Stopped}
  <2> DEFINE s == sess[d]
  <2>0. s \in Sessions /\ Lawful(s)
    BY DEF TypeOK, SessionsOK
  <2>1. ASSUME NEW c \in Clients, OnHTTPData(c, h)
        PROVE  /\ Live(s) /\ sess'[d].seq = s.seq /\ sess'[d].state = s.state
               /\ \/ sess'[d].http = s.http
                  \/ sess'[d].http = h /\ s.state \in {Preparing, Stopped}
    <3> DEFINE t == [sess[c] EXCEPT !.http = h, !.dialing = FALSE]
    <3>1. /\ sess[c] \in Sessions /\ Live(sess[c]) /\ Lawful(sess[c]) /\ sess[c].dialing
      BY <2>1 DEF OnHTTPData, TypeOK, SessionsOK
    <3>2. t \in Sessions /\ t.seq = sess[c].seq /\ t.http = h /\ t.state = sess[c].state
      BY <3>1 DEF Sessions
    <3>3. SessionStep(c, t)
      BY <2>1 DEF OnHTTPData
    <3> HIDE DEF t
    <3>4. sess'[c] = t /\ \A e \in Clients \ {c} : sess'[e] = sess[e]
      BY <3>2, <3>3, SessionStepType
    <3>5. CASE d = c
      BY <3>1, <3>2, <3>4, <3>5 DEF Lawful
    <3>6. CASE d # c
      BY <1>2, <3>4, <3>6
    <3> QED BY <3>5, <3>6
  <2>2. CASE OnHTTPClose(h)
    <3>1. sess'[d] = s \/ (sess'[d] = [s EXCEPT !.http = None] /\ Live(s))
      BY <2>2 DEF OnHTTPClose
    <3>2. /\ [s EXCEPT !.http = None].seq = s.seq
          /\ [s EXCEPT !.http = None].state = s.state
          /\ [s EXCEPT !.http = None].http = None
      BY <2>0 DEF Sessions
    <3> QED BY <1>2, <2>0, <3>1, <3>2
  <2> QED BY <2>0, <2>1, <2>2
<1>3. ASSUME NEW d \in Clients, Live(sess'[d])
      PROVE  Level(sess'[d], state', samplingRate', streamedChunks', http')
  <2>1. Level(sess[d], state, samplingRate, streamedChunks, http)
    BY <1>2, <1>3 DEF AllLevel
  <2>2. sess'[d].http # None /\ http'[sess'[d].http].last # 0 =>
          sess'[d].http = sess[d].http /\ http'[sess'[d].http] = http[sess[d].http]
    BY <1>1, <1>2, <1>3 DEF Sessions
  <2> QED BY <1>1, <1>2, <1>3, <2>1, <2>2 DEF Level
<1> QED BY <1>3 DEF AllLevel

\* Every handler keeps the sessions level, as long as no stream is short of buffers.
LEMMA LevelStep ==
    Slow = {} /\ TypeInv /\ HeadInStep /\ SessionsOK /\ AllLevel /\ [Next]_vars => AllLevel'
<1> SUFFICES ASSUME Slow = {}, TypeInv, HeadInStep, SessionsOK, AllLevel, [Next]_vars
             PROVE  AllLevel'
  OBVIOUS
<1> USE DEF Feeding, Started, Preparing, Buffering, Playing, Draining, Stopped
<1>0. TypeOK
  BY DEF TypeInv
<1>1. CASE ConsumeChunk
  BY <1>0, <1>1, ConsumeChunkLevel
<1>2. CASE DeferTimeout
  BY <1>2 DEF DeferTimeout, AllLevel
<1>3. CASE StreamerStop
  <2> SUFFICES ASSUME NEW c \in Clients, Live(sess'[c])
               PROVE  Level(sess'[c], state', samplingRate', streamedChunks', http')
    BY DEF AllLevel
  <2> DEFINE s == sess[c]
             t == [s EXCEPT !.state = Stopped, !.rate = 0,
                            !.owesFlush = @ \/ s.state \notin {Started, Stopped}]
  <2>1. s \in Sessions
    BY <1>0 DEF TypeOK
  <2>2. Live(s) /\ sess'[c] = t
    BY <1>3 DEF StreamerStop
  <2>3. t.seq = s.seq /\ t.state = Stopped
    BY <2>1 DEF Sessions
  <2>4. s.seq = streamedChunks
    BY <2>2 DEF AllLevel, Level
  <2> HIDE DEF t
  <2>5. state' = Stopped /\ streamedChunks' = streamedChunks
    BY <1>3 DEF StreamerStop
  <2> QED BY <2>2, <2>3, <2>4, <2>5 DEF Level
<1>4. ASSUME NEW c \in Clients, ClientStep(c)
      PROVE  AllLevel'
  <2>1. CASE OnSlimProtoOpen(c)
    <3> DEFINE t == [Absent("open") EXCEPT !.state = Started, !.seq = streamedChunks]
    <3>1. t \in Sessions /\ t.http = None /\ t.seq = streamedChunks
      BY <1>0, OpenedType DEF TypeOK
    <3>2. t.state = Started
      BY DEF Absent
    <3>3. SessionStep(c, t) /\ http' = http
      BY <2>1 DEF OnSlimProtoOpen
    <3> HIDE DEF t
    <3>4. Level(t, state, samplingRate, streamedChunks, http)
      BY <3>1, <3>2 DEF Level
    <3> QED BY <1>0, <3>1, <3>3, <3>4, OneLevel
  <2>2. CASE OnSlimProtoClose(c)
    BY <1>0, <2>2, GoneType, OneLevel DEF OnSlimProtoClose
  <2>3. CASE OnHELO(c) \/ OnSTMf(c) \/ OnSTMl(c) \/ OnSTMt(c) \/ OnSTMu(c)
    BY <1>0, <2>3, MessageLevel
  <2>4. ASSUME NEW h \in Streams, OnHTTPData(c, h)
        PROVE  AllLevel'
    BY <1>0, <2>4, HTTPLevel
  <2> QED BY <1>4, <2>1, <2>2, <2>3, <2>4 DEF ClientStep
<1>5. ASSUME NEW h \in Streams, HttpStep(h)
      PROVE  AllLevel'
  <2>1. CASE Flushed(h)
    <3>1. \A g \in Streams : /\ http'[g].last = http[g].last /\ http'[g].rate = http[g].rate
                             /\ IsRunning(http'[g]) => IsRunning(http[g])
      BY <1>0, <2>1 DEF Flushed, TypeOK, HttpSessions, IsRunning
    <3>2. \A c \in Clients : sess[c].http \in Streams \cup {None}
      BY <1>0 DEF TypeOK, Sessions
    <3>3. UNCHANGED <<state, samplingRate, streamedChunks, sess>>
      BY <2>1 DEF Flushed
    <3> QED BY <3>1, <3>2, <3>3 DEF AllLevel, Level
  <2>2. CASE OnHTTPClose(h)
    BY <1>0, <2>2, HTTPLevel
  <2> QED BY <1>5, <2>1, <2>2 DEF HttpStep, LocalClose, PeerClose
<1>6. CASE UNCHANGED vars
  BY <1>6 DEF vars, AllLevel
<1> QED BY <1>1, <1>2, <1>3, <1>4, <1>5, <1>6 DEF Next

\* The sessions are level from the start on.
LEMMA LevelInit == Init => AllLevel
BY DEF Init, AllLevel, Absent, Live

\* No stream ends with a session that still streams, as long as none is short of buffers
\* when its last chunk is sent.
THEOREM NoneLeftStreamingCorrect == Slow = {} => (Spec => []NoneLeftStreaming)
<1> SUFFICES ASSUME Slow = {} PROVE Spec => []NoneLeftStreaming
  OBVIOUS
<1>1. AllLevel => NoneLeftStreaming
  BY DEF AllLevel, Level, NoneLeftStreaming, Feeding, Started, Buffering, Playing
<1>2. TypeInv /\ HeadInStep /\ SessionsOK /\ AllLevel /\ [Next]_vars => AllLevel'
  BY LevelStep
<1>3. Init => HeadInStep
  BY HeadInit
<1> QED BY <1>1, <1>2, <1>3, TypeInit, TypeStep, HeadStep, SessionsInit, SessionsStep,
        LevelInit, PTL DEF Spec

\* What one call sends over a connection follows what it sent before.
LEMMA ConsumeChunkContiguous ==
    ASSUME TypeOK, HeadInStep, SessionsOK, AllLevel, Slow = {}, ConsumeChunk,
           NEW h \in Streams, http[h].last # 0
    PROVE  http'[h].last \in {http[h].last, http[h].last + 1}
<1> USE DEF Feeding, Started, Preparing, Buffering, Playing, Draining, Stopped
<1>0. state # Stopped
  BY DEF ConsumeChunk
<1>1. http' = Outcome({}).http
  <2>1. PICK full \in SUBSET Slow : http' = Outcome(full).http
    BY ConsumeChunkIsOutcome
  <2>2. full = {}
    BY <2>1
  <2> QED BY <2>1, <2>2
<1> DEFINE b == Begin(Call)
           p == Play(Buffer(b))
           m == StreamChunk(p, {})
<1>2. chunk \in Chunks /\ Call \in Calls /\ SessionsOf(Call) /\ LevelOf(Call)
  BY CallType DEF TypeOK, SessionsOf, SessionsOK, LevelOf, AllLevel, Call
<1>3. b \in Calls /\ SessionsOf(b) /\ LevelOf(b) /\ b.http = http
  <2>1. b \in Calls /\ SessionsOf(b) /\ LevelOf(b)
    BY <1>2, BeginStage, BeginSessions, BeginLevel
  <2>2. b.http = Call.http /\ Call.http = http
    BY <1>2, BeginProgress DEF Call
  <2> QED BY <2>1, <2>2
<1>4. p \in Calls /\ SessionsOf(p) /\ LevelOf(p) /\ p.http = http
  <2> HIDE DEF b
  <2>1. p \in Calls /\ p.sess = b.sess /\ p.http = b.http
    BY <1>3, ReadyProgress
  <2>2. LevelOf(p)
    BY <1>3, ReadyLevel
  <2> HIDE DEF p
  <2> QED BY <1>3, <2>1, <2>2 DEF SessionsOf
<1>5. HeadOf(p)
  BY <1>0, ReadyHead DEF p, b
<1>6. Outcome({}) = Flush(Drain(Count(m)))
  BY DEF Outcome, Streamed, m, p, b
<1> HIDE DEF p
<1>7. m \in Calls
  BY <1>2, <1>4, StreamChunkStage
<1>8. /\ \/ m.http[h] = http[h]
         \/ /\ p.state \in Feeding /\ p.rate = chunk.rate /\ IsFed(h, p, {})
            /\ m.http[h] = Encoded(http[h], chunk)
  BY <1>2, <1>4, StreamedHttp
<1>9. http' = m.http
  <2> HIDE DEF m
  <2> QED BY <1>1, <1>6, <1>7, LastStages
<1> HIDE DEF m
<1>10. CASE /\ p.state \in Feeding /\ p.rate = chunk.rate /\ IsFed(h, p, {})
            /\ m.http[h] = Encoded(http[h], chunk)
  <2> DEFINE x == http[h]
  <2>1. x \in HttpSessions
    BY DEF TypeOK
  <2>2. CASE IsRunning(x) /\ x.rate = chunk.rate
    <3>1. PICK c \in Clients :
             /\ Live(p.sess[c])
             /\ LET a == Advanced(p.sess[c], p.rate, p.state = Playing)
                IN  a.state \in Feeding /\ a.http = h
      BY <1>10 DEF IsFed
    <3> DEFINE s == p.sess[c]
               a == Advanced(s, p.rate, p.state = Playing)
    <3>2. Lawful(s) /\ Bound(s, c, p.http) /\ Level(s, p.state, p.rate, p.n, p.http)
      BY <1>4, <3>1 DEF SessionsOf, LevelOf
    <3>3. s.state \in {Preparing} \cup Feeding /\ s.http = h
      BY <1>2, <1>4, <1>10, <3>1, <3>2, TakesChunk
    <3>4. h # None
      BY NoneAssumption
    <3>5. x.last = p.n
      BY <1>4, <1>10, <2>2, <3>2, <3>3, <3>4 DEF Level
    <3>6. chunk.pos = p.n + 1
      BY <1>5, <1>10 DEF HeadOf
    <3>7. http'[h].last = chunk.pos
      BY <1>2, <1>9, <1>10, <2>1, <2>2, EncodedLast
    <3> QED BY <3>5, <3>6, <3>7
  <2>3. CASE ~(IsRunning(x) /\ x.rate = chunk.rate)
    BY <1>2, <1>9, <1>10, <2>1, <2>3, EncodedLast
  <2> QED BY <2>2, <2>3
<1>11. CASE m.http[h] = http[h]
  BY <1>9, <1>11
<1> QED BY <1>8, <1>10, <1>11

\* No handler sends anything but the next chunk.
LEMMA ContiguousStep ==
    ASSUME Slow = {}, TypeInv, HeadInStep, SessionsOK, AllLevel, [Next]_vars,
           NEW h \in Streams, http[h].last # 0, http'[h].phase # "free"
    PROVE  http'[h].last \in {http[h].last, http[h].last + 1}
<1>0. TypeOK
  BY DEF TypeInv
<1>1. CASE ConsumeChunk
  BY <1>0, <1>1, ConsumeChunkContiguous
<1>2. CASE DeferTimeout
  BY <1>2 DEF DeferTimeout
<1>3. CASE StreamerStop
  BY <1>0, <1>3 DEF StreamerStop, TypeOK, Stopping, HttpSessions
<1>4. ASSUME NEW c \in Clients, ClientStep(c)
      PROVE  http'[h] = http[h]
  <2>1. ASSUME NEW g \in Streams, OnHTTPData(c, g)
        PROVE  http'[h] = http[h]
    <3>1. g # h
      BY <2>1 DEF OnHTTPData, Free
    <3> QED BY <1>0, <2>1, <3>1 DEF OnHTTPData, TypeOK
  <2> QED BY <1>4, <2>1 DEF ClientStep, OnSlimProtoOpen, OnSlimProtoClose, OnHELO, OnSTMf,
                           OnSTMl, OnSTMt, OnSTMu
<1>5. ASSUME NEW g \in Streams, HttpStep(g)
      PROVE  http'[h].last = http[h].last
  <2>1. CASE Flushed(g)
    BY <1>0, <2>1 DEF Flushed, TypeOK, HttpSessions
  <2>2. CASE OnHTTPClose(g)
    BY <1>0, <2>2 DEF OnHTTPClose, TypeOK, Free
  <2> QED BY <1>5, <2>1, <2>2 DEF HttpStep, LocalClose, PeerClose
<1>6. CASE UNCHANGED vars
  BY <1>6 DEF vars
<1> QED BY <1>1, <1>2, <1>3, <1>4, <1>5, <1>6 DEF Next

\* What a client receives over one connection has no gap, repeats nothing and does not run
\* into the next stream, as long as no stream is short of buffers.
THEOREM ContiguousCorrect == Slow = {} => (Spec => Contiguous)
<1> SUFFICES ASSUME Slow = {} PROVE Spec => Contiguous
  OBVIOUS
<1> DEFINE Inv == TypeInv /\ HeadInStep /\ SessionsOK /\ AllLevel
           A == \A h \in Streams : http[h].last # 0 /\ http'[h].phase # "free" =>
                    http'[h].last \in {http[h].last, http[h].last + 1}
<1>1. Inv /\ [Next]_vars => A
  BY ContiguousStep
<1>2. Inv /\ [Next]_vars => Inv'
  BY TypeStep, HeadStep, SessionsStep, LevelStep
<1>3. Init => Inv
  BY TypeInit, HeadInit, SessionsInit, LevelInit
<1>4. Contiguous <=> [][A]_vars
  BY DEF Contiguous
<1> HIDE DEF Inv, A
<1> QED BY <1>1, <1>2, <1>3, <1>4, PTL DEF Spec

\* The call in which the Streamer begins to play hands every session its chunk, and every
\* session was ready.
LEMMA ConsumeChunkTogether ==
    ASSUME TypeOK, HeadInStep, SessionsOK, AllLevel, Slow = {}, ConsumeChunk,
           state = Buffering, state' = Playing, NEW c \in Clients, Live(sess'[c])
    PROVE  sess'[c].state = Playing
<1> USE DEF Feeding, Started, Preparing, Buffering, Playing, Draining, Stopped
<1>1. sess' = Outcome({}).sess /\ state' = Outcome({}).state
  <2>1. PICK full \in SUBSET Slow : sess' = Outcome(full).sess /\ state' = Outcome(full).state
    BY ConsumeChunkIsOutcome
  <2>2. full = {}
    BY <2>1
  <2> QED BY <2>1, <2>2
<1> DEFINE p == Play(Buffer(Call))
           m == StreamChunk(p, {})
           s == sess[c]
           a == Advanced(s, p.rate, p.state = Playing)
<1>2. /\ chunk \in Chunks /\ Call \in Calls /\ Call.state = Buffering /\ Call.sess = sess
      /\ Call.http = http
  BY CallType DEF TypeOK, Call
<1>3. /\ p \in Calls /\ p.sess = sess /\ p.http = http
      /\ p.state \in Feeding
      /\ p.state = Playing => AllReadyToPlay(sess)
      /\ LevelOf(p)
  <2>1. LevelOf(Call)
    BY DEF LevelOf, AllLevel, Call
  <2> QED BY <1>2, <2>1, ReadyProgress, ReadyLevel
<1>4. Begin(Call) = Call
  BY <1>2 DEF Begin
<1>5. HeadOf(p)
  BY <1>4, ReadyHead
<1>6. Outcome({}) = Flush(Drain(Count(m)))
  BY <1>4 DEF Outcome, Streamed
<1> HIDE DEF p
<1>7. m \in Calls /\ Keeps(p, m) /\ m.state = p.state /\ m.rate = p.rate
  BY <1>2, <1>3, StreamChunkStage, StreamChunkProgress
<1>8. m.state = Playing /\ ~chunk.eos /\ sess' = m.sess
  <2> DEFINE q == Flush(Drain(Count(m)))
             drains == m.state \in Feeding /\ (m.rate # chunk.rate \/ chunk.eos)
             flushed == (drains \/ m.state = Draining) /\ ~IsDraining(m.sess)
  <2>1. /\ q.state = IF flushed THEN Started ELSE IF drains THEN Draining ELSE m.state
        /\ q.sess = m.sess
    <3> HIDE DEF m
    <3> QED BY <1>7, LastStages
  <2>2. q.state = Playing /\ sess' = q.sess
    BY <1>1, <1>6
  <2> HIDE DEF m, q
  <2> QED BY <2>1, <2>2
<1> HIDE DEF m
<1>9. /\ s \in Sessions /\ Live(s) /\ Lawful(s) /\ Bound(s, c, http)
      /\ Level(s, p.state, p.rate, p.n, p.http) /\ IsReadyToPlay(s)
  <2>1. s \in Sessions /\ Lawful(s) /\ Bound(s, c, http)
    BY DEF TypeOK, SessionsOK
  <2>2. Live(s)
    BY <1>3, <1>7, <1>8 DEF Keeps, Live
  <2> QED BY <1>3, <1>7, <1>8, <2>1, <2>2 DEF AllReadyToPlay, LevelOf
<1>10. s.state \in {Preparing} \cup Feeding
  <2>1. s.http # None
    BY <1>9 DEF IsReadyToPlay, IsReadyToBuffer
  <2>2. s.state # Started
    BY <1>9, <2>1, QuietFree DEF Quiet
  <2>3. s.state \notin {Draining, Stopped}
    BY <1>3, <1>9, <2>1 DEF Level
  <2> QED BY <1>9, <2>2, <2>3 DEF Sessions, States
<1>11. p.rate \in Rates /\ p.rate = chunk.rate
  BY <1>2, <1>3, <1>5 DEF HeadOf, Chunks
<1>12. a.state = Playing
  <2>1. s \in Sessions /\ IsReadyToPlay(s) /\ p.state = Playing
    BY <1>7, <1>8, <1>9
  <2> HIDE DEF s
  <2>2. Advanced(s, p.rate, TRUE).state = Playing
    BY <1>10, <2>1, AdvancedPlays, Zenon DEF s
  <2>3. (p.state = Playing) = TRUE
    BY <2>1
  <2> QED BY <2>2, <2>3
<1>13. m.sess[c].state = a.state
  BY <1>2, <1>3, <1>8, <1>9, <1>11, TakesChunk DEF m
<1> QED BY <1>8, <1>12, <1>13

\* When playback starts, it starts in the same call for every connected client, as long as
\* no stream is short of buffers.
THEOREM StartTogetherCorrect == Slow = {} => (Spec => StartTogether)
<1> SUFFICES ASSUME Slow = {} PROVE Spec => StartTogether
  OBVIOUS
<1> DEFINE Inv == TypeInv /\ HeadInStep /\ SessionsOK /\ AllLevel
           A == state = Buffering /\ state' = Playing =>
                    \A c \in Clients : Live(sess'[c]) => sess'[c].state = Playing
<1>1. Inv /\ [Next]_vars => A
  <2> SUFFICES ASSUME Inv, [Next]_vars, state = Buffering, state' = Playing,
                      NEW c \in Clients, Live(sess'[c])
               PROVE  sess'[c].state = Playing
    OBVIOUS
  <2>1. ConsumeChunk
    BY OthersKeep DEF Buffering, Playing, Stopped
  <2> QED BY <2>1, ConsumeChunkTogether DEF TypeInv
<1>2. Inv /\ [Next]_vars => Inv'
  BY TypeStep, HeadStep, SessionsStep, LevelStep
<1>3. Init => Inv
  BY TypeInit, HeadInit, SessionsInit, LevelInit
<1>4. StartTogether <=> [][A]_vars
  BY DEF StartTogether
<1> HIDE DEF Inv, A
<1> QED BY <1>1, <1>2, <1>3, <1>4, PTL DEF Spec
=============================================================================
