------------------------ MODULE StreamingSessionProofs ------------------------
(***************************************************************************)
(* Proofs about StreamingSession: its types, and that a buffer is never    *)
(* given back while the socket writes from it, because there is at most    *)
(* one write, in progress or due to be handled, and transferring tells     *)
(* when there is; that buffers which wait are transferred in the end; and  *)
(* that the session is an AudioStream, if what is encoded fits its pool.   *)
(***************************************************************************)
EXTENDS StreamingSession, TLAPS

\* A handler of kind h is among s.
Has(s, h) == \E i \in 1..Len(s) : s[i].handler = h

\* A submitted callback among s will delete the session.
Erases(s) == \E i \in 1..Len(s) : s[i].handler = "callback" /\ s[i].callback = "erase"

\* At most one callback of a write is among s.
Once(s) == \A i, j \in 1..Len(s) :
               s[i].handler = "written" /\ s[j].handler = "written" => i = j

\* transferring is set exactly during a write and until its callback has run.
Transfer ==
    /\ transferring <=> (writing # 0 \/ Has(ready, "written"))
    /\ writing # 0 => ~Has(ready, "written")
    /\ Once(ready)

\* A session that does not run has nothing to transfer, and will not have.
Idle == ~running => queue = <<>> /\ ~transferring /\ ~encoding

\* Only a session that has been flushed is deleted by a callback.
Life ==
    /\ running => session = "alive"
    /\ Erases(ready) => ~running /\ session # "none"

\* Nothing flushes a session that was not stopped.
Unflushed ==
    encoding \/ session = "none" => timers = <<>> /\ ~Has(ready, "flush")

IInv == TypeOK /\ WritesFromQueue /\ Transfer /\ Idle /\ Life /\ Unflushed

-----------------------------------------------------------------------------
(* Sequences of handlers *)

\* What two sequences of handlers have together.
LEMMA Concat ==
    ASSUME NEW s \in Seq(Handlers), NEW t \in Seq(Handlers)
    PROVE  /\ s \o t \in Seq(Handlers)
           /\ \A h : Has(s \o t, h) <=> Has(s, h) \/ Has(t, h)
           /\ Erases(s \o t) <=> Erases(s) \/ Erases(t)
           /\ Once(s) /\ Once(t) /\ ~(Has(s, "written") /\ Has(t, "written"))
                => Once(s \o t)
<1>1. s \o t \in Seq(Handlers)
  OBVIOUS
<1>2. /\ Len(s) \in Nat /\ Len(t) \in Nat /\ Len(s \o t) = Len(s) + Len(t)
      /\ \A i \in 1..Len(s) : i \in 1..Len(s \o t) /\ (s \o t)[i] = s[i]
      /\ \A i \in 1..Len(t) : Len(s) + i \in 1..Len(s \o t) /\ (s \o t)[Len(s) + i] = t[i]
      /\ \A i \in 1..Len(s \o t) :
           i \in 1..Len(s) \/ (i - Len(s) \in 1..Len(t) /\ (s \o t)[i] = t[i - Len(s)])
  OBVIOUS
<1> DEFINE u == s \o t
<1> HIDE DEF u
<1>3. \A h : Has(u, h) <=> Has(s, h) \/ Has(t, h)
  BY <1>2, SMTT(30) DEF Has, u
<1>4. Erases(u) <=> Erases(s) \/ Erases(t)
  BY <1>2 DEF Erases, u
<1>5. ASSUME Once(s), Once(t), ~(Has(s, "written") /\ Has(t, "written"))
      PROVE  Once(u)
  <2> SUFFICES ASSUME NEW i \in 1..Len(u), NEW j \in 1..Len(u),
                      u[i].handler = "written", u[j].handler = "written"
               PROVE  i = j
    BY DEF Once
  <2>1. CASE i \in 1..Len(s) /\ j \in 1..Len(s)
    BY <2>1, <1>2, <1>5 DEF Once, u
  <2>2. CASE i \notin 1..Len(s) /\ j \notin 1..Len(s)
    <3>1. i - Len(s) \in 1..Len(t) /\ u[i] = t[i - Len(s)]
      BY <2>2, <1>2 DEF u
    <3>2. j - Len(s) \in 1..Len(t) /\ u[j] = t[j - Len(s)]
      BY <2>2, <1>2 DEF u
    <3>3. i - Len(s) = j - Len(s)
      BY <3>1, <3>2, <1>5 DEF Once
    <3> QED BY <3>3, <1>2
  <2>3. CASE i \in 1..Len(s) /\ j \notin 1..Len(s)
    BY <2>3, <1>2, <1>5 DEF Has, u
  <2>4. CASE i \notin 1..Len(s) /\ j \in 1..Len(s)
    BY <2>4, <1>2, <1>5 DEF Has, u
  <2> QED BY <2>1, <2>2, <2>3, <2>4
<1> QED BY <1>1, <1>3, <1>4, <1>5 DEF u

\* What a sequence of one handler has.
LEMMA Single ==
    ASSUME NEW x \in Handlers
    PROVE  /\ <<x>> \in Seq(Handlers)
           /\ \A h : Has(<<x>>, h) <=> x.handler = h
           /\ Erases(<<x>>) <=> x.handler = "callback" /\ x.callback = "erase"
           /\ Once(<<x>>)
<1>1. <<x>> \in Seq(Handlers) /\ Len(<<x>>) = 1 /\ <<x>>[1] = x
  OBVIOUS
<1>2. 1..1 = {1}
  OBVIOUS
<1> QED BY <1>1, <1>2 DEF Has, Erases, Once

\* The empty sequence has nothing.
LEMMA Empty ==
    /\ <<>> \in Seq(Handlers)
    /\ \A h : ~Has(<<>>, h)
    /\ ~Erases(<<>>)
    /\ Once(<<>>)
BY DEF Has, Erases, Once

\* Appending a handler.
LEMMA AppendOne ==
    ASSUME NEW s \in Seq(Handlers), NEW x \in Handlers
    PROVE  /\ Append(s, x) \in Seq(Handlers)
           /\ \A h : Has(Append(s, x), h) <=> Has(s, h) \/ x.handler = h
           /\ Erases(Append(s, x))
                <=> Erases(s) \/ (x.handler = "callback" /\ x.callback = "erase")
           /\ Once(s) /\ ~(Has(s, "written") /\ x.handler = "written")
                => Once(Append(s, x))
<1>1. Append(s, x) = s \o <<x>>
  OBVIOUS
<1> QED BY <1>1, Single, Concat, Zenon

\* Taking the first handler off.
LEMMA TakeOff ==
    ASSUME NEW s \in Seq(Handlers), s # <<>>
    PROVE  /\ Head(s) \in Handlers /\ Tail(s) \in Seq(Handlers)
           /\ \A h : Head(s).handler # h => (Has(Tail(s), h) <=> Has(s, h))
           /\ Has(s, Head(s).handler)
           /\ Erases(Tail(s)) => Erases(s)
           /\ Head(s).handler = "callback" /\ Head(s).callback = "erase" => Erases(s)
           /\ Once(s) => Once(Tail(s))
           /\ Once(s) /\ Head(s).handler = "written" => ~Has(Tail(s), "written")
<1>1. /\ Head(s) \in Handlers /\ Tail(s) \in Seq(Handlers)
      /\ Len(s) \in Nat \ {0} /\ Len(Tail(s)) = Len(s) - 1 /\ Head(s) = s[1]
      /\ \A i \in 1..Len(Tail(s)) : i + 1 \in 1..Len(s) /\ Tail(s)[i] = s[i + 1]
      /\ \A i \in 1..Len(s) : i = 1 \/ (i - 1 \in 1..Len(Tail(s)) /\ s[i] = Tail(s)[i - 1])
  OBVIOUS
<1> DEFINE t == Tail(s)
<1> HIDE DEF t
<1>2. \A h : Head(s).handler # h => (Has(t, h) <=> Has(s, h))
  BY <1>1 DEF Has, t
<1>3. /\ Has(s, Head(s).handler)
      /\ Head(s).handler = "callback" /\ Head(s).callback = "erase" => Erases(s)
  <2>1. 1 \in 1..Len(s)
    BY <1>1
  <2> QED BY <2>1, <1>1 DEF Has, Erases
<1>4. Erases(t) => Erases(s)
  BY <1>1 DEF Erases, t
<1>5. ASSUME Once(s) PROVE Once(t)
  <2> SUFFICES ASSUME NEW i \in 1..Len(t), NEW j \in 1..Len(t),
                      t[i].handler = "written", t[j].handler = "written"
               PROVE  i = j
    BY DEF Once
  <2>1. i + 1 = j + 1
    BY <1>1, <1>5 DEF Once, t
  <2> QED BY <2>1
<1>6. ASSUME Once(s), Head(s).handler = "written"
      PROVE  ~Has(t, "written")
  <2> SUFFICES ASSUME NEW i \in 1..Len(t), t[i].handler = "written"
               PROVE  FALSE
    BY DEF Has
  <2>1. i + 1 = 1
    BY <1>1, <1>6 DEF Once, t
  <2> QED BY <2>1
<1> QED BY <1>1, <1>2, <1>3, <1>4, <1>5, <1>6 DEF t

\* The tasks submitted for new buffers.
LEMMA TasksHave ==
    ASSUME NEW n \in Nat
    PROVE  /\ Tasks(n) \in Seq(Handlers)
           /\ ~Has(Tasks(n), "written") /\ ~Has(Tasks(n), "flush")
           /\ ~Erases(Tasks(n)) /\ Once(Tasks(n))
<1>1. Handler("transferTask") \in Handlers /\ Handler("transferTask").handler = "transferTask"
  BY DEF Handler, Handlers
<1>2. Tasks(n) \in Seq(Handlers) /\ Len(Tasks(n)) = n
      /\ \A i \in 1..n : Tasks(n)[i] = Handler("transferTask")
  BY <1>1 DEF Tasks
<1> QED BY <1>1, <1>2 DEF Has, Erases, Once

-----------------------------------------------------------------------------
(* Flushing *)

\* The handlers that are submitted are handlers, and which of them matter here.
LEMMA HandlerKinds ==
    /\ \A h \in {"transferTask", "written", "onData", "onStop", "remove"} :
         Handler(h) \in Handlers /\ Handler(h).handler = h
    /\ \A h \in {"flush", "callback"}, cb \in Callbacks :
         [handler |-> h, callback |-> cb] \in Handlers
BY DEF Handler, Handlers, Callbacks

\* What flush submits besides its callback: at most the handler of the aborted read.
LEMMA AbortedReadHas ==
    /\ AbortedRead \in Seq(Handlers)
    /\ ~Has(AbortedRead, "written") /\ ~Has(AbortedRead, "flush")
    /\ ~Erases(AbortedRead) /\ Once(AbortedRead)
<1>1. CASE connection = "open"
  BY <1>1, HandlerKinds, Single DEF AbortedRead
<1>2. CASE connection # "open"
  BY <1>2, Empty DEF AbortedRead
<1> QED BY <1>1, <1>2

\* What is left of the invariant when only the tail end of the queue, and handlers
\* that are no callbacks of writes, change.
LEMMA TransferKept ==
    ASSUME WritesFromQueue, Transfer,
           transferring' = transferring, writing' = writing,
           Has(ready', "written") <=> Has(ready, "written"), Once(ready'),
           writing # 0 => queue' # <<>> /\ Head(queue') = Head(queue)
    PROVE  WritesFromQueue' /\ Transfer'
BY DEF WritesFromQueue, Transfer

\* What flush leaves: the invariant, for the variables that it may change.
LeftByFlush ==
    /\ running' \in BOOLEAN /\ transferring' \in BOOLEAN
    /\ queue' \in Seq(Nat \ {0}) /\ Len(queue') <= PoolSize
    /\ timers' \in Seq(Callbacks) /\ writing' \in Nat
    /\ socket' \in {"open", "broken", "closed"}
    /\ ready' \in Seq(Handlers)
    /\ undefined' \in {"none", "session", "connection"}
    /\ WritesFromQueue' /\ Transfer'
    /\ ~running' => queue' = <<>> /\ ~transferring'
    /\ running' => running
    /\ Erases(ready') => ~running'

\* flush keeps the buffer that is being written, and makes the session idle when it
\* finishes; q is the queue and rest are the handlers before it.
LEMMA FlushStep ==
    ASSUME IInv, NEW callback \in Callbacks,
           NEW q \in Seq(Nat \ {0}), Len(q) <= PoolSize,
           queue # <<>> => q # <<>> /\ Head(q) = Head(queue),
           ~running => q = <<>>,
           NEW rest \in Seq(Handlers), NEW after \in Seq(Handlers),
           Has(rest, "written") <=> Has(ready, "written"), Once(rest),
           Erases(rest) => Erases(ready),
           ~Has(after, "written"), ~Erases(after), Once(after),
           session # "none",
           Flush(callback, q, rest, after)
    PROVE  LeftByFlush
<1> USE DEF IInv
<1>0. /\ running \in BOOLEAN /\ transferring \in BOOLEAN /\ timers \in Seq(Callbacks)
      /\ writing \in Nat /\ socket \in {"open", "broken", "closed"}
      /\ undefined \in {"none", "session", "connection"}
      /\ PoolSize \in Nat
  BY PoolAssumption DEF TypeOK
<1>1. transferring' = transferring /\ writing' = writing
  BY DEF Flush
<1>2. ~transferring => writing = 0
  BY DEF Transfer
<1>3. CASE /\ queue' = q /\ ready' = rest \o after
           /\ timers' \in {timers, Append(timers, callback)}
           /\ UNCHANGED <<running, socket>>
           /\ undefined' \in {undefined, "connection"}
  <2>1. /\ ready' \in Seq(Handlers) /\ Once(ready')
        /\ Has(ready', "written") <=> Has(ready, "written")
        /\ Erases(ready') => Erases(ready)
    <3> DEFINE w == rest \o after
    <3>1. /\ w \in Seq(Handlers) /\ Once(w)
          /\ Has(w, "written") <=> Has(rest, "written") \/ Has(after, "written")
          /\ Erases(w) <=> Erases(rest) \/ Erases(after)
      BY Concat
    <3> HIDE DEF w
    <3>2. ready' = w
      BY <1>3 DEF w
    <3> QED BY <3>1, <3>2
  <2>2. timers' \in Seq(Callbacks)
    <3>1. Append(timers, callback) \in Seq(Callbacks)
      BY <1>0
    <3> QED BY <1>0, <1>3, <3>1
  <2>3. WritesFromQueue' /\ Transfer'
    <3>1. writing # 0 => queue' # <<>> /\ Head(queue') = Head(queue)
      BY <1>3 DEF WritesFromQueue
    <3> QED BY <3>1, <1>1, <2>1, TransferKept
  <2>4. ~running' => queue' = <<>> /\ ~transferring'
    BY <1>1, <1>3 DEF Idle
  <2>5. Erases(ready') => ~running'
    BY <1>3, <2>1 DEF Life
  <2> QED BY <1>0, <1>1, <1>3, <2>1, <2>2, <2>3, <2>4, <2>5 DEF LeftByFlush
<1>4. CASE ~transferring /\ Finish(callback, rest, after)
  <2> DEFINE x == [handler |-> "callback", callback |-> callback]
  <2>1. x \in Handlers /\ x.handler # "written"
    BY HandlerKinds
  <2> HIDE DEF x
  <2>2. ready' = ((rest \o AbortedRead) \o <<x>>) \o after
    BY <1>4 DEF Finish, x
  <2>3. /\ rest \o AbortedRead \in Seq(Handlers) /\ Once(rest \o AbortedRead)
        /\ Has(rest \o AbortedRead, "written") <=> Has(ready, "written")
    BY AbortedReadHas, Concat
  <2>4. <<x>> \in Seq(Handlers) /\ Once(<<x>>) /\ ~Has(<<x>>, "written")
    BY <2>1, Single
  <2> DEFINE s == rest \o AbortedRead
             y == <<x>>
  <2> HIDE DEF s, y
  <2>5. /\ s \o y \in Seq(Handlers) /\ Once(s \o y)
        /\ Has(s \o y, "written") <=> Has(ready, "written")
    BY <2>3, <2>4, Concat DEF s, y
  <2> DEFINE z == s \o y
  <2> HIDE DEF z
  <2>6. /\ z \o after \in Seq(Handlers) /\ Once(z \o after)
        /\ Has(z \o after, "written") <=> Has(ready, "written")
    BY <2>5, Concat DEF z
  <2>7. ready' = z \o after
    BY <2>2 DEF z, s, y
  <2>8. /\ queue' = <<>> /\ running' = FALSE /\ socket' = "closed"
        /\ timers' = timers /\ undefined' = undefined
    BY <1>4 DEF Finish
  <2>9. WritesFromQueue' /\ Transfer'
    <3>1. /\ Has(ready', "written") <=> Has(ready, "written")
          /\ Once(ready')
      BY <2>6, <2>7, Zenon
    <3> QED BY <3>1, <1>1, <1>2, <1>4, TransferKept
  <2>10. ready' \in Seq(Handlers)
    BY <2>6, <2>7
  <2>11. Len(queue') <= PoolSize /\ queue' \in Seq(Nat \ {0})
    BY <1>0, <2>8
  <2> QED BY <1>0, <1>1, <1>4, <2>8, <2>9, <2>10, <2>11 DEF LeftByFlush
<1> QED BY <1>3, <1>4 DEF Flush

-----------------------------------------------------------------------------
(* Stopping *)

\* What is appended to a sequence leaves its head.
LEMMA Joined ==
    ASSUME NEW S, NEW s \in Seq(S), NEW t \in Seq(S)
    PROVE  /\ s \o t \in Seq(S) /\ Len(s \o t) = Len(s) + Len(t)
           /\ s # <<>> => s \o t # <<>> /\ Head(s \o t) = Head(s)
OBVIOUS

\* Buffers are added behind those that wait, as many as the pool has.
LEMMA PushedFacts ==
    ASSUME TypeOK, NEW n \in Nat
    PROVE  /\ Fitting(n) \in Nat
           /\ Pushed(n) \in Seq(Nat \ {0}) /\ Len(Pushed(n)) <= PoolSize
           /\ queue # <<>> => Pushed(n) # <<>> /\ Head(Pushed(n)) = Head(queue)
<1>1. /\ queue \in Seq(Nat \ {0}) /\ Len(queue) \in Nat /\ Len(queue) <= PoolSize
      /\ PoolSize \in Nat /\ produced \in Nat
  BY PoolAssumption DEF TypeOK
<1>2. Fitting(n) \in Nat /\ Len(queue) + Fitting(n) <= PoolSize
  BY <1>1 DEF Fitting, Available
<1> DEFINE k == Fitting(n)
           t == [i \in 1..k |-> produced + i]
<1> HIDE DEF k
<1>3. t \in Seq(Nat \ {0}) /\ Len(t) = k
  <2>1. k \in Nat /\ \A i \in 1..k : produced + i \in Nat \ {0}
    BY <1>1, <1>2 DEF k
  <2>2. t \in [1..k -> Nat \ {0}]
    BY <2>1
  <2> QED BY <2>1, <2>2
<1> HIDE DEF t
<1>4. queue \o t \in Seq(Nat \ {0}) /\ Len(queue \o t) = Len(queue) + k
  BY <1>1, <1>3, Joined
<1>5. queue # <<>> => queue \o t # <<>> /\ Head(queue \o t) = Head(queue)
  BY <1>1, <1>3, Joined
<1>6. Pushed(n) = queue \o t
  BY DEF Pushed, t, k
<1> QED BY <1>1, <1>2, <1>4, <1>5, <1>6 DEF k

\* stop of a running session: what FlushStep says, and the encoder is stopped.
LEMMA StopStep ==
    ASSUME IInv, running, NEW callback \in Callbacks,
           NEW rest \in Seq(Handlers), NEW after \in Seq(Handlers),
           Has(rest, "written") <=> Has(ready, "written"), Once(rest),
           Erases(rest) => Erases(ready),
           ~Has(after, "written"), ~Erases(after), Once(after),
           Stop(callback, rest, after)
    PROVE  LeftByFlush /\ encoding' = FALSE /\ produced' \in Nat
<1>1. PICK n \in Nat : /\ produced' = produced + n
                       /\ Flush(callback, Pushed(n), rest \o Tasks(Fitting(n)), after)
  <2>1. \A n \in 0..MaxTail : n \in Nat
    OBVIOUS
  <2>2. 0 \in Nat
    OBVIOUS
  <2> QED BY <2>1, <2>2 DEF Stop
<1>2. /\ Fitting(n) \in Nat
      /\ Pushed(n) \in Seq(Nat \ {0}) /\ Len(Pushed(n)) <= PoolSize
      /\ queue # <<>> => Pushed(n) # <<>> /\ Head(Pushed(n)) = Head(queue)
  BY PushedFacts DEF IInv
<1> DEFINE t == Tasks(Fitting(n))
           w == rest \o t
<1>3. t \in Seq(Handlers) /\ ~Has(t, "written") /\ ~Erases(t) /\ Once(t)
  BY <1>2, TasksHave
<1> HIDE DEF t
<1>4. /\ w \in Seq(Handlers) /\ Once(w)
      /\ Has(w, "written") <=> Has(ready, "written")
      /\ Erases(w) => Erases(ready)
  BY <1>3, Concat
<1>5. Flush(callback, Pushed(n), w, after)
  BY <1>1 DEF t
<1> HIDE DEF w
<1>6. session # "none"
  BY DEF IInv, Life
<1>7. encoding' = FALSE /\ produced' \in Nat
  BY <1>1 DEF Stop, IInv, TypeOK
<1> QED BY <1>2, <1>4, <1>5, <1>6, <1>7, FlushStep

-----------------------------------------------------------------------------
(* The handlers *)

\* The handler at the head is replaced by one of the connection's, or a task.
LEMMA Replaced ==
    ASSUME IInv, ready # <<>>, NEW h \in {"transferTask", "onData", "onStop", "remove"}
    PROVE  LET r == Append(Tail(ready), Handler(h)) IN
           /\ r \in Seq(Handlers) /\ Once(r)
           /\ Head(ready).handler # "written" => (Has(r, "written") <=> Has(ready, "written"))
           /\ Head(ready).handler = "written" => ~Has(r, "written")
           /\ Has(r, "flush") => Has(ready, "flush")
           /\ Erases(r) => Erases(ready)
<1>1. ready \in Seq(Handlers) /\ Once(ready)
  BY DEF IInv, TypeOK, Transfer
<1> DEFINE t == Tail(ready)
           x == Handler(h)
<1>2. /\ t \in Seq(Handlers) /\ Once(t)
      /\ Head(ready).handler # "written" => (Has(t, "written") <=> Has(ready, "written"))
      /\ Head(ready).handler = "written" => ~Has(t, "written")
      /\ Has(t, "flush") => Has(ready, "flush")
      /\ Erases(t) => Erases(ready)
  BY <1>1, TakeOff
<1>3. x \in Handlers /\ x.handler = h /\ h \notin {"written", "callback", "flush"}
  BY HandlerKinds
<1> HIDE DEF t, x
<1>4. /\ Append(t, x) \in Seq(Handlers) /\ Once(Append(t, x))
      /\ Has(Append(t, x), "written") <=> Has(t, "written")
      /\ Has(Append(t, x), "flush") <=> Has(t, "flush")
      /\ Erases(Append(t, x)) <=> Erases(t)
  BY <1>2, <1>3, AppendOne
<1> QED BY <1>2, <1>4 DEF t, x

\* The handler at the head is taken off.
LEMMA Taken ==
    ASSUME IInv, ready # <<>>
    PROVE  /\ Head(ready) \in Handlers
           /\ Tail(ready) \in Seq(Handlers) /\ Once(Tail(ready))
           /\ Head(ready).handler # "written"
                => (Has(Tail(ready), "written") <=> Has(ready, "written"))
           /\ Has(Tail(ready), "flush") => Has(ready, "flush")
           /\ Erases(Tail(ready)) => Erases(ready)
           /\ Head(ready).handler = "callback" /\ Head(ready).callback = "erase"
                => Erases(ready)
           /\ Has(ready, Head(ready).handler)
<1>1. ready \in Seq(Handlers) /\ Once(ready)
  BY DEF IInv, TypeOK, Transfer
<1> QED BY <1>1, TakeOff

\* The initial state satisfies the invariant.
LEMMA InitIInv == Init => IInv
<1> SUFFICES ASSUME Init PROVE IInv
  OBVIOUS
<1>1. PoolSize \in Nat
  BY PoolAssumption
<1>2. <<>> \in Seq(Nat \ {0}) /\ Len(<<>>) = 0 /\ <<>> \in Seq(Callbacks)
  OBVIOUS
<1>4. TypeOK
  <2>1. queue \in Seq(Nat \ {0}) /\ Len(queue) <= PoolSize
    BY <1>1, <1>2 DEF Init
  <2>2. timers \in Seq(Callbacks) /\ ready \in Seq(Handlers)
    BY <1>2, Empty DEF Init
  <2> QED BY <2>1, <2>2 DEF Init, TypeOK
<1>3. WritesFromQueue /\ Transfer /\ Idle /\ Life /\ Unflushed
  BY Empty DEF Init, WritesFromQueue, Transfer, Idle, Life, Unflushed
<1> QED BY <1>3, <1>4 DEF IInv

\* The first request creates the session, or drops it.
LEMMA RequestStep ==
    ASSUME IInv, NEW known \in BOOLEAN, Request(known)
    PROVE  IInv'
<1>1. PICK n \in 0..MaxTail :
         /\ produced' = n
         /\ IF known
              THEN /\ session' = "alive"
                   /\ encoding' = TRUE /\ running' = TRUE
                   /\ queue' = Pushed(n)
                   /\ ready' = ready \o Tasks(Fitting(n))
                   /\ UNCHANGED networkVars
              ELSE /\ session' = "gone"
                   /\ CloseSocket(ready \o Tasks(Fitting(n)))
                   /\ UNCHANGED <<encoding, running, queue>>
  BY DEF Request
<1>2. n \in Nat
  OBVIOUS
<1>3. /\ Fitting(n) \in Nat
      /\ Pushed(n) \in Seq(Nat \ {0}) /\ Len(Pushed(n)) <= PoolSize
      /\ queue # <<>> => Pushed(n) # <<>> /\ Head(Pushed(n)) = Head(queue)
  BY <1>2, PushedFacts DEF IInv
<1> DEFINE w == ready \o Tasks(Fitting(n))
<1>4. /\ w \in Seq(Handlers) /\ Once(w)
      /\ Has(w, "written") <=> Has(ready, "written")
      /\ Has(w, "flush") <=> Has(ready, "flush")
      /\ Erases(w) <=> Erases(ready)
  <2>1. ready \in Seq(Handlers) /\ Once(ready)
    BY DEF IInv, TypeOK, Transfer
  <2>2. /\ Tasks(Fitting(n)) \in Seq(Handlers) /\ ~Has(Tasks(Fitting(n)), "written")
        /\ ~Has(Tasks(Fitting(n)), "flush")
        /\ ~Erases(Tasks(Fitting(n))) /\ Once(Tasks(Fitting(n)))
    BY <1>3, TasksHave
  <2> QED BY <2>1, <2>2, Concat
<1>5. /\ session = "none" /\ ~running /\ ~Erases(ready) /\ queue = <<>> /\ ~transferring
      /\ writing = 0 /\ ~Has(ready, "written") /\ ~encoding
      /\ timers = <<>> /\ ~Has(ready, "flush")
  BY DEF Request, IInv, Life, Idle, Transfer, TypeOK, Unflushed
<1> HIDE DEF w
<1>6. UNCHANGED <<transferring, timers, received, stops, undefined>>
  BY DEF Request
<1>7. CASE known
  <2>1. /\ session' = "alive" /\ encoding' = TRUE /\ running' = TRUE
        /\ queue' = Pushed(n) /\ ready' = w /\ writing' = writing
        /\ connection' = connection /\ socket' = socket /\ produced' = n
    BY <1>1, <1>7 DEF w, networkVars
  <2>2. TypeOK'
    BY <1>2, <1>3, <1>4, <1>6, <2>1 DEF IInv, TypeOK
  <2>3. WritesFromQueue' /\ Transfer' /\ Idle' /\ Life' /\ Unflushed'
    BY <1>4, <1>5, <1>6, <2>1 DEF WritesFromQueue, Transfer, Idle, Life, Unflushed
  <2> QED BY <2>2, <2>3 DEF IInv
<1>8. CASE ~known
  <2>1. /\ session' = "gone" /\ UNCHANGED <<encoding, running, queue>> /\ produced' = n
        /\ socket' = "closed" /\ connection' = Stopped /\ writing' = 0
        /\ ready' = w \o AbortedRead \o AbortedWrite
    BY <1>1, <1>8 DEF w, CloseSocket
  <2>2. AbortedWrite = <<>>
    BY <1>5 DEF AbortedWrite
  <2> DEFINE v == w \o AbortedRead
  <2>3. /\ v \in Seq(Handlers) /\ Once(v)
        /\ Has(v, "written") <=> Has(ready, "written")
        /\ Has(v, "flush") <=> Has(ready, "flush")
        /\ Erases(v) <=> Erases(ready)
    BY <1>4, AbortedReadHas, Concat
  <2> HIDE DEF v
  <2>4. ready' = v
    BY <2>1, <2>2, <2>3 DEF v
  <2>5. TypeOK'
    BY <1>2, <1>6, <2>1, <2>3, <2>4 DEF IInv, TypeOK, Stopped
  <2>6. WritesFromQueue' /\ Transfer' /\ Idle' /\ Life' /\ Unflushed'
    BY <1>5, <1>6, <2>1, <2>3, <2>4 DEF WritesFromQueue, Transfer, Idle, Life, Unflushed
  <2> QED BY <2>5, <2>6 DEF IInv
<1> QED BY <1>7, <1>8

\* A chunk adds buffers and their tasks.
LEMMA ConsumeChunkStep ==
    ASSUME IInv, ConsumeChunk
    PROVE  IInv'
<1>1. PICK n \in 0..MaxEncoded :
         /\ produced' = produced + n
         /\ queue' = Pushed(n)
         /\ ready' = ready \o Tasks(Fitting(n))
  BY DEF ConsumeChunk
<1>2. n \in Nat
  OBVIOUS
<1>3. /\ Fitting(n) \in Nat
      /\ Pushed(n) \in Seq(Nat \ {0}) /\ Len(Pushed(n)) <= PoolSize
      /\ queue # <<>> => Pushed(n) # <<>> /\ Head(Pushed(n)) = Head(queue)
  BY <1>2, PushedFacts DEF IInv
<1>4. /\ ready' \in Seq(Handlers) /\ Once(ready')
      /\ Has(ready', "written") <=> Has(ready, "written")
      /\ Has(ready', "flush") <=> Has(ready, "flush")
      /\ Erases(ready') <=> Erases(ready)
  <2> DEFINE t == Tasks(Fitting(n))
  <2>1. ready \in Seq(Handlers) /\ Once(ready)
    BY DEF IInv, TypeOK, Transfer
  <2>2. /\ t \in Seq(Handlers) /\ ~Has(t, "written")
        /\ ~Has(t, "flush") /\ ~Erases(t) /\ Once(t)
    BY <1>3, TasksHave
  <2> HIDE DEF t
  <2> DEFINE w == ready \o t
  <2>3. /\ w \in Seq(Handlers) /\ Once(w)
        /\ Has(w, "written") <=> Has(ready, "written")
        /\ Has(w, "flush") <=> Has(ready, "flush")
        /\ Erases(w) <=> Erases(ready)
    BY <2>1, <2>2, Concat
  <2>4. ready' = w
    BY <1>1 DEF t
  <2> HIDE DEF w
  <2> QED BY <2>3, <2>4
<1>5. /\ running /\ session = "alive"
      /\ UNCHANGED <<session, encoding, running, transferring, timers, writing, connection,
                     socket, received, stops, undefined>>
  BY DEF ConsumeChunk, Accepts, networkVars
<1>6. TypeOK'
  BY <1>1, <1>2, <1>3, <1>4, <1>5 DEF IInv, TypeOK
<1>7. WritesFromQueue' /\ Transfer'
  <2>1. writing # 0 => queue' # <<>> /\ Head(queue') = Head(queue)
    BY <1>1, <1>3 DEF IInv, WritesFromQueue
  <2> QED BY <1>4, <1>5, <2>1, TransferKept DEF IInv
<1>8. Idle' /\ Life' /\ Unflushed'
  BY <1>4, <1>5 DEF IInv, Idle, Life, Unflushed
<1> QED BY <1>6, <1>7, <1>8 DEF IInv

\* A step that flushes an existing session and changes little else.
LEMMA FlushedInv ==
    ASSUME IInv, LeftByFlush, session # "none", session' = session,
           connection' \in {"open", "failing", "closed", "removed"},
           encoding' = FALSE,
           produced' \in Nat, received' \in Nat, stops' \in Nat
    PROVE  IInv'
<1>1. TypeOK'
  BY DEF LeftByFlush, IInv, TypeOK
<1>2. WritesFromQueue' /\ Transfer' /\ Idle'
  BY DEF LeftByFlush, Idle
<1>3. Life' /\ Unflushed'
  BY DEF LeftByFlush, IInv, Life, Unflushed
<1> QED BY <1>1, <1>2, <1>3 DEF IInv

\* What the connection is after a flush is a state of it.
LEMMA FlushedType ==
    ASSUME TypeOK
    PROVE  Flushed \in {"open", "failing", "closed", "removed"}
BY DEF TypeOK, Flushed, Stopped

\* stop is called by the Streamer, by a request, or for the last chunk.
LEMMA StopSessionStep ==
    ASSUME IInv, StopSession \/ ConsumeLastChunk
    PROVE  IInv'
<1>1. /\ running /\ session = "alive" /\ session' = session /\ received' = received
      /\ stops' = stops + 1 /\ connection' = Flushed
      /\ Stop("none", ready, <<>>)
  BY DEF StopSession, ConsumeLastChunk, Accepts
<1>2. ready \in Seq(Handlers) /\ Once(ready) /\ "none" \in Callbacks
  BY DEF IInv, TypeOK, Transfer, Callbacks
<1>3. LeftByFlush /\ encoding' = FALSE /\ produced' \in Nat
  BY <1>1, <1>2, Empty, StopStep
<1>4. received' \in Nat /\ stops' \in Nat
  BY <1>1 DEF IInv, TypeOK
<1> QED BY <1>1, <1>3, <1>4, FlushedInv, FlushedType DEF IInv

\* The connection of a running session is closed.
LEMMA OnCloseRunningStep ==
    ASSUME IInv, OnCloseRunning
    PROVE  IInv'
<1>1. /\ running /\ session = "alive" /\ session' = session
      /\ received' = received /\ stops' = stops /\ connection' = "closed"
      /\ ready # <<>> /\ Head(ready).handler = "onData"
      /\ Stop("erase", Tail(ready), <<Handler("onStop")>>)
  BY DEF OnCloseRunning, Runs
<1>2. /\ Tail(ready) \in Seq(Handlers) /\ Once(Tail(ready))
      /\ Has(Tail(ready), "written") <=> Has(ready, "written")
      /\ Erases(Tail(ready)) => Erases(ready)
      /\ "erase" \in Callbacks
  BY <1>1, Taken DEF Callbacks
<1> DEFINE x == Handler("onStop")
           after == <<x>>
<1>3. x \in Handlers /\ x.handler = "onStop"
  BY HandlerKinds
<1>4. Stop("erase", Tail(ready), after)
  BY <1>1
<1> HIDE DEF x
<1>5. after \in Seq(Handlers) /\ ~Has(after, "written") /\ ~Erases(after) /\ Once(after)
  BY <1>3, Single
<1> HIDE DEF after
<1>6. LeftByFlush /\ encoding' = FALSE /\ produced' \in Nat
  BY <1>1, <1>2, <1>4, <1>5, StopStep
<1>7. received' \in Nat /\ stops' \in Nat
  BY <1>1 DEF IInv, TypeOK
<1> QED BY <1>1, <1>6, <1>7, FlushedInv

\* A flush is tried again.
LEMMA FlushAgainStep ==
    ASSUME IInv, FlushAgain
    PROVE  IInv'
<1>1. /\ session = "alive" /\ session' = session /\ encoding' = encoding
      /\ received' = received /\ stops' = stops /\ produced' = produced
      /\ connection' = Flushed
      /\ ready # <<>> /\ Head(ready).handler = "flush"
      /\ Flush(Head(ready).callback, queue, Tail(ready), <<>>)
  BY DEF FlushAgain, Runs
<1>2. /\ Head(ready) \in Handlers
      /\ Tail(ready) \in Seq(Handlers) /\ Once(Tail(ready))
      /\ Has(Tail(ready), "written") <=> Has(ready, "written")
      /\ Erases(Tail(ready)) => Erases(ready)
  BY <1>1, Taken
<1>3. Head(ready).callback \in Callbacks
  BY <1>2 DEF Handlers, Callbacks
<1>4. queue \in Seq(Nat \ {0}) /\ Len(queue) <= PoolSize /\ (~running => queue = <<>>)
  BY DEF IInv, TypeOK, Idle
<1>5. LeftByFlush
  BY <1>1, <1>2, <1>3, <1>4, Empty, FlushStep
<1>6. /\ received' \in Nat /\ stops' \in Nat /\ produced' \in Nat
  BY <1>1 DEF IInv, TypeOK
<1>7. encoding' = FALSE
  BY <1>1, Taken DEF IInv, TypeOK, Unflushed
<1> QED BY <1>1, <1>5, <1>6, <1>7, FlushedInv, FlushedType DEF IInv

\* The handler of an aborted write is its callback.
LEMMA AbortedWriteHas ==
    /\ AbortedWrite \in Seq(Handlers)
    /\ Has(AbortedWrite, "written") <=> writing # 0
    /\ ~Has(AbortedWrite, "flush") /\ ~Erases(AbortedWrite) /\ Once(AbortedWrite)
<1>1. CASE writing # 0
  <2> DEFINE x == Handler("written")
  <2>1. x \in Handlers /\ x.handler = "written"
    BY HandlerKinds
  <2> HIDE DEF x
  <2>2. AbortedWrite = <<x>>
    BY <1>1 DEF AbortedWrite, x
  <2> QED BY <1>1, <2>1, <2>2, Single
<1>2. CASE writing = 0
  BY <1>2, Empty DEF AbortedWrite
<1> QED BY <1>1, <1>2

\* The sockets of the server are closed.
LEMMA ServerStopStep ==
    ASSUME IInv, ServerStop
    PROVE  IInv'
<1>1. /\ session # "none" /\ socket' = "closed" /\ connection' = Stopped /\ writing' = 0
      /\ ready' = ready \o AbortedRead \o AbortedWrite
      /\ UNCHANGED <<session, encoding, running, transferring, queue, timers, produced,
                     received, stops, undefined>>
  BY DEF ServerStop, CloseSocket, sessionVars
<1> DEFINE w == ready \o AbortedRead
<1>2. /\ w \in Seq(Handlers) /\ Once(w)
      /\ Has(w, "written") <=> Has(ready, "written")
      /\ Has(w, "flush") <=> Has(ready, "flush")
      /\ Erases(w) <=> Erases(ready)
  BY AbortedReadHas, Concat DEF IInv, TypeOK, Transfer
<1>3. ready' = w \o AbortedWrite
  BY <1>1
<1> HIDE DEF w
<1>4. /\ ready' \in Seq(Handlers) /\ Once(ready')
      /\ Has(ready', "written") <=> Has(ready, "written") \/ writing # 0
      /\ Has(ready', "flush") <=> Has(ready, "flush")
      /\ Erases(ready') <=> Erases(ready)
  <2> DEFINE v == w \o AbortedWrite
  <2>1. writing # 0 => ~Has(w, "written")
    BY <1>2 DEF IInv, Transfer
  <2>2. /\ v \in Seq(Handlers) /\ Once(v)
        /\ Has(v, "written") <=> Has(ready, "written") \/ writing # 0
        /\ Has(v, "flush") <=> Has(ready, "flush")
        /\ Erases(v) <=> Erases(ready)
    BY <1>2, <2>1, AbortedWriteHas, Concat
  <2> HIDE DEF v
  <2>3. ready' = v
    BY <1>3 DEF v
  <2> QED BY <2>2, <2>3
<1>5. TypeOK'
  BY <1>1, <1>4 DEF IInv, TypeOK, Stopped
<1>6. WritesFromQueue' /\ Transfer' /\ Idle' /\ Life' /\ Unflushed'
  BY <1>1, <1>4 DEF IInv, WritesFromQueue, Transfer, Idle, Life, Unflushed
<1> QED BY <1>5, <1>6 DEF IInv

\* The connection is deleted.
LEMMA RemoveStep ==
    ASSUME IInv, Remove
    PROVE  IInv'
<1>1. /\ ready # <<>> /\ Head(ready).handler = "remove"
      /\ socket' = "closed" /\ connection' = "removed" /\ writing' = 0
      /\ ready' = Tail(ready) \o AbortedWrite
      /\ UNCHANGED <<session, encoding, running, transferring, queue, timers, produced,
                     received, stops, undefined>>
  BY DEF Remove, Runs, sessionVars
<1> DEFINE w == Tail(ready)
<1>2. /\ w \in Seq(Handlers) /\ Once(w)
      /\ Has(w, "written") <=> Has(ready, "written")
      /\ Has(w, "flush") => Has(ready, "flush")
      /\ Erases(w) => Erases(ready)
  BY <1>1, Taken
<1> HIDE DEF w
<1>3. /\ ready' \in Seq(Handlers) /\ Once(ready')
      /\ Has(ready', "written") <=> Has(ready, "written") \/ writing # 0
      /\ Has(ready', "flush") => Has(ready, "flush")
      /\ Erases(ready') => Erases(ready)
  <2> DEFINE v == w \o AbortedWrite
  <2>1. writing # 0 => ~Has(w, "written")
    BY <1>2 DEF IInv, Transfer
  <2>2. /\ v \in Seq(Handlers) /\ Once(v)
        /\ Has(v, "written") <=> Has(ready, "written") \/ writing # 0
        /\ Has(v, "flush") => Has(ready, "flush")
        /\ Erases(v) => Erases(ready)
    BY <1>2, <2>1, AbortedWriteHas, Concat
  <2> HIDE DEF v
  <2>3. ready' = v
    BY <1>1 DEF v, w
  <2> QED BY <2>2, <2>3
<1>4. TypeOK'
  BY <1>1, <1>3 DEF IInv, TypeOK
<1>5. WritesFromQueue' /\ Transfer' /\ Idle' /\ Life' /\ Unflushed'
  BY <1>1, <1>3 DEF IInv, WritesFromQueue, Transfer, Idle, Life, Unflushed
<1> QED BY <1>4, <1>5 DEF IInv

\* A step that submits one more handler, which is no callback of the session.
LEMMA OneMore ==
    ASSUME IInv, NEW x \in Handlers, x.handler \in {"onData", "flush", "written"}
    PROVE  LET r == Append(ready, x) IN
           /\ r \in Seq(Handlers)
           /\ \A h : Has(r, h) <=> Has(ready, h) \/ x.handler = h
           /\ Erases(r) <=> Erases(ready)
           /\ ~Has(ready, "written") \/ x.handler # "written" => Once(r)
<1>1. ready \in Seq(Handlers) /\ Once(ready)
  BY DEF IInv, TypeOK, Transfer
<1>2. x.handler # "callback"
  OBVIOUS
<1> QED BY <1>1, <1>2, AppendOne

\* The client closes its side.
LEMMA PeerClosesStep ==
    ASSUME IInv, PeerCloses
    PROVE  IInv'
<1> DEFINE x == Handler("onData")
<1>1. x \in Handlers /\ x.handler = "onData"
  BY HandlerKinds
<1>2. /\ connection' = "failing" /\ socket' \in {socket, "broken"}
      /\ ready' = Append(ready, x)
      /\ UNCHANGED <<session, encoding, running, transferring, queue, timers, writing,
                     produced, received, stops, undefined>>
  BY DEF PeerCloses, sessionVars
<1> HIDE DEF x
<1>3. /\ ready' \in Seq(Handlers) /\ Once(ready')
      /\ Has(ready', "written") <=> Has(ready, "written")
      /\ Has(ready', "flush") <=> Has(ready, "flush")
      /\ Erases(ready') <=> Erases(ready)
  BY <1>1, <1>2, OneMore
<1>4. TypeOK'
  BY <1>2, <1>3 DEF IInv, TypeOK
<1>5. WritesFromQueue' /\ Transfer' /\ Idle' /\ Life' /\ Unflushed'
  BY <1>2, <1>3 DEF IInv, WritesFromQueue, Transfer, Idle, Life, Unflushed
<1> QED BY <1>4, <1>5 DEF IInv

\* A write ends: its callback is submitted.
LEMMA WriteEndsStep ==
    ASSUME IInv, WriteEnds
    PROVE  IInv'
<1> DEFINE x == Handler("written")
<1>1. x \in Handlers /\ x.handler = "written"
  BY HandlerKinds
<1>2. /\ writing # 0 /\ writing' = 0
      /\ socket' \in {socket, "broken"} /\ received' \in {received, writing}
      /\ ready' = Append(ready, x)
      /\ UNCHANGED <<session, encoding, running, transferring, queue, timers, connection,
                     produced, stops, undefined>>
  BY DEF WriteEnds, sessionVars
<1> HIDE DEF x
<1>3. transferring /\ ~Has(ready, "written")
  BY <1>2 DEF IInv, Transfer
<1>4. /\ ready' \in Seq(Handlers) /\ Once(ready')
      /\ Has(ready', "written")
      /\ Has(ready', "flush") <=> Has(ready, "flush")
      /\ Erases(ready') <=> Erases(ready)
  BY <1>1, <1>2, <1>3, OneMore
<1>5. TypeOK'
  BY <1>2, <1>4 DEF IInv, TypeOK
<1>6. WritesFromQueue' /\ Transfer' /\ Idle' /\ Life' /\ Unflushed'
  BY <1>2, <1>3, <1>4 DEF IInv, WritesFromQueue, Transfer, Idle, Life, Unflushed
<1> QED BY <1>5, <1>6 DEF IInv

\* A flush timer expires.
LEMMA ExpireStep ==
    ASSUME IInv, Expire
    PROVE  IInv'
<1> DEFINE x == [handler |-> "flush", callback |-> Head(timers)]
<1>1. /\ timers # <<>> /\ timers' = Tail(timers) /\ ready' = Append(ready, x)
      /\ UNCHANGED <<session, encoding, running, transferring, queue, writing, connection,
                     socket, produced, received, stops, undefined>>
  BY DEF Expire, networkVars
<1>2. timers' \in Seq(Callbacks) /\ Head(timers) \in Callbacks
  BY <1>1 DEF IInv, TypeOK
<1>3. x \in Handlers /\ x.handler = "flush"
  BY <1>2, HandlerKinds
<1> HIDE DEF x
<1>4. /\ ready' \in Seq(Handlers) /\ Once(ready')
      /\ Has(ready', "written") <=> Has(ready, "written")
      /\ Erases(ready') <=> Erases(ready)
  BY <1>1, <1>3, OneMore
<1>5. TypeOK'
  BY <1>1, <1>2, <1>4 DEF IInv, TypeOK
<1>6. WritesFromQueue' /\ Transfer' /\ Idle' /\ Life' /\ Unflushed'
  BY <1>1, <1>4 DEF IInv, WritesFromQueue, Transfer, Idle, Life, Unflushed
<1> QED BY <1>5, <1>6 DEF IInv

\* A step that releases the first buffer.
LEMMA Released ==
    ASSUME IInv, queue # <<>>
    PROVE  /\ Head(queue) \in Nat \ {0}
           /\ Tail(queue) \in Seq(Nat \ {0}) /\ Len(Tail(queue)) <= PoolSize
<1>1. queue \in Seq(Nat \ {0}) /\ Len(queue) <= PoolSize /\ PoolSize \in Nat
  BY PoolAssumption DEF IInv, TypeOK
<1> DEFINE S == Nat \ {0}
<1>2. \A s \in S : s \in Nat /\ s # 0
  OBVIOUS
<1> HIDE DEF S
<1>3. queue \in Seq(S)
  BY <1>1 DEF S
<1>4. Head(queue) \in S /\ Tail(queue) \in Seq(S) /\ Len(Tail(queue)) = Len(queue) - 1
  BY <1>3
<1>5. Len(Tail(queue)) <= PoolSize
  BY <1>1, <1>3, <1>4
<1> QED BY <1>4, <1>5 DEF S

\* The first buffer is written.
LEMMA TransferTaskStep ==
    ASSUME IInv, TransferTask
    PROVE  IInv'
<1>1. /\ ready # <<>> /\ Head(ready).handler = "transferTask" /\ ready' = Tail(ready)
      /\ session = "alive" /\ queue # <<>> /\ ~transferring
      /\ transferring' = TRUE /\ writing' = Head(queue)
      /\ UNCHANGED <<session, encoding, running, queue, timers, connection, socket,
                     produced, received, stops, undefined>>
  BY DEF TransferTask, Runs
<1>2. /\ ready' \in Seq(Handlers) /\ Once(ready')
      /\ Has(ready', "written") <=> Has(ready, "written")
      /\ Has(ready', "flush") => Has(ready, "flush")
      /\ Erases(ready') => Erases(ready)
  BY <1>1, Taken
<1>3. writing' \in Nat \ {0} /\ ~Has(ready, "written") /\ running
  BY <1>1, Released DEF IInv, Transfer, Idle
<1>4. TypeOK'
  BY <1>1, <1>2, <1>3 DEF IInv, TypeOK
<1>5. WritesFromQueue' /\ Transfer' /\ Idle' /\ Life' /\ Unflushed'
  BY <1>1, <1>2, <1>3 DEF IInv, WritesFromQueue, Transfer, Idle, Life, Unflushed
<1> QED BY <1>4, <1>5 DEF IInv

\* A task that finds nothing to transfer.
LEMMA NothingToTransferStep ==
    ASSUME IInv, NothingToTransfer
    PROVE  IInv'
<1>1. /\ ready # <<>> /\ Head(ready).handler = "transferTask" /\ ready' = Tail(ready)
      /\ UNCHANGED <<session, encoding, running, transferring, queue, timers, writing,
                     connection, socket, produced, received, stops, undefined>>
  BY DEF NothingToTransfer, Runs, sessionVars, networkVars
<1>2. /\ ready' \in Seq(Handlers) /\ Once(ready')
      /\ Has(ready', "written") <=> Has(ready, "written")
      /\ Has(ready', "flush") => Has(ready, "flush")
      /\ Erases(ready') => Erases(ready)
  BY <1>1, Taken
<1>3. TypeOK'
  BY <1>1, <1>2 DEF IInv, TypeOK
<1>4. WritesFromQueue' /\ Transfer' /\ Idle' /\ Life' /\ Unflushed'
  BY <1>1, <1>2 DEF IInv, WritesFromQueue, Transfer, Idle, Life, Unflushed
<1> QED BY <1>3, <1>4 DEF IInv

\* A buffer is released because the socket is closed.
LEMMA TransferToClosedStep ==
    ASSUME IInv, TransferToClosed
    PROVE  IInv'
<1>1. /\ ready # <<>> /\ Head(ready).handler = "transferTask"
      /\ ready' = Append(Tail(ready), Handler("transferTask"))
      /\ queue # <<>> /\ queue' = Tail(queue) /\ ~transferring
      /\ UNCHANGED <<session, encoding, running, transferring, timers, writing, connection,
                     socket, produced, received, stops, undefined>>
  BY DEF TransferToClosed, Runs, networkVars
<1>2. /\ ready' \in Seq(Handlers) /\ Once(ready')
      /\ Has(ready', "written") <=> Has(ready, "written")
      /\ Has(ready', "flush") => Has(ready, "flush")
      /\ Erases(ready') => Erases(ready)
  BY <1>1, Replaced
<1>3. writing = 0 /\ running
  BY <1>1 DEF IInv, Transfer, Idle
<1>4. TypeOK'
  BY <1>1, <1>2, Released DEF IInv, TypeOK
<1>5. WritesFromQueue' /\ Transfer' /\ Idle' /\ Life' /\ Unflushed'
  BY <1>1, <1>2, <1>3 DEF IInv, WritesFromQueue, Transfer, Idle, Life, Unflushed
<1> QED BY <1>4, <1>5 DEF IInv

\* The callback of a write.
LEMMA WrittenStep ==
    ASSUME IInv, Written
    PROVE  IInv'
<1>1. /\ ready # <<>> /\ Head(ready).handler = "written"
      /\ ready' = Append(Tail(ready), Handler("transferTask"))
      /\ queue' = (IF queue = <<>> THEN queue ELSE Tail(queue)) /\ transferring' = FALSE
      /\ UNCHANGED <<session, encoding, running, timers, writing, connection,
                     socket, produced, received, stops, undefined>>
  BY DEF Written, Runs, networkVars
<1>2. /\ ready' \in Seq(Handlers) /\ Once(ready')
      /\ ~Has(ready', "written") /\ Has(ready, "written")
      /\ Has(ready', "flush") => Has(ready, "flush")
      /\ Erases(ready') => Erases(ready)
  BY <1>1, Replaced, Taken
<1>3. writing = 0
  BY <1>2 DEF IInv, Transfer
<1>4. queue' \in Seq(Nat \ {0}) /\ Len(queue') <= PoolSize
  BY <1>1, Released DEF IInv, TypeOK
<1>5. TypeOK'
  BY <1>1, <1>2, <1>4 DEF IInv, TypeOK
<1>6. WritesFromQueue' /\ Transfer' /\ Idle' /\ Life' /\ Unflushed'
  BY <1>1, <1>2, <1>3 DEF IInv, WritesFromQueue, Transfer, Idle, Life, Unflushed
<1> QED BY <1>5, <1>6 DEF IInv

\* What deleting a session that does not run leaves.
LEMMA ErasedInv ==
    ASSUME IInv, ~running, Erase,
           connection' \in {"open", "failing", "closed", "removed"},
           ready' \in Seq(Handlers), Once(ready'),
           Has(ready', "written") <=> Has(ready, "written"),
           UNCHANGED <<writing, socket, produced, received, stops, undefined>>
    PROVE  IInv'
<1>1. timers' \in Seq(Callbacks)
  <2>1. timers \in Seq(Callbacks)
    BY DEF IInv, TypeOK
  <2>2. timers # <<>> => SubSeq(timers, 1, Len(timers) - 1) \in Seq(Callbacks)
    BY <2>1
  <2> QED BY <2>1, <2>2 DEF Erase
<1>2. /\ session' = "gone" /\ running' = FALSE /\ encoding' = FALSE
      /\ transferring' = FALSE /\ queue' = <<>>
  BY DEF Erase
<1>3. ~transferring /\ queue = <<>>
  BY DEF IInv, Idle
<1>4. TypeOK'
  BY <1>1, <1>2, <1>3 DEF IInv, TypeOK
<1>5. WritesFromQueue' /\ Transfer' /\ Idle' /\ Life' /\ Unflushed'
  BY <1>2, <1>3 DEF IInv, WritesFromQueue, Transfer, Idle, Life, Unflushed
<1> QED BY <1>4, <1>5 DEF IInv

\* The callback of stop.
LEMMA CallbackStep ==
    ASSUME IInv, Callback
    PROVE  IInv'
<1>1. /\ ready # <<>> /\ Head(ready).handler = "callback" /\ ready' = Tail(ready)
      /\ UNCHANGED <<writing, connection, socket, produced, received, stops, undefined>>
  BY DEF Callback, Runs, networkVars
<1>2. /\ ready' \in Seq(Handlers) /\ Once(ready')
      /\ Has(ready', "written") <=> Has(ready, "written")
      /\ Has(ready', "flush") => Has(ready, "flush")
      /\ Erases(ready') => Erases(ready)
  BY <1>1, Taken
<1>3. CASE Head(ready).callback = "erase"
  <2>1. Erase
    BY <1>3 DEF Callback
  <2>2. ~running
    BY <1>1, <1>3, Taken DEF IInv, Life
  <2>3. connection' \in {"open", "failing", "closed", "removed"}
    BY <1>1 DEF IInv, TypeOK
  <2> QED BY <1>1, <1>2, <2>1, <2>2, <2>3, ErasedInv
<1>4. CASE Head(ready).callback # "erase"
  <2>1. UNCHANGED <<session, encoding, running, transferring, queue, timers>>
    BY <1>4 DEF Callback, sessionVars
  <2>2. TypeOK'
    BY <1>1, <1>2, <2>1 DEF IInv, TypeOK
  <2>3. WritesFromQueue' /\ Transfer' /\ Idle' /\ Life' /\ Unflushed'
    BY <1>1, <1>2, <2>1 DEF IInv, WritesFromQueue, Transfer, Idle, Life, Unflushed
  <2> QED BY <2>2, <2>3 DEF IInv
<1> QED BY <1>3, <1>4

\* The connection is closed when its session does not run, or there is none.
LEMMA OnCloseStoppedStep ==
    ASSUME IInv, OnCloseStopped
    PROVE  IInv'
<1>1. /\ ready # <<>> /\ Head(ready).handler = "onData" /\ connection' = "closed"
      /\ ready' = Append(Tail(ready), Handler("onStop"))
      /\ session # "alive" \/ ~running
      /\ UNCHANGED <<writing, socket, produced, received, stops, undefined>>
  BY DEF OnCloseStopped, Runs
<1>2. /\ ready' \in Seq(Handlers) /\ Once(ready')
      /\ Has(ready', "written") <=> Has(ready, "written")
      /\ Has(ready', "flush") => Has(ready, "flush")
      /\ Erases(ready') => Erases(ready)
  BY <1>1, Replaced
<1>3. ~running
  BY <1>1 DEF IInv, Life
<1>4. CASE session = "alive"
  <2>1. Erase
    BY <1>4 DEF OnCloseStopped
  <2> QED BY <1>1, <1>2, <1>3, <2>1, ErasedInv
<1>5. CASE session # "alive"
  <2>1. UNCHANGED <<session, encoding, running, transferring, queue, timers>>
    BY <1>5 DEF OnCloseStopped, sessionVars
  <2>2. TypeOK'
    BY <1>1, <1>2, <2>1 DEF IInv, TypeOK
  <2>3. WritesFromQueue' /\ Transfer' /\ Idle' /\ Life' /\ Unflushed'
    BY <1>1, <1>2, <2>1 DEF IInv, WritesFromQueue, Transfer, Idle, Life, Unflushed
  <2> QED BY <2>2, <2>3 DEF IInv
<1> QED BY <1>4, <1>5

\* The removal of the connection is submitted.
LEMMA OnStopStep ==
    ASSUME IInv, OnStop
    PROVE  IInv'
<1>1. /\ ready # <<>> /\ Head(ready).handler = "onStop"
      /\ ready' = Append(Tail(ready), Handler("remove"))
      /\ UNCHANGED <<session, encoding, running, transferring, queue, timers, writing,
                     connection, socket, produced, received, stops, undefined>>
  BY DEF OnStop, Runs, sessionVars, networkVars
<1>2. /\ ready' \in Seq(Handlers) /\ Once(ready')
      /\ Has(ready', "written") <=> Has(ready, "written")
      /\ Has(ready', "flush") => Has(ready, "flush")
      /\ Erases(ready') => Erases(ready)
  BY <1>1, Replaced
<1>3. TypeOK'
  BY <1>1, <1>2 DEF IInv, TypeOK
<1>4. WritesFromQueue' /\ Transfer' /\ Idle' /\ Life' /\ Unflushed'
  BY <1>1, <1>2 DEF IInv, WritesFromQueue, Transfer, Idle, Life, Unflushed
<1> QED BY <1>3, <1>4 DEF IInv

\* A deleted object is used.
LEMMA UndefinedStep ==
    ASSUME IInv, UseOfDeleted \/ TransferToDeleted
    PROVE  IInv'
<1>1. /\ undefined' \in {"session", "connection"}
      /\ UNCHANGED <<session, encoding, running, transferring, queue, timers, writing,
                     connection, socket, ready, produced, received, stops>>
  BY DEF UseOfDeleted, TransferToDeleted, Undefined, sessionVars, networkVars
<1> QED BY <1>1
        DEF IInv, TypeOK, WritesFromQueue, Transfer, Idle, Life, Unflushed

-----------------------------------------------------------------------------
(* Theorems *)

\* The inductive invariant of a session and its connection.
THEOREM Invariance == Spec => []IInv
<1>1. IInv /\ [Next]_vars => IInv'
  <2> SUFFICES ASSUME IInv, [Next]_vars PROVE IInv'
    OBVIOUS
  <2>1. ASSUME NEW known \in BOOLEAN, Request(known) PROVE IInv'
    BY <2>1, RequestStep
  <2>2. CASE ConsumeChunk
    BY <2>2, ConsumeChunkStep
  <2>3. CASE ConsumeLastChunk \/ StopSession
    BY <2>3, StopSessionStep
  <2>4. CASE ServerStop
    BY <2>4, ServerStopStep
  <2>5. CASE PeerCloses
    BY <2>5, PeerClosesStep
  <2>6. CASE WriteEnds
    BY <2>6, WriteEndsStep
  <2>7. CASE Expire
    BY <2>7, ExpireStep
  <2>8. CASE Transfers
    BY <2>8, TransferTaskStep, NothingToTransferStep, TransferToClosedStep, WrittenStep
       DEF Transfers
  <2>9. CASE FlushAgain
    BY <2>9, FlushAgainStep
  <2>10. CASE Callback
    BY <2>10, CallbackStep
  <2>11. CASE Closes
    BY <2>11, OnCloseRunningStep, OnCloseStoppedStep, OnStopStep, RemoveStep DEF Closes
  <2>12. CASE UseOfDeleted \/ TransferToDeleted
    BY <2>12, UndefinedStep
  <2>13. CASE UNCHANGED vars
    BY <2>13 DEF vars, sessionVars, networkVars, IInv, TypeOK, WritesFromQueue, Transfer,
                 Idle, Life, Unflushed
  <2> QED
    BY <2>1, <2>2, <2>3, <2>4, <2>5, <2>6, <2>7, <2>8, <2>9, <2>10, <2>11, <2>12, <2>13
       DEF Next, Run
<1> QED BY <1>1, InitIInv, PTL DEF Spec

\* StreamingSession keeps the types of its variables, and never has more buffers in
\* its queue than the pool has.
THEOREM TypeCorrect == Spec => []TypeOK
<1>1. IInv => TypeOK
  BY DEF IInv
<1> QED BY <1>1, Invariance, PTL

\* The buffer that the socket writes from is the first of the queue: nothing gives it
\* back to the pool before the write has ended.
THEOREM WritesFromQueueCorrect == Spec => []WritesFromQueue
<1>1. IInv => WritesFromQueue
  BY DEF IInv
<1> QED BY <1>1, Invariance, PTL

\* The transferring flag of a session is set exactly while a write is in progress or
\* its callback is due.
THEOREM OneTransferCorrect == Spec => []OneTransfer
<1>1. IInv => OneTransfer
  <2> SUFFICES ASSUME IInv PROVE OneTransfer
    OBVIOUS
  <2>1. ready \in Seq(Handlers)
    BY DEF IInv, TypeOK
  <2>2. DOMAIN ready = 1..Len(ready)
    BY <2>1
  <2>3. IsReady("written") <=> Has(ready, "written")
    BY <2>2 DEF IsReady, Has
  <2> QED BY <2>3 DEF OneTransfer, IInv, Transfer
<1> QED BY <1>1, Invariance, PTL

-----------------------------------------------------------------------------
(* Wake-ups *)

\* Buffers that wait and are not being transferred have a task, in every state: also
\* after the session was deleted, which has no buffers, and where the model ends.
Awake == queue # <<>> /\ ~transferring => Has(ready, "transferTask")

\* Whoever adds no first buffer, ends no transfer and takes no task off keeps it so.
LEMMA StaysAwake ==
    ASSUME Awake, queue' # <<>> => queue # <<>>, transferring' = transferring,
           Has(ready, "transferTask") => Has(ready', "transferTask")
    PROVE  Awake'
BY DEF Awake

\* The tasks of new buffers: there is one as soon as there is a buffer.
LEMMA TasksWake ==
    ASSUME IInv, Awake, NEW n \in Nat, NEW rest \in Seq(Handlers),
           Has(ready, "transferTask") => Has(rest, "transferTask")
    PROVE  /\ rest \o Tasks(Fitting(n)) \in Seq(Handlers)
           /\ Pushed(n) # <<>> /\ ~transferring
                => Has(rest \o Tasks(Fitting(n)), "transferTask")
<1> DEFINE k == Fitting(n)
           t == Tasks(k)
           w == rest \o t
<1>1. k \in Nat /\ produced \in Nat /\ queue \in Seq(Nat \ {0})
  BY PushedFacts DEF IInv, TypeOK
<1> HIDE DEF k
<1>2. t \in Seq(Handlers)
  BY <1>1, TasksHave
<1>3. k # 0 => Has(t, "transferTask")
  <2>1. Len(t) = k /\ \A i \in 1..k : t[i] = Handler("transferTask")
    BY <1>1 DEF Tasks
  <2>2. k # 0 => 1 \in 1..k
    BY <1>1
  <2>3. Handler("transferTask").handler = "transferTask"
    BY HandlerKinds
  <2> HIDE DEF t
  <2> QED BY <2>1, <2>2, <2>3 DEF Has
<1> HIDE DEF t
<1>4. w \in Seq(Handlers) /\ (Has(w, "transferTask")
                                <=> Has(rest, "transferTask") \/ Has(t, "transferTask"))
  BY <1>2, Concat
<1>5. k = 0 /\ queue = <<>> => Pushed(n) = <<>>
  <2> SUFFICES ASSUME k = 0, queue = <<>> PROVE Pushed(n) = <<>>
    OBVIOUS
  <2>1. Pushed(n) = <<>> \o [i \in 1..0 |-> produced + i]
    BY DEF Pushed, k
  <2> QED BY <2>1
<1> HIDE DEF w
<1>6. Pushed(n) # <<>> /\ ~transferring => Has(w, "transferTask")
  BY <1>3, <1>4, <1>5 DEF Awake
<1> QED BY <1>4, <1>6 DEF w, t, k

\* flush discards what waits, or leaves its task.
LEMMA FlushAwake ==
    ASSUME NEW callback, NEW q, NEW rest \in Seq(Handlers), NEW after \in Seq(Handlers),
           q # <<>> /\ ~transferring => Has(rest, "transferTask"),
           Flush(callback, q, rest, after)
    PROVE  Awake'
<1>1. transferring' = transferring
  BY DEF Flush
<1>2. CASE transferring
  BY <1>1, <1>2 DEF Awake
<1>3. CASE queue' = <<>>
  BY <1>3 DEF Awake
<1>4. CASE ~transferring /\ queue' = q /\ ready' = rest \o after
  <2> DEFINE w == rest \o after
  <2>1. Has(rest, "transferTask") => Has(w, "transferTask")
    BY Concat
  <2> HIDE DEF w
  <2>2. ready' = w
    BY <1>4 DEF w
  <2> QED BY <1>4, <2>1, <2>2 DEF Awake
<1> QED BY <1>2, <1>3, <1>4 DEF Flush, Finish

\* So does stop, whose encoder may add buffers.
LEMMA StopAwake ==
    ASSUME IInv, Awake, NEW callback, NEW rest \in Seq(Handlers), NEW after \in Seq(Handlers),
           Has(ready, "transferTask") => Has(rest, "transferTask"),
           Stop(callback, rest, after)
    PROVE  Awake'
<1>1. PICK n \in Nat : Flush(callback, Pushed(n), rest \o Tasks(Fitting(n)), after)
  <2>1. \A n \in 0..MaxTail : n \in Nat
    OBVIOUS
  <2>2. 0 \in Nat
    OBVIOUS
  <2> QED BY <2>1, <2>2 DEF Stop
<1> DEFINE w == rest \o Tasks(Fitting(n))
<1>2. w \in Seq(Handlers) /\ (Pushed(n) # <<>> /\ ~transferring => Has(w, "transferTask"))
  BY TasksWake
<1>3. Flush(callback, Pushed(n), w, after)
  BY <1>1
<1> HIDE DEF w
<1> QED BY <1>2, <1>3, FlushAwake

\* The first handler is taken off, and no task with it if it is none.
LEMMA TaskStays ==
    ASSUME IInv, ready # <<>>, Head(ready).handler # "transferTask"
    PROVE  /\ Tail(ready) \in Seq(Handlers)
           /\ Has(ready, "transferTask") => Has(Tail(ready), "transferTask")
<1>1. ready \in Seq(Handlers)
  BY DEF IInv, TypeOK
<1> QED BY <1>1, TakeOff

\* A task that is submitted is there.
LEMMA TaskSubmitted ==
    ASSUME NEW s \in Seq(Handlers)
    PROVE  Has(Append(s, Handler("transferTask")), "transferTask")
<1> DEFINE x == Handler("transferTask")
<1>1. x \in Handlers /\ x.handler = "transferTask"
  BY HandlerKinds
<1> HIDE DEF x
<1>2. Has(Append(s, x), "transferTask")
  BY <1>1, AppendOne
<1> QED BY <1>2 DEF x

\* Submitting more handlers takes none away.
LEMMA TaskKept ==
    ASSUME NEW s \in Seq(Handlers)
    PROVE  /\ \A x \in Handlers : Has(s, "transferTask") => Has(Append(s, x), "transferTask")
           /\ \A t \in Seq(Handlers) : Has(s, "transferTask") => Has(s \o t, "transferTask")
BY AppendOne, Concat

\* No step loses a wake-up.
LEMMA NextAwake == ASSUME IInv, Awake, [Next]_vars PROVE Awake'
<1>0. ready \in Seq(Handlers) /\ queue \in Seq(Nat \ {0}) /\ timers \in Seq(Callbacks)
  BY DEF IInv, TypeOK
<1>1. ASSUME NEW known \in BOOLEAN, Request(known) PROVE Awake'
  <2>1. queue = <<>> /\ ~transferring
    BY <1>1 DEF Request, IInv, Life, Idle
  <2>2. CASE known
    <3>1. PICK n \in 0..MaxTail : queue' = Pushed(n) /\ ready' = ready \o Tasks(Fitting(n))
      BY <1>1, <2>2 DEF Request
    <3>2. n \in Nat
      OBVIOUS
    <3> DEFINE w == ready \o Tasks(Fitting(n))
    <3>3. Pushed(n) # <<>> /\ ~transferring => Has(w, "transferTask")
      BY <1>0, <3>2, TasksWake
    <3> HIDE DEF w
    <3>4. ready' = w
      BY <3>1 DEF w
    <3> QED BY <2>1, <3>1, <3>3, <3>4 DEF Awake
  <2>3. CASE ~known
    <3>1. queue' = queue
      BY <1>1, <2>3 DEF Request
    <3> QED BY <2>1, <3>1 DEF Awake
  <2> QED BY <2>2, <2>3
<1>2. CASE ConsumeChunk
  <2>1. PICK n \in 0..MaxEncoded : queue' = Pushed(n) /\ ready' = ready \o Tasks(Fitting(n))
    BY <1>2 DEF ConsumeChunk
  <2>2. n \in Nat /\ transferring' = transferring
    BY <1>2 DEF ConsumeChunk
  <2> DEFINE w == ready \o Tasks(Fitting(n))
  <2>3. Pushed(n) # <<>> /\ ~transferring => Has(w, "transferTask")
    BY <1>0, <2>2, TasksWake
  <2> HIDE DEF w
  <2>4. ready' = w
    BY <2>1 DEF w
  <2> QED BY <2>1, <2>2, <2>3, <2>4 DEF Awake
<1>3. CASE ConsumeLastChunk \/ StopSession
  <2>1. Stop("none", ready, <<>>)
    BY <1>3 DEF ConsumeLastChunk, StopSession
  <2> QED BY <1>0, <2>1, Empty, StopAwake
<1>4. CASE ServerStop
  <2>1. /\ UNCHANGED <<queue, transferring>>
        /\ ready' = ready \o AbortedRead \o AbortedWrite
    BY <1>4 DEF ServerStop, CloseSocket, sessionVars
  <2>2. ready \o AbortedRead \in Seq(Handlers)
    BY <1>0, AbortedReadHas, Concat
  <2>3. Has(ready, "transferTask") => Has(ready', "transferTask")
    BY <1>0, <2>1, <2>2, AbortedReadHas, AbortedWriteHas, TaskKept, Zenon
  <2> QED BY <2>1, <2>3, StaysAwake
<1>5. CASE PeerCloses \/ WriteEnds \/ Expire
  <2>1. PICK x \in Handlers : ready' = Append(ready, x)
    <3>1. timers # <<>> => Head(timers) \in Callbacks
      BY <1>0
    <3> QED BY <1>5, <3>1, HandlerKinds, Zenon DEF PeerCloses, WriteEnds, Expire
  <2>2. UNCHANGED <<queue, transferring>>
    BY <1>5 DEF PeerCloses, WriteEnds, Expire, sessionVars
  <2>3. Has(ready, "transferTask") => Has(ready', "transferTask")
    BY <1>0, <2>1, TaskKept, Zenon
  <2> QED BY <2>2, <2>3, StaysAwake
<1>6. CASE TransferTask
  <2>1. transferring' = TRUE
    BY <1>6 DEF TransferTask
  <2> QED BY <2>1 DEF Awake
<1>7. CASE NothingToTransfer
  <2>1. UNCHANGED <<queue, transferring>> /\ (queue = <<>> \/ transferring)
    BY <1>7 DEF NothingToTransfer, sessionVars
  <2> QED BY <2>1 DEF Awake
<1>8. CASE TransferToClosed \/ Written
  <2>1. ready # <<>> /\ ready' = Append(Tail(ready), Handler("transferTask"))
    BY <1>8 DEF TransferToClosed, Written, Runs
  <2>2. Tail(ready) \in Seq(Handlers)
    BY <1>0, <2>1
  <2>3. Has(ready', "transferTask")
    BY <2>1, <2>2, TaskSubmitted
  <2> QED BY <2>3 DEF Awake
<1>9. CASE FlushAgain
  <2>1. /\ ready # <<>> /\ Head(ready).handler = "flush"
        /\ Flush(Head(ready).callback, queue, Tail(ready), <<>>)
    BY <1>9 DEF FlushAgain, Runs
  <2>2. /\ Tail(ready) \in Seq(Handlers)
        /\ queue # <<>> /\ ~transferring => Has(Tail(ready), "transferTask")
    BY <2>1, TaskStays DEF Awake
  <2> QED BY <2>1, <2>2, Empty, FlushAwake
<1>10. CASE Callback \/ OnCloseStopped \/ OnStop \/ Remove
  <2>1. ready # <<>> /\ Head(ready).handler # "transferTask"
    BY <1>10 DEF Callback, OnCloseStopped, OnStop, Remove, Runs
  <2>2. /\ Tail(ready) \in Seq(Handlers)
        /\ Has(ready, "transferTask") => Has(Tail(ready), "transferTask")
    BY <2>1, TaskStays
  <2>3. Has(ready, "transferTask") => Has(ready', "transferTask")
    <3>1. \/ ready' = Tail(ready)
          \/ \E x \in Handlers : ready' = Append(Tail(ready), x)
          \/ ready' = Tail(ready) \o AbortedWrite
      BY <1>10, HandlerKinds, Zenon DEF Callback, OnCloseStopped, OnStop, Remove
    <3> QED BY <2>2, <3>1, AbortedWriteHas, TaskKept, Zenon
  <2>4. queue' = <<>> \/ UNCHANGED <<queue, transferring>>
    BY <1>10, Zenon DEF Callback, OnCloseStopped, OnStop, Remove, Erase, sessionVars
  <2>5. CASE queue' = <<>>
    BY <2>5 DEF Awake
  <2> QED BY <2>3, <2>4, <2>5, StaysAwake
<1>11. CASE OnCloseRunning
  <2>1. /\ ready # <<>> /\ Head(ready).handler = "onData"
        /\ Stop("erase", Tail(ready), <<Handler("onStop")>>)
    BY <1>11 DEF OnCloseRunning, Runs
  <2>2. <<Handler("onStop")>> \in Seq(Handlers)
    BY HandlerKinds, Single
  <2>3. /\ Tail(ready) \in Seq(Handlers)
        /\ Has(ready, "transferTask") => Has(Tail(ready), "transferTask")
    BY <2>1, TaskStays
  <2> QED BY <2>1, <2>2, <2>3, StopAwake
<1>12. CASE UseOfDeleted \/ TransferToDeleted \/ UNCHANGED vars
  <2>1. UNCHANGED <<queue, transferring, ready>>
    BY <1>12 DEF UseOfDeleted, TransferToDeleted, Undefined, vars, sessionVars
  <2> QED BY <2>1, StaysAwake
<1> QED BY <1>1, <1>2, <1>3, <1>4, <1>5, <1>6, <1>7, <1>8, <1>9, <1>10, <1>11, <1>12, Zenon
        DEF Next, Run, Transfers, Closes

\* No wake-up is lost, for every pool and every encoder: buffers that wait while no
\* transfer is in progress have a task that is due, whatever has been stopped, flushed,
\* aborted or closed since they were queued.
THEOREM NoStallCorrect == Spec => []NoStall
<1>1. Init => Awake
  BY DEF Init, Awake
<1>2. Spec => []Awake
  BY <1>1, Invariance, NextAwake, PTL DEF Spec
<1>3. IInv /\ Awake => NoStall
  <2> SUFFICES ASSUME IInv, Awake PROVE NoStall
    OBVIOUS
  <2>1. DOMAIN ready = 1..Len(ready)
    BY DEF IInv, TypeOK
  <2>2. IsReady("transferTask") <=> Has(ready, "transferTask")
    BY <2>1 DEF IsReady, Has
  <2> QED BY <2>2 DEF NoStall, Awake
<1> QED BY <1>2, <1>3, Invariance, PTL

-----------------------------------------------------------------------------
(* The numbers of the buffers *)

\* The numbers of s go on from a.
Follows(s, a) == \A i \in 1..Len(s) : s[i] = a + i

\* The queue has the buffers after the a-th, up to the last that was filled as long as the
\* encoder runs; the client has received the a-th, and the next one if the callback of
\* the write is due.  Once the socket is not open it receives none.
NumberedFrom(a) ==
    /\ Follows(queue, a)
    /\ a + Len(queue) <= produced
    /\ encoding => a + Len(queue) = produced
    /\ socket = "open" /\ (encoding \/ queue # <<>>) =>
         received = IF Has(ready, "written") THEN a + 1 ELSE a

Numbers ==
    /\ transferring => queue # <<>>
    /\ session = "none" => produced = 0 /\ received = 0
    /\ \E a \in Nat : NumberedFrom(a)

\* A connection that is being removed was closed, and with it the encoder was stopped.
Ends ==
    /\ Has(ready, "onStop") \/ Has(ready, "remove") => connection \in {"closed", "removed"}
    /\ connection \in {"closed", "removed"} => ~encoding

\* The handlers of tasks, of an aborted read and of an aborted write are no others.
LEMMA OnlyThese ==
    ASSUME NEW h
    PROVE  /\ h # "transferTask" => \A n \in Nat : ~Has(Tasks(n), h)
           /\ h # "onData" => ~Has(AbortedRead, h)
           /\ h # "written" => ~Has(AbortedWrite, h)
<1>1. ASSUME NEW n \in Nat, h # "transferTask" PROVE ~Has(Tasks(n), h)
  <2> DEFINE t == Tasks(n)
  <2>1. Len(t) = n /\ \A i \in 1..n : t[i] = Handler("transferTask")
    BY DEF Tasks
  <2>2. Handler("transferTask").handler = "transferTask"
    BY HandlerKinds
  <2> HIDE DEF t
  <2>3. ~Has(t, h)
    BY <1>1, <2>1, <2>2 DEF Has
  <2> QED BY <2>3 DEF t
<1>2. ASSUME NEW k \in {"onData", "written"}, h # k
      PROVE  ~Has(<<Handler(k)>>, h)
  <2> DEFINE x == Handler(k)
  <2>1. x \in Handlers /\ x.handler = k
    BY HandlerKinds
  <2> HIDE DEF x
  <2>2. ~Has(<<x>>, h)
    BY <1>2, <2>1, Single
  <2> QED BY <2>2 DEF x
<1>3. h # "onData" => ~Has(AbortedRead, h)
  BY <1>2, Empty, Zenon DEF AbortedRead
<1>4. h # "written" => ~Has(AbortedWrite, h)
  BY <1>2, Empty, Zenon DEF AbortedWrite
<1> QED BY <1>1, <1>3, <1>4

\* flush submits an aborted read and its callback, besides what it is given.
LEMMA FlushHandlers ==
    ASSUME NEW callback \in Callbacks,
           NEW q, NEW rest \in Seq(Handlers), NEW after \in Seq(Handlers),
           Flush(callback, q, rest, after),
           NEW h, h \notin {"onData", "callback"}
    PROVE  Has(ready', h) <=> Has(rest, h) \/ Has(after, h)
<1>1. CASE ready' = rest \o after
  <2> DEFINE w == rest \o after
  <2>1. Has(w, h) <=> Has(rest, h) \/ Has(after, h)
    BY Concat
  <2> HIDE DEF w
  <2>2. ready' = w
    BY <1>1 DEF w
  <2> QED BY <2>1, <2>2
<1>2. CASE ready' = rest \o AbortedRead
                      \o <<[handler |-> "callback", callback |-> callback]>> \o after
  <2> DEFINE x == [handler |-> "callback", callback |-> callback]
             y == <<x>>
             r == rest \o AbortedRead
             v == r \o y
             w == v \o after
  <2>1. x \in Handlers /\ x.handler = "callback"
    BY HandlerKinds
  <2>2. ready' = w
    BY <1>2
  <2> HIDE DEF x
  <2>3. y \in Seq(Handlers) /\ ~Has(y, h)
    BY <2>1, Single
  <2> HIDE DEF y
  <2>4. r \in Seq(Handlers) /\ (Has(r, h) <=> Has(rest, h))
    BY AbortedReadHas, OnlyThese, Concat
  <2> HIDE DEF r
  <2>5. v \in Seq(Handlers) /\ (Has(v, h) <=> Has(rest, h))
    BY <2>3, <2>4, Concat
  <2> HIDE DEF v
  <2>6. Has(w, h) <=> Has(rest, h) \/ Has(after, h)
    BY <2>5, Concat
  <2> HIDE DEF w
  <2> QED BY <2>2, <2>6
<1> QED BY <1>1, <1>2 DEF Flush, Finish

\* stop submits tasks besides.
LEMMA StopHandlers ==
    ASSUME IInv, NEW callback \in Callbacks,
           NEW rest \in Seq(Handlers), NEW after \in Seq(Handlers),
           Stop(callback, rest, after),
           NEW h, h \notin {"onData", "callback", "transferTask"}
    PROVE  Has(ready', h) <=> Has(rest, h) \/ Has(after, h)
<1>1. PICK n \in Nat : Flush(callback, Pushed(n), rest \o Tasks(Fitting(n)), after)
  <2>1. \A n \in 0..MaxTail : n \in Nat
    OBVIOUS
  <2>2. 0 \in Nat
    OBVIOUS
  <2> QED BY <2>1, <2>2 DEF Stop
<1> DEFINE t == Tasks(Fitting(n))
           w == rest \o t
<1>2. t \in Seq(Handlers) /\ ~Has(t, h)
  BY PushedFacts, TasksHave, OnlyThese DEF IInv
<1>3. Flush(callback, Pushed(n), w, after)
  BY <1>1
<1> HIDE DEF t
<1>4. w \in Seq(Handlers) /\ (Has(w, h) <=> Has(rest, h))
  BY <1>2, Concat
<1> HIDE DEF w
<1> QED BY <1>3, <1>4, FlushHandlers

\* What is appended to a sequence follows it.
LEMMA Catenation ==
    ASSUME NEW s \in Seq(Nat), NEW t \in Seq(Nat)
    PROVE  /\ s \o t \in Seq(Nat) /\ Len(s \o t) = Len(s) + Len(t)
           /\ \A i \in 1..Len(s) : (s \o t)[i] = s[i]
           /\ \A i \in (Len(s) + 1)..(Len(s) + Len(t)) : (s \o t)[i] = t[i - Len(s)]
OBVIOUS

\* Buffers that are added go on where the numbers end.
LEMMA Extended ==
    ASSUME NEW s \in Seq(Nat), NEW a \in Nat, NEW k \in Nat, Follows(s, a)
    PROVE  LET q == s \o [i \in 1..k |-> a + Len(s) + i] IN
           q \in Seq(Nat) /\ Len(q) = Len(s) + k /\ Follows(q, a)
<1> DEFINE m == Len(s)
           t == [i \in 1..k |-> a + m + i]
           q == s \o t
<1>1. t \in Seq(Nat) /\ Len(t) = k /\ \A i \in 1..k : t[i] = a + m + i
  OBVIOUS
<1>2. m \in Nat
  OBVIOUS
<1> HIDE DEF t
<1>3. /\ q \in Seq(Nat) /\ Len(q) = m + k
      /\ \A i \in 1..m : q[i] = s[i]
      /\ \A i \in (m + 1)..(m + k) : q[i] = t[i - m]
  BY <1>1, Catenation
<1> HIDE DEF q
<1>4. ASSUME NEW i \in 1..(m + k) PROVE q[i] = a + i
  <2>1. CASE i \in 1..m
    BY <1>3, <2>1 DEF Follows
  <2>2. CASE i \notin 1..m
    <3> HIDE DEF m
    <3>1. i \in (m + 1)..(m + k) /\ i - m \in 1..k /\ m + (i - m) = i
      BY <1>2, <2>2
    <3>2. q[i] = a + m + (i - m)
      BY <1>1, <1>3, <3>1
    <3>3. a + m + (i - m) = a + i
      BY <1>2, <3>1
    <3> QED BY <3>2, <3>3
  <2> QED BY <2>1, <2>2
<1>5. Follows(q, a)
  <2> HIDE DEF m
  <2> QED BY <1>3, <1>4 DEF Follows
<1> QED BY <1>3, <1>5 DEF q, t

\* The buffer that is released is the first number.
LEMMA Shortened ==
    ASSUME NEW s \in Seq(Nat), s # <<>>, NEW a \in Nat, Follows(s, a)
    PROVE  /\ Head(s) = a + 1
           /\ Tail(s) \in Seq(Nat) /\ Len(Tail(s)) + 1 = Len(s)
           /\ Follows(Tail(s), a + 1)
<1>1. /\ Len(s) \in Nat /\ 1 \in 1..Len(s) /\ Head(s) = s[1]
      /\ Tail(s) \in Seq(Nat) /\ Len(Tail(s)) + 1 = Len(s)
      /\ \A i \in 1..Len(Tail(s)) : i + 1 \in 1..Len(s) /\ Tail(s)[i] = s[i + 1]
  OBVIOUS
<1> DEFINE t == Tail(s)
<1> HIDE DEF t
<1>2. Follows(t, a + 1)
  <2> SUFFICES ASSUME NEW i \in 1..Len(t) PROVE t[i] = (a + 1) + i
    BY DEF Follows
  <2>1. t[i] = a + (i + 1)
    BY <1>1 DEF Follows, t
  <2> QED BY <2>1
<1>3. Head(s) = a + 1
  BY <1>1 DEF Follows
<1> QED BY <1>1, <1>2, <1>3 DEF t

\* What the encoder adds: consecutive numbers, all there are if the pool has room.
LEMMA PushedNumbers ==
    ASSUME TypeOK, NEW a \in Nat, NumberedFrom(a), NEW n \in Nat, n = 0 \/ encoding
    PROVE  LET q == Pushed(n) IN
           /\ q \in Seq(Nat) /\ Follows(q, a)
           /\ a + Len(q) <= produced + n
           /\ encoding /\ n <= Available => a + Len(q) = produced + n
           /\ queue # <<>> => q # <<>>
           /\ ~encoding => q = queue
<1> DEFINE q == Pushed(n)
           k == Fitting(n)
           m == Len(queue)
<1>1. queue \in Seq(Nat) /\ produced \in Nat /\ m \in Nat /\ Follows(queue, a)
  BY DEF TypeOK, NumberedFrom
<1>2. k \in Nat /\ k <= n /\ (n <= Available => k = n)
  <2>1. Available \in Nat
    BY PoolAssumption DEF TypeOK, Available
  <2> QED BY <2>1 DEF Fitting
<1>3. a + m <= produced /\ (encoding => a + m = produced)
  BY DEF NumberedFrom
<1>4. q = queue \o [i \in 1..k |-> produced + i]
  BY DEF Pushed
<1> HIDE DEF q, k
<1>5. CASE encoding
  <2>1. q = queue \o [i \in 1..k |-> a + m + i]
    BY <1>3, <1>4, <1>5
  <2> DEFINE r == queue \o [i \in 1..k |-> a + m + i]
  <2>2. r \in Seq(Nat) /\ Len(r) = m + k /\ Follows(r, a)
    BY <1>1, <1>2, Extended
  <2> HIDE DEF r, m
  <2>3. q \in Seq(Nat) /\ Len(q) = m + k /\ Follows(q, a)
    BY <2>1, <2>2 DEF r, m
  <2>4. queue # <<>> => q # <<>>
    <3>1. queue # <<>> => m # 0
      BY <1>1 DEF m
    <3> QED BY <1>1, <1>2, <2>3, <3>1
  <2>5. a + Len(q) <= produced + n /\ (n <= Available => a + Len(q) = produced + n)
    BY <1>1, <1>2, <1>3, <1>5, <2>3
  <2> QED BY <1>5, <2>3, <2>4, <2>5 DEF q
<1>6. CASE ~encoding
  <2>1. n = 0 /\ k = 0
    BY <1>2, <1>6
  <2>2. q = queue
    BY <1>1, <1>4, <2>1
  <2> QED BY <1>1, <1>3, <1>6, <2>1, <2>2 DEF q
<1> QED BY <1>5, <1>6

\* A step after which the queue is empty and the encoder stopped.
LEMMA NumbersDiscarded ==
    ASSUME produced' \in Nat, queue' = <<>>, ~transferring', ~encoding',
           session' # "none"
    PROVE  Numbers'
<1>1. PICK b \in Nat : b = produced'
  OBVIOUS
<1>2. Follows(queue', b)
  BY DEF Follows
<1>3. b + Len(queue') = b /\ b + Len(queue') <= b
  <2>1. Len(queue') = 0
    <3>1. Len(<<>>) = 0
      OBVIOUS
    <3> QED BY <3>1
  <2> QED BY <2>1
<1>4. b + Len(queue') <= produced' /\ b + Len(queue') = produced'
  BY <1>1, <1>3
<1>5. NumberedFrom(b)'
  BY <1>2, <1>4, Zenon DEF NumberedFrom
<1> QED BY <1>5 DEF Numbers

\* flush leaves the numbers of the queue it is given, or discards them with the socket.
LEMMA FlushNumbers ==
    ASSUME NEW callback, NEW q \in Seq(Nat), NEW rest, NEW after,
           NEW a \in Nat, Follows(q, a), a + Len(q) <= produced', produced' \in Nat,
           socket = "open" /\ q # <<>> =>
               received = IF Has(ready, "written") THEN a + 1 ELSE a,
           transferring => q # <<>>,
           Flush(callback, q, rest, after),
           encoding' = FALSE, received' = received, session' # "none",
           Has(ready', "written") <=> Has(ready, "written")
    PROVE  Numbers'
<1>1. transferring' = transferring
  BY DEF Flush
<1>2. CASE queue' = q /\ socket' = socket
  <2>1. NumberedFrom(a)'
    BY <1>2 DEF NumberedFrom
  <2> QED BY <1>1, <1>2, <2>1 DEF Numbers
<1>3. CASE queue' = <<>> /\ socket' = "closed" /\ ~transferring
  BY <1>1, <1>3, NumbersDiscarded
<1> QED BY <1>2, <1>3 DEF Flush, Finish

\* So does stop, whose encoder fills its last buffers.
LEMMA StopNumbers ==
    ASSUME IInv, Numbers, NEW callback \in Callbacks,
           NEW rest \in Seq(Handlers), NEW after \in Seq(Handlers),
           Stop(callback, rest, after),
           Has(rest, "written") <=> Has(ready, "written"), ~Has(after, "written"),
           received' = received, session' # "none"
    PROVE  Numbers'
<1>1. PICK n \in Nat : /\ produced' = produced + n
                       /\ n = 0 \/ encoding
                       /\ Flush(callback, Pushed(n), rest \o Tasks(Fitting(n)), after)
  <2>1. \A n \in 0..MaxTail : n \in Nat
    OBVIOUS
  <2>2. 0 \in Nat
    OBVIOUS
  <2> QED BY <2>1, <2>2 DEF Stop
<1>2. PICK a \in Nat : NumberedFrom(a)
  BY DEF Numbers
<1> DEFINE q == Pushed(n)
<1>3. TypeOK /\ produced' \in Nat
  BY <1>1 DEF IInv, TypeOK
<1>4. /\ q \in Seq(Nat) /\ Follows(q, a)
      /\ a + Len(q) <= produced + n
      /\ queue # <<>> => q # <<>>
      /\ ~encoding => q = queue
  BY <1>1, <1>2, <1>3, PushedNumbers
<1>5. Flush(callback, q, rest \o Tasks(Fitting(n)), after)
  BY <1>1
<1> HIDE DEF q
<1>6. socket = "open" /\ q # <<>> => received = IF Has(ready, "written") THEN a + 1 ELSE a
  BY <1>2, <1>4 DEF NumberedFrom
<1>7. transferring => q # <<>>
  BY <1>4 DEF Numbers
<1>8. Has(ready', "written") <=> Has(ready, "written")
  BY StopHandlers
<1>9. encoding' = FALSE /\ a + Len(q) <= produced'
  BY <1>1, <1>4 DEF Stop
<1> QED BY <1>3, <1>4, <1>5, <1>6, <1>7, <1>8, <1>9, FlushNumbers

\* Steps that leave the queue, the encoder and what is received.
LEMMA NumbersKept ==
    ASSUME Numbers,
           UNCHANGED <<queue, transferring, encoding, produced, received>>,
           session' = "none" => session = "none",
           socket' = "open" => socket = "open",
           Has(ready', "written") <=> Has(ready, "written")
    PROVE  Numbers'
<1>1. PICK a \in Nat : NumberedFrom(a)
  BY DEF Numbers
<1>2. NumberedFrom(a)'
  BY <1>1 DEF NumberedFrom
<1> QED BY <1>2 DEF Numbers

-----------------------------------------------------------------------------
(* The numbers, action by action *)

\* The hypotheses under which no buffer is skipped: what the encoder emits at once has
\* room in the pool when it starts, and in the part that is reserved when it runs.
NoneSkipped == MaxEncoded <= Reserve /\ MaxTail <= PoolSize

\* Buffers are submitted with their tasks: no callback of a write is among them.
LEMMA TasksAdded ==
    ASSUME IInv, NEW n \in Nat
    PROVE  Has(ready \o Tasks(Fitting(n)), "written") <=> Has(ready, "written")
<1> DEFINE t == Tasks(Fitting(n))
<1>1. t \in Seq(Handlers) /\ ~Has(t, "written")
  BY PushedFacts, TasksHave DEF IInv
<1>2. ready \in Seq(Handlers)
  BY DEF IInv, TypeOK
<1> HIDE DEF t
<1>3. Has(ready \o t, "written") <=> Has(ready, "written")
  BY <1>1, <1>2, Concat
<1> QED BY <1>3 DEF t

\* The first buffers of a session are those that the encoder emits when it starts.
LEMMA RequestNumbers ==
    ASSUME NoneSkipped, IInv, Numbers, NEW known \in BOOLEAN, Request(known)
    PROVE  Numbers'
<1>1. /\ queue = <<>> /\ ~transferring /\ ~encoding /\ session = "none"
      /\ ~Has(ready, "written")
  BY DEF Request, IInv, Life, Idle, Transfer
<1>2. produced = 0 /\ received = 0
  BY <1>1 DEF Numbers
<1>3. PICK n \in 0..MaxTail :
        /\ produced' = n
        /\ IF known
             THEN /\ session' = "alive" /\ encoding' = TRUE
                  /\ queue' = Pushed(n)
                  /\ ready' = ready \o Tasks(Fitting(n))
             ELSE session' = "gone" /\ UNCHANGED <<encoding, queue>>
  BY DEF Request
<1>4. n \in Nat /\ n <= PoolSize /\ UNCHANGED <<transferring, received>>
  BY PoolAssumption, EncoderAssumption DEF Request, NoneSkipped
<1>5. CASE ~known
  BY <1>1, <1>3, <1>4, <1>5, NumbersDiscarded
<1>6. CASE known
  <2>1. ~Has(ready', "written")
    BY <1>1, <1>3, <1>4, <1>6, TasksAdded, Zenon
  <2>2. Available = PoolSize
    <3>1. Len(queue) = 0
      BY <1>1
    <3> QED BY <3>1, PoolAssumption DEF Available
  <2>3. Fitting(n) = n
    BY <1>4, <2>2, PoolAssumption DEF Fitting
  <2>4. queue' = <<>> \o [i \in 1..n |-> 0 + i]
    BY <1>1, <1>2, <1>3, <1>6, <2>3 DEF Pushed
  <2>5. PICK s \in Seq(Nat) : s = <<>>
    <3>1. <<>> \in Seq(Nat)
      OBVIOUS
    <3> QED BY <3>1, Zenon
  <2>6. Len(s) = 0 /\ Follows(s, 0)
    BY <2>5 DEF Follows
  <2> DEFINE q == s \o [i \in 1..n |-> 0 + Len(s) + i]
  <2>7. q \in Seq(Nat) /\ Len(q) = Len(s) + n /\ Follows(q, 0)
    <3>1. 0 \in Nat
      OBVIOUS
    <3> QED BY <1>4, <2>6, <3>1, Extended
  <2>10. queue' = q
    BY <2>4, <2>5, <2>6
  <2> HIDE DEF q
  <2>8. Len(queue') = n /\ Follows(queue', 0)
    BY <1>4, <2>6, <2>7, <2>10
  <2>9. NumberedFrom(0)'
    BY <1>2, <1>3, <1>4, <2>1, <2>8 DEF NumberedFrom
  <2> QED BY <1>1, <1>3, <1>4, <1>6, <2>9 DEF Numbers
<1> QED BY <1>5, <1>6

\* Those of a chunk that is accepted have room.
LEMMA ConsumeChunkNumbers ==
    ASSUME NoneSkipped, IInv, Numbers, ConsumeChunk
    PROVE  Numbers'
<1>1. PICK n \in 0..MaxEncoded : /\ produced' = produced + n
                                 /\ queue' = Pushed(n)
                                 /\ ready' = ready \o Tasks(Fitting(n))
  BY DEF ConsumeChunk
<1>2. /\ encoding /\ session # "none"
      /\ UNCHANGED <<session, encoding, transferring, socket, received>>
  BY DEF ConsumeChunk, Accepts, networkVars
<1>3. n \in Nat /\ n <= Available
  <2>1. Available \in Nat
    BY PoolAssumption DEF IInv, TypeOK, Available
  <2> QED BY <2>1, PoolAssumption, EncoderAssumption DEF NoneSkipped, ConsumeChunk, Accepts
<1>4. PICK a \in Nat : NumberedFrom(a)
  BY DEF Numbers
<1>5. /\ Follows(queue', a) /\ a + Len(queue') = produced'
      /\ queue # <<>> => queue' # <<>>
  <2>1. TypeOK
    BY DEF IInv
  <2> QED BY <1>1, <1>2, <1>3, <1>4, <2>1, PushedNumbers
<1>6. Has(ready', "written") <=> Has(ready, "written")
  BY <1>1, <1>3, TasksAdded, Zenon
<1>7. NumberedFrom(a)'
  <2>1. a + Len(queue') <= produced'
    <3>1. Len(queue') \in Nat
      BY <1>1, <1>3, PushedFacts DEF IInv
    <3> QED BY <1>5, <3>1
  <2> QED BY <1>2, <1>4, <1>5, <1>6, <2>1 DEF NumberedFrom
<1> QED BY <1>2, <1>5, <1>7 DEF Numbers

\* The buffer that was written, or could not be, is released.
LEMMA ReleasedNumbers ==
    ASSUME IInv, Numbers, queue # <<>>, queue' = Tail(queue),
           UNCHANGED <<session, encoding, produced, received, socket>>,
           ~transferring', session # "none",
           socket = "open" => Has(ready, "written"),
           ~Has(ready', "written")
    PROVE  Numbers'
<1>1. PICK a \in Nat : NumberedFrom(a)
  BY DEF Numbers
<1>2. queue \in Seq(Nat) /\ produced \in Nat
  BY DEF IInv, TypeOK
<1>3. Follows(queue', a + 1) /\ Len(queue') \in Nat /\ Len(queue') + 1 = Len(queue)
  BY <1>1, <1>2, Shortened DEF NumberedFrom
<1>4. a + 1 \in Nat /\ (a + 1) + Len(queue') = a + Len(queue)
  BY <1>3
<1>5. NumberedFrom(a + 1)'
  BY <1>1, <1>3, <1>4 DEF NumberedFrom
<1> QED BY <1>4, <1>5 DEF Numbers

\* A write that ends delivers the buffer after the last received, or breaks the socket.
LEMMA WriteEndsNumbers ==
    ASSUME IInv, Numbers, WriteEnds
    PROVE  /\ Numbers'
           /\ \/ UNCHANGED received
              \/ received < produced /\ received' = received + 1
<1> DEFINE x == Handler("written")
<1>1. x \in Handlers /\ x.handler = "written"
  BY HandlerKinds
<1>2. /\ writing # 0 /\ ready' = Append(ready, x)
      /\ UNCHANGED <<session, encoding, transferring, queue, produced>>
      /\ \/ socket = "open" /\ received' = writing
         \/ socket' = "broken" /\ UNCHANGED received
  BY DEF WriteEnds, sessionVars
<1>3. /\ queue # <<>> /\ writing = Head(queue) /\ ~Has(ready, "written")
      /\ queue \in Seq(Nat) /\ produced \in Nat
  BY <1>2 DEF IInv, TypeOK, WritesFromQueue, Transfer
<1> HIDE DEF x
<1>4. Has(ready', "written")
  BY <1>1, <1>2, OneMore
<1>5. PICK a \in Nat : NumberedFrom(a)
  BY DEF Numbers
<1>6. Head(queue) = a + 1 /\ a < produced
  <2>1. Head(queue) = a + 1 /\ Len(queue) \in Nat \ {0}
    BY <1>3, <1>5, Shortened DEF NumberedFrom
  <2> QED BY <1>3, <1>5, <2>1 DEF NumberedFrom
<1>7. CASE socket = "open" /\ received' = writing
  <2>1. received = a /\ received' = a + 1
    BY <1>3, <1>5, <1>6, <1>7 DEF NumberedFrom
  <2>2. NumberedFrom(a)'
    BY <1>2, <1>4, <1>5, <2>1 DEF NumberedFrom
  <2> QED BY <1>2, <1>6, <2>1, <2>2 DEF Numbers
<1>8. CASE socket' = "broken" /\ UNCHANGED received
  <2>1. NumberedFrom(a)'
    BY <1>2, <1>5, <1>8 DEF NumberedFrom
  <2> QED BY <1>2, <1>8, <2>1 DEF Numbers
<1> QED BY <1>2, <1>7, <1>8

\* The event loop's handlers of transfers.
LEMMA TransfersNumbers ==
    ASSUME IInv, Numbers, Transfers
    PROVE  Numbers'
<1>1. CASE TransferTask
  <2>1. /\ ready # <<>> /\ Head(ready).handler = "transferTask" /\ ready' = Tail(ready)
        /\ queue # <<>> /\ transferring' = TRUE
        /\ UNCHANGED <<session, encoding, queue, socket, produced, received>>
    BY <1>1 DEF TransferTask, Runs
  <2>2. Has(ready', "written") <=> Has(ready, "written")
    BY <2>1, Taken
  <2>3. PICK a \in Nat : NumberedFrom(a)
    BY DEF Numbers
  <2>4. NumberedFrom(a)'
    BY <2>1, <2>2, <2>3 DEF NumberedFrom
  <2> QED BY <2>1, <2>4 DEF Numbers
<1>2. CASE NothingToTransfer
  <2>1. /\ ready # <<>> /\ Head(ready).handler = "transferTask" /\ ready' = Tail(ready)
        /\ UNCHANGED <<session, encoding, transferring, queue, socket, produced, received>>
    BY <1>2 DEF NothingToTransfer, Runs, sessionVars, networkVars
  <2>2. Has(ready', "written") <=> Has(ready, "written")
    BY <2>1, Taken
  <2> QED BY <2>1, <2>2, NumbersKept
<1>3. CASE TransferToClosed
  <2>1. /\ ready # <<>> /\ Head(ready).handler = "transferTask"
        /\ ready' = Append(Tail(ready), Handler("transferTask"))
        /\ session = "alive" /\ socket = "closed"
        /\ queue # <<>> /\ queue' = Tail(queue) /\ ~transferring
        /\ UNCHANGED <<session, encoding, transferring, socket, produced, received>>
    BY <1>3 DEF TransferToClosed, Runs, networkVars
  <2>2. ~Has(ready', "written")
    BY <2>1, Replaced DEF IInv, Transfer
  <2> QED BY <2>1, <2>2, ReleasedNumbers
<1>4. CASE Written
  <2>1. /\ ready # <<>> /\ Head(ready).handler = "written"
        /\ ready' = Append(Tail(ready), Handler("transferTask"))
        /\ session = "alive" /\ transferring' = FALSE
        /\ queue' = IF queue = <<>> THEN queue ELSE Tail(queue)
        /\ UNCHANGED <<session, encoding, socket, produced, received>>
    BY <1>4 DEF Written, Runs, networkVars
  <2>2. ~Has(ready', "written") /\ Has(ready, "written")
    BY <2>1, Replaced, Taken
  <2>3. queue # <<>>
    BY <2>2 DEF IInv, Transfer, Numbers
  <2> QED BY <2>1, <2>2, <2>3, ReleasedNumbers
<1> QED BY <1>1, <1>2, <1>3, <1>4 DEF Transfers

\* The closes, which stop the session or delete one that does not run.
LEMMA ClosesNumbers ==
    ASSUME IInv, Numbers, Closes
    PROVE  Numbers'
<1>1. CASE OnCloseRunning
  <2>1. /\ ready # <<>> /\ Head(ready).handler = "onData"
        /\ Stop("erase", Tail(ready), <<Handler("onStop")>>)
        /\ session = "alive" /\ UNCHANGED <<session, received>>
    BY <1>1 DEF OnCloseRunning, Runs
  <2> DEFINE x == Handler("onStop")
  <2>2. x \in Handlers /\ x.handler = "onStop"
    BY HandlerKinds
  <2> HIDE DEF x
  <2>3. <<x>> \in Seq(Handlers) /\ ~Has(<<x>>, "written")
    BY <2>2, Single
  <2>4. Tail(ready) \in Seq(Handlers) /\ (Has(Tail(ready), "written") <=> Has(ready, "written"))
    BY <2>1, Taken
  <2>5. Stop("erase", Tail(ready), <<x>>) /\ "erase" \in Callbacks
    BY <2>1 DEF x, Callbacks
  <2> QED BY <2>1, <2>3, <2>4, <2>5, StopNumbers
<1>2. CASE OnCloseStopped
  <2>1. /\ ready # <<>> /\ Head(ready).handler = "onData"
        /\ ready' = Append(Tail(ready), Handler("onStop"))
        /\ UNCHANGED <<socket, produced, received>>
    BY <1>2 DEF OnCloseStopped, Runs
  <2>2. Has(ready', "written") <=> Has(ready, "written")
    BY <2>1, Replaced
  <2>3. CASE session = "alive"
    <3>1. Erase
      BY <1>2, <2>3 DEF OnCloseStopped
    <3>2. produced' \in Nat
      BY <2>1 DEF IInv, TypeOK
    <3> QED BY <3>1, <3>2, NumbersDiscarded DEF Erase
  <2>4. CASE session # "alive"
    <3>1. UNCHANGED <<session, encoding, transferring, queue>>
      BY <1>2, <2>4 DEF OnCloseStopped, sessionVars
    <3> QED BY <2>1, <2>2, <3>1, NumbersKept
  <2> QED BY <2>3, <2>4
<1>3. CASE OnStop
  <2>1. /\ ready # <<>> /\ Head(ready).handler = "onStop"
        /\ ready' = Append(Tail(ready), Handler("remove"))
        /\ UNCHANGED <<session, encoding, transferring, queue, socket, produced, received>>
    BY <1>3 DEF OnStop, Runs, sessionVars, networkVars
  <2>2. Has(ready', "written") <=> Has(ready, "written")
    BY <2>1, Replaced
  <2> QED BY <2>1, <2>2, NumbersKept
<1>4. CASE Remove
  <2>1. /\ socket' = "closed"
        /\ UNCHANGED <<session, encoding, transferring, queue, produced, received>>
    BY <1>4 DEF Remove, sessionVars
  <2>2. PICK a \in Nat : NumberedFrom(a)
    BY DEF Numbers
  <2>3. NumberedFrom(a)'
    BY <2>1, <2>2 DEF NumberedFrom
  <2> QED BY <2>1, <2>3 DEF Numbers
<1> QED BY <1>1, <1>2, <1>3, <1>4 DEF Closes

\* No step disturbs the numbers.
LEMMA NextNumbers ==
    ASSUME NoneSkipped, IInv, Numbers, [Next]_vars
    PROVE  Numbers'
<1>1. ASSUME NEW known \in BOOLEAN, Request(known) PROVE Numbers'
  BY <1>1, RequestNumbers
<1>2. CASE ConsumeChunk
  BY <1>2, ConsumeChunkNumbers
<1>3. CASE ConsumeLastChunk \/ StopSession
  <2>1. /\ Stop("none", ready, <<>>) /\ session = "alive" /\ UNCHANGED <<session, received>>
        /\ "none" \in Callbacks /\ ready \in Seq(Handlers)
    BY <1>3 DEF ConsumeLastChunk, StopSession, Accepts, Callbacks, IInv, TypeOK
  <2> QED BY <2>1, Empty, StopNumbers
<1>4. CASE ServerStop
  <2>1. /\ socket' = "closed"
        /\ UNCHANGED <<session, encoding, transferring, queue, produced, received>>
    BY <1>4 DEF ServerStop, CloseSocket, sessionVars
  <2>2. PICK a \in Nat : NumberedFrom(a)
    BY DEF Numbers
  <2>3. NumberedFrom(a)'
    BY <2>1, <2>2 DEF NumberedFrom
  <2> QED BY <2>1, <2>3 DEF Numbers
<1>5. CASE PeerCloses
  <2> DEFINE x == Handler("onData")
  <2>1. x \in Handlers /\ x.handler = "onData"
    BY HandlerKinds
  <2>2. /\ ready' = Append(ready, x) /\ socket' \in {socket, "broken"}
        /\ UNCHANGED <<session, encoding, transferring, queue, produced, received>>
    BY <1>5 DEF PeerCloses, sessionVars
  <2> HIDE DEF x
  <2>3. Has(ready', "written") <=> Has(ready, "written")
    BY <2>1, <2>2, OneMore
  <2> QED BY <2>2, <2>3, NumbersKept
<1>6. CASE WriteEnds
  BY <1>6, WriteEndsNumbers
<1>7. CASE Expire
  <2> DEFINE x == [handler |-> "flush", callback |-> Head(timers)]
  <2>1. timers # <<>> => x \in Handlers /\ x.handler = "flush"
    <3>1. timers # <<>> => Head(timers) \in Callbacks
      BY DEF IInv, TypeOK
    <3> QED BY <3>1, HandlerKinds
  <2>2. /\ timers # <<>> /\ ready' = Append(ready, x)
        /\ UNCHANGED <<session, encoding, transferring, queue, socket, produced, received>>
    BY <1>7 DEF Expire, networkVars
  <2> HIDE DEF x
  <2>3. Has(ready', "written") <=> Has(ready, "written")
    BY <2>1, <2>2, OneMore
  <2> QED BY <2>2, <2>3, NumbersKept
<1>8. CASE Transfers
  BY <1>8, TransfersNumbers
<1>9. CASE Closes
  BY <1>9, ClosesNumbers
<1>10. CASE FlushAgain
  <2>1. /\ ready # <<>> /\ Head(ready).handler = "flush" /\ session = "alive"
        /\ Flush(Head(ready).callback, queue, Tail(ready), <<>>)
        /\ UNCHANGED <<session, encoding, produced, received>>
    BY <1>10 DEF FlushAgain, Runs
  <2>2. /\ Head(ready) \in Handlers /\ Tail(ready) \in Seq(Handlers)
        /\ Has(Tail(ready), "written") <=> Has(ready, "written")
        /\ Has(ready, "flush")
    BY <2>1, Taken
  <2>3. Head(ready).callback \in Callbacks
    BY <2>2 DEF Handlers, Callbacks
  <2>4. encoding' = FALSE
    BY <2>1, <2>2 DEF IInv, TypeOK, Unflushed
  <2>5. Has(ready', "written") <=> Has(ready, "written")
    BY <2>1, <2>2, <2>3, Empty, FlushHandlers
  <2>6. PICK a \in Nat : NumberedFrom(a)
    BY DEF Numbers
  <2>7. /\ queue \in Seq(Nat) /\ produced' \in Nat
        /\ Follows(queue, a) /\ a + Len(queue) <= produced'
        /\ socket = "open" /\ queue # <<>> =>
             received = IF Has(ready, "written") THEN a + 1 ELSE a
        /\ transferring => queue # <<>>
    BY <2>1, <2>6 DEF IInv, TypeOK, NumberedFrom, Numbers
  <2> QED BY <2>1, <2>4, <2>5, <2>7, FlushNumbers
<1>11. CASE Callback
  <2>1. /\ ready # <<>> /\ Head(ready).handler = "callback" /\ ready' = Tail(ready)
        /\ UNCHANGED <<socket, produced, received>>
    BY <1>11 DEF Callback, Runs, networkVars
  <2>2. Has(ready', "written") <=> Has(ready, "written")
    BY <2>1, Taken
  <2>3. CASE Erase
    <3>1. produced' \in Nat
      BY <2>1 DEF IInv, TypeOK
    <3> QED BY <2>3, <3>1, NumbersDiscarded DEF Erase
  <2>4. CASE UNCHANGED sessionVars
    <3>1. UNCHANGED <<session, encoding, transferring, queue>>
      BY <2>4 DEF sessionVars
    <3> QED BY <2>1, <2>2, <3>1, NumbersKept
  <2> QED BY <1>11, <2>3, <2>4 DEF Callback
<1>12. CASE UseOfDeleted \/ TransferToDeleted \/ UNCHANGED vars
  <2>1. UNCHANGED <<session, encoding, transferring, queue, socket, produced, received,
                    ready>>
    BY <1>12 DEF UseOfDeleted, TransferToDeleted, Undefined, vars, sessionVars, networkVars
  <2> QED BY <2>1, NumbersKept
<1> QED BY <1>1, <1>2, <1>3, <1>4, <1>5, <1>6, <1>7, <1>8, <1>9, <1>10, <1>11, <1>12, Zenon
        DEF Next, Run

-----------------------------------------------------------------------------
(* The end of a connection *)

\* What connection.stop() makes of a connection, and what flush does with it.
LEMMA StaysClosed ==
    /\ connection \in {"closed", "removed"} => Stopped = connection /\ Flushed = connection
    /\ connection \in {"open", "failing"} =>
         Stopped \in {"open", "failing"} /\ Flushed \in {"open", "failing"}
BY DEF Stopped, Flushed

\* A connection whose close callback has not run is not about to be removed.
LEMMA EndsKept ==
    ASSUME Ends,
           connection \in {"closed", "removed"} <=> connection' \in {"closed", "removed"},
           connection' \in {"closed", "removed"} => encoding' = encoding \/ ~encoding',
           \A h \in {"onStop", "remove"} : Has(ready', h) => Has(ready, h)
    PROVE  Ends'
BY DEF Ends

\* Nor once it was closed, which the encoder does not survive.
LEMMA EndsReached ==
    ASSUME connection' \in {"closed", "removed"}, ~encoding'
    PROVE  Ends'
BY DEF Ends

\* No step removes a connection before it was closed.
LEMMA NextEnds == ASSUME IInv, Ends, [Next]_vars PROVE Ends'
<1>0. /\ ready \in Seq(Handlers) /\ timers \in Seq(Callbacks)
      /\ connection \in {"open", "failing", "closed", "removed"}
  BY DEF IInv, TypeOK
<1>1. ASSUME NEW k \in Nat, NEW h \in {"onStop", "remove"}
      PROVE  Has(ready \o Tasks(Fitting(k)), h) => Has(ready, h)
  <2> DEFINE t == Tasks(Fitting(k))
  <2>1. t \in Seq(Handlers) /\ ~Has(t, h)
    BY <1>1, PushedFacts, TasksHave, OnlyThese DEF IInv
  <2> HIDE DEF t
  <2>2. Has(ready \o t, h) => Has(ready, h)
    BY <1>0, <2>1, Concat
  <2> QED BY <2>2 DEF t
<1>2. ASSUME NEW s \in Seq(Handlers), NEW h \in {"onStop", "remove"}
      PROVE  LET r == s \o AbortedRead \o AbortedWrite IN Has(r, h) <=> Has(s, h)
  <2> DEFINE r == s \o AbortedRead
  <2>1. r \in Seq(Handlers) /\ (Has(r, h) <=> Has(s, h))
    BY <1>2, AbortedReadHas, OnlyThese, Concat
  <2> HIDE DEF r
  <2>2. Has(r \o AbortedWrite, h) <=> Has(s, h)
    BY <1>2, <2>1, AbortedWriteHas, OnlyThese, Concat
  <2> QED BY <2>2 DEF r
<1>3. ASSUME NEW known \in BOOLEAN, Request(known) PROVE Ends'
  <2>1. PICK n \in 0..MaxTail :
          IF known THEN ready' = ready \o Tasks(Fitting(n)) /\ UNCHANGED connection
                   ELSE /\ ready' = (ready \o Tasks(Fitting(n))) \o AbortedRead \o AbortedWrite
                        /\ connection' = Stopped
    BY <1>3 DEF Request, CloseSocket, networkVars
  <2>2. n \in Nat /\ connection = "open"
    BY <1>3 DEF Request
  <2> DEFINE s == ready \o Tasks(Fitting(n))
  <2>3. s \in Seq(Handlers) /\ \A h \in {"onStop", "remove"} : Has(s, h) => Has(ready, h)
    <3>1. Tasks(Fitting(n)) \in Seq(Handlers)
      BY <2>2, PushedFacts, TasksHave DEF IInv
    <3>2. s \in Seq(Handlers)
      BY <1>0, <3>1, Concat
    <3> QED BY <1>1, <2>2, <3>2
  <2> HIDE DEF s
  <2>4. IF known THEN ready' = s /\ UNCHANGED connection
                 ELSE ready' = s \o AbortedRead \o AbortedWrite /\ connection' = Stopped
    BY <2>1 DEF s
  <2>5. \A h \in {"onStop", "remove"} : Has(ready', h) => Has(ready, h)
    <3>1. CASE known
      BY <2>3, <2>4, <3>1
    <3>2. CASE ~known
      <4> DEFINE r == s \o AbortedRead \o AbortedWrite
      <4>1. \A h \in {"onStop", "remove"} : Has(r, h) <=> Has(s, h)
        BY <1>2, <2>3
      <4> HIDE DEF r
      <4>2. ready' = r
        BY <2>4, <3>2 DEF r
      <4> QED BY <2>3, <4>1, <4>2
    <3> QED BY <3>1, <3>2
  <2>6. connection' \in {"open", "failing"}
    BY <2>2, <2>4, StaysClosed
  <2> QED BY <2>2, <2>5, <2>6, EndsKept
<1>4. CASE ConsumeChunk
  <2>1. PICK n \in 0..MaxEncoded : ready' = ready \o Tasks(Fitting(n))
    BY <1>4 DEF ConsumeChunk
  <2>2. n \in Nat /\ UNCHANGED <<connection, encoding>>
    BY <1>4 DEF ConsumeChunk, networkVars
  <2>3. \A h \in {"onStop", "remove"} : Has(ready', h) => Has(ready, h)
    BY <1>1, <2>1, <2>2, Zenon
  <2> QED BY <2>2, <2>3, EndsKept
<1>5. CASE ConsumeLastChunk \/ StopSession
  <2>1. /\ Stop("none", ready, <<>>) /\ connection' = Flushed
        /\ "none" \in Callbacks /\ encoding' = FALSE
    BY <1>5 DEF ConsumeLastChunk, StopSession, Callbacks, Stop
  <2>2. \A h \in {"onStop", "remove"} : Has(ready', h) => Has(ready, h)
    BY <1>0, <2>1, Empty, StopHandlers
  <2> QED BY <1>0, <2>1, <2>2, StaysClosed, EndsKept
<1>6. CASE ServerStop
  <2> DEFINE r == ready \o AbortedRead \o AbortedWrite
  <2>1. \A h \in {"onStop", "remove"} : Has(r, h) <=> Has(ready, h)
    BY <1>0, <1>2
  <2>2. ready' = r /\ connection' = Stopped /\ UNCHANGED encoding
    BY <1>6 DEF ServerStop, CloseSocket, sessionVars
  <2> HIDE DEF r
  <2>3. \A h \in {"onStop", "remove"} : Has(ready', h) => Has(ready, h)
    BY <2>1, <2>2
  <2> QED BY <1>0, <2>2, <2>3, StaysClosed, EndsKept
<1>7. CASE PeerCloses \/ WriteEnds \/ Expire
  <2>1. PICK x \in Handlers : /\ ready' = Append(ready, x)
                              /\ x.handler \in {"onData", "written", "flush"}
    <3>1. timers # <<>> => Head(timers) \in Callbacks
      BY <1>0
    <3>2. CASE PeerCloses \/ WriteEnds
      BY <3>2, HandlerKinds DEF PeerCloses, WriteEnds
    <3>3. CASE Expire
      <4> DEFINE x == [handler |-> "flush", callback |-> Head(timers)]
      <4>1. x \in Handlers /\ x.handler = "flush"
        BY <3>1, <3>3, HandlerKinds DEF Expire
      <4> QED BY <3>3, <4>1 DEF Expire
    <3> QED BY <1>7, <3>2, <3>3
  <2>2. \A h \in {"onStop", "remove"} : Has(ready', h) => Has(ready, h)
    BY <2>1, OneMore
  <2>3. /\ UNCHANGED encoding
        /\ UNCHANGED connection \/ (connection = "open" /\ connection' = "failing")
    BY <1>7 DEF PeerCloses, WriteEnds, Expire, sessionVars, networkVars
  <2> QED BY <2>2, <2>3, EndsKept
<1>8. CASE Transfers
  <2>1. /\ ready # <<>> /\ Head(ready).handler \in {"transferTask", "written"}
        /\ UNCHANGED <<connection, encoding>>
        /\ \/ ready' = Tail(ready)
           \/ ready' = Append(Tail(ready), Handler("transferTask"))
    BY <1>8 DEF Transfers, TransferTask, NothingToTransfer, TransferToClosed, Written, Runs,
                sessionVars, networkVars
  <2>2. \A h \in {"onStop", "remove"} : Has(Tail(ready), h) <=> Has(ready, h)
    BY <1>0, <2>1, TakeOff
  <2>3. \A h \in {"onStop", "remove"} : Has(ready', h) => Has(ready, h)
    <3>1. Tail(ready) \in Seq(Handlers)
      BY <1>0, <2>1
    <3> DEFINE x == Handler("transferTask")
    <3>2. x \in Handlers /\ x.handler = "transferTask"
      BY HandlerKinds
    <3>3. ready' = Tail(ready) \/ ready' = Append(Tail(ready), x)
      BY <2>1
    <3> HIDE DEF x
    <3>4. \A h \in {"onStop", "remove"} : Has(Append(Tail(ready), x), h) <=> Has(Tail(ready), h)
      BY <3>1, <3>2, AppendOne
    <3> QED BY <2>2, <3>3, <3>4
  <2> QED BY <2>1, <2>3, EndsKept
<1>9. CASE FlushAgain
  <2>1. /\ ready # <<>> /\ Head(ready).handler = "flush"
        /\ Flush(Head(ready).callback, queue, Tail(ready), <<>>)
        /\ connection' = Flushed /\ UNCHANGED encoding
    BY <1>9 DEF FlushAgain, Runs
  <2>2. /\ Head(ready) \in Handlers /\ Tail(ready) \in Seq(Handlers)
        /\ \A h \in {"onStop", "remove"} : Has(Tail(ready), h) <=> Has(ready, h)
    BY <1>0, <2>1, TakeOff
  <2>3. Head(ready).callback \in Callbacks
    BY <2>2 DEF Handlers, Callbacks
  <2>4. \A h \in {"onStop", "remove"} : Has(ready', h) => Has(ready, h)
    BY <2>1, <2>2, <2>3, Empty, FlushHandlers
  <2> QED BY <1>0, <2>1, <2>4, StaysClosed, EndsKept
<1>10. CASE Callback
  <2>1. /\ ready # <<>> /\ Head(ready).handler = "callback" /\ ready' = Tail(ready)
        /\ UNCHANGED connection
        /\ encoding' = FALSE \/ UNCHANGED encoding
    BY <1>10 DEF Callback, Runs, Erase, sessionVars, networkVars
  <2>2. \A h \in {"onStop", "remove"} : Has(ready', h) => Has(ready, h)
    BY <1>0, <2>1, TakeOff
  <2> QED BY <2>1, <2>2, EndsKept
<1>11. CASE OnCloseRunning \/ OnCloseStopped
  <2>1. connection' = "closed"
    BY <1>11 DEF OnCloseRunning, OnCloseStopped
  <2>2. ~encoding'
    BY <1>11, Zenon DEF OnCloseRunning, Stop, OnCloseStopped, Erase, sessionVars, IInv, Idle, Life
  <2> QED BY <2>1, <2>2, EndsReached
<1>12. CASE OnStop \/ Remove
  <2>1. Has(ready, "onStop") \/ Has(ready, "remove")
    BY <1>12, Taken DEF OnStop, Remove, Runs
  <2>2. connection' \in {"closed", "removed"} /\ UNCHANGED encoding
    BY <1>12, <2>1 DEF OnStop, Remove, Ends, sessionVars, networkVars
  <2>3. ~encoding
    BY <2>1 DEF Ends
  <2> QED BY <2>2, <2>3, EndsReached
<1>13. CASE UseOfDeleted \/ TransferToDeleted \/ UNCHANGED vars
  <2>1. UNCHANGED <<connection, encoding, ready>>
    BY <1>13 DEF UseOfDeleted, TransferToDeleted, Undefined, vars, sessionVars, networkVars
  <2> QED BY <2>1 DEF Ends
<1> QED BY <1>3, <1>4, <1>5, <1>6, <1>7, <1>8, <1>9, <1>10, <1>11, <1>12, <1>13, Zenon
        DEF Next, Run, Closes

-----------------------------------------------------------------------------
(* What a session promises *)

\* The phase of a session, case by case.
PhaseIs ==
    /\ phase \in {"none", "running", "flushing", "stopped", "free"}
    /\ session = "none" => phase = "none"
    /\ session = "gone" => phase = "free"
    /\ session = "alive" /\ connection \in {"closed", "removed"} => phase = "free"
    /\ session = "alive" /\ connection \in {"open", "failing"} =>
         phase = IF encoding THEN IF running THEN "running" ELSE "stopped"
                             ELSE IF running THEN "flushing" ELSE "stopped"

\* These are its cases, before and after a step.
LEMMA Phases ==
    /\ TypeOK => PhaseIs
    /\ TypeOK' => PhaseIs'
BY DEF TypeOK, PhaseIs, phase

\* The order of the phases.
LEMMA Ranks ==
    /\ DOMAIN Audio!Rank = {"none", "running", "flushing", "stopped", "free"}
    /\ Audio!Rank["none"] = 0 /\ Audio!Rank["running"] = 1
    /\ Audio!Rank["flushing"] = 2 /\ Audio!Rank["stopped"] = 3 /\ Audio!Rank["free"] = 4
BY DEF Audio!Rank

\* A step forward, of a session whose encoder may still fill buffers.
LEMMA AdvanceFilling ==
    ASSUME produced \in Nat, produced' \in Nat, produced <= produced', received' = received,
           \/ phase = "none" /\ phase' \in {"running", "free"}
           \/ phase = "running" /\ phase' \in {"flushing", "stopped", "free"}
    PROVE  Audio!Next
<1>1. Audio!Fills
  BY DEF Audio!Fills
<1>2. Audio!Rank[phase] < Audio!Rank[phase'] /\ phase' \in DOMAIN Audio!Rank
  BY Ranks
<1>3. Audio!Advance
  BY <1>1, <1>2 DEF Audio!Advance
<1> QED BY <1>3 DEF Audio!Next

\* A step forward of one that fills no more.
LEMMA AdvanceFilled ==
    ASSUME produced' = produced, received' = received,
           \/ phase = "flushing" /\ phase' \in {"stopped", "free"}
           \/ phase = "stopped" /\ phase' = "free"
    PROVE  Audio!Next
<1>1. Audio!Rank[phase] < Audio!Rank[phase'] /\ phase' \in DOMAIN Audio!Rank
  BY Ranks
<1>2. Audio!Advance
  BY <1>1 DEF Audio!Advance
<1> QED BY <1>2 DEF Audio!Next

\* The phase does not change with what it does not depend on.
LEMMA PhaseKept ==
    ASSUME PhaseIs, PhaseIs', TypeOK, TypeOK',
           UNCHANGED <<session, running, encoding>>,
           \/ session \in {"none", "gone"}
           \/ connection \in {"closed", "removed"} /\ connection' \in {"closed", "removed"}
           \/ connection \in {"open", "failing"} /\ connection' \in {"open", "failing"}
    PROVE  phase' = phase
<1>1. session \in {"none", "alive", "gone"}
  BY DEF TypeOK
<1> QED BY <1>1 DEF PhaseIs

\* A step of a session that is stopped while it runs, or is flushed once more.
LEMMA StopAudio ==
    ASSUME IInv, IInv', Ends, session = "alive", running, session' = session,
           received' = received, encoding' = FALSE,
           produced <= produced', ~encoding => produced' = produced,
           connection \in {"closed", "removed"} => connection' \in {"closed", "removed"}
    PROVE  Audio!Next \/ UNCHANGED <<phase, produced, received>>
<1>1. PhaseIs /\ PhaseIs' /\ produced \in Nat /\ produced' \in Nat
  BY Phases DEF IInv, TypeOK
<1>2. /\ connection \in {"open", "failing", "closed", "removed"}
      /\ connection' \in {"open", "failing", "closed", "removed"}
  BY DEF IInv, TypeOK
<1>3. CASE connection \in {"closed", "removed"}
  <2>1. phase = "free" /\ phase' = "free"
    BY <1>1, <1>3 DEF PhaseIs
  <2>2. produced' = produced
    BY <1>3 DEF Ends
  <2> QED BY <2>1, <2>2
<1>4. CASE connection \in {"open", "failing"} /\ encoding
  <2>1. phase = "running"
    BY <1>1, <1>4 DEF PhaseIs
  <2>2. phase' \in {"flushing", "stopped", "free"}
    BY <1>1, <1>2 DEF PhaseIs
  <2> QED BY <1>1, <2>1, <2>2, AdvanceFilling
<1>5. CASE connection \in {"open", "failing"} /\ ~encoding
  <2>1. phase = "flushing"
    BY <1>1, <1>5 DEF PhaseIs
  <2>2. phase' \in {"flushing", "stopped", "free"}
    BY <1>1, <1>2 DEF PhaseIs
  <2> QED BY <1>5, <2>1, <2>2, AdvanceFilled
<1> QED BY <1>2, <1>3, <1>4, <1>5

\* What stop fills: nothing if the encoder had been stopped.
LEMMA StopFills ==
    ASSUME IInv, NEW callback, NEW rest, NEW after, Stop(callback, rest, after)
    PROVE  encoding' = FALSE /\ produced <= produced' /\ (~encoding => produced' = produced)
<1>1. PICK n \in IF encoding THEN 0..MaxTail ELSE {0} : produced' = produced + n
  BY DEF Stop
<1>2. n \in Nat /\ (~encoding => n = 0)
  OBVIOUS
<1>3. produced \in Nat
  BY DEF IInv, TypeOK
<1> QED BY <1>1, <1>2, <1>3 DEF Stop

\* The deletion of a session that does not run.
LEMMA EraseAudio ==
    ASSUME IInv, IInv', ~running, session # "none", session' = "gone",
           UNCHANGED <<produced, received>>
    PROVE  Audio!Next \/ UNCHANGED <<phase, produced, received>>
<1>1. PhaseIs /\ PhaseIs'
  BY Phases DEF IInv
<1>2. session \in {"alive", "gone"} /\ connection \in {"open", "failing", "closed", "removed"}
  BY DEF IInv, TypeOK
<1>3. phase \in {"stopped", "free"} /\ phase' = "free"
  BY <1>1, <1>2 DEF PhaseIs
<1> QED BY <1>3, AdvanceFilled

\* Every step of the session is one that it promises, or a stutter.
LEMMA NextAudio ==
    ASSUME IInv, Numbers, Ends, [Next]_vars, IInv'
    PROVE  [Audio!Next]_(Audio!audioVars)
<1> SUFFICES Audio!Next \/ UNCHANGED <<phase, produced, received>>
  BY DEF Audio!audioVars
<1>0. /\ TypeOK /\ TypeOK' /\ PhaseIs /\ PhaseIs'
      /\ session \in {"none", "alive", "gone"}
      /\ connection \in {"open", "failing", "closed", "removed"}
      /\ produced \in Nat /\ produced' \in Nat /\ received \in Nat
  BY Phases DEF IInv, TypeOK
<1>1. ASSUME NEW known \in BOOLEAN, Request(known)
      PROVE  Audio!Next
  <2>1. /\ session = "none" /\ connection = "open" /\ received' = received
        /\ IF known THEN /\ session' = "alive" /\ encoding' = TRUE /\ running' = TRUE
                         /\ connection' = connection
                    ELSE session' = "gone"
    BY <1>1 DEF Request, networkVars
  <2>2. phase = "none" /\ produced <= produced'
    BY <1>0, <2>1 DEF PhaseIs, Numbers
  <2>3. phase' \in {"running", "free"}
    BY <1>0, <2>1 DEF PhaseIs
  <2> QED BY <1>0, <2>1, <2>2, <2>3, AdvanceFilling
<1>2. CASE ConsumeChunk
  <2>1. PICK n \in 0..MaxEncoded : produced' = produced + n
    BY <1>2 DEF ConsumeChunk
  <2>2. /\ session = "alive" /\ running /\ encoding /\ connection \in {"open", "failing"}
        /\ UNCHANGED <<session, running, encoding, connection, received>>
    BY <1>2 DEF ConsumeChunk, Accepts, networkVars
  <2>3. phase = "running" /\ phase' = phase
    BY <1>0, <2>2 DEF PhaseIs
  <2>4. Audio!Encode
    BY <1>0, <2>1, <2>2, <2>3 DEF Audio!Encode, Audio!Fills
  <2> QED BY <2>4 DEF Audio!Next
<1>3. CASE ConsumeLastChunk \/ StopSession
  <2>1. /\ Stop("none", ready, <<>>) /\ connection' = Flushed
        /\ session = "alive" /\ running /\ UNCHANGED <<session, received>>
    BY <1>3 DEF ConsumeLastChunk, StopSession, Accepts
  <2> QED BY <2>1, StopFills, StaysClosed, StopAudio
<1>4. CASE ServerStop \/ PeerCloses
  <2>1. UNCHANGED <<session, running, encoding, produced, received>>
    BY <1>4 DEF ServerStop, PeerCloses, CloseSocket, sessionVars
  <2>2. connection' = Stopped \/ (connection = "open" /\ connection' = "failing")
    BY <1>4 DEF ServerStop, PeerCloses, CloseSocket
  <2>3. phase' = phase
    BY <1>0, <2>1, <2>2, StaysClosed, PhaseKept
  <2> QED BY <2>1, <2>3
<1>5. CASE WriteEnds
  <2>1. /\ writing # 0
        /\ UNCHANGED <<session, running, encoding, connection, produced>>
    BY <1>5 DEF WriteEnds, sessionVars
  <2>2. phase' = phase
    BY <1>0, <2>1, PhaseKept
  <2>3. UNCHANGED received \/ (received < produced /\ received' = received + 1)
    BY <1>5, WriteEndsNumbers
  <2>4. running /\ session = "alive"
    BY <2>1 DEF IInv, Transfer, Idle, Life
  <2>5. phase \in {"running", "flushing", "free"}
    BY <1>0, <2>4 DEF PhaseIs
  <2>6. CASE received < produced /\ received' = received + 1
    <3>1. Audio!Deliver
      BY <2>1, <2>2, <2>5, <2>6 DEF Audio!Deliver
    <3> QED BY <3>1 DEF Audio!Next
  <2>7. CASE UNCHANGED received
    BY <2>1, <2>2, <2>7
  <2> QED BY <2>3, <2>6, <2>7
<1>6. CASE Expire \/ Transfers \/ OnStop
  <2>1. UNCHANGED <<session, running, encoding, connection, produced, received>>
    BY <1>6 DEF Expire, Transfers, TransferTask, NothingToTransfer, TransferToClosed, Written,
                OnStop, sessionVars, networkVars
  <2>2. phase' = phase
    BY <1>0, <2>1, PhaseKept
  <2> QED BY <2>1, <2>2
<1>7. CASE FlushAgain
  <2>1. /\ ready # <<>> /\ Head(ready).handler = "flush" /\ session = "alive"
        /\ Flush(Head(ready).callback, queue, Tail(ready), <<>>)
        /\ connection' = Flushed
        /\ UNCHANGED <<session, encoding, produced, received>>
    BY <1>7 DEF FlushAgain, Runs
  <2>2. encoding' = FALSE
    BY <2>1, Taken DEF IInv, TypeOK, Unflushed
  <2>3. CASE running
    <3>1. produced <= produced'
      BY <1>0, <2>1
    <3> QED BY <2>1, <2>2, <2>3, <3>1, StaysClosed, StopAudio
  <2>4. CASE ~running
    <3>1. running' = running
      BY <2>1, <2>4 DEF Flush, Finish, IInv, TypeOK
    <3>2. phase' = phase
      BY <1>0, <2>1, <3>1, StaysClosed, PhaseKept
    <3> QED BY <2>1, <3>2
  <2> QED BY <2>3, <2>4
<1>8. CASE Callback
  <2>1. /\ ready # <<>> /\ Head(ready).handler = "callback"
        /\ UNCHANGED <<connection, produced, received>>
    BY <1>8 DEF Callback, Runs, networkVars
  <2>2. CASE Head(ready).callback = "erase"
    <3>1. ~running /\ session # "none"
      BY <2>1, <2>2, Taken DEF IInv, Life
    <3>2. session' = "gone"
      BY <1>8, <2>2 DEF Callback, Erase
    <3> QED BY <2>1, <3>1, <3>2, EraseAudio
  <2>3. CASE Head(ready).callback # "erase"
    <3>1. UNCHANGED <<session, running, encoding>>
      BY <1>8, <2>3 DEF Callback, sessionVars
    <3>2. phase' = phase
      BY <1>0, <2>1, <3>1, PhaseKept
    <3> QED BY <2>1, <3>2
  <2> QED BY <2>2, <2>3
<1>9. CASE OnCloseRunning
  <2>1. /\ session = "alive" /\ running /\ connection' = "closed"
        /\ Stop("erase", Tail(ready), <<Handler("onStop")>>)
        /\ UNCHANGED <<session, received>>
    BY <1>9 DEF OnCloseRunning
  <2> QED BY <2>1, StopFills, StopAudio
<1>10. CASE OnCloseStopped
  <2>1. /\ session # "alive" \/ ~running
        /\ UNCHANGED <<produced, received>>
    BY <1>10 DEF OnCloseStopped
  <2>2. CASE session = "alive"
    <3>1. session' = "gone"
      BY <1>10, <2>2 DEF OnCloseStopped, Erase
    <3> QED BY <2>1, <2>2, <3>1, EraseAudio
  <2>3. CASE session # "alive"
    <3>1. UNCHANGED <<session, running, encoding>>
      BY <1>10, <2>3 DEF OnCloseStopped, sessionVars
    <3>2. phase' = phase
      BY <1>0, <2>3, <3>1, PhaseKept
    <3> QED BY <2>1, <3>2
  <2> QED BY <2>2, <2>3
<1>11. CASE Remove
  <2>1. connection' = "removed" /\ UNCHANGED <<session, running, encoding, produced, received>>
    BY <1>11 DEF Remove, sessionVars
  <2>2. connection \in {"closed", "removed"}
    BY <1>11, Taken DEF Remove, Runs, Ends
  <2>3. phase' = phase
    BY <1>0, <2>1, <2>2, PhaseKept
  <2> QED BY <2>1, <2>3
<1>12. CASE UseOfDeleted \/ TransferToDeleted \/ UNCHANGED vars
  <2>1. UNCHANGED <<session, running, encoding, connection, produced, received>>
    BY <1>12 DEF UseOfDeleted, TransferToDeleted, Undefined, vars, sessionVars, networkVars
  <2>2. phase' = phase
    BY <1>0, <2>1, PhaseKept
  <2> QED BY <2>1, <2>2
<1> QED BY <1>1, <1>2, <1>3, <1>4, <1>5, <1>6, <1>7, <1>8, <1>9, <1>10, <1>11, <1>12, Zenon
        DEF Next, Run, Closes

\* The session implements AudioStream, for every pool and every encoder of which no chunk
\* needs more than the reserve: its life goes through the phases forward, and its client
\* receives what the encoder filled in order, none skipped and nothing after it stopped,
\* whatever was stopped, flushed, closed or broken in between.
THEOREM ImplementsAudioStreamCorrect ==
    ASSUME MaxEncoded <= Reserve, MaxTail <= PoolSize
    PROVE  Spec => ImplementsAudioStream
<1>0. NoneSkipped
  BY DEF NoneSkipped
<1>1. Init => Numbers /\ Ends
  <2> SUFFICES ASSUME Init PROVE Numbers /\ Ends
    OBVIOUS
  <2>1. queue = <<>> /\ Len(<<>>) = 0 /\ Follows(<<>>, 0)
    BY DEF Init, Follows
  <2>2. NumberedFrom(0)
    BY <2>1 DEF Init, NumberedFrom
  <2>3. ~Has(ready, "onStop") /\ ~Has(ready, "remove")
    BY Empty DEF Init
  <2> QED BY <2>2, <2>3 DEF Init, Numbers, Ends
<1>2. Init => Audio!Init
  <2> SUFFICES ASSUME Init PROVE Audio!Init
    OBVIOUS
  <2>1. TypeOK
    BY InitIInv DEF IInv
  <2>2. phase = "none"
    BY <2>1, Phases DEF Init, PhaseIs
  <2> QED BY <2>2 DEF Init, Audio!Init
<1>3. IInv /\ Numbers /\ Ends /\ [Next]_vars => Numbers' /\ Ends'
  BY <1>0, NextNumbers, NextEnds
<1>4. IInv /\ IInv' /\ Numbers /\ Ends /\ [Next]_vars => [Audio!Next]_(Audio!audioVars)
  BY NextAudio
<1> QED BY <1>1, <1>2, <1>3, <1>4, Invariance, PTL
        DEF Spec, ImplementsAudioStream, Audio!Spec
=============================================================================
