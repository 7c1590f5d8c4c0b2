---------------------------- MODULE ContainerProofs ----------------------------
(***************************************************************************)
(* Proofs about the Container and the TCP server that it starts and stops: *)
(* for every set of connections and every limit of them, the server keeps  *)
(* accepting, no handler outlives its connection, the discovery server     *)
(* waits for one datagram at a time, and the parts are stopped in order.   *)
(***************************************************************************)
EXTENDS Container, FiniteSetTheorems, TLAPS

\* The handlers there are.
AllHandlers == [handler : {"onOpen", "onData", "onStop", "remove"}, conn : Connections]
               \cup {Task(t) : t \in Tasks}

\* x is among the handlers s.
Has(s, x) == \E i \in 1..Len(s) : s[i] = x

\* x is among the handlers s once at most.
Solo(s, x) == \A i, j \in 1..Len(s) : s[i] = x /\ s[j] = x => i = j

\* No handler among s is of connection c.
Unowned(s, c) == \A i \in 1..Len(s) : s[i].conn # c

\* A handler of a connection is in accordance with where the connection is in its life.
Fits(x, conns) ==
    x.conn \in Connections =>
        \/ x.handler = "onOpen" /\ conns[x.conn] \in {"accepted", "refused"}
        \/ x.handler = "onData" /\ conns[x.conn] = "failing"
        \/ x.handler \in {"onStop", "remove"} /\ conns[x.conn] = "closed"

\* All do, and each connection has one at most.
Handled(s, conns) ==
    /\ \A i \in 1..Len(s) : Fits(s[i], conns)
    /\ \A i, j \in 1..Len(s) : s[i].conn \in Connections /\ s[i].conn = s[j].conn => i = j

\* A server that was not started has no connections.
Unstarted == phase = "created" => \A c \in Connections : connection[c] = "none"

\* Start is the first handler of all, and finds everything as it was created.
Starting ==
    /\ \A i \in 1..Len(ready) : ready[i] = Task("start") => i = 1
    /\ Has(ready, Task("start")) =>
         phase = "created" /\ discovery = "closed" /\ ~Has(ready, Task("received"))

\* One receive is pending on the open socket, or its handler is ready, unless it failed.
Listening ==
    IF discovery = "open"
      THEN ~receiveFailed =>
             \/ receives = 1 /\ ~Has(ready, Task("received"))
             \/ receives = 0 /\ Has(ready, Task("received")) /\ Solo(ready, Task("received"))
      ELSE receives = 0

\* Where clients are waited for.
Waits(c) == connection[c] \in {"accepting", "accepted"}

\* Serves, and what makes it inductive: no accepted connection is left when the limit is
\* reached, so that the acceptor which a removal starts again is the only one to accept.
Accepting ==
    /\ \A a, b \in Connections : Waits(a) /\ Waits(b) => a = b
    /\ acceptor => phase = "started"
    /\ ~acceptor => \A c \in Connections : connection[c] # "accepting"
    /\ ~acceptor /\ phase = "started" => \A c \in Connections : connection[c] # "accepted"
    /\ phase = "started" /\ errors = 0 =>
         IF acceptor THEN \E c \in Connections : Waits(c)
                     ELSE \E c \in Connections : connection[c] \in {"open", "failing", "closed"}

\* The stop is ahead of every poll.
StopAhead(s) ==
    \E i \in 1..Len(s) :
        /\ s[i] = Task("stop")
        /\ \A j \in 1..Len(s) : /\ s[j] = Task("stop") => j = i
                                /\ s[j] = Task("poll") => i < j

\* The stages of the program: before the signal; with the stop submitted; with the threads
\* to be joined; and with the servers stopped or to be stopped, when nothing else runs.
BeforeSignal ==
    /\ main = "waiting" /\ loop = "free" /\ schedulerRunning /\ phase # "stopped"
    /\ \A t \in {"stop", "poll", "callback"} : ~Has(ready, Task(t))

ToStop ==
    /\ main = "stopping" /\ loop = "free" /\ schedulerRunning /\ phase # "stopped"
    /\ StopAhead(ready) /\ ~Has(ready, Task("callback"))

ToJoin ==
    /\ main = "stopping" /\ loop = "joining" /\ schedulerRunning /\ phase # "stopped"
    /\ discovery = "closed"
    /\ \A t \in {"start", "stop", "callback"} : ~Has(ready, Task(t))

Joined ==
    /\ main \in {"stopping", "left"} /\ loop \in {"free", "ended"}
    /\ ~producers /\ ~streamer /\ discovery = "closed"
    /\ \A t \in {"start", "stop"} : ~Has(ready, Task(t))
    /\ phase = "stopped" \/ Has(ready, Task("callback"))

Stages == BeforeSignal \/ ToStop \/ ToJoin \/ Joined

IInv ==
    /\ TypeOK
    /\ Unstarted
    /\ Starting
    /\ Listening
    /\ Accepting
    /\ Handled(ready, connection)
    /\ Stages

-----------------------------------------------------------------------------
(* Handlers *)

\* The handlers of tasks and of connections, which are different ones.
LEMMA HandlerKinds ==
    /\ \A t \in Tasks : /\ Task(t) \in AllHandlers /\ Task(t).conn \notin Connections
                        /\ \A u : Task(t) = Task(u) <=> t = u
    /\ \A h \in {"onOpen", "onData", "onStop", "remove"}, c \in Connections :
         LET x == [handler |-> h, conn |-> c] IN
         /\ x \in AllHandlers /\ x.handler = h /\ x.conn = c
         /\ \A t : x # Task(t)
<1>1. ASSUME NEW t \in Tasks
      PROVE  /\ Task(t) \in AllHandlers /\ Task(t).conn \notin Connections
             /\ \A u : Task(t) = Task(u) <=> t = u
  <2>1. Task(t).conn = None /\ Task(t).handler = t
    BY DEF Task
  <2>2. \A u : Task(u).handler = u
    BY DEF Task
  <2>3. Task(t) \in AllHandlers
    BY DEF AllHandlers
  <2> QED BY <2>1, <2>2, <2>3, ContainerAssumption
<1>2. ASSUME NEW h \in {"onOpen", "onData", "onStop", "remove"}, NEW c \in Connections
      PROVE  LET x == [handler |-> h, conn |-> c] IN
             /\ x \in AllHandlers /\ x.handler = h /\ x.conn = c
             /\ \A t : x # Task(t)
  <2> DEFINE x == [handler |-> h, conn |-> c]
  <2>1. x \in AllHandlers /\ x.handler = h /\ x.conn = c
    BY DEF AllHandlers
  <2>2. \A t : Task(t).conn = None
    BY DEF Task
  <2> HIDE DEF x
  <2>3. \A t : x # Task(t)
    BY <2>1, <2>2, ContainerAssumption
  <2> QED BY <2>1, <2>3 DEF x
<1> QED BY <1>1, <1>2

\* Taking the first handler off.
LEMMA TakeOff ==
    ASSUME NEW s \in Seq(AllHandlers), s # <<>>
    PROVE  /\ Head(s) \in AllHandlers /\ Tail(s) \in Seq(AllHandlers)
           /\ Has(s, Head(s))
           /\ \A x : Has(Tail(s), x) => Has(s, x)
           /\ \A x : Has(s, x) => x = Head(s) \/ Has(Tail(s), x)
           /\ \A x : Solo(s, x) => Solo(Tail(s), x)
           /\ Solo(s, Head(s)) => ~Has(Tail(s), Head(s))
           /\ \A x : (\A i \in 1..Len(s) : s[i] = x => i = 1) => ~Has(Tail(s), x)
<1> DEFINE t == Tail(s)
           m == Len(t)
           h == Head(s)
<1>1. /\ h \in AllHandlers /\ t \in Seq(AllHandlers)
      /\ m \in Nat /\ Len(s) = m + 1 /\ h = s[1]
      /\ \A i \in 1..m : t[i] = s[i + 1]
  OBVIOUS
<1> HIDE DEF t, m, h
<1>2. \A i \in 1..m : i + 1 \in 1..Len(s) /\ i + 1 # 1
  BY <1>1
<1>3. \A i \in 1..Len(s) : i = 1 \/ (i - 1 \in 1..m /\ s[i] = t[i - 1])
  <2> SUFFICES ASSUME NEW i \in 1..Len(s), i # 1 PROVE i - 1 \in 1..m /\ s[i] = t[i - 1]
    OBVIOUS
  <2>1. i - 1 \in 1..m /\ (i - 1) + 1 = i
    BY <1>1
  <2> QED BY <1>1, <2>1
<1>4. 1 \in 1..Len(s)
  BY <1>1
<1>5. Has(s, h)
  BY <1>1, <1>4 DEF Has
<1>6. \A x : Has(t, x) => Has(s, x)
  BY <1>1, <1>2 DEF Has, m
<1>7. \A x : Has(s, x) => x = h \/ Has(t, x)
  BY <1>1, <1>3 DEF Has, m
<1>8. \A x : Solo(s, x) => Solo(t, x)
  <2> SUFFICES ASSUME NEW x, Solo(s, x), NEW i \in 1..m, NEW j \in 1..m, t[i] = x, t[j] = x
               PROVE  i = j
    BY DEF Solo, m
  <2>1. i + 1 = j + 1
    BY <1>1, <1>2 DEF Solo
  <2> QED BY <2>1
<1>9. Solo(s, h) => ~Has(t, h)
  <2> SUFFICES ASSUME Solo(s, h), NEW i \in 1..m, t[i] = h PROVE FALSE
    BY DEF Has, m
  <2>1. i + 1 = 1
    BY <1>1, <1>2, <1>4 DEF Solo
  <2> QED BY <1>2, <2>1
<1>10. \A x : (\A i \in 1..Len(s) : s[i] = x => i = 1) => ~Has(t, x)
  BY <1>1, <1>2 DEF Has, m
<1> QED BY <1>1, <1>5, <1>6, <1>7, <1>8, <1>9, <1>10 DEF t, h

\* Appending handlers.
LEMMA Concatenated ==
    ASSUME NEW s \in Seq(AllHandlers), NEW t \in Seq(AllHandlers)
    PROVE  /\ s \o t \in Seq(AllHandlers)
           /\ \A x : Has(s \o t, x) <=> Has(s, x) \/ Has(t, x)
           /\ \A x : Solo(s, x) /\ ~Has(t, x) => Solo(s \o t, x)
           /\ \A x : ~Has(s, x) /\ Solo(t, x) => Solo(s \o t, x)
           /\ \A x : (\A i \in 1..Len(s) : s[i] = x => i = 1) /\ ~Has(t, x)
                       => \A i \in 1..Len(s \o t) : (s \o t)[i] = x => i = 1
<1> DEFINE u == s \o t
           m == Len(s)
           n == Len(t)
<1>1. /\ m \in Nat /\ n \in Nat
      /\ u \in Seq(AllHandlers) /\ Len(u) = m + n
      /\ \A i \in 1..m : u[i] = s[i]
      /\ \A i \in (m + 1)..(m + n) : u[i] = t[i - m]
  OBVIOUS
<1> HIDE DEF u, m, n
<1>2. \A i \in 1..m : i \in 1..Len(u)
  BY <1>1
<1>3. \A i \in 1..n : m + i \in 1..Len(u) /\ u[m + i] = t[i]
  <2> SUFFICES ASSUME NEW i \in 1..n PROVE m + i \in 1..Len(u) /\ u[m + i] = t[i]
    OBVIOUS
  <2>1. m + i \in 1..Len(u) /\ m + i \in (m + 1)..(m + n) /\ (m + i) - m = i
    BY <1>1
  <2> QED BY <1>1, <2>1
<1>4. \A i \in 1..Len(u) : i \in 1..m \/ (i - m \in 1..n /\ u[i] = t[i - m])
  <2> SUFFICES ASSUME NEW i \in 1..Len(u), i \notin 1..m
               PROVE  i - m \in 1..n /\ u[i] = t[i - m]
    OBVIOUS
  <2>1. i - m \in 1..n /\ i \in (m + 1)..(m + n)
    BY <1>1
  <2> QED BY <1>1, <2>1
<1>5. \A x : Has(u, x) <=> Has(s, x) \/ Has(t, x)
  BY <1>1, <1>2, <1>3, <1>4, ZenonT(40) DEF Has, m, n
<1>6. ASSUME NEW x, Solo(s, x), ~Has(t, x) PROVE Solo(u, x)
  <2>1. \A i \in 1..Len(u) : u[i] = x => i \in 1..m /\ s[i] = x
    BY <1>1, <1>4, <1>6 DEF Has, n
  <2> QED BY <1>6, <2>1 DEF Solo, m
<1>7. ASSUME NEW x, ~Has(s, x), Solo(t, x) PROVE Solo(u, x)
  <2>1. \A i \in 1..Len(u) : u[i] = x => i - m \in 1..n /\ t[i - m] = x
    BY <1>1, <1>4, <1>7 DEF Has, m
  <2> SUFFICES ASSUME NEW i \in 1..Len(u), NEW j \in 1..Len(u), u[i] = x, u[j] = x
               PROVE  i = j
    BY DEF Solo
  <2>2. i - m = j - m
    BY <1>7, <2>1 DEF Solo, n
  <2> QED BY <1>1, <2>2
<1>8. ASSUME NEW x, \A i \in 1..Len(s) : s[i] = x => i = 1, ~Has(t, x)
      PROVE  \A i \in 1..Len(u) : u[i] = x => i = 1
  BY <1>1, <1>4, <1>8 DEF Has, m, n
<1> QED BY <1>1, <1>5, <1>6, <1>7, <1>8 DEF u

\* A sequence of one handler.
LEMMA Alone ==
    ASSUME NEW x \in AllHandlers
    PROVE  /\ <<x>> \in Seq(AllHandlers) /\ Len(<<x>>) = 1 /\ <<x>>[1] = x
           /\ \A y : Has(<<x>>, y) <=> x = y
           /\ \A y : Solo(<<x>>, y)
           /\ \A s \in Seq(AllHandlers) : Append(s, x) = s \o <<x>>
<1>1. <<x>> \in Seq(AllHandlers) /\ Len(<<x>>) = 1 /\ <<x>>[1] = x
  OBVIOUS
<1>2. 1..1 = {1}
  OBVIOUS
<1>3. \A s \in Seq(AllHandlers) : Append(s, x) = s \o <<x>>
  OBVIOUS
<1> QED BY <1>1, <1>2, <1>3 DEF Has, Solo

\* The stop stays ahead of the polls while it is not run itself.
LEMMA StaysAhead ==
    ASSUME NEW s \in Seq(AllHandlers), StopAhead(s)
    PROVE  /\ s # <<>> /\ Head(s) # Task("poll") /\ Has(s, Task("stop"))
           /\ Head(s) # Task("stop") => StopAhead(Tail(s))
           /\ Head(s) = Task("stop") => ~Has(Tail(s), Task("stop"))
           /\ \A t \in Seq(AllHandlers) : ~Has(t, Task("stop")) => StopAhead(s \o t)
<1> DEFINE st == Task("stop")
           po == Task("poll")
           m == Len(s)
<1>1. PICK i \in 1..m : /\ s[i] = st
                        /\ \A j \in 1..m : (s[j] = st => j = i) /\ (s[j] = po => i < j)
  BY DEF StopAhead
<1>2. m \in Nat /\ s # <<>> /\ Head(s) = s[1] /\ 1 \in 1..m
  <2>1. m \in Nat
    OBVIOUS
  <2>2. m # 0
    BY <1>1, <2>1
  <2> QED BY <2>1, <2>2
<1>3. st # po
  BY HandlerKinds DEF Tasks
<1>4. Head(s) # po /\ Has(s, st)
  <2>1. s[1] = po => i < 1
    BY <1>1, <1>2
  <2> QED BY <1>1, <1>2, <2>1 DEF Has
<1> HIDE DEF st, po
<1>5. ASSUME Head(s) # st PROVE StopAhead(Tail(s))
  <2> DEFINE t == Tail(s)
             n == Len(t)
  <2>1. n \in Nat /\ m = n + 1 /\ \A j \in 1..n : t[j] = s[j + 1]
    BY <1>2
  <2> HIDE DEF t, n, m
  <2>2. i - 1 \in 1..n /\ (i - 1) + 1 = i
    <3>1. i # 1
      BY <1>1, <1>2, <1>5
    <3> QED BY <2>1, <3>1
  <2>3. t[i - 1] = st
    BY <1>1, <2>1, <2>2
  <2>4. ASSUME NEW j \in 1..n PROVE (t[j] = st => j = i - 1) /\ (t[j] = po => i - 1 < j)
    <3>1. j + 1 \in 1..m /\ t[j] = s[j + 1]
      BY <2>1
    <3>2. (t[j] = st => j + 1 = i) /\ (t[j] = po => i < j + 1)
      BY <1>1, <3>1
    <3> QED BY <2>1, <3>2
  <2> QED BY <2>2, <2>3, <2>4 DEF StopAhead, n, t, st, po
<1>6. ASSUME Head(s) = st PROVE ~Has(Tail(s), st)
  <2>1. Solo(s, Head(s))
    BY <1>1, <1>6 DEF Solo
  <2> QED BY <1>2, <1>6, <2>1, TakeOff
<1>7. ASSUME NEW t \in Seq(AllHandlers), ~Has(t, st)
      PROVE  StopAhead(s \o t)
  <2> DEFINE u == s \o t
             n == Len(t)
  <2>1. /\ n \in Nat /\ u \in Seq(AllHandlers) /\ Len(u) = m + n
        /\ \A j \in 1..m : u[j] = s[j]
        /\ \A j \in (m + 1)..(m + n) : u[j] = t[j - m]
    OBVIOUS
  <2> HIDE DEF u, n, m
  <2>2. i \in 1..Len(u) /\ u[i] = st
    BY <1>1, <1>2, <2>1
  <2>3. ASSUME NEW j \in 1..Len(u) PROVE (u[j] = st => j = i) /\ (u[j] = po => i < j)
    <3>1. CASE j \in 1..m
      BY <1>1, <2>1, <3>1
    <3>2. CASE j \notin 1..m
      <4>1. j \in (m + 1)..(m + n) /\ j - m \in 1..n /\ i < j
        BY <1>2, <2>1, <3>2
      <4>2. u[j] # st
        BY <1>7, <2>1, <4>1 DEF Has, n
      <4> QED BY <4>1, <4>2
    <3> QED BY <3>1, <3>2
  <2> QED BY <2>2, <2>3 DEF StopAhead, u, st, po
<1> QED BY <1>2, <1>4, <1>5, <1>6, <1>7 DEF st, po

\* A stop that is submitted is ahead of the polls if there is none yet.
LEMMA StopSubmitted ==
    ASSUME NEW s \in Seq(AllHandlers), ~Has(s, Task("stop")), ~Has(s, Task("poll"))
    PROVE  StopAhead(Append(s, Task("stop")))
<1> DEFINE st == Task("stop")
           po == Task("poll")
           u == Append(s, st)
           m == Len(s)
<1>1. m \in Nat /\ Len(u) = m + 1 /\ (\A j \in 1..m : u[j] = s[j]) /\ u[m + 1] = st
  OBVIOUS
<1>2. st # po
  BY HandlerKinds DEF Tasks
<1> HIDE DEF st, po, u, m
<1>3. \A j \in 1..Len(u) : j \in 1..m \/ j = m + 1
  BY <1>1
<1>4. \A j \in 1..m : s[j] # st /\ s[j] # po
  BY DEF Has, st, po, m
<1>5. \A j \in 1..Len(u) : (u[j] = st => j = m + 1) /\ u[j] # po
  BY <1>1, <1>2, <1>3, <1>4
<1>6. m + 1 \in 1..Len(u)
  BY <1>1
<1> QED BY <1>1, <1>5, <1>6 DEF StopAhead, st, po, u

-----------------------------------------------------------------------------
(* Handlers of connections *)

\* A connection that waits, is open or does not exist has no handler that is ready.
LEMMA NoHandler ==
    ASSUME NEW s, NEW conns, Handled(s, conns), NEW c \in Connections,
           conns[c] \in {"none", "accepting", "open"}
    PROVE  Unowned(s, c)
BY DEF Handled, Fits, Unowned

\* What may happen to the connections while their handlers wait.
LEMMA HandledStill ==
    ASSUME NEW s, NEW before, NEW conns, Handled(s, before),
           \A c \in Connections : conns[c] = before[c] \/ Unowned(s, c)
    PROVE  Handled(s, conns)
BY DEF Handled, Fits, Unowned

\* The handler at the head is taken off: its connection has no other.
LEMMA HandledTaken ==
    ASSUME NEW s \in Seq(AllHandlers), s # <<>>, NEW conns, Handled(s, conns)
    PROVE  /\ Handled(Tail(s), conns) /\ Fits(Head(s), conns)
           /\ Head(s).conn \in Connections => Unowned(Tail(s), Head(s).conn)
<1> DEFINE t == Tail(s)
           m == Len(t)
           h == Head(s)
<1>1. m \in Nat /\ Len(s) = m + 1 /\ h = s[1] /\ \A i \in 1..m : t[i] = s[i + 1]
  OBVIOUS
<1> HIDE DEF t, m, h
<1>2. 1 \in 1..Len(s) /\ \A i \in 1..m : i + 1 \in 1..Len(s) /\ i + 1 # 1
  BY <1>1
<1>3. Fits(h, conns) /\ \A i \in 1..m : Fits(t[i], conns)
  BY <1>1, <1>2 DEF Handled
<1>4. ASSUME NEW i \in 1..m, NEW j \in 1..m, t[i].conn \in Connections, t[i].conn = t[j].conn
      PROVE  i = j
  <2>1. i + 1 = j + 1
    BY <1>1, <1>2, <1>4 DEF Handled
  <2> QED BY <2>1
<1>5. ASSUME h.conn \in Connections, NEW i \in 1..m, t[i].conn = h.conn PROVE FALSE
  <2>1. i + 1 = 1
    BY <1>1, <1>2, <1>5 DEF Handled
  <2> QED BY <1>2, <2>1
<1> QED BY <1>3, <1>4, <1>5 DEF Handled, Unowned, m, t, h

\* Handlers are appended that are in accordance, of connections that had none.
LEMMA HandledMore ==
    ASSUME NEW s \in Seq(AllHandlers), NEW t \in Seq(AllHandlers), NEW conns,
           Handled(s, conns), Handled(t, conns),
           \A i \in 1..Len(t) : t[i].conn \in Connections => Unowned(s, t[i].conn)
    PROVE  Handled(s \o t, conns)
<1> DEFINE u == s \o t
           m == Len(s)
           n == Len(t)
<1>1. /\ m \in Nat /\ n \in Nat /\ Len(u) = m + n
      /\ \A i \in 1..m : u[i] = s[i]
      /\ \A i \in (m + 1)..(m + n) : u[i] = t[i - m]
  OBVIOUS
<1> HIDE DEF u, m, n
<1>2. \A i \in 1..Len(u) : (i \in 1..m /\ u[i] = s[i]) \/ (i - m \in 1..n /\ u[i] = t[i - m])
  <2> SUFFICES ASSUME NEW i \in 1..Len(u), i \notin 1..m
               PROVE  i - m \in 1..n /\ u[i] = t[i - m]
    BY <1>1
  <2>1. i - m \in 1..n /\ i \in (m + 1)..(m + n)
    BY <1>1
  <2> QED BY <1>1, <2>1
<1>3. \A i \in 1..Len(u) : Fits(u[i], conns)
  BY <1>2 DEF Handled, m, n
<1>4. ASSUME NEW i \in 1..Len(u), NEW j \in 1..Len(u),
             u[i].conn \in Connections, u[i].conn = u[j].conn
      PROVE  i = j
  <2>1. CASE i \in 1..m /\ u[i] = s[i] /\ j \in 1..m /\ u[j] = s[j]
    BY <1>4, <2>1 DEF Handled, m
  <2>2. CASE i - m \in 1..n /\ u[i] = t[i - m] /\ j - m \in 1..n /\ u[j] = t[j - m]
    <3>1. i - m = j - m
      BY <1>4, <2>2 DEF Handled, n
    <3> QED BY <1>1, <3>1
  <2>3. ~(i \in 1..m /\ u[i] = s[i] /\ j - m \in 1..n /\ u[j] = t[j - m])
    BY <1>4 DEF Unowned, m, n
  <2>4. ~(j \in 1..m /\ u[j] = s[j] /\ i - m \in 1..n /\ u[i] = t[i - m])
    BY <1>4 DEF Unowned, m, n
  <2> QED BY <1>2, <2>1, <2>2, <2>3, <2>4
<1> QED BY <1>3, <1>4 DEF Handled, u

\* A handler that is appended.
LEMMA HandledOneMore ==
    ASSUME NEW s \in Seq(AllHandlers), NEW x \in AllHandlers, NEW conns,
           Handled(s, conns), Fits(x, conns),
           x.conn \in Connections => Unowned(s, x.conn)
    PROVE  Handled(Append(s, x), conns)
<1>1. /\ <<x>> \in Seq(AllHandlers) /\ Len(<<x>>) = 1 /\ <<x>>[1] = x
      /\ Append(s, x) = s \o <<x>>
  BY Alone
<1>2. 1..1 = {1}
  OBVIOUS
<1> DEFINE y == <<x>>
<1> HIDE DEF y
<1>3. \A i \in 1..Len(y) : i = 1 /\ y[i] = x
  BY <1>1, <1>2 DEF y
<1>4. Handled(y, conns)
  BY <1>3 DEF Handled
<1>5. Handled(s \o y, conns)
  BY <1>1, <1>3, <1>4, HandledMore DEF y
<1> QED BY <1>1, <1>5 DEF y

-----------------------------------------------------------------------------
(* What a stop makes ready *)

\* The sequence of a finite set has its elements, each of them once.
LEMMA SequenceOfSet ==
    ASSUME NEW S, IsFiniteSet(S)
    PROVE  LET s == SetToSeq(S) IN
           /\ s \in Seq(S) /\ DOMAIN s = 1..Len(s)
           /\ \A i, j \in 1..Len(s) : s[i] = s[j] => i = j
<1> DEFINE n == Cardinality(S)
<1>1. n \in Nat /\ ExistsBijection(1..n, S)
  BY FS_CardinalityType
<1>2. \E f \in [1..n -> S] : IsInjective(f)
  BY <1>1 DEF ExistsBijection, Bijection, Injection
<1> DEFINE s == SetToSeq(S)
<1>3. s \in [1..n -> S] /\ IsInjective(s)
  <2>1. s = CHOOSE f \in [1..n -> S] : IsInjective(f)
    BY Zenon DEF SetToSeq
  <2> HIDE DEF s, n
  <2> QED BY <1>2, <2>1
<1> HIDE DEF s, n
<1>4. s \in Seq(S) /\ Len(s) = n /\ DOMAIN s = 1..n
  BY <1>1, <1>3
<1>5. \A i, j \in 1..Len(s) : s[i] = s[j] => i = j
  BY <1>3, <1>4 DEF IsInjective
<1> QED BY <1>4, <1>5 DEF s

\* The handlers of a set of connections: one of each, and no tasks.
LEMMA HandlersOf ==
    ASSUME NEW h \in {"onOpen", "onData"}, NEW cs \in SUBSET Connections
    PROVE  LET t == Handlers(h, cs) IN
           /\ t \in Seq(AllHandlers)
           /\ \A i \in 1..Len(t) : t[i].handler = h /\ t[i].conn \in cs
           /\ \A i, j \in 1..Len(t) : t[i].conn = t[j].conn => i = j
           /\ \A x : ~Has(t, Task(x))
<1> DEFINE s == SetToSeq(cs)
           t == Handlers(h, cs)
<1>1. /\ s \in Seq(cs) /\ DOMAIN s = 1..Len(s)
      /\ \A i, j \in 1..Len(s) : s[i] = s[j] => i = j
  <2>1. IsFiniteSet(cs)
    BY ConnectionsAssumption, FS_Subset
  <2> QED BY <2>1, SequenceOfSet
<1>2. t = [i \in DOMAIN s |-> [handler |-> h, conn |-> s[i]]]
  BY DEF Handlers
<1> HIDE DEF s, t
<1>3. \A i \in 1..Len(s) : s[i] \in cs /\ s[i] \in Connections
  BY <1>1
<1>4. /\ Len(s) \in Nat
      /\ t = [i \in 1..Len(s) |-> [handler |-> h, conn |-> s[i]]]
  BY <1>1, <1>2
<1>5. \A i \in 1..Len(s) : t[i] = [handler |-> h, conn |-> s[i]]
  BY <1>4
<1>6. \A i \in 1..Len(s) : /\ t[i] \in AllHandlers
                           /\ t[i].handler = h /\ t[i].conn = s[i]
                           /\ \A x : t[i] # Task(x)
  <2> SUFFICES ASSUME NEW i \in 1..Len(s)
               PROVE  /\ t[i] \in AllHandlers
                      /\ t[i].handler = h /\ t[i].conn = s[i]
                      /\ \A x : t[i] # Task(x)
    OBVIOUS
  <2> DEFINE c == s[i]
             x == [handler |-> h, conn |-> c]
  <2>1. c \in Connections /\ t[i] = x
    BY <1>3, <1>5
  <2> HIDE DEF c
  <2>2. x \in AllHandlers /\ x.handler = h /\ x.conn = c /\ \A y : x # Task(y)
    BY <2>1, HandlerKinds
  <2> HIDE DEF x
  <2> QED BY <2>1, <2>2 DEF c
<1>7. t \in Seq(AllHandlers) /\ Len(t) = Len(s)
  <2>1. t \in [1..Len(s) -> AllHandlers]
    BY <1>4, <1>6
  <2> QED BY <1>4, <2>1
<1> QED BY <1>1, <1>3, <1>6, <1>7 DEF Has, t

\* The aborted receives: their handlers, which only log.
LEMMA AbortedReceivesAre ==
    ASSUME receives \in Nat, NEW conns
    PROVE  /\ AbortedReceives \in Seq(AllHandlers)
           /\ \A x : x # "receiveError" => ~Has(AbortedReceives, Task(x))
           /\ \A i \in 1..Len(AbortedReceives) : AbortedReceives[i].conn \notin Connections
           /\ Handled(AbortedReceives, conns)
<1> DEFINE t == AbortedReceives
           x == Task("receiveError")
<1>1. t = [i \in 1..receives |-> x]
  BY DEF AbortedReceives
<1>2. x \in AllHandlers /\ x.conn \notin Connections /\ \A y : x = Task(y) <=> y = "receiveError"
  BY HandlerKinds DEF Tasks
<1> HIDE DEF t, x
<1>3. t \in Seq(AllHandlers) /\ Len(t) = receives /\ \A i \in 1..receives : t[i] = x
  BY <1>1, <1>2
<1>4. \A y : y # "receiveError" => ~Has(t, Task(y))
  BY <1>2, <1>3 DEF Has
<1>5. \A i \in 1..Len(t) : t[i].conn \notin Connections
  BY <1>2, <1>3
<1>6. Handled(t, conns)
  BY <1>5 DEF Handled, Fits
<1> QED BY <1>3, <1>4, <1>5, <1>6 DEF t

-----------------------------------------------------------------------------
(* Steps that concern one part only *)

\* The tasks that are ready stay so, apart from a handler that is run and is none of them.
TasksStay ==
    \E t \in Seq(AllHandlers) :
        /\ \A x \in {"start", "stop", "callback", "poll", "received"} : ~Has(t, Task(x))
        /\ \/ ready' = ready \o t
           \/ /\ ready # <<>>
              /\ \A x \in {"start", "stop", "callback", "poll", "received"} :
                    Head(ready) # Task(x)
              /\ ready' = Tail(ready) \o t

\* What that means for each of them.
LEMMA TasksAsBefore ==
    ASSUME IInv, TasksStay
    PROVE  /\ ready' \in Seq(AllHandlers)
           /\ \A x \in {"start", "stop", "callback", "poll", "received"} :
                /\ Has(ready', Task(x)) <=> Has(ready, Task(x))
                /\ Solo(ready, Task(x)) => Solo(ready', Task(x))
           /\ \A i \in 1..Len(ready') : ready'[i] = Task("start") => i = 1
           /\ StopAhead(ready) => StopAhead(ready')
<1> DEFINE X == {"start", "stop", "callback", "poll", "received"}
<1>1. PICK t \in Seq(AllHandlers) :
        /\ \A x \in X : ~Has(t, Task(x))
        /\ \/ ready' = ready \o t
           \/ /\ ready # <<>>
              /\ \A x \in X : Head(ready) # Task(x)
              /\ ready' = Tail(ready) \o t
  BY DEF TasksStay
<1>2. ready \in Seq(AllHandlers) /\ \A i \in 1..Len(ready) : ready[i] = Task("start") => i = 1
  BY DEF IInv, TypeOK, AllHandlers, Starting
<1>3. PICK s \in Seq(AllHandlers) :
        /\ ready' = s \o t
        /\ \A x \in X : /\ Has(s, Task(x)) <=> Has(ready, Task(x))
                        /\ Solo(ready, Task(x)) => Solo(s, Task(x))
        /\ \A i \in 1..Len(s) : s[i] = Task("start") => i = 1
        /\ StopAhead(ready) => StopAhead(s)
  <2>1. CASE ready' = ready \o t
    BY <1>2, <2>1
  <2>2. CASE ready # <<>> /\ (\A x \in X : Head(ready) # Task(x)) /\ ready' = Tail(ready) \o t
    <3> DEFINE s == Tail(ready)
    <3>1. /\ s \in Seq(AllHandlers)
          /\ \A x \in X : /\ Has(s, Task(x)) <=> Has(ready, Task(x))
                          /\ Solo(ready, Task(x)) => Solo(s, Task(x))
      BY <1>2, <2>2, TakeOff
    <3>2. \A i \in 1..Len(s) : s[i] = Task("start") => i = 1
      <4>1. ~Has(s, Task("start"))
        BY <1>2, <2>2, TakeOff
      <4> QED BY <4>1 DEF Has
    <3>3. StopAhead(ready) => StopAhead(s)
      BY <1>2, <2>2, StaysAhead
    <3> HIDE DEF s, X
    <3> QED BY <2>2, <3>1, <3>2, <3>3 DEF s
  <2> QED BY <1>1, <2>1, <2>2
<1> DEFINE u == s \o t
<1>4. /\ u \in Seq(AllHandlers)
      /\ \A x : Has(u, x) <=> Has(s, x) \/ Has(t, x)
      /\ \A x : Solo(s, x) /\ ~Has(t, x) => Solo(u, x)
      /\ ~Has(t, Task("start")) => \A i \in 1..Len(u) : u[i] = Task("start") => i = 1
  BY <1>3, Concatenated
<1>5. StopAhead(s) => StopAhead(u)
  BY <1>1, StaysAhead
<1> HIDE DEF u
<1>6. ready' = u
  BY <1>3 DEF u
<1> QED BY <1>1, <1>3, <1>4, <1>5, <1>6

\* The program's stages do not depend on the connections, nor do the start and the
\* discovery server.
LEMMA ContainerKept ==
    ASSUME IInv, TasksStay, UNCHANGED containerVars, phase' = phase
    PROVE  Starting' /\ Listening' /\ Stages'
<1>1. /\ \A x \in {"start", "stop", "callback", "poll", "received"} :
            /\ Has(ready', Task(x)) <=> Has(ready, Task(x))
            /\ Solo(ready, Task(x)) => Solo(ready', Task(x))
      /\ \A i \in 1..Len(ready') : ready'[i] = Task("start") => i = 1
      /\ StopAhead(ready) => StopAhead(ready')
  BY TasksAsBefore
<1>2. UNCHANGED <<main, schedulerRunning, loop, producers, streamer, discovery, receives,
                  receiveFailed>>
  BY DEF containerVars, mainVars, schedulerVars, discoveryVars
<1>3. Starting'
  BY <1>1, <1>2 DEF IInv, Starting
<1>4. Listening'
  BY <1>1, <1>2 DEF IInv, Listening
<1>5. Stages'
  <2>1. BeforeSignal => BeforeSignal'
    BY <1>1, <1>2 DEF BeforeSignal
  <2>2. ToStop => ToStop'
    BY <1>1, <1>2 DEF ToStop
  <2>3. ToJoin => ToJoin'
    BY <1>1, <1>2 DEF ToJoin
  <2>4. Joined => Joined'
    BY <1>1, <1>2 DEF Joined
  <2> QED BY <2>1, <2>2, <2>3, <2>4 DEF IInv, Stages
<1> QED BY <1>3, <1>4, <1>5

\* The server's state does not depend on anything else but its own handlers.
LEMMA ServerKept ==
    ASSUME IInv, UNCHANGED serverVars
    PROVE  Unstarted' /\ Accepting' /\ TypeOKServer'
BY DEF IInv, Unstarted, Accepting, Waits, TypeOK, TypeOKServer, serverVars

\* The handlers of the accept and of the reads that the stop of the server aborts.
LEMMA AbortedAre ==
    ASSUME TypeOK
    PROVE  /\ Aborted \in Seq(AllHandlers)
           /\ \A x : ~Has(Aborted, Task(x))
           /\ \A i \in 1..Len(Aborted) :
                 /\ Aborted[i].conn \in Connections
                 /\ connection[Aborted[i].conn] \in {"accepting", "open"}
           /\ Handled(Aborted, connection')
<1> DEFINE A == {c \in In("accepting") : connection'[c] = "refused"}
           B == {c \in In("open") : connection'[c] = "failing"}
           p == Handlers("onOpen", A)
           q == Handlers("onData", B)
           conns == connection'
<1>1. /\ A \in SUBSET Connections /\ B \in SUBSET Connections
      /\ \A c \in A : connection[c] = "accepting" /\ conns[c] = "refused"
      /\ \A c \in B : connection[c] = "open" /\ conns[c] = "failing"
  BY DEF In
<1>2. Aborted = p \o q
  BY DEF Aborted
<1> HIDE DEF A, B, conns
<1>3. /\ p \in Seq(AllHandlers)
      /\ \A i \in 1..Len(p) : p[i].handler = "onOpen" /\ p[i].conn \in A
      /\ \A i, j \in 1..Len(p) : p[i].conn = p[j].conn => i = j
      /\ \A x : ~Has(p, Task(x))
  BY <1>1, HandlersOf
<1>4. /\ q \in Seq(AllHandlers)
      /\ \A i \in 1..Len(q) : q[i].handler = "onData" /\ q[i].conn \in B
      /\ \A i, j \in 1..Len(q) : q[i].conn = q[j].conn => i = j
      /\ \A x : ~Has(q, Task(x))
  BY <1>1, HandlersOf
<1> HIDE DEF p, q
<1>5. Handled(p, conns) /\ Handled(q, conns)
  BY <1>1, <1>3, <1>4 DEF Handled, Fits
<1>6. \A i \in 1..Len(q) : q[i].conn \in Connections => Unowned(p, q[i].conn)
  BY <1>1, <1>3, <1>4 DEF Unowned
<1>7. Handled(p \o q, conns)
  BY <1>3, <1>4, <1>5, <1>6, HandledMore
<1> DEFINE u == p \o q
<1>8. u \in Seq(AllHandlers) /\ \A x : ~Has(u, Task(x))
  BY <1>3, <1>4, Concatenated
<1>9. \A i \in 1..Len(u) : (\E j \in 1..Len(p) : u[i] = p[j]) \/ (\E j \in 1..Len(q) : u[i] = q[j])
  <2> SUFFICES ASSUME NEW i \in 1..Len(u)
               PROVE  Has(p, u[i]) \/ Has(q, u[i])
    BY DEF Has
  <2>1. Has(u, u[i])
    BY DEF Has
  <2> HIDE DEF u
  <2>2. \A x : Has(u, x) => Has(p, x) \/ Has(q, x)
    BY <1>3, <1>4, Concatenated DEF u
  <2> QED BY <2>1, <2>2
<1> HIDE DEF u
<1>10. \A i \in 1..Len(u) : u[i].conn \in Connections /\ connection[u[i].conn] \in {"accepting", "open"}
  BY <1>1, <1>3, <1>4, <1>9
<1> QED BY <1>2, <1>7, <1>8, <1>10 DEF u, conns

-----------------------------------------------------------------------------
(* Tasks that are run, and tasks that are added *)

\* The handler of a task is run and what is appended are no tasks, or receives that were
\* aborted.
LEMMA TaskRun ==
    ASSUME IInv, NEW x \in Tasks, RunsTask(x), NEW t \in Seq(AllHandlers),
           \A y \in Tasks : y # "receiveError" => ~Has(t, Task(y)),
           ready' = Tail(ready) \o t
    PROVE  /\ ready' \in Seq(AllHandlers)
           /\ Has(ready, Task(x))
           /\ ~Has(ready', Task("start"))
           /\ \A i \in 1..Len(ready') : ready'[i] = Task("start") => i = 1
           /\ \A y \in Tasks : y # "receiveError" /\ y # x =>
                 (Has(ready', Task(y)) <=> Has(ready, Task(y)))
           /\ \A y \in Tasks : y # "receiveError" =>
                 (~Has(ready, Task(y)) => ~Has(ready', Task(y)))
           /\ \A y \in Tasks : y # "receiveError" =>
                 (Solo(ready, Task(y)) => Solo(ready', Task(y)))
           /\ x # "receiveError" /\ Solo(ready, Task(x)) => ~Has(ready', Task(x))
           /\ StopAhead(ready) => /\ x # "poll"
                                  /\ x = "stop" => ~Has(ready', Task("stop"))
                                  /\ x # "stop" => StopAhead(ready')
<1> DEFINE s == Tail(ready)
           u == s \o t
           X == Tasks \ {"receiveError"}
<1>1. /\ ready \in Seq(AllHandlers) /\ ready # <<>> /\ Head(ready) = Task(x)
      /\ \A i \in 1..Len(ready) : ready[i] = Task("start") => i = 1
  BY DEF IInv, TypeOK, AllHandlers, Starting, RunsTask
<1>2. \A y \in Tasks : Task(x) = Task(y) <=> x = y
  BY HandlerKinds
<1>3. /\ s \in Seq(AllHandlers) /\ Has(ready, Task(x))
      /\ ~Has(s, Task("start"))
      /\ \A y : Has(s, y) => Has(ready, y)
      /\ \A y : Has(ready, y) => y = Task(x) \/ Has(s, y)
      /\ \A y : Solo(ready, y) => Solo(s, y)
      /\ Solo(ready, Task(x)) => ~Has(s, Task(x))
  BY <1>1, TakeOff
<1>4. StopAhead(ready) => /\ Task(x) # Task("poll")
                          /\ Task(x) = Task("stop") => ~Has(s, Task("stop"))
                          /\ Task(x) # Task("stop") => StopAhead(s)
  BY <1>1, StaysAhead
<1> HIDE DEF s
<1>5. /\ u \in Seq(AllHandlers)
      /\ \A y : Has(u, y) <=> Has(s, y) \/ Has(t, y)
      /\ \A y : Solo(s, y) /\ ~Has(t, y) => Solo(u, y)
  BY <1>3, Concatenated
<1>6. "stop" \in X /\ "start" \in X /\ "poll" \in Tasks /\ \A y \in X : ~Has(t, Task(y))
  BY DEF Tasks
<1>7. StopAhead(s) => StopAhead(u)
  BY <1>3, <1>6, StaysAhead
<1> HIDE DEF u
<1>8. ready' = u
  BY DEF u, s
<1>9. ~Has(u, Task("start"))
  BY <1>3, <1>5, <1>6
<1>10. \A i \in 1..Len(u) : u[i] = Task("start") => i = 1
  BY <1>9 DEF Has
<1>11. \A y \in X : /\ y # x => (Has(u, Task(y)) <=> Has(ready, Task(y)))
                    /\ ~Has(ready, Task(y)) => ~Has(u, Task(y))
                    /\ Solo(ready, Task(y)) => Solo(u, Task(y))
  BY <1>2, <1>3, <1>5, <1>6
<1>12. x \in X /\ Solo(ready, Task(x)) => ~Has(u, Task(x))
  BY <1>3, <1>5, <1>6
<1>13. StopAhead(ready) => /\ x # "poll"
                           /\ x = "stop" => ~Has(u, Task("stop"))
                           /\ x # "stop" => StopAhead(u)
  BY <1>2, <1>4, <1>5, <1>6, <1>7
<1> QED BY <1>3, <1>5, <1>8, <1>9, <1>10, <1>11, <1>12, <1>13

\* A task is added.
LEMMA TaskAdded ==
    ASSUME IInv, NEW x \in Tasks \ {"start"}, ready' = Append(ready, Task(x))
    PROVE  /\ ready' \in Seq(AllHandlers)
           /\ Has(ready', Task(x))
           /\ \A i \in 1..Len(ready') : ready'[i] = Task("start") => i = 1
           /\ \A y \in Tasks \ {x} : /\ Has(ready', Task(y)) <=> Has(ready, Task(y))
                                     /\ Solo(ready, Task(y)) => Solo(ready', Task(y))
           /\ ~Has(ready, Task(x)) => Solo(ready', Task(x))
           /\ StopAhead(ready) /\ x # "stop" => StopAhead(ready')
           /\ Handled(ready', connection)
<1> DEFINE t == <<Task(x)>>
           u == ready \o t
<1>1. /\ ready \in Seq(AllHandlers) /\ Handled(ready, connection)
      /\ \A i \in 1..Len(ready) : ready[i] = Task("start") => i = 1
  BY DEF IInv, TypeOK, AllHandlers, Starting
<1>2. /\ Task(x) \in AllHandlers /\ Task(x).conn \notin Connections
      /\ \A y \in Tasks : Task(x) = Task(y) <=> x = y
  BY HandlerKinds
<1>3. /\ t \in Seq(AllHandlers) /\ ready' = ready \o t
      /\ \A y : Has(t, y) <=> Task(x) = y
      /\ \A y : Solo(t, y)
  BY <1>1, <1>2, Alone
<1>4. "start" \in Tasks /\ "stop" \in Tasks
  BY DEF Tasks
<1> HIDE DEF t
<1>5. /\ u \in Seq(AllHandlers)
      /\ \A y : Has(u, y) <=> Has(ready, y) \/ Has(t, y)
      /\ \A y : Solo(ready, y) /\ ~Has(t, y) => Solo(u, y)
      /\ \A y : ~Has(ready, y) /\ Solo(t, y) => Solo(u, y)
      /\ ~Has(t, Task("start")) => \A i \in 1..Len(u) : u[i] = Task("start") => i = 1
  BY <1>1, <1>3, Concatenated
<1>6. StopAhead(ready) /\ x # "stop" => StopAhead(u)
  BY <1>1, <1>2, <1>3, <1>4, StaysAhead
<1>7. Handled(ready', connection)
  <2>1. Fits(Task(x), connection)
    BY <1>2 DEF Fits
  <2> QED BY <1>1, <1>2, <2>1, HandledOneMore
<1> HIDE DEF u
<1>8. ready' = u
  BY <1>3 DEF u
<1> QED BY <1>2, <1>3, <1>4, <1>5, <1>6, <1>7, <1>8

\* Nothing is appended.
LEMMA Nothing ==
    /\ <<>> \in Seq(AllHandlers)
    /\ \A x : ~Has(<<>>, x)
    /\ \A s \in Seq(AllHandlers) : s \o <<>> = s
<1>1. <<>> \in Seq(AllHandlers) /\ \A s \in Seq(AllHandlers) : s \o <<>> = s
  OBVIOUS
<1>2. Len(<<>>) = 0 /\ 1..0 = {}
  OBVIOUS
<1> QED BY <1>1, <1>2 DEF Has

-----------------------------------------------------------------------------
(* The steps of the program *)

\* What every step starts from.
LEMMA Current ==
    ASSUME IInv
    PROVE  /\ ready \in Seq(AllHandlers) /\ receives \in Nat
           /\ ready # <<>> => Tail(ready) \in Seq(AllHandlers) /\ Tail(ready) \o <<>> = Tail(ready)
           /\ ready \o <<>> = ready
BY Nothing, TakeOff DEF IInv, TypeOK, AllHandlers

\* main submitted the start.
LEMMA InitHolds == Init => IInv
<1> SUFFICES ASSUME Init PROVE IInv
  OBVIOUS
<1>1. ready = <<Task("start")>> /\ Task("start") \in AllHandlers /\ "start" \in Tasks
  BY HandlerKinds DEF Init, Tasks
<1>2. /\ ready \in Seq(AllHandlers) /\ Len(ready) = 1 /\ ready[1] = Task("start")
      /\ \A y : Has(ready, y) <=> Task("start") = y
  BY <1>1, Alone
<1>3. 1..1 = {1}
  OBVIOUS
<1>4. \A y : Has(ready, Task(y)) <=> y = "start"
  BY <1>1, <1>2, HandlerKinds
<1>5. TypeOK
  <2>1. TypeOKServer
    <3>1. connection \in [Connections -> States]
      BY DEF Init, InitServer, States
    <3>2. errors \in 0..MaxErrors
      BY MaxAssumption DEF Init, InitServer
    <3>3. phase = "created" /\ acceptor = FALSE /\ crashed = FALSE
      BY DEF Init, InitServer
    <3> QED BY <3>1, <3>2, <3>3 DEF TypeOKServer
  <2>2. /\ main = "waiting" /\ schedulerRunning = TRUE
        /\ loop = "free" /\ producers = FALSE /\ streamer = FALSE
        /\ discovery = "closed" /\ receives = 0 /\ receiveFailed = FALSE
    BY DEF Init
  <2> QED BY <1>2, <2>1, <2>2 DEF TypeOK, AllHandlers
<1>6. Starting /\ Listening /\ Unstarted
  BY <1>2, <1>3, <1>4 DEF Init, InitServer, Starting, Listening, Unstarted
<1>7. Accepting
  BY DEF Init, InitServer, Accepting, Waits
<1>8. Handled(ready, connection)
  <2>1. \A i \in 1..Len(ready) : i = 1 /\ ready[i].conn \notin Connections
    BY <1>1, <1>2, <1>3, HandlerKinds
  <2> QED BY <2>1 DEF Handled, Fits
<1>9. Stages
  BY <1>4 DEF Init, InitServer, Stages, BeforeSignal
<1> QED BY <1>5, <1>6, <1>7, <1>8, <1>9 DEF IInv

\* The server is started with one connection, which accepts.
LEMMA ServerStarted ==
    ASSUME IInv, StartServer
    PROVE  /\ TypeOKServer' /\ Unstarted' /\ Accepting' /\ phase' = "started"
           /\ \A s : Handled(s, connection) => Handled(s, connection')
<1>1. PICK d \in Connections :
         connection[d] = "none" /\ connection' = [connection EXCEPT ![d] = "accepting"]
  BY DEF StartServer, AddConnection
<1>2. /\ phase' = "started" /\ acceptor' = TRUE /\ errors' = errors /\ crashed' = crashed
      /\ TypeOKServer /\ \A c \in Connections : connection[c] = "none"
  BY DEF StartServer, IInv, TypeOK, Unstarted
<1>3. TypeOKServer'
  BY <1>1, <1>2 DEF TypeOKServer, States
<1>4. \A c \in Connections : connection'[c] = IF c = d THEN "accepting" ELSE "none"
  BY <1>1, <1>2 DEF TypeOKServer
<1>5. Accepting' /\ Unstarted'
  BY <1>2, <1>4 DEF Accepting, Waits, Unstarted
<1>6. ASSUME NEW s, Handled(s, connection) PROVE Handled(s, connection')
  <2>1. \A c \in Connections : Unowned(s, c)
    BY <1>2, <1>6, NoHandler
  <2> QED BY <1>6, <2>1, HandledStill
<1> QED BY <1>2, <1>3, <1>5, <1>6

\* The start, whatever of it fails.
LEMMA StartStep == ASSUME IInv, Start PROVE IInv'
<1>1. RunsTask("start") /\ ready' = Tail(ready) /\ UNCHANGED mainVars
  BY DEF Start
<1>2. ready # <<>> /\ Head(ready) = Task("start") /\ "start" \in Tasks /\ loop = "free"
  BY <1>1 DEF RunsTask, Tasks
<1>3. /\ ready' = Tail(ready) \o <<>>
      /\ <<>> \in Seq(AllHandlers) /\ \A x : ~Has(<<>>, x)
  BY <1>1, <1>2, Current, Nothing
<1> DEFINE e == <<>>
<1> HIDE DEF e
<1>4. /\ ready' \in Seq(AllHandlers) /\ Has(ready, Task("start")) /\ ~Has(ready', Task("start"))
      /\ \A i \in 1..Len(ready') : ready'[i] = Task("start") => i = 1
      /\ \A y \in Tasks : y # "receiveError" /\ y # "start" =>
            (Has(ready', Task(y)) <=> Has(ready, Task(y)))
      /\ StopAhead(ready) => ("start" # "stop" => StopAhead(ready'))
  <2>1. ready' = Tail(ready) \o e /\ e \in Seq(AllHandlers) /\ \A x : ~Has(e, x)
    BY <1>3 DEF e
  <2> QED BY <1>1, <1>2, <2>1, TaskRun
<1>5. /\ phase = "created" /\ discovery = "closed" /\ receives = 0
      /\ ~Has(ready, Task("received")) /\ ~Has(ready', Task("received"))
  BY <1>4 DEF IInv, Starting, Listening, Tasks
<1>6. /\ phase' # "stopped" /\ TypeOKServer' /\ Unstarted' /\ Accepting'
      /\ Handled(ready', connection')
  <2>1. Handled(Tail(ready), connection)
    BY <1>2, Current, HandledTaken DEF IInv
  <2>2. CASE StartServer
    BY <1>1, <2>1, <2>2, ServerStarted
  <2>3. CASE UNCHANGED serverVars
    BY <1>1, <1>5, <2>1, <2>3, ServerKept DEF serverVars
  <2> QED BY <2>2, <2>3 DEF Start
<1>7. /\ main' = main /\ schedulerRunning' = schedulerRunning /\ loop' = loop
      /\ receiveFailed' = receiveFailed
      /\ producers' \in BOOLEAN /\ streamer' \in BOOLEAN
      /\ \/ discovery' = discovery /\ receives' = receives
         \/ discovery' = "open" /\ receives' = 1
  BY <1>1 DEF Start, mainVars, schedulerVars, discoveryVars, StartDiscovery, IInv, TypeOK
<1>8. TypeOK'
  BY <1>4, <1>5, <1>6, <1>7 DEF IInv, TypeOK, AllHandlers
<1>9. Starting' /\ Listening'
  BY <1>4, <1>5, <1>7 DEF Starting, Listening
<1>10. Stages'
  <2>1. BeforeSignal => BeforeSignal'
    BY <1>4, <1>6, <1>7 DEF BeforeSignal, Tasks
  <2>2. ToStop => ToStop'
    BY <1>4, <1>6, <1>7 DEF ToStop, Tasks
  <2>3. ~ToJoin /\ ~Joined
    BY <1>4 DEF ToJoin, Joined
  <2> QED BY <2>1, <2>2, <2>3 DEF IInv, Stages
<1> QED BY <1>6, <1>8, <1>9, <1>10 DEF IInv

\* The stop of the discovery server.
LEMMA StopStep == ASSUME IInv, Stop PROVE IInv'
<1> DEFINE t == AbortedReceives
<1>1. /\ RunsTask("stop") /\ ready' = Tail(ready) \o t /\ UNCHANGED serverVars
      /\ main' = main /\ schedulerRunning' = schedulerRunning /\ loop' = "joining"
      /\ producers' = producers /\ streamer' = streamer /\ receiveFailed' = receiveFailed
      /\ discovery' = "closed" /\ receives' = 0
  BY DEF Stop, StopDiscovery, mainVars
<1>2. ready # <<>> /\ Head(ready) = Task("stop") /\ "stop" \in Tasks /\ loop = "free"
  BY <1>1 DEF RunsTask, Tasks
<1>3. /\ t \in Seq(AllHandlers)
      /\ \A x : x # "receiveError" => ~Has(t, Task(x))
      /\ \A i \in 1..Len(t) : t[i].conn \notin Connections
      /\ Handled(t, connection)
  BY Current, AbortedReceivesAre
<1> HIDE DEF t
<1>4. /\ ready' \in Seq(AllHandlers) /\ Has(ready, Task("stop")) /\ ~Has(ready', Task("start"))
      /\ \A i \in 1..Len(ready') : ready'[i] = Task("start") => i = 1
      /\ \A y \in Tasks : y # "receiveError" =>
            (~Has(ready, Task(y)) => ~Has(ready', Task(y)))
      /\ StopAhead(ready) => ~Has(ready', Task("stop"))
  BY <1>1, <1>2, <1>3, TaskRun
<1>5. ToStop
  BY <1>4 DEF IInv, Stages, BeforeSignal, ToJoin, Joined
<1>6. ToJoin'
  BY <1>1, <1>4, <1>5 DEF ToStop, ToJoin, serverVars, Tasks
<1>7. Starting' /\ Listening'
  BY <1>1, <1>4 DEF Starting, Listening
<1>8. Handled(ready', connection')
  <2>1. Handled(Tail(ready), connection) /\ Tail(ready) \in Seq(AllHandlers)
    BY <1>2, Current, HandledTaken DEF IInv
  <2>2. Handled(Tail(ready) \o t, connection)
    BY <1>3, <2>1, HandledMore
  <2> QED BY <1>1, <2>2 DEF serverVars
<1>9. Unstarted' /\ Accepting' /\ TypeOKServer'
  BY <1>1, ServerKept
<1>10. TypeOK'
  BY <1>1, <1>4, <1>9 DEF IInv, TypeOK, AllHandlers
<1> QED BY <1>6, <1>7, <1>8, <1>9, <1>10 DEF IInv, Stages

\* The end of the threads, which submits the callback.
LEMMA JoinStep == ASSUME IInv, Join PROVE IInv'
<1>1. /\ loop = "joining" /\ loop' = "free" /\ producers' = FALSE /\ streamer' = FALSE
      /\ ready' = Append(ready, Task("callback")) /\ UNCHANGED serverVars
      /\ main' = main /\ schedulerRunning' = schedulerRunning
      /\ discovery' = discovery /\ receives' = receives /\ receiveFailed' = receiveFailed
  BY DEF Join, mainVars, discoveryVars
<1>2. ToJoin
  BY <1>1 DEF IInv, Stages, BeforeSignal, ToStop, Joined
<1>3. /\ ready' \in Seq(AllHandlers) /\ Has(ready', Task("callback"))
      /\ \A i \in 1..Len(ready') : ready'[i] = Task("start") => i = 1
      /\ \A y \in Tasks \ {"callback"} : Has(ready', Task(y)) <=> Has(ready, Task(y))
      /\ Handled(ready', connection)
  <2>1. "callback" \in Tasks \ {"start"}
    BY DEF Tasks
  <2> QED BY <1>1, <2>1, TaskAdded
<1>4. ~Has(ready', Task("start")) /\ ~Has(ready', Task("stop"))
  BY <1>2, <1>3 DEF ToJoin, Tasks
<1>5. Joined'
  BY <1>1, <1>2, <1>3, <1>4 DEF ToJoin, Joined
<1>6. Starting' /\ Listening'
  BY <1>1, <1>2, <1>3, <1>4 DEF IInv, ToJoin, Starting, Listening
<1>7. Unstarted' /\ Accepting' /\ TypeOKServer'
  BY <1>1, ServerKept
<1>8. TypeOK'
  BY <1>1, <1>3, <1>7 DEF IInv, TypeOK, AllHandlers
<1>9. Handled(ready', connection')
  BY <1>1, <1>3 DEF serverVars
<1> QED BY <1>5, <1>6, <1>7, <1>8, <1>9 DEF IInv, Stages

\* The callback, which stops the servers.
LEMMA CallbackStep == ASSUME IInv, Callback PROVE IInv'
<1> DEFINE t == Aborted
           conns == connection'
<1>1. /\ RunsTask("callback") /\ ready' = Tail(ready) \o t
      /\ phase' = "stopped" /\ acceptor' = FALSE /\ errors' = errors /\ crashed' = crashed
      /\ main' = main /\ schedulerRunning' = schedulerRunning /\ loop' = loop
      /\ producers' = producers /\ streamer' = streamer
      /\ discovery' = discovery /\ receives' = receives /\ receiveFailed' = receiveFailed
  BY DEF Callback, StopServer, containerVars, mainVars, schedulerVars, discoveryVars
<1>2. /\ ready # <<>> /\ Head(ready) = Task("callback") /\ "callback" \in Tasks
      /\ loop = "free"
  BY <1>1 DEF RunsTask, Tasks
<1>3. /\ conns \in [Connections -> States]
      /\ \A c \in Connections :
           \/ connection[c] = "accepting" /\ conns[c] = "refused"
           \/ connection[c] = "open" /\ conns[c] = "failing"
           \/ connection[c] \notin {"accepting", "open"} /\ conns[c] = connection[c]
  <2>1. conns = [c \in Connections |->
                   CASE connection[c] = "accepting" -> "refused"
                     [] connection[c] = "open" -> "failing"
                     [] OTHER -> connection[c]]
    BY DEF Callback, StopServer
  <2>2. \A c \in Connections : connection[c] \in States
    BY DEF IInv, TypeOK, TypeOKServer
  <2> HIDE DEF conns
  <2>3. \A c \in Connections :
           \/ connection[c] = "accepting" /\ conns[c] = "refused"
           \/ connection[c] = "open" /\ conns[c] = "failing"
           \/ connection[c] \notin {"accepting", "open"} /\ conns[c] = connection[c]
    BY <2>1
  <2>4. \A c \in Connections : conns[c] \in States
    BY <2>2, <2>3 DEF States
  <2> QED BY <2>1, <2>3, <2>4
<1>4. /\ t \in Seq(AllHandlers)
      /\ \A x : ~Has(t, Task(x))
      /\ \A i \in 1..Len(t) :
            t[i].conn \in Connections /\ connection[t[i].conn] \in {"accepting", "open"}
      /\ Handled(t, conns)
  BY AbortedAre DEF IInv
<1> HIDE DEF t
<1>5. /\ ready' \in Seq(AllHandlers) /\ Has(ready, Task("callback"))
      /\ ~Has(ready', Task("start"))
      /\ \A i \in 1..Len(ready') : ready'[i] = Task("start") => i = 1
      /\ \A y \in Tasks : y # "receiveError" =>
            (~Has(ready, Task(y)) => ~Has(ready', Task(y)))
  BY <1>1, <1>2, <1>4, TaskRun
<1>6. Joined
  BY <1>2, <1>5 DEF IInv, Stages, BeforeSignal, ToStop, ToJoin
<1>7. Joined'
  BY <1>1, <1>5, <1>6 DEF Joined, Tasks
<1>8. Starting' /\ Listening'
  BY <1>1, <1>5, <1>6 DEF IInv, Joined, Starting, Listening
<1>9. Handled(ready', conns)
  <2> DEFINE s == Tail(ready)
  <2>1. Handled(s, connection) /\ s \in Seq(AllHandlers)
    BY <1>2, Current, HandledTaken DEF IInv
  <2> HIDE DEF s, conns
  <2>2. \A c \in Connections : connection[c] \in {"accepting", "open"} => Unowned(s, c)
    BY <2>1, NoHandler
  <2>3. Handled(s, conns)
    BY <1>3, <2>1, <2>2, HandledStill
  <2>4. Handled(s \o t, conns)
    BY <1>4, <2>1, <2>2, <2>3, HandledMore
  <2> QED BY <1>1, <2>4 DEF s
<1>10. Unstarted' /\ Accepting' /\ TypeOKServer'
  <2>1. /\ TypeOKServer /\ \A a, b \in Connections : Waits(a) /\ Waits(b) => a = b
    BY DEF IInv, TypeOK, Accepting
  <2>2. \A c \in Connections : Waits(c)' => Waits(c)
    BY <1>3 DEF Waits
  <2>3. \A c \in Connections : conns[c] # "accepting"
    BY <1>3
  <2>4. Accepting'
    BY <1>1, <2>1, <2>2, <2>3 DEF Accepting
  <2>5. Unstarted'
    BY <1>1 DEF Unstarted
  <2>6. TypeOKServer'
    BY <1>1, <1>3, <2>1 DEF TypeOKServer
  <2> QED BY <2>4, <2>5, <2>6
<1>11. TypeOK'
  BY <1>1, <1>5, <1>10 DEF IInv, TypeOK, AllHandlers
<1> QED BY <1>7, <1>8, <1>9, <1>10, <1>11 DEF IInv, Stages

\* A poll, which is only run once the threads have ended.
LEMMA PollStep == ASSUME IInv, Poll PROVE IInv'
<1>1. /\ RunsTask("poll") /\ ready' = Tail(ready) /\ UNCHANGED serverVars
      /\ schedulerRunning' = IsSchedulerRunning /\ main' = main /\ loop' = loop
      /\ producers' = producers /\ streamer' = streamer
      /\ discovery' = discovery /\ receives' = receives /\ receiveFailed' = receiveFailed
  BY DEF Poll, schedulerVars, discoveryVars
<1>2. ready # <<>> /\ Head(ready) = Task("poll") /\ "poll" \in Tasks /\ loop = "free"
  BY <1>1 DEF RunsTask, Tasks
<1> DEFINE e == <<>>
<1>3. ready' = Tail(ready) \o e /\ e \in Seq(AllHandlers) /\ \A x : ~Has(e, x)
  BY <1>1, <1>2, Current, Nothing
<1> HIDE DEF e
<1>4. /\ ready' \in Seq(AllHandlers) /\ Has(ready, Task("poll")) /\ ~Has(ready', Task("start"))
      /\ \A i \in 1..Len(ready') : ready'[i] = Task("start") => i = 1
      /\ \A y \in Tasks : y # "receiveError" /\ y # "poll" =>
            (Has(ready', Task(y)) <=> Has(ready, Task(y)))
      /\ ~StopAhead(ready)
  BY <1>1, <1>2, <1>3, TaskRun
<1>5. Joined
  BY <1>2, <1>4 DEF IInv, Stages, BeforeSignal, ToStop, ToJoin
<1>6. Joined'
  BY <1>1, <1>4, <1>5 DEF Joined, serverVars, Tasks
<1>7. Starting' /\ Listening'
  BY <1>1, <1>4, <1>5 DEF IInv, Joined, Starting, Listening
<1>8. Handled(ready', connection')
  BY <1>1, <1>2, Current, HandledTaken DEF IInv, serverVars
<1>9. Unstarted' /\ Accepting' /\ TypeOKServer'
  BY <1>1, ServerKept
<1>10. schedulerRunning' \in BOOLEAN
  BY <1>1 DEF IsSchedulerRunning
<1>11. TypeOK'
  BY <1>1, <1>4, <1>9, <1>10 DEF IInv, TypeOK, AllHandlers
<1> QED BY <1>6, <1>7, <1>8, <1>9, <1>11 DEF IInv, Stages

\* A datagram is answered, and the next one waited for.
LEMMA OnReceivedStep == ASSUME IInv, OnReceived PROVE IInv'
<1>1. /\ RunsTask("received") /\ ready' = Tail(ready) /\ UNCHANGED serverVars
      /\ receives' = ReceiveData
      /\ main' = main /\ schedulerRunning' = schedulerRunning /\ loop' = loop
      /\ producers' = producers /\ streamer' = streamer
      /\ discovery' = discovery /\ receiveFailed' = receiveFailed
  BY DEF OnReceived, mainVars, schedulerVars
<1>2. /\ ready # <<>> /\ Head(ready) = Task("received") /\ "received" \in Tasks
      /\ loop = "free"
  BY <1>1 DEF RunsTask, Tasks
<1> DEFINE e == <<>>
<1>3. ready' = Tail(ready) \o e /\ e \in Seq(AllHandlers) /\ \A x : ~Has(e, x)
  BY <1>1, <1>2, Current, Nothing
<1> HIDE DEF e
<1>4. /\ ready' \in Seq(AllHandlers) /\ Has(ready, Task("received"))
      /\ ~Has(ready', Task("start"))
      /\ \A i \in 1..Len(ready') : ready'[i] = Task("start") => i = 1
      /\ \A y \in Tasks : y # "receiveError" /\ y # "received" =>
            (Has(ready', Task(y)) <=> Has(ready, Task(y)))
      /\ Solo(ready, Task("received")) => ~Has(ready', Task("received"))
      /\ StopAhead(ready) => StopAhead(ready')
  BY <1>1, <1>2, <1>3, TaskRun
<1>5. receives \in Nat /\ receives' = IF discovery = "open" THEN receives + 1 ELSE receives
  BY <1>1, Current DEF ReceiveData
<1>6. Starting' /\ Listening'
  <2>1. Starting'
    BY <1>4 DEF Starting
  <2>2. CASE discovery = "open" /\ ~receiveFailed
    <3>1. receives = 0 /\ Solo(ready, Task("received"))
      BY <1>4, <2>2 DEF IInv, Listening
    <3> QED BY <1>1, <1>4, <1>5, <2>1, <2>2, <3>1 DEF Listening
  <2>3. CASE ~(discovery = "open" /\ ~receiveFailed)
    BY <1>1, <1>5, <2>1, <2>3 DEF IInv, Listening
  <2> QED BY <2>2, <2>3
<1>7. Stages'
  <2>1. phase' = phase
    BY <1>1 DEF serverVars
  <2>2. \A y \in {"start", "stop", "poll", "callback"} :
           Has(ready', Task(y)) <=> Has(ready, Task(y))
    BY <1>4 DEF Tasks
  <2>3. BeforeSignal => BeforeSignal'
    BY <1>1, <2>1, <2>2 DEF BeforeSignal
  <2>4. ToStop => ToStop'
    BY <1>1, <1>4, <2>1, <2>2 DEF ToStop
  <2>5. ToJoin => ToJoin'
    BY <1>1, <2>1, <2>2 DEF ToJoin
  <2>6. Joined => Joined'
    BY <1>1, <2>1, <2>2 DEF Joined
  <2> QED BY <2>3, <2>4, <2>5, <2>6 DEF IInv, Stages
<1>8. Handled(ready', connection')
  BY <1>1, <1>2, Current, HandledTaken DEF IInv, serverVars
<1>9. Unstarted' /\ Accepting' /\ TypeOKServer'
  BY <1>1, ServerKept
<1>10. receives' \in Nat
  BY <1>5
<1>11. TypeOK'
  BY <1>1, <1>4, <1>9, <1>10 DEF IInv, TypeOK, AllHandlers
<1> QED BY <1>6, <1>7, <1>8, <1>9, <1>11 DEF IInv

\* A receive that failed is logged.
LEMMA OnReceiveErrorStep == ASSUME IInv, OnReceiveError PROVE IInv'
<1>1. /\ RunsTask("receiveError") /\ ready' = Tail(ready) /\ UNCHANGED serverVars
      /\ UNCHANGED containerVars /\ phase' = phase
  BY DEF OnReceiveError, serverVars
<1>2. ready # <<>> /\ Head(ready) = Task("receiveError")
  BY <1>1 DEF RunsTask
<1>3. TasksStay
  <2>1. ready' = Tail(ready) \o <<>>
    BY <1>1, <1>2, Current
  <2>2. \A x \in {"start", "stop", "callback", "poll", "received"} :
           Task("receiveError") # Task(x)
    BY HandlerKinds DEF Tasks
  <2> QED BY <1>2, <2>1, <2>2, Nothing DEF TasksStay
<1>4. ready' \in Seq(AllHandlers) /\ Starting' /\ Listening' /\ Stages'
  BY <1>1, <1>3, TasksAsBefore, ContainerKept
<1>5. Handled(ready', connection')
  BY <1>1, <1>2, Current, HandledTaken DEF IInv, serverVars
<1>6. Unstarted' /\ Accepting' /\ TypeOKServer'
  BY <1>1, ServerKept
<1>7. TypeOK'
  BY <1>1, <1>4, <1>6
  DEF IInv, TypeOK, AllHandlers, containerVars, mainVars, schedulerVars, discoveryVars
<1> QED BY <1>4, <1>5, <1>6, <1>7 DEF IInv

\* A datagram comes, or its receive fails.
LEMMA DatagramStep == ASSUME IInv, Datagram PROVE IInv'
<1>1. /\ receives > 0 /\ receives' = receives - 1 /\ UNCHANGED serverVars /\ discovery' = discovery
      /\ main' = main /\ schedulerRunning' = schedulerRunning /\ loop' = loop
      /\ producers' = producers /\ streamer' = streamer
  BY DEF Datagram, mainVars, schedulerVars
<1>2. PICK x \in {"received", "receiveError"} :
        /\ ready' = Append(ready, Task(x))
        /\ x = "received" => receiveFailed' = receiveFailed
        /\ x = "receiveError" => receiveFailed' = TRUE
  BY Zenon DEF Datagram
<1>3. x \in Tasks \ {"start"} /\ x # "stop" /\ x # "callback" /\ x # "poll"
  BY <1>2 DEF Tasks
<1>4. /\ ready' \in Seq(AllHandlers) /\ Has(ready', Task(x))
      /\ \A i \in 1..Len(ready') : ready'[i] = Task("start") => i = 1
      /\ \A y \in Tasks \ {x} : Has(ready', Task(y)) <=> Has(ready, Task(y))
      /\ ~Has(ready, Task(x)) => Solo(ready', Task(x))
      /\ StopAhead(ready) /\ x # "stop" => StopAhead(ready')
      /\ Handled(ready', connection)
  BY <1>2, <1>3, TaskAdded
<1>5. receives \in Nat /\ receives # 0
  BY <1>1, Current
<1>6. /\ discovery = "open"
      /\ ~receiveFailed => receives = 1 /\ ~Has(ready, Task("received"))
  BY <1>5 DEF IInv, Listening
<1>7. ~Has(ready, Task("start")) /\ ~Has(ready', Task("start"))
  <2>1. ~Has(ready, Task("start"))
    BY <1>6 DEF IInv, Starting
  <2> QED BY <1>3, <1>4, <2>1 DEF Tasks
<1>8. Starting'
  BY <1>4, <1>7 DEF Starting
<1>9. Listening'
  <2>1. CASE x = "received" /\ ~receiveFailed
    <3>1. receives' = 0 /\ Has(ready', Task("received")) /\ Solo(ready', Task("received"))
      BY <1>1, <1>4, <1>6, <2>1
    <3> QED BY <1>1, <1>6, <3>1 DEF Listening
  <2>2. CASE x = "receiveError" \/ receiveFailed
    <3>1. receiveFailed'
      BY <1>2, <2>2
    <3> QED BY <1>1, <1>6, <3>1 DEF Listening
  <2> QED BY <1>2, <2>1, <2>2
<1>10. Stages'
  <2>1. phase' = phase
    BY <1>1 DEF serverVars
  <2>2. \A y \in {"start", "stop", "poll", "callback"} :
           Has(ready', Task(y)) <=> Has(ready, Task(y))
    BY <1>3, <1>4 DEF Tasks
  <2>3. BeforeSignal => BeforeSignal'
    BY <1>1, <2>1, <2>2 DEF BeforeSignal
  <2>4. ToStop => ToStop'
    BY <1>1, <1>3, <1>4, <2>1, <2>2 DEF ToStop
  <2>5. ToJoin => ToJoin'
    BY <1>1, <2>1, <2>2 DEF ToJoin
  <2>6. Joined => Joined'
    BY <1>1, <2>1, <2>2 DEF Joined
  <2> QED BY <2>3, <2>4, <2>5, <2>6 DEF IInv, Stages
<1>11. Handled(ready', connection')
  BY <1>1, <1>4 DEF serverVars
<1>12. Unstarted' /\ Accepting' /\ TypeOKServer'
  BY <1>1, ServerKept
<1>13. receives' \in Nat /\ receiveFailed' \in BOOLEAN
  <2>1. receives' \in Nat
    BY <1>1, <1>5
  <2>2. receiveFailed' \in BOOLEAN
    BY <1>2 DEF IInv, TypeOK
  <2> QED BY <2>1, <2>2
<1>14. TypeOK'
  BY <1>1, <1>4, <1>12, <1>13 DEF IInv, TypeOK, AllHandlers
<1> QED BY <1>8, <1>9, <1>10, <1>11, <1>12, <1>14 DEF IInv

\* The signal, which has main submit the stop.
LEMMA SignalStep == ASSUME IInv, Signal PROVE IInv'
<1>1. /\ main = "waiting" /\ main' = "stopping" /\ ready' = Append(ready, Task("stop"))
      /\ UNCHANGED serverVars /\ schedulerRunning' = schedulerRunning /\ loop' = loop
      /\ producers' = producers /\ streamer' = streamer
      /\ discovery' = discovery /\ receives' = receives /\ receiveFailed' = receiveFailed
  BY DEF Signal, schedulerVars, discoveryVars
<1>2. BeforeSignal
  BY <1>1 DEF IInv, Stages, ToStop, ToJoin, Joined
<1>3. /\ ready' \in Seq(AllHandlers)
      /\ \A i \in 1..Len(ready') : ready'[i] = Task("start") => i = 1
      /\ \A y \in Tasks \ {"stop"} : /\ Has(ready', Task(y)) <=> Has(ready, Task(y))
                                     /\ Solo(ready, Task(y)) => Solo(ready', Task(y))
      /\ Handled(ready', connection)
  <2>1. "stop" \in Tasks \ {"start"}
    BY DEF Tasks
  <2> QED BY <1>1, <2>1, TaskAdded
<1>4. \A y \in {"start", "callback", "received"} :
         /\ Has(ready', Task(y)) <=> Has(ready, Task(y))
         /\ Solo(ready, Task(y)) => Solo(ready', Task(y))
  BY <1>3 DEF Tasks
<1>5. phase' = phase
  BY <1>1 DEF serverVars
<1>6. ToStop'
  <2>1. StopAhead(ready')
    BY <1>1, <1>2, Current, StopSubmitted DEF BeforeSignal
  <2> QED BY <1>1, <1>2, <1>4, <1>5, <2>1 DEF BeforeSignal, ToStop
<1>7. Starting' /\ Listening'
  BY <1>1, <1>3, <1>4, <1>5 DEF IInv, Starting, Listening
<1>8. Handled(ready', connection')
  BY <1>1, <1>3 DEF serverVars
<1>9. Unstarted' /\ Accepting' /\ TypeOKServer'
  BY <1>1, ServerKept
<1>10. TypeOK'
  BY <1>1, <1>3, <1>9 DEF IInv, TypeOK, AllHandlers
<1> QED BY <1>6, <1>7, <1>8, <1>9, <1>10 DEF IInv, Stages

\* A poll is submitted, behind the stop if that has not been run.
LEMMA SubmitPollStep == ASSUME IInv, SubmitPoll PROVE IInv'
<1>1. /\ main = "stopping" /\ ready' = Append(ready, Task("poll"))
      /\ UNCHANGED serverVars /\ UNCHANGED containerVars
  BY DEF SubmitPoll
<1>2. /\ main' = main /\ schedulerRunning' = schedulerRunning /\ loop' = loop
      /\ producers' = producers /\ streamer' = streamer /\ phase' = phase
      /\ discovery' = discovery /\ receives' = receives /\ receiveFailed' = receiveFailed
  BY <1>1 DEF containerVars, mainVars, schedulerVars, discoveryVars, serverVars
<1>3. /\ ready' \in Seq(AllHandlers)
      /\ \A i \in 1..Len(ready') : ready'[i] = Task("start") => i = 1
      /\ \A y \in Tasks \ {"poll"} : /\ Has(ready', Task(y)) <=> Has(ready, Task(y))
                                     /\ Solo(ready, Task(y)) => Solo(ready', Task(y))
      /\ StopAhead(ready) => StopAhead(ready')
      /\ Handled(ready', connection)
  <2>1. "poll" \in Tasks \ {"start"}
    BY DEF Tasks
  <2> QED BY <1>1, <2>1, TaskAdded
<1>4. \A y \in {"start", "stop", "callback", "received"} :
         /\ Has(ready', Task(y)) <=> Has(ready, Task(y))
         /\ Solo(ready, Task(y)) => Solo(ready', Task(y))
  BY <1>3 DEF Tasks
<1>5. Stages'
  <2>1. ~BeforeSignal
    BY <1>1 DEF BeforeSignal
  <2>2. ToStop => ToStop'
    BY <1>2, <1>3, <1>4 DEF ToStop
  <2>3. ToJoin => ToJoin'
    BY <1>2, <1>4 DEF ToJoin
  <2>4. Joined => Joined'
    BY <1>2, <1>4 DEF Joined
  <2> QED BY <2>1, <2>2, <2>3, <2>4 DEF IInv, Stages
<1>6. Starting' /\ Listening'
  BY <1>2, <1>3, <1>4 DEF IInv, Starting, Listening
<1>7. Handled(ready', connection')
  BY <1>1, <1>3 DEF serverVars
<1>8. Unstarted' /\ Accepting' /\ TypeOKServer'
  BY <1>1, ServerKept
<1>9. TypeOK'
  BY <1>2, <1>3, <1>8 DEF IInv, TypeOK, AllHandlers
<1> QED BY <1>5, <1>6, <1>7, <1>8, <1>9 DEF IInv

\* The steps that change what runs, but no handlers: main leaves, the event loop ends, and
\* the Scheduler stops by itself.
LEMMA EndingStep ==
    ASSUME IInv, Leave \/ LoopEnds \/ SchedulerFails
    PROVE  IInv'
<1>1. /\ UNCHANGED serverVars /\ ready' = ready /\ schedulerRunning' = schedulerRunning
      /\ discovery' = discovery /\ receives' = receives /\ receiveFailed' = receiveFailed
  BY DEF Leave, LoopEnds, SchedulerFails, discoveryVars, mainVars
<1>2. phase' = phase /\ connection' = connection
  BY <1>1 DEF serverVars
<1>3. /\ Stages'
      /\ main' \in {"waiting", "stopping", "left"} /\ loop' \in {"free", "joining", "ended"}
      /\ producers' \in BOOLEAN /\ streamer' \in BOOLEAN
  <2>1. CASE Leave
    <3>1. /\ main = "stopping" /\ ~schedulerRunning /\ main' = "left"
          /\ loop' = loop /\ producers' = producers /\ streamer' = streamer
      BY <2>1 DEF Leave, schedulerVars
    <3>2. Joined
      BY <3>1 DEF IInv, Stages, BeforeSignal, ToStop, ToJoin
    <3>3. Joined'
      BY <1>1, <1>2, <3>1, <3>2 DEF Joined
    <3> QED BY <3>1, <3>3 DEF IInv, TypeOK, Stages
  <2>2. CASE LoopEnds
    <3>1. /\ main = "left" /\ loop' = "ended"
          /\ main' = main /\ producers' = producers /\ streamer' = streamer
      BY <2>2 DEF LoopEnds, mainVars
    <3>2. Joined
      BY <3>1 DEF IInv, Stages, BeforeSignal, ToStop, ToJoin
    <3>3. Joined'
      BY <1>1, <1>2, <3>1, <3>2 DEF Joined
    <3> QED BY <3>1, <3>3 DEF IInv, TypeOK, Stages
  <2>3. CASE SchedulerFails
    <3>1. /\ producers' = FALSE /\ streamer' = FALSE /\ main' = main /\ loop' = loop
      BY <2>3 DEF SchedulerFails, mainVars
    <3>2. /\ BeforeSignal => BeforeSignal'
          /\ ToStop => ToStop'
          /\ ToJoin => ToJoin'
          /\ Joined => Joined'
      BY <1>1, <1>2, <3>1 DEF BeforeSignal, ToStop, ToJoin, Joined
    <3> QED BY <3>1, <3>2 DEF IInv, TypeOK, Stages
  <2> QED BY <2>1, <2>2, <2>3
<1>4. Starting' /\ Listening' /\ Handled(ready', connection')
  BY <1>1, <1>2 DEF IInv, Starting, Listening
<1>5. Unstarted' /\ Accepting' /\ TypeOKServer'
  BY <1>1, ServerKept
<1>6. TypeOK'
  BY <1>1, <1>3, <1>5 DEF IInv, TypeOK
<1> QED BY <1>3, <1>4, <1>5, <1>6 DEF IInv

-----------------------------------------------------------------------------
(* The steps of the server *)

\* The first handler that is ready is one of a connection, and is followed by other ones.
LEMMA ConnectionRun ==
    ASSUME IInv, NEW h \in {"onOpen", "onData", "onStop", "remove"}, NEW c \in Connections,
           Runs(h, c)
    PROVE  /\ ready # <<>> /\ Tail(ready) \in Seq(AllHandlers)
           /\ Handled(Tail(ready), connection) /\ Unowned(Tail(ready), c)
           /\ h = "onOpen" => connection[c] \in {"accepted", "refused"}
           /\ h = "onData" => connection[c] = "failing"
           /\ h \in {"onStop", "remove"} => connection[c] = "closed"
           /\ ready' = Tail(ready) => TasksStay
           /\ \A g \in {"onStop", "remove"} :
                 ready' = Append(Tail(ready), [handler |-> g, conn |-> c]) => TasksStay
<1> DEFINE x == [handler |-> h, conn |-> c]
           s == Tail(ready)
<1>1. /\ ready # <<>> /\ Head(ready) = x /\ ready \in Seq(AllHandlers)
      /\ Handled(ready, connection) /\ s \in Seq(AllHandlers) /\ s \o <<>> = s
  BY Current DEF Runs, IInv
<1>2. x.handler = h /\ x.conn = c /\ \A t : x # Task(t)
  BY HandlerKinds
<1> HIDE DEF x
<1>3. Handled(s, connection) /\ Fits(x, connection) /\ Unowned(s, c)
  <2>1. /\ Handled(s, connection) /\ Fits(Head(ready), connection)
        /\ Head(ready).conn \in Connections => Unowned(s, Head(ready).conn)
    BY <1>1, HandledTaken
  <2> QED BY <1>1, <1>2, <2>1
<1>4. /\ h = "onOpen" => connection[c] \in {"accepted", "refused"}
      /\ h = "onData" => connection[c] = "failing"
      /\ h \in {"onStop", "remove"} => connection[c] = "closed"
  BY <1>2, <1>3 DEF Fits
<1> HIDE DEF s
<1>5. ASSUME NEW t \in Seq(AllHandlers), \A y : ~Has(t, Task(y)), ready' = s \o t
      PROVE  TasksStay
  BY <1>1, <1>2, <1>5 DEF TasksStay, s
<1>6. ready' = s => TasksStay
  BY <1>1, <1>5, Nothing
<1>7. ASSUME NEW g \in {"onStop", "remove"}, ready' = Append(s, [handler |-> g, conn |-> c])
      PROVE  TasksStay
  <2> DEFINE y == [handler |-> g, conn |-> c]
             t == <<y>>
  <2>1. y \in AllHandlers /\ \A z : y # Task(z)
    BY HandlerKinds
  <2> HIDE DEF y
  <2>2. t \in Seq(AllHandlers) /\ Append(s, y) = s \o t /\ \A z : Has(t, z) <=> y = z
    BY <1>1, <2>1, Alone
  <2> HIDE DEF t
  <2> QED BY <1>5, <1>7, <2>1, <2>2 DEF y
<1> QED BY <1>1, <1>3, <1>4, <1>6, <1>7 DEF s

\* A handler of a connection is added.
LEMMA ConnectionAdded ==
    ASSUME IInv, NEW h \in {"onOpen", "onData"}, NEW c \in Connections,
           ready' = Append(ready, [handler |-> h, conn |-> c])
    PROVE  TasksStay
<1> DEFINE y == [handler |-> h, conn |-> c]
           t == <<y>>
<1>1. y \in AllHandlers /\ \A z : y # Task(z)
  BY HandlerKinds
<1> HIDE DEF y
<1>2. t \in Seq(AllHandlers) /\ Append(ready, y) = ready \o t /\ \A z : Has(t, z) <=> y = z
  BY <1>1, Current, Alone
<1> HIDE DEF t
<1> QED BY <1>1, <1>2 DEF TasksStay, y

\* A handler of a connection that has none is appended to the ones there are.
LEMMA ConnectionHandled ==
    ASSUME NEW s \in Seq(AllHandlers), NEW conns, Handled(s, conns),
           NEW h \in {"onOpen", "onData", "onStop", "remove"}, NEW c \in Connections,
           Unowned(s, c),
           h = "onOpen" => conns[c] \in {"accepted", "refused"},
           h = "onData" => conns[c] = "failing",
           h \in {"onStop", "remove"} => conns[c] = "closed"
    PROVE  Handled(Append(s, [handler |-> h, conn |-> c]), conns)
<1> DEFINE y == [handler |-> h, conn |-> c]
<1>1. y \in AllHandlers /\ y.handler = h /\ y.conn = c
  BY HandlerKinds
<1> HIDE DEF y
<1>2. Fits(y, conns)
  BY <1>1 DEF Fits
<1>3. Handled(Append(s, y), conns)
  BY <1>1, <1>2, HandledOneMore
<1> QED BY <1>3 DEF y

\* What a step of the server keeps of the rest.
LEMMA ServerStep ==
    ASSUME IInv, TasksStay, UNCHANGED containerVars, phase' = phase,
           acceptor' \in BOOLEAN, connection' \in [Connections -> States],
           errors' \in 0..MaxErrors, crashed' \in BOOLEAN,
           Unstarted', Accepting', Handled(ready', connection')
    PROVE  IInv'
<1>1. Starting' /\ Listening' /\ Stages' /\ ready' \in Seq(AllHandlers)
  BY ContainerKept, TasksAsBefore
<1>2. TypeOKServer'
  BY DEF IInv, TypeOK, TypeOKServer
<1>3. TypeOK'
  BY <1>1, <1>2
  DEF IInv, TypeOK, AllHandlers, containerVars, mainVars, schedulerVars, discoveryVars
<1> QED BY <1>1, <1>3 DEF IInv

\* A client has connected, and another connection accepts.
LEMMA OpenBelowLimitStep ==
    ASSUME IInv, NEW c \in Connections, OpenBelowLimit(c), UNCHANGED containerVars
    PROVE  IInv'
<1> DEFINE opened == [connection EXCEPT ![c] = "open"]
           conns == connection'
<1>1. /\ Runs("onOpen", c) /\ connection[c] = "accepted" /\ acceptor /\ ready' = Tail(ready)
      /\ phase' = phase /\ acceptor' = acceptor /\ errors' = errors /\ crashed' = crashed
  BY DEF OpenBelowLimit
<1>2. PICK d \in Connections : opened[d] = "none" /\ conns = [opened EXCEPT ![d] = "accepting"]
  BY DEF OpenBelowLimit, AddConnection
<1>3. TypeOK /\ TypeOKServer /\ Accepting
  BY DEF IInv, TypeOK
<1>4. /\ opened \in [Connections -> States] /\ opened[c] = "open"
      /\ \A a \in Connections : a # c => opened[a] = connection[a]
  <2>1. "open" \in States
    BY DEF States
  <2> HIDE DEF opened
  <2>2. opened = [connection EXCEPT ![c] = "open"]
    BY DEF opened
  <2> QED BY <1>3, <2>1, <2>2 DEF TypeOKServer
<1> HIDE DEF opened, conns
<1>5. /\ d # c /\ connection[d] = "none"
      /\ conns \in [Connections -> States] /\ conns[d] = "accepting" /\ conns[c] = "open"
      /\ \A a \in Connections : a # c /\ a # d => conns[a] = connection[a]
  BY <1>2, <1>4 DEF States
<1>6. /\ Tail(ready) \in Seq(AllHandlers) /\ Handled(Tail(ready), connection)
      /\ Unowned(Tail(ready), c) /\ TasksStay
  BY <1>1, ConnectionRun
<1>7. Handled(ready', conns)
  <2>1. Unowned(Tail(ready), d)
    BY <1>5, <1>6, NoHandler
  <2> QED BY <1>1, <1>5, <1>6, <2>1, HandledStill
<1>8. phase = "started" /\ \A a \in Connections : Waits(a) => a = c
  BY <1>1, <1>3 DEF Accepting, Waits
<1>9. \A a \in Connections : conns[a] \in {"accepting", "accepted"} => a = d
  BY <1>5, <1>8 DEF Waits
<1>10. Accepting'
  BY <1>1, <1>5, <1>8, <1>9 DEF Accepting, Waits, conns
<1>11. Unstarted'
  BY <1>1, <1>8 DEF Unstarted
<1> QED BY <1>1, <1>3, <1>5, <1>6, <1>7, <1>10, <1>11, ServerStep DEF TypeOKServer, conns

\* The acceptor is gone: nothing is changed any more.
LEMMA OpenWithoutAcceptorStep ==
    ASSUME IInv, NEW c \in Connections, OpenWithoutAcceptor(c), UNCHANGED containerVars
    PROVE  IInv'
<1>1. /\ phase' = phase /\ acceptor' = acceptor /\ errors' = errors /\ crashed' = TRUE
      /\ connection' = connection /\ ready' = ready
  BY DEF OpenWithoutAcceptor
<1>2. TasksStay
  BY <1>1, Current, Nothing DEF TasksStay
<1>3. Unstarted' /\ Accepting' /\ Handled(ready', connection')
  BY <1>1 DEF IInv, Unstarted, Accepting, Waits
<1>4. TypeOKServer
  BY DEF IInv, TypeOK
<1> QED BY <1>1, <1>2, <1>3, <1>4, ServerStep DEF TypeOKServer

\* The last client has connected that may.
LEMMA OpenAtLimitStep ==
    ASSUME IInv, NEW c \in Connections, OpenAtLimit(c), UNCHANGED containerVars
    PROVE  IInv'
<1> DEFINE conns == connection'
<1>1. /\ Runs("onOpen", c) /\ connection[c] = "accepted" /\ ready' = Tail(ready)
      /\ phase' = phase /\ acceptor' = FALSE /\ errors' = errors /\ crashed' = crashed
      /\ conns = [connection EXCEPT ![c] = "open"]
  BY DEF OpenAtLimit
<1>2. TypeOKServer /\ Accepting /\ Unstarted
  BY DEF IInv, TypeOK
<1> HIDE DEF conns
<1>3. /\ conns \in [Connections -> States] /\ conns[c] = "open"
      /\ \A a \in Connections : a # c => conns[a] = connection[a]
  <2>1. "open" \in States
    BY DEF States
  <2> QED BY <1>1, <1>2, <2>1 DEF TypeOKServer
<1>4. /\ Tail(ready) \in Seq(AllHandlers) /\ Handled(Tail(ready), connection)
      /\ Unowned(Tail(ready), c) /\ TasksStay
  BY <1>1, ConnectionRun
<1>5. Handled(ready', conns)
  <2>1. \A a \in Connections : conns[a] = connection[a] \/ Unowned(Tail(ready), a)
    BY <1>3, <1>4
  <2>2. Handled(Tail(ready), conns)
    BY <1>4, <2>1, HandledStill
  <2> QED BY <1>1, <2>2
<1>6. \A a \in Connections : conns[a] \notin {"accepting", "accepted"}
  BY <1>1, <1>2, <1>3 DEF Accepting, Waits
<1>7. Accepting'
  BY <1>1, <1>3, <1>6 DEF Accepting, Waits, conns
<1>8. Unstarted'
  BY <1>1, <1>2 DEF Unstarted
<1> QED BY <1>1, <1>2, <1>3, <1>4, <1>5, <1>7, <1>8, ServerStep DEF TypeOKServer, conns

\* A connection is closed.
LEMMA CloseStep ==
    ASSUME IInv, NEW h \in {"onOpen", "onData"}, NEW c \in Connections, Close(h, c),
           UNCHANGED containerVars
    PROVE  IInv'
<1> DEFINE conns == connection'
<1>1. /\ Runs(h, c) /\ connection[c] \in {"refused", "failing"}
      /\ ready' = Append(Tail(ready), [handler |-> "onStop", conn |-> c])
      /\ phase' = phase /\ acceptor' = acceptor /\ errors' = errors /\ crashed' = crashed
      /\ conns = [connection EXCEPT ![c] = "closed"]
  BY DEF Close
<1>2. TypeOKServer /\ Accepting /\ Unstarted
  BY DEF IInv, TypeOK
<1> HIDE DEF conns
<1>3. /\ conns \in [Connections -> States] /\ conns[c] = "closed"
      /\ \A a \in Connections : a # c => conns[a] = connection[a]
  <2>1. "closed" \in States
    BY DEF States
  <2> QED BY <1>1, <1>2, <2>1 DEF TypeOKServer
<1>4. /\ Tail(ready) \in Seq(AllHandlers) /\ Handled(Tail(ready), connection)
      /\ Unowned(Tail(ready), c) /\ TasksStay
  BY <1>1, ConnectionRun
<1>5. Handled(ready', conns)
  <2>1. Handled(Tail(ready), conns)
    BY <1>3, <1>4, HandledStill
  <2>2. Handled(Append(Tail(ready), [handler |-> "onStop", conn |-> c]), conns)
    BY <1>3, <1>4, <2>1, ConnectionHandled
  <2> QED BY <1>1, <2>2
<1>6. \A a \in Connections : /\ conns[a] = "accepting" <=> connection[a] = "accepting"
                             /\ conns[a] = "accepted" <=> connection[a] = "accepted"
  BY <1>1, <1>3
<1>7. Accepting'
  BY <1>1, <1>2, <1>3, <1>6 DEF Accepting, Waits, conns
<1>8. Unstarted'
  BY <1>1, <1>2 DEF Unstarted
<1> QED BY <1>1, <1>2, <1>3, <1>4, <1>5, <1>7, <1>8, ServerStep DEF TypeOKServer, conns

\* The stop callback of a connection submits its removal.
LEMMA StopCallbackStep ==
    ASSUME IInv, NEW c \in Connections, StopCallback(c), UNCHANGED containerVars
    PROVE  IInv'
<1>1. /\ Runs("onStop", c)
      /\ ready' = Append(Tail(ready), [handler |-> "remove", conn |-> c])
      /\ phase' = phase /\ acceptor' = acceptor /\ errors' = errors /\ crashed' = crashed
      /\ connection' = connection
  BY DEF StopCallback
<1>2. /\ Tail(ready) \in Seq(AllHandlers) /\ Handled(Tail(ready), connection)
      /\ Unowned(Tail(ready), c) /\ connection[c] = "closed" /\ TasksStay
  BY <1>1, ConnectionRun
<1>3. Handled(ready', connection')
  <2>1. Handled(Append(Tail(ready), [handler |-> "remove", conn |-> c]), connection)
    BY <1>2, ConnectionHandled
  <2> QED BY <1>1, <2>1
<1>4. Unstarted' /\ Accepting'
  BY <1>1 DEF IInv, Unstarted, Accepting, Waits
<1>5. TypeOKServer
  BY DEF IInv, TypeOK
<1> QED BY <1>1, <1>2, <1>3, <1>4, <1>5, ServerStep DEF TypeOKServer

\* A connection is removed, and a server that had reached its limit accepts again.
LEMMA RemoveConnectionStep ==
    ASSUME IInv, NEW c \in Connections, RemoveConnection(c), UNCHANGED containerVars
    PROVE  IInv'
<1> DEFINE removed == [connection EXCEPT ![c] = "none"]
           conns == connection'
<1>1. /\ Runs("remove", c) /\ ready' = Tail(ready)
      /\ phase' = phase /\ errors' = errors /\ crashed' = crashed
  BY DEF RemoveConnection
<1>2. TypeOKServer /\ Accepting /\ Unstarted
  BY DEF IInv, TypeOK
<1>3. \/ /\ phase = "started" /\ ~acceptor /\ acceptor' = TRUE
         /\ \E d \in Connections : removed[d] = "none" /\ conns = [removed EXCEPT ![d] = "accepting"]
      \/ /\ ~(phase = "started" /\ ~acceptor) /\ acceptor' = acceptor /\ conns = removed
  <2>1. acceptor \in BOOLEAN
    BY <1>2 DEF TypeOKServer
  <2>2. CASE phase = "started" /\ ~acceptor
    <3>1. acceptor' = TRUE
      BY <2>1, <2>2, Zenon DEF RemoveConnection
    <3>2. AddConnection(removed)
      BY <2>2, Zenon DEF RemoveConnection
    <3> QED BY <2>2, <3>1, <3>2 DEF AddConnection
  <2>3. CASE ~(phase = "started" /\ ~acceptor)
    <3>1. acceptor' = acceptor
      BY <2>1, <2>3, Zenon DEF RemoveConnection
    <3>2. conns = removed
      BY <2>3, Zenon DEF RemoveConnection
    <3> QED BY <2>3, <3>1, <3>2
  <2> QED BY <2>2, <2>3
<1>4. /\ removed \in [Connections -> States] /\ removed[c] = "none"
      /\ \A a \in Connections : a # c => removed[a] = connection[a]
  <2>1. "none" \in States
    BY DEF States
  <2> HIDE DEF removed
  <2>2. removed = [connection EXCEPT ![c] = "none"]
    BY DEF removed
  <2> QED BY <1>2, <2>1, <2>2 DEF TypeOKServer
<1> HIDE DEF removed, conns
<1>5. /\ Tail(ready) \in Seq(AllHandlers) /\ Handled(Tail(ready), connection)
      /\ Unowned(Tail(ready), c) /\ connection[c] = "closed" /\ TasksStay
  BY <1>1, ConnectionRun
<1>6. phase # "created"
  BY <1>2, <1>5 DEF Unstarted
<1>7. Unstarted'
  BY <1>1, <1>6 DEF Unstarted
<1>8. CASE /\ phase = "started" /\ ~acceptor /\ acceptor' = TRUE
           /\ \E d \in Connections : removed[d] = "none" /\ conns = [removed EXCEPT ![d] = "accepting"]
  <2>1. PICK d \in Connections : removed[d] = "none" /\ conns = [removed EXCEPT ![d] = "accepting"]
    BY <1>8
  <2>2. /\ conns \in [Connections -> States] /\ conns[d] = "accepting"
        /\ \A a \in Connections : a # d => conns[a] = removed[a]
    <3>1. "accepting" \in States
      BY DEF States
    <3> QED BY <1>4, <2>1, <3>1
  <2>3. Unowned(Tail(ready), d)
    <3>1. d = c \/ connection[d] = "none"
      BY <1>4, <2>1
    <3> QED BY <1>5, <3>1, NoHandler
  <2>4. Handled(ready', conns)
    <3>1. \A a \in Connections : conns[a] = connection[a] \/ Unowned(Tail(ready), a)
      BY <1>4, <1>5, <2>2, <2>3
    <3>2. Handled(Tail(ready), conns)
      BY <1>5, <3>1, HandledStill
    <3> QED BY <1>1, <3>2
  <2>5. \A a \in Connections : connection[a] \notin {"accepting", "accepted"}
    BY <1>2, <1>8 DEF Accepting
  <2>6. \A a \in Connections : conns[a] \in {"accepting", "accepted"} => a = d
    BY <1>4, <2>2, <2>5
  <2>7. Accepting'
    BY <1>1, <1>8, <2>2, <2>6 DEF Accepting, Waits, conns
  <2> QED BY <1>1, <1>2, <1>5, <1>7, <1>8, <2>2, <2>4, <2>7, ServerStep DEF TypeOKServer, conns
<1>9. CASE ~(phase = "started" /\ ~acceptor) /\ acceptor' = acceptor /\ conns = removed
  <2>1. Handled(ready', conns)
    <3>1. \A a \in Connections : conns[a] = connection[a] \/ Unowned(Tail(ready), a)
      BY <1>4, <1>5, <1>9
    <3>2. Handled(Tail(ready), conns)
      BY <1>5, <3>1, HandledStill
    <3> QED BY <1>1, <3>2
  <2>2. \A a \in Connections : /\ conns[a] = "accepting" <=> connection[a] = "accepting"
                               /\ conns[a] = "accepted" <=> connection[a] = "accepted"
    BY <1>4, <1>5, <1>9
  <2>3. Accepting'
    BY <1>1, <1>2, <1>9, <2>2 DEF Accepting, Waits, conns
  <2> QED BY <1>1, <1>2, <1>4, <1>5, <1>7, <1>9, <2>1, <2>3, ServerStep DEF TypeOKServer, conns
<1> QED BY <1>3, <1>8, <1>9

\* What clients and the network do, which makes a handler of a connection ready.
LEMMA ClientStep ==
    ASSUME IInv, NEW c \in Connections, Accepted(c) \/ Refused(c) \/ ReadFails(c),
           UNCHANGED containerVars
    PROVE  IInv'
<1> DEFINE conns == connection'
<1>1. TypeOKServer /\ Accepting /\ Unstarted /\ Handled(ready, connection)
      /\ ready \in Seq(AllHandlers)
  BY Current DEF IInv, TypeOK
<1>2. PICK h \in {"onOpen", "onData"}, state \in States :
        /\ ready' = Append(ready, [handler |-> h, conn |-> c])
        /\ conns = [connection EXCEPT ![c] = state]
        /\ \/ connection[c] = "accepting" /\ h = "onOpen" /\ state = "accepted" /\ errors' = errors
           \/ /\ connection[c] = "accepting" /\ h = "onOpen" /\ state = "refused"
              /\ errors < MaxErrors /\ errors' = errors + 1
           \/ connection[c] = "open" /\ h = "onData" /\ state = "failing" /\ errors' = errors
  BY Zenon DEF Accepted, Refused, ReadFails, States
<1>3. phase' = phase /\ acceptor' = acceptor /\ crashed' = crashed
  BY DEF Accepted, Refused, ReadFails
<1> HIDE DEF conns
<1>4. /\ conns \in [Connections -> States] /\ conns[c] = state
      /\ \A a \in Connections : a # c => conns[a] = connection[a]
  BY <1>1, <1>2 DEF TypeOKServer
<1>5. TasksStay
  BY <1>2, ConnectionAdded
<1>6. Unowned(ready, c)
  BY <1>1, <1>2, NoHandler
<1>7. Handled(ready', conns)
  <2>1. \A a \in Connections : conns[a] = connection[a] \/ Unowned(ready, a)
    BY <1>4, <1>6
  <2>2. Handled(ready, conns)
    BY <1>1, <2>1, HandledStill
  <2>3. Handled(Append(ready, [handler |-> h, conn |-> c]), conns)
    BY <1>1, <1>2, <1>4, <1>6, <2>2, ConnectionHandled
  <2> QED BY <1>2, <2>3
<1>8. errors \in 0..MaxErrors /\ errors' \in 0..MaxErrors /\ (errors' = 0 => errors = 0 /\ state # "refused")
  <2>1. errors \in 0..MaxErrors /\ MaxErrors \in Nat
    BY <1>1, MaxAssumption DEF TypeOKServer
  <2> QED BY <1>2, <2>1
<1>9. Unstarted'
  BY <1>1, <1>2, <1>3 DEF Unstarted
<1>10. Accepting'
  <2>1. \A a \in Connections :
           /\ conns[a] \in {"accepting", "accepted"} => Waits(a)
           /\ conns[a] = "accepting" => connection[a] = "accepting"
    BY <1>2, <1>4 DEF Waits
  <2>2. \A a, b \in Connections :
           conns[a] \in {"accepting", "accepted"} /\ conns[b] \in {"accepting", "accepted"} => a = b
    BY <1>1, <2>1 DEF Accepting
  <2>3. ~acceptor => \A a \in Connections : conns[a] # "accepting"
    BY <1>1, <2>1 DEF Accepting
  <2>4. ~acceptor /\ phase = "started" => \A a \in Connections : conns[a] # "accepted"
    BY <1>1, <1>2, <1>4 DEF Accepting
  <2>5. ASSUME phase = "started", errors' = 0
        PROVE  IF acceptor THEN \E a \in Connections : conns[a] \in {"accepting", "accepted"}
               ELSE \E a \in Connections : conns[a] \in {"open", "failing", "closed"}
    <3>1. CASE acceptor
      <4>1. PICK a \in Connections : connection[a] \in {"accepting", "accepted"}
        BY <1>1, <1>8, <2>5, <3>1 DEF Accepting, Waits
      <4>2. conns[a] \in {"accepting", "accepted"}
        BY <1>2, <1>4, <1>8, <2>5, <4>1
      <4> QED BY <3>1, <4>2
    <3>2. CASE ~acceptor
      <4>1. PICK a \in Connections : connection[a] \in {"open", "failing", "closed"}
        BY <1>1, <1>8, <2>5, <3>2 DEF Accepting
      <4>2. conns[a] \in {"open", "failing", "closed"}
        BY <1>2, <1>4, <4>1
      <4> QED BY <3>2, <4>2
    <3> QED BY <3>1, <3>2
  <2>6. acceptor => phase = "started"
    BY <1>1 DEF Accepting
  <2> QED BY <1>3, <2>2, <2>3, <2>4, <2>5, <2>6 DEF Accepting, Waits, conns
<1> QED BY <1>1, <1>3, <1>4, <1>5, <1>7, <1>8, <1>9, <1>10, ServerStep DEF TypeOKServer, conns

\* Every step keeps the invariant.
LEMMA StepKeeps == IInv /\ [Next]_vars => IInv'
<1> SUFFICES ASSUME IInv, [Next]_vars PROVE IInv'
  OBVIOUS
<1>1. CASE EventLoop
  <2>1. CASE RunServer
    <3>1. Run /\ UNCHANGED containerVars
      BY <2>1 DEF RunServer
    <3> QED BY <3>1, OpenBelowLimitStep, OpenWithoutAcceptorStep, OpenAtLimitStep, CloseStep,
               StopCallbackStep, RemoveConnectionStep DEF Run
  <2> QED BY <1>1, <2>1, StartStep, StopStep, JoinStep, CallbackStep, PollStep,
             OnReceivedStep, OnReceiveErrorStep DEF EventLoop
<1>2. CASE Clients
  BY <1>2, ClientStep DEF Clients, Network
<1>3. CASE UNCHANGED vars
  <2>1. UNCHANGED serverVars /\ UNCHANGED containerVars /\ ready' = ready
    BY <1>3 DEF vars
  <2>2. TasksStay
    BY <2>1, Current, Nothing DEF TasksStay
  <2>3. /\ phase' = phase /\ acceptor' = acceptor /\ connection' = connection
        /\ errors' = errors /\ crashed' = crashed
    BY <2>1 DEF serverVars
  <2>4. Unstarted' /\ Accepting' /\ Handled(ready', connection')
    BY <2>1, <2>3, ServerKept DEF IInv
  <2>5. TypeOKServer
    BY DEF IInv, TypeOK
  <2> QED BY <2>1, <2>2, <2>3, <2>4, <2>5, ServerStep DEF TypeOKServer
<1> QED BY <1>1, <1>2, <1>3, SignalStep, SubmitPollStep, EndingStep, DatagramStep DEF Next

\* The invariant of the program.
THEOREM Invariant == Spec => []IInv
BY InitHolds, StepKeeps, PTL DEF Spec

-----------------------------------------------------------------------------
(* The properties of the program *)

\* How often a task is ready, from whether it is.
LEMMA Counted ==
    ASSUME ready \in Seq(AllHandlers), NEW t
    PROVE  /\ Count(t) \in Nat
           /\ ~Has(ready, Task(t)) => Count(t) = 0
           /\ Has(ready, Task(t)) => Count(t) > 0
           /\ Has(ready, Task(t)) /\ Solo(ready, Task(t)) => Count(t) = 1
<1> DEFINE S == {i \in DOMAIN ready : ready[i] = Task(t)}
<1>1. /\ Len(ready) \in Nat /\ S \subseteq 1..Len(ready)
      /\ \A i : i \in S <=> i \in 1..Len(ready) /\ ready[i] = Task(t)
  OBVIOUS
<1>2. Count(t) = Cardinality(S)
  BY DEF Count
<1> HIDE DEF S
<1>3. IsFiniteSet(S)
  <2>1. IsFiniteSet(1..Len(ready))
    BY <1>1, FS_Interval
  <2> QED BY <1>1, <2>1, FS_Subset
<1>4. Count(t) \in Nat /\ (Count(t) = 0 <=> S = {}) /\ (Count(t) = 1 <=> \E x : S = {x})
  BY <1>2, <1>3, FS_CardinalityType, FS_EmptySet, FS_Singleton
<1>5. Has(ready, Task(t)) <=> S # {}
  BY <1>1 DEF Has
<1>6. ASSUME Has(ready, Task(t)), Solo(ready, Task(t)) PROVE Count(t) = 1
  <2>1. PICK i : i \in S
    BY <1>5, <1>6
  <2>2. S = {i}
    BY <1>1, <1>6, <2>1 DEF Solo
  <2> QED BY <1>4, <2>2
<1>7. ~Has(ready, Task(t)) => Count(t) = 0
  BY <1>4, <1>5
<1>8. Has(ready, Task(t)) => Count(t) # 0
  BY <1>4, <1>5
<1> QED BY <1>4, <1>6, <1>7, <1>8

\* The variables of Container and of TcpServer stay in their types.
THEOREM ContainerTypeCorrect == Spec => []TypeOK
<1>1. IInv => TypeOK
  BY DEF IInv
<1> QED BY <1>1, Invariant, PTL

\* A handler that captured its connection by reference never outlives it, and two
\* handlers of one connection are never ready at the same time.
THEOREM HandlersHaveConnectionCorrect == Spec => []HandlersHaveConnection
<1>1. IInv => HandlersHaveConnection
  <2> SUFFICES ASSUME IInv PROVE HandlersHaveConnection
    OBVIOUS
  <2>1. Handled(ready, connection) /\ ready \in Seq(AllHandlers)
    BY Current DEF IInv
  <2>2. DOMAIN ready = 1..Len(ready)
    BY <2>1
  <2>3. ASSUME NEW i \in DOMAIN ready, ready[i].conn \in Connections
        PROVE  connection[ready[i].conn] \in {"accepted", "refused", "failing", "closed"}
    BY <2>1, <2>2, <2>3 DEF Handled, Fits
  <2>4. ASSUME NEW i \in DOMAIN ready, ready[i].conn \in Connections,
               NEW j \in DOMAIN ready, ready[i].conn = ready[j].conn
        PROVE  i = j
    BY <2>1, <2>2, <2>4 DEF Handled
  <2> QED BY <2>3, <2>4 DEF HandlersHaveConnection
<1> QED BY <1>1, Invariant, PTL

\* The server accepts one client at a time, and never stops accepting for good.
THEOREM ServesCorrect == Spec => []Serves
<1>1. IInv => Serves
  <2> SUFFICES ASSUME IInv PROVE Serves
    OBVIOUS
  <2> DEFINE waiting == In("accepting") \cup In("accepted")
  <2>1. Accepting
    BY DEF IInv
  <2>2. \A c : c \in waiting <=> c \in Connections /\ Waits(c)
    BY DEF In, Waits
  <2> HIDE DEF waiting
  <2>3. Cardinality(waiting) <= 1
    <3>1. CASE waiting = {}
      BY <3>1, FS_EmptySet
    <3>2. CASE waiting # {}
      <4>1. PICK c : c \in waiting
        BY <3>2
      <4>2. waiting = {c}
        BY <2>1, <2>2, <4>1 DEF Accepting
      <4>3. Cardinality({c}) = 1
        BY FS_Singleton
      <4> QED BY <4>2, <4>3
    <3> QED BY <3>1, <3>2
  <2>4. ~acceptor => In("accepting") = {}
    BY <2>1 DEF Accepting, In
  <2>5. ASSUME phase = "started", errors = 0
        PROVE  IF acceptor THEN waiting # {}
               ELSE In("open") \cup In("failing") \cup In("closed") # {}
    <3>1. CASE acceptor
      BY <2>1, <2>2, <2>5, <3>1 DEF Accepting
    <3>2. CASE ~acceptor
      BY <2>1, <2>5, <3>2 DEF Accepting, In
    <3> QED BY <3>1, <3>2
  <2>6. acceptor => phase = "started"
    BY <2>1 DEF Accepting
  <2> QED BY <2>3, <2>4, <2>5, <2>6 DEF Serves, waiting
<1> QED BY <1>1, Invariant, PTL

\* The discovery server waits for one datagram, or has one to answer, as long as it is
\* open and nothing has failed.
THEOREM DiscoveryListensCorrect == Spec => []DiscoveryListens
<1>1. IInv => DiscoveryListens
  <2> SUFFICES ASSUME IInv PROVE DiscoveryListens
    OBVIOUS
  <2>1. ready \in Seq(AllHandlers) /\ receives \in Nat
    BY Current
  <2>2. /\ Count("received") \in Nat
        /\ ~Has(ready, Task("received")) => Count("received") = 0
        /\ Has(ready, Task("received")) /\ Solo(ready, Task("received")) => Count("received") = 1
    BY <2>1, Counted
  <2>3. ASSUME discovery = "open", ~receiveFailed PROVE receives + Count("received") = 1
    <3>1. \/ receives = 1 /\ Count("received") = 0
          \/ receives = 0 /\ Count("received") = 1
      BY <2>2, <2>3 DEF IInv, Listening
    <3> QED BY <3>1
  <2>4. discovery # "open" => receives = 0
    BY DEF IInv, Listening
  <2> QED BY <2>3, <2>4 DEF DiscoveryListens
<1> QED BY <1>1, Invariant, PTL

\* The TCP servers are stopped after everything else, and main waits for that to be
\* certain.
THEOREM StopOrderCorrect == Spec => []StopOrder
<1>1. IInv => StopOrder
  <2> SUFFICES ASSUME IInv PROVE StopOrder
    OBVIOUS
  <2>1. Has(ready, Task("callback")) => Count("callback") > 0
    BY Current, Counted
  <2>2. phase = "stopped" => Joined
    BY DEF IInv, Stages, BeforeSignal, ToStop, ToJoin
  <2>3. main = "left" => Joined
    BY DEF IInv, Stages, BeforeSignal, ToStop, ToJoin
  <2>4. Joined => /\ ~IsSchedulerRunning /\ discovery = "closed"
                  /\ phase = "stopped" \/ Count("callback") > 0
    BY <2>1 DEF Joined, IsSchedulerRunning
  <2> QED BY <2>2, <2>3, <2>4 DEF StopOrder
<1> QED BY <1>1, Invariant, PTL
=============================================================================
