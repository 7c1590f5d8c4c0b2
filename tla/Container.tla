------------------------------ MODULE Container ------------------------------
(***************************************************************************)
(* The life of the program: main, which starts the container, waits for a  *)
(* signal, stops it and waits until that is done, and the Container, whose *)
(* start and stop are handlers of the event loop.  Of its parts the        *)
(* discovery server is modelled in full and a TCP server by TcpServer: it  *)
(* is the command server or the streaming server, which are started and    *)
(* stopped by the same handlers.  The Scheduler and the Streamer are       *)
(* reduced to whether they run; Pipeline and Streamer model them.          *)
(*                                                                         *)
(* main and the event loop are two threads.  They share the queue of       *)
(* handlers and schedulerRunning, which main reads without synchronisation *)
(* while a handler writes it.                                              *)
(***************************************************************************)
EXTENDS TcpServer

CONSTANTS
    None,       \* not a connection
    MaxPolls    \* bound: polls of main that are ready at the same time

ASSUME ContainerAssumption == None \notin Connections /\ MaxPolls \in Nat \ {0}

VARIABLES
    main,              \* "waiting" for a signal, "stopping", or "left" its last loop
    schedulerRunning,  \* what main knows of the Scheduler
    loop,              \* "free", "joining" the producers' threads in stop, or "ended"
    producers,         \* the sources' threads run
    streamer,          \* isRunning of the Streamer
    discovery,         \* nativeSocket of the discovery server: "closed" or "open"
    receives,          \* receives that are pending on it
    receiveFailed      \* one has failed while it was open

mainVars == <<main, schedulerRunning>>
schedulerVars == <<loop, producers, streamer>>
discoveryVars == <<discovery, receives, receiveFailed>>
containerVars == <<mainVars, schedulerVars, discoveryVars>>
vars == <<serverVars, ready, containerVars>>

Tasks == {"start", "stop", "callback", "poll", "received", "receiveError"}

Task(t) == [handler |-> t, conn |-> None]

\* How many handlers t are ready.
Count(t) == Cardinality({i \in DOMAIN ready : ready[i] = Task(t)})

\* main has submitted the start.
Init ==
    /\ InitServer
    /\ ready = <<Task("start")>>
    /\ main = "waiting" /\ schedulerRunning = TRUE
    /\ loop = "free" /\ producers = FALSE /\ streamer = FALSE
    /\ discovery = "closed" /\ receives = 0 /\ receiveFailed = FALSE

\* The event loop runs the handler t.
RunsTask(t) == ~crashed /\ loop = "free" /\ ready # <<>> /\ Head(ready) = Task(t)

-----------------------------------------------------------------------------
(* The discovery server *)

\* start and openSocket: the first receive is posted.
StartDiscovery == discovery' = "open" /\ receives' = 1

\* stop and closeSocket.
StopDiscovery == discovery' = "closed" /\ receives' = 0

\* The handler of the receive that this aborts.
AbortedReceives == [i \in 1..receives |-> Task("receiveError")]

\* A datagram has come, or the receive has failed.
Datagram ==
    /\ ~crashed /\ loop # "ended"
    /\ receives > 0
    /\ receives' = receives - 1
    /\ \/ ready' = Append(ready, Task("received")) /\ UNCHANGED receiveFailed
       \/ ready' = Append(ready, Task("receiveError")) /\ receiveFailed' = TRUE
    /\ UNCHANGED <<serverVars, mainVars, schedulerVars, discovery>>

\* Mutant: a receive is posted by the answer and by its caller.
ReceiveTwice == IF discovery = "open" THEN receives + 2 ELSE receives

\* receiveData: nothing without a socket.
ReceiveData == IF discovery = "open" THEN receives + 1 ELSE receives

\* onData: the answer is sent, if there is a socket, and the next datagram waited for.
OnReceived ==
    /\ RunsTask("received")
    /\ ready' = Tail(ready)
    /\ receives' = ReceiveData
    /\ UNCHANGED <<serverVars, mainVars, schedulerVars, discovery, receiveFailed>>

\* onData with an error: it is logged.
OnReceiveError ==
    /\ RunsTask("receiveError")
    /\ ready' = Tail(ready)
    /\ UNCHANGED <<serverVars, containerVars>>

-----------------------------------------------------------------------------
(* The container *)

\* start: whatever throws because its port is taken ends it, and main goes on waiting.
Start ==
    /\ RunsTask("start")
    /\ ready' = Tail(ready)
    /\ \/ UNCHANGED <<serverVars, schedulerVars, discoveryVars>>
       \/ StartServer /\ UNCHANGED <<schedulerVars, discoveryVars>>
       \/ /\ StartServer
          /\ StartDiscovery
          /\ producers' = TRUE /\ streamer' = TRUE
          /\ UNCHANGED <<loop, receiveFailed>>
    /\ UNCHANGED mainVars

\* The Scheduler stops because the Streamer has thrown: nobody is called back.
SchedulerFails ==
    /\ ~crashed /\ loop = "free"
    /\ producers
    /\ producers' = FALSE /\ streamer' = FALSE
    /\ UNCHANGED <<serverVars, ready, mainVars, loop, discoveryVars>>

\* Mutant: the TCP servers are stopped together with the discovery server.
StopServersAtOnce ==
    /\ RunsTask("stop")
    /\ StopServer
    /\ ready' = Tail(ready) \o AbortedReceives \o Aborted
    /\ StopDiscovery
    /\ loop' = "joining"
    /\ UNCHANGED <<mainVars, producers, streamer, receiveFailed>>

\* stop: the discovery server is stopped, which aborts its receive, and the threads are
\* told to stop.
Stop ==
    /\ RunsTask("stop")
    /\ ready' = Tail(ready) \o AbortedReceives
    /\ StopDiscovery
    /\ loop' = "joining"
    /\ UNCHANGED <<serverVars, mainVars, producers, streamer, receiveFailed>>

\* The threads have ended: the Streamer is stopped, which submits the callback.
Join ==
    /\ loop = "joining"
    /\ loop' = "free"
    /\ producers' = FALSE /\ streamer' = FALSE
    /\ ready' = Append(ready, Task("callback"))
    /\ UNCHANGED <<serverVars, mainVars, discoveryVars>>

\* The callback: the TCP servers are stopped.
Callback ==
    /\ RunsTask("callback")
    /\ StopServer
    /\ ready' = Tail(ready) \o Aborted
    /\ UNCHANGED containerVars

-----------------------------------------------------------------------------
(* main *)

\* The signal has been noticed.
Signal ==
    /\ ~crashed
    /\ main = "waiting"
    /\ main' = "stopping"
    /\ ready' = Append(ready, Task("stop"))
    /\ UNCHANGED <<serverVars, schedulerRunning, schedulerVars, discoveryVars>>

\* Every 50 ms, as long as main does not read FALSE: the TRUE it reads may be old.
SubmitPoll ==
    /\ ~crashed /\ loop # "ended"
    /\ main = "stopping"
    /\ Count("poll") < MaxPolls
    /\ ready' = Append(ready, Task("poll"))
    /\ UNCHANGED <<serverVars, containerVars>>

IsSchedulerRunning == producers \/ streamer

\* Mutant: the flag is captured by value.
PollByValue ==
    /\ RunsTask("poll")
    /\ ready' = Tail(ready)
    /\ UNCHANGED <<serverVars, containerVars>>

\* The handler writes what main reads.
Poll ==
    /\ RunsTask("poll")
    /\ ready' = Tail(ready)
    /\ schedulerRunning' = IsSchedulerRunning
    /\ UNCHANGED <<serverVars, main, schedulerVars, discoveryVars>>

\* main leaves the loop and destroys the processor.
Leave ==
    /\ ~crashed
    /\ main = "stopping" /\ ~schedulerRunning
    /\ main' = "left"
    /\ UNCHANGED <<serverVars, ready, schedulerRunning, schedulerVars, discoveryVars>>

\* The processor's thread ends when it is destroyed, after some more handlers.
LoopEnds ==
    /\ ~crashed
    /\ main = "left" /\ loop = "free"
    /\ loop' = "ended"
    /\ UNCHANGED <<serverVars, ready, mainVars, producers, streamer, discoveryVars>>

-----------------------------------------------------------------------------
(* Specification *)

RunServer == loop = "free" /\ Run /\ UNCHANGED containerVars

Clients == loop # "ended" /\ Network /\ UNCHANGED containerVars

EventLoop ==
    \/ Start \/ Stop \/ Join \/ Callback \/ Poll
    \/ OnReceived \/ OnReceiveError
    \/ RunServer

Next ==
    \/ EventLoop
    \/ Signal \/ SubmitPoll \/ Leave \/ LoopEnds
    \/ SchedulerFails
    \/ Datagram
    \/ Clients

Spec == Init /\ [][Next]_vars

\* The event loop runs what is ready, the threads end (Source), main polls, and reads
\* what was written in the end.
FairSpec ==
    /\ Spec
    /\ WF_vars(EventLoop)
    /\ WF_vars(SubmitPoll)
    /\ WF_vars(Leave)

-----------------------------------------------------------------------------
(* Properties *)

\* The variables stay in their types.
TypeOK ==
    /\ TypeOKServer
    /\ ready \in Seq([handler : {"onOpen", "onData", "onStop", "remove"}, conn : Connections]
                     \cup {Task(t) : t \in Tasks})
    /\ main \in {"waiting", "stopping", "left"} /\ schedulerRunning \in BOOLEAN
    /\ loop \in {"free", "joining", "ended"}
    /\ producers \in BOOLEAN /\ streamer \in BOOLEAN
    /\ discovery \in {"closed", "open"} /\ receives \in Nat /\ receiveFailed \in BOOLEAN

\* The discovery server waits for exactly one datagram at a time, into its one buffer,
\* from the start to the stop, or has one to answer, unless receiving has failed; nothing
\* is pending on a socket that was closed.
DiscoveryListens ==
    IF discovery = "open" THEN ~receiveFailed => receives + Count("received") = 1
                          ELSE receives = 0

\* The TCP servers are stopped last, so that what the stopping Streamer does to its
\* sessions still finds their connections, and main does not leave while a thread or the
\* Streamer runs, or without the servers' stop being at least ready to run.
StopOrder ==
    /\ phase = "stopped" => ~IsSchedulerRunning /\ discovery = "closed"
    /\ main = "left" => /\ ~IsSchedulerRunning /\ discovery = "closed"
                        /\ phase = "stopped" \/ Count("callback") > 0

\* After a signal main leaves, whatever was started and whatever has failed before.
ShutdownEnds == main = "stopping" ~> main = "left" \/ crashed

\* Of the connections of a server that was stopped all are removed, with their handlers;
\* only one whose accept had completed by then may still be open when the loop ends.
StopCleansUp ==
    phase = "stopped"
        ~> loop = "ended" \/ crashed \/ Cardinality(Connections \ In("none")) <= 1
=============================================================================
