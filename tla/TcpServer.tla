------------------------------- MODULE TcpServer -------------------------------
(***************************************************************************)
(* tcp::Server and its Connections at the granularity of the event loop:   *)
(* one step is one handler, run from its start to its end.  Handlers are   *)
(* run in the order in which they became ready: completions of accepts and *)
(* reads, and the handlers that onStop and the stop callback submit.       *)
(*                                                                         *)
(* The event loop belongs to the whole program, so its queue holds other   *)
(* handlers too: Container has them, starts and stops the server, and      *)
(* gives the specification.  The callbacks of the application only matter  *)
(* in that they may stop the connection they are called with.              *)
(***************************************************************************)
EXTENDS Naturals, Sequences, SequencesExt, FiniteSetsExt

CONSTANTS
    Connections,     \* Connection objects that exist at the same time, at most
    maxConnections,
    MaxErrors        \* bound: accepts that fail while the acceptor is open

ASSUME ConnectionsAssumption == IsFiniteSet(Connections)
ASSUME MaxAssumption == maxConnections \in Nat /\ MaxErrors \in Nat

VARIABLES
    phase,       \* "created", "started" or "stopped": start and stop are called once
    acceptor,    \* there is an acceptor object
    connection,  \* where each Connection object is in its life
    ready,       \* handlers that are ready to run, first in first
    errors,      \* accepts that failed while the acceptor was open
    crashed      \* a null acceptor was dereferenced

serverVars == <<phase, acceptor, connection, errors, crashed>>

States == {"none", "accepting", "accepted", "refused", "open", "failing", "closed"}

In(state) == {c \in Connections : connection[c] = state}

\* isOpen(): set before the open callback and cleared after the close callback.
Open(conns) == {c \in Connections : conns[c] \in {"open", "failing"}}

InitServer ==
    /\ phase = "created"
    /\ acceptor = FALSE
    /\ connection = [c \in Connections |-> "none"]
    /\ errors = 0
    /\ crashed = FALSE

\* The handler h of connection c is run: it is the first one that is ready.
Runs(h, c) == ~crashed /\ ready # <<>> /\ Head(ready) = [handler |-> h, conn |-> c]

\* The handlers of connections cs, in the order of the vector of connections.
Handlers(h, cs) ==
    LET s == SetToSeq(cs) IN [i \in DOMAIN s |-> [handler |-> h, conn |-> s[i]]]

\* addConnection with an acceptor: a new object starts to accept.
AddConnection(conns) ==
    \E c \in Connections :
        /\ conns[c] = "none"
        /\ connection' = [conns EXCEPT ![c] = "accepting"]

-----------------------------------------------------------------------------
(* The server *)

StartServer ==
    /\ phase = "created"
    /\ phase' = "started"
    /\ acceptor' = TRUE
    /\ AddConnection(connection)
    /\ UNCHANGED <<errors, crashed>>

\* Mutant: the connections are left to their clients.
StopAcceptorOnly ==
    /\ phase' = "stopped"
    /\ acceptor' = FALSE
    /\ connection' = [c \in Connections |->
                        IF connection[c] = "accepting" THEN "refused" ELSE connection[c]]
    /\ UNCHANGED <<errors, crashed>>

\* The acceptor is closed, which fails the accept that is pending, and so are the
\* sockets, which fails the reads.  A connection whose accept has completed, but
\* whose handler has not run yet, has no socket to close.  A server that was not
\* started has neither.
StopServer ==
    /\ phase' = "stopped"
    /\ acceptor' = FALSE
    /\ connection' = [c \in Connections |->
                        CASE connection[c] = "accepting" -> "refused"
                          [] connection[c] = "open" -> "failing"
                          [] OTHER -> connection[c]]
    /\ UNCHANGED <<errors, crashed>>

\* The handlers that this makes ready.
Aborted ==
    Handlers("onOpen", {c \in In("accepting") : connection'[c] = "refused"})
        \o Handlers("onData", {c \in In("open") : connection'[c] = "failing"})

-----------------------------------------------------------------------------
(* The network, and the application's wish to stop a connection *)

\* A client connects.  Bound: only while there is an object left for the next one.
Accepted(c) ==
    /\ ~crashed
    /\ connection[c] = "accepting"
    /\ In("none") # {}
    /\ connection' = [connection EXCEPT ![c] = "accepted"]
    /\ ready' = Append(ready, [handler |-> "onOpen", conn |-> c])
    /\ UNCHANGED <<phase, acceptor, errors, crashed>>

\* The accept fails, for want of file descriptors for example.
Refused(c) ==
    /\ ~crashed
    /\ connection[c] = "accepting"
    /\ errors < MaxErrors
    /\ errors' = errors + 1
    /\ connection' = [connection EXCEPT ![c] = "refused"]
    /\ ready' = Append(ready, [handler |-> "onOpen", conn |-> c])
    /\ UNCHANGED <<phase, acceptor, crashed>>

\* The peer closes, or a data handler calls stop: the read fails.  Data that arrives
\* before changes nothing here.
ReadFails(c) ==
    /\ ~crashed
    /\ connection[c] = "open"
    /\ connection' = [connection EXCEPT ![c] = "failing"]
    /\ ready' = Append(ready, [handler |-> "onData", conn |-> c])
    /\ UNCHANGED <<phase, acceptor, errors, crashed>>

-----------------------------------------------------------------------------
(* Handlers *)

\* foundTotal is below the limit, or there is no limit to speak of.
HasCapacity(conns) ==
    Cardinality(Open(conns)) <= 0 \/ Cardinality(Open(conns)) < maxConnections

\* onOpen of a connection that was accepted, when another one may be: it is added.
OpenBelowLimit(c) ==
    LET opened == [connection EXCEPT ![c] = "open"] IN
    /\ Runs("onOpen", c)
    /\ connection[c] = "accepted"
    /\ HasCapacity(opened)
    /\ acceptor
    /\ AddConnection(opened)
    /\ ready' = Tail(ready)
    /\ UNCHANGED <<phase, acceptor, errors, crashed>>

\* The same after stop has disposed of the acceptor: addConnection dereferences it.
OpenWithoutAcceptor(c) ==
    /\ Runs("onOpen", c)
    /\ connection[c] = "accepted"
    /\ HasCapacity([connection EXCEPT ![c] = "open"])
    /\ ~acceptor
    /\ crashed' = TRUE
    /\ UNCHANGED <<phase, acceptor, connection, ready, errors>>

\* The limit is reached: the acceptor is disposed of.  No accept is pending on it.
OpenAtLimit(c) ==
    LET opened == [connection EXCEPT ![c] = "open"] IN
    /\ Runs("onOpen", c)
    /\ connection[c] = "accepted"
    /\ ~HasCapacity(opened)
    /\ acceptor' = FALSE
    /\ connection' = opened
    /\ ready' = Tail(ready)
    /\ UNCHANGED <<phase, errors, crashed>>

\* Mutant: the connection is deleted at once.
CloseAndDelete(h, c) ==
    /\ Runs(h, c)
    /\ connection[c] \in {"refused", "failing"}
    /\ connection' = [k \in DOMAIN connection \ {c} |-> connection[k]]
    /\ ready' = Append(Tail(ready), [handler |-> "onStop", conn |-> c])
    /\ UNCHANGED <<phase, acceptor, errors, crashed>>

\* Mutant: onStop is called twice.
CloseTwice(h, c) ==
    /\ Runs(h, c)
    /\ connection[c] \in {"refused", "failing"}
    /\ connection' = [connection EXCEPT ![c] = "closed"]
    /\ ready' = Tail(ready) \o <<[handler |-> "onStop", conn |-> c],
                                 [handler |-> "onStop", conn |-> c]>>
    /\ UNCHANGED <<phase, acceptor, errors, crashed>>

\* onOpen or onData with an error: onClose, which submits the stop callback.
Close(h, c) ==
    /\ Runs(h, c)
    /\ connection[c] \in {"refused", "failing"}
    /\ connection' = [connection EXCEPT ![c] = "closed"]
    /\ ready' = Append(Tail(ready), [handler |-> "onStop", conn |-> c])
    /\ UNCHANGED <<phase, acceptor, errors, crashed>>

\* The stop callback submits the removal.
StopCallback(c) ==
    /\ Runs("onStop", c)
    /\ ready' = Append(Tail(ready), [handler |-> "remove", conn |-> c])
    /\ UNCHANGED <<phase, acceptor, connection, errors, crashed>>

\* Mutant: the acceptor is not started again.
RemoveOnly(c) ==
    /\ Runs("remove", c)
    /\ ready' = Tail(ready)
    /\ connection' = [connection EXCEPT ![c] = "none"]
    /\ UNCHANGED <<phase, acceptor, errors, crashed>>

\* The connection is removed; a server that had reached its limit accepts again.
RemoveConnection(c) ==
    LET removed == [connection EXCEPT ![c] = "none"]
        restart == phase = "started" /\ ~acceptor IN
    /\ Runs("remove", c)
    /\ ready' = Tail(ready)
    /\ acceptor' = (acceptor \/ restart)
    /\ IF restart THEN AddConnection(removed) ELSE connection' = removed
    /\ UNCHANGED <<phase, errors, crashed>>

-----------------------------------------------------------------------------
Network == \E c \in Connections : Accepted(c) \/ Refused(c) \/ ReadFails(c)

Run ==
    \E c \in Connections :
        \/ OpenBelowLimit(c) \/ OpenWithoutAcceptor(c) \/ OpenAtLimit(c)
        \/ \E h \in {"onOpen", "onData"} : Close(h, c)
        \/ StopCallback(c) \/ RemoveConnection(c)

-----------------------------------------------------------------------------
(* Properties *)

\* Every connection object has a state.
TypeOKServer ==
    /\ phase \in {"created", "started", "stopped"}
    /\ acceptor \in BOOLEAN
    /\ connection \in [Connections -> States]
    /\ errors \in 0..MaxErrors
    /\ crashed \in BOOLEAN

\* A handler captures its connection by reference: none is left when the connection
\* is removed, not even for the object that takes its place.
HandlersHaveConnection ==
    \A i \in DOMAIN ready : ready[i].conn \in Connections =>
        /\ connection[ready[i].conn] \in {"accepted", "refused", "failing", "closed"}
        /\ \A j \in DOMAIN ready : ready[i].conn = ready[j].conn => i = j

\* One connection at most waits for a client, on an acceptor that exists.  A server that
\* was started accepts clients, or a removal is to come that lets it, unless accepting has
\* failed; one that was stopped does not, whatever removals are still to come.
Serves ==
    LET waiting == In("accepting") \cup In("accepted") IN
    /\ Cardinality(waiting) <= 1
    /\ ~acceptor => In("accepting") = {}
    /\ acceptor => phase = "started"
    /\ phase = "started" /\ errors = 0 =>
          IF acceptor THEN waiting # {}
                      ELSE In("open") \cup In("failing") \cup In("closed") # {}
=============================================================================
