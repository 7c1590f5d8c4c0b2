----------------------------- MODULE AudioStream -----------------------------
(***************************************************************************)
(* What a StreamingSession promises the Streamer and its client: a life in *)
(* phases that only go forward, during which the buffers the encoder       *)
(* filled reach the client in order, none skipped and none after the       *)
(* session has stopped.                                                    *)
(***************************************************************************)
EXTENDS Naturals

VARIABLES
    phase,     \* of the session, as the Streamer sees it
    sent,      \* buffers the encoder has filled
    received   \* buffers the client has received

audioVars == <<phase, sent, received>>

\* The phases in their order; "free" is a session that nobody refers to any more.
Rank == [none |-> 0, running |-> 1, flushing |-> 2, stopped |-> 3, free |-> 4]

Init ==
    /\ phase = "none"
    /\ sent = 0
    /\ received = 0

\* The encoder may fill buffers when it starts, runs, or finishes.
Fills == sent' \in Nat /\ sent <= sent'

Encode ==
    /\ phase = "running"
    /\ Fills
    /\ UNCHANGED <<phase, received>>

\* The session starts, stops, is flushed or closed.
Advance ==
    /\ phase' \in DOMAIN Rank
    /\ Rank[phase] < Rank[phase']
    /\ IF phase \in {"none", "running"} THEN Fills ELSE UNCHANGED sent
    /\ UNCHANGED received

\* The next buffer is transferred.  It may still be when the session has been closed,
\* for a transfer in progress, but not when it has stopped.
Deliver ==
    /\ phase \in {"running", "flushing", "free"}
    /\ received < sent
    /\ received' = received + 1
    /\ UNCHANGED <<phase, sent>>

Next == Encode \/ Advance \/ Deliver

Spec == Init /\ [][Next]_audioVars
=============================================================================
