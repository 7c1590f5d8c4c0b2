----------------------------- MODULE ChunkSource -----------------------------
(***************************************************************************)
(* What a source promises the event loop: a bounded queue of streams, each *)
(* of one data chunk or more and an end, whose first chunk is offered      *)
(* until it is taken, and consuming, which tells whether more of a stream  *)
(* is to be waited for.  A data chunk may be lost when the queue is full,  *)
(* the end of a stream may not: it is put off.                             *)
(***************************************************************************)
EXTENDS Naturals, Sequences

CONSTANT Capacity   \* chunks the queue has room for, a natural number

VARIABLES
    queue,       \* of "data" and "end"
    atBeginning, \* nothing of the current stream has been queued
    capturing,   \* the thread may queue chunks
    consuming    \* a chunk was offered, and no end of a stream taken since

sourceVars == <<queue, atBeginning, capturing, consuming>>

Init ==
    /\ queue = <<>>
    /\ atBeginning = TRUE
    /\ capturing = FALSE
    /\ consuming = FALSE

Begin ==
    /\ capturing' = TRUE
    /\ UNCHANGED <<queue, atBeginning, consuming>>

Put(chunk) ==
    /\ capturing
    /\ Len(queue) < Capacity
    /\ queue' = Append(queue, chunk)
    /\ atBeginning' = (chunk = "end")
    /\ UNCHANGED <<capturing, consuming>>

PutData == Put("data")

PutEnd == ~atBeginning /\ Put("end")

End ==
    /\ capturing' = FALSE
    /\ UNCHANGED <<queue, atBeginning, consuming>>

Take ==
    /\ queue # <<>>
    /\ queue' = Tail(queue)
    /\ consuming' = (Head(queue) # "end")
    /\ UNCHANGED <<atBeginning, capturing>>

Leave ==
    /\ queue # <<>>
    /\ consuming' = TRUE
    /\ UNCHANGED <<queue, atBeginning, capturing>>

Next == Begin \/ PutData \/ PutEnd \/ End \/ Take \/ Leave

Spec == Init /\ [][Next]_sourceVars

-----------------------------------------------------------------------------
(* Properties *)

TypeOK ==
    /\ queue \in Seq({"data", "end"})
    /\ atBeginning \in BOOLEAN /\ capturing \in BOOLEAN /\ consuming \in BOOLEAN

\* An end comes only after data: the consumer gets streams that are not empty, each ended
\* once, whatever chunks were lost and left.
EndsFollowData ==
    \A i \in DOMAIN queue :
        queue[i] = "end" => IF i = 1 THEN consuming ELSE queue[i - 1] = "data"

\* While the event loop waits for more of a stream its end is queued, or the thread still
\* owes it: the event loop would wait for ever otherwise.
EndIsDue ==
    consuming => ~atBeginning \/ \E i \in DOMAIN queue : queue[i] = "end"
=============================================================================
