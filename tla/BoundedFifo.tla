------------------------------ MODULE BoundedFifo ------------------------------
(***************************************************************************)
(* What RealTimeQueue promises: a bounded first-in-first-out queue with    *)
(* one producer and one consumer.  The consumer is lent the first item     *)
(* and either takes it out or leaves it in; while it holds the item, the   *)
(* item does not change.                                                   *)
(***************************************************************************)
EXTENDS Naturals, Sequences

CONSTANTS
    Items,
    None,      \* not an item
    Capacity   \* a natural number

VARIABLES
    queue,   \* the items, first in first
    lent     \* the item the consumer is using, or None

Init == queue = <<>> /\ lent = None

Put(v) ==
    /\ Len(queue) < Capacity
    /\ queue' = Append(queue, v)
    /\ UNCHANGED lent

Lend ==
    /\ lent = None
    /\ queue # <<>>
    /\ lent' = Head(queue)
    /\ UNCHANGED queue

Take ==
    /\ lent # None
    /\ queue' = Tail(queue)
    /\ lent' = None

Leave ==
    /\ lent # None
    /\ lent' = None
    /\ UNCHANGED queue

Next == (\E v \in Items : Put(v)) \/ Lend \/ Take \/ Leave

Spec == Init /\ [][Next]_<<queue, lent>>
=============================================================================
