----------------------------- MODULE RealTimeQueue -----------------------------
(***************************************************************************)
(* The lock-free queue between a Source's producer thread (enqueue) and    *)
(* the event loop (dequeue).  A step is one access to shared memory: the   *)
(* acquire load of the other thread's counter, the mover's use of the      *)
(* slot, the release store of the thread's own counter.                    *)
(*                                                                         *)
(* An acquire load need not return the last value stored: it returns that  *)
(* value or an earlier one, though none earlier than the thread has seen.  *)
(* A thread's relaxed load of its own counter returns what it last stored. *)
(***************************************************************************)
EXTENDS Integers, Sequences

CONSTANTS
    Items,   \* chunks
    None,    \* a slot nothing, or only a part of a chunk, was written to
    Size,    \* slots; a power of two in the code
    Wrap     \* the counters are unsigned numbers modulo Wrap (2^64)

ASSUME SizeAssumption == Size \in Nat \ {0}
ASSUME WrapAssumption == Wrap \in Nat \ {0} /\ Wrap % Size = 0
ASSUME NoneAssumption == None \notin Items

VARIABLES
    buffer,    \* slots
    head,      \* _head, stored by the producer
    tail,      \* _tail, stored by the consumer
    seenHead,  \* the value of head the consumer loaded last
    seenTail,  \* the value of tail the producer loaded last
    producer,  \* where the producer is in enqueue
    consumer   \* where the consumer is in dequeue

vars == <<buffer, head, tail, seenHead, seenTail, producer, consumer>>

Counters == 0..(Wrap - 1)
Slots == 0..(Size - 1)

\* counter & _mask, where Wrap is a multiple of Size
Slot(i) == i % Size

\* Steps from counter value a to counter value b.
Distance(a, b) == (b - a) % Wrap

Init ==
    /\ buffer = [i \in Slots |-> None]
    /\ head = 0 /\ tail = 0
    /\ seenHead = 0 /\ seenTail = 0
    /\ producer = "idle"
    /\ consumer = "idle"

\* What an acquire load of a counter may return.
Loads(seen, current) == {(seen + d) % Wrap : d \in 0..Distance(seen, current)}

-----------------------------------------------------------------------------
(* enqueue *)

\* There is room: one slot is always kept free.
HasRoom(t) == Slot(t - (head + 1)) >= 1

\* There is room: the mover starts to write the slot.
EnqueueLoad ==
    /\ producer = "idle"
    /\ seenTail' \in Loads(seenTail, tail)
    /\ HasRoom(seenTail')
    /\ producer' = "writing"
    /\ buffer' = [buffer EXCEPT ![Slot(head)] = None]
    /\ UNCHANGED <<head, tail, seenHead, consumer>>

\* There is none: the overflow handler is called and the item is lost.
EnqueueOverflow ==
    /\ producer = "idle"
    /\ seenTail' \in Loads(seenTail, tail)
    /\ ~HasRoom(seenTail')
    /\ UNCHANGED <<buffer, head, tail, seenHead, producer, consumer>>

\* The mover has written the slot, and returns true or false.
EnqueueMoved(v) ==
    /\ producer = "writing"
    /\ buffer' = [buffer EXCEPT ![Slot(head)] = v]
    /\ producer' \in {"moved", "idle"}
    /\ UNCHANGED <<head, tail, seenHead, seenTail, consumer>>

\* Mutant: the counter is stored before the slot is written.
EnqueueStoreEarly ==
    /\ producer = "writing"
    /\ head' = (head + 1) % Wrap
    /\ producer' = "idle"
    /\ UNCHANGED <<buffer, tail, seenHead, seenTail, consumer>>

EnqueueStore ==
    /\ producer = "moved"
    /\ head' = (head + 1) % Wrap
    /\ producer' = "idle"
    /\ UNCHANGED <<buffer, tail, seenHead, seenTail, consumer>>

-----------------------------------------------------------------------------
(* dequeue *)

\* Mutant: the check lets an empty queue pass.
HasItemOrEmpty(h) == Slot(h - tail) >= 0

HasItem(h) == Slot(h - tail) >= 1

\* There is an item: the mover is called with it.
DequeueLoad ==
    /\ consumer = "idle"
    /\ seenHead' \in Loads(seenHead, head)
    /\ HasItem(seenHead')
    /\ consumer' = "using"
    /\ UNCHANGED <<buffer, head, tail, seenTail, producer>>

\* There is none: the underflow handler is called.
DequeueUnderflow ==
    /\ consumer = "idle"
    /\ seenHead' \in Loads(seenHead, head)
    /\ ~HasItem(seenHead')
    /\ UNCHANGED <<buffer, head, tail, seenTail, producer, consumer>>

\* The mover consumed the item.
DequeueStore ==
    /\ consumer = "using"
    /\ tail' = (tail + 1) % Wrap
    /\ consumer' = "idle"
    /\ UNCHANGED <<buffer, head, seenHead, seenTail, producer>>

\* The mover did not consume the item.
DequeueKeep ==
    /\ consumer = "using"
    /\ consumer' = "idle"
    /\ UNCHANGED <<buffer, head, tail, seenHead, seenTail, producer>>

-----------------------------------------------------------------------------
Next ==
    \/ EnqueueLoad \/ EnqueueOverflow \/ EnqueueStore
    \/ \E v \in Items : EnqueueMoved(v)
    \/ DequeueLoad \/ DequeueUnderflow \/ DequeueStore \/ DequeueKeep

Spec == Init /\ [][Next]_vars

-----------------------------------------------------------------------------
(* Properties *)

\* Counters stay within their width, slots hold items or None.
TypeOK ==
    /\ buffer \in [Slots -> Items \cup {None}]
    /\ head \in Counters /\ tail \in Counters
    /\ seenHead \in Counters /\ seenTail \in Counters
    /\ producer \in {"idle", "writing", "moved"}
    /\ consumer \in {"idle", "using"}

\* What each thread believes is safe: going round from the producer's view of the
\* tail one meets the tail, the consumer's view of the head and the head, and one
\* slot is left free, however often the counters have wrapped.
Window ==
    Distance(seenTail, tail) + Distance(tail, seenHead) + Distance(seenHead, head)
        <= Size - 1

\* The threads never use the same slot: the movers need no lock.
NoRace == producer # "idle" /\ consumer = "using" => Slot(head) # Slot(tail)

\* The items between tail and head.
Content == [i \in 1..Distance(tail, head) |-> buffer[Slot(tail + i - 1)]]

Lent == IF consumer = "using" THEN buffer[Slot(tail)] ELSE None

Fifo == INSTANCE BoundedFifo WITH
            Capacity <- Size - 1, queue <- Content, lent <- Lent

\* The queue is a bounded FIFO of Size - 1 items: nothing is lost, repeated or
\* changed between the enqueue that accepted an item and the dequeue that took it.
ImplementsFifo == Fifo!Spec
=============================================================================
