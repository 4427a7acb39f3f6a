------------------------------- MODULE EventFifo -------------------------------
(***************************************************************************)
(* What the event queue of struct ss7 is for: events reach the application *)
(* in the order they were posted, and one that finds no room is refused.   *)
(***************************************************************************)
EXTENDS Naturals, Sequences

CONSTANTS Event,        \* the events
          NoEvent,      \* no event
          MaxEvents     \* MAX_EVENTS

VARIABLES queue,        \* what has been posted and not yet taken
          posted,       \* the event posted last
          got           \* the event the application works on

vars == <<queue, posted, got>>

TypeOK ==
    /\ queue \in Seq(Event) /\ Len(queue) <= MaxEvents
    /\ posted \in Event \cup {NoEvent} /\ got \in Event \cup {NoEvent}

Init == queue = <<>> /\ posted = NoEvent /\ got = NoEvent

Post(e) ==
    /\ Len(queue) < MaxEvents
    /\ queue' = Append(queue, e)
    /\ posted' = e
    /\ UNCHANGED got

Take ==
    /\ queue # <<>>
    /\ got' = Head(queue)
    /\ queue' = Tail(queue)
    /\ UNCHANGED posted

Done == queue = <<>> /\ got' = NoEvent /\ UNCHANGED <<queue, posted>>

Next == Take \/ Done \/ \E e \in Event : Post(e)

Spec == Init /\ [][Next]_vars
===============================================================================
