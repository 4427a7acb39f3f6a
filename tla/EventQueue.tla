------------------------------ MODULE EventQueue ------------------------------
(***************************************************************************)
(* The event queue of struct ss7 (ss7.c): a ring of MAX_EVENTS slots that  *)
(* ss7_next_empty_event hands out at its tail and ss7_check_event at its   *)
(* head.  ss7_check_event returns a pointer into the ring: MTP3 and then   *)
(* the application work on the slot itself, after it has left the queue,   *)
(* and meanwhile further events are posted (a link that goes down posts    *)
(* MTP3_DOWN, every isup_ call can end in an event).                       *)
(***************************************************************************)
EXTENDS Integers, Sequences

CONSTANTS Event,        \* the events
          NoEvent,      \* what calloc() left in a slot
          MaxEvents     \* MAX_EVENTS, 16

ASSUME EventAssumption == NoEvent \notin Event
ASSUME MaxEventsAssumption == MaxEvents \in Nat \ {0}

VARIABLES ev_q,         \* the slots
          ev_h,         \* the slot of the oldest event
          ev_len,       \* how many events are queued
          posted,       \* the event filled in last
          held,         \* the slot the application works on, -1 for none
          taken         \* what that slot held when ss7_check_event returned it

queue_vars == <<ev_q, ev_h, ev_len, posted, held, taken>>

Index == 0 .. MaxEvents - 1

QueueTypeOK ==
    /\ ev_q \in [Index -> Event \cup {NoEvent}]
    /\ ev_h \in Index
    /\ ev_len \in 0 .. MaxEvents
    /\ held \in Index \cup {-1}
    /\ taken \in Event \cup {NoEvent} /\ posted \in Event \cup {NoEvent}

QueueInit ==
    /\ ev_q = [i \in Index |-> NoEvent]
    /\ ev_h = 0 /\ ev_len = 0
    /\ held = -1 /\ taken = NoEvent /\ posted = NoEvent

\* Variant: the tail is one slot too early.
PostEarly(e) ==
    /\ ev_len # MaxEvents
    /\ ev_q' = [ev_q EXCEPT ![(ev_h + ev_len + MaxEvents - 1) % MaxEvents] = e]
    /\ ev_len' = ev_len + 1
    /\ posted' = e
    /\ UNCHANGED <<ev_h, held, taken>>

\* ss7_next_empty_event and the caller's assignments to the slot
Post(e) ==
    /\ ev_len # MaxEvents
    /\ ev_q' = [ev_q EXCEPT ![(ev_h + ev_len) % MaxEvents] = e]
    /\ ev_len' = ev_len + 1
    /\ posted' = e
    /\ UNCHANGED <<ev_h, held, taken>>

\* Variant: the head wraps around one slot too early.
CheckEventEarly ==
    /\ ev_len # 0
    /\ held' = ev_h
    /\ taken' = ev_q[ev_h]
    /\ ev_h' = (ev_h + 1) % (MaxEvents - 1)
    /\ ev_len' = ev_len - 1
    /\ UNCHANGED <<ev_q, posted>>

\* ss7_check_event; the loop around it is done with the event it had before.
CheckEvent ==
    /\ ev_len # 0
    /\ held' = ev_h
    /\ taken' = ev_q[ev_h]
    /\ ev_h' = (ev_h + 1) % MaxEvents
    /\ ev_len' = ev_len - 1
    /\ UNCHANGED <<ev_q, posted>>

\* ss7_check_event returns NULL and the loop ends.
Drained ==
    /\ ev_len = 0
    /\ held' = -1 /\ taken' = NoEvent
    /\ UNCHANGED <<ev_q, ev_h, ev_len, posted>>

QueueNext == CheckEvent \/ Drained \/ \E e \in Event : Post(e)

QueueSpec == QueueInit /\ [][QueueNext]_queue_vars

-------------------------------------------------------------------------------
(* Properties. *)

Queued == [i \in 1 .. ev_len |-> ev_q[(ev_h + i - 1) % MaxEvents]]

Fifo == INSTANCE EventFifo WITH queue <- Queued, got <- taken

\* The ring keeps the order of events, loses none it took in and hands out what
\* was posted, however the head and the tail wrap around.
FifoOrder == Fifo!Spec

\* The event the application works on stays what it was while others are
\* posted, for as long as they leave room in the ring: the post that fills it
\* writes into the very slot the application is reading.
HeldEventIntact == held # -1 /\ ev_len < MaxEvents => ev_q[held] = taken
===============================================================================
