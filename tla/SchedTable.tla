------------------------------ MODULE SchedTable ------------------------------
(***************************************************************************)
(* The timer table of struct ss7 (ss7_sched.c): MAX_SCHED slots of which   *)
(* slot 0 is never handed out, each free or holding a callback.  A client  *)
(* keeps the slot number it was given in a variable of its own (link->t1,  *)
(* link->t7, ...), -1 meaning "not scheduled".                             *)
(*                                                                         *)
(* A table and its clients' variables are one value                        *)
(*     tm = [slot |-> slots to callbacks, id |-> timers to slot numbers]   *)
(* in which a callback is named by the timer variable it belongs to, since *)
(* every timer variable of the library has a callback of its own.          *)
(***************************************************************************)
EXTENDS Integers

CONSTANT MaxSched      \* MAX_SCHED, 512 in ss7_internal.h

ASSUME MaxSchedAssumption == MaxSched \in Nat \ {0}

NoCallback == "none"

Slot == 1 .. MaxSched - 1

\* Slot numbers a timer variable can hold; 0 is what calloc() left there.
SlotId == -1 .. MaxSched - 1

TimerTable(timers) ==
    [slot : [Slot -> timers \cup {NoCallback}], id : [timers -> SlotId]]

NewTimerTable(timers) ==
    [slot |-> [x \in Slot |-> NoCallback], id |-> [t \in timers |-> 0]]

FreeSlots(tm) == {x \in Slot : tm.slot[x] = NoCallback}

Least(S) == CHOOSE x \in S : \A y \in S : x <= y

\* ss7_schedule_event: the lowest free slot, or -1 when there is none.  What
\* the timer variable held before is overwritten without being looked at.
ScheduleEvent(tm, t) ==
    IF FreeSlots(tm) = {}
    THEN [tm EXCEPT !.id[t] = -1]
    ELSE LET x == Least(FreeSlots(tm))
         IN  [slot |-> [tm.slot EXCEPT ![x] = t], id |-> [tm.id EXCEPT ![t] = x]]

\* Variant: the variable keeps the number of the slot it gave back.
ScheduleDelStale(tm, t) ==
    IF tm.id[t] < 0
    THEN tm
    ELSE [tm EXCEPT !.slot = [x \in Slot |-> IF x = tm.id[t] THEN NoCallback ELSE @[x]]]

\* ss7_schedule_del: empties whatever slot the variable names, its own or not.
ScheduleDel(tm, t) ==
    IF tm.id[t] < 0
    THEN tm
    ELSE [slot |-> [x \in Slot |-> IF x = tm.id[t] THEN NoCallback ELSE tm.slot[x]],
          id   |-> [tm.id EXCEPT ![t] = -1]]

\* __ss7_schedule_run empties the slot before it calls the callback; the
\* variable of the timer still holds the slot's number then.
TakeSlot(tm, x) == [tm EXCEPT !.slot[x] = NoCallback]
===============================================================================
