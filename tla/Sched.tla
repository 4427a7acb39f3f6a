--------------------------------- MODULE Sched ---------------------------------
(***************************************************************************)
(* The scheduler of ss7_sched.c under clients that keep the rules most of  *)
(* the library keeps (t7 of MTP2, the timers of MTP3 and of ISUP): a timer *)
(* is stopped before it is started again, and its callback begins by       *)
(* forgetting the slot number.  ss7_schedule_run takes the time once and   *)
(* then walks the slots upwards; the callbacks it calls start and stop     *)
(* other timers, and the clock goes on.                                    *)
(*                                                                         *)
(* Times are struct timevals: seconds and microseconds.                    *)
(***************************************************************************)
EXTENDS SchedTable

CONSTANTS TimerVar,     \* the timer variables of the clients
          UsecPerMs,    \* 1000
          MsPerSec,     \* 1000
          Durations,    \* the timer durations, in ms
          MaxTime       \* bound on the clock, in microseconds

ASSUME TimerAssumption == NoCallback \notin TimerVar
ASSUME ScaleAssumption ==
    /\ UsecPerMs \in Nat \ {0} /\ MsPerSec \in Nat \ {0}
    /\ Durations \subseteq Nat /\ MaxTime \in Nat

VARIABLES now,          \* gettimeofday(), in microseconds
          tm,           \* the slots' callbacks and the clients' variables
          when,         \* ss7_sched[].when
          due,          \* when the callback of a timer is to be run
          scan,         \* the slot __ss7_schedule_run looks at next, 0 when not running
          tv            \* the time it took when it began

vars == <<now, tm, when, due, scan, tv>>

UsecPerSec == UsecPerMs * MsPerSec

Timeval == [tv_sec : Nat, tv_usec : 0 .. UsecPerSec]

\* What gettimeofday fills in.
TimeOfDay(t) == [tv_sec |-> t \div UsecPerSec, tv_usec |-> t % UsecPerSec]

Before(p, q) ==
    \/ p.tv_sec < q.tv_sec
    \/ p.tv_sec = q.tv_sec /\ p.tv_usec < q.tv_usec

\* Variant: only the seconds are compared.
AtOrBeforeSeconds(p, q) == p.tv_sec <= q.tv_sec

AtOrBefore(p, q) ==
    \/ p.tv_sec < q.tv_sec
    \/ p.tv_sec = q.tv_sec /\ p.tv_usec <= q.tv_usec

\* Variant: nothing is carried.
AfterNoCarry(t, ms) ==
    [tv_sec  |-> TimeOfDay(t).tv_sec + ms \div MsPerSec,
     tv_usec |-> TimeOfDay(t).tv_usec + (ms % MsPerSec) * UsecPerMs]

\* The sum in ss7_schedule_event, which leaves a full second's worth of
\* microseconds uncarried.
After(t, ms) ==
    LET start == TimeOfDay(t)
        sec   == start.tv_sec + ms \div MsPerSec
        usec  == start.tv_usec + (ms % MsPerSec) * UsecPerMs
    IN  IF usec > UsecPerSec
        THEN [tv_sec |-> sec + 1, tv_usec |-> usec - UsecPerSec]
        ELSE [tv_sec |-> sec, tv_usec |-> usec]

TypeOK ==
    /\ now \in Nat /\ tv \in Nat
    /\ tm \in TimerTable(TimerVar)
    /\ when \in [Slot -> Timeval]
    /\ due \in [TimerVar -> Nat]
    /\ scan \in 0 .. MaxSched

Init ==
    /\ now = 0 /\ tv = 0 /\ scan = 0
    /\ tm = [slot |-> [x \in Slot |-> NoCallback], id |-> [t \in TimerVar |-> -1]]
    /\ when = [x \in Slot |-> TimeOfDay(0)]
    /\ due = [t \in TimerVar |-> 0]

-------------------------------------------------------------------------------

\* t = ss7_schedule_event(ss7, ms, ...), on a table left as "table" by what ran
\* before in the same call.
Arming(table, t, ms) ==
    /\ tm' = ScheduleEvent(table, t)
    /\ IF tm'.id[t] = -1
       THEN UNCHANGED <<when, due>>
       ELSE /\ when' = [when EXCEPT ![tm'.id[t]] = After(now, ms)]
            /\ due' = [due EXCEPT ![t] = now + ms * UsecPerMs]

Tick == now < MaxTime /\ now' = now + 1 /\ UNCHANGED <<tm, when, due, scan, tv>>

\* Outside ss7_schedule_run: a timer is (re)started ...
Start(t, ms) ==
    /\ scan = 0
    /\ Arming(ScheduleDel(tm, t), t, ms)
    /\ UNCHANGED <<now, scan, tv>>

\* ... or stopped.
Stop(t) ==
    /\ scan = 0
    /\ tm' = ScheduleDel(tm, t)
    /\ UNCHANGED <<now, when, due, scan, tv>>

\* ss7_schedule_run
Run ==
    /\ scan = 0
    /\ scan' = 1
    /\ tv' = now
    /\ UNCHANGED <<now, tm, when, due>>

\* Variant: the last slot is left out.
AdvanceShort == scan' = IF scan >= MaxSched - 2 THEN 0 ELSE scan + 1

Advance == scan' = IF scan = MaxSched - 1 THEN 0 ELSE scan + 1

Ripe == /\ tm.slot[scan] # NoCallback
        /\ AtOrBefore(when[scan], TimeOfDay(tv))

\* The slot is free or not due yet.
Skip ==
    /\ scan \in Slot
    /\ ~Ripe
    /\ Advance
    /\ UNCHANGED <<now, tm, when, due, tv>>

\* The slot's callback is called: it forgets its own slot number and then
\* starts or stops a timer, or neither.
Fire ==
    /\ scan \in Slot
    /\ Ripe
    /\ LET t    == tm.slot[scan]
           took == [TakeSlot(tm, scan) EXCEPT !.id[t] = -1]
       IN  \/ tm' = took /\ UNCHANGED <<when, due>>
           \/ \E u \in TimerVar : tm' = ScheduleDel(took, u) /\ UNCHANGED <<when, due>>
           \/ \E u \in TimerVar, ms \in Durations : Arming(ScheduleDel(took, u), u, ms)
    /\ Advance
    /\ UNCHANGED <<now, tv>>

Next ==
    \/ Tick \/ Run \/ Skip \/ Fire
    \/ \E t \in TimerVar : Stop(t) \/ \E ms \in Durations : Start(t, ms)

Spec == Init /\ [][Next]_vars

-------------------------------------------------------------------------------
(* Properties. *)

\* A slot and the variable that names it belong together: no timer sits in two
\* slots, and stopping one never empties the slot of another.
Owned ==
    /\ \A x \in Slot : tm.slot[x] # NoCallback => tm.id[tm.slot[x]] = x
    /\ \A t \in TimerVar : tm.id[t] # -1 => tm.id[t] # 0 /\ tm.slot[tm.id[t]] = t

\* No callback is called before its time, whatever the carry of the
\* microseconds makes of the deadline.
NeverEarly == [][Fire => due[tm.slot[scan]] <= now]_vars

\* A run leaves nothing behind it that was overdue when it began, although its
\* callbacks start and stop timers under it.
NoneLeftBehind ==
    \A x \in Slot :
        (scan = 0 \/ x < scan) /\ tm.slot[x] # NoCallback => due[tm.slot[x]] >= tv

\* ss7_schedule_next
NextSlot ==
    LET armed == {x \in Slot : tm.slot[x] # NoCallback}
    IN  CHOOSE x \in armed :
            /\ \A y \in armed : ~Before(when[y], when[x])
            /\ \A y \in armed : y < x => Before(when[x], when[y])

\* The main loop, sleeping until what ss7_schedule_next returns, oversleeps no
\* timer.
WakesInTime ==
    \A x \in Slot : tm.slot[x] # NoCallback => due[tm.slot[NextSlot]] <= due[tm.slot[x]]
===============================================================================
