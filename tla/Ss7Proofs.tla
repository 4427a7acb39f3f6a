------------------------------- MODULE Ss7Proofs -------------------------------
(***************************************************************************)
(* What the main loop of an application runs on.  The scheduler of         *)
(* ss7_sched.c, for any number of slots and timers: a client that stops a  *)
(* timer before it starts it again, and forgets the slot number in the     *)
(* callback, always names its own slot, and no timer runs early or is left *)
(* behind.  The event ring of ss7.c, for every size of it: it stays well   *)
(* formed, it is a FIFO, and the slot the application works on is safe     *)
(* until the ring is full again.                                           *)
(***************************************************************************)
EXTENDS Sched, SchedTableProofs, EventQueue, SequenceTheorems

-------------------------------------------------------------------------------
(* The scheduler. *)

\* The deadline ss7_schedule_event stores is a struct timeval, of which the
\* microseconds can be a full second but no more.
LEMMA AfterType ==
    ASSUME NEW t \in Nat, NEW ms \in Nat
    PROVE  After(t, ms) \in Timeval
<1> USE ScaleAssumption
<1> DEFINE rest == (ms % MsPerSec) * UsecPerMs
<1>1. UsecPerSec \in Nat \ {0} BY DEF UsecPerSec
<1>2. t \div UsecPerSec \in Nat /\ t % UsecPerSec \in 0 .. UsecPerSec - 1
  BY <1>1
<1>3. ms \div MsPerSec \in Nat /\ ms % MsPerSec \in 0 .. MsPerSec - 1
  OBVIOUS
<1>4. rest \in Nat /\ rest <= UsecPerSec
  <2>1. ASSUME NEW m \in 0 .. MsPerSec - 1
        PROVE  m * UsecPerMs \in Nat /\ m * UsecPerMs <= UsecPerMs * MsPerSec
    OBVIOUS
  <2>q. QED BY <1>3, <2>1 DEF UsecPerSec
<1> HIDE DEF rest
<1>5. (t % UsecPerSec) + rest \in 0 .. (2 * UsecPerSec) BY <1>1, <1>2, <1>4
<1> DEFINE start == TimeOfDay(t)
           sec   == start.tv_sec + ms \div MsPerSec
           usec  == start.tv_usec + rest
<1>6. sec \in Nat /\ usec \in 0 .. (2 * UsecPerSec)
  <2>1. start.tv_sec = t \div UsecPerSec /\ start.tv_usec = t % UsecPerSec
    BY DEF TimeOfDay
  <2>q. QED BY <1>1, <1>2, <1>3, <1>5, <2>1
<1>7. After(t, ms) = IF usec > UsecPerSec
                     THEN [tv_sec |-> sec + 1, tv_usec |-> usec - UsecPerSec]
                     ELSE [tv_sec |-> sec, tv_usec |-> usec]
  BY DEF After, rest
<1> HIDE DEF sec, usec
<1>q. QED BY <1>1, <1>6, <1>7 DEF Timeval

-------------------------------------------------------------------------------
(* The invariants. *)

\* Slots and variables belong together, and no variable holds the 0 of a
\* calloc(): the clients of Sched set theirs to -1.
OwnedIn(table) ==
    Belong(TimerVar, table) /\ \A t \in TimerVar : table.id[t] # 0

\* ss7_schedule_del keeps this.
LEMMA DelOwned ==
    ASSUME NEW table \in TimerTable(TimerVar), OwnedIn(table), NEW t \in TimerVar
    PROVE  /\ ScheduleDel(table, t) \in TimerTable(TimerVar)
           /\ OwnedIn(ScheduleDel(table, t))
           /\ ScheduleDel(table, t).id[t] = -1
<1>1. Belong(TimerVar, table) /\ table.id \in [TimerVar -> SlotId]
  BY DEF OwnedIn, TimerTable
<1>2. Belong(TimerVar, ScheduleDel(table, t)) BY <1>1, DelBelong
<1>3. /\ ScheduleDel(table, t) \in TimerTable(TimerVar)
      /\ ScheduleDel(table, t).id = [table.id EXCEPT ![t] = -1]
  BY ScheduleDelEffect
<1>4. \A u \in TimerVar : ScheduleDel(table, t).id[u] # 0 BY <1>1, <1>3 DEF OwnedIn
<1>q. QED BY <1>1, <1>2, <1>3, <1>4 DEF OwnedIn

\* ss7_schedule_event after ss7_schedule_del.
LEMMA ArmingInv ==
    ASSUME TypeOK, NEW table \in TimerTable(TimerVar), OwnedIn(table),
           NEW t \in TimerVar, NEW ms \in Durations,
           Arming(ScheduleDel(table, t), t, ms)
    PROVE  /\ tm' \in TimerTable(TimerVar) /\ OwnedIn(tm')
           /\ when' \in [Slot -> Timeval] /\ due' \in [TimerVar -> Nat]
<1> USE ScaleAssumption
<1> DEFINE d == ScheduleDel(table, t)
<1>1. d \in TimerTable(TimerVar) /\ OwnedIn(d) /\ d.id[t] = -1
  BY DelOwned
<1>2. tm' = ScheduleEvent(d, t) BY DEF Arming
<1> HIDE DEF d
<1>3. tm' \in TimerTable(TimerVar) /\ OwnedIn(tm')
  <2>1. Belong(TimerVar, d) /\ d.id[t] \notin Slot /\ \A u \in TimerVar : d.id[u] # 0
    BY <1>1 DEF OwnedIn, Slot
  <2>2. Belong(TimerVar, tm') BY <1>1, <1>2, <2>1, EventBelong, TimerAssumption
  <2>3. /\ tm' \in TimerTable(TimerVar)
        /\ \A u \in TimerVar \ {t} : tm'.id[u] = d.id[u]
        /\ tm'.id[t] = -1 \/ tm'.id[t] \in Slot
    <3>1. /\ ScheduleEvent(d, t) \in TimerTable(TimerVar)
          /\ \A u \in TimerVar \ {t} : ScheduleEvent(d, t).id[u] = d.id[u]
      BY <1>1, ScheduleEventEffect
    <3>2. \/ ScheduleEvent(d, t).id[t] = -1
          \/ ScheduleEvent(d, t).id[t] \in Slot
      BY <1>1, ScheduleEventId
    <3>q. QED BY <1>2, <3>1, <3>2
  <2>4. \A u \in TimerVar : tm'.id[u] # 0 BY <2>1, <2>3 DEF Slot
  <2>q. QED BY <2>2, <2>3, <2>4 DEF OwnedIn
<1>4. when' \in [Slot -> Timeval] /\ due' \in [TimerVar -> Nat]
  <2>1. CASE tm'.id[t] = -1 BY <2>1 DEF Arming, TypeOK
  <2>2. CASE tm'.id[t] # -1
    <3>1. ms \in Nat /\ now \in Nat BY DEF TypeOK
    <3>2. After(now, ms) \in Timeval BY <3>1, AfterType
    <3>3. now + ms * UsecPerMs \in Nat BY <3>1
    <3>q. QED BY <2>2, <3>2, <3>3 DEF Arming, TypeOK
  <2>q. QED BY <2>1, <2>2
<1>q. QED BY <1>3, <1>4

Inv == TypeOK /\ OwnedIn(tm)

\* The table begins empty.
LEMMA InitInv == Init => Inv
<1> SUFFICES ASSUME Init PROVE Inv OBVIOUS
<1> USE MaxSchedAssumption, ScaleAssumption DEF Init
<1>1. TimeOfDay(0) \in Timeval
  <2>1. UsecPerSec \in Nat \ {0} BY DEF UsecPerSec
  <2>2. 0 \div UsecPerSec \in Nat /\ 0 % UsecPerSec \in 0 .. UsecPerSec BY <2>1
  <2>q. QED BY <2>2 DEF TimeOfDay, Timeval
<1>2. tm \in TimerTable(TimerVar) BY DEF TimerTable, SlotId
<1>3. OwnedIn(tm) BY DEF OwnedIn, Belong, Slot
<1>q. QED BY <1>1, <1>2, <1>3 DEF Inv, TypeOK

\* Every step of the scheduler and of its clients keeps the invariant.
LEMMA NextInv == Inv /\ [Next]_vars => Inv'
<1> SUFFICES ASSUME Inv, [Next]_vars PROVE Inv' OBVIOUS
<1> USE MaxSchedAssumption, ScaleAssumption DEF Inv
<1>0. OwnedIn(tm)' <=> OwnedIn(tm') BY DEF OwnedIn, Belong
<1>1. CASE Tick BY <1>1, <1>0 DEF Tick, TypeOK
<1>2. ASSUME NEW t \in TimerVar, NEW ms \in Durations, Start(t, ms) PROVE Inv'
  <2>1. tm \in TimerTable(TimerVar) /\ Arming(ScheduleDel(tm, t), t, ms)
    BY <1>2 DEF Start, TypeOK
  <2>2. /\ tm' \in TimerTable(TimerVar) /\ OwnedIn(tm')
        /\ when' \in [Slot -> Timeval] /\ due' \in [TimerVar -> Nat]
    BY <2>1, ArmingInv
  <2>q. QED BY <1>0, <1>2, <2>2 DEF Start, TypeOK
<1>3. ASSUME NEW t \in TimerVar, Stop(t) PROVE Inv'
  <2>1. tm' \in TimerTable(TimerVar) /\ OwnedIn(tm')
    BY <1>3, DelOwned DEF Stop, TypeOK
  <2>q. QED BY <1>0, <1>3, <2>1 DEF Stop, TypeOK
<1>4. CASE Run
  BY <1>0, <1>4 DEF Run, TypeOK
<1>5. CASE Skip
  BY <1>0, <1>5 DEF Skip, Advance, TypeOK, Slot
<1>6. CASE Fire
  <2> DEFINE took == [TakeSlot(tm, scan) EXCEPT !.id[tm.slot[scan]] = -1]
  <2>1. scan \in Slot /\ tm.slot[scan] # NoCallback BY <1>6 DEF Fire, Ripe
  <2>2. took \in TimerTable(TimerVar) /\ OwnedIn(took)
    <3>1. tm.slot[scan] \in TimerVar BY <2>1 DEF TypeOK, TimerTable
    <3>2. took = ScheduleDel(tm, tm.slot[scan])
      BY <2>1, TakeIsDel DEF TypeOK, OwnedIn
    <3>q. QED BY <3>1, <3>2, DelOwned DEF TypeOK
  <2>3. scan' \in 0 .. MaxSched /\ now' = now /\ tv' = tv
    BY <1>6, <2>1 DEF Fire, Advance, Slot
  <2>4. \/ tm' = took /\ UNCHANGED <<when, due>>
        \/ \E u \in TimerVar : tm' = ScheduleDel(took, u) /\ UNCHANGED <<when, due>>
        \/ \E u \in TimerVar, ms \in Durations : Arming(ScheduleDel(took, u), u, ms)
    BY <1>6 DEF Fire
  <2> HIDE DEF took
  <2>5. CASE tm' = took /\ UNCHANGED <<when, due>>
    BY <1>0, <2>2, <2>3, <2>5 DEF TypeOK
  <2>6. ASSUME NEW u \in TimerVar, tm' = ScheduleDel(took, u), UNCHANGED <<when, due>>
        PROVE  Inv'
    <3>1. tm' \in TimerTable(TimerVar) /\ OwnedIn(tm') BY <2>2, <2>6, DelOwned
    <3>q. QED BY <1>0, <2>3, <2>6, <3>1 DEF TypeOK
  <2>7. ASSUME NEW u \in TimerVar, NEW ms \in Durations,
               Arming(ScheduleDel(took, u), u, ms)
        PROVE  Inv'
    <3>1. /\ tm' \in TimerTable(TimerVar) /\ OwnedIn(tm')
          /\ when' \in [Slot -> Timeval] /\ due' \in [TimerVar -> Nat]
      BY <2>2, <2>7, ArmingInv
    <3>q. QED BY <1>0, <2>3, <3>1 DEF TypeOK
  <2>q. QED BY <2>4, <2>5, <2>6, <2>7
<1>7. CASE UNCHANGED vars BY <1>0, <1>7 DEF vars, TypeOK
<1>q. QED BY <1>1, <1>2, <1>3, <1>4, <1>5, <1>6, <1>7 DEF Next

\* The invariant holds in every reachable state.
LEMMA AlwaysInv == Spec => []Inv
BY InitInv, NextInv, PTL DEF Spec

\* The variables of the scheduler keep their types for any number of slots and
\* timers, whatever the callbacks start and stop (ss7_sched.c).
THEOREM TypeCorrect == Spec => []TypeOK
<1>1. Inv => TypeOK BY DEF Inv
<1>q. QED BY <1>1, AlwaysInv, PTL

\* A timer that is stopped before it is started and forgets its number when it
\* expires always names its own slot, even when all MAX_SCHED slots are taken
\* (ss7_schedule_event, ss7_schedule_del, __ss7_schedule_run).
THEOREM OwnSlot == Spec => []Owned
<1>1. Inv => Owned
  <2> SUFFICES ASSUME Inv PROVE Owned OBVIOUS
  <2>1. \A t \in TimerVar : tm.id[t] # -1 => tm.id[t] \in Slot
    BY MaxSchedAssumption DEF Inv, OwnedIn, TypeOK, TimerTable, SlotId, Slot
  <2>q. QED BY <2>1 DEF Inv, OwnedIn, Belong, Owned
<1>q. QED BY <1>1, AlwaysInv, PTL
-------------------------------------------------------------------------------
(* Deadlines.  A struct timeval whose microseconds are a full second names the *)
(* same moment as its normalised form, and is compared as if it were.          *)

\* The moment a struct timeval names, in microseconds.
Moment(p) == p.tv_sec * UsecPerSec + p.tv_usec

LEMMA UsecPerSecType == UsecPerSec \in Nat \ {0}
BY ScaleAssumption DEF UsecPerSec

\* A second is a second.
LEMMA SecondsApart ==
    ASSUME NEW U \in Nat \ {0}, NEW a \in Nat, NEW b \in Nat, a < b
    PROVE  a * U + U <= b * U
OBVIOUS

LEMMA Divided ==
    ASSUME NEW U \in Nat \ {0}, NEW t \in Nat
    PROVE  t = (t \div U) * U + (t % U)
OBVIOUS

LEMMA Regrouped ==
    ASSUME NEW P \in Nat \ {0}, NEW M \in Nat \ {0}, NEW q \in Nat, NEW r \in Nat
    PROVE  (q * M + r) * P = q * (P * M) + r * P
OBVIOUS

LEMMA MomentType == ASSUME NEW p \in Timeval PROVE Moment(p) \in Nat
<1>1. p.tv_sec \in Nat /\ p.tv_usec \in Nat BY UsecPerSecType DEF Timeval
<1>q. QED BY <1>1, UsecPerSecType DEF Moment

\* gettimeofday fills in the present moment, normalised.
LEMMA TimeOfDayMoment ==
    ASSUME NEW t \in Nat
    PROVE  /\ TimeOfDay(t) \in Timeval
           /\ TimeOfDay(t).tv_usec < UsecPerSec
           /\ Moment(TimeOfDay(t)) = t
<1>1. t \div UsecPerSec \in Nat /\ t % UsecPerSec \in 0 .. UsecPerSec - 1
  BY UsecPerSecType
<1>2. /\ TimeOfDay(t).tv_sec = t \div UsecPerSec
      /\ TimeOfDay(t).tv_usec = t % UsecPerSec
  BY DEF TimeOfDay
<1>3. TimeOfDay(t) \in Timeval BY <1>1, UsecPerSecType DEF TimeOfDay, Timeval
<1>q. QED BY <1>1, <1>2, <1>3, UsecPerSecType, Divided DEF Moment

\* The deadline that ss7_schedule_event adds up is ms from now, the carry of a
\* full second left out or not.
LEMMA AfterMoment ==
    ASSUME NEW t \in Nat, NEW ms \in Nat
    PROVE  Moment(After(t, ms)) = t + ms * UsecPerMs
<1> DEFINE sec  == TimeOfDay(t).tv_sec + ms \div MsPerSec
           usec == TimeOfDay(t).tv_usec + (ms % MsPerSec) * UsecPerMs
<1>1. ms \div MsPerSec \in Nat /\ ms % MsPerSec \in Nat BY ScaleAssumption
<1>2. ms * UsecPerMs = (ms \div MsPerSec) * UsecPerSec + (ms % MsPerSec) * UsecPerMs
  <2>1. ms = (ms \div MsPerSec) * MsPerSec + (ms % MsPerSec) BY ScaleAssumption, Divided
  <2>q. QED BY <1>1, <2>1, ScaleAssumption, Regrouped DEF UsecPerSec
<1>3. /\ TimeOfDay(t).tv_sec \in Nat /\ TimeOfDay(t).tv_usec \in Nat
      /\ TimeOfDay(t).tv_sec * UsecPerSec + TimeOfDay(t).tv_usec = t
  BY TimeOfDayMoment, UsecPerSecType DEF Moment, Timeval
<1>4. sec \in Nat /\ usec \in Nat BY <1>1, <1>3, ScaleAssumption
<1>5. sec * UsecPerSec + usec = t + ms * UsecPerMs
  <2>1. sec * UsecPerSec = TimeOfDay(t).tv_sec * UsecPerSec
                             + (ms \div MsPerSec) * UsecPerSec
    BY <1>1, <1>3, UsecPerSecType
  <2>q. QED BY <1>1, <1>2, <1>3, <2>1, UsecPerSecType, ScaleAssumption
<1>6. (sec + 1) * UsecPerSec + (usec - UsecPerSec) = sec * UsecPerSec + usec
  BY <1>4, UsecPerSecType
<1>7. After(t, ms) = IF usec > UsecPerSec
                     THEN [tv_sec |-> sec + 1, tv_usec |-> usec - UsecPerSec]
                     ELSE [tv_sec |-> sec, tv_usec |-> usec]
  BY DEF After
<1> HIDE DEF sec, usec
<1>q. QED BY <1>5, <1>6, <1>7 DEF Moment

\* The comparison of __ss7_schedule_run with the time it took.
LEMMA AtOrBeforeMoment ==
    ASSUME NEW p \in Timeval, NEW t \in Nat
    PROVE  AtOrBefore(p, TimeOfDay(t)) <=> Moment(p) <= t
<1> DEFINE q == TimeOfDay(t)
<1>1. /\ q.tv_sec \in Nat /\ q.tv_usec \in Nat /\ q.tv_usec < UsecPerSec
      /\ q.tv_sec * UsecPerSec + q.tv_usec = t
  BY TimeOfDayMoment DEF Moment, Timeval
<1>2. p.tv_sec \in Nat /\ p.tv_usec \in Nat /\ p.tv_usec <= UsecPerSec
  BY UsecPerSecType DEF Timeval
<1>3. AtOrBefore(p, q) <=> \/ p.tv_sec < q.tv_sec
                           \/ p.tv_sec = q.tv_sec /\ p.tv_usec <= q.tv_usec
  BY DEF AtOrBefore
<1> HIDE DEF q
<1>4. CASE p.tv_sec < q.tv_sec
  <2>1. p.tv_sec * UsecPerSec + UsecPerSec <= q.tv_sec * UsecPerSec
    BY <1>1, <1>2, <1>4, UsecPerSecType, SecondsApart
  <2>q. QED BY <1>1, <1>2, <1>3, <1>4, <2>1, UsecPerSecType DEF Moment, q
<1>5. CASE p.tv_sec = q.tv_sec
  BY <1>1, <1>2, <1>3, <1>5, UsecPerSecType DEF Moment, q
<1>6. CASE q.tv_sec < p.tv_sec
  <2>1. q.tv_sec * UsecPerSec + UsecPerSec <= p.tv_sec * UsecPerSec
    BY <1>1, <1>2, <1>6, UsecPerSecType, SecondsApart
  <2>q. QED BY <1>1, <1>2, <1>3, <1>6, <2>1, UsecPerSecType DEF Moment, q
<1>q. QED BY <1>1, <1>2, <1>4, <1>5, <1>6

\* The comparison of ss7_schedule_next, of two deadlines either of which may
\* lack its carry.
LEMMA BeforeMoment ==
    ASSUME NEW p \in Timeval, NEW q \in Timeval
    PROVE  /\ Before(p, q) => Moment(p) <= Moment(q)
           /\ ~ Before(p, q) => Moment(q) <= Moment(p)
<1>1. /\ p.tv_sec \in Nat /\ p.tv_usec \in Nat /\ p.tv_usec <= UsecPerSec
      /\ q.tv_sec \in Nat /\ q.tv_usec \in Nat /\ q.tv_usec <= UsecPerSec
  BY UsecPerSecType DEF Timeval
<1>2. CASE p.tv_sec < q.tv_sec
  <2>1. p.tv_sec * UsecPerSec + UsecPerSec <= q.tv_sec * UsecPerSec
    BY <1>1, <1>2, UsecPerSecType, SecondsApart
  <2>q. QED BY <1>1, <1>2, <2>1, UsecPerSecType DEF Moment, Before
<1>3. CASE p.tv_sec = q.tv_sec
  BY <1>1, <1>3, UsecPerSecType DEF Moment, Before
<1>4. CASE q.tv_sec < p.tv_sec
  <2>1. q.tv_sec * UsecPerSec + UsecPerSec <= p.tv_sec * UsecPerSec
    BY <1>1, <1>4, UsecPerSecType, SecondsApart
  <2>q. QED BY <1>1, <1>4, <2>1, UsecPerSecType DEF Moment, Before
<1>q. QED BY <1>1, <1>2, <1>3, <1>4

-------------------------------------------------------------------------------
(* The invariant with deadlines.                                               *)

\* Every slot holds the deadline of the callback that is in it.
OnTime == \A x \in Slot : tm.slot[x] # NoCallback => Moment(when[x]) = due[tm.slot[x]]

\* The time ss7_schedule_run took is past; what it has walked by was not due then.
TimeInv == Inv /\ OnTime /\ tv <= now /\ NoneLeftBehind

\* ss7_schedule_del puts nothing into a slot.
LEMMA DelEmpties ==
    ASSUME NEW table \in TimerTable(TimerVar), NEW t \in TimerVar, NEW x \in Slot
    PROVE  ScheduleDel(table, t).slot[x] \in {NoCallback, table.slot[x]}
<1>1. /\ ScheduleDel(table, t).id = [table.id EXCEPT ![t] = -1]
      /\ ScheduleDel(table, t).slot[x] = IF x = table.id[t] THEN NoCallback ELSE table.slot[x]
  BY ScheduleDelEffect
<1>q. QED BY <1>1

\* A timer that is restarted has its new deadline, and all others keep theirs.
LEMMA ArmingKeepsOthers ==
    ASSUME TypeOK, NEW table \in TimerTable(TimerVar), OwnedIn(table),
           NEW t \in TimerVar, NEW ms \in Durations,
           Arming(ScheduleDel(table, t), t, ms)
    PROVE  \A x \in Slot : tm'.slot[x] # NoCallback =>
               \/ /\ tm'.slot[x] = t
                  /\ when'[x] = After(now, ms) /\ due'[t] = now + ms * UsecPerMs
               \/ /\ tm'.slot[x] # t /\ tm'.slot[x] = table.slot[x]
                  /\ when'[x] = when[x] /\ due'[tm'.slot[x]] = due[tm'.slot[x]]
<1> DEFINE d == ScheduleDel(table, t)
<1>1. d \in TimerTable(TimerVar) /\ OwnedIn(d) /\ d.id[t] = -1
  BY DelOwned
<1>2. \A x \in Slot : d.slot[x] = NoCallback \/ (d.slot[x] = table.slot[x] /\ d.slot[x] # t)
  <2>1. \A x \in Slot : d.slot[x] # NoCallback => d.id[d.slot[x]] = x
    BY <1>1 DEF OwnedIn, Belong
  <2>2. -1 \notin Slot BY MaxSchedAssumption DEF Slot
  <2>3. /\ d.id = [table.id EXCEPT ![t] = -1]
        /\ \A x \in Slot : d.slot[x] = IF x = table.id[t] THEN NoCallback ELSE table.slot[x]
    BY ScheduleDelEffect
  <2> HIDE DEF d
  <2>q. QED BY <1>1, <2>1, <2>2, <2>3
<1>3. tm' = ScheduleEvent(d, t) BY DEF Arming
<1>4. /\ when \in [Slot -> Timeval] /\ due \in [TimerVar -> Nat]
      /\ tm'.id[t] = -1 => when' = when /\ due' = due
      /\ tm'.id[t] # -1 => /\ when' = [when EXCEPT ![tm'.id[t]] = After(now, ms)]
                           /\ due' = [due EXCEPT ![t] = now + ms * UsecPerMs]
  BY DEF Arming, TypeOK
<1> HIDE DEF d
<1>5. \/ tm'.id[t] = -1 /\ tm'.slot = d.slot
      \/ \E y \in Slot : /\ d.slot[y] = NoCallback /\ tm'.id[t] = y
                         /\ tm'.slot = [d.slot EXCEPT ![y] = t]
  BY <1>1, <1>3, ScheduleEventEffect
<1>6. d.slot \in [Slot -> TimerVar \cup {NoCallback}] BY <1>1 DEF TimerTable
<1>7. CASE tm'.id[t] = -1 /\ tm'.slot = d.slot BY <1>2, <1>4, <1>7
<1>8. ASSUME NEW y \in Slot, d.slot[y] = NoCallback, tm'.id[t] = y,
             tm'.slot = [d.slot EXCEPT ![y] = t],
             NEW x \in Slot, tm'.slot[x] # NoCallback
      PROVE  \/ /\ tm'.slot[x] = t
                /\ when'[x] = After(now, ms) /\ due'[t] = now + ms * UsecPerMs
             \/ /\ tm'.slot[x] # t /\ tm'.slot[x] = table.slot[x]
                /\ when'[x] = when[x] /\ due'[tm'.slot[x]] = due[tm'.slot[x]]
  <2>1. y # -1 BY MaxSchedAssumption DEF Slot
  <2>2. /\ when' = [when EXCEPT ![y] = After(now, ms)]
        /\ due' = [due EXCEPT ![t] = now + ms * UsecPerMs]
    BY <1>4, <1>8, <2>1
  <2>3. CASE x = y BY <1>4, <1>6, <1>8, <2>2, <2>3
  <2>4. CASE x # y
    <3>1. tm'.slot[x] = d.slot[x] BY <1>6, <1>8, <2>4
    <3>2. d.slot[x] = table.slot[x] /\ d.slot[x] # t /\ d.slot[x] \in TimerVar
      BY <1>2, <1>6, <1>8, <3>1
    <3>q. QED BY <1>4, <2>2, <2>4, <3>1, <3>2
  <2>q. QED BY <2>3, <2>4
<1>q. QED BY <1>5, <1>7, <1>8

\* Deadlines after a timer was restarted on a table on which they were right.
LEMMA ArmingOnTime ==
    ASSUME TypeOK, tv <= now, NEW table \in TimerTable(TimerVar), OwnedIn(table),
           NEW t \in TimerVar, NEW ms \in Durations,
           Arming(ScheduleDel(table, t), t, ms),
           NEW x \in Slot, tm'.slot[x] # NoCallback,
           table.slot[x] # NoCallback => Moment(when[x]) = due[table.slot[x]]
    PROVE  /\ Moment(when'[x]) = due'[tm'.slot[x]]
           /\ \/ due'[tm'.slot[x]] >= tv
              \/ tm'.slot[x] = table.slot[x] /\ due'[tm'.slot[x]] = due[table.slot[x]]
<1>1. ms \in Nat /\ now \in Nat /\ tv \in Nat BY ScaleAssumption DEF TypeOK
<1>2. Moment(After(now, ms)) = now + ms * UsecPerMs BY <1>1, AfterMoment
<1>3. ms * UsecPerMs \in Nat BY <1>1, ScaleAssumption
<1>4. \/ /\ tm'.slot[x] = t
         /\ when'[x] = After(now, ms) /\ due'[t] = now + ms * UsecPerMs
      \/ /\ tm'.slot[x] # t /\ tm'.slot[x] = table.slot[x]
         /\ when'[x] = when[x] /\ due'[tm'.slot[x]] = due[tm'.slot[x]]
  BY ArmingKeepsOthers
<1>q. QED BY <1>1, <1>2, <1>3, <1>4

LEMMA InitTimeInv == Init => TimeInv
BY InitInv DEF Init, TimeInv, OnTime, NoneLeftBehind

\* What a table's slots hold is right, and not overdue at tv where it was not.
LEMMA NextTimeInv == TimeInv /\ [Next]_vars => TimeInv'
<1> SUFFICES ASSUME TimeInv, [Next]_vars PROVE TimeInv' OBVIOUS
<1> USE MaxSchedAssumption, ScaleAssumption
<1>i. Inv' BY NextInv DEF TimeInv
<1>t. /\ TypeOK /\ OwnedIn(tm) /\ tm \in TimerTable(TimerVar)
      /\ tv \in Nat /\ now \in Nat /\ tv <= now
      /\ when \in [Slot -> Timeval] /\ due \in [TimerVar -> Nat]
      /\ tm.slot \in [Slot -> TimerVar \cup {NoCallback}]
  BY DEF TimeInv, Inv, TypeOK, TimerTable
<1>o. \A x \in Slot : tm.slot[x] # NoCallback =>
          /\ Moment(when[x]) = due[tm.slot[x]]
          /\ scan = 0 \/ x < scan => due[tm.slot[x]] >= tv
  BY DEF TimeInv, OnTime, NoneLeftBehind
<1>1. CASE Tick
  BY <1>1, <1>i, <1>t, <1>o DEF Tick, TimeInv, OnTime, NoneLeftBehind
<1>2. ASSUME NEW t \in TimerVar, NEW ms \in Durations, Start(t, ms) PROVE TimeInv'
  <2>1. /\ scan = 0 /\ Arming(ScheduleDel(tm, t), t, ms)
        /\ now' = now /\ scan' = scan /\ tv' = tv
    BY <1>2 DEF Start
  <2>2. ASSUME NEW x \in Slot, tm'.slot[x] # NoCallback
        PROVE  Moment(when'[x]) = due'[tm'.slot[x]] /\ due'[tm'.slot[x]] >= tv
    <3>1. /\ Moment(when'[x]) = due'[tm'.slot[x]]
          /\ \/ due'[tm'.slot[x]] >= tv
             \/ tm'.slot[x] = tm.slot[x] /\ due'[tm'.slot[x]] = due[tm.slot[x]]
      BY <1>t, <1>o, <2>1, <2>2, ArmingOnTime
    <3>q. QED BY <1>o, <2>1, <2>2, <3>1
  <2>q. QED BY <1>i, <1>t, <2>1, <2>2 DEF TimeInv, OnTime, NoneLeftBehind
<1>3. ASSUME NEW t \in TimerVar, Stop(t) PROVE TimeInv'
  <2>1. \A x \in Slot : tm'.slot[x] # NoCallback => tm'.slot[x] = tm.slot[x]
    BY <1>3, <1>t, DelEmpties DEF Stop
  <2>q. QED BY <1>3, <1>i, <1>t, <1>o, <2>1 DEF Stop, TimeInv, OnTime, NoneLeftBehind
<1>4. CASE Run
  BY <1>4, <1>i, <1>t, <1>o DEF Run, TimeInv, OnTime, NoneLeftBehind, Slot
<1>5. CASE Skip
  <2>1. tm.slot[scan] # NoCallback => due[tm.slot[scan]] >= tv
    <3> SUFFICES ASSUME tm.slot[scan] # NoCallback PROVE due[tm.slot[scan]] >= tv
      OBVIOUS
    <3>1. scan \in Slot /\ ~ AtOrBefore(when[scan], TimeOfDay(tv))
      BY <1>5 DEF Skip, Ripe
    <3>2. when[scan] \in Timeval /\ due[tm.slot[scan]] \in Nat BY <1>t, <3>1
    <3>q. QED BY <1>t, <1>o, <3>1, <3>2, AtOrBeforeMoment
  <2>2. \A x \in Slot : scan' = 0 \/ x < scan' => x < scan \/ x = scan
    BY <1>5 DEF Skip, Advance, Slot
  <2>q. QED BY <1>5, <1>i, <1>t, <1>o, <2>1, <2>2
            DEF Skip, TimeInv, OnTime, NoneLeftBehind
<1>6. CASE Fire
  <2> DEFINE took == [TakeSlot(tm, scan) EXCEPT !.id[tm.slot[scan]] = -1]
  <2>1. /\ scan \in Slot /\ tm.slot[scan] # NoCallback /\ now' = now /\ tv' = tv
        /\ \A x \in Slot : scan' = 0 \/ x < scan' => x < scan \/ x = scan
    BY <1>6 DEF Fire, Ripe, Advance, Slot
  <2>2. /\ took \in TimerTable(TimerVar) /\ OwnedIn(took)
        /\ \A x \in Slot : took.slot[x] = IF x = scan THEN NoCallback ELSE tm.slot[x]
    <3>1. tm.slot[scan] \in TimerVar BY <1>t, <2>1
    <3>2. took = ScheduleDel(tm, tm.slot[scan])
      BY <1>t, <2>1, TakeIsDel DEF OwnedIn
    <3>3. took \in TimerTable(TimerVar) /\ OwnedIn(took)
      BY <1>t, <3>1, <3>2, DelOwned
    <3>4. \A x \in Slot : took.slot[x] = IF x = scan THEN NoCallback ELSE tm.slot[x]
      <4>1. took.slot = TakeSlot(tm, scan).slot OBVIOUS
      <4>2. TakeSlot(tm, scan).slot = [tm.slot EXCEPT ![scan] = NoCallback]
        BY <1>t, <2>1, TakeSlotEffect
      <4>q. QED BY <1>t, <4>1, <4>2
    <3>q. QED BY <3>3, <3>4
  <2>3. \/ tm' = took /\ UNCHANGED <<when, due>>
        \/ \E u \in TimerVar : tm' = ScheduleDel(took, u) /\ UNCHANGED <<when, due>>
        \/ \E u \in TimerVar, ms \in Durations : Arming(ScheduleDel(took, u), u, ms)
    BY <1>6 DEF Fire
  <2> HIDE DEF took
  <2>4. \A x \in Slot : took.slot[x] # NoCallback =>
            /\ took.slot[x] = tm.slot[x] /\ x # scan
            /\ Moment(when[x]) = due[took.slot[x]]
            /\ x < scan \/ x = scan => due[took.slot[x]] >= tv
    BY <1>o, <2>2
  <2> SUFFICES ASSUME NEW x \in Slot, tm'.slot[x] # NoCallback
               PROVE  /\ Moment(when'[x]) = due'[tm'.slot[x]]
                      /\ x < scan \/ x = scan => due'[tm'.slot[x]] >= tv
    BY <1>i, <1>t, <2>1 DEF TimeInv, OnTime, NoneLeftBehind
  <2>5. CASE tm' = took /\ UNCHANGED <<when, due>> BY <2>4, <2>5
  <2>6. ASSUME NEW u \in TimerVar, tm' = ScheduleDel(took, u), UNCHANGED <<when, due>>
        PROVE  /\ Moment(when'[x]) = due'[tm'.slot[x]]
               /\ x < scan \/ x = scan => due'[tm'.slot[x]] >= tv
    <3>1. tm'.slot[x] = took.slot[x] BY <2>2, <2>6, DelEmpties
    <3>q. QED BY <2>4, <2>6, <3>1
  <2>7. ASSUME NEW u \in TimerVar, NEW ms \in Durations,
               Arming(ScheduleDel(took, u), u, ms)
        PROVE  /\ Moment(when'[x]) = due'[tm'.slot[x]]
               /\ x < scan \/ x = scan => due'[tm'.slot[x]] >= tv
    <3>1. /\ Moment(when'[x]) = due'[tm'.slot[x]]
          /\ \/ due'[tm'.slot[x]] >= tv
             \/ tm'.slot[x] = took.slot[x] /\ due'[tm'.slot[x]] = due[took.slot[x]]
      BY <1>t, <2>2, <2>4, <2>7, ArmingOnTime
    <3>q. QED BY <2>4, <3>1
  <2>q. QED BY <2>3, <2>5, <2>6, <2>7
<1>7. CASE UNCHANGED vars
  BY <1>7, <1>i, <1>t, <1>o DEF vars, TimeInv, OnTime, NoneLeftBehind
<1>q. QED BY <1>1, <1>2, <1>3, <1>4, <1>5, <1>6, <1>7 DEF Next

LEMMA AlwaysTimeInv == Spec => []TimeInv
BY InitTimeInv, NextTimeInv, PTL DEF Spec

\* When ss7_schedule_run has walked by a slot, nothing is left in it that was due
\* when the run began, though callbacks fill slots above and below it.
THEOREM LeavesNoneBehind == Spec => []NoneLeftBehind
<1>1. TimeInv => NoneLeftBehind BY DEF TimeInv
<1>q. QED BY <1>1, AlwaysTimeInv, PTL

\* No callback runs before its time, the deadlines with a full second of
\* microseconds included (ss7_sched.c:53).
THEOREM RunsNoneEarly == Spec => NeverEarly
<1>1. TimeInv /\ [Next]_vars => [Fire => due[tm.slot[scan]] <= now]_vars
  <2> SUFFICES ASSUME TimeInv, Fire PROVE due[tm.slot[scan]] <= now OBVIOUS
  <2>1. /\ scan \in Slot /\ tm.slot[scan] # NoCallback
        /\ AtOrBefore(when[scan], TimeOfDay(tv))
    BY DEF Fire, Ripe
  <2>2. /\ tv \in Nat /\ now \in Nat /\ tv <= now
        /\ when[scan] \in Timeval /\ Moment(when[scan]) = due[tm.slot[scan]]
    BY <2>1 DEF TimeInv, Inv, TypeOK, OnTime
  <2>3. Moment(when[scan]) <= tv BY <2>1, <2>2, AtOrBeforeMoment
  <2>q. QED BY <2>2, <2>3, MomentType
<1>q. QED BY <1>1, AlwaysTimeInv, PTL DEF Spec, NeverEarly

\* Of the armed slots ss7_schedule_next finds one with the earliest deadline.
LEMMA NextSlotEarliest ==
    ASSUME TypeOK, NEW z \in Slot, tm.slot[z] # NoCallback
    PROVE  /\ NextSlot \in Slot /\ tm.slot[NextSlot] # NoCallback
           /\ \A y \in Slot : tm.slot[y] # NoCallback => ~ Before(when[y], when[NextSlot])
<1> DEFINE armed == {x \in Slot : tm.slot[x] # NoCallback}
           secs  == {when[y].tv_sec : y \in armed}
           sec   == Least(secs)
           first == {y \in armed : when[y].tv_sec = sec}
           usecs == {when[y].tv_usec : y \in first}
           usec  == Least(usecs)
           best  == {y \in first : when[y].tv_usec = usec}
           c     == Least(best)
<1>1. \A y \in armed : when[y].tv_sec \in Nat /\ when[y].tv_usec \in Nat
  BY UsecPerSecType DEF TypeOK, Timeval
<1>2. sec \in secs /\ \A y \in armed : sec <= when[y].tv_sec
  <2>1. secs \subseteq Nat /\ secs # {} BY <1>1
  <2>2. sec \in secs /\ \A v \in secs : sec <= v
    <3> HIDE DEF secs
    <3>q. QED BY <2>1, LeastExists
  <2>q. QED BY <2>2
<1> HIDE DEF sec
<1>3. usec \in usecs /\ \A y \in first : usec <= when[y].tv_usec
  <2>1. usecs \subseteq Nat /\ usecs # {} BY <1>1, <1>2
  <2>2. usec \in usecs /\ \A v \in usecs : usec <= v
    <3> HIDE DEF usecs
    <3>q. QED BY <2>1, LeastExists
  <2>q. QED BY <2>2
<1> HIDE DEF usec
<1>4. c \in best /\ \A y \in best : c <= y
  <2>1. best \subseteq Nat /\ best # {} BY <1>3 DEF Slot
  <2> HIDE DEF best
  <2>q. QED BY <2>1, LeastExists
<1> HIDE DEF c
<1>5. \A y \in armed : ~ Before(when[y], when[c])
  BY <1>1, <1>2, <1>3, <1>4 DEF Before
<1>6. \A y \in armed : y < c => Before(when[c], when[y])
  <2> SUFFICES ASSUME NEW y \in armed, y < c PROVE Before(when[c], when[y]) OBVIOUS
  <2>1. y \notin best
    <3>1. y \in Nat /\ c \in Nat BY <1>4 DEF Slot
    <3>q. QED BY <1>4, <3>1
  <2>q. QED BY <1>1, <1>2, <1>3, <1>4, <2>1 DEF Before
<1>7. \E x \in armed : /\ \A y \in armed : ~ Before(when[y], when[x])
                       /\ \A y \in armed : y < x => Before(when[x], when[y])
  BY <1>4, <1>5, <1>6
<1>8. NextSlot = CHOOSE x \in armed :
                     /\ \A y \in armed : ~ Before(when[y], when[x])
                     /\ \A y \in armed : y < x => Before(when[x], when[y])
  BY DEF NextSlot
<1>q. QED BY <1>7, <1>8

\* The main loop sleeps until the deadline that ss7_schedule_next returns and
\* oversleeps no timer by it, whatever the carry left in either deadline.
THEOREM SleepsNotTooLong == Spec => []WakesInTime
<1>1. TimeInv => WakesInTime
  <2> SUFFICES ASSUME TimeInv, NEW x \in Slot, tm.slot[x] # NoCallback
               PROVE  due[tm.slot[NextSlot]] <= due[tm.slot[x]]
    BY DEF WakesInTime
  <2>1. TypeOK /\ when \in [Slot -> Timeval] BY DEF TimeInv, Inv, TypeOK
  <2>2. /\ NextSlot \in Slot /\ tm.slot[NextSlot] # NoCallback
        /\ ~ Before(when[x], when[NextSlot])
    BY <2>1, NextSlotEarliest
  <2>3. /\ Moment(when[x]) = due[tm.slot[x]]
        /\ Moment(when[NextSlot]) = due[tm.slot[NextSlot]]
    BY <2>2 DEF TimeInv, OnTime
  <2>4. when[x] \in Timeval /\ when[NextSlot] \in Timeval BY <2>1, <2>2
  <2>q. QED BY <2>2, <2>3, <2>4, BeforeMoment
<1>q. QED BY <1>1, AlwaysTimeInv, PTL

-------------------------------------------------------------------------------
(* The event ring. *)

\* An index that has gone past the end of the ring at most once.
LEMMA WrapOnce ==
    ASSUME NEW a \in 0 .. (2 * MaxEvents - 1)
    PROVE  a % MaxEvents = IF a < MaxEvents THEN a ELSE a - MaxEvents
<1>1. CASE a < MaxEvents BY <1>1, MaxEventsAssumption
<1>2. CASE a >= MaxEvents BY <1>2, MaxEventsAssumption
<1>q. QED BY <1>1, <1>2, MaxEventsAssumption

\* The slot behind slot i, and the slot a queue of n events beginning at slot i
\* ends in front of.
LEMMA SlotAfter ==
    ASSUME NEW i \in Index, NEW n \in 0 .. MaxEvents
    PROVE  /\ (i + 1) % MaxEvents = IF i + 1 < MaxEvents THEN i + 1 ELSE i + 1 - MaxEvents
           /\ (i + n) % MaxEvents = IF i + n < MaxEvents THEN i + n ELSE i + n - MaxEvents
<1>0. i \in Nat /\ n \in Nat /\ i < MaxEvents /\ n <= MaxEvents /\ MaxEvents \in Nat \ {0}
  BY MaxEventsAssumption DEF Index
<1>1. i + 1 \in 0 .. (2 * MaxEvents - 1) BY <1>0
<1>2. i + n \in 0 .. (2 * MaxEvents - 1) BY <1>0
<1>3. (i + 1) % MaxEvents = IF i + 1 < MaxEvents THEN i + 1 ELSE i + 1 - MaxEvents
  BY <1>0, <1>1, WrapOnce
<1>4. (i + n) % MaxEvents = IF i + n < MaxEvents THEN i + n ELSE i + n - MaxEvents
  BY <1>0, <1>2, WrapOnce
<1>q. QED BY <1>3, <1>4

\* The ring stays well formed: head, length and held slot within bounds.
THEOREM QueueTypeCorrect == QueueSpec => []QueueTypeOK
<1>1. QueueInit => QueueTypeOK
  BY MaxEventsAssumption DEF QueueInit, QueueTypeOK, Index
<1>2. QueueTypeOK /\ [QueueNext]_queue_vars => QueueTypeOK'
  <2> SUFFICES ASSUME QueueTypeOK, [QueueNext]_queue_vars PROVE QueueTypeOK'
    OBVIOUS
  <2> USE MaxEventsAssumption DEF QueueTypeOK, Index
  <2>1. ASSUME NEW e \in Event, Post(e) PROVE QueueTypeOK'
    <3>1. ev_len + 1 \in 0 .. MaxEvents BY <2>1 DEF Post
    <3>q. QED BY <2>1, <3>1 DEF Post
  <2>2. CASE CheckEvent
    <3>1. ev_h + 1 \in 0 .. (2 * MaxEvents - 1) OBVIOUS
    <3>2. (ev_h + 1) % MaxEvents \in Index BY <3>1, WrapOnce
    <3>q. QED BY <2>2, <3>2 DEF CheckEvent
  <2>3. CASE Drained BY <2>3 DEF Drained
  <2>4. CASE UNCHANGED queue_vars BY <2>4 DEF queue_vars
  <2>q. QED BY <2>1, <2>2, <2>3, <2>4 DEF QueueNext
<1>q. QED BY <1>1, <1>2, PTL DEF QueueSpec

-------------------------------------------------------------------------------

\* The slot the application works on is the one just behind the head, so that
\* the tail reaches it last.
HeldBehindHead ==
    held # -1 => /\ ev_h = (held + 1) % MaxEvents
                 /\ ev_len < MaxEvents => ev_q[held] = taken

\* The slot the application holds stays right behind the head of the ring.
LEMMA HeldInv == QueueSpec => []HeldBehindHead
<1>1. QueueInit => HeldBehindHead
  BY DEF QueueInit, HeldBehindHead
<1>2. QueueTypeOK /\ HeldBehindHead /\ [QueueNext]_queue_vars => HeldBehindHead'
  <2> SUFFICES ASSUME QueueTypeOK, HeldBehindHead, [QueueNext]_queue_vars PROVE HeldBehindHead'
    OBVIOUS
  <2> USE MaxEventsAssumption DEF QueueTypeOK, Index
  <2>1. ASSUME NEW e \in Event, Post(e) PROVE HeldBehindHead'
    <3>1. SUFFICES ASSUME held # -1
                   PROVE  ev_len + 1 < MaxEvents =>
                              held # (ev_h + ev_len) % MaxEvents
      BY <2>1 DEF Post, HeldBehindHead
    <3>2. held \in Index BY <3>1
    <3>3. ev_len \in 0 .. MaxEvents /\ ev_h \in Index OBVIOUS
    <3>4. ev_h = (held + 1) % MaxEvents BY <3>1 DEF HeldBehindHead
    <3>5. ev_h = IF held + 1 < MaxEvents THEN held + 1 ELSE held + 1 - MaxEvents
      BY <3>2, <3>4, SlotAfter
    <3>6. (ev_h + ev_len) % MaxEvents =
              IF ev_h + ev_len < MaxEvents THEN ev_h + ev_len ELSE ev_h + ev_len - MaxEvents
      BY <3>3, SlotAfter
    <3>q. QED BY <3>2, <3>3, <3>5, <3>6
  <2>2. CASE CheckEvent BY <2>2 DEF CheckEvent, HeldBehindHead
  <2>3. CASE Drained BY <2>3 DEF Drained, HeldBehindHead
  <2>4. CASE UNCHANGED queue_vars BY <2>4 DEF queue_vars, HeldBehindHead
  <2>q. QED BY <2>1, <2>2, <2>3, <2>4 DEF QueueNext
<1>q. QED BY <1>1, <1>2, QueueTypeCorrect, PTL DEF QueueSpec

\* The event the application works on is intact while the ring has room.
THEOREM HeldSafe == QueueSpec => []HeldEventIntact
<1>1. HeldBehindHead => HeldEventIntact
  BY DEF HeldBehindHead, HeldEventIntact
<1>q. QED BY <1>1, HeldInv, PTL

-------------------------------------------------------------------------------

\* The contents of the ring are a sequence.
LEMMA QueuedType ==
    ASSUME QueueTypeOK
    PROVE  /\ Queued \in Seq(Event \cup {NoEvent})
           /\ Len(Queued) = ev_len
           /\ \A i \in 1 .. ev_len : Queued[i] = ev_q[(ev_h + i - 1) % MaxEvents]
<1>1. ev_len \in Nat BY DEF QueueTypeOK
<1>2. ASSUME NEW i \in 1 .. ev_len PROVE (ev_h + i - 1) % MaxEvents \in Index
  <2>1. ev_h + i - 1 \in 0 .. (2 * MaxEvents - 1)
    BY MaxEventsAssumption DEF QueueTypeOK, Index
  <2>q. QED BY <2>1, WrapOnce, MaxEventsAssumption DEF Index
<1>q. QED BY <1>1, <1>2 DEF QueueTypeOK, Queued

\* The slot ss7_next_empty_event hands out holds no queued event, and filling
\* it puts the event at the end of the queue.
LEMMA PostAppends ==
    ASSUME QueueTypeOK, NEW e \in Event, Post(e)
    PROVE  Fifo!Post(e)
<1> USE MaxEventsAssumption
<1> DEFINE slot(i) == (ev_h + i - 1) % MaxEvents
           tail    == (ev_h + ev_len) % MaxEvents
<1>1. ev_len \in Nat /\ ev_len < MaxEvents /\ ev_h \in Index
  BY DEF Post, QueueTypeOK
<1>2. ASSUME NEW i \in 1 .. ev_len PROVE slot(i) # tail /\ slot(i) \in Index
  <2>1. ev_h + i - 1 \in 0 .. (2 * MaxEvents - 1) BY <1>1 DEF Index
  <2>2. ev_h + ev_len \in 0 .. (2 * MaxEvents - 1) BY <1>1 DEF Index
  <2>q. QED BY SMTT(30), <1>1, <2>1, <2>2, WrapOnce DEF Index
<1>3. tail \in Index BY <1>1, WrapOnce DEF Index
<1>4. Queued' = [i \in 1 .. ev_len + 1 |-> ev_q'[slot(i)]]
  BY DEF Queued, Post
<1>5. ev_q'[tail] = e BY <1>3 DEF Post, QueueTypeOK
<1>6. \A i \in 1 .. ev_len : ev_q'[slot(i)] = ev_q[slot(i)]
  BY <1>2 DEF Post, QueueTypeOK
<1>7. slot(ev_len + 1) = tail BY <1>1 DEF Index
<1>8. Queued' = Append(Queued, e)
  <2> DEFINE E == Event \cup {NoEvent}
  <2>1. Queued \in Seq(E) /\ Len(Queued) = ev_len BY QueuedType
  <2>2. /\ Append(Queued, e) \in Seq(E)
        /\ Len(Append(Queued, e)) = ev_len + 1
        /\ \A i \in 1 .. ev_len : Append(Queued, e)[i] = Queued[i]
        /\ Append(Queued, e)[ev_len + 1] = e
    BY <2>1, AppendProperties
  <2>3. ASSUME NEW i \in 1 .. ev_len + 1
        PROVE  ev_q'[slot(i)] = Append(Queued, e)[i] /\ ev_q'[slot(i)] \in E
    <3>1. CASE i = ev_len + 1 BY <3>1, <1>5, <1>7, <2>2
    <3>2. CASE i # ev_len + 1
      <4>1. i \in 1 .. ev_len BY <3>2, <1>1
      <4>2. Queued[i] = ev_q[slot(i)] BY <4>1, QueuedType
      <4>3. ev_q[slot(i)] \in E BY <4>1, <1>2 DEF QueueTypeOK
      <4>q. QED BY <4>1, <4>2, <4>3, <1>6, <2>2
    <3>q. QED BY <3>1, <3>2
  <2> HIDE DEF slot, tail, E
  <2>4. Queued' \in Seq(E) /\ Len(Queued') = ev_len + 1
    BY <1>1, <1>4, <2>3
  <2>5. \A i \in 1 .. ev_len + 1 : Queued'[i] = Append(Queued, e)[i]
    BY <1>4, <2>3
  <2>q. QED BY <2>2, <2>4, <2>5, SeqEqual
<1>q. QED BY <1>1, <1>8, QueuedType DEF Fifo!Post, Post

\* ss7_check_event takes the first event and leaves the rest in order.
LEMMA CheckTakes ==
    ASSUME QueueTypeOK, CheckEvent
    PROVE  Fifo!Take
<1> USE MaxEventsAssumption
<1>1. ev_len \in Nat \ {0} /\ ev_len <= MaxEvents /\ ev_h \in Index
  BY DEF CheckEvent, QueueTypeOK
<1>2. Queued \in Seq(Event \cup {NoEvent}) /\ Len(Queued) = ev_len
  BY QueuedType
<1>3. Queued' = [i \in 1 .. ev_len - 1 |->
                    ev_q[(((ev_h + 1) % MaxEvents) + i - 1) % MaxEvents]]
  BY DEF Queued, CheckEvent
<1>4. Queued # <<>> BY <1>1, <1>2
<1>5. ASSUME NEW i \in 1 .. ev_len - 1
      PROVE  ev_q[(((ev_h + 1) % MaxEvents) + i - 1) % MaxEvents] = Queued[i + 1]
  <2> DEFINE h == (ev_h + 1) % MaxEvents
  <2>1. Queued[i + 1] = ev_q[(ev_h + i) % MaxEvents]
    <3>1. i + 1 \in 1 .. ev_len /\ ev_h + (i + 1) - 1 = ev_h + i
      BY <1>1 DEF Index
    <3>q. QED BY <3>1, QueuedType
  <2>2. h = IF ev_h + 1 < MaxEvents THEN ev_h + 1 ELSE ev_h + 1 - MaxEvents
    <3>1. ev_h + 1 \in 0 .. (2 * MaxEvents - 1) BY <1>1 DEF Index
    <3>q. QED BY <1>1, <3>1, WrapOnce DEF Index
  <2> HIDE DEF h
  <2>3. h + i - 1 \in 0 .. (2 * MaxEvents - 1) /\ ev_h + i \in 0 .. (2 * MaxEvents - 1)
    BY <1>1, <2>2 DEF Index
  <2>4. (h + i - 1) % MaxEvents =
            IF h + i - 1 < MaxEvents THEN h + i - 1 ELSE h + i - 1 - MaxEvents
    BY <1>1, <2>2, <2>3, WrapOnce DEF Index
  <2>5. (ev_h + i) % MaxEvents =
            IF ev_h + i < MaxEvents THEN ev_h + i ELSE ev_h + i - MaxEvents
    BY <1>1, <2>3, WrapOnce DEF Index
  <2>6. (h + i - 1) % MaxEvents = (ev_h + i) % MaxEvents
    BY <1>1, <2>2, <2>4, <2>5 DEF Index
  <2>q. QED BY <2>1, <2>6 DEF h
<1>6. Queued' = Tail(Queued)
  <2> DEFINE E == Event \cup {NoEvent}
  <2>1. /\ Tail(Queued) \in Seq(E)
        /\ Len(Tail(Queued)) = ev_len - 1
        /\ \A i \in 1 .. ev_len - 1 : Tail(Queued)[i] = Queued[i + 1]
    BY <1>2, <1>4, HeadTailProperties
  <2>2. ASSUME NEW i \in 1 .. ev_len - 1 PROVE Queued[i + 1] \in E
    BY <1>1, <1>2, ElementOfSeq
  <2>3. Queued' \in Seq(E) /\ Len(Queued') = ev_len - 1
    BY <1>1, <1>3, <1>5, <2>2
  <2>4. \A i \in 1 .. ev_len - 1 : Queued'[i] = Tail(Queued)[i]
    BY <1>3, <1>5, <2>1
  <2>q. QED BY <2>1, <2>3, <2>4, SeqEqual
<1>7. taken' = Head(Queued)
  <2>1. Head(Queued) = Queued[1] BY <1>2, <1>4
  <2>2. Queued[1] = ev_q[(ev_h + 1 - 1) % MaxEvents] BY <1>1, QueuedType
  <2>3. ev_h + 1 - 1 = ev_h /\ ev_h % MaxEvents = ev_h BY <1>1 DEF Index
  <2>q. QED BY <2>1, <2>2, <2>3 DEF CheckEvent
<1>q. QED BY <1>4, <1>6, <1>7 DEF Fifo!Take, CheckEvent

\* The ring of slots is a FIFO: EventQueue implements EventFifo.
THEOREM Implements == QueueSpec => FifoOrder
<1>1. QueueInit => Fifo!Init
  BY DEF QueueInit, Fifo!Init, Queued
<1>2. QueueTypeOK /\ [QueueNext]_queue_vars => [Fifo!Next]_(Fifo!vars)
  <2> SUFFICES ASSUME QueueTypeOK, [QueueNext]_queue_vars
               PROVE  Fifo!Next \/ UNCHANGED Fifo!vars
    OBVIOUS
  <2>1. ASSUME NEW e \in Event, Post(e) PROVE Fifo!Next
    BY <2>1, PostAppends DEF Fifo!Next
  <2>2. CASE CheckEvent BY <2>2, CheckTakes DEF Fifo!Next
  <2>3. CASE Drained
    <3>1. Queued = <<>> /\ Queued' = Queued BY <2>3 DEF Drained, Queued
    <3>q. QED BY <2>3, <3>1 DEF Drained, Fifo!Done, Fifo!Next
  <2>4. CASE UNCHANGED queue_vars BY <2>4 DEF queue_vars, Queued, Fifo!vars
  <2>q. QED BY <2>1, <2>2, <2>3, <2>4 DEF QueueNext
<1>q. QED BY <1>1, <1>2, QueueTypeCorrect, PTL DEF QueueSpec, FifoOrder, Fifo!Spec
===============================================================================
