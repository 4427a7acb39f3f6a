--------------------------- MODULE SchedTableProofs ---------------------------
(***************************************************************************)
(* What starting and stopping a timer does to the timer table, for any     *)
(* number of slots and any set of timer variables.                         *)
(***************************************************************************)
EXTENDS SchedTable, WellFoundedInduction, TLAPS

\* A nonempty set of numbers has a least element.
LEMMA LeastExists ==
    ASSUME NEW S, S \subseteq Nat, S # {}
    PROVE  Least(S) \in S /\ \A y \in S : Least(S) <= y
<1> DEFINE R == {p \in Nat \X Nat : p[1] < p[2]}
<1>1. OpToRel(<, Nat) = R BY DEF OpToRel
<1>2. PICK x \in S : \A y \in S : ~ (<<y, x>> \in R)
  BY ZenonT(60), <1>1, WFMin, NatLessThanWellFounded
<1>3. ASSUME NEW y \in S PROVE x <= y
  <2>1. x \in Nat /\ y \in Nat /\ <<y, x>> \notin R BY <1>2
  <2>2. SUFFICES ASSUME y < x PROVE <<y, x>> \in R BY <2>1
  <2>3. <<y, x>> \in Nat \X Nat BY <2>1
  <2>4. <<y, x>>[1] = y /\ <<y, x>>[2] = x OBVIOUS
  <2>q. QED BY <2>2, <2>3, <2>4
<1>q. QED BY <1>3 DEF Least

\* ss7_schedule_event puts the timer into a slot that was free and changes no
\* other slot and no other variable; when no slot is free the variable says so.
LEMMA ScheduleEventEffect ==
    ASSUME NEW T, NEW tm \in TimerTable(T), NEW t \in T
    PROVE  /\ ScheduleEvent(tm, t) \in TimerTable(T)
           /\ \A u \in T \ {t} : ScheduleEvent(tm, t).id[u] = tm.id[u]
           /\ \/ /\ FreeSlots(tm) = {}
                 /\ ScheduleEvent(tm, t).id[t] = -1
                 /\ ScheduleEvent(tm, t).slot = tm.slot
              \/ \E x \in Slot :
                   /\ tm.slot[x] = NoCallback
                   /\ ScheduleEvent(tm, t).id[t] = x
                   /\ ScheduleEvent(tm, t).slot = [tm.slot EXCEPT ![x] = t]
<1> USE MaxSchedAssumption DEF TimerTable, Slot, SlotId
<1>0. tm = [slot |-> tm.slot, id |-> tm.id]
      /\ tm.slot \in [Slot -> T \cup {NoCallback}] /\ tm.id \in [T -> SlotId]
  OBVIOUS
<1>1. CASE FreeSlots(tm) = {}
  <2>1. ScheduleEvent(tm, t) = [slot |-> tm.slot, id |-> [tm.id EXCEPT ![t] = -1]]
    BY <1>0, <1>1 DEF ScheduleEvent
  <2>q. QED BY <1>0, <1>1, <2>1
<1>2. CASE FreeSlots(tm) # {}
  <2> DEFINE x == Least(FreeSlots(tm))
  <2>1. x \in FreeSlots(tm)
    <3>1. FreeSlots(tm) \subseteq Nat BY DEF FreeSlots
    <3>q. QED BY <1>2, <3>1, LeastExists
  <2>2. x \in Slot /\ tm.slot[x] = NoCallback BY <2>1 DEF FreeSlots
  <2>3. ScheduleEvent(tm, t) =
          [slot |-> [tm.slot EXCEPT ![x] = t], id |-> [tm.id EXCEPT ![t] = x]]
    BY <1>2 DEF ScheduleEvent
  <2> HIDE DEF x
  <2>4. ScheduleEvent(tm, t) \in TimerTable(T) BY <1>0, <2>2, <2>3
  <2>5. ScheduleEvent(tm, t).slot = [tm.slot EXCEPT ![x] = t] BY <2>3
  <2>6. ScheduleEvent(tm, t).id = [tm.id EXCEPT ![t] = x] BY <2>3
  <2>q. QED BY <1>0, <2>2, <2>4, <2>5, <2>6
<1>q. QED BY <1>1, <1>2

\* The number ss7_schedule_event returns.
LEMMA ScheduleEventId ==
    ASSUME NEW T, NEW tm \in TimerTable(T), NEW t \in T
    PROVE  ScheduleEvent(tm, t).id[t] = -1 \/ ScheduleEvent(tm, t).id[t] \in Slot
<1>1. \/ /\ FreeSlots(tm) = {}
         /\ ScheduleEvent(tm, t).id[t] = -1
         /\ ScheduleEvent(tm, t).slot = tm.slot
      \/ \E x \in Slot : /\ tm.slot[x] = NoCallback
                         /\ ScheduleEvent(tm, t).id[t] = x
                         /\ ScheduleEvent(tm, t).slot = [tm.slot EXCEPT ![x] = t]
  BY ScheduleEventEffect
<1>q. QED BY <1>1

\* ss7_schedule_del empties the slot the variable names, marks the variable
\* and changes nothing else.
LEMMA ScheduleDelEffect ==
    ASSUME NEW T, NEW tm \in TimerTable(T), NEW t \in T
    PROVE  /\ ScheduleDel(tm, t) \in TimerTable(T)
           /\ ScheduleDel(tm, t).id = [tm.id EXCEPT ![t] = -1]
           /\ \A x \in Slot : ScheduleDel(tm, t).slot[x] =
                                IF x = tm.id[t] THEN NoCallback ELSE tm.slot[x]
<1> USE MaxSchedAssumption DEF TimerTable, Slot, SlotId, ScheduleDel
<1>1. CASE tm.id[t] < 0
  <2>1. tm.id[t] = -1 BY <1>1
  <2>q. QED BY <1>1, <2>1
<1>2. CASE ~ (tm.id[t] < 0)
  BY <1>2
<1>q. QED BY <1>1, <1>2

\* Taking a due callback out of its slot.
LEMMA TakeSlotEffect ==
    ASSUME NEW T, NEW tm \in TimerTable(T), NEW x \in Slot
    PROVE  /\ TakeSlot(tm, x) \in TimerTable(T)
           /\ TakeSlot(tm, x).id = tm.id
           /\ TakeSlot(tm, x).slot = [tm.slot EXCEPT ![x] = NoCallback]
BY DEF TimerTable, TakeSlot

-------------------------------------------------------------------------------
(* A table in which the slots and the variables that name them belong      *)
(* together: no callback sits in two slots, and no variable names another  *)
(* one's slot.                                                             *)

Belong(T, tm) ==
    /\ \A x \in Slot : tm.slot[x] # NoCallback => tm.id[tm.slot[x]] = x
    /\ \A t \in T : tm.id[t] \in Slot => tm.slot[tm.id[t]] = t

\* ss7_schedule_del keeps slots and variables together.
LEMMA DelBelong ==
    ASSUME NEW T, NEW tm \in TimerTable(T), Belong(T, tm), NEW t \in T
    PROVE  Belong(T, ScheduleDel(tm, t))
<1> DEFINE d == ScheduleDel(tm, t)
<1>1. d \in TimerTable(T) /\ d.id = [tm.id EXCEPT ![t] = -1]
      /\ \A x \in Slot : d.slot[x] = IF x = tm.id[t] THEN NoCallback ELSE tm.slot[x]
  BY ScheduleDelEffect
<1> HIDE DEF d
<1>2. tm.id \in [T -> SlotId] /\ tm.slot \in [Slot -> T \cup {NoCallback}]
  BY DEF TimerTable
<1>3. ASSUME NEW x \in Slot, d.slot[x] # NoCallback PROVE d.id[d.slot[x]] = x
  <2>1. x # tm.id[t] /\ d.slot[x] = tm.slot[x] BY <1>1, <1>3
  <2>2. tm.id[tm.slot[x]] = x /\ tm.slot[x] \in T BY <1>2, <1>3, <2>1 DEF Belong
  <2>3. tm.slot[x] # t BY <2>1, <2>2
  <2>q. QED BY <1>1, <1>2, <2>1, <2>2, <2>3
<1>4. ASSUME NEW u \in T, d.id[u] \in Slot PROVE d.slot[d.id[u]] = u
  <2>1. u # t /\ d.id[u] = tm.id[u] BY <1>1, <1>2, <1>4 DEF Slot
  <2>2. tm.id[u] \in Slot /\ tm.slot[tm.id[u]] = u BY <1>4, <2>1 DEF Belong
  <2>3. tm.id[u] # tm.id[t]
    <3>1. SUFFICES ASSUME tm.id[u] = tm.id[t] PROVE FALSE OBVIOUS
    <3>2. tm.slot[tm.id[t]] = t BY <2>2, <3>1 DEF Belong
    <3>q. QED BY <2>1, <2>2, <3>1, <3>2
  <2>q. QED BY <1>1, <2>1, <2>2, <2>3
<1>q. QED BY <1>3, <1>4 DEF Belong, d

\* ss7_schedule_event keeps them together for a variable that names no slot.
LEMMA EventBelong ==
    ASSUME NEW T, NoCallback \notin T, NEW tm \in TimerTable(T), Belong(T, tm),
           NEW t \in T, tm.id[t] \notin Slot
    PROVE  Belong(T, ScheduleEvent(tm, t))
<1> DEFINE d == ScheduleEvent(tm, t)
<1>1. /\ d \in TimerTable(T)
      /\ \A u \in T \ {t} : d.id[u] = tm.id[u]
      /\ \/ d.id[t] = -1 /\ d.slot = tm.slot
         \/ \E x \in Slot : /\ tm.slot[x] = NoCallback /\ d.id[t] = x
                            /\ d.slot = [tm.slot EXCEPT ![x] = t]
  BY ScheduleEventEffect
<1> HIDE DEF d
<1>2. tm.id \in [T -> SlotId] /\ tm.slot \in [Slot -> T \cup {NoCallback}]
  BY DEF TimerTable
<1>3. \A y \in Slot : tm.slot[y] # t BY DEF Belong
<1>4. CASE d.id[t] = -1 /\ d.slot = tm.slot
  <2>1. \A y \in Slot : tm.slot[y] # NoCallback => tm.slot[y] \in T \ {t}
    BY <1>2, <1>3
  <2>2. \A u \in T : d.id[u] \in Slot => u # t BY <1>4 DEF Slot
  <2>q. QED BY <1>1, <1>4, <2>1, <2>2 DEF Belong, d
<1>5. ASSUME NEW x \in Slot, tm.slot[x] = NoCallback, d.id[t] = x,
             d.slot = [tm.slot EXCEPT ![x] = t]
      PROVE  Belong(T, d)
  <2>1. ASSUME NEW y \in Slot, d.slot[y] # NoCallback PROVE d.id[d.slot[y]] = y
    <3>1. CASE y = x BY <1>2, <1>5, <3>1
    <3>2. CASE y # x
      <4>1. d.slot[y] = tm.slot[y] /\ tm.slot[y] \in T \ {t}
        BY <1>2, <1>3, <1>5, <2>1, <3>2
      <4>q. QED BY <1>1, <2>1, <4>1 DEF Belong
    <3>q. QED BY <3>1, <3>2
  <2>2. ASSUME NEW u \in T, d.id[u] \in Slot PROVE d.slot[d.id[u]] = u
    <3>1. CASE u = t BY <1>2, <1>5, <3>1
    <3>2. CASE u # t
      <4>1. d.id[u] = tm.id[u] /\ tm.slot[d.id[u]] = u BY <1>1, <2>2, <3>2 DEF Belong
      <4>2. d.id[u] # x BY <1>5, <4>1
      <4>q. QED BY <1>2, <1>5, <2>2, <4>1, <4>2
    <3>q. QED BY <3>1, <3>2
  <2>q. QED BY <2>1, <2>2 DEF Belong
<1>q. QED BY <1>1, <1>4, <1>5 DEF d

\* Taking a callback from its slot and forgetting its number afterwards is the
\* same as stopping it.
LEMMA TakeIsDel ==
    ASSUME NEW T, NEW tm \in TimerTable(T), Belong(T, tm), NEW x \in Slot,
           tm.slot[x] # NoCallback
    PROVE  /\ ScheduleDel(TakeSlot(tm, x), tm.slot[x]) = ScheduleDel(tm, tm.slot[x])
           /\ [TakeSlot(tm, x) EXCEPT !.id[tm.slot[x]] = -1] = ScheduleDel(tm, tm.slot[x])
<1> DEFINE t == tm.slot[x]
           k == TakeSlot(tm, x)
<1>1. /\ k = [slot |-> [tm.slot EXCEPT ![x] = NoCallback], id |-> tm.id]
      /\ tm.id \in [T -> SlotId] /\ tm.slot \in [Slot -> T \cup {NoCallback}]
  BY DEF TakeSlot, TimerTable
<1>2. tm.id[t] = x /\ x \in Nat /\ t \in T
  <2>1. x \in Nat BY MaxSchedAssumption DEF Slot
  <2>q. QED BY <1>1, <2>1 DEF Belong
<1>3. k.id = tm.id /\ k.slot = [tm.slot EXCEPT ![x] = NoCallback] BY <1>1
<1>4. k.id[t] = x /\ ~ (k.id[t] < 0) BY <1>2, <1>3
<1> HIDE DEF k, t
<1>5. [y \in Slot |-> IF y = x THEN NoCallback ELSE k.slot[y]]
        = [y \in Slot |-> IF y = x THEN NoCallback ELSE tm.slot[y]]
  BY <1>1
<1>6. [tm.slot EXCEPT ![x] = NoCallback]
        = [y \in Slot |-> IF y = x THEN NoCallback ELSE tm.slot[y]]
  BY <1>1
<1>7. ScheduleDel(tm, t) = [slot |-> [y \in Slot |-> IF y = x THEN NoCallback ELSE tm.slot[y]],
                            id |-> [tm.id EXCEPT ![t] = -1]]
  BY <1>2 DEF ScheduleDel
<1>8. ScheduleDel(k, t) = [slot |-> [y \in Slot |-> IF y = x THEN NoCallback ELSE k.slot[y]],
                           id |-> [k.id EXCEPT ![t] = -1]]
  BY <1>4 DEF ScheduleDel
<1>9. [k EXCEPT !.id[t] = -1] = [slot |-> k.slot, id |-> [k.id EXCEPT ![t] = -1]]
  BY <1>1
<1>q. QED BY <1>5, <1>6, <1>7, <1>8, <1>9, <1>3 DEF k, t
===============================================================================
