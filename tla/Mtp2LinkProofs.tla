----------------------------- MODULE Mtp2LinkProofs -----------------------------
(***************************************************************************)
(* One signalling link, for any modulus of the sequence numbers, any set   *)
(* of messages, any length of its event queue and any peer: the type       *)
(* invariant, and what MTP3's view of the link says about its state.       *)
(***************************************************************************)
EXTENDS Mtp2Link, Mtp2Proofs

-------------------------------------------------------------------------------
(* MTP3's view. *)

Down(ev) == \E i \in DOMAIN ev : ev[i] = "LINK_DOWN"

\* The link is in service, or MTP3 will be told that it is not.
Covered(l) == ~ l.evrefused => l.state = "INSERVICE" \/ Down(l.ev)

\* An event at the end of the queue hides none before it.
LEMMA AppendDown ==
    ASSUME NEW ev \in Seq(LinkEvent), NEW e \in LinkEvent
    PROVE  /\ Down(ev) => Down(Append(ev, e))
           /\ Down(Append(ev, "LINK_DOWN"))
<1>1. "LINK_DOWN" \in LinkEvent BY DEF LinkEvent
<1>2. \A f \in LinkEvent :
        /\ DOMAIN Append(ev, f) = 1 .. Len(ev) + 1
        /\ \A i \in 1 .. Len(ev) : Append(ev, f)[i] = ev[i]
        /\ Append(ev, f)[Len(ev) + 1] = f
  BY AppendProperties, LenProperties
<1>3. DOMAIN ev = 1 .. Len(ev) /\ Len(ev) \in Nat BY LenProperties
<1>4. Down(ev) => Down(Append(ev, e))
  <2> SUFFICES ASSUME NEW i \in DOMAIN ev, ev[i] = "LINK_DOWN"
               PROVE  Down(Append(ev, e))
    BY DEF Down
  <2>1. i \in 1 .. Len(ev) + 1 /\ i \in 1 .. Len(ev) BY <1>3
  <2>q. QED BY <1>2, <2>1 DEF Down
<1>5. Down(Append(ev, "LINK_DOWN"))
  <2>1. Len(ev) + 1 \in 1 .. Len(ev) + 1 BY <1>3
  <2>q. QED BY <1>1, <1>2, <2>1 DEF Down
<1>q. QED BY <1>4, <1>5

\* An event that is not LINK_DOWN can be taken from the queue.
LEMMA TailDown ==
    ASSUME NEW ev \in Seq(LinkEvent), ev # <<>>, Head(ev) # "LINK_DOWN", Down(ev)
    PROVE  Down(Tail(ev))
<1>1. /\ Tail(ev) \in Seq(LinkEvent) /\ Len(Tail(ev)) = Len(ev) - 1
      /\ \A i \in 1 .. Len(Tail(ev)) : Tail(ev)[i] = ev[i + 1]
  BY HeadTailProperties
<1>2. Len(ev) \in Nat /\ DOMAIN ev = 1 .. Len(ev) /\ DOMAIN Tail(ev) = 1 .. Len(Tail(ev))
  BY <1>1, LenProperties
<1>3. PICK i \in 1 .. Len(ev) : ev[i] = "LINK_DOWN" BY <1>2 DEF Down
<1>4. ev[1] # "LINK_DOWN" OBVIOUS
<1>5. i - 1 \in 1 .. Len(Tail(ev)) /\ (i - 1) + 1 = i BY <1>1, <1>2, <1>3, <1>4
<1>6. Tail(ev)[i - 1] = "LINK_DOWN" BY <1>1, <1>3, <1>5
<1>q. QED BY <1>2, <1>5, <1>6 DEF Down

\* Whatever tells its end of service keeps the link covered.
LEMMA TellsCovered ==
    ASSUME NEW l \in Link, NEW r \in Link, Tells(l, r), Covered(l)
    PROVE  Covered(r)
<1> SUFFICES ASSUME ~ r.evrefused PROVE r.state = "INSERVICE" \/ Down(r.ev)
  BY DEF Covered
<1>1. ~ l.evrefused BY DEF Tells
<1>2. l.ev \in Seq(LinkEvent) BY DEF Link
<1>3. CASE l.state = "INSERVICE"
  <2>1. "LINK_DOWN" \in LinkEvent BY DEF LinkEvent
  <2>2. Down(Append(l.ev, "LINK_DOWN")) BY <1>2, <2>1, AppendDown
  <2>q. QED BY <1>3, <2>2 DEF Tells
<1>4. CASE l.state # "INSERVICE"
  <2>1. Down(l.ev) BY <1>1, <1>4 DEF Covered
  <2>2. r.ev = l.ev \/ \E e \in LinkEvent : r.ev = Append(l.ev, e) BY DEF Tells
  <2>q. QED BY <1>2, <2>1, <2>2, AppendDown
<1>q. QED BY <1>3, <1>4

\* Taking an event from the queue.
LEMMA PopField ==
    ASSUME NEW l \in Link, l.ev # <<>>
    PROVE  /\ [l EXCEPT !.ev = Tail(l.ev)] \in Link
           /\ [l EXCEPT !.ev = Tail(l.ev)].state = l.state
           /\ [l EXCEPT !.ev = Tail(l.ev)].ev = Tail(l.ev)
           /\ [l EXCEPT !.ev = Tail(l.ev)].evrefused = l.evrefused
           /\ SameTimers(l, [l EXCEPT !.ev = Tail(l.ev)])
<1>1. l.ev \in Seq(LinkEvent) BY DEF Link
<1>2. Tail(l.ev) \in Seq(LinkEvent) BY <1>1, HeadTailProperties
<1>q. QED BY <1>2 DEF Link, SameTimers

-------------------------------------------------------------------------------
(* The invariant. *)

Inv == TypeOK /\ (linkstate = "UP" => Covered(lk))

\* A new link is of the right type and MTP3 has it for down.
LEMMA InitInv == Init => Inv
BY NewLinkType DEF Init, Inv, TypeOK, MtpLinkState

\* Every step of the link keeps the invariant.
LEMMA NextInv == Inv /\ [Next]_vars => Inv'
<1> SUFFICES ASSUME Inv, [Next]_vars PROVE Inv' OBVIOUS
<1>0. lk \in Link /\ linkstate \in MtpLinkState /\ (linkstate = "UP" => Covered(lk))
  BY DEF Inv, TypeOK
<1>i. Inv' <=> /\ lk' \in Link /\ linkstate' \in MtpLinkState
               /\ linkstate' = "UP" => Covered(lk')
  BY DEF Inv, TypeOK, Covered, Down
<1>1. CASE Start
  <2>1. Mtp2Start(lk, TRUE) \in Link BY <1>0, StartType
  <2>q. QED BY <1>1, <1>i, <2>1 DEF Start, MtpLinkState
<1>2. CASE Stop
  <2>1. "IDLE" \in LinkState BY DEF LinkState
  <2>2. Mtp2Stop(lk) \in Link /\ Tells(lk, Mtp2Stop(lk))
    BY <1>0, <2>1, SetStateType DEF Mtp2Stop
  <2>q. QED BY <1>0, <1>2, <1>i, <2>2, TellsCovered DEF Stop
<1>3. ASSUME NEW su \in PeerSu, Read(su) PROVE Inv'
  <2> DEFINE r == Receive(lk, su)
  <2>1. su \in Su BY PeerSuAssumption
  <2>2. /\ r \in Link /\ Tells(lk, r)
        /\ Accepts(lk, su) => r.state = "INSERVICE" \/ r.evrefused
    BY <1>0, <2>1, ReceiveType
  <2> HIDE DEF r
  <2>3. CASE lk' = r /\ UNCHANGED linkstate
    BY <1>0, <1>i, <2>2, <2>3, TellsCovered
  <2>4. CASE /\ Accepts(lk, su) /\ \E slta \in Msu \ Live(r) : lk' = Mtp2Msu(r, slta)
             /\ linkstate' = "UP"
    <3>1. PICK slta \in Msu : lk' = Mtp2Msu(r, slta) BY <2>4
    <3>2. lk' \in Link /\ Data(r, lk') BY <2>2, <3>1, MsuType
    <3>3. Covered(lk') BY <2>2, <2>4, <3>2 DEF Covered, Data, Silent
    <3>q. QED BY <1>i, <2>4, <3>2, <3>3 DEF MtpLinkState
  <2>q. QED BY <1>3, <2>3, <2>4 DEF Read, r
<1>4. ASSUME NEW ok \in BOOLEAN, Write(ok) PROVE Inv'
  <2>1. lk' \in Link /\ Data(lk, lk') /\ linkstate' = linkstate
    BY <1>0, <1>4, TransmitType DEF Write
  <2>q. QED BY <1>0, <1>i, <2>1, TellsData, TellsCovered
<1>5. CASE QueueMsu
  <2>1. PICK m \in Msu : lk' = Mtp2Msu(lk, m) BY <1>5 DEF QueueMsu
  <2>2. lk' \in Link /\ Data(lk, lk') BY <1>0, <2>1, MsuType
  <2>q. QED BY <1>0, <1>5, <1>i, <2>2, TellsData, TellsCovered DEF QueueMsu
<1>6. ASSUME NEW x \in Slot, Expire(x) PROVE Inv'
  <2>1. lk' \in Link /\ Tells(lk, lk') /\ linkstate' = linkstate
    BY <1>0, <1>6, RunSlotType DEF Expire
  <2>q. QED BY <1>0, <1>i, <2>1, TellsCovered
<1>7. CASE CheckEvent
  <2> DEFINE p == [lk EXCEPT !.ev = Tail(lk.ev)]
  <2>1. /\ p \in Link /\ p.state = lk.state /\ p.ev = Tail(lk.ev)
        /\ p.evrefused = lk.evrefused
    BY <1>0, <1>7, PopField DEF CheckEvent
  <2> HIDE DEF p
  <2>2. CASE Head(lk.ev) = "LINK_UP"
    <3>1. PICK m \in Msu : lk' = Mtp2Msu(p, m) BY <1>7, <2>2 DEF CheckEvent, p
    <3>2. lk' \in Link /\ Data(p, lk') BY <2>1, <3>1, MsuType
    <3>3. Covered(lk) => Covered(lk')
      <4>1. lk.ev \in Seq(LinkEvent) /\ lk.ev # <<>> BY <1>0, <1>7 DEF Link, CheckEvent
      <4>2. Down(lk.ev) => Down(Tail(lk.ev)) BY <2>2, <4>1, TailDown
      <4>q. QED BY <2>1, <3>2, <4>2 DEF Covered, Data, Silent
    <3>q. QED BY <1>0, <1>7, <1>i, <2>2, <3>2, <3>3 DEF CheckEvent
  <2>3. CASE Head(lk.ev) # "LINK_UP"
    <3>1. lk' = p /\ linkstate' = "DOWN" BY <1>7, <2>3 DEF CheckEvent, p
    <3>q. QED BY <1>i, <2>1, <3>1 DEF MtpLinkState
  <2>q. QED BY <2>2, <2>3
<1>8. CASE Alarm
  <2>1. "ALARM" \in LinkState BY DEF LinkState
  <2>2. lk' \in Link BY <1>0, <1>8, <2>1, StateField DEF Alarm, Mtp2Alarm
  <2>q. QED BY <1>8, <1>i, <2>2 DEF Alarm, MtpLinkState
<1>9. CASE NoAlarm
  <2>1. "IDLE" \in LinkState BY DEF LinkState
  <2>2. Mtp2NoAlarm(lk) \in Link BY <1>0, <2>1, StateField DEF Mtp2NoAlarm
  <2>3. lk' \in Link BY <1>9, <2>2, StartType DEF NoAlarm
  <2>q. QED BY <1>9, <1>i, <2>3 DEF NoAlarm, MtpLinkState
<1>10. CASE UNCHANGED vars BY <1>0, <1>10, <1>i DEF vars
<1>q. QED BY <1>1, <1>2, <1>3, <1>4, <1>5, <1>6, <1>7, <1>8, <1>9, <1>10 DEF Next

\* The invariant holds in every reachable state.
LEMMA AlwaysInv == Spec => []Inv
BY InitInv, NextInv, PTL DEF Spec

\* The link record keeps its type whatever the peer sends, whenever timers run
\* out, writes fail and alarms come and go (mtp2.c).
THEOREM TypeCorrect == Spec => []TypeOK
<1>1. Inv => TypeOK BY DEF Inv
<1>q. QED BY <1>1, AlwaysInv, PTL

\* MTP3 never takes a link for up that has left service without a LINK_DOWN on
\* its way, for any capacity of the event queue, as long as the queue has not
\* turned an event away (mtp2_setstate, mtp3_process_event, mtp3_receive).
THEOREM UpIsCovered == Spec => []UpMeansInService
<1>1. Inv => UpMeansInService BY DEF Inv, Covered, Down, UpMeansInService
<1>q. QED BY <1>1, AlwaysInv, PTL

-------------------------------------------------------------------------------
(* The timers, on a line that is never in alarm. *)

StepInv == TypeOK /\ InStep(lk)

\* A new link has no timer scheduled.
LEMMA InitStep == Init => StepInv
<1>1. \A x \in Slot : NewLink.tm.slot[x] = NoCallback BY DEF NewLink, NewTimerTable
<1>2. \A t \in Timer : NewLink.tm.id[t] \notin Slot BY DEF NewLink, NewTimerTable, Slot
<1>3. InStep(NewLink) BY <1>1, <1>2 DEF InStep, Belong, Timer
<1>4. Init => TypeOK BY InitInv DEF Inv
<1>q. QED BY <1>3, <1>4 DEF StepInv, Init

\* Without alarms every step keeps timers and state in step.
LEMMA NextStep ==
    ASSUME Alarms = FALSE
    PROVE  Inv /\ StepInv /\ [Next]_vars => StepInv'
<1> SUFFICES ASSUME Inv, StepInv, [Next]_vars PROVE StepInv' OBVIOUS
<1>0. lk \in Link /\ InStep(lk) BY DEF StepInv, TypeOK
<1>i. (InStep(lk))' <=> InStep(lk') BY DEF InStep, Belong
<1>t. TypeOK' BY NextInv DEF Inv
<1> SUFFICES InStep(lk') BY <1>i, <1>t DEF StepInv
<1>1. CASE Start BY <1>0, <1>1, StartInStep DEF Start
<1>2. CASE Stop
  <2>1. "IDLE" \in LinkState BY DEF LinkState
  <2>q. QED BY <1>0, <1>2, <2>1, SetStateInStep DEF Stop, Mtp2Stop
<1>3. ASSUME NEW su \in PeerSu, Read(su) PROVE InStep(lk')
  <2> DEFINE r == Receive(lk, su)
  <2>1. su \in Su BY PeerSuAssumption
  <2>2. r \in Link /\ InStep(r) BY <1>0, <2>1, ReceiveType, ReceiveInStep
  <2>3. lk' = r \/ \E slta \in Msu : lk' = Mtp2Msu(r, slta) BY <1>3 DEF Read
  <2> HIDE DEF r
  <2>4. \A m \in Msu : InStep(Mtp2Msu(r, m)) BY <2>2, MsuType, SameInStep
  <2>q. QED BY <2>2, <2>3, <2>4
<1>4. ASSUME NEW ok \in BOOLEAN, Write(ok) PROVE InStep(lk')
  <2>1. lk' = Transmit(lk, ok) BY <1>4 DEF Write
  <2>2. OnlyT7(lk, lk') BY <1>0, <2>1, TransmitType DEF OnlyT7, Data
  <2>q. QED BY <1>0, <2>2, OnlyT7InStep
<1>5. CASE QueueMsu
  <2>1. PICK m \in Msu : lk' = Mtp2Msu(lk, m) BY <1>5 DEF QueueMsu
  <2>q. QED BY <1>0, <2>1, MsuType, SameInStep
<1>6. ASSUME NEW x \in Slot, Expire(x) PROVE InStep(lk')
  BY <1>0, <1>6, RunSlotInStep DEF Expire
<1>7. CASE CheckEvent
  <2> DEFINE p == [lk EXCEPT !.ev = Tail(lk.ev)]
  <2>1. p \in Link /\ SameTimers(lk, p) BY <1>0, <1>7, PopField DEF CheckEvent
  <2>2. lk' = p \/ \E m \in Msu : lk' = Mtp2Msu(p, m) BY <1>7 DEF CheckEvent
  <2> HIDE DEF p
  <2>3. InStep(p) BY <1>0, <2>1, SameInStep
  <2>4. \A m \in Msu : InStep(Mtp2Msu(p, m)) BY <2>1, <2>3, MsuType, SameInStep
  <2>q. QED BY <2>2, <2>3, <2>4
<1>8. CASE Alarm BY <1>8 DEF Alarm
<1>9. CASE NoAlarm
  <2> DEFINE n == Mtp2NoAlarm(lk)
  <2>1. "IDLE" \in LinkState BY DEF LinkState
  <2>2. n \in Link /\ n.tm = lk.tm BY <1>0, <2>1, StateField DEF Mtp2NoAlarm
  <2>3. Quiet(lk)
    <3>1. lk.state = "ALARM" BY <1>9 DEF NoAlarm
    <3>2. \A t \in AlignTimer : AlignTimerState[t] # "ALARM"
      BY DEF AlignTimer, AlignTimerState
    <3>q. QED BY <1>0, <3>1, <3>2 DEF InStep, Quiet
  <2> HIDE DEF n
  <2>4. InStep(n) BY <1>0, <2>2, <2>3, LandsInStep DEF Lands
  <2>q. QED BY <1>9, <2>2, <2>4, StartInStep DEF NoAlarm, n
<1>10. CASE UNCHANGED vars BY <1>0, <1>10 DEF vars
<1>q. QED BY <1>1, <1>2, <1>3, <1>4, <1>5, <1>6, <1>7, <1>8, <1>9, <1>10 DEF Next

\* Unless an alarm freezes the link, T1 to T4 are scheduled only in the states
\* they guard, each at most once, for any number of slots in the timer table
\* and even when it is full (mtp2_setstate).
THEOREM TimersInStep ==
    ASSUME Alarms = FALSE
    PROVE  Spec => []TimersMatchState
<1>1. StepInv => TimersMatchState
  <2> SUFFICES ASSUME StepInv, NEW x \in Slot, NEW t \in AlignTimer, lk.tm.slot[x] = t
               PROVE  lk.tm.id[t] = x /\ lk.state = AlignTimerState[t]
    BY DEF TimersMatchState
  <2>1. t # NoCallback BY DEF AlignTimer, NoCallback
  <2>q. QED BY <2>1 DEF StepInv, InStep, Belong
<1>2. Inv /\ StepInv /\ [Next]_vars => StepInv' BY NextStep
<1>q. QED BY <1>1, <1>2, InitStep, AlwaysInv, PTL DEF Spec
-------------------------------------------------------------------------------
(* The lists of a link. *)

\* The messages of tx_buf carry the numbers that end with the last one used.
Numbered(buf, last) == \A i \in DOMAIN buf : buf[i].fsn = (last - (i - 1)) % SeqMod

\* No message is twice in tx_buf, twice in tx_q or in both.
Single(buf, q) ==
    /\ \A i, j \in DOMAIN buf : buf[i].msu = buf[j].msu => i = j
    /\ \A i, j \in DOMAIN q : q[i] = q[j] => i = j
    /\ \A i \in DOMAIN buf, j \in DOMAIN q : buf[i].msu # q[j]

LEMMA SingleInjective ==
    ASSUME NEW buf \in Seq(TxMsu), NEW q \in Seq(Msu), Single(buf, q)
    PROVE  IsInjective([i \in DOMAIN buf |-> buf[i].msu] \o q)
<1> DEFINE b == [i \in DOMAIN buf |-> buf[i].msu]
           n == Len(buf)
<1>1. n \in Nat /\ DOMAIN buf = 1 .. n /\ DOMAIN q = 1 .. Len(q) /\ Len(q) \in Nat
  BY LenProperties
<1>2. \A i \in 1 .. n : buf[i].msu \in Msu
  <2>1. \A i \in 1 .. n : buf[i] \in TxMsu BY ElementOfSeq
  <2>q. QED BY <2>1 DEF TxMsu
<1>3. b \in Seq(Msu) /\ Len(b) = n
  <2>1. b \in [1 .. n -> Msu] BY <1>1, <1>2
  <2>q. QED BY <1>1, <2>1
<1>4. \A i \in 1 .. n : b[i] = buf[i].msu BY <1>1
<1> HIDE DEF b
<1> HIDE DEF n
<1>5. /\ b \o q \in Seq(Msu) /\ Len(b \o q) = n + Len(q)
      /\ \A i \in 1 .. n + Len(q) : (b \o q)[i] = IF i <= n THEN b[i] ELSE q[i - n]
  <2>1. /\ b \o q \in Seq(Msu) /\ Len(b \o q) = Len(b) + Len(q)
        /\ \A i \in 1 .. Len(b) + Len(q) :
               (b \o q)[i] = IF i <= Len(b) THEN b[i] ELSE q[i - Len(b)]
    BY <1>3, ConcatProperties
  <2>q. QED BY <1>3, <2>1
<1>6. DOMAIN (b \o q) = 1 .. n + Len(q) BY <1>5, LenProperties
<1>7. ASSUME NEW i \in 1 .. n + Len(q), NEW j \in 1 .. n + Len(q), (b \o q)[i] = (b \o q)[j]
      PROVE  i = j
  <2>1. CASE i <= n /\ j <= n
    <3>1. i \in 1 .. n /\ j \in 1 .. n BY <1>1, <2>1
    <3>2. buf[i].msu = buf[j].msu BY <1>4, <1>5, <1>7, <2>1, <3>1
    <3>q. QED BY <1>1, <3>1, <3>2 DEF Single
  <2>2. CASE ~ i <= n /\ ~ j <= n
    <3>1. i - n \in 1 .. Len(q) /\ j - n \in 1 .. Len(q) BY <1>1, <2>2
    <3>2. q[i - n] = q[j - n] BY <1>5, <1>7, <2>2
    <3>3. i - n = j - n BY <1>1, <3>1, <3>2 DEF Single
    <3>q. QED BY <1>1, <3>3
  <2>3. CASE i <= n /\ ~ j <= n
    <3>1. i \in 1 .. n /\ j - n \in 1 .. Len(q) BY <1>1, <2>3
    <3>2. buf[i].msu = q[j - n] BY <1>4, <1>5, <1>7, <2>3, <3>1
    <3>q. QED BY <1>1, <3>1, <3>2 DEF Single
  <2>4. CASE ~ i <= n /\ j <= n
    <3>1. j \in 1 .. n /\ i - n \in 1 .. Len(q) BY <1>1, <2>4
    <3>2. buf[j].msu = q[i - n] BY <1>4, <1>5, <1>7, <2>4, <3>1
    <3>q. QED BY <1>1, <3>1, <3>2 DEF Single
  <2>q. QED BY <2>1, <2>2, <2>3, <2>4
<1>q. QED BY <1>6, <1>7 DEF IsInjective, b

\* The remainder of a division.
LEMMA Remainder ==
    ASSUME NEW x \in Int, NEW k \in Int, NEW a \in Seq7, x = SeqMod * k + a
    PROVE  x % SeqMod = a
BY SeqModAssumption DEF Seq7

\* A number further round the modulus.
LEMMA NumberBefore ==
    ASSUME NEW n \in Seq7, NEW i \in Int
    PROVE  (((n + 1) % SeqMod) - i) % SeqMod = (n - (i - 1)) % SeqMod
<1>1. SeqMod \in Nat \ {0} /\ n \in 0 .. SeqMod - 1 BY SeqModAssumption DEF Seq7
<1>2. ASSUME NEW x \in Int PROVE (x + SeqMod) % SeqMod = x % SeqMod
  <2> DEFINE k == x \div SeqMod
             a == x % SeqMod
  <2>1. k \in Int /\ a \in Seq7 /\ x = SeqMod * k + a BY <1>1 DEF Seq7
  <2> HIDE DEF k, a
  <2>2. x + SeqMod = SeqMod * (k + 1) + a /\ k + 1 \in Int /\ x + SeqMod \in Int
    BY <1>1, <2>1 DEF Seq7
  <2>3. (x + SeqMod) % SeqMod = a BY <2>1, <2>2, Remainder
  <2>q. QED BY <2>3 DEF a
<1>3. CASE n + 1 = SeqMod
  <2>1. (n + 1) % SeqMod = 0 BY <1>1, <1>3
  <2>2. ((n + 1) % SeqMod) - i = 0 - i /\ n - (i - 1) = (0 - i) + SeqMod
    BY <1>1, <1>3, <2>1
  <2>3. ((0 - i) + SeqMod) % SeqMod = (0 - i) % SeqMod BY <1>2
  <2>q. QED BY <2>2, <2>3
<1>4. CASE n + 1 # SeqMod
  <2>1. n + 1 \in Seq7 /\ n + 1 = SeqMod * 0 + (n + 1) BY <1>1, <1>4 DEF Seq7
  <2>2. (n + 1) % SeqMod = n + 1 BY <1>1, <2>1, Remainder
  <2>3. ((n + 1) % SeqMod) - i = n - (i - 1) BY <1>1, <2>2
  <2>q. QED BY <2>3
<1>q. QED BY <1>3, <1>4

\* mtp2_transmit moves the first message of tx_q to the head of tx_buf.
LEMMA NewInLists ==
    ASSUME NEW buf \in Seq(TxMsu), NEW q \in Seq(Msu), q # <<>>, NEW last \in Seq7,
           Numbered(buf, last), Single(buf, q),
           NEW new \in TxMsu, new.msu = Head(q), new.fsn = (last + 1) % SeqMod
    PROVE  Numbered(<<new>> \o buf, new.fsn) /\ Single(<<new>> \o buf, Tail(q))
<1> DEFINE n == Len(buf)
           c == <<new>> \o buf
           t == Tail(q)
<1>1. n \in Nat /\ DOMAIN buf = 1 .. n /\ DOMAIN q = 1 .. Len(q) /\ Len(q) \in Nat \ {0}
  BY LenProperties, EmptySeq
<1>2. /\ c \in Seq(TxMsu) /\ DOMAIN c = 1 .. n + 1 /\ c[1] = new
      /\ \A i \in 2 .. n + 1 : c[i] = buf[i - 1]
  <2>1. <<new>> \in Seq(TxMsu) /\ Len(<<new>>) = 1 /\ <<new>>[1] = new OBVIOUS
  <2>2. /\ c \in Seq(TxMsu) /\ Len(c) = 1 + n
        /\ \A i \in 1 .. 1 + n : c[i] = IF i <= 1 THEN <<new>>[i] ELSE buf[i - 1]
    BY <2>1, ConcatProperties
  <2> HIDE DEF c
  <2>3. DOMAIN c = 1 .. n + 1 BY <1>1, <2>2, LenProperties
  <2>q. QED BY <1>1, <2>1, <2>2, <2>3
<1>3. /\ DOMAIN t = 1 .. Len(q) - 1 /\ \A i \in 1 .. Len(q) - 1 : t[i] = q[i + 1]
      /\ new.msu = q[1]
  <2>1. t \in Seq(Msu) /\ Len(t) = Len(q) - 1 /\ \A i \in 1 .. Len(t) : t[i] = q[i + 1]
    BY HeadTailProperties
  <2> HIDE DEF t
  <2>2. DOMAIN t = 1 .. Len(t) BY <2>1, LenProperties
  <2>q. QED BY <2>1, <2>2
<1> HIDE DEF c, t
<1>4. ASSUME NEW i \in DOMAIN c PROVE c[i].fsn = (new.fsn - (i - 1)) % SeqMod
  <2>0. i \in 1 .. n + 1 BY <1>2
  <2>1. CASE i = 1
    <3>1. new.fsn \in Seq7 BY DEF TxMsu
    <3>2. new.fsn \in Int /\ new.fsn = SeqMod * 0 + new.fsn
      BY <3>1, SeqModAssumption DEF Seq7
    <3>3. new.fsn % SeqMod = new.fsn BY <3>1, <3>2, Remainder
    <3>4. new.fsn - (i - 1) = new.fsn BY <2>1, <3>2
    <3>q. QED BY <1>2, <2>1, <3>3, <3>4
  <2>2. CASE i # 1
    <3>1. i - 1 \in 1 .. n /\ c[i] = buf[i - 1] BY <1>1, <1>2, <2>0, <2>2
    <3>2. c[i].fsn = (last - ((i - 1) - 1)) % SeqMod BY <1>1, <3>1 DEF Numbered
    <3>3. i - 1 \in Int BY <2>0
    <3>q. QED BY <3>2, <3>3, NumberBefore
  <2>q. QED BY <2>1, <2>2
<1>5. ASSUME NEW i \in DOMAIN c, NEW j \in DOMAIN c, c[i].msu = c[j].msu PROVE i = j
  <2>0. i \in 1 .. n + 1 /\ j \in 1 .. n + 1 /\ 1 \in 1 .. Len(q) BY <1>1, <1>2
  <2>1. CASE i = 1 /\ j # 1
    <3>1. j - 1 \in 1 .. n /\ buf[j - 1].msu = q[1] BY <1>1, <1>2, <1>3, <1>5, <2>0, <2>1
    <3>q. QED BY <1>1, <2>0, <3>1 DEF Single
  <2>2. CASE i # 1 /\ j = 1
    <3>1. i - 1 \in 1 .. n /\ buf[i - 1].msu = q[1] BY <1>1, <1>2, <1>3, <1>5, <2>0, <2>2
    <3>q. QED BY <1>1, <2>0, <3>1 DEF Single
  <2>3. CASE i # 1 /\ j # 1
    <3>1. /\ i - 1 \in 1 .. n /\ j - 1 \in 1 .. n
          /\ buf[i - 1].msu = buf[j - 1].msu
      BY <1>1, <1>2, <1>5, <2>0, <2>3
    <3>2. i - 1 = j - 1 BY <1>1, <3>1 DEF Single
    <3>q. QED BY <2>0, <3>2
  <2>q. QED BY <2>1, <2>2, <2>3
<1>6. ASSUME NEW i \in DOMAIN t, NEW j \in DOMAIN t, t[i] = t[j] PROVE i = j
  <2>1. i + 1 \in 1 .. Len(q) /\ j + 1 \in 1 .. Len(q) /\ q[i + 1] = q[j + 1]
    BY <1>1, <1>3, <1>6
  <2>2. i + 1 = j + 1 BY <1>1, <2>1 DEF Single
  <2>q. QED BY <1>3, <2>2
<1>7. ASSUME NEW i \in DOMAIN c, NEW j \in DOMAIN t PROVE c[i].msu # t[j]
  <2>0. /\ i \in 1 .. n + 1 /\ j + 1 \in 1 .. Len(q) /\ 1 \in 1 .. Len(q)
        /\ t[j] = q[j + 1] /\ j + 1 # 1
    BY <1>1, <1>2, <1>3
  <2>1. CASE i = 1 BY <1>1, <1>2, <1>3, <2>0, <2>1 DEF Single
  <2>2. CASE i # 1
    <3>1. i - 1 \in 1 .. n /\ c[i] = buf[i - 1] BY <1>1, <1>2, <2>0, <2>2
    <3>q. QED BY <1>1, <2>0, <3>1 DEF Single
  <2>q. QED BY <2>1, <2>2
<1>8. Numbered(c, new.fsn) BY <1>4 DEF Numbered
<1>9. Single(c, t) BY <1>5, <1>6, <1>7 DEF Single
<1>q. QED BY <1>8, <1>9 DEF c, t

\* update_txbuf keeps the newest messages.
LEMMA CutInLists ==
    ASSUME NEW buf \in Seq(TxMsu), NEW q \in Seq(Msu), NEW last \in Seq7,
           Numbered(buf, last), Single(buf, q), NEW k \in 1 .. Len(buf)
    PROVE  Numbered(SubSeq(buf, 1, k - 1), last) /\ Single(SubSeq(buf, 1, k - 1), q)
<1> DEFINE c == SubSeq(buf, 1, k - 1)
<1>1. Len(buf) \in Nat /\ DOMAIN buf = 1 .. Len(buf) BY LenProperties
<1>2. \A i \in 1 .. k - 1 : i \in 1 .. Len(buf) BY <1>1
<1>3. DOMAIN c = 1 .. k - 1 /\ \A i \in 1 .. k - 1 : c[i] = buf[i]
  <2>1. \A i \in 1 .. k - 1 : buf[i] \in TxMsu BY <1>2, ElementOfSeq
  <2>2. k - 1 \in Int /\ 1 \in Int BY <1>1
  <2>3. /\ c \in Seq(TxMsu) /\ Len(c) = IF 1 <= k - 1 THEN (k - 1) - 1 + 1 ELSE 0
        /\ \A i \in 1 .. (k - 1) - 1 + 1 : c[i] = buf[1 + i - 1]
    BY <2>1, <2>2, SubSeqProperties
  <2> HIDE DEF c
  <2>4. DOMAIN c = 1 .. Len(c) BY <2>3, LenProperties
  <2>q. QED BY <1>1, <2>3, <2>4
<1> HIDE DEF c
<1>4. Numbered(c, last) BY <1>1, <1>2, <1>3 DEF Numbered
<1>5. Single(c, q) BY <1>1, <1>2, <1>3 DEF Single
<1>q. QED BY <1>4, <1>5 DEF c

\* mtp2_msu puts a message that is in neither list at the end of tx_q.
LEMMA QueuedInLists ==
    ASSUME NEW buf, NEW q \in Seq(Msu), Single(buf, q), NEW m \in Msu,
           \A i \in DOMAIN buf : buf[i].msu # m, \A i \in DOMAIN q : q[i] # m
    PROVE  Single(buf, Append(q, m))
<1> DEFINE r == Append(q, m)
<1>1. Len(q) \in Nat /\ DOMAIN q = 1 .. Len(q) BY LenProperties
<1>2. /\ DOMAIN r = 1 .. Len(q) + 1 /\ r[Len(q) + 1] = m
      /\ \A i \in 1 .. Len(q) : r[i] = q[i]
  <2>1. /\ r \in Seq(Msu) /\ Len(r) = Len(q) + 1
        /\ \A i \in 1 .. Len(q) : r[i] = q[i]
        /\ r[Len(q) + 1] = m
    BY AppendProperties
  <2> HIDE DEF r
  <2>2. DOMAIN r = 1 .. Len(r) BY <2>1, LenProperties
  <2>q. QED BY <2>1, <2>2
<1> HIDE DEF r
<1>3. ASSUME NEW i \in DOMAIN r
      PROVE  (i \in DOMAIN q /\ r[i] = q[i]) \/ (i = Len(q) + 1 /\ r[i] = m)
  <2>1. i \in 1 .. Len(q) \/ i = Len(q) + 1 BY <1>1, <1>2
  <2>q. QED BY <1>1, <1>2, <2>1
<1>4. Single(buf, r) BY <1>3 DEF Single
<1>q. QED BY <1>4 DEF r

\* What the functions of mtp2.c do to the lists.
Clean(l) == Numbered(l.tx_buf, l.curfsn) /\ Single(l.tx_buf, l.tx_q)

SameLists(l, r) == r.tx_buf = l.tx_buf /\ r.tx_q = l.tx_q /\ r.curfsn = l.curfsn

LEMMA SameClean ==
    ASSUME NEW l, NEW r, SameLists(l, r)
    PROVE  Clean(l) <=> Clean(r)
BY DEF SameLists, Clean

\* mtp2_setstate leaves them alone.
LEMMA SetStateLists ==
    ASSUME NEW l \in Link, NEW new \in LinkState
    PROVE  SameLists(l, SetState(l, new))
<1> USE DEF SameLists, Link, AutoTx, StartTimer, StopTimer
<1>1. \A k \in Link : SameLists(k, FromIdle(k)) BY DEF FromIdle
<1>2. \A k \in Link : SameLists(k, ToIdle(k))
  <2> SUFFICES ASSUME NEW k \in Link PROVE SameLists(k, ToIdle(k)) OBVIOUS
  <2> DEFINE a == AutoTx(k, "SIOS")
             i == [a EXCEPT !.state = "IDLE"]
  <2>1. i \in Link /\ SameLists(k, i)
    <3>1. a \in Link BY ZenonT(60), AutoTxField DEF Lssu
    <3>2. i \in Link
      <4> HIDE DEF a
      <4>1. "IDLE" \in LinkState BY DEF LinkState
      <4>q. QED BY <3>1, <4>1, StateField
    <3>q. QED BY <3>2
  <2>2. ToIdle(k) = FromIdle(i) BY DEF ToIdle
  <2> HIDE DEF i
  <2>q. QED BY <1>1, <2>1, <2>2
<1>3. \A k \in Link : \A t \in Timer : StopTimer(k, t) \in Link BY ZenonT(60), TimerField
<1>4. ASSUME NEW t \in Timer
      PROVE  LET d == StopTimer(l, t) IN d \in Link /\ SameLists(l, d) /\ SameLists(l, ToIdle(d))
  <2> DEFINE d == StopTimer(l, t)
  <2>1. d \in Link /\ SameLists(l, d) BY <1>3
  <2> HIDE DEF d
  <2>2. SameLists(l, ToIdle(d)) BY <1>2, <2>1
  <2>q. QED BY <2>1, <2>2 DEF d
<1>5. {"t1", "t2", "t3", "t4"} \subseteq Timer BY DEF Timer, AlignTimer
<1>6. SameLists(l, FromNotAligned(l, new))
  BY <1>4, <1>5 DEF FromNotAligned, SendAlignment
<1>7. SameLists(l, FromAligned(l, new)) BY <1>4, <1>5 DEF FromAligned
<1>8. SameLists(l, FromProving(l, new)) BY <1>4, <1>5 DEF FromProving, SendAlignment
<1>9. SameLists(l, FromAlignedReady(l, new))
  BY <1>4, <1>5 DEF FromAlignedReady, PostEvent, RefuseEvent
<1>10. SameLists(l, FromInService(l, new))
  <2>1. PostEvent(l, "LINK_DOWN") \in Link /\ SameLists(l, PostEvent(l, "LINK_DOWN"))
    BY EventField DEF LinkEvent, PostEvent
  <2>2. SameLists(l, ToIdle(PostEvent(l, "LINK_DOWN"))) BY <1>2, <2>1
  <2>q. QED BY <2>2 DEF FromInService, RefuseEvent
<1>11. l.state \in LinkState OBVIOUS
<1>q. QED BY <1>1, <1>6, <1>7, <1>8, <1>9, <1>10, <1>11 DEF SetState, LinkState

\* update_txbuf drops old messages.
LEMMA UpdateTxBufClean ==
    ASSUME NEW l \in Link, NEW upto, Clean(l)
    PROVE  Clean(UpdateTxBuf(l, upto))
<1> DEFINE hits == {i \in DOMAIN l.tx_buf : l.tx_buf[i].fsn = upto}
           left == SubSeq(l.tx_buf, 1, Least(hits) - 1)
           cut  == [l EXCEPT !.tx_buf = left]
           r    == UpdateTxBuf(l, upto)
<1>1. l.tx_buf \in Seq(TxMsu) /\ l.tx_q \in Seq(Msu) /\ l.curfsn \in Seq7 BY DEF Link
<1>2. CASE hits = {}
  BY <1>2 DEF UpdateTxBuf
<1>3. CASE hits # {}
  <2>1. hits \subseteq 1 .. Len(l.tx_buf) /\ hits \subseteq Nat BY <1>1, LenProperties
  <2>2. Least(hits) \in 1 .. Len(l.tx_buf)
    <3> HIDE DEF hits
    <3>q. QED BY <1>3, <2>1, LeastExists
  <2>3. Numbered(left, l.curfsn) /\ Single(left, l.tx_q)
    <3> HIDE DEF hits
    <3>q. QED BY <1>1, <2>2, CutInLists DEF Clean
  <2>4. r.tx_buf = left /\ r.tx_q = l.tx_q /\ r.curfsn = l.curfsn
    <3>1. r \in {cut, StopTimer(cut, "t7"), StartTimer(StopTimer(cut, "t7"), "t7")}
      BY <1>3 DEF UpdateTxBuf
    <3> HIDE DEF left
    <3>q. QED BY <3>1 DEF StopTimer, StartTimer, Link
  <2>q. QED BY <2>3, <2>4 DEF Clean
<1>q. QED BY <1>2, <1>3

\* mtp2_receive: an acknowledgement first, then what leaves the lists alone.
LEMMA ReceiveClean ==
    ASSUME NEW l \in Link, NEW su \in Su, Clean(l)
    PROVE  Clean(Receive(l, su))
<1> DEFINE u == UpdateTxBuf(l, su.bsn)
           a == AckAndNack(l, su)
<1> USE DEF SameLists
<1>1. u \in Link /\ Clean(u) BY UpdateTxBufType, UpdateTxBufClean
<1>2. a \in Link /\ Clean(a)
  <2>1. a \in Link BY AckAndNackType
  <2>2. a = u \/ a = Retransmit(u) BY DEF AckAndNack
  <2> HIDE DEF u, a
  <2>3. SameLists(u, Retransmit(u)) BY <1>1 DEF Retransmit, Link
  <2>q. QED BY <1>1, <2>1, <2>2, <2>3, SameClean
<1> HIDE DEF a
<1>3. "IDLE" \in LinkState /\ "NOTALIGNED" \in LinkState /\ "ALIGNED" \in LinkState
      /\ "PROVING" \in LinkState /\ "ALIGNEDREADY" \in LinkState /\ "INSERVICE" \in LinkState
  BY DEF LinkState
<1>4. SameLists(a, FisuRx(a, su))
  <2> DEFINE r == IF /\ a.state = "INSERVICE"
                     /\ su.fsn # a.lastfsnacked
                     /\ su.fib = a.curbib
                  THEN RequestRetransmission(a) ELSE a
             s == [r EXCEPT !.lastsurxd = "FISU"]
  <2>1. r \in Link /\ SameLists(a, r)
    <3>1. RequestRetransmission(a) \in Link BY <1>2, RetransmitType
    <3>2. SameLists(a, RequestRetransmission(a)) BY <1>2 DEF RequestRetransmission, Link
    <3>q. QED BY <1>2, <3>1, <3>2
  <2>2. FisuRx(a, su) \in {r, s, SetState(s, "ALIGNEDREADY"), SetState(s, "INSERVICE")}
    BY DEF FisuRx
  <2> HIDE DEF r
  <2>3. s \in Link /\ SameLists(a, s) BY ZenonT(60), <2>1 DEF Link
  <2> HIDE DEF s
  <2>q. QED BY <1>3, <2>1, <2>2, <2>3, SetStateLists
<1>5. CASE su.kind \in Lssu
  <2> DEFINE s == [a EXCEPT !.lastsurxd = su.kind, !.emergency = a.emergency \/ su.kind = "SIE"]
             c == ChooseProving(s)
  <2>1. s \in Link /\ SameLists(a, s)
    <3>1. (a.emergency \/ su.kind = "SIE") \in BOOLEAN OBVIOUS
    <3>2. s \in Link BY <1>2, <1>5, <3>1, RxField
    <3>q. QED BY <1>2, <3>2 DEF Link
  <2>2. \/ LssuRx(a, su) \in {a, s}
        \/ \E new \in LinkState : LssuRx(a, su) \in {SetState(s, new), SetState(c, new)}
    BY <1>3 DEF LssuRx
  <2> HIDE DEF s
  <2>3. c \in Link /\ SameLists(a, c)
    <3>1. c \in Link BY <2>1, ChooseProvingField
    <3>q. QED BY <2>1, <3>1 DEF ChooseProving, Link
  <2> HIDE DEF c
  <2>4. SameLists(a, LssuRx(a, su)) BY <2>1, <2>2, <2>3, SetStateLists
  <2>5. Receive(l, su) = LssuRx(a, su) BY <1>5 DEF Receive, a, Lssu
  <2>q. QED BY <1>2, <2>4, <2>5, SameClean
<1>6. SameLists(a, MsuRx(a, su))
  <2> DEFINE s == IF a.state = "ALIGNEDREADY" THEN SetState(a, "INSERVICE") ELSE a
  <2>1. s \in Link /\ SameLists(a, s) BY <1>2, <1>3, SetStateType, SetStateLists
  <2>2. MsuRx(a, su) \in {a, s, [s EXCEPT !.lastfsnacked = su.fsn, !.write = TRUE],
                          RequestRetransmission(s)}
    BY DEF MsuRx
  <2> HIDE DEF s
  <2>q. QED BY ZenonT(60), <2>1, <2>2 DEF RequestRetransmission, Link
<1>7. CASE su.kind \notin Lssu
  <2>1. su.kind \in {"FISU", "MSU"} BY <1>7 DEF Su, SuKind
  <2>2. Receive(l, su) \in {FisuRx(a, su), MsuRx(a, su)} BY <2>1 DEF Receive, a
  <2>q. QED BY <1>2, <1>4, <1>6, <2>2, SameClean
<1>q. QED BY <1>5, <1>7

\* mtp2_transmit
LEMMA ResetClean ==
    ASSUME NEW l \in Link
    PROVE  Clean(ResetMtp(l))
<1>1. ResetMtp(l).tx_buf = <<>> /\ ResetMtp(l).tx_q = <<>> BY DEF ResetMtp, Link
<1>q. QED BY <1>1 DEF Clean, Numbered, Single

LEMMA TransmitClean ==
    ASSUME NEW l \in Link, NEW ok \in BOOLEAN, Clean(l)
    PROVE  Clean(Transmit(l, ok))
<1> DEFINE r == Transmit(l, ok)
<1>0. /\ l.tx_buf \in Seq(TxMsu) /\ l.tx_q \in Seq(Msu) /\ l.curfsn \in Seq7
      /\ l.curbib \in Bit
  BY DEF Link
<1>1. CASE l.retransmit_pos # NoMsu
  <2>1. r = l \/ r = [l EXCEPT !.retransmit_pos = NextNewer(l.tx_buf, l.retransmit_pos)]
    BY <1>1 DEF Transmit, TransmitOld
  <2>2. SameLists(l, r) BY <2>1 DEF SameLists, Link
  <2>q. QED BY <2>2, SameClean
<1>2. CASE l.retransmit_pos = NoMsu /\ l.tx_q # <<>>
  <2> DEFINE fsn  == (l.curfsn + 1) % SeqMod
             new  == [msu |-> Head(l.tx_q), fsn |-> fsn, bib |-> l.curbib]
             buf  == <<new>> \o l.tx_buf
             pos  == IF ok THEN l.retransmit_pos ELSE Head(l.tx_q)
             sent == [l EXCEPT !.curfsn = fsn, !.write = TRUE, !.tx_q = Tail(l.tx_q),
                               !.tx_buf = buf, !.retransmit_pos = pos]
  <2>1. r \in {sent, StartTimer(sent, "t7")} BY <1>2 DEF Transmit, TransmitNew
  <2>2. fsn \in Seq7 BY <1>0, SeqModAssumption DEF Seq7
  <2>3. Head(l.tx_q) \in Msu BY <1>0, <1>2, HeadTailProperties
  <2> HIDE DEF fsn
  <2>4. new \in TxMsu /\ new.msu = Head(l.tx_q) /\ new.fsn = fsn
    BY <1>0, <2>2, <2>3 DEF TxMsu
  <2> HIDE DEF new
  <2>5. Numbered(buf, fsn) /\ Single(buf, Tail(l.tx_q))
    BY <1>0, <1>2, <2>4, NewInLists DEF Clean, fsn
  <2> HIDE DEF buf, pos
  <2>6. r.tx_buf = buf /\ r.tx_q = Tail(l.tx_q) /\ r.curfsn = fsn
    BY <2>1 DEF StartTimer, Link
  <2>q. QED BY <2>5, <2>6 DEF Clean
<1>3. CASE l.retransmit_pos = NoMsu /\ l.tx_q = <<>>
  <2> DEFINE a == IF l.autotxsutype \in {"SIOS", "SIO"} THEN ResetMtp(l) ELSE l
  <2>1. r = a \/ r = [a EXCEPT !.write = FALSE] BY <1>3 DEF Transmit, TransmitFill
  <2>2. a \in Link /\ Clean(a) BY ResetField, ResetClean
  <2> HIDE DEF a
  <2>3. SameLists(a, [a EXCEPT !.write = FALSE]) BY <2>2 DEF SameLists, Link
  <2>q. QED BY <2>1, <2>2, <2>3, SameClean
<1>q. QED BY <1>1, <1>2, <1>3

\* mtp2_msu with a message that the link does not hold
LEMMA MsuClean ==
    ASSUME NEW l \in Link, Clean(l), NEW m \in Msu \ Live(l)
    PROVE  Clean(Mtp2Msu(l, m))
<1>1. l.tx_q \in Seq(Msu) BY DEF Link
<1>2. /\ Mtp2Msu(l, m).tx_buf = l.tx_buf /\ Mtp2Msu(l, m).curfsn = l.curfsn
      /\ Mtp2Msu(l, m).tx_q = Append(l.tx_q, m)
  BY DEF Mtp2Msu, Link
<1>3. (\A i \in DOMAIN l.tx_buf : l.tx_buf[i].msu # m) /\ \A i \in DOMAIN l.tx_q : l.tx_q[i] # m
  BY DEF Live
<1>4. Single(l.tx_buf, Append(l.tx_q, m)) BY <1>1, <1>3, QueuedInLists DEF Clean
<1>q. QED BY <1>2, <1>4 DEF Clean

\* mtp2_start empties the lists.
LEMMA StartClean ==
    ASSUME NEW l \in Link, NEW e \in BOOLEAN
    PROVE  Clean(Mtp2Start(l, e))
<1> DEFINE m == ResetMtp(l)
           r == [m EXCEPT !.emergency = e]
<1>1. m \in Link /\ Clean(m) BY ResetField, ResetClean
<1>2. Mtp2Start(l, e) \in {r, SetState(r, "NOTALIGNED")} BY DEF Mtp2Start
<1> HIDE DEF m
<1>3. r \in Link /\ SameLists(m, r) BY ZenonT(60), <1>1 DEF SameLists, Link
<1> HIDE DEF r
<1>4. "NOTALIGNED" \in LinkState BY DEF LinkState
<1>q. QED BY <1>1, <1>2, <1>3, <1>4, SetStateLists, SameClean

\* No timer touches them.
LEMMA RunSlotLists ==
    ASSUME NEW l \in Link, NEW x \in Slot, l.tm.slot[x] # NoCallback
    PROVE  SameLists(l, RunSlot(l, x))
<1> DEFINE k  == TakeSlot(l.tm, x)
           a  == [l EXCEPT !.tm = k]
           k7 == [k EXCEPT !.id["t7"] = -1]
           b  == [a EXCEPT !.tm.id["t7"] = -1]
           t  == l.tm.slot[x]
<1>1. l.tm \in TimerTable(Timer) BY DEF Link
<1>2. t \in Timer BY <1>1 DEF TimerTable
<1>3. k \in TimerTable(Timer) BY <1>1, TakeSlotEffect
<1> HIDE DEF k
<1>4. a \in Link /\ SameLists(l, a) /\ a.tm = k BY <1>3 DEF Link, SameLists
<1>5. b \in Link /\ SameLists(l, b)
  <2>1. k7 \in TimerTable(Timer)
    <3>1. k = [slot |-> k.slot, id |-> k.id] /\ k.id \in [Timer -> SlotId]
          /\ k.slot \in [Slot -> Timer \cup {NoCallback}]
      BY <1>3 DEF TimerTable
    <3>2. k7 = [slot |-> k.slot, id |-> [k.id EXCEPT !["t7"] = -1]] BY <3>1
    <3>3. -1 \in SlotId BY MaxSchedAssumption DEF SlotId
    <3>q. QED BY <3>1, <3>2, <3>3 DEF TimerTable
  <2>2. b = [a EXCEPT !.tm = k7] BY <1>4
  <2> HIDE DEF a, k7
  <2>q. QED BY ZenonT(60), <1>4, <2>1, <2>2 DEF Link, SameLists
<1>6. RunSlot(l, x) \in {SetState(a, "IDLE"), SetState(a, "ALIGNEDREADY"), SetState(b, "IDLE")}
  BY <1>2 DEF RunSlot, ExpireTimer, k, Timer, AlignTimer
<1> HIDE DEF a, b
<1>7. "IDLE" \in LinkState /\ "ALIGNEDREADY" \in LinkState BY DEF LinkState
<1>q. QED BY <1>4, <1>5, <1>6, <1>7, SetStateLists DEF SameLists

\* For any modulus and any peer, the messages that wait for an acknowledgement
\* are numbered without a gap down from the number last used, and no message is
\* in the link's lists twice (mtp2_transmit, update_txbuf).
THEOREM TxBufInOrder == Spec => []TxBufConsecutive
<1>1. Init => Clean(lk)
  BY DEF Init, NewLink, Clean, Numbered, Single
<1>2. Inv /\ Clean(lk) /\ [Next]_vars => Clean(lk)'
  <2> SUFFICES ASSUME Inv, Clean(lk), [Next]_vars PROVE Clean(lk')
    BY DEF Clean, Numbered, Single
  <2>0. lk \in Link BY DEF Inv, TypeOK
  <2>1. CASE Start BY <2>0, <2>1, StartClean DEF Start
  <2>2. CASE Stop
    <3>1. "IDLE" \in LinkState BY DEF LinkState
    <3>q. QED BY <2>0, <2>2, <3>1, SetStateLists, SameClean DEF Stop, Mtp2Stop
  <2>3. ASSUME NEW su \in PeerSu, Read(su) PROVE Clean(lk')
    <3> DEFINE r == Receive(lk, su)
    <3>1. su \in Su BY PeerSuAssumption
    <3>2. r \in Link /\ Clean(r) BY <2>0, <3>1, ReceiveType, ReceiveClean
    <3>3. lk' = r \/ \E slta \in Msu \ Live(r) : lk' = Mtp2Msu(r, slta)
      BY <2>3 DEF Read
    <3> HIDE DEF r
    <3>q. QED BY <3>2, <3>3, MsuClean
  <2>4. ASSUME NEW ok \in BOOLEAN, Write(ok) PROVE Clean(lk')
    BY <2>0, <2>4, TransmitClean DEF Write
  <2>5. CASE QueueMsu BY <2>0, <2>5, MsuClean DEF QueueMsu
  <2>6. ASSUME NEW x \in Slot, Expire(x) PROVE Clean(lk')
    BY <2>0, <2>6, RunSlotLists, SameClean DEF Expire
  <2>7. CASE CheckEvent
    <3> DEFINE p == [lk EXCEPT !.ev = Tail(lk.ev)]
    <3>1. p \in Link BY <2>0, <2>7, PopField DEF CheckEvent
    <3>2. SameLists(lk, p) BY <2>0 DEF SameLists, Link
    <3>3. Clean(p) /\ Live(p) = Live(lk) BY <3>2, SameClean DEF SameLists, Live
    <3>4. lk' = p \/ \E sltm \in Msu \ Live(lk) : lk' = Mtp2Msu(p, sltm)
      BY <2>7 DEF CheckEvent
    <3> HIDE DEF p
    <3>q. QED BY <3>1, <3>3, <3>4, MsuClean
  <2>8. CASE Alarm
    <3>1. SameLists(lk, lk') BY <2>0, <2>8 DEF Alarm, Mtp2Alarm, SameLists, Link
    <3>q. QED BY <3>1, SameClean
  <2>9. CASE NoAlarm
    <3>1. Mtp2NoAlarm(lk) \in Link BY <2>0, StateField DEF Mtp2NoAlarm, LinkState
    <3>q. QED BY <2>9, <3>1, StartClean DEF NoAlarm
  <2>10. CASE UNCHANGED vars BY <2>10 DEF vars
  <2>q. QED BY <2>1, <2>2, <2>3, <2>4, <2>5, <2>6, <2>7, <2>8, <2>9, <2>10 DEF Next
<1>3. Inv /\ Clean(lk) => TxBufConsecutive
  BY SingleInjective DEF Inv, TypeOK, Link, Clean, Numbered, TxBufConsecutive
<1>q. QED BY <1>1, <1>2, <1>3, AlwaysInv, PTL DEF Spec
===============================================================================
