------------------------------ MODULE Mtp2Proofs ------------------------------
(***************************************************************************)
(* What the functions of mtp2.c do to a link record: they keep its type,   *)
(* keep the timers of the alignment in step with the link's state, and     *)
(* tell MTP3 when a link leaves service.                                   *)
(***************************************************************************)
EXTENDS Mtp2, SchedTableProofs, SequenceTheorems

\* Slots and variables belong together, and the alignment's timers are
\* scheduled only in the states they guard.
InStep(l) ==
    /\ Belong(Timer, l.tm)
    /\ \A t \in AlignTimer : l.tm.id[t] \in Slot => l.state = AlignTimerState[t]

\* No timer of the alignment is scheduled.
Quiet(l) ==
    /\ Belong(Timer, l.tm)
    /\ \A t \in AlignTimer : l.tm.id[t] \notin Slot

\* A link that leaves service says so in the event queue, or cannot because
\* the queue is full.
Tells(l, r) ==
    /\ r.ev = l.ev \/ \E e \in LinkEvent : r.ev = Append(l.ev, e)
    /\ l.evrefused => r.evrefused
    /\ l.state = "INSERVICE" =>
         r.state = "INSERVICE" \/ r.evrefused \/ r.ev = Append(l.ev, "LINK_DOWN")

-------------------------------------------------------------------------------
(* Fields. *)

\* Changing the state field.
LEMMA StateField ==
    ASSUME NEW l \in Link, NEW s \in LinkState
    PROVE  /\ [l EXCEPT !.state = s] \in Link
           /\ [l EXCEPT !.state = s].state = s
           /\ [l EXCEPT !.state = s].tm = l.tm
           /\ [l EXCEPT !.state = s].ev = l.ev
           /\ [l EXCEPT !.state = s].evrefused = l.evrefused
BY DEF Link

\* mtp2_lssu and mtp2_fisu change neither state nor timers nor events.
LEMMA AutoTxField ==
    ASSUME NEW l \in Link, NEW su \in Lssu \cup {"FISU"}
    PROVE  /\ AutoTx(l, su) \in Link
           /\ AutoTx(l, su).state = l.state
           /\ AutoTx(l, su).tm = l.tm
           /\ AutoTx(l, su).ev = l.ev
           /\ AutoTx(l, su).evrefused = l.evrefused
BY DEF Link, AutoTx

\* So does reset_mtp.
LEMMA ResetField ==
    ASSUME NEW l \in Link
    PROVE  /\ ResetMtp(l) \in Link
           /\ ResetMtp(l).state = l.state
           /\ ResetMtp(l).tm = l.tm
           /\ ResetMtp(l).ev = l.ev
           /\ ResetMtp(l).evrefused = l.evrefused
<1>1. LastSeq \in Seq7 BY SeqModAssumption DEF LastSeq, Seq7
<1>2. <<>> \in Seq(TxMsu) /\ <<>> \in Seq(Msu) OBVIOUS
<1>q. QED BY <1>1, <1>2 DEF Link, ResetMtp, Bit

\* ss7_schedule_del and ss7_schedule_event on a link's timer.
LEMMA TimerField ==
    ASSUME NEW l \in Link, NEW t \in Timer
    PROVE  /\ StopTimer(l, t) \in Link
           /\ StopTimer(l, t).state = l.state
           /\ StopTimer(l, t).tm = ScheduleDel(l.tm, t)
           /\ StopTimer(l, t).ev = l.ev
           /\ StopTimer(l, t).evrefused = l.evrefused
           /\ StartTimer(l, t) \in Link
           /\ StartTimer(l, t).state = l.state
           /\ StartTimer(l, t).tm = ScheduleEvent(l.tm, t)
           /\ StartTimer(l, t).ev = l.ev
           /\ StartTimer(l, t).evrefused = l.evrefused
<1>1. l.tm \in TimerTable(Timer) BY DEF Link
<1>2. /\ ScheduleDel(l.tm, t) \in TimerTable(Timer)
      /\ ScheduleEvent(l.tm, t) \in TimerTable(Timer)
  BY <1>1, ScheduleDelEffect, ScheduleEventEffect
<1>q. QED BY <1>2 DEF StopTimer, StartTimer, Link

\* Writing into a free element of the event queue, or finding none.
LEMMA EventField ==
    ASSUME NEW l \in Link, NEW e \in LinkEvent
    PROVE  /\ PostEvent(l, e) \in Link
           /\ PostEvent(l, e).state = l.state
           /\ PostEvent(l, e).tm = l.tm
           /\ PostEvent(l, e).ev = Append(l.ev, e)
           /\ PostEvent(l, e).evrefused = l.evrefused
           /\ RefuseEvent(l) \in Link
           /\ RefuseEvent(l).state = l.state
           /\ RefuseEvent(l).tm = l.tm
           /\ RefuseEvent(l).ev = l.ev
           /\ RefuseEvent(l).evrefused
<1>1. l.ev \in Seq(LinkEvent) BY DEF Link
<1>2. Append(l.ev, e) \in Seq(LinkEvent) BY <1>1
<1>q. QED BY <1>2 DEF PostEvent, RefuseEvent, Link

\* mtp2_new makes a link of the right type.
LEMMA NewLinkType == NewLink \in Link
<1>1. LastSeq \in Seq7 BY SeqModAssumption DEF LastSeq, Seq7
<1>2. NewTimerTable(Timer) \in TimerTable(Timer)
  BY MaxSchedAssumption DEF NewTimerTable, TimerTable, SlotId
<1>3. <<>> \in Seq(TxMsu) /\ <<>> \in Seq(Msu) /\ <<>> \in Seq(LinkEvent) OBVIOUS
<1>q. QED BY <1>1, <1>2, <1>3 DEF NewLink, Link, LinkState, Lssu, Bit

-------------------------------------------------------------------------------
(* Types and events. *)

Silent(l, r) == r.ev = l.ev /\ r.evrefused = l.evrefused

\* mtp2_setstate in IDLE keeps the type and posts no event.
LEMMA FromIdleType ==
    ASSUME NEW l \in Link
    PROVE  FromIdle(l) \in Link /\ Silent(l, FromIdle(l))
<1> DEFINE s == StartTimer(l, "t2")
           a == AutoTx(s, "SIO")
<1>1. s \in Link /\ Silent(l, s) BY TimerField DEF Timer, AlignTimer, Silent
<1> HIDE DEF s
<1>2. a \in Link /\ Silent(s, a) BY <1>1, AutoTxField DEF Lssu, Silent
<1> HIDE DEF a
<1>3. FromIdle(l) = [a EXCEPT !.state = "NOTALIGNED"] BY DEF FromIdle, a, s
<1>4. "NOTALIGNED" \in LinkState BY DEF LinkState
<1>5. FromIdle(l) \in Link /\ Silent(a, FromIdle(l))
  BY <1>2, <1>3, <1>4, StateField DEF Silent
<1>q. QED BY <1>1, <1>2, <1>5 DEF Silent

\* to_idle keeps the type and posts no event.
LEMMA ToIdleType ==
    ASSUME NEW l \in Link
    PROVE  ToIdle(l) \in Link /\ Silent(l, ToIdle(l))
<1> DEFINE a == AutoTx(l, "SIOS")
           i == [a EXCEPT !.state = "IDLE"]
<1>1. a \in Link /\ Silent(l, a) BY AutoTxField DEF Lssu, Silent
<1> HIDE DEF a
<1>2. i \in Link /\ Silent(a, i) BY <1>1, StateField DEF LinkState, Silent
<1> HIDE DEF i
<1>3. ToIdle(l) = FromIdle(i) BY DEF ToIdle, i, a
<1>q. QED BY <1>1, <1>2, <1>3, FromIdleType DEF Silent

\* Choosing SIE or SIN keeps type, state, timers and events.
LEMMA SendAlignmentType ==
    ASSUME NEW l \in Link
    PROVE  /\ SendAlignment(l) \in Link /\ Silent(l, SendAlignment(l))
           /\ SendAlignment(l).tm = l.tm /\ SendAlignment(l).state = l.state
BY AutoTxField DEF SendAlignment, Lssu, Silent

\* What mtp2_setstate does in a state, whatever state it is asked for.
LEMMA FromStatesType ==
    ASSUME NEW l \in Link, NEW new \in LinkState
    PROVE  /\ FromNotAligned(l, new) \in Link /\ Silent(l, FromNotAligned(l, new))
           /\ FromAligned(l, new) \in Link /\ Silent(l, FromAligned(l, new))
           /\ FromProving(l, new) \in Link /\ Silent(l, FromProving(l, new))
<1> DEFINE D(t) == StopTimer(l, t)
<1>1. \A t \in Timer : D(t) \in Link /\ Silent(l, D(t)) BY TimerField DEF Silent
<1>2. ASSUME NEW d \in Link, Silent(l, d)
      PROVE  /\ ToIdle(d) \in Link /\ Silent(l, ToIdle(d))
             /\ [d EXCEPT !.state = new] \in Link /\ Silent(l, [d EXCEPT !.state = new])
             /\ SendAlignment(d) \in Link /\ Silent(l, SendAlignment(d))
             /\ AutoTx(d, "FISU") \in Link /\ Silent(l, AutoTx(d, "FISU"))
             /\ \A t \in Timer : StartTimer(d, t) \in Link /\ Silent(l, StartTimer(d, t))
  BY <1>2, ToIdleType, StateField, SendAlignmentType, AutoTxField, TimerField
     DEF Silent
<1>3. {"t1", "t2", "t3", "t4"} \subseteq Timer BY DEF Timer, AlignTimer
<1> HIDE DEF D
<1>4. FromNotAligned(l, new) \in Link /\ Silent(l, FromNotAligned(l, new))
  <2> DEFINE d == D("t2")
  <2>1. d \in Link /\ Silent(l, d) BY <1>1, <1>3
  <2>2. FromNotAligned(l, new) \in {ToIdle(d), [SendAlignment(StartTimer(d, "t3")) EXCEPT !.state = new],
           [SendAlignment(StartTimer(d, "t4")) EXCEPT !.state = new], [d EXCEPT !.state = new]}
    BY DEF FromNotAligned, d, D
  <2> HIDE DEF d
  <2>q. QED BY <2>1, <2>2, <1>2, <1>3
<1>5. FromAligned(l, new) \in Link /\ Silent(l, FromAligned(l, new))
  <2> DEFINE d == D("t3")
  <2>1. d \in Link /\ Silent(l, d) BY <1>1, <1>3
  <2>2. FromAligned(l, new) \in {ToIdle(d), [StartTimer(d, "t4") EXCEPT !.state = new],
                                 [d EXCEPT !.state = new]}
    BY DEF FromAligned, d, D
  <2> HIDE DEF d
  <2>q. QED BY <2>1, <2>2, <1>2, <1>3
<1>6. FromProving(l, new) \in Link /\ Silent(l, FromProving(l, new))
  <2> DEFINE d == D("t4")
  <2>1. d \in Link /\ Silent(l, d) BY <1>1, <1>3
  <2>2. FromProving(l, new) \in {ToIdle(d), StartTimer(d, "t4"),
           [SendAlignment(d) EXCEPT !.state = new],
           [AutoTx(StartTimer(d, "t1"), "FISU") EXCEPT !.state = new], [d EXCEPT !.state = new]}
    BY DEF FromProving, d, D
  <2> HIDE DEF d
  <2>q. QED BY <2>1, <2>2, <1>2, <1>3
<1>q. QED BY <1>4, <1>5, <1>6

\* mtp2_setstate in ALIGNEDREADY posts LINK_UP or nothing.
LEMMA FromReadyType ==
    ASSUME NEW l \in Link, NEW new \in LinkState, l.state = "ALIGNEDREADY"
    PROVE  FromAlignedReady(l, new) \in Link /\ Tells(l, FromAlignedReady(l, new))
<1> DEFINE d == StopTimer(l, "t1")
           r == FromAlignedReady(l, new)
<1>1. d \in Link /\ Silent(l, d) /\ "t1" \in Timer
  <2>1. "t1" \in Timer BY DEF Timer, AlignTimer
  <2>q. QED BY <2>1, TimerField DEF Silent
<1>2. r \in {ToIdle(d), AutoTx(StartTimer(d, "t1"), "FISU"),
             [PostEvent(d, "LINK_UP") EXCEPT !.state = new], RefuseEvent(d),
             [d EXCEPT !.state = new]}
  BY DEF FromAlignedReady
<1> HIDE DEF d, r
<1>3. CASE r = ToIdle(d) BY <1>1, <1>3, ToIdleType DEF Silent, Tells, r
<1>4. CASE r = AutoTx(StartTimer(d, "t1"), "FISU")
  <2>1. StartTimer(d, "t1") \in Link /\ Silent(d, StartTimer(d, "t1"))
    BY <1>1, TimerField DEF Silent
  <2>2. r \in Link /\ Silent(StartTimer(d, "t1"), r)
    BY <2>1, <1>4, AutoTxField DEF Silent
  <2>q. QED BY <1>1, <2>1, <2>2 DEF Silent, Tells, r
<1>5. CASE r = [PostEvent(d, "LINK_UP") EXCEPT !.state = new]
  <2> DEFINE p == PostEvent(d, "LINK_UP")
  <2>1. "LINK_UP" \in LinkEvent BY DEF LinkEvent
  <2>2. p \in Link /\ p.ev = Append(d.ev, "LINK_UP") /\ p.evrefused = d.evrefused
    BY <1>1, <2>1, EventField
  <2> HIDE DEF p
  <2>3. r \in Link /\ r.ev = p.ev /\ r.evrefused = p.evrefused
    BY <1>5, <2>2, StateField DEF p
  <2>q. QED BY <1>1, <2>1, <2>2, <2>3 DEF Silent, Tells, r
<1>6. CASE r = RefuseEvent(d)
  <2>1. "LINK_UP" \in LinkEvent BY DEF LinkEvent
  <2>2. r \in Link /\ r.ev = d.ev /\ r.evrefused
    BY <1>1, <1>6, <2>1, EventField
  <2>q. QED BY <1>1, <2>2 DEF Silent, Tells, r
<1>7. CASE r = [d EXCEPT !.state = new]
  <2>1. r \in Link /\ Silent(d, r) BY <1>1, <1>7, StateField DEF Silent
  <2>q. QED BY <1>1, <2>1 DEF Silent, Tells, r
<1>q. QED BY <1>2, <1>3, <1>4, <1>5, <1>6, <1>7

\* mtp2_setstate in INSERVICE posts LINK_DOWN when the link leaves it.
LEMMA FromServiceType ==
    ASSUME NEW l \in Link, NEW new \in LinkState, l.state = "INSERVICE"
    PROVE  FromInService(l, new) \in Link /\ Tells(l, FromInService(l, new))
<1> DEFINE p == PostEvent(l, "LINK_DOWN")
           f == RefuseEvent(l)
           r == FromInService(l, new)
<1>1. "LINK_DOWN" \in LinkEvent BY DEF LinkEvent
<1>2. /\ p \in Link /\ p.ev = Append(l.ev, "LINK_DOWN") /\ p.evrefused = l.evrefused
      /\ f \in Link /\ f.ev = l.ev /\ f.evrefused
  BY <1>1, EventField
<1>3. r \in {l, ToIdle(p), f} BY DEF FromInService
<1>4. r = l => Tells(l, r) BY DEF Tells
<1> HIDE DEF p, f, r
<1>5. r = f => Tells(l, r) BY <1>2 DEF Tells
<1>6. r = ToIdle(p) => r \in Link /\ Tells(l, r)
  BY <1>1, <1>2, ToIdleType DEF Silent, Tells
<1>q. QED BY <1>2, <1>3, <1>4, <1>5, <1>6 DEF r

\* mtp2_setstate keeps the link's type and announces its end of service.
LEMMA SetStateType ==
    ASSUME NEW l \in Link, NEW new \in LinkState
    PROVE  SetState(l, new) \in Link /\ Tells(l, SetState(l, new))
<1> DEFINE r == SetState(l, new)
<1>1. l.state \in LinkState BY DEF Link
<1>2. CASE l.state = "ALARM"
  <2>1. r = l BY <1>2 DEF SetState
  <2>q. QED BY <2>1 DEF Tells
<1>3. CASE l.state = "IDLE"
  <2>1. r = FromIdle(l) BY <1>3 DEF SetState
  <2>q. QED BY <1>3, <2>1, FromIdleType DEF Tells, Silent
<1>4. CASE l.state = "NOTALIGNED"
  <2>1. r = FromNotAligned(l, new) BY <1>4 DEF SetState
  <2>q. QED BY <1>4, <2>1, FromStatesType DEF Tells, Silent
<1>5. CASE l.state = "ALIGNED"
  <2>1. r = FromAligned(l, new) BY <1>5 DEF SetState
  <2>q. QED BY <1>5, <2>1, FromStatesType DEF Tells, Silent
<1>6. CASE l.state = "PROVING"
  <2>1. r = FromProving(l, new) BY <1>6 DEF SetState
  <2>q. QED BY <1>6, <2>1, FromStatesType DEF Tells, Silent
<1>7. CASE l.state = "ALIGNEDREADY"
  <2>1. r = FromAlignedReady(l, new) BY <1>7 DEF SetState
  <2>q. QED BY <1>7, <2>1, FromReadyType
<1>8. CASE l.state = "INSERVICE"
  <2>1. r = FromInService(l, new) BY <1>8 DEF SetState
  <2>q. QED BY <1>8, <2>1, FromServiceType
<1>q. QED BY <1>1, <1>2, <1>3, <1>4, <1>5, <1>6, <1>7, <1>8 DEF LinkState

-------------------------------------------------------------------------------
(* Data transfer: neither the state nor the events change, and of the      *)
(* timers only T7.                                                         *)

Data(l, r) == r.state = l.state /\ Silent(l, r)

SameTimers(l, r) == r.state = l.state /\ r.tm = l.tm

\* mtp2_msu
LEMMA MsuType ==
    ASSUME NEW l \in Link, NEW m \in Msu
    PROVE  Mtp2Msu(l, m) \in Link /\ Data(l, Mtp2Msu(l, m)) /\ SameTimers(l, Mtp2Msu(l, m))
<1>1. Append(l.tx_q, m) \in Seq(Msu) BY DEF Link
<1>q. QED BY <1>1 DEF Mtp2Msu, Link, Data, Silent, SameTimers

\* mtp2_retransmit and mtp2_request_retransmission
LEMMA RetransmitType ==
    ASSUME NEW l \in Link
    PROVE  /\ Retransmit(l) \in Link /\ Data(l, Retransmit(l))
           /\ SameTimers(l, Retransmit(l))
           /\ RequestRetransmission(l) \in Link /\ Data(l, RequestRetransmission(l))
           /\ SameTimers(l, RequestRetransmission(l))
<1>1. l.tx_buf \in Seq(TxMsu) /\ l.retransmit_pos \in Msu \cup {NoMsu}
      /\ l.curfib \in Bit /\ l.curbib \in Bit
  BY DEF Link
<1>2. (IF l.tx_buf = <<>> THEN l.retransmit_pos ELSE l.tx_buf[Len(l.tx_buf)].msu)
        \in Msu \cup {NoMsu}
  <2>1. CASE l.tx_buf = <<>> BY <1>1, <2>1
  <2>2. CASE l.tx_buf # <<>>
    <3>1. Len(l.tx_buf) \in 1 .. Len(l.tx_buf) BY <1>1, <2>2, EmptySeq, LenProperties
    <3>2. l.tx_buf[Len(l.tx_buf)] \in TxMsu BY <1>1, <3>1, ElementOfSeq
    <3>q. QED BY <2>2, <3>2 DEF TxMsu
  <2>q. QED BY <2>1, <2>2
<1>3. 1 - l.curfib \in Bit /\ 1 - l.curbib \in Bit BY <1>1 DEF Bit
<1>q. QED BY <1>2, <1>3 DEF Retransmit, RequestRetransmission, Link, Data, Silent, SameTimers

\* update_retransmit_pos
LEMMA NextNewerType ==
    ASSUME NEW buf \in Seq(TxMsu), NEW pos
    PROVE  NextNewer(buf, pos) \in Msu \cup {NoMsu}
<1> DEFINE at == {i \in DOMAIN buf : buf[i].msu = pos}
           i  == IF at = {} THEN Len(buf) + 1 ELSE Least(at)
<1>1. at \subseteq 1 .. Len(buf) /\ Len(buf) \in Nat BY LenProperties
<1>2. i \in 1 .. Len(buf) + 1
  <2>1. CASE at = {} BY <1>1, <2>1
  <2>2. CASE at # {}
    <3>1. at \subseteq Nat BY <1>1
    <3>2. Least(at) \in at BY <2>2, <3>1, LeastExists
    <3>q. QED BY <1>1, <2>2, <3>2
  <2>q. QED BY <2>1, <2>2
<1>3. NextNewer(buf, pos) = IF i = 1 THEN NoMsu ELSE buf[i - 1].msu BY DEF NextNewer
<1> HIDE DEF i
<1>4. CASE i = 1 BY <1>3, <1>4
<1>5. CASE i # 1
  <2>1. i - 1 \in 1 .. Len(buf) BY <1>1, <1>2, <1>5
  <2>2. buf[i - 1] \in TxMsu BY <2>1, ElementOfSeq
  <2>q. QED BY <1>3, <1>5, <2>2 DEF TxMsu
<1>q. QED BY <1>4, <1>5

\* update_txbuf keeps the head of the list.
LEMMA UpdateTxBufType ==
    ASSUME NEW l \in Link, NEW upto
    PROVE  /\ UpdateTxBuf(l, upto) \in Link /\ Data(l, UpdateTxBuf(l, upto))
           /\ \/ UpdateTxBuf(l, upto).tm = l.tm
              \/ UpdateTxBuf(l, upto).tm = ScheduleDel(l.tm, "t7")
              \/ UpdateTxBuf(l, upto).tm = ScheduleEvent(ScheduleDel(l.tm, "t7"), "t7")
<1> DEFINE hits == {i \in DOMAIN l.tx_buf : l.tx_buf[i].fsn = upto}
           left == SubSeq(l.tx_buf, 1, Least(hits) - 1)
           cut  == [l EXCEPT !.tx_buf = left]
           stop == StopTimer(cut, "t7")
           r    == UpdateTxBuf(l, upto)
<1>1. l.tx_buf \in Seq(TxMsu) BY DEF Link
<1>2. CASE hits = {}
  <2>1. r = l BY <1>2 DEF UpdateTxBuf
  <2>q. QED BY <2>1 DEF Data, Silent
<1>3. CASE hits # {}
  <2>1. r \in {cut, stop, StartTimer(stop, "t7")} BY <1>3 DEF UpdateTxBuf
  <2>2. left \in Seq(TxMsu)
    <3>1. hits \subseteq 1 .. Len(l.tx_buf) /\ Len(l.tx_buf) \in Nat BY <1>1, LenProperties
    <3>2. hits \subseteq Nat BY <3>1
    <3>3. Least(hits) \in hits BY <1>3, <3>2, LeastExists
    <3> HIDE DEF hits
    <3> DEFINE k == Least(hits)
    <3>4. k \in 1 .. Len(l.tx_buf) BY <3>1, <3>3
    <3> HIDE DEF k
    <3>5. \A i \in 1 .. k - 1 : l.tx_buf[i] \in TxMsu
      <4>1. \A i \in 1 .. k - 1 : i \in 1 .. Len(l.tx_buf) BY <3>1, <3>4
      <4>q. QED BY <1>1, <4>1, ElementOfSeq
    <3>6. k - 1 \in Int /\ 1 \in Int BY <3>1, <3>4
    <3>7. SubSeq(l.tx_buf, 1, k - 1) \in Seq(TxMsu) BY <3>5, <3>6, SubSeqProperties
    <3>q. QED BY <3>7 DEF k
  <2> HIDE DEF left, hits
  <2>3. cut \in Link /\ Data(l, cut) /\ cut.tm = l.tm
    BY <2>2 DEF Link, Data, Silent
  <2> HIDE DEF cut
  <2>4. "t7" \in Timer BY DEF Timer
  <2>5. stop \in Link /\ Data(cut, stop) /\ stop.tm = ScheduleDel(cut.tm, "t7")
    BY <2>3, <2>4, TimerField DEF Data, Silent
  <2> HIDE DEF stop
  <2>6. /\ StartTimer(stop, "t7") \in Link /\ Data(stop, StartTimer(stop, "t7"))
        /\ StartTimer(stop, "t7").tm = ScheduleEvent(stop.tm, "t7")
    BY <2>4, <2>5, TimerField DEF Data, Silent
  <2>q. QED BY <2>1, <2>3, <2>5, <2>6 DEF Data, Silent
<1>q. QED BY <1>2, <1>3

\* poll() is no longer asked for POLLOUT.
LEMMA WriteField ==
    ASSUME NEW l \in Link
    PROVE  /\ [l EXCEPT !.write = FALSE] \in Link /\ Data(l, [l EXCEPT !.write = FALSE])
           /\ SameTimers(l, [l EXCEPT !.write = FALSE])
BY DEF Link, Data, Silent, SameTimers

\* mtp2_transmit
LEMMA TransmitType ==
    ASSUME NEW l \in Link, NEW ok \in BOOLEAN
    PROVE  /\ Transmit(l, ok) \in Link /\ Data(l, Transmit(l, ok))
           /\ \/ Transmit(l, ok).tm = l.tm
              \/ l.tm.id["t7"] = -1 /\ Transmit(l, ok).tm = ScheduleEvent(l.tm, "t7")
<1> DEFINE r == Transmit(l, ok)
<1>0. /\ l.tx_buf \in Seq(TxMsu) /\ l.tx_q \in Seq(Msu) /\ l.curfsn \in Seq7
      /\ l.curbib \in Bit /\ l.retransmit_pos \in Msu \cup {NoMsu}
  BY DEF Link
<1>1. CASE l.retransmit_pos # NoMsu
  <2>1. NextNewer(l.tx_buf, l.retransmit_pos) \in Msu \cup {NoMsu} BY <1>0, NextNewerType
  <2>2. r = TransmitOld(l, ok) BY <1>1 DEF Transmit
  <2>3. r = l \/ r = [l EXCEPT !.retransmit_pos = NextNewer(l.tx_buf, l.retransmit_pos)]
    BY <2>2 DEF TransmitOld
  <2>q. QED BY <2>1, <2>3 DEF Link, Data, Silent
<1>2. CASE l.retransmit_pos = NoMsu /\ l.tx_q # <<>>
  <2> DEFINE fsn  == (l.curfsn + 1) % SeqMod
             new  == [msu |-> Head(l.tx_q), fsn |-> fsn, bib |-> l.curbib]
             buf  == <<new>> \o l.tx_buf
             pos  == IF ok THEN l.retransmit_pos ELSE Head(l.tx_q)
             rest == Tail(l.tx_q)
             sent == [l EXCEPT !.curfsn = fsn, !.write = TRUE, !.tx_q = rest,
                               !.tx_buf = buf, !.retransmit_pos = pos]
  <2>1. r = TransmitNew(l, ok) BY <1>2 DEF Transmit
  <2>2. r = IF l.tm.id["t7"] = -1 THEN StartTimer(sent, "t7") ELSE sent
    BY <2>1 DEF TransmitNew
  <2>3. fsn \in Seq7 BY <1>0, SeqModAssumption DEF Seq7
  <2>4. Head(l.tx_q) \in Msu /\ rest \in Seq(Msu)
    BY <1>0, <1>2, HeadTailProperties
  <2>5. new \in TxMsu BY <1>0, <2>3, <2>4 DEF TxMsu
  <2>6. buf \in Seq(TxMsu)
    <3> HIDE DEF new
    <3>1. <<new>> \in Seq(TxMsu) BY <2>5
    <3>q. QED BY <1>0, <3>1, ConcatProperties
  <2>7. pos \in Msu \cup {NoMsu} BY <1>2, <2>4
  <2> HIDE DEF fsn, buf, pos, rest
  <2>8. sent \in Link /\ Data(l, sent) /\ sent.tm = l.tm
    BY <2>3, <2>4, <2>6, <2>7 DEF Link, Data, Silent
  <2> HIDE DEF sent
  <2>9. /\ StartTimer(sent, "t7") \in Link /\ Data(sent, StartTimer(sent, "t7"))
        /\ StartTimer(sent, "t7").tm = ScheduleEvent(sent.tm, "t7")
    BY <2>8, TimerField DEF Data, Silent, Timer
  <2>q. QED BY <2>2, <2>8, <2>9 DEF Data, Silent
<1>3. CASE l.retransmit_pos = NoMsu /\ l.tx_q = <<>>
  <2> DEFINE a == IF l.autotxsutype \in {"SIOS", "SIO"} THEN ResetMtp(l) ELSE l
  <2>1. r = IF ok THEN [a EXCEPT !.write = FALSE] ELSE a
    BY <1>3 DEF Transmit, TransmitFill
  <2>2. a \in Link /\ Data(l, a) /\ a.tm = l.tm BY ResetField DEF Data, Silent
  <2> HIDE DEF a
  <2>3. /\ [a EXCEPT !.write = FALSE] \in Link /\ Data(a, [a EXCEPT !.write = FALSE])
        /\ SameTimers(a, [a EXCEPT !.write = FALSE])
    BY <2>2, WriteField
  <2>q. QED BY <2>1, <2>2, <2>3 DEF Data, Silent, SameTimers
<1>q. QED BY <1>1, <1>2, <1>3

-------------------------------------------------------------------------------
(* Reception and expiries. *)

\* Data transfer before or after a state change hides nothing from MTP3.
LEMMA TellsData ==
    ASSUME NEW l, NEW a, NEW r
    PROVE  /\ Data(l, a) /\ Tells(a, r) => Tells(l, r)
           /\ Tells(l, a) /\ Data(a, r) => Tells(l, r)
           /\ Data(l, r) => Tells(l, r)
BY DEF Data, Silent, Tells

\* The bookkeeping of lssu_rx and fisu_rx before they set a state.
LEMMA RxField ==
    ASSUME NEW l \in Link, NEW t \in Lssu \cup {"FISU"}, NEW b \in BOOLEAN
    PROVE  LET s == [l EXCEPT !.lastsurxd = t, !.emergency = b]
               f == [l EXCEPT !.lastsurxd = t]
           IN  /\ s \in Link /\ Data(l, s) /\ SameTimers(l, s)
               /\ f \in Link /\ Data(l, f) /\ SameTimers(l, f)
BY ZenonT(60) DEF Link, Data, Silent, SameTimers

\* So does the choice of the proving period.
LEMMA ChooseProvingField ==
    ASSUME NEW l \in Link
    PROVE  /\ ChooseProving(l) \in Link /\ Data(l, ChooseProving(l))
           /\ SameTimers(l, ChooseProving(l))
BY DEF Link, Data, Silent, SameTimers, ChooseProving

\* The acknowledgements mtp2_receive handles first are data transfer.
LEMMA AckAndNackType ==
    ASSUME NEW l \in Link, NEW su \in Su
    PROVE  AckAndNack(l, su) \in Link /\ Data(l, AckAndNack(l, su))
<1> DEFINE a == UpdateTxBuf(l, su.bsn)
<1>1. a \in Link /\ Data(l, a) BY UpdateTxBufType
<1>2. AckAndNack(l, su) \in {a, Retransmit(a)} BY DEF AckAndNack
<1> HIDE DEF a
<1>3. Retransmit(a) \in Link /\ Data(a, Retransmit(a)) BY <1>1, RetransmitType
<1>q. QED BY <1>1, <1>2, <1>3 DEF Data, Silent

\* fisu_rx keeps the type and announces what it does to the state.
LEMMA FisuType ==
    ASSUME NEW l \in Link, NEW su \in Su
    PROVE  FisuRx(l, su) \in Link /\ Tells(l, FisuRx(l, su))
<1> DEFINE r == IF /\ l.state = "INSERVICE"
                   /\ su.fsn # l.lastfsnacked
                   /\ su.fib = l.curbib
                THEN RequestRetransmission(l) ELSE l
           s == [r EXCEPT !.lastsurxd = "FISU"]
<1>1. r \in Link /\ Data(l, r) BY RetransmitType DEF Data, Silent
<1> HIDE DEF r
<1>2. s \in Link /\ Data(r, s) BY <1>1, RxField
<1>3. FisuRx(l, su) \in {r, s, SetState(s, "ALIGNEDREADY"), SetState(s, "INSERVICE")}
  BY DEF FisuRx, r
<1> HIDE DEF s
<1>4. {"ALIGNEDREADY", "INSERVICE"} \subseteq LinkState BY DEF LinkState
<1>5. \A n \in LinkState : SetState(s, n) \in Link /\ Tells(s, SetState(s, n))
  BY <1>2, SetStateType
<1>q. QED BY <1>1, <1>2, <1>3, <1>4, <1>5, TellsData DEF Data, Silent

\* lssu_rx keeps the type and announces what it does to the state.
LEMMA LssuType ==
    ASSUME NEW l \in Link, NEW su \in Su, su.kind \in Lssu
    PROVE  LssuRx(l, su) \in Link /\ Tells(l, LssuRx(l, su))
<1> DEFINE s == [l EXCEPT !.lastsurxd = su.kind, !.emergency = l.emergency \/ su.kind = "SIE"]
           c == ChooseProving(s)
<1>1. s \in Link /\ Data(l, s)
  <2>1. (l.emergency \/ su.kind = "SIE") \in BOOLEAN OBVIOUS
  <2>q. QED BY <2>1, RxField
<1>2. c \in Link /\ Data(l, c)
  <2> HIDE DEF s
  <2>1. c \in Link /\ Data(s, c) BY <1>1, ChooseProvingField
  <2>q. QED BY <1>1, <2>1 DEF Data, Silent
<1>3. LssuRx(l, su) \in {l, s} \cup {SetState(s, n) : n \in LinkState}
                             \cup {SetState(c, n) : n \in LinkState}
  <2>1. {"IDLE", "NOTALIGNED", "ALIGNED", "PROVING"} \subseteq LinkState BY DEF LinkState
  <2>2. LssuRx(l, su) \in {l, s, SetState(s, "NOTALIGNED"), SetState(c, "ALIGNED"),
                           SetState(c, "PROVING"), SetState(s, "IDLE"), SetState(s, "ALIGNED")}
    BY DEF LssuRx
  <2>q. QED BY <2>1, <2>2
<1> HIDE DEF s, c
<1>4. \A n \in LinkState : /\ SetState(s, n) \in Link /\ Tells(s, SetState(s, n))
                           /\ SetState(c, n) \in Link /\ Tells(c, SetState(c, n))
  BY <1>1, <1>2, SetStateType
<1>5. Data(l, l) BY DEF Data, Silent
<1>q. QED BY <1>1, <1>2, <1>3, <1>4, <1>5, TellsData

\* msu_rx, too, and it leaves a link that was ready in service.
LEMMA MsuRxType ==
    ASSUME NEW l \in Link, NEW su \in Su
    PROVE  /\ MsuRx(l, su) \in Link /\ Tells(l, MsuRx(l, su))
           /\ l.state \in {"ALIGNEDREADY", "INSERVICE"} =>
                MsuRx(l, su).state = "INSERVICE" \/ MsuRx(l, su).evrefused
<1> DEFINE s == IF l.state = "ALIGNEDREADY" THEN SetState(l, "INSERVICE") ELSE l
           a == [s EXCEPT !.lastfsnacked = su.fsn, !.write = TRUE]
           r == MsuRx(l, su)
<1>1. s \in Link /\ Tells(l, s)
  <2>1. "INSERVICE" \in LinkState BY DEF LinkState
  <2>2. Tells(l, l) BY DEF Tells
  <2>q. QED BY <2>1, <2>2, SetStateType
<1>2. l.state \in {"ALIGNEDREADY", "INSERVICE"} => s.state = "INSERVICE" \/ s.evrefused
  <2>1. CASE l.state = "ALIGNEDREADY"
    <3> DEFINE d == StopTimer(l, "t1")
               p == PostEvent(d, "LINK_UP")
    <3>1. s = IF EventRoom(d) THEN [p EXCEPT !.state = "INSERVICE"] ELSE RefuseEvent(d)
      BY <2>1 DEF SetState, FromAlignedReady
    <3>2. "t1" \in Timer /\ "LINK_UP" \in LinkEvent BY DEF Timer, AlignTimer, LinkEvent
    <3>3. d \in Link BY <3>2, TimerField
    <3> HIDE DEF d
    <3>4. p \in Link /\ RefuseEvent(d).evrefused BY <3>2, <3>3, EventField
    <3> HIDE DEF p
    <3>5. [p EXCEPT !.state = "INSERVICE"].state = "INSERVICE" BY <3>4 DEF Link
    <3>q. QED BY <3>1, <3>4, <3>5
  <2>2. CASE l.state # "ALIGNEDREADY" BY <2>2
  <2>q. QED BY <2>1, <2>2
<1>3. r = IF l.state \notin {"ALIGNEDREADY", "INSERVICE"} THEN l
          ELSE IF su.fib # s.curbib \/ su.fsn = s.lastfsnacked THEN s
          ELSE IF Accepts(l, su) THEN a ELSE RequestRetransmission(s)
  BY DEF MsuRx
<1> HIDE DEF s
<1>4. a \in Link /\ Data(s, a)
  <2>1. su.fsn \in Seq7 BY DEF Su
  <2>q. QED BY <1>1, <2>1 DEF Link, Data, Silent
<1> HIDE DEF a, r
<1>5. RequestRetransmission(s) \in Link /\ Data(s, RequestRetransmission(s))
  BY <1>1, RetransmitType
<1>6. Data(l, l) BY DEF Data, Silent
<1>7. r \in Link /\ Tells(l, r) BY <1>1, <1>3, <1>4, <1>5, <1>6, TellsData
<1>8. l.state \in {"ALIGNEDREADY", "INSERVICE"} => r.state = "INSERVICE" \/ r.evrefused
  BY <1>2, <1>3, <1>4, <1>5 DEF Data, Silent
<1>q. QED BY <1>7, <1>8 DEF r

\* mtp2_receive; a message is accepted only by a link in service.
LEMMA ReceiveType ==
    ASSUME NEW l \in Link, NEW su \in Su
    PROVE  /\ Receive(l, su) \in Link /\ Tells(l, Receive(l, su))
           /\ Accepts(l, su) =>
                Receive(l, su).state = "INSERVICE" \/ Receive(l, su).evrefused
<1> DEFINE a == AckAndNack(l, su)
           r == Receive(l, su)
<1>1. a \in Link /\ Data(l, a) BY AckAndNackType
<1>2. /\ FisuRx(a, su) \in Link /\ Tells(a, FisuRx(a, su))
      /\ MsuRx(a, su) \in Link /\ Tells(a, MsuRx(a, su))
      /\ a.state \in {"ALIGNEDREADY", "INSERVICE"} =>
           MsuRx(a, su).state = "INSERVICE" \/ MsuRx(a, su).evrefused
      /\ su.kind \in Lssu => LssuRx(a, su) \in Link /\ Tells(a, LssuRx(a, su))
  BY <1>1, FisuType, MsuRxType, LssuType
<1>3. su.kind \in Lssu \cup {"FISU", "MSU"} BY DEF Su, SuKind
<1>4. /\ su.kind = "FISU" => r = FisuRx(a, su)
      /\ su.kind = "MSU" => r = MsuRx(a, su)
      /\ su.kind \in Lssu => r = LssuRx(a, su)
  BY DEF Receive, Lssu
<1> HIDE DEF a, r
<1>5. r \in Link /\ Tells(a, r) BY <1>2, <1>3, <1>4
<1>6. Tells(l, r) BY <1>1, <1>5, TellsData
<1>7. Accepts(l, su) => r.state = "INSERVICE" \/ r.evrefused
  BY <1>1, <1>2, <1>4 DEF Accepts, Data
<1>q. QED BY <1>5, <1>6, <1>7 DEF r

\* A callback run by ss7_schedule_run.
LEMMA RunSlotType ==
    ASSUME NEW l \in Link, NEW x \in Slot, l.tm.slot[x] # NoCallback
    PROVE  RunSlot(l, x) \in Link /\ Tells(l, RunSlot(l, x))
<1> DEFINE k  == TakeSlot(l.tm, x)
           a  == [l EXCEPT !.tm = k]
           k7 == [k EXCEPT !.id["t7"] = -1]
           b  == [a EXCEPT !.tm.id["t7"] = -1]
           t  == l.tm.slot[x]
<1>1. l.tm \in TimerTable(Timer) BY DEF Link
<1>2. t \in Timer BY <1>1 DEF TimerTable
<1>3. k \in TimerTable(Timer) BY <1>1, TakeSlotEffect
<1> HIDE DEF k
<1>4. a \in Link /\ Data(l, a) /\ a.tm = k BY <1>3 DEF Link, Data, Silent
<1>5. k7 \in TimerTable(Timer)
  <2>1. k = [slot |-> k.slot, id |-> k.id] /\ k.id \in [Timer -> SlotId]
        /\ k.slot \in [Slot -> Timer \cup {NoCallback}]
    BY <1>3 DEF TimerTable
  <2>2. k7 = [slot |-> k.slot, id |-> [k.id EXCEPT !["t7"] = -1]] BY <2>1
  <2>3. -1 \in SlotId BY MaxSchedAssumption DEF SlotId
  <2>q. QED BY <2>1, <2>2, <2>3 DEF TimerTable
<1>6. b \in Link /\ Data(l, b)
  <2>1. b = [a EXCEPT !.tm = k7] BY <1>4
  <2> HIDE DEF a, k7
  <2>2. [a EXCEPT !.tm = k7] \in Link /\ Data(a, [a EXCEPT !.tm = k7])
    BY <1>4, <1>5 DEF Link, Data, Silent
  <2>q. QED BY <1>4, <2>1, <2>2 DEF Data, Silent
<1>7. RunSlot(l, x) \in {SetState(a, "IDLE"), SetState(a, "ALIGNEDREADY"), SetState(b, "IDLE")}
  BY <1>2 DEF RunSlot, ExpireTimer, k, Timer, AlignTimer
<1> HIDE DEF a, b
<1>8. {"IDLE", "ALIGNEDREADY"} \subseteq LinkState BY DEF LinkState
<1>9. \A n \in LinkState : /\ SetState(a, n) \in Link /\ Tells(a, SetState(a, n))
                           /\ SetState(b, n) \in Link /\ Tells(b, SetState(b, n))
  BY <1>4, <1>6, SetStateType
<1>q. QED BY <1>4, <1>6, <1>7, <1>8, <1>9, TellsData

\* mtp2_start
LEMMA StartType ==
    ASSUME NEW l \in Link, NEW e \in BOOLEAN
    PROVE  Mtp2Start(l, e) \in Link /\ Tells(l, Mtp2Start(l, e))
<1> DEFINE m == ResetMtp(l)
           r == [m EXCEPT !.emergency = e]
<1>1. m \in Link /\ Data(l, m) BY ResetField DEF Data, Silent
<1> HIDE DEF m
<1>2. r \in Link /\ Data(m, r) BY ZenonT(60), <1>1 DEF Link, Data, Silent
<1>3. Mtp2Start(l, e) \in {r, SetState(r, "NOTALIGNED")} BY DEF Mtp2Start, m
<1> HIDE DEF r
<1>4. "NOTALIGNED" \in LinkState BY DEF LinkState
<1>5. SetState(r, "NOTALIGNED") \in Link /\ Tells(r, SetState(r, "NOTALIGNED"))
  BY <1>2, <1>4, SetStateType
<1>6. Data(l, r) BY <1>1, <1>2 DEF Data, Silent
<1>q. QED BY <1>2, <1>3, <1>5, <1>6, TellsData

-------------------------------------------------------------------------------
(* Timers in step with the state, while no alarm has frozen it. *)

\* The outcome r of a state change that began by stopping every timer, in d:
\* no timer of the alignment is started or the one that guards the new state.
Lands(d, r) ==
    \/ r.tm = d.tm
    \/ \E t \in AlignTimer : r.tm = ScheduleEvent(d.tm, t) /\ r.state = AlignTimerState[t]

\* Such an outcome has its timers in step with its state.
LEMMA LandsInStep ==
    ASSUME NEW d \in Link, NEW r, Quiet(d), Lands(d, r)
    PROVE  InStep(r)
<1>1. d.tm \in TimerTable(Timer) BY DEF Link
<1>2. CASE r.tm = d.tm BY <1>2 DEF Quiet, InStep
<1>3. ASSUME NEW t \in AlignTimer, r.tm = ScheduleEvent(d.tm, t),
             r.state = AlignTimerState[t]
      PROVE  InStep(r)
  <2>1. t \in Timer /\ NoCallback \notin Timer
    BY DEF Timer, AlignTimer, NoCallback
  <2>2. d.tm.id[t] \notin Slot /\ Belong(Timer, d.tm) BY DEF Quiet
  <2>3. Belong(Timer, ScheduleEvent(d.tm, t)) BY <1>1, <2>1, <2>2, EventBelong
  <2>4. \A u \in Timer \ {t} : ScheduleEvent(d.tm, t).id[u] = d.tm.id[u]
    BY <1>1, <2>1, ScheduleEventEffect
  <2>5. \A u \in AlignTimer \ {t} : u \in Timer \ {t} BY DEF Timer
  <2>6. \A u \in AlignTimer \ {t} : r.tm.id[u] \notin Slot
    BY <1>3, <2>4, <2>5 DEF Quiet
  <2>q. QED BY <1>3, <2>3, <2>6 DEF InStep
<1>q. QED BY <1>2, <1>3 DEF Lands

\* Stopping the timer of the state leaves none of the alignment's scheduled.
LEMMA QuietStop ==
    ASSUME NEW l \in Link, InStep(l), NEW t \in AlignTimer, l.state = AlignTimerState[t]
    PROVE  Quiet(StopTimer(l, t))
<1>1. l.tm \in TimerTable(Timer) /\ l.tm.id \in [Timer -> SlotId] BY DEF Link, TimerTable
<1>2. t \in Timer BY DEF Timer
<1>3. StopTimer(l, t).tm = ScheduleDel(l.tm, t) BY <1>2, TimerField
<1>4. Belong(Timer, ScheduleDel(l.tm, t)) BY <1>1, <1>2, DelBelong DEF InStep
<1>5. ScheduleDel(l.tm, t).id = [l.tm.id EXCEPT ![t] = -1]
  BY <1>1, <1>2, ScheduleDelEffect
<1>6. ASSUME NEW u \in AlignTimer PROVE ScheduleDel(l.tm, t).id[u] \notin Slot
  <2>1. CASE u = t BY <1>1, <1>2, <1>5, <2>1 DEF Slot
  <2>2. CASE u # t
    <3>1. AlignTimerState[u] # AlignTimerState[t] BY <2>2 DEF AlignTimerState, AlignTimer
    <3>2. l.tm.id[u] \notin Slot BY <3>1 DEF InStep
    <3>q. QED BY <1>1, <1>5, <2>2, <3>2 DEF Timer
  <2>q. QED BY <2>1, <2>2
<1>q. QED BY <1>3, <1>4, <1>6 DEF Quiet

\* Leaving IDLE starts T2 and nothing else.
LEMMA IdleLands ==
    ASSUME NEW l \in Link
    PROVE  Lands(l, FromIdle(l)) /\ Lands(l, ToIdle(l))
<1>1. ASSUME NEW k \in Link
      PROVE  FromIdle(k).tm = ScheduleEvent(k.tm, "t2") /\ FromIdle(k).state = "NOTALIGNED"
  <2> DEFINE s == StartTimer(k, "t2")
             a == AutoTx(s, "SIO")
  <2>1. s \in Link /\ s.tm = ScheduleEvent(k.tm, "t2") /\ "SIO" \in Lssu
    BY TimerField DEF Timer, AlignTimer, Lssu
  <2> HIDE DEF s
  <2>2. a \in Link /\ a.tm = s.tm BY <2>1, AutoTxField
  <2>3. FromIdle(k) = [a EXCEPT !.state = "NOTALIGNED"] BY DEF FromIdle, s
  <2>4. "NOTALIGNED" \in LinkState BY DEF LinkState
  <2> HIDE DEF a
  <2>q. QED BY <2>1, <2>2, <2>3, <2>4, StateField
<1>2. "t2" \in AlignTimer /\ AlignTimerState["t2"] = "NOTALIGNED"
  BY DEF AlignTimer, AlignTimerState
<1>3. Lands(l, FromIdle(l)) BY <1>1, <1>2 DEF Lands
<1>4. Lands(l, ToIdle(l))
  <2> DEFINE a == AutoTx(l, "SIOS")
             i == [a EXCEPT !.state = "IDLE"]
  <2>1. "SIOS" \in Lssu /\ "IDLE" \in LinkState BY DEF Lssu, LinkState
  <2>2. a \in Link /\ a.tm = l.tm BY <2>1, AutoTxField
  <2>3. ToIdle(l) = FromIdle(i) BY DEF ToIdle
  <2> HIDE DEF a
  <2>4. i \in Link /\ i.tm = a.tm BY <2>1, <2>2, StateField
  <2> HIDE DEF i
  <2>q. QED BY <1>1, <1>2, <2>2, <2>3, <2>4 DEF Lands
<1>q. QED BY <1>3, <1>4

\* Entering a state of the alignment: its timer is started, what to send is
\* chosen and the state is set.
LEMMA EnterLands ==
    ASSUME NEW d \in Link, NEW t \in AlignTimer, NEW new \in LinkState
    PROVE  LET s == StartTimer(d, t)
           IN  /\ new = AlignTimerState[t] =>
                    /\ Lands(d, [s EXCEPT !.state = new])
                    /\ Lands(d, [SendAlignment(s) EXCEPT !.state = new])
                    /\ Lands(d, [AutoTx(s, "FISU") EXCEPT !.state = new])
               /\ d.state = AlignTimerState[t] =>
                    Lands(d, s) /\ Lands(d, AutoTx(s, "FISU"))
               /\ Lands(d, [d EXCEPT !.state = new])
               /\ Lands(d, [SendAlignment(d) EXCEPT !.state = new])
<1> DEFINE s == StartTimer(d, t)
           a == SendAlignment(s)
           f == AutoTx(s, "FISU")
           e == SendAlignment(d)
<1>1. s \in Link /\ s.tm = ScheduleEvent(d.tm, t) /\ s.state = d.state
  BY TimerField DEF Timer
<1> HIDE DEF s
<1>2. /\ a \in Link /\ a.tm = s.tm
      /\ f \in Link /\ f.tm = s.tm /\ f.state = s.state
      /\ e \in Link /\ e.tm = d.tm
  BY <1>1, SendAlignmentType, AutoTxField
<1> HIDE DEF a, f, e
<1>3. \A k \in Link : [k EXCEPT !.state = new].tm = k.tm /\ [k EXCEPT !.state = new].state = new
  BY StateField
<1>4. [s EXCEPT !.state = new].tm = s.tm /\ [s EXCEPT !.state = new].state = new
  BY <1>1, <1>3
<1>5. [a EXCEPT !.state = new].tm = s.tm /\ [a EXCEPT !.state = new].state = new
  BY <1>2, <1>3
<1>6. [f EXCEPT !.state = new].tm = s.tm /\ [f EXCEPT !.state = new].state = new
  BY <1>2, <1>3
<1>7. [d EXCEPT !.state = new].tm = d.tm /\ [e EXCEPT !.state = new].tm = d.tm
  BY <1>2, <1>3
<1>q. QED BY <1>1, <1>2, <1>4, <1>5, <1>6, <1>7 DEF Lands, s, a, f, e

\* mtp2_setstate in the four states that have a timer.
LEMMA FromStatesLand ==
    ASSUME NEW l \in Link, NEW new \in LinkState
    PROVE  /\ Lands(StopTimer(l, "t2"), FromNotAligned(l, new))
           /\ Lands(StopTimer(l, "t3"), FromAligned(l, new))
           /\ l.state = "PROVING" => Lands(StopTimer(l, "t4"), FromProving(l, new))
           /\ l.state = "ALIGNEDREADY" => Lands(StopTimer(l, "t1"), FromAlignedReady(l, new))
<1>1. /\ AlignTimerState["t1"] = "ALIGNEDREADY" /\ AlignTimerState["t2"] = "NOTALIGNED"
      /\ AlignTimerState["t3"] = "ALIGNED" /\ AlignTimerState["t4"] = "PROVING"
      /\ {"t1", "t2", "t3", "t4"} = AlignTimer /\ AlignTimer \subseteq Timer
  BY DEF AlignTimerState, AlignTimer, Timer
<1>2. \A t \in AlignTimer : StopTimer(l, t) \in Link /\ StopTimer(l, t).state = l.state
  BY <1>1, TimerField
<1>3. Lands(StopTimer(l, "t2"), FromNotAligned(l, new))
  <2> DEFINE d == StopTimer(l, "t2")
  <2>1. FromNotAligned(l, new) =
          CASE new = "IDLE"    -> ToIdle(d)
            [] new = "ALIGNED" -> [SendAlignment(StartTimer(d, "t3")) EXCEPT !.state = new]
            [] new = "PROVING" -> [SendAlignment(StartTimer(d, "t4")) EXCEPT !.state = new]
            [] OTHER           -> [d EXCEPT !.state = new]
    BY DEF FromNotAligned
  <2>2. d \in Link BY <1>1, <1>2
  <2> HIDE DEF d
  <2>3. /\ new = "ALIGNED" => Lands(d, [SendAlignment(StartTimer(d, "t3")) EXCEPT !.state = new])
        /\ new = "PROVING" => Lands(d, [SendAlignment(StartTimer(d, "t4")) EXCEPT !.state = new])
        /\ Lands(d, [d EXCEPT !.state = new]) /\ Lands(d, ToIdle(d))
    BY <1>1, <2>2, EnterLands, IdleLands
  <2>q. QED BY <2>1, <2>3 DEF d
<1>4. Lands(StopTimer(l, "t3"), FromAligned(l, new))
  <2> DEFINE d == StopTimer(l, "t3")
  <2>1. FromAligned(l, new) =
          CASE new = "IDLE"    -> ToIdle(d)
            [] new = "PROVING" -> [StartTimer(d, "t4") EXCEPT !.state = new]
            [] OTHER           -> [d EXCEPT !.state = new]
    BY DEF FromAligned
  <2>2. d \in Link BY <1>1, <1>2
  <2> HIDE DEF d
  <2>3. /\ new = "PROVING" => Lands(d, [StartTimer(d, "t4") EXCEPT !.state = new])
        /\ Lands(d, [d EXCEPT !.state = new]) /\ Lands(d, ToIdle(d))
    BY <1>1, <2>2, EnterLands, IdleLands
  <2>q. QED BY <2>1, <2>3 DEF d
<1>5. ASSUME l.state = "PROVING" PROVE Lands(StopTimer(l, "t4"), FromProving(l, new))
  <2> DEFINE d == StopTimer(l, "t4")
  <2>1. FromProving(l, new) =
          CASE new = "IDLE"         -> ToIdle(d)
            [] new = "PROVING"      -> StartTimer(d, "t4")
            [] new = "ALIGNED"      -> [SendAlignment(d) EXCEPT !.state = new]
            [] new = "ALIGNEDREADY" -> [AutoTx(StartTimer(d, "t1"), "FISU") EXCEPT !.state = new]
            [] OTHER                -> [d EXCEPT !.state = new]
    BY DEF FromProving
  <2>2. d \in Link /\ d.state = "PROVING" BY <1>1, <1>2, <1>5
  <2> HIDE DEF d
  <2>3. /\ Lands(d, StartTimer(d, "t4")) /\ Lands(d, [SendAlignment(d) EXCEPT !.state = new])
        /\ new = "ALIGNEDREADY" =>
             Lands(d, [AutoTx(StartTimer(d, "t1"), "FISU") EXCEPT !.state = new])
        /\ Lands(d, [d EXCEPT !.state = new]) /\ Lands(d, ToIdle(d))
    BY <1>1, <2>2, EnterLands, IdleLands
  <2>q. QED BY <2>1, <2>3 DEF d
<1>6. ASSUME l.state = "ALIGNEDREADY"
      PROVE  Lands(StopTimer(l, "t1"), FromAlignedReady(l, new))
  <2> DEFINE d == StopTimer(l, "t1")
             p == PostEvent(d, "LINK_UP")
  <2>1. FromAlignedReady(l, new) =
          CASE new = "IDLE"         -> ToIdle(d)
            [] new = "ALIGNEDREADY" -> AutoTx(StartTimer(d, "t1"), "FISU")
            [] new = "INSERVICE"    -> IF EventRoom(d) THEN [p EXCEPT !.state = new]
                                       ELSE RefuseEvent(d)
            [] OTHER                -> [d EXCEPT !.state = new]
    BY DEF FromAlignedReady
  <2>2. d \in Link /\ d.state = "ALIGNEDREADY" BY <1>1, <1>2, <1>6
  <2> HIDE DEF d
  <2>3. /\ Lands(d, AutoTx(StartTimer(d, "t1"), "FISU"))
        /\ Lands(d, [d EXCEPT !.state = new]) /\ Lands(d, ToIdle(d))
    BY <1>1, <2>2, EnterLands, IdleLands
  <2>4. p \in Link /\ p.tm = d.tm /\ RefuseEvent(d).tm = d.tm
    BY <2>2, EventField DEF LinkEvent
  <2> HIDE DEF p
  <2>5. Lands(d, [p EXCEPT !.state = new]) /\ Lands(d, RefuseEvent(d))
    <3>1. [p EXCEPT !.state = new].tm = p.tm BY <2>4, StateField
    <3>q. QED BY <2>4, <3>1 DEF Lands
  <2>q. QED BY <2>1, <2>3, <2>5 DEF d
<1>q. QED BY <1>3, <1>4, <1>5, <1>6

\* mtp2_setstate
LEMMA SetStateInStep ==
    ASSUME NEW l \in Link, NEW new \in LinkState, InStep(l)
    PROVE  InStep(SetState(l, new))
<1> DEFINE r == SetState(l, new)
<1>1. l.state \in LinkState BY DEF Link
<1>2. /\ AlignTimerState["t1"] = "ALIGNEDREADY" /\ AlignTimerState["t2"] = "NOTALIGNED"
      /\ AlignTimerState["t3"] = "ALIGNED" /\ AlignTimerState["t4"] = "PROVING"
      /\ {"t1", "t2", "t3", "t4"} = AlignTimer /\ AlignTimer \subseteq Timer
  BY DEF AlignTimerState, AlignTimer, Timer
<1>3. \A t \in AlignTimer : StopTimer(l, t) \in Link BY <1>2, TimerField
<1>4. CASE l.state \in {"ALARM"}
  <2>1. r = l BY <1>4 DEF SetState
  <2>q. QED BY <2>1
<1>5. CASE l.state = "IDLE"
  <2>1. r = FromIdle(l) BY <1>5 DEF SetState
  <2>2. Quiet(l) BY <1>2, <1>5 DEF InStep, Quiet
  <2>q. QED BY <2>1, <2>2, IdleLands, LandsInStep
<1>6. CASE l.state = "NOTALIGNED"
  <2>1. r = FromNotAligned(l, new) BY <1>6 DEF SetState
  <2>q. QED BY <1>2, <1>3, <1>6, <2>1, QuietStop, FromStatesLand, LandsInStep
<1>7. CASE l.state = "ALIGNED"
  <2>1. r = FromAligned(l, new) BY <1>7 DEF SetState
  <2>q. QED BY <1>2, <1>3, <1>7, <2>1, QuietStop, FromStatesLand, LandsInStep
<1>8. CASE l.state = "PROVING"
  <2>1. r = FromProving(l, new) BY <1>8 DEF SetState
  <2>q. QED BY <1>2, <1>3, <1>8, <2>1, QuietStop, FromStatesLand, LandsInStep
<1>9. CASE l.state = "ALIGNEDREADY"
  <2>1. r = FromAlignedReady(l, new) BY <1>9 DEF SetState
  <2>q. QED BY <1>2, <1>3, <1>9, <2>1, QuietStop, FromStatesLand, LandsInStep
<1>10. CASE l.state = "INSERVICE"
  <2> DEFINE p == PostEvent(l, "LINK_DOWN")
  <2>1. r = FromInService(l, new) BY <1>10 DEF SetState
  <2>2. Quiet(l) BY <1>2, <1>10 DEF InStep, Quiet
  <2>3. p \in Link /\ p.tm = l.tm /\ RefuseEvent(l).tm = l.tm
    BY EventField DEF LinkEvent
  <2>4. r \in {l, ToIdle(p), RefuseEvent(l)} BY <2>1 DEF FromInService
  <2> HIDE DEF p
  <2>5. InStep(ToIdle(p))
    <3>1. Quiet(p) BY <2>2, <2>3 DEF Quiet
    <3>q. QED BY <2>3, <3>1, IdleLands, LandsInStep
  <2>6. InStep(RefuseEvent(l)) BY <2>2, <2>3, LandsInStep DEF Lands
  <2>q. QED BY <2>4, <2>5, <2>6
<1>q. QED BY <1>1, <1>4, <1>5, <1>6, <1>7, <1>8, <1>9, <1>10 DEF LinkState

\* Nothing but T7 was started or stopped.
OnlyT7(l, r) ==
    /\ r.state = l.state
    /\ \/ r.tm = l.tm
       \/ r.tm = ScheduleDel(l.tm, "t7")
       \/ r.tm = ScheduleEvent(ScheduleDel(l.tm, "t7"), "t7")
       \/ l.tm.id["t7"] = -1 /\ r.tm = ScheduleEvent(l.tm, "t7")

\* T7 has no part in the alignment.
LEMMA OnlyT7InStep ==
    ASSUME NEW l \in Link, InStep(l), NEW r, OnlyT7(l, r)
    PROVE  InStep(r)
<1> DEFINE d == ScheduleDel(l.tm, "t7")
<1>1. /\ l.tm \in TimerTable(Timer) /\ l.tm.id \in [Timer -> SlotId] /\ "t7" \in Timer
      /\ NoCallback \notin Timer /\ -1 \notin Slot
      /\ \A u \in AlignTimer : u \in Timer \ {"t7"}
  BY DEF Link, TimerTable, Timer, AlignTimer, NoCallback, Slot
<1>2. /\ Belong(Timer, l.tm)
      /\ \A u \in AlignTimer : l.tm.id[u] \in Slot => l.state = AlignTimerState[u]
  BY DEF InStep
<1>3. d \in TimerTable(Timer) /\ d.id = [l.tm.id EXCEPT !["t7"] = -1]
  BY <1>1, ScheduleDelEffect
<1>4. Belong(Timer, d) BY <1>1, <1>2, DelBelong
<1> HIDE DEF d
<1>5. \A u \in AlignTimer : d.id[u] = l.tm.id[u] BY <1>1, <1>3
<1>6. d.id["t7"] \notin Slot BY <1>1, <1>3
<1>7. ASSUME NEW e \in TimerTable(Timer), Belong(Timer, e), e.id["t7"] \notin Slot
      PROVE  /\ Belong(Timer, ScheduleEvent(e, "t7"))
             /\ \A u \in AlignTimer : ScheduleEvent(e, "t7").id[u] = e.id[u]
  <2>1. \A u \in Timer \ {"t7"} : ScheduleEvent(e, "t7").id[u] = e.id[u]
    BY <1>1, ScheduleEventEffect
  <2>q. QED BY <1>1, <1>7, <2>1, EventBelong
<1>8. CASE r.tm = l.tm BY <1>2, <1>8 DEF OnlyT7, InStep
<1>9. CASE r.tm = d BY <1>2, <1>4, <1>5, <1>9 DEF OnlyT7, InStep
<1>10. CASE r.tm = ScheduleEvent(d, "t7")
  BY ZenonT(60), <1>2, <1>3, <1>4, <1>5, <1>6, <1>7, <1>10 DEF OnlyT7, InStep
<1>11. CASE l.tm.id["t7"] = -1 /\ r.tm = ScheduleEvent(l.tm, "t7")
  BY <1>1, <1>2, <1>7, <1>11 DEF OnlyT7, InStep
<1>q. QED BY <1>8, <1>9, <1>10, <1>11 DEF OnlyT7, d

\* Nor has anything that touches neither state nor timers.
LEMMA SameInStep ==
    ASSUME NEW l, InStep(l), NEW r, SameTimers(l, r)
    PROVE  InStep(r)
BY DEF InStep, SameTimers

\* mtp2_receive
LEMMA ReceiveInStep ==
    ASSUME NEW l \in Link, InStep(l), NEW su \in Su
    PROVE  InStep(Receive(l, su))
<1> DEFINE u == UpdateTxBuf(l, su.bsn)
           a == AckAndNack(l, su)
<1>1. u \in Link /\ InStep(u)
  <2>1. u \in Link /\ OnlyT7(l, u) BY UpdateTxBufType DEF OnlyT7, Data
  <2>q. QED BY <2>1, OnlyT7InStep
<1>2. a \in {u, Retransmit(u)} BY DEF AckAndNack
<1> HIDE DEF u, a
<1>3. a \in Link /\ InStep(a) BY <1>1, <1>2, RetransmitType, SameInStep
<1>4. {"IDLE", "NOTALIGNED", "ALIGNED", "PROVING", "ALIGNEDREADY", "INSERVICE"}
         \subseteq LinkState
  BY DEF LinkState
<1>5. ASSUME NEW k \in Link, InStep(k)
      PROVE  \A n \in LinkState : InStep(SetState(k, n))
  BY <1>5, SetStateInStep
<1>6. InStep(FisuRx(a, su))
  <2> DEFINE r == IF /\ a.state = "INSERVICE"
                     /\ su.fsn # a.lastfsnacked
                     /\ su.fib = a.curbib
                  THEN RequestRetransmission(a) ELSE a
             s == [r EXCEPT !.lastsurxd = "FISU"]
  <2>1. r \in Link /\ InStep(r) BY <1>3, RetransmitType, SameInStep
  <2> HIDE DEF r
  <2>2. s \in Link /\ SameTimers(r, s) BY <2>1, RxField
  <2>3. InStep(s) BY <2>1, <2>2, SameInStep
  <2>4. FisuRx(a, su) \in {r, s, SetState(s, "ALIGNEDREADY"), SetState(s, "INSERVICE")}
    BY DEF FisuRx, r
  <2> HIDE DEF s
  <2>q. QED BY <1>4, <1>5, <2>1, <2>2, <2>3, <2>4
<1>7. InStep(MsuRx(a, su))
  <2> DEFINE s == IF a.state = "ALIGNEDREADY" THEN SetState(a, "INSERVICE") ELSE a
             t == [s EXCEPT !.lastfsnacked = su.fsn, !.write = TRUE]
  <2>1. s \in Link /\ InStep(s) BY <1>3, <1>4, <1>5, SetStateType
  <2>2. MsuRx(a, su) \in {a, s, t, RequestRetransmission(s)} BY DEF MsuRx
  <2> HIDE DEF s
  <2>3. su.fsn \in Seq7 BY DEF Su
  <2>4. SameTimers(s, t) BY <2>1, <2>3 DEF Link, SameTimers
  <2>5. SameTimers(s, RequestRetransmission(s)) BY <2>1, RetransmitType
  <2>q. QED BY <1>3, <2>1, <2>2, <2>4, <2>5, SameInStep
<1>8. su.kind \in Lssu => InStep(LssuRx(a, su))
  <2> SUFFICES ASSUME su.kind \in Lssu PROVE InStep(LssuRx(a, su)) OBVIOUS
  <2> DEFINE s == [a EXCEPT !.lastsurxd = su.kind, !.emergency = a.emergency \/ su.kind = "SIE"]
             c == ChooseProving(s)
  <2>1. s \in Link /\ SameTimers(a, s)
    <3>1. (a.emergency \/ su.kind = "SIE") \in BOOLEAN OBVIOUS
    <3>q. QED BY <1>3, <3>1, RxField
  <2>2. LssuRx(a, su) \in {a, s, SetState(s, "NOTALIGNED"), SetState(c, "ALIGNED"),
                           SetState(c, "PROVING"), SetState(s, "IDLE"), SetState(s, "ALIGNED")}
    BY DEF LssuRx
  <2> HIDE DEF s
  <2>3. InStep(s) BY <1>3, <2>1, SameInStep
  <2>4. c \in Link /\ SameTimers(s, c) BY <2>1, ChooseProvingField
  <2> HIDE DEF c
  <2>5. InStep(c) BY <2>3, <2>4, SameInStep
  <2>q. QED BY <1>3, <1>4, <1>5, <2>1, <2>2, <2>3, <2>4, <2>5
<1>9. su.kind \in Lssu \cup {"FISU", "MSU"} BY DEF Su, SuKind
<1>10. Receive(l, su) = CASE su.kind = "FISU" -> FisuRx(a, su)
                          [] su.kind = "MSU"  -> MsuRx(a, su)
                          [] OTHER            -> LssuRx(a, su)
  BY DEF Receive, a
<1>q. QED BY <1>6, <1>7, <1>8, <1>9, <1>10

\* t1_expiry to t4_expiry and t7_expiry: mtp2_setstate stops the timer whose
\* callback is being run, and would have stopped it in its slot as well.
LEMMA RunSlotInStep ==
    ASSUME NEW l \in Link, InStep(l), NEW x \in Slot, l.tm.slot[x] # NoCallback
    PROVE  InStep(RunSlot(l, x))
<1> DEFINE k == TakeSlot(l.tm, x)
           a == [l EXCEPT !.tm = k]
           t == l.tm.slot[x]
<1>1. l.tm \in TimerTable(Timer) /\ Belong(Timer, l.tm) BY DEF Link, InStep
<1>2. t \in Timer BY <1>1 DEF TimerTable
<1>3. ScheduleDel(k, t) = ScheduleDel(l.tm, t)
      /\ [k EXCEPT !.id[t] = -1] = ScheduleDel(l.tm, t)
  BY <1>1, TakeIsDel
<1>4. RunSlot(l, x) = ExpireTimer(a, t) BY DEF RunSlot
<1>5. {"IDLE", "ALIGNEDREADY"} \subseteq LinkState BY DEF LinkState
<1>6. CASE t = "t7"
  <2>1. [a EXCEPT !.tm.id["t7"] = -1] = [a EXCEPT !.tm = [k EXCEPT !.id["t7"] = -1]]
    BY DEF Link
  <2>2. [a EXCEPT !.tm = ScheduleDel(l.tm, "t7")] = StopTimer(l, "t7")
    BY DEF StopTimer, Link
  <2>3. RunSlot(l, x) = SetState(StopTimer(l, "t7"), "IDLE")
    BY <1>3, <1>4, <1>6, <2>1, <2>2 DEF ExpireTimer
  <2>4. StopTimer(l, "t7") \in Link /\ OnlyT7(l, StopTimer(l, "t7"))
    BY <1>2, <1>6, TimerField DEF OnlyT7
  <2>q. QED BY <1>5, <2>3, <2>4, OnlyT7InStep, SetStateInStep
<1>7. CASE t \in AlignTimer
  <2>1. l.tm.id[t] = x BY <1>1 DEF Belong
  <2>2. l.state = AlignTimerState[t] BY <1>7, <2>1 DEF InStep
  <2>3. a.state = l.state BY DEF Link
  <2>4. StopTimer(a, t) = StopTimer(l, t)
    <3>1. a.tm = k BY DEF Link
    <3>2. [a EXCEPT !.tm = ScheduleDel(l.tm, t)] = [l EXCEPT !.tm = ScheduleDel(l.tm, t)]
      BY DEF Link
    <3>q. QED BY <1>3, <3>1, <3>2 DEF StopTimer
  <2> HIDE DEF a, t
  <2>5. ASSUME NEW n PROVE SetState(a, n) = SetState(l, n)
    <3>1. CASE t = "t1"
      <4>1. l.state = "ALIGNEDREADY" BY <2>2, <3>1 DEF AlignTimerState
      <4>q. QED BY <2>3, <2>4, <3>1, <4>1 DEF SetState, FromAlignedReady
    <3>2. CASE t = "t2"
      <4>1. l.state = "NOTALIGNED" BY <2>2, <3>2 DEF AlignTimerState
      <4>q. QED BY <2>3, <2>4, <3>2, <4>1 DEF SetState, FromNotAligned
    <3>3. CASE t = "t3"
      <4>1. l.state = "ALIGNED" BY <2>2, <3>3 DEF AlignTimerState
      <4>q. QED BY <2>3, <2>4, <3>3, <4>1 DEF SetState, FromAligned
    <3>4. CASE t = "t4"
      <4>1. l.state = "PROVING" BY <2>2, <3>4 DEF AlignTimerState
      <4>q. QED BY <2>3, <2>4, <3>4, <4>1 DEF SetState, FromProving
    <3>q. QED BY <1>7, <3>1, <3>2, <3>3, <3>4 DEF AlignTimer
  <2>6. RunSlot(l, x) \in {SetState(a, "IDLE"), SetState(a, "ALIGNEDREADY")}
    BY <1>4, <1>7 DEF ExpireTimer, AlignTimer
  <2>q. QED BY <1>5, <2>5, <2>6, SetStateInStep
<1>q. QED BY <1>2, <1>6, <1>7 DEF Timer

\* mtp2_start
LEMMA StartInStep ==
    ASSUME NEW l \in Link, InStep(l), NEW e \in BOOLEAN
    PROVE  InStep(Mtp2Start(l, e))
<1> DEFINE m == ResetMtp(l)
           r == [m EXCEPT !.emergency = e]
<1>1. m \in Link /\ SameTimers(l, m) BY ResetField DEF SameTimers
<1> HIDE DEF m
<1>2. r \in Link /\ SameTimers(m, r) BY ZenonT(60), <1>1 DEF Link, SameTimers
<1>3. Mtp2Start(l, e) \in {r, SetState(r, "NOTALIGNED")} BY DEF Mtp2Start, m
<1> HIDE DEF r
<1>4. "NOTALIGNED" \in LinkState BY DEF LinkState
<1>5. InStep(r) BY <1>1, <1>2, SameInStep DEF SameTimers
<1>q. QED BY <1>2, <1>3, <1>4, <1>5, SetStateInStep
===============================================================================
