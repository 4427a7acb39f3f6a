--------------------------------- MODULE Mtp2 ---------------------------------
(***************************************************************************)
(* One MTP2 signalling link: struct mtp2 and the functions of mtp2.c, as   *)
(* operators from a link record to a link record.  Mtp2Link makes a state  *)
(* machine of one link, Mtp2Pair of two links joined by a line.            *)
(*                                                                         *)
(* The fields of a link record are those of struct mtp2, plus the timer    *)
(* table (tm) and the event queue (ev) of its master struct ss7.  A        *)
(* message pointer is the message's name; tx_buf is the C list itself,     *)
(* newest message first.                                                   *)
(***************************************************************************)
EXTENDS Integers, Sequences, SchedTable

CONSTANTS SeqMod,       \* numbers of a 7-bit sequence number, 128
          MaxEvents,    \* MAX_EVENTS, 16
          Msu,          \* the messages that can be handed to the link
          NoMsu         \* the null message pointer

AlignTimer == {"t1", "t2", "t3", "t4"}
Timer      == AlignTimer \cup {"t7"}

ASSUME SeqModAssumption    == SeqMod \in Nat /\ SeqMod > 1
ASSUME MaxEventsAssumption == MaxEvents \in Nat \ {0}
ASSUME MsuAssumption       == NoMsu \notin Msu

LinkState == {"IDLE", "NOTALIGNED", "ALIGNED", "PROVING", "ALIGNEDREADY",
              "INSERVICE", "ALARM"}
\* The state each timer of the alignment guards.
AlignTimerState == [t1 |-> "ALIGNEDREADY", t2 |-> "NOTALIGNED",
                    t3 |-> "ALIGNED", t4 |-> "PROVING"]
Lssu      == {"SIO", "SIN", "SIE", "SIOS", "SIPO", "SIB"}
SuKind    == Lssu \cup {"FISU", "MSU"}
LinkEvent == {"LINK_UP", "LINK_DOWN"}
Seq7      == 0 .. SeqMod - 1
Bit       == {0, 1}
LastSeq   == SeqMod - 1                         \* 127: "nothing received yet"
TxMsu     == [msu : Msu, fsn : Seq7, bib : Bit] \* what a sent message's header keeps

Link ==
    [state          : LinkState,
     emergency      : BOOLEAN,
     provingperiod  : {"none", "t4", "t4e"},
     autotxsutype   : Lssu \cup {"FISU"},
     lastsurxd      : Lssu \cup {"FISU", "none"},
     tm             : TimerTable(Timer),
     ev             : Seq(LinkEvent),
     evrefused      : BOOLEAN,   \* ss7_next_empty_event has returned NULL once
     curfsn         : Seq7,
     curfib         : Bit,
     lastfsnacked   : Seq7,
     curbib         : Bit,
     tx_buf         : Seq(TxMsu),
     tx_q           : Seq(Msu),
     retransmit_pos : Msu \cup {NoMsu},
     write          : BOOLEAN]   \* MTP2_FLAG_WRITE

Su == [kind : SuKind, fsn : Seq7, fib : Bit, bsn : Seq7, bib : Bit]

Live(l) == {l.tx_buf[i].msu : i \in DOMAIN l.tx_buf} \cup {l.tx_q[i] : i \in DOMAIN l.tx_q}

-------------------------------------------------------------------------------
(* Timers and events of the link's master. *)

StartTimer(l, t) == [l EXCEPT !.tm = ScheduleEvent(l.tm, t)]
StopTimer(l, t)  == [l EXCEPT !.tm = ScheduleDel(l.tm, t)]

EventRoom(l) == Len(l.ev) < MaxEvents

PostEvent(l, e) == [l EXCEPT !.ev = Append(@, e)]

\* ss7_next_empty_event returned NULL.
RefuseEvent(l) == [l EXCEPT !.evrefused = TRUE]

-------------------------------------------------------------------------------
(* Creation and reset. *)

\* Variant: the messages that wait for an acknowledgement are not flushed.
ResetMtpKeepsBuffer(l) ==
    [l EXCEPT !.curfsn = LastSeq, !.curfib = 1, !.curbib = 1,
              !.lastfsnacked = LastSeq, !.write = TRUE, !.tx_q = <<>>]

\* reset_mtp and flush_bufs.  The running T7 is left alone.
ResetMtp(l) ==
    [l EXCEPT !.curfsn = LastSeq, !.curfib = 1, !.curbib = 1,
              !.lastfsnacked = LastSeq, !.write = TRUE,
              !.tx_buf = <<>>, !.tx_q = <<>>, !.retransmit_pos = NoMsu]

\* mtp2_new.  calloc() leaves the ids of T1-T4 and T7 at 0, not at -1.
NewLink ==
    [state |-> "IDLE", emergency |-> FALSE, provingperiod |-> "none",
     autotxsutype |-> "SIOS", lastsurxd |-> "none", tm |-> NewTimerTable(Timer),
     ev |-> <<>>, evrefused |-> FALSE,
     curfsn |-> LastSeq, curfib |-> 1, lastfsnacked |-> LastSeq, curbib |-> 1,
     tx_buf |-> <<>>, tx_q |-> <<>>, retransmit_pos |-> NoMsu, write |-> TRUE]

-------------------------------------------------------------------------------
(* Link state control: mtp2_setstate, one operator per state it leaves. *)

\* mtp2_lssu and mtp2_fisu: what to send when there is no message to send.
AutoTx(l, su) == [l EXCEPT !.autotxsutype = su, !.write = TRUE]

FromIdle(l) == [AutoTx(StartTimer(l, "t2"), "SIO") EXCEPT !.state = "NOTALIGNED"]

\* to_idle: SIOS is replaced by SIO before it can ever be sent.
ToIdle(l) == FromIdle([AutoTx(l, "SIOS") EXCEPT !.state = "IDLE"])

SendAlignment(l) == AutoTx(l, IF l.emergency THEN "SIE" ELSE "SIN")

\* Variant: proving starts without T4.
FromNotAlignedNoT4(l, new) ==
    LET d == StopTimer(l, "t2")
    IN  CASE new = "IDLE"    -> ToIdle(d)
          [] new = "ALIGNED" -> [SendAlignment(StartTimer(d, "t3")) EXCEPT !.state = new]
          [] OTHER           -> [SendAlignment(d) EXCEPT !.state = new]

FromNotAligned(l, new) ==
    LET d == StopTimer(l, "t2")
    IN  CASE new = "IDLE"    -> ToIdle(d)
          [] new = "ALIGNED" -> [SendAlignment(StartTimer(d, "t3")) EXCEPT !.state = new]
          [] new = "PROVING" -> [SendAlignment(StartTimer(d, "t4")) EXCEPT !.state = new]
          [] OTHER           -> [d EXCEPT !.state = new]

FromAligned(l, new) ==
    LET d == StopTimer(l, "t3")
    IN  CASE new = "IDLE"    -> ToIdle(d)
          [] new = "PROVING" -> [StartTimer(d, "t4") EXCEPT !.state = new]
          [] OTHER           -> [d EXCEPT !.state = new]

\* Variant: T4 goes on when proving ends.
FromProvingKeepsT4(l, new) ==
    CASE new = "IDLE"         -> ToIdle(l)
      [] new = "ALIGNEDREADY" -> [AutoTx(StartTimer(l, "t1"), "FISU") EXCEPT !.state = new]
      [] OTHER                -> [l EXCEPT !.state = new]

FromProving(l, new) ==
    LET d == StopTimer(l, "t4")
    IN  CASE new = "IDLE"         -> ToIdle(d)
          [] new = "PROVING"      -> StartTimer(d, "t4")
          [] new = "ALIGNED"      -> [SendAlignment(d) EXCEPT !.state = new]
          [] new = "ALIGNEDREADY" -> [AutoTx(StartTimer(d, "t1"), "FISU") EXCEPT !.state = new]
          [] OTHER                -> [d EXCEPT !.state = new]

FromAlignedReady(l, new) ==
    LET d == StopTimer(l, "t1")
    IN  CASE new = "IDLE"         -> ToIdle(d)
          [] new = "ALIGNEDREADY" -> AutoTx(StartTimer(d, "t1"), "FISU")
          [] new = "INSERVICE"    -> IF EventRoom(d)
                                     THEN [PostEvent(d, "LINK_UP") EXCEPT !.state = new]
                                     ELSE RefuseEvent(d)
          [] OTHER                -> [d EXCEPT !.state = new]

FromInService(l, new) ==
    IF new = "INSERVICE" THEN l
    ELSE IF EventRoom(l) THEN ToIdle(PostEvent(l, "LINK_DOWN"))
    ELSE RefuseEvent(l)

SetState(l, new) ==
    CASE l.state = "ALARM"        -> l
      [] l.state = "IDLE"         -> FromIdle(l)
      [] l.state = "NOTALIGNED"   -> FromNotAligned(l, new)
      [] l.state = "ALIGNED"      -> FromAligned(l, new)
      [] l.state = "PROVING"      -> FromProving(l, new)
      [] l.state = "ALIGNEDREADY" -> FromAlignedReady(l, new)
      [] l.state = "INSERVICE"    -> FromInService(l, new)

-------------------------------------------------------------------------------
(* The entry points of MTP3. *)

Mtp2Start(l, emergency) ==
    LET r == [ResetMtp(l) EXCEPT !.emergency = emergency]
    IN  IF r.state = "IDLE" THEN SetState(r, "NOTALIGNED") ELSE r

Mtp2Stop(l) == SetState(l, "IDLE")

\* No timer is stopped, nothing is flushed, and no LINK_DOWN is posted.
Mtp2Alarm(l)   == [l EXCEPT !.state = "ALARM"]
Mtp2NoAlarm(l) == [l EXCEPT !.state = "IDLE"]

\* mtp2_msu and mtp2_queue_su
Mtp2Msu(l, m) == [l EXCEPT !.tx_q = Append(@, m), !.write = TRUE]

-------------------------------------------------------------------------------
(* Transmission. *)

\* update_retransmit_pos: the message just before pos in tx_buf, which is the
\* next newer one; the last of the list when pos is not in it.
NextNewer(buf, pos) ==
    LET at == {i \in DOMAIN buf : buf[i].msu = pos}
        i  == IF at = {} THEN Len(buf) + 1 ELSE Least(at)
    IN  IF i = 1 THEN NoMsu ELSE buf[i - 1].msu

\* mtp2_transmit, ok being whether write() took the SU.
TransmitOld(l, ok) ==
    IF ok THEN [l EXCEPT !.retransmit_pos = NextNewer(l.tx_buf, @)] ELSE l

\* Variants: the sequence number is not wrapped, or the message is put at the
\* wrong end of tx_buf.
TransmitNewNoWrap(l, ok) ==
    [l EXCEPT !.curfsn = @ + 1, !.tx_q = Tail(@),
              !.tx_buf = <<[msu |-> Head(l.tx_q), fsn |-> l.curfsn + 1, bib |-> l.curbib]>> \o @]

TransmitNewAtEnd(l, ok) ==
    LET fsn == (l.curfsn + 1) % SeqMod
    IN  [l EXCEPT !.curfsn = fsn, !.tx_q = Tail(@),
                  !.tx_buf = Append(@, [msu |-> Head(l.tx_q), fsn |-> fsn, bib |-> l.curbib])]

TransmitNew(l, ok) ==
    LET fsn  == (l.curfsn + 1) % SeqMod
        sent == [l EXCEPT !.curfsn = fsn, !.write = TRUE,
                          !.tx_q = Tail(@),
                          !.tx_buf = <<[msu |-> Head(l.tx_q), fsn |-> fsn,
                                         bib |-> l.curbib]>> \o @,
                          !.retransmit_pos = IF ok THEN @ ELSE Head(l.tx_q)]
    IN  IF l.tm.id["t7"] = -1 THEN StartTimer(sent, "t7") ELSE sent

\* make_fisu or make_lssu; sending SIOS or SIO resets the link.
TransmitFill(l, ok) ==
    LET r == IF l.autotxsutype \in {"SIOS", "SIO"} THEN ResetMtp(l) ELSE l
    IN  IF ok THEN [r EXCEPT !.write = FALSE] ELSE r

Transmit(l, ok) ==
    IF l.retransmit_pos # NoMsu THEN TransmitOld(l, ok)
    ELSE IF l.tx_q # <<>> THEN TransmitNew(l, ok)
    ELSE TransmitFill(l, ok)

\* What mtp2_transmit writes when the link goes from l to r.  A message sent
\* again gets the FIB and the BSN of now but keeps the BIB of the first time;
\* one that has been freed meanwhile is whatever its memory holds.
Header(l, kind, fsn, bib) ==
    [kind |-> kind, fsn |-> fsn, fib |-> l.curfib, bsn |-> l.lastfsnacked, bib |-> bib]

WrittenSus(l, r) ==
    IF l.retransmit_pos # NoMsu
    THEN LET kept == {i \in DOMAIN l.tx_buf : l.tx_buf[i].msu = l.retransmit_pos}
         IN  IF kept = {}
             THEN {[su |-> Header(r, "MSU", n, b), msu |-> m] :
                       n \in Seq7, b \in Bit, m \in Msu}
             ELSE {[su |-> Header(r, "MSU", l.tx_buf[i].fsn, l.tx_buf[i].bib),
                    msu |-> l.retransmit_pos] : i \in {Least(kept)}}
    ELSE IF l.tx_q # <<>>
    THEN {[su |-> Header(r, "MSU", r.curfsn, r.curbib), msu |-> Head(l.tx_q)]}
    ELSE {[su |-> Header(r, l.autotxsutype, r.curfsn, r.curbib), msu |-> NoMsu]}

-------------------------------------------------------------------------------
(* Reception. *)

\* update_txbuf: the newest message with this number and all older ones go.
UpdateTxBuf(l, upto) ==
    LET hits == {i \in DOMAIN l.tx_buf : l.tx_buf[i].fsn = upto}
        left == SubSeq(l.tx_buf, 1, Least(hits) - 1)
        cut  == [l EXCEPT !.tx_buf = left]
    IN  IF hits = {} THEN l
        ELSE IF l.tm.id["t7"] <= -1 THEN cut
        ELSE IF left = <<>> THEN StopTimer(cut, "t7")
        ELSE StartTimer(StopTimer(cut, "t7"), "t7")

\* mtp2_retransmit
Retransmit(l) ==
    [l EXCEPT !.write = TRUE, !.curfib = 1 - @,
              !.retransmit_pos = IF l.tx_buf = <<>> THEN @ ELSE l.tx_buf[Len(l.tx_buf)].msu]

\* mtp2_request_retransmission
RequestRetransmission(l) == [l EXCEPT !.curbib = 1 - @, !.write = TRUE]

\* Variant: a FISU never asks for a retransmission.
FisuRxNoRequest(l, su) ==
    LET s == [l EXCEPT !.lastsurxd = "FISU"]
    IN  IF l.lastsurxd = "FISU" THEN l
        ELSE IF s.state = "PROVING" THEN SetState(s, "ALIGNEDREADY")
        ELSE IF s.state = "ALIGNEDREADY" THEN SetState(s, "INSERVICE")
        ELSE s

FisuRx(l, su) ==
    LET r == IF /\ l.state = "INSERVICE"
                /\ su.fsn # l.lastfsnacked
                /\ su.fib = l.curbib
             THEN RequestRetransmission(l) ELSE l
        s == [r EXCEPT !.lastsurxd = "FISU"]
    IN  IF r.lastsurxd = "FISU" THEN r
        ELSE IF s.state = "PROVING" THEN SetState(s, "ALIGNEDREADY")
        ELSE IF s.state = "ALIGNEDREADY" THEN SetState(s, "INSERVICE")
        ELSE s

ChooseProving(l) ==
    [l EXCEPT !.provingperiod = IF l.emergency THEN "t4e" ELSE "t4"]

\* Variant: a link in service takes no notice of its peer's realignment.
LssuRxDeaf(l, su) ==
    LET t == su.kind
        s == [l EXCEPT !.lastsurxd = t]
    IN  CASE s.state \in {"IDLE", "NOTALIGNED"} /\ t \in {"SIE", "SIO"} ->
               SetState(ChooseProving(s), IF t = "SIO" THEN "ALIGNED" ELSE "PROVING")
          [] s.state = "ALIGNED" -> SetState(ChooseProving(s), "PROVING")
          [] OTHER -> s

LssuRx(l, su) ==
    LET t == su.kind
        s == [l EXCEPT !.lastsurxd = t, !.emergency = @ \/ t = "SIE"]
    IN  IF l.lastsurxd = t THEN l
        ELSE CASE s.state \in {"IDLE", "NOTALIGNED"} ->
                    IF t \notin {"SIE", "SIN", "SIO"} THEN SetState(s, "NOTALIGNED")
                    ELSE SetState(ChooseProving(s), IF t = "SIO" THEN "ALIGNED" ELSE "PROVING")
               [] s.state = "ALIGNED" ->
                    IF t = "SIOS" THEN SetState(s, "IDLE")
                    ELSE SetState(ChooseProving(s), "PROVING")
               [] s.state = "PROVING" ->
                    IF t = "SIOS" THEN SetState(s, "IDLE")
                    ELSE IF t = "SIO" THEN SetState(s, "ALIGNED")
                    ELSE s
               [] s.state \in {"ALIGNEDREADY", "INSERVICE"} -> SetState(s, "IDLE")
               [] OTHER -> s

\* Variant: a gap in the sequence numbers is accepted.
AcceptsGap(l, su) ==
    /\ su.kind = "MSU"
    /\ l.state \in {"ALIGNEDREADY", "INSERVICE"}
    /\ su.fib = l.curbib
    /\ su.fsn # l.lastfsnacked

\* msu_rx accepts the message, which goes to mtp3_receive.
Accepts(l, su) ==
    /\ su.kind = "MSU"
    /\ l.state \in {"ALIGNEDREADY", "INSERVICE"}
    /\ su.fib = l.curbib
    /\ su.fsn # l.lastfsnacked
    /\ su.fsn = (l.lastfsnacked + 1) % SeqMod

MsuRx(l, su) ==
    LET s == IF l.state = "ALIGNEDREADY" THEN SetState(l, "INSERVICE") ELSE l
    IN  IF l.state \notin {"ALIGNEDREADY", "INSERVICE"} THEN l
        ELSE IF su.fib # s.curbib \/ su.fsn = s.lastfsnacked THEN s
        ELSE IF Accepts(l, su) THEN [s EXCEPT !.lastfsnacked = su.fsn, !.write = TRUE]
        ELSE RequestRetransmission(s)

\* Variant: the negative acknowledgement is handled before the positive one.
NackAndAck(l, su) ==
    LET r == IF l.state = "INSERVICE" /\ su.bib # l.curfib THEN Retransmit(l) ELSE l
    IN  UpdateTxBuf(r, su.bsn)

\* mtp2_receive up to the dispatch on the SU's kind
AckAndNack(l, su) ==
    LET a == UpdateTxBuf(l, su.bsn)
    IN  IF a.state = "INSERVICE" /\ su.bib # a.curfib THEN Retransmit(a) ELSE a

Receive(l, su) ==
    LET a == AckAndNack(l, su)
    IN  CASE su.kind = "FISU" -> FisuRx(a, su)
          [] su.kind = "MSU"  -> MsuRx(a, su)
          [] OTHER            -> LssuRx(a, su)

-------------------------------------------------------------------------------
(* Timer expiries: t1_expiry, t2_expiry, t3_expiry, t4_expiry, t7_expiry. *)

ExpireTimer(l, t) ==
    CASE t \in {"t1", "t2", "t3"} -> SetState(l, "IDLE")
      [] t = "t4"                 -> SetState(l, "ALIGNEDREADY")
      [] t = "t7"                 -> SetState([l EXCEPT !.tm.id["t7"] = -1], "IDLE")

\* One callback run by ss7_schedule_run.
RunSlot(l, x) == ExpireTimer([l EXCEPT !.tm = TakeSlot(l.tm, x)], l.tm.slot[x])
===============================================================================
