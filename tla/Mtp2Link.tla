------------------------------- MODULE Mtp2Link -------------------------------
(***************************************************************************)
(* One signalling link driven by its application: any peer that sends      *)
(* well-formed signal units, the application's main loop (ss7_read,        *)
(* ss7_write, ss7_check_event, ss7_schedule_run in any order), MTP3's      *)
(* calls into MTP2, and the line's alarms.  It is the only link of its     *)
(* linkset, so that MTP3 never takes messages out of its buffers for a     *)
(* changeover.                                                             *)
(***************************************************************************)
EXTENDS Mtp2, Functions

CONSTANTS MaxQueue,     \* bound on the messages a link holds
          Alarms,       \* TRUE when the line can go into alarm
          DahdiMtp2,    \* TRUE for SS7_TRANSPORT_DAHDIMTP2: poll for POLLOUT on demand
          PeerSu        \* the signal units the peer can send

ASSUME MaxQueueAssumption == MaxQueue \in Nat
ASSUME PeerSuAssumption == PeerSu \subseteq Su
ASSUME FlagAssumption == Alarms \in BOOLEAN /\ DahdiMtp2 \in BOOLEAN

VARIABLES lk,           \* the link
          linkstate     \* ss7->mtp2_linkstate[] of the link: MTP3's view of it

vars == <<lk, linkstate>>

MtpLinkState == {"DOWN", "ALIGNING", "UP", "INALARM"}

TypeOK == lk \in Link /\ linkstate \in MtpLinkState

Init == lk = NewLink /\ linkstate = "DOWN"

Outstanding == Len(lk.tx_buf) + Len(lk.tx_q)

-------------------------------------------------------------------------------

\* ss7_start -> mtp3_start -> mtp2_start(link, 1)
Start ==
    /\ linkstate = "DOWN"
    /\ lk' = Mtp2Start(lk, TRUE)
    /\ linkstate' = "ALIGNING"

\* mtp2_stop, offered by mtp2.h
Stop == lk' = Mtp2Stop(lk) /\ UNCHANGED linkstate

\* ss7_read.  mtp3_receive answers an SLTM with an SLTA on the same link and
\* takes the link to be up; other messages reach MTP2 again only through
\* QueueMsu.
Read(su) ==
    LET r == Receive(lk, su)
    IN  \/ /\ lk' = r
           /\ UNCHANGED linkstate
        \/ /\ Accepts(lk, su)
           /\ Outstanding < MaxQueue
           /\ \E slta \in Msu \ Live(r) : lk' = Mtp2Msu(r, slta)
           /\ linkstate' = "UP"

\* ss7_write, called when poll() reports POLLOUT
Write(ok) ==
    /\ DahdiMtp2 => lk.write
    /\ lk' = Transmit(lk, ok)
    /\ UNCHANGED linkstate

\* mtp3_transmit -> mtp2_msu: rl_to_link picks only links MTP3 holds for up
QueueMsu ==
    /\ linkstate = "UP"
    /\ Outstanding < MaxQueue
    /\ \E m \in Msu \ Live(lk) : lk' = Mtp2Msu(lk, m)
    /\ UNCHANGED linkstate

\* One callback of ss7_schedule_run
Expire(x) ==
    /\ lk.tm.slot[x] # NoCallback
    /\ lk' = RunSlot(lk, x)
    /\ UNCHANGED linkstate

\* ss7_check_event -> mtp3_process_event: a link that came up is tested with
\* an SLTM, a link that went down is down for MTP3 as well.
CheckEvent ==
    /\ lk.ev # <<>>
    /\ LET popped == [lk EXCEPT !.ev = Tail(@)]
       IN  IF Head(lk.ev) = "LINK_UP"
           THEN /\ Outstanding < MaxQueue
                /\ \E sltm \in Msu \ Live(lk) : lk' = Mtp2Msu(popped, sltm)
                /\ UNCHANGED linkstate
           ELSE lk' = popped /\ linkstate' = "DOWN"

\* Variant: MTP3 does not note the alarm.
AlarmUnnoticed == Alarms /\ lk' = Mtp2Alarm(lk) /\ UNCHANGED linkstate

\* ss7_link_alarm -> mtp3_alarm
Alarm ==
    /\ Alarms
    /\ lk' = Mtp2Alarm(lk)
    /\ linkstate' = "INALARM"

\* ss7_link_noalarm -> mtp3_noalarm, which restarts the link at once
NoAlarm ==
    /\ lk.state = "ALARM"
    /\ lk' = Mtp2Start(Mtp2NoAlarm(lk), TRUE)
    /\ linkstate' = "ALIGNING"

Next ==
    \/ Start \/ Stop \/ QueueMsu \/ CheckEvent \/ Alarm \/ NoAlarm
    \/ \E su \in PeerSu : Read(su)
    \/ \E ok \in BOOLEAN : Write(ok)
    \/ \E x \in Slot : Expire(x)

Spec == Init /\ [][Next]_vars

\* The main loop sleeps in poll() no longer than until the next deadline, so a
\* timer that stays scheduled is run.
FairSpec == Spec /\ \A x \in Slot : WF_vars(Expire(x))

-------------------------------------------------------------------------------
(* Properties. *)

\* A timer of the alignment procedure is scheduled at most once, under the
\* number the link keeps for it, and only in the one state whose end it
\* guards: mtp2_setstate stops every timer it started when it leaves a state.
TimersMatchState ==
    \A x \in Slot : \A t \in AlignTimer :
        lk.tm.slot[x] = t => lk.tm.id[t] = x /\ lk.state = AlignTimerState[t]

\* The messages waiting for an acknowledgement are numbered without a gap, the
\* newest carrying the number last used, so that going back to the oldest one
\* (mtp2_retransmit) sends what the peer is missing and in the right order; and
\* no message is in the link's lists twice, whose nodes are freed one by one.
TxBufConsecutive ==
    /\ \A i \in DOMAIN lk.tx_buf :
         lk.tx_buf[i].fsn = (lk.curfsn - (i - 1)) % SeqMod
    /\ IsInjective([i \in DOMAIN lk.tx_buf |-> lk.tx_buf[i].msu] \o lk.tx_q)

\* MTP3 holds a link for up only while MTP2 has it in service or a LINK_DOWN
\* is still to be read from the event queue, as long as that queue has never
\* turned an event away.
UpMeansInService ==
    linkstate = "UP" /\ ~lk.evrefused =>
        \/ lk.state = "INSERVICE"
        \/ \E i \in DOMAIN lk.ev : lk.ev[i] = "LINK_DOWN"

\* The timer that guards the end of the link's state is scheduled, if the state
\* has one.
Guarded(l) ==
    \A t \in AlignTimer : l.state = AlignTimerState[t] => \E x \in Slot : l.tm.slot[x] = t

\* The three steps that leave the alignment to no timer: an SIO takes a link back
\* from proving to aligned, and T3 is not started; a unit that asks for nothing
\* comes to a link that is not aligned, and T2 is stopped; a ready link stops T1
\* and stays, because the event queue is full.
BackFromProving == lk.state = "PROVING" /\ lk'.state = "ALIGNED"
UnitInVain ==
    /\ lk.state = "NOTALIGNED" /\ lk'.state = "NOTALIGNED"
    /\ lk'.lastsurxd # lk.lastsurxd /\ lk'.lastsurxd \in {"SIOS", "SIPO", "SIB"}
LinkUpRefused == lk.state = "ALIGNEDREADY" /\ lk'.state = "ALIGNEDREADY" /\ lk'.evrefused

\* Whatever the peer does, a link enters each of the four alignment states
\* with the timer of that state running, and keeps it running there; except by
\* these three steps, after which only the peer or mtp2_stop gets the link on.
AlignmentGuarded ==
    [][lk'.state # lk.state \/ Guarded(lk) =>
           Guarded(lk') \/ BackFromProving \/ UnitInVain \/ LinkUpRefused]_vars

\* No alignment that a timer guards lasts for ever: T3 ends ALIGNED if it was
\* started, T4 always ends PROVING, T1 ALIGNEDREADY.  (T2 begins NOTALIGNED
\* again, itself included.)  Together with AlignmentGuarded: nothing but those
\* three steps leaves a link to wait for its peer with no timer.
AlignmentEnds ==
    /\ AlignmentGuarded
    /\ lk.state = "ALIGNED" /\ Guarded(lk) ~> lk.state # "ALIGNED"
    /\ lk.state = "PROVING" ~> lk.state # "PROVING"
    /\ lk.state = "ALIGNEDREADY" ~> lk.state # "ALIGNEDREADY" \/ lk.evrefused
===============================================================================
