------------------------------- MODULE Mtp2Pair -------------------------------
(***************************************************************************)
(* Two ends of a signalling link, each running mtp2.c under the main loop  *)
(* of its application, joined by a line that keeps the order of signal     *)
(* units and can lose some of them (a unit with a bad check sum never      *)
(* reaches ss7_read).  The channel is a plain HDLC one, on which the       *)
(* library writes whenever poll() lets it (ss7_pollflags).                 *)
(*                                                                         *)
(* The messages an end is given are numbered 1, 2, ... in the order        *)
(* mtp2_msu gets them.                                                     *)
(***************************************************************************)
EXTENDS Mtp2

CONSTANTS End,          \* the two ends
          MaxLine,      \* bound on the signal units under way to an end
          Topic,        \* what the pair goes through; the rest depends on it
          Lasting,      \* the topics that are about what happens in the end
          MaxMsgs,      \* bound on the messages given to each end
          Reserve,      \* how many of them are kept for the tests of links come up
          Window,       \* bound on the messages an end holds at a time
          MaxFaults,    \* bound on lost units, failed writes, stops and alarms
          Firing,       \* the timers that run out
          Faulty,       \* what can go wrong: "loss", "write", "stop", "alarm"
          StopStates,   \* the states of a link in which mtp2_stop is called
          Timely,       \* TRUE when timers outlast the exchange of signal units
          Aligned       \* TRUE to begin with both links just in service

ASSUME EndAssumption == \E a, b \in End : a # b /\ End = {a, b}
ASSUME MsgAssumption ==
    /\ MaxMsgs \in [Topic -> [End -> Nat]]
    /\ Msu \subseteq Nat \ {0} /\ NoMsu = 0
    /\ \A t \in Topic, e \in End : 1 .. MaxMsgs[t][e] \subseteq Msu
ASSUME BoundAssumption ==
    /\ MaxLine \in Nat
    /\ Window \in [Topic -> Nat] /\ Reserve \in [Topic -> Nat]
    /\ MaxFaults \in [Topic -> Nat]
    /\ Firing \in [Topic -> SUBSET Timer]
    /\ Faulty \in [Topic -> SUBSET {"loss", "write", "stop", "alarm"}]
    /\ StopStates \in [Topic -> SUBSET LinkState]
    /\ Timely \in [Topic -> BOOLEAN] /\ Aligned \in [Topic -> BOOLEAN]

VARIABLES topic,
          lk,           \* the link of each end
          started,      \* whether the application of each end has called ss7_start
          line,         \* the signal units under way to each end
          given,        \* the number of messages given to the peer of each end
          got,          \* the last message each end passed to its MTP3
          faults        \* what has gone wrong so far

vars == <<topic, lk, started, line, given, got, faults>>

Peer(e) == CHOOSE f \in End : f # e

LineSu == [su : Su, msu : Msu \cup {NoMsu}]

TypeOK ==
    /\ lk \in [End -> Link]
    /\ started \in [End -> BOOLEAN]
    /\ line \in [End -> Seq(LineSu)]
    /\ given \in [End -> Nat]
    /\ got \in [End -> Msu \cup {NoMsu}]
    /\ topic \in Topic /\ faults \in 0 .. MaxFaults[topic]

\* A link that has just come into service for the first time: T1, T2 and T4
\* were used and stopped, T3 and T7 never were.
InServiceLink ==
    [NewLink EXCEPT !.state = "INSERVICE", !.emergency = TRUE,
                    !.provingperiod = "t4e", !.autotxsutype = "FISU",
                    !.lastsurxd = "FISU", !.ev = <<"LINK_UP">>,
                    !.tm.id = [t \in Timer |-> IF t \in {"t3", "t7"} THEN 0 ELSE -1]]

Init ==
    /\ topic \in Topic
    /\ lk = [e \in End |-> IF Aligned[topic] THEN InServiceLink ELSE NewLink]
    /\ started = [e \in End |-> Aligned[topic]]
    /\ line = [e \in End |-> <<>>]
    /\ given = [e \in End |-> 0]
    /\ got = [e \in End |-> NoMsu]
    /\ faults = 0

-------------------------------------------------------------------------------

Holding(e) == Len(lk[e].tx_buf) + Len(lk[e].tx_q)

CanGive(e) == given[Peer(e)] < MaxMsgs[topic][e] /\ Holding(e) < Window[topic]

Fault(f) ==
    f \in Faulty[topic] /\ faults < MaxFaults[topic] /\ faults' = faults + 1

\* MTP3 hands the link of e its next message.
Give(e) ==
    /\ lk[e].state = "INSERVICE"
    /\ CanGive(e)
    /\ given[Peer(e)] + Reserve[topic] < MaxMsgs[topic][e]
    /\ given' = [given EXCEPT ![Peer(e)] = @ + 1]
    /\ lk' = [lk EXCEPT ![e] = Mtp2Msu(@, given[Peer(e)] + 1)]
    /\ UNCHANGED <<topic, started, line, got, faults>>

\* ss7_read.  Applications start the linkset before they enter the main loop.
Read(e) ==
    /\ started[e]
    /\ line[e] # <<>>
    /\ LET in == Head(line[e])
       IN  /\ lk' = [lk EXCEPT ![e] = Receive(@, in.su)]
           /\ got' = [got EXCEPT ![e] = IF Accepts(lk[e], in.su) THEN in.msu ELSE @]
    /\ line' = [line EXCEPT ![e] = Tail(@)]
    /\ UNCHANGED <<topic, started, given, faults>>

\* ss7_write
Write(e) ==
    /\ started[e]
    /\ Len(line[Peer(e)]) < MaxLine
    /\ LET r == Transmit(lk[e], TRUE)
       IN  /\ lk' = [lk EXCEPT ![e] = r]
           /\ \E out \in WrittenSus(lk[e], r) :
                line' = [line EXCEPT ![Peer(e)] = Append(@, out)]
    /\ UNCHANGED <<topic, started, given, got, faults>>

\* ss7_write when write() fails
WriteFails(e) ==
    /\ Fault("write")
    /\ lk' = [lk EXCEPT ![e] = Transmit(@, FALSE)]
    /\ UNCHANGED <<topic, started, line, given, got>>

\* A unit is damaged on the line and discarded by the receiving card.
Lose(e) ==
    /\ Fault("loss")
    /\ \E i \in DOMAIN line[e] :
         line' = [line EXCEPT ![e] = SubSeq(@, 1, i - 1) \o SubSeq(@, i + 1, Len(@))]
    /\ UNCHANGED <<topic, lk, started, given, got>>

\* ss7_check_event; a link that came up is tested with a message (std_test_send).
CheckEvent(e) ==
    /\ lk[e].ev # <<>>
    /\ LET popped == [lk[e] EXCEPT !.ev = Tail(@)]
           test   == Head(lk[e].ev) = "LINK_UP" /\ CanGive(e)
       IN  IF test
           THEN /\ given' = [given EXCEPT ![Peer(e)] = @ + 1]
                /\ lk' = [lk EXCEPT ![e] = Mtp2Msu(popped, given[Peer(e)] + 1)]
           ELSE lk' = [lk EXCEPT ![e] = popped] /\ UNCHANGED given
    /\ UNCHANGED <<topic, started, line, got, faults>>

\* ss7_start
Start(e) ==
    /\ ~started[e]
    /\ started' = [started EXCEPT ![e] = TRUE]
    /\ lk' = [lk EXCEPT ![e] = Mtp2Start(@, TRUE)]
    /\ UNCHANGED <<topic, line, given, got, faults>>

\* mtp2_stop
Stop(e) ==
    /\ Fault("stop")
    /\ lk[e].state \in StopStates[topic]
    /\ lk' = [lk EXCEPT ![e] = Mtp2Stop(@)]
    /\ UNCHANGED <<topic, started, line, given, got>>

\* ss7_link_alarm and ss7_link_noalarm of a card that sees the line go and
\* come back; units already on the line are read nevertheless.
Alarm(e) ==
    /\ Fault("alarm")
    /\ started[e]
    /\ lk' = [lk EXCEPT ![e] = Mtp2Alarm(@)]
    /\ UNCHANGED <<topic, started, line, given, got>>

NoAlarm(e) ==
    /\ lk[e].state = "ALARM"
    /\ lk' = [lk EXCEPT ![e] = Mtp2Start(Mtp2NoAlarm(@), TRUE)]
    /\ UNCHANGED <<topic, started, line, given, got, faults>>

\* All that each end has to say, it has said and the other end has heard.
Settled ==
    \A e \in End :
        LET heard   == lk[e].lastsurxd
            peer    == lk[Peer(e)]
        IN  /\ peer.ev = <<>>
            /\ \A i \in DOMAIN line[e] : line[e][i].su.kind = heard
            /\ \A out \in WrittenSus(peer, Transmit(peer, TRUE)) : out.su.kind = heard

\* ss7_schedule_run.  The timers of the alignment run for tenths of seconds to
\* minutes, a signal unit takes milliseconds to arrive.
Expire(e, x) ==
    /\ lk[e].tm.slot[x] \in Firing[topic]
    /\ Timely[topic] => Settled
    /\ lk' = [lk EXCEPT ![e] = RunSlot(@, x)]
    /\ UNCHANGED <<topic, started, line, given, got, faults>>

Next ==
    \E e \in End :
        \/ Give(e) \/ Read(e) \/ Write(e) \/ CheckEvent(e) \/ Start(e)
        \/ WriteFails(e) \/ Lose(e) \/ Stop(e) \/ Alarm(e) \/ NoAlarm(e)
        \/ \E x \in Slot : Expire(e, x)

Spec == Init /\ [][Next]_vars

\* The main loops run for ever: a unit that arrived is read, poll() lets the
\* library write again and again, pending events are drained and timers run.
\* (Nothing is promised in the end of a topic outside Lasting.)
FairSpec ==
    /\ Spec
    /\ \A e \in End :
         /\ WF_vars(topic \in Lasting /\ Read(e))
         /\ WF_vars(topic \in Lasting /\ Write(e))
         /\ WF_vars(topic \in Lasting /\ CheckEvent(e))
         /\ WF_vars(topic \in Lasting /\ Start(e))
         /\ WF_vars(topic \in Lasting /\ \E x \in Slot : Expire(e, x))

-------------------------------------------------------------------------------
(* Properties. *)

\* Numbers of the messages for e that its peer or the line still holds and
\* that e has not had.
Pending(e) ==
    LET l == lk[Peer(e)]
    IN  {m \in Live(l) \cup {line[e][i].msu : i \in DOMAIN line[e]} : m > got[e]}

PendingTo == [e \in End |-> Pending(e)]

BothIn == \A e \in End : lk[e].state = "INSERVICE"

Service == INSTANCE LinkService WITH pending <- PendingTo, up <- BothIn

\* Messages are delivered in the order they were given and none twice, through
\* losses, failed writes, stops, alarms and realignments.  While both links are
\* in service none is left out either: no acknowledgement frees a message the
\* peer has not accepted, and no retransmission skips one.
ReliableService == Service!Spec

\* The message to be sent again next is still in the transmission buffer:
\* update_txbuf has not freed it under retransmit_pos.
RetransmitPosLive ==
    \A e \in End :
        lk[e].retransmit_pos # NoMsu =>
            \E i \in DOMAIN lk[e].tx_buf : lk[e].tx_buf[i].msu = lk[e].retransmit_pos

\* All messages arrive in the end, without the help of T7: what is lost at the
\* end of a burst is noticed by the FISUs that follow it.
AllDelivered == <>[](topic = "loss" => got = given)

\* Two links that are started come into service and stay, whoever starts first
\* and however their units cross on the line.
BothInService == <>[](topic = "meet" => BothIn)
===============================================================================
