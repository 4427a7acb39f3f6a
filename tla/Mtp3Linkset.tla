------------------------------ MODULE Mtp3Linkset ------------------------------
(***************************************************************************)
(* One signalling point and its links, against any adjacent signalling     *)
(* points: the peers answer, deny, repeat or stay silent as they like, and *)
(* the links go out of service and come back.  MTP2 is what Mtp2Link shows *)
(* it to be: a link in or out of service, two queues, and events that MTP3 *)
(* gets to see later.  What can happen is the topic, chosen at the start:  *)
(* the constants are functions of it.                                      *)
(***************************************************************************)
EXTENDS Mtp3

CONSTANTS Topic,
          Given,        \* the messages ISUP sends
          Unstable,     \* the links that may fail
          Managed,      \* the links that messages and commands are about
          PeerSends,    \* the messages the peers may send
          Commands,     \* what the application uses mtp3_net_mng for
          Alarms,       \* whether there are alarms
          Restarts,     \* whether the application calls mtp3_init_restart
          StartsUp      \* whether the links are in service to begin with

ASSUME TopicAssumption == StartsUp \in [Topic -> BOOLEAN]

\* mtp3_net_mng sends no other message.
ASSUME CommandsAssumption == Commands \in [Topic -> SUBSET NetMng]

VARIABLES topic,
          ss7,          \* the signalling point
          mtp2,         \* the state of MTP2's links
          told          \* the last UP or DOWN event the application was handed

vars == <<topic, ss7, mtp2, told>>

\* After ss7_start, or some time later.
Init ==
    /\ topic \in Topic
    /\ told = IF StartsUp[topic] THEN "UP" ELSE "DOWN"
    /\ mtp2 = [i \in Link |-> IF StartsUp[topic] THEN "IN" ELSE "OUT"]
    /\ ss7 = [linkstate  |-> [i \in Link |-> IF StartsUp[topic] THEN "UP" ELSE "ALIGNING"],
              passed     |-> [i \in Link |-> StartsUp[topic]],
              failed     |-> [i \in Link |-> 0],
              inhibit    |-> [i \in Link |-> {}],
              changeover |-> [i \in Link |-> "NO_CHANGEOVER"],
              sent       |-> [i \in Link |-> {}],
              timer      |-> [i \in Link |-> [t \in LinkTimer |->
                                 IF StartsUp[topic] /\ t = "q707_t2" /\ t \in Configured
                                 THEN "1st" ELSE "off"]],
              orphan     |-> {},
              tx_q       |-> [i \in Link |-> <<>>],  tx_buf    |-> [i \in Link |-> <<>>],
              co_buf     |-> [i \in Link |-> <<>>],  cb_buf    |-> [i \in Link |-> <<>>],
              co_tx_q    |-> [i \in Link |-> <<>>],  co_tx_buf |-> [i \in Link |-> <<>>],
              route      |-> [sp \in Sp |-> [d \in Dest |-> NoRoute]],
              sp         |-> [sp \in Sp |-> IF StartsUp[topic] THEN "UP" ELSE "DOWN"],
              tra        |-> [sp \in Sp |-> IF StartsUp[topic] THEN {"GOT", "SENT"} ELSE {}],
              t19        |-> [sp \in Sp |-> FALSE],
              t21        |-> [sp \in Sp |-> FALSE],
              state      |-> IF StartsUp[topic] THEN "UP" ELSE "DOWN",
              linkset_up |-> FALSE,
              ev         |-> <<>>,
              evrefused  |-> FALSE,
              out        |-> <<>>]

\* What the peer makes of the messages it is sent does not matter here.
Becomes(n) == ss7' = [n EXCEPT !.out = <<>>]

\* The messages of link i that MTP2 has not sent, and all of them.
Waiting(n, i) == n.tx_q[i] \o n.co_tx_q[i] \o n.co_buf[i] \o n.cb_buf[i]
Held(n, i)    == Waiting(n, i) \o n.tx_buf[i] \o n.co_tx_buf[i]

HeldByT6(n, m) == \E sp \in Sp : m \in Range(n.route[sp][Dpc[m]].q)
Waits(n, m)    == HeldByT6(n, m) \/ \E i \in Link : m \in Range(Waiting(n, i))

Places(seq, m) == {k \in DOMAIN seq : seq[k] = m}
Copies(n, m)   == UNION ({{i} \X Places(Held(n, i), m) : i \in Link}
                         \cup {{sp} \X Places(n.route[sp][Dpc[m]].q, m) : sp \in Sp})

-------------------------------------------------------------------------------
(* MTP2 and the line. *)

\* mtp2_transmit: the next message, in whatever state the link is ...
Write(i) ==
    /\ ss7.tx_q[i] # <<>>
    /\ ss7' = [ss7 EXCEPT !.tx_q[i] = Tail(@), !.tx_buf[i] = <<Head(ss7.tx_q[i])>> \o @]
    /\ UNCHANGED <<topic, mtp2, told>>

\* ... or an SIO, before which reset_mtp flushes what is there.
WriteSio(i) ==
    /\ mtp2[i] # "IN" /\ ss7.tx_q[i] = <<>>
    /\ ss7' = [ss7 EXCEPT !.tx_buf[i] = <<>>]
    /\ mtp2' = [mtp2 EXCEPT ![i] = IF @ = "OUT" THEN "SIO" ELSE @]
    /\ UNCHANGED <<topic, told>>

\* The peer's MTP2 acknowledges the oldest message.
Acknowledge(i) ==
    /\ mtp2[i] = "IN" /\ ss7.tx_buf[i] # <<>>
    /\ ss7' = [ss7 EXCEPT !.tx_buf[i] = Unacknowledged(@, 1)]
    /\ UNCHANGED <<topic, mtp2, told>>

\* A link leaves and enters service when the event queue has room, after SIOs.
GoIn(i) ==
    /\ mtp2[i] = "SIO" /\ EventRoom(ss7)
    /\ mtp2' = [mtp2 EXCEPT ![i] = "IN"]
    /\ ss7' = PostEvent(ss7, [e |-> "LINK_UP", link |-> i])
    /\ UNCHANGED <<topic, told>>

GoOut(i) ==
    /\ i \in Unstable[topic] /\ mtp2[i] = "IN" /\ EventRoom(ss7)
    /\ mtp2' = [mtp2 EXCEPT ![i] = "OUT"]
    /\ ss7' = PostEvent(ss7, [e |-> "LINK_DOWN", link |-> i])
    /\ UNCHANGED <<topic, told>>

RaiseAlarm(i) ==
    /\ Alarms[topic] /\ i \in Unstable[topic] /\ mtp2[i] # "ALARM"
    /\ mtp2' = [mtp2 EXCEPT ![i] = "ALARM"]
    /\ Becomes(Alarm(ss7, i))
    /\ UNCHANGED <<topic, told>>

ClearAlarm(i) ==
    /\ mtp2[i] = "ALARM"
    /\ mtp2' = [mtp2 EXCEPT ![i] = "OUT"]
    /\ Becomes(NoAlarm(ss7, i))
    /\ UNCHANGED <<topic, told>>

-------------------------------------------------------------------------------
(* MTP3. *)

\* isup_send_message reaches mtp3_transmit; a message name is used again once
\* the message is gone.
Give(m) ==
    /\ m \in Given[topic] /\ Copies(ss7, m) = {}
    /\ Becomes(Transmit(ss7, <<m>>))
    /\ UNCHANGED <<topic, mtp2, told>>

CheckEvent ==
    /\ ss7.ev # <<>>
    /\ Becomes(ProcessEvent([ss7 EXCEPT !.ev = Tail(@)], Head(ss7.ev)))
    /\ told' = IF Head(ss7.ev).e \in {"UP", "DOWN"} THEN Head(ss7.ev).e ELSE told
    /\ UNCHANGED <<topic, mtp2>>

ReceiveTest(i) ==
    /\ mtp2[i] = "IN"
    /\ \/ "SLTM" \in PeerSends[topic] /\ Becomes(RxSltm(ss7, i))
       \/ "SLTA" \in PeerSends[topic] /\ Becomes(RxSlta(ss7, i))
       \/ /\ i \in Unstable[topic] /\ "MISMATCH" \in PeerSends[topic]
          /\ Becomes(RxSltaMismatch(ss7, i))
    /\ UNCHANGED <<topic, mtp2, told>>

ReceiveNetMng(i) ==
    /\ i \in Managed[topic] /\ mtp2[i] = "IN"
    /\ \E msg \in (PeerSends[topic] \cap NetMng) \ {"TFP", "TFA"},
          acked \in 0 .. Cardinality(Msg) :
           /\ acked > 0 => /\ msg \in {"COO", "COA"}
                           /\ acked <= Len(ss7.co_tx_buf[i])
                                         + (IF msg = "COO" THEN Len(ss7.tx_buf[i]) ELSE 0)
           /\ Becomes(NetMngReceive(ss7, i, msg, acked))
    /\ UNCHANGED <<topic, mtp2, told>>

\* The SP that link i leads to says whether it takes messages for d.
ReceiveRoute(i) ==
    /\ mtp2[i] = "IN"
    /\ \E d \in Dest :
           \/ "TFP" \in PeerSends[topic] /\ Becomes(RxTfp(ss7, AdjSp[i], d))
           \/ "TFA" \in PeerSends[topic] /\ Becomes(RxTfa(ss7, AdjSp[i], d))
    /\ UNCHANGED <<topic, mtp2, told>>

Command(i) ==
    /\ i \in Managed[topic]
    /\ \E msg \in Commands[topic] : Becomes(NetMngCommand(ss7, i, msg))
    /\ UNCHANGED <<topic, mtp2, told>>

RestartTraffic ==
    /\ Restarts[topic]
    /\ \E sp \in Sp : Becomes(InitRestart(ss7, sp))
    /\ UNCHANGED <<topic, mtp2, told>>

Expire(i, t) ==
    /\ ss7.timer[i][t] \in Callback
    /\ Becomes(Expired([ss7 EXCEPT !.timer[i][t] = "stale"], i, t, ss7.timer[i][t]))
    /\ UNCHANGED <<topic, mtp2, told>>

ExpireOrphan ==
    /\ \E o \in ss7.orphan :
           Becomes(Expired([ss7 EXCEPT !.orphan = @ \ {o}], o[1], o[2], o[3]))
    /\ UNCHANGED <<topic, mtp2, told>>

ExpireT6(sp, d) ==
    /\ ss7.route[sp][d].t6 /\ Becomes(T6Expired(ss7, sp, d))
    /\ UNCHANGED <<topic, mtp2, told>>

ExpireT10(sp, d) ==
    /\ ss7.route[sp][d].t10 /\ Becomes(T10Expired(ss7, sp, d))
    /\ UNCHANGED <<topic, mtp2, told>>

ExpireT19(sp) ==
    /\ ss7.t19[sp] /\ ss7' = [ss7 EXCEPT !.t19[sp] = FALSE]
    /\ UNCHANGED <<topic, mtp2, told>>

ExpireT21(sp) ==
    /\ ss7.t21[sp] /\ Becomes(T21Expired(ss7, sp))
    /\ UNCHANGED <<topic, mtp2, told>>

ExpireLinksetUp ==
    /\ ss7.linkset_up /\ Becomes(LinksetUpExpired(ss7))
    /\ UNCHANGED <<topic, mtp2, told>>

Next ==
    \/ CheckEvent \/ RestartTraffic \/ ExpireOrphan \/ ExpireLinksetUp
    \/ \E m \in Msg : Give(m)
    \/ \E sp \in Sp : ExpireT19(sp) \/ ExpireT21(sp)
    \/ \E sp \in Sp, d \in Dest : ExpireT6(sp, d) \/ ExpireT10(sp, d)
    \/ \E i \in Link :
           \/ Write(i) \/ WriteSio(i) \/ Acknowledge(i) \/ GoIn(i) \/ GoOut(i)
           \/ RaiseAlarm(i) \/ ClearAlarm(i)
           \/ ReceiveTest(i) \/ ReceiveNetMng(i) \/ ReceiveRoute(i) \/ Command(i)
           \/ \E t \in LinkTimer : Expire(i, t)

Spec == Init /\ [][Next]_vars

\* The main loop drains the events and runs the timers.
FairSpec ==
    /\ Spec
    /\ WF_vars(CheckEvent) /\ WF_vars(ExpireLinksetUp)
    /\ \A i \in Link : WF_vars(\E t \in LinkTimer : Expire(i, t))

FairRouteSpec == Spec /\ \A sp \in Sp, d \in Dest : WF_vars(ExpireT6(sp, d))

-------------------------------------------------------------------------------
(* Properties.  Unless they say otherwise they do not depend on what the peers *)
(* send.                                                                       *)

TypeOK ==
    /\ topic \in Topic
    /\ ss7 \in Signalling /\ Len(ss7.ev) <= MaxEvents
    /\ mtp2 \in [Link -> {"OUT", "SIO", "IN", "ALARM"}]
    /\ told \in {"UP", "DOWN"}

\* Changeover, changeback and retrieval never leave a message in two places:
\* it would be sent twice.
OneCopy == \A m \in Msg : Cardinality(Copies(ss7, m)) <= 1

\* An adjacent SP goes down, or restarts as its TRA says.
Fails(sp) ==
    ss7.sp[sp] = "UP" /\ (ss7'.sp[sp] = "DOWN" \/ (ss7'.t19[sp] /\ ~ss7.t19[sp]))

\* A message that MTP2 has not sent yet is not lost when its traffic is diverted
\* to another link or to another signalling point, or comes back, as long as
\* any link takes messages for its destination: every step that takes it out
\* of one buffer puts it into another.  (Except those that T6 holds for an SP
\* that fails or restarts; and not if the peer declares changeovers or changebacks of its
\* own.)
WaitingKept ==
    [][\A m \in Msg : Waits(ss7, m) /\ Copies(ss7', m) = {} =>
           \/ RlToLink(ss7', m) = -1
           \/ HeldByT6(ss7, m) /\ \E sp \in Sp : Fails(sp)]_vars

\* Every timer of a changeover or changeback can be stopped: no slot's number
\* was overwritten, and no variable names a slot that is another's by now.
\* (Not so if the peer declares a changeover or, while this end declares a
\* changeback, declares one of its own or takes an inhibition back; nor for T12,
\* T13, T14, T22 and T23.)
TimersOwned ==
    LET timers == {"t1", "t2", "t3", "t4", "t5"}
    IN  /\ \A o \in ss7.orphan : o[2] \notin timers
        /\ \A i \in Link, t \in timers : ss7.timer[i][t] # "stale"

\* A changeback is always timed, and by the timers of the phase it is in: no
\* timer of it goes on when it is over or cancelled.  (But for the
\* same peers.)
ChangebackTimed == \A i \in Link :
    /\ (ss7.timer[i]["t3"] # "off") = (ss7.changeover[i] = "CHANGEBACK")
    /\ (ss7.timer[i]["t4"] # "off" \/ ss7.timer[i]["t5"] # "off")
           = (ss7.changeover[i] = "CHANGEBACK_INITIATED")

\* A link that either end has inhibited is not given user messages, whatever
\* else happens to it.  (But for the same peers: a T3 that nobody can
\* stop ends a changeback that was cancelled long ago.)
InhibitedUnused == \A i \in Link :
    ss7.inhibit[i] # {} /\ Usable(ss7, i) => CoCbBuffer(ss7, i) # "tx_q"

\* The end that has a link inhibited asks the other one again and again
\* whether it knows (T22, T23).
InhibitTested == \A i \in Link :
    /\ "LOCALLY"  \in ss7.inhibit[i] => ss7.timer[i]["t22"] # "off"
    /\ "REMOTELY" \in ss7.inhibit[i] => ss7.timer[i]["t23"] # "off"

\* A request to inhibit or uninhibit is pending only as long as the timer runs
\* that repeats it or gives it up: the application can always try again.  (Not
\* so after mtp3_restart.)
RequestsTimed == \A i \in Link :
    /\ ("LIN" \in ss7.sent[i]) = (ss7.timer[i]["t14"] # "off")
    /\ ("LUN" \in ss7.sent[i]) = (ss7.timer[i]["t12"] # "off")

\* The application's linkset is up exactly as long as an adjacent SP is, each of
\* which is up only with a link that has passed its test and both ends' TRA.
StateFollows ==
    /\ (ss7.state = "UP") = SpUp(ss7)
    /\ \A sp \in Sp : ss7.sp[sp] = "UP" => Reachable(ss7, sp) # {} /\ ss7.tra[sp] = {"GOT", "SENT"}

AppEvents == {k \in DOMAIN ss7.ev : ss7.ev[k].e \in {"UP", "DOWN"}}
LastTold  == IF AppEvents = {} THEN told ELSE ss7.ev[Max(AppEvents)].e

\* What the application is told of the linkset, with the events it has yet to
\* read, is the truth: UP once the delay is over, DOWN at once, and never UP or
\* DOWN twice.  (Not after an event was refused.)
ToldTruth == ss7.evrefused \/ LastTold = (IF ss7.linkset_up THEN "DOWN" ELSE ss7.state)

\* A TRA that the peer has not answered is timed by T21, so that the restart
\* ends without its TRA.
TraTimed == \A sp \in Sp : ss7.sp[sp] = "DOWN" /\ ss7.tra[sp] = {"SENT"} => ss7.t21[sp]

\* If the linkset stays up the application is told so.
ToldInTheEnd == <>[](ss7.state = "UP") => <>(told = "UP" \/ ss7.evrefused)

\* A destination that an adjacent SP prohibits has no message in any buffer of
\* the links to that SP, and none comes back from a changeover or a changeback.
ProhibitedUnused == \A sp \in Sp, d \in Dest : ss7.route[sp][d].state = "TFP" =>
    \A i \in LinksOf(sp), m \in Msg : Dpc[m] = d => m \notin Range(Held(ss7, i))

\* Traffic to a prohibited destination is not held up for good: while it is
\* prohibited T10 asks for it again and again and nothing waits, and once it is
\* allowed T6 runs until the messages that wait are sent.
RouteTimed == \A sp \in Sp, d \in Dest :
    LET r == ss7.route[sp][d]
    IN  /\ r.t10 = (r.state = "TFP")
        /\ r.t6 = (r.state = "TFA")
        /\ r.q # <<>> => r.t6

\* Once no adjacent SP prohibits a destination any more, a message that T6 holds
\* is sent, or freed with its route, in the end.
Allowed    == \A sp \in Sp, d \in Dest : ss7.route[sp][d].state # "TFP"
RerouteEnds == <>[]Allowed => \A m \in Msg : HeldByT6(ss7, m) ~> ~HeldByT6(ss7, m)

\* The code's message "No more signalling link to adjacent sp, timed changeover
\* initiated": a link whose changeover is no longer negotiated with the peer,
\* but has not been completed either, is timed by T1.
NoMoreLinkTimed == \A i \in Link :
    /\ ss7.changeover[i] = "CHANGEOVER_INITIATED" => ss7.timer[i]["t2"] # "off"
    /\ ss7.changeover[i] = "CHANGEOVER_IN_PROGRESS" => ss7.timer[i]["t1"] # "off"
===============================================================================
