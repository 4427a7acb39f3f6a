---------------------------------- MODULE Mtp3 ----------------------------------
(***************************************************************************)
(* MTP3 of one signalling point (mtp3.c): its links to one or more         *)
(* adjacent signalling points, with changeover and changeback, inhibiting, *)
(* routes that an adjacent SP prohibits, restart and the signalling link   *)
(* test.  Every function is an operator from the state s of the signalling *)
(* point to its next state.                                                *)
(*                                                                         *)
(* The fields of s are those of struct ss7, struct adjacent_sp and struct  *)
(* mtp2.  A timer variable is "off" (-1) or says which of its callbacks    *)
(* the slot it names will call; "stale" is the number of a slot that has   *)
(* just been freed.  "orphan" holds the callbacks that are scheduled but   *)
(* whose number has been overwritten, and "out" the messages handed to     *)
(* MTP2 in the current step.  The timer table has room, and its slots are  *)
(* numbered from 1, so that "> 0" and "> -1" test the same of a number.    *)
(* q707_t1_failed counts to 1: more makes no difference.  The list         *)
(* adj_sp->routes is a function of the destination, its order makes no     *)
(* difference; "none" is a destination that is not in it.                  *)
(***************************************************************************)
EXTENDS Integers, Sequences, SequencesExt

CONSTANTS NumLinks,     \* ss7->numlinks
          Configured,   \* the timers t with ss7->mtp3_timers[t] > 0
          Msg,          \* the ISUP messages
          Sls,          \* the link each message's SLS selects
          Dest,         \* the signalling points that messages are for
          Dpc,          \* each message's destination
          Sp,           \* the adjacent signalling points
          AdjSp,        \* link->adj_sp
          MaxEvents     \* MAX_EVENTS, 16

ASSUME NumLinksAssumption  == NumLinks \in Nat \ {0}
ASSUME MaxEventsAssumption == MaxEvents \in Nat

Link == 0 .. NumLinks - 1

ASSUME SlsAssumption  == Sls \in [Msg -> Link]
ASSUME DestAssumption == Dpc \in [Msg -> Dest] /\ AdjSp \in [Link -> Sp]

LinksOf(sp) == {i \in Link : AdjSp[i] = sp}

\* mtp3_new_adjsp makes an adjacent SP for a link that leads to it.
ASSUME SpAssumption == \A sp \in Sp : LinksOf(sp) # {}

CoCbTimer  == {"t1", "t2", "t3", "t4", "t5", "t22", "t23"}
OtherTimer == {"t12", "t13", "t14", "q707_t1", "q707_t2"}
LinkTimer  == CoCbTimer \cup OtherTimer
Callback   == {"1st", "2nd"}

Changeover == {"NO_CHANGEOVER", "CHANGEOVER_INITIATED", "CHANGEOVER_IN_PROGRESS",
               "CHANGEOVER_COMPLETED", "CHANGEBACK_INITIATED", "CHANGEBACK"}
SentMsg  == {"LUN", "LIN", "COO", "ECO", "CBD", "LFU"}
Inhibit  == {"LOCALLY", "REMOTELY"}
NetMng   == {"COO", "COA", "CBD", "CBA", "ECO", "ECA", "LIN", "LUN", "LIA", "LUA",
             "LID", "LFU", "LLT", "LRT", "TRA", "TFP", "TFA", "RST"}
TestMsg  == {"SLTM", "SLTA"}
LinkEvent == [e : {"LINK_UP", "LINK_DOWN"}, link : Link]
AppEvent  == [e : {"UP", "DOWN"}]
Route     == [state : {"none", "TFP", "TFA"}, t6 : BOOLEAN, t10 : BOOLEAN, q : Seq(Msg)]
NoRoute   == [state |-> "none", t6 |-> FALSE, t10 |-> FALSE, q |-> <<>>]

Signalling ==
    [linkstate  : [Link -> {"DOWN", "INALARM", "ALIGNING", "UP"}],
     passed     : [Link -> BOOLEAN],              \* std_test_passed
     failed     : [Link -> 0 .. 1],               \* q707_t1_failed
     inhibit    : [Link -> SUBSET Inhibit],
     changeover : [Link -> Changeover],
     sent       : [Link -> SUBSET SentMsg],       \* got_sent_netmsg
     timer      : [Link -> [LinkTimer -> Callback \cup {"off", "stale"}]],
     orphan     : SUBSET (Link \X LinkTimer \X Callback),
     tx_q       : [Link -> Seq(Msg)],             \* MTP2's buffers ...
     tx_buf     : [Link -> Seq(Msg)],             \* ... newest first
     co_buf     : [Link -> Seq(Msg)],
     cb_buf     : [Link -> Seq(Msg)],
     co_tx_q    : [Link -> Seq(Msg)],
     co_tx_buf  : [Link -> Seq(Msg)],
     route      : [Sp -> [Dest -> Route]],        \* adj_sp->routes
     sp         : [Sp -> {"DOWN", "UP"}],         \* adj_sp->state
     tra        : [Sp -> SUBSET {"GOT", "SENT"}],
     t19        : [Sp -> BOOLEAN],
     t21        : [Sp -> BOOLEAN],
     state      : {"DOWN", "UP"},                 \* ss7->state
     linkset_up : BOOLEAN,                        \* linkset_up_timer is running
     ev         : Seq(LinkEvent \cup AppEvent),
     evrefused  : BOOLEAN,
     out        : Seq([msg : NetMng \cup TestMsg, sls : Link, via : SUBSET Link])]

PassedLinks(s) == {i \in Link : s.passed[i]}
Reachable(s, sp) == PassedLinks(s) \cap LinksOf(sp)     \* those that count for sp

First(S) == CHOOSE i \in S : \A j \in S : i <= j

-------------------------------------------------------------------------------
(* Timers and events. *)

Stop(s, i, t) == [s EXCEPT !.timer[i][t] = "off"]

StopAll(s, i, T) ==
    [s EXCEPT !.timer[i] = [t \in LinkTimer |-> IF t \in T THEN "off" ELSE @[t]]]

\* An assignment of ss7_schedule_event's result, whatever the variable held.
Schedule(s, i, t, callback) ==
    [s EXCEPT !.timer[i][t] = callback,
              !.orphan = IF s.timer[i][t] \in Callback
                         THEN @ \cup {<<i, t, s.timer[i][t]>>} ELSE @]

Start(s, i, t) == IF t \in Configured THEN Schedule(s, i, t, "1st") ELSE s

Restart(s, i, t) == Schedule(Stop(s, i, t), i, t, "1st")

\* T12, T13, T14: the second callback, if the variable is not -1.
ScheduleNext(s, i, t) ==
    Schedule(s, i, t, IF s.timer[i][t] = "off" THEN "1st" ELSE "2nd")

EventRoom(s) == Len(s.ev) < MaxEvents

\* Variant: a full queue is not noticed.
PostEventFull(s, e) == [s EXCEPT !.ev = Append(@, e)]

PostEvent(s, e) == IF EventRoom(s) THEN [s EXCEPT !.ev = Append(@, e)]
                   ELSE [s EXCEPT !.evrefused = TRUE]

-------------------------------------------------------------------------------
(* User messages. *)

Usable(s, i) ==
    \/ /\ s.linkstate[i] = "UP" /\ s.sp[AdjSp[i]] = "UP"
       /\ s.changeover[i] # "CHANGEOVER_COMPLETED"
    \/ s.changeover[i] \in {"CHANGEOVER_IN_PROGRESS", "CHANGEBACK_INITIATED"}

RouteOf(s, i, m) == s.route[AdjSp[i]][Dpc[m]]

\* link_available
LinkAvailable(s, i, m) ==
    Usable(s, i) /\ (RouteOf(s, i, m).t6 \/ RouteOf(s, i, m).state # "TFP")

\* rl_to_link: the link the SLS selects or the first that is available; -1 if
\* none is, and then the message is freed.
RlToLink(s, m) ==
    LET links == {i \in Link : LinkAvailable(s, i, m)}
    IN  IF Sls[m] \in links THEN Sls[m] ELSE IF links = {} THEN -1 ELSE First(links)

CoCbBuffer(s, i) ==
    CASE s.changeover[i] \in {"CHANGEOVER_IN_PROGRESS", "CHANGEOVER_INITIATED"} -> "co_buf"
      [] s.changeover[i] \in {"CHANGEBACK_INITIATED", "CHANGEBACK"} -> "cb_buf"
      [] OTHER -> "tx_q"

\* The buffer link_available makes of the link: none is MTP2's.
BufferOf(s, i, m) == IF RouteOf(s, i, m).t6 THEN "route" ELSE CoCbBuffer(s, i)

\* The messages of a buffer that are in S, in their order.
Only(buf, S) ==
    FlattenSeq([k \in DOMAIN buf |-> IF buf[k] \in S THEN <<buf[k]>> ELSE <<>>])

MessagesFor(d) == {m \in Msg : Dpc[m] = d}

\* The messages that go to a buffer of link i.
Taken(s, msgs, i, buf) ==
    Only(msgs, {m \in Msg : RlToLink(s, m) = i /\ BufferOf(s, i, m) = buf})

\* mtp3_to_buffer of the messages that wait for d's T6.
HeldFor(s, msgs, sp, d) ==
    IF ~s.route[sp][d].t6 THEN <<>>
    ELSE Only(msgs, {m \in MessagesFor(d) : RlToLink(s, m) \in LinksOf(sp)})

\* mtp3_transmit of ISUP messages, one or (mtp3_transmit_buffer) several: each
\* is appended by mtp3_to_buffer or by mtp2_msu.
Transmit(s, msgs) ==
    IF msgs = <<>> THEN s ELSE
    [s EXCEPT !.tx_q   = [i \in Link |-> @[i] \o Taken(s, msgs, i, "tx_q")],
              !.co_buf = [i \in Link |-> @[i] \o Taken(s, msgs, i, "co_buf")],
              !.cb_buf = [i \in Link |-> @[i] \o Taken(s, msgs, i, "cb_buf")],
              !.route  = [sp \in Sp |-> [d \in Dest |->
                             [s.route[sp][d] EXCEPT !.q = @ \o HeldFor(s, msgs, sp, d)]]]]

\* mtp3_move_buffer(co_tx_buf, ..., fsn): the newest message with this number
\* and all older ones are freed, the others keep their order, newest first.
\* acked is how many that are; 0 if no message has that number.
Unacknowledged(buf, acked) == SubSeq(buf, 1, Len(buf) - acked)

FreeCo(s, i) == [s EXCEPT !.co_tx_buf[i] = <<>>, !.co_tx_q[i] = <<>>]

-------------------------------------------------------------------------------
(* Sending network management messages. *)

\* mtp3_cancel_changeback without its call of mtp3_check.
DropChangeback(s, i) ==
    StopAll([s EXCEPT !.co_buf[i] = @ \o s.cb_buf[i], !.cb_buf[i] = <<>>,
                      !.changeover[i] = "NO_CHANGEOVER"],
            i, {"t3", "t4", "t5"})

InChangeback(s, i) == s.changeover[i] \in {"CHANGEBACK", "CHANGEBACK_INITIATED"}

\* mtp3_timed_changeover once the changeback is cancelled
StartTimedChangeover(s, i) ==
    IF s.changeover[i] # "NO_CHANGEOVER" THEN s
    ELSE FreeCo(Restart([s EXCEPT !.changeover[i] = "CHANGEOVER_IN_PROGRESS",
                                  !.co_buf[i] = @ \o s.tx_q[i], !.tx_q[i] = <<>>],
                        i, "t1"),
                i)

\* The switch of net_mng_send: what is noted and which timer is started.
NoteSent(s, i, msg) ==
    LET n == IF msg \in SentMsg THEN [s EXCEPT !.sent[i] = @ \cup {msg}] ELSE s
    IN  CASE msg = "CBD" -> IF "t4" \in Configured /\ n.timer[i]["t4"] = "off"
                            THEN Schedule(n, i, "t4", "1st") ELSE n
          [] msg = "COO" -> IF "t2" \in Configured
                            THEN Schedule(Stop(n, i, "t2"), i, "t2", "1st") ELSE n
          [] msg = "ECO" -> IF "t2" \in Configured THEN Restart(n, i, "t2") ELSE n
          [] msg = "LUN" -> IF "t14" \in Configured THEN ScheduleNext(n, i, "t12") ELSE n
          [] msg = "LIN" -> IF "t14" \in Configured THEN ScheduleNext(n, i, "t14") ELSE n
          [] msg = "LFU" -> IF "t13" \in Configured THEN ScheduleNext(n, i, "t13") ELSE n
          [] msg = "TRA" -> [n EXCEPT !.tra[AdjSp[i]] = @ \cup {"SENT"},
                                      !.t21[AdjSp[i]] = @ \/ "t21" \in Configured]
          [] OTHER -> n

\* The links net_mng_send hands a message about link i to: every link to the
\* same SP that has passed its test, when i has not.
Via(s, i) == IF s.passed[i] THEN {i} ELSE Reachable(s, AdjSp[i])

\* No link is left.  The calls of mtp3_check are left out: either the adjacent
\* SP is down by now, or mtp3_link_failed sends a COO and will call mtp3_check,
\* and then the link is CHANGEOVER_INITIATED, which nothing here changes.
SendFailed(s, i) ==
    IF s.sent[i] \cap {"COO", "ECO"} # {}
    THEN LET n == Stop([s EXCEPT !.sent[i] = @ \ {"COO", "ECO"}], i, "t2")
         IN  StartTimedChangeover(IF InChangeback(n, i) THEN DropChangeback(n, i) ELSE n, i)
    ELSE IF "CBD" \in s.sent[i]
    THEN DropChangeback([s EXCEPT !.sent[i] = @ \ {"CBD"}], i)
    ELSE s

HandOver(s, i, msg) ==
    IF Via(s, i) = {} THEN SendFailed(s, i)
    ELSE [s EXCEPT !.out = Append(@, [msg |-> msg, sls |-> i, via |-> Via(s, i)])]

\* net_mng_send
NetMngSend(s, i, msg) == HandOver(NoteSent(s, i, msg), i, msg)

\* std_test_send
StdTestSend(s, i) ==
    LET n == [s EXCEPT !.out = Append(@, [msg |-> "SLTM", sls |-> i, via |-> {i}])]
    IN  IF "q707_t1" \in Configured THEN Restart(n, i, "q707_t1") ELSE n

-------------------------------------------------------------------------------
(* Availability of the adjacent SPs and of the linkset. *)

\* available_links for any destination
AvailableLinks(s, ignore_inhibit) ==
    {i \in PassedLinks(s) :
        \/ ignore_inhibit /\ s.inhibit[i] # {}
        \/ s.changeover[i] \in {"NO_CHANGEOVER", "CHANGEBACK"}}

InhibitedBy(s, end) == {i \in Link : end \in s.inhibit[i]}

\* A request to uninhibit the first link that this end of it has inhibited,
\* unless one has been sent.
Request(s, end, msg) ==
    LET links == InhibitedBy(s, end)
    IN  IF links # {} /\ msg \notin s.sent[First(links)]
        THEN NetMngSend(s, First(links), msg) ELSE s

\* The first part of ss7_check: no link is left for traffic, so that the first
\* inhibited one must be given up.
Uninhibit(s) ==
    LET local == InhibitedBy(s, "LOCALLY")
    IN  IF local = {} \/ First(local) \in InhibitedBy(s, "REMOTELY")
        THEN Request(Request(s, "LOCALLY", "LUN"), "REMOTELY", "LFU")
        ELSE Request(s, "LOCALLY", "LUN")

\* Variant: the timer is not started.
LinksetUpUntimed(s) == [s EXCEPT !.state = "UP"]

\* linkset_up_timer is started; links that have not come up yet are left to
\* other links.
LinksetUp(s) ==
    [s EXCEPT !.state = "UP", !.linkset_up = TRUE,
              !.changeover = [i \in Link |-> IF s.passed[i] THEN @[i]
                                             ELSE "CHANGEOVER_COMPLETED"]]

\* Variant: the DOWN event is posted even if the UP event is still to come.
LinksetDownAlways(s) == [PostEvent(s, [e |-> "DOWN"]) EXCEPT !.state = "DOWN"]

\* Nobody was told that the linkset is up: only the timer is stopped.
\* Otherwise every link is tidied up, if there is room for the event.
LinksetDown(s) ==
    LET d == [s EXCEPT !.state = "DOWN"]
    IN  IF d.linkset_up THEN [d EXCEPT !.linkset_up = FALSE]
        ELSE IF ~EventRoom(d) THEN PostEvent(d, [e |-> "DOWN"])
        ELSE [PostEvent(d, [e |-> "DOWN"]) EXCEPT
                 !.changeover = [i \in Link |-> IF "LOCALLY" \in d.inhibit[i]
                                                THEN "CHANGEOVER_COMPLETED"
                                                ELSE "NO_CHANGEOVER"],
                 !.co_tx_buf  = [i \in Link |-> <<>>],
                 !.co_tx_q    = [i \in Link |-> <<>>],
                 !.timer      = [i \in Link |-> [t \in LinkTimer |-> "off"]]]

SpUp(s) == \E sp \in Sp : s.sp[sp] = "UP"

LinksetFollows(s) ==
    CASE SpUp(s)  /\ s.state = "DOWN" -> LinksetUp(s)
      [] ~SpUp(s) /\ s.state = "UP"   -> LinksetDown(s)
      [] OTHER -> s

\* ss7_check
Ss7Check(s) ==
    LinksetFollows(IF AvailableLinks(s, FALSE) = {} /\ SpUp(s) THEN Uninhibit(s) ELSE s)

\* What mtp3_check and mtp3_restart do to every link and every route of an
\* adjacent SP that has failed; mtp3_destroy_all_routes frees what is buffered.
ForgetPeer(s, sp) ==
    [s EXCEPT !.sp[sp] = "DOWN", !.tra[sp] = {},
              !.sent = [i \in Link |-> IF AdjSp[i] = sp THEN {} ELSE @[i]],
              !.timer = [i \in Link |-> [t \in LinkTimer |->
                            IF AdjSp[i] = sp /\ t \in OtherTimer THEN "off" ELSE @[i][t]]],
              !.inhibit = [i \in Link |-> IF AdjSp[i] = sp THEN @[i] \ {"REMOTELY"} ELSE @[i]],
              !.route[sp] = [d \in Dest |-> NoRoute]]

\* mtp3_check
Check(s, sp) ==
    IF Reachable(s, sp) = {} /\ s.sp[sp] = "UP"
    THEN Ss7Check([ForgetPeer(s, sp) EXCEPT !.t19[sp] = FALSE, !.t21[sp] = FALSE])
    ELSE IF Reachable(s, sp) # {} /\ s.sp[sp] = "DOWN" /\ s.tra[sp] = {"GOT", "SENT"}
    THEN Ss7Check([s EXCEPT !.sp[sp] = "UP"])
    ELSE s

-------------------------------------------------------------------------------
(* Changeover and changeback. *)

\* mtp3_cancel_changeover
CancelChangeover(s, i) ==
    LET n == StopAll(s, i, {"t1", "t2"})
    IN  FreeCo([n EXCEPT !.sent[i] = @ \ {"COO", "ECO"},
                         !.cb_buf[i] = @ \o s.co_tx_q[i] \o s.co_buf[i],
                         !.co_buf[i] = <<>>,
                         !.changeover[i] = "NO_CHANGEOVER"], i)

\* mtp3_cancel_changeback
CancelChangeback(s, i) == IF InChangeback(s, i) THEN Check(DropChangeback(s, i), AdjSp[i]) ELSE s

\* mtp3_timed_changeover
TimedChangeover(s, i) == StartTimedChangeover(CancelChangeback(s, i), i)

\* Variant: MTP2 keeps the messages that are saved.
SaveBuffersCopies(s, i) ==
    IF s.changeover[i] = "CHANGEOVER_INITIATED" THEN s
    ELSE [s EXCEPT !.changeover[i] = "CHANGEOVER_INITIATED",
                   !.co_tx_buf[i] = s.tx_buf[i], !.co_tx_q[i] = s.tx_q[i]]

SaveBuffers(s, i) ==
    IF s.changeover[i] = "CHANGEOVER_INITIATED" THEN s
    ELSE [s EXCEPT !.changeover[i] = "CHANGEOVER_INITIATED",
                   !.co_tx_buf[i] = s.tx_buf[i], !.tx_buf[i] = <<>>,
                   !.co_tx_q[i] = s.tx_q[i],     !.tx_q[i] = <<>>]

\* mtp3_prepare_changeover
PrepareChangeover(s, i) == SaveBuffers(CancelChangeback(s, i), i)

\* The messages are sent before the link is marked.
Divert(s, i, acked) ==
    LET msgs == Unacknowledged(s.co_tx_buf[i], acked) \o s.co_tx_q[i] \o s.co_buf[i]
        sent == Transmit([FreeCo(s, i) EXCEPT !.co_buf[i] = <<>>], msgs)
    IN  IF s.changeover[i] \in {"NO_CHANGEOVER", "CHANGEOVER_INITIATED"}
        THEN Check([sent EXCEPT !.changeover[i] = "CHANGEOVER_COMPLETED"], AdjSp[i])
        ELSE s

\* mtp3_changeover
ChangeoverDone(s, i, acked) == Divert(CancelChangeback(s, i), i, acked)

\* Variant: an inhibited link is not spared.
ChangebackInhibited(s, i) ==
    IF s.changeover[i] # "CHANGEOVER_COMPLETED" THEN s
    ELSE Check(Schedule([s EXCEPT !.changeover[i] = "CHANGEBACK"], i, "t3", "1st"), AdjSp[i])

\* mtp3_changeback
Changeback(s, i) ==
    IF s.inhibit[i] # {} THEN s
    ELSE CASE s.changeover[i] \in {"CHANGEOVER_IN_PROGRESS", "CHANGEOVER_INITIATED"} ->
                Check(CancelChangeover(s, i), AdjSp[i])
           [] s.changeover[i] \in {"CHANGEOVER_COMPLETED", "CHANGEBACK_INITIATED"} ->
                Check(Schedule([s EXCEPT !.changeover[i] = "CHANGEBACK",
                                         !.cb_buf[i] = @ \o s.tx_q[i],
                                         !.tx_q[i] = <<>>],
                               i, "t3", "1st"), AdjSp[i])
           [] OTHER -> Check(s, AdjSp[i])

\* mtp3_link_failed
LinkFailed(s, i) ==
    LET f == [s EXCEPT !.passed[i] = FALSE]
        c == IF /\ NumLinks > 1 /\ AvailableLinks(f, TRUE) # {}
                /\ f.changeover[i] \in {"NO_CHANGEOVER", "CHANGEBACK"}
             THEN NetMngSend(PrepareChangeover(f, i), i, "COO") ELSE f
    IN  Check(StopAll(c, i, {"q707_t1", "q707_t2"}), AdjSp[i])

\* mtp3_event_link_down
EventLinkDown(s, i) == LinkFailed([s EXCEPT !.linkstate[i] = "DOWN"], i)

\* mtp3_event_link_up
EventLinkUp(s, i) ==
    LET n == StdTestSend(s, i)
    IN  IF "q707_t2" \in Configured THEN Restart(n, i, "q707_t2") ELSE n

-------------------------------------------------------------------------------
(* Routes: destinations that an adjacent SP does not take, or has not taken    *)
(* until just now.                                                             *)

\* mtp3_move_buffer for one destination, out of these buffers of every link
\* to sp: what stays, and what is moved, link by link.
Withdraw(s, sp, d, bufs) ==
    [f \in DOMAIN s |->
        IF f \notin Range(bufs) THEN s[f]
        ELSE [i \in Link |-> IF AdjSp[i] # sp THEN s[f][i]
                             ELSE Only(s[f][i], Msg \ MessagesFor(d))]]

Withdrawn(s, sp, d, bufs) ==
    LET Of(i) == IF AdjSp[i] # sp THEN <<>>
                 ELSE FlattenSeq([k \in DOMAIN bufs |-> Only(s[bufs[k]][i], MessagesFor(d))])
    IN  FlattenSeq([k \in 1 .. NumLinks |-> Of(k - 1)])

\* Variant: messages that wait for a changeback are forgotten.
ForcedRerouteKeepsCb(s, sp, d) ==
    LET bufs == <<"tx_q", "co_tx_q", "co_buf">>
        n    == Withdraw(s, sp, d, bufs \o <<"tx_buf", "co_tx_buf">>)
    IN  Transmit([n EXCEPT !.route[sp][d] =
                     [state |-> "TFP", t6 |-> FALSE, t10 |-> "t10" \in Configured, q |-> <<>>]],
                 s.route[sp][d].q \o Withdrawn(s, sp, d, bufs))

\* mtp3_forced_reroute: messages that MTP2 has sent are freed.
ForcedReroute(s, sp, d) ==
    LET bufs == <<"tx_q", "co_tx_q", "co_buf", "cb_buf">>
        n    == Withdraw(s, sp, d, bufs \o <<"tx_buf", "co_tx_buf">>)
    IN  Transmit([n EXCEPT !.route[sp][d] =
                     [state |-> "TFP", t6 |-> FALSE, t10 |-> "t10" \in Configured, q |-> <<>>]],
                 s.route[sp][d].q \o Withdrawn(s, sp, d, bufs))

\* Variant: T6 is not started.
ControlledRerouteUntimed(s, sp, d) ==
    LET bufs == <<"tx_q", "co_buf", "cb_buf", "co_tx_q">>
    IN  [Withdraw(s, sp, d, bufs) EXCEPT
            !.route[sp][d] = [@ EXCEPT !.state = "TFA", !.t10 = FALSE,
                                       !.q = @ \o Withdrawn(s, sp, d, bufs)]]

\* Variant: T10 goes on.
ControlledRerouteT10(s, sp, d) ==
    LET bufs == <<"tx_q", "co_buf", "cb_buf", "co_tx_q">>
    IN  [Withdraw(s, sp, d, bufs) EXCEPT
            !.route[sp][d] = [@ EXCEPT !.state = "TFA", !.t6 = TRUE,
                                       !.q = @ \o Withdrawn(s, sp, d, bufs)]]

\* mtp3_controlled_reroute
ControlledReroute(s, sp, d) ==
    LET bufs == <<"tx_q", "co_buf", "cb_buf", "co_tx_q">>
    IN  [Withdraw(s, sp, d, bufs) EXCEPT
            !.route[sp][d] = [state |-> "TFA", t6 |-> TRUE, t10 |-> FALSE,
                              q |-> @.q \o Withdrawn(s, sp, d, bufs)]]

\* mtp3_add_set_route, for the TFP and the TFA that net_mng_receive gets about
\* a destination.
RxTfp(s, sp, d) == ForcedReroute(s, sp, d)
RxTfa(s, sp, d) == IF s.route[sp][d].state = "none" THEN s ELSE ControlledReroute(s, sp, d)

\* Variant: the route is gone before its messages are sent.
T6ExpiredDestroysFirst(s, sp, d) == [s EXCEPT !.route[sp][d] = NoRoute]

\* mtp3_t6_expired; mtp3_destroy_route finds nothing left to free.
T6Expired(s, sp, d) ==
    LET n == Transmit([s EXCEPT !.route[sp][d].t6 = FALSE, !.route[sp][d].q = <<>>],
                      s.route[sp][d].q)
    IN  IF n.route[sp][d].state = "TFA" THEN [n EXCEPT !.route[sp][d] = NoRoute] ELSE n

\* mtp3_t10_expired
T10Expired(s, sp, d) == NetMngSend(s, First(LinksOf(sp)), "RST")

-------------------------------------------------------------------------------
(* Restart of an adjacent SP. *)

\* mtp3_init
InitPeer(s, i) ==
    IF s.sp[AdjSp[i]] = "UP" THEN s
    ELSE IF "LOCALLY" \in s.inhibit[i] THEN NetMngSend(s, i, "LIN")
    ELSE IF "SENT" \notin s.tra[AdjSp[i]] THEN Check(NetMngSend(s, i, "TRA"), AdjSp[i])
    ELSE s

\* The loop of mtp3_restart when no link can carry a message: it goes on until
\* mtp3_init has nothing to send, at the second link not inhibited here.
InitUnheard(s, sp) ==
    LET free  == {i \in LinksOf(sp) : "LOCALLY" \notin s.inhibit[i]}
        later == {i \in free : \E j \in free : j < i}
        tried == {i \in LinksOf(sp) \ free : \A j \in later : i < j}
        lin   == [s EXCEPT !.sent = [i \in Link |-> IF i \in tried THEN @[i] \cup {"LIN"}
                                                    ELSE @[i]],
                           !.timer = [i \in Link |-> [t \in LinkTimer |->
                                         IF i \in tried /\ t = "t14" /\ t \in Configured
                                         THEN "1st" ELSE @[i][t]]]]
    IN  IF free = {} THEN lin ELSE NoteSent(lin, First(free), "TRA")

InitLinks(s, sp) ==
    IF Reachable(s, sp) = {} THEN InitUnheard(s, sp) ELSE InitPeer(s, First(LinksOf(sp)))

\* Variant: ss7_check is not called.
RestartPeerUnnoticed(s, sp) == InitLinks(ForgetPeer(s, sp), sp)

\* mtp3_restart
RestartPeer(s, sp) == Ss7Check(InitLinks(ForgetPeer(s, sp), sp))

\* Variant: the timers are stopped after the restart.
InitRestartStopsLast(s, sp) ==
    [RestartPeer(s, sp) EXCEPT !.t19[sp] = FALSE, !.t21[sp] = FALSE]

\* mtp3_init_restart
InitRestart(s, sp) ==
    RestartPeer([s EXCEPT !.t19[sp] = FALSE, !.t21[sp] = FALSE], sp)

-------------------------------------------------------------------------------
(* Reception of network management messages about link i.  mtp3_receive drops  *)
(* one that comes over another link: its SLS must be the SLC of the link it    *)
(* comes over.                                                                 *)

RxCoo(s, i, acked) ==
    LET answer == IF s.changeover[i] \in {"NO_CHANGEOVER", "CHANGEOVER_INITIATED"}
                  THEN "COA" ELSE "ECA"
    IN  ChangeoverDone(PrepareChangeover(NetMngSend(s, i, answer), i), i, acked)

RxCoa(s, i, acked) ==
    IF s.sent[i] \cap {"COO", "ECO"} = {} THEN s
    ELSE ChangeoverDone([Stop(s, i, "t2") EXCEPT !.sent[i] = @ \ {"COO", "ECO"}], i, acked)

RxEco(s, i) ==
    LET t == StopAll(s, i, IF "ECO" \in s.sent[i] THEN {"t1", "t2"} ELSE {"t1"})
        n == [t EXCEPT !.sent[i] = @ \ {"CBD", "COO"}]
        answer == IF "ECO" \notin n.sent[i] /\ n.changeover[i] = "NO_CHANGEOVER"
                  THEN "COA" ELSE "ECA"
    IN  TimedChangeover(NetMngSend(n, i, answer), i)

RxEca(s, i) ==
    TimedChangeover([Stop(s, i, "t2") EXCEPT !.sent[i] = @ \ {"COO", "ECO"}], i)

RxCbd(s, i) == Changeback(NetMngSend(s, i, "CBA"), i)

\* Variant: T4 and T5 go on.
RxCbaTimersRun(s, i) ==
    IF "CBD" \notin s.sent[i] THEN s
    ELSE Changeback([s EXCEPT !.sent[i] = @ \ {"CBD"}], i)

RxCba(s, i) ==
    IF "CBD" \notin s.sent[i] THEN s
    ELSE Changeback(StopAll([s EXCEPT !.sent[i] = @ \ {"CBD"}], i, {"t4", "t5"}), i)

\* The condition under which a link may be inhibited, here and in mtp3_net_mng.
MayInhibit(s, i) ==
    \/ Cardinality(AvailableLinks(s, FALSE)) > 1
    \/ s.inhibit[i] # {}
    \/ ~s.passed[i]

RxLin(s, i) ==
    IF ~MayInhibit(s, i) THEN NetMngSend(s, i, "LID")
    ELSE Start(TimedChangeover([NetMngSend(s, i, "LIA") EXCEPT
                                    !.inhibit[i] = @ \cup {"REMOTELY"}], i),
               i, "t23")

RxLfu(s, i) == IF "LUN" \in s.sent[i] THEN s ELSE NetMngSend(s, i, "LUN")

RxLun(s, i) ==
    LET n == NetMngSend([s EXCEPT !.sent[i] = @ \ {"LFU"}], i, "LUA")
    IN  StopAll(Changeback([n EXCEPT !.inhibit[i] = @ \ {"REMOTELY"}], i), i, {"t23", "t13"})

\* With a link that can be inhibited here a restart is under way.
LiaRestarts(s, i) ==
    IF "SENT" \in s.tra[AdjSp[i]] THEN s ELSE Ss7Check(NetMngSend(s, i, "TRA"))

NoteLia(s, i) ==
    TimedChangeover([s EXCEPT !.sent[i] = @ \ {"LIN"}, !.inhibit[i] = @ \cup {"LOCALLY"}], i)

RxLia(s, i) ==
    IF "LIN" \notin s.sent[i] THEN s
    ELSE Stop(Start(LiaRestarts(NoteLia(TimedChangeover(s, i), i), i), i, "t22"), i, "t14")

RxLua(s, i) ==
    IF "LUN" \notin s.sent[i] THEN s
    ELSE StopAll(Changeback([s EXCEPT !.sent[i] = @ \ {"LUN"},
                                      !.inhibit[i] = @ \ {"LOCALLY"}], i),
                 i, {"t12", "t22"})

\* Variant: the LIN that was denied is not forgotten.
RxLidKeepsLin(s, i) == Stop(s, i, "t14")

RxLid(s, i) == Stop([s EXCEPT !.sent[i] = @ \ {"LIN"}], i, "t14")
RxLlt(s, i) == IF "REMOTELY" \in s.inhibit[i] THEN s ELSE NetMngSend(s, i, "LFU")
RxLrt(s, i) == IF "LOCALLY" \in s.inhibit[i] THEN s ELSE NetMngSend(s, i, "LUN")

\* A TRA to an SP that is up restarts it; T19 protects it from another one.
NoteTra(s, sp) ==
    IF s.t19[sp] THEN s
    ELSE Check([s EXCEPT !.t19[sp] = "t19" \in Configured, !.t21[sp] = FALSE,
                         !.tra[sp] = @ \cup {"GOT"}], sp)

RxTra(s, sp) ==
    NoteTra(IF ~s.t19[sp] /\ s.sp[sp] = "UP" THEN RestartPeer(s, sp) ELSE s, sp)

\* net_mng_receive; acked is how many of the messages waiting for an
\* acknowledgement the FSN in a COO or a COA acknowledges.  No other message is
\* known but the TFP and the TFA.
NetMngReceive(s, i, msg, acked) ==
    CASE msg = "COO" -> RxCoo(s, i, acked)   [] msg = "COA" -> RxCoa(s, i, acked)
      [] msg = "ECO" -> RxEco(s, i)          [] msg = "ECA" -> RxEca(s, i)
      [] msg = "CBD" -> RxCbd(s, i)          [] msg = "CBA" -> RxCba(s, i)
      [] msg = "LIN" -> RxLin(s, i)          [] msg = "LIA" -> RxLia(s, i)
      [] msg = "LUN" -> RxLun(s, i)          [] msg = "LUA" -> RxLua(s, i)
      [] msg = "LID" -> RxLid(s, i)          [] msg = "LFU" -> RxLfu(s, i)
      [] msg = "LLT" -> RxLlt(s, i)          [] msg = "LRT" -> RxLrt(s, i)
      [] msg = "TRA" -> RxTra(s, AdjSp[i])
      [] OTHER -> s

\* std_test_receive: SLTM, SLTA and an SLTA with another test pattern.
RxSltm(s, i) ==
    [s EXCEPT !.out = Append(@, [msg |-> "SLTA", sls |-> i, via |-> {i}]),
              !.linkstate[i] = "UP"]

RxSlta(s, i) ==
    LET n == [Stop(s, i, "q707_t1") EXCEPT !.failed[i] = 0, !.passed[i] = TRUE]
        c == NetMngSend(n, i, "CBD")
        d == IF c.changeover[i] = "CHANGEOVER_COMPLETED" THEN c ELSE CancelChangeover(c, i)
        back == /\ ~s.passed[i] /\ s.inhibit[i] = {}
                /\ s.changeover[i] \in {"CHANGEOVER_INITIATED", "CHANGEOVER_IN_PROGRESS",
                                        "CHANGEOVER_COMPLETED"}
    IN  InitPeer(IF back THEN [d EXCEPT !.changeover[i] = "CHANGEBACK_INITIATED"] ELSE n, i)

RxSltaMismatch(s, i) ==
    Start(LinkFailed([Stop(s, i, "q707_t1") EXCEPT !.failed[i] = 1], i), i, "q707_t2")

-------------------------------------------------------------------------------
(* Timers. *)

\* A timer variable is set to -1, whatever slot it named.
Forget(s, i, t) ==
    [s EXCEPT !.timer[i][t] = "off",
              !.orphan = IF s.timer[i][t] \in Callback
                         THEN @ \cup {<<i, t, s.timer[i][t]>>} ELSE @]

T1Expired(s, i) ==
    LET n == [Forget(s, i, "t1") EXCEPT !.changeover[i] = "CHANGEOVER_COMPLETED",
                                        !.co_buf[i] = <<>>]
    IN  FreeCo(Transmit(n, s.co_buf[i]), i)

\* Variant: the saved messages are freed before the queued ones are sent.
T2ExpiredFreeFirst(s, i) ==
    LET n == FreeCo([Forget(s, i, "t2") EXCEPT !.sent[i] = @ \ {"COO", "ECO"}], i)
        u == Transmit([n EXCEPT !.co_buf[i] = <<>>], n.co_tx_q[i] \o n.co_buf[i])
    IN  Check([u EXCEPT !.changeover[i] = "CHANGEOVER_COMPLETED"], AdjSp[i])

T2Expired(s, i) ==
    LET n == [Forget(s, i, "t2") EXCEPT !.sent[i] = @ \ {"COO", "ECO"},
                                        !.co_tx_q[i] = <<>>, !.co_buf[i] = <<>>]
        u == Transmit(n, s.co_tx_q[i] \o s.co_buf[i])
    IN  Check(FreeCo([u EXCEPT !.changeover[i] = "CHANGEOVER_COMPLETED"], i), AdjSp[i])

T3Expired(s, i) ==
    LET n == [Forget(s, i, "t3") EXCEPT !.changeover[i] = "NO_CHANGEOVER", !.cb_buf[i] = <<>>]
    IN  FreeCo(Ss7Check(Transmit(n, s.cb_buf[i])), i)

\* Variant: T5 is not started.
T4ExpiredLast(s, i) == Forget(NetMngSend(s, i, "CBD"), i, "t4")

T4Expired(s, i) ==
    Start(Forget(NetMngSend(s, i, "CBD"), i, "t4"), i, "t5")

T5Expired(s, i) ==
    T3Expired([Forget(s, i, "t5") EXCEPT !.sent[i] = @ \ {"CBD"}], i)

T12Expired2nd(s, i) == [Forget(s, i, "t12") EXCEPT !.sent[i] = @ \ {"LUN"}]

T14Expired2nd(s, i) ==
    [Forget(s, i, "t14") EXCEPT !.sent[i] = @ \ {"LIN"}, !.inhibit[i] = @ \ {"LOCALLY"}]

T22Expired(s, i) ==
    IF "LOCALLY" \in s.inhibit[i]
    THEN Schedule(NetMngSend(s, i, "LLT"), i, "t22", "1st") ELSE Forget(s, i, "t22")

\* Variant: the test is made once.
T23ExpiredOnce(s, i) ==
    LET n == Forget(s, i, "t23")
    IN  IF "REMOTELY" \in s.inhibit[i] THEN NetMngSend(n, i, "LRT") ELSE n

T23Expired(s, i) ==
    IF "REMOTELY" \in s.inhibit[i]
    THEN Schedule(NetMngSend(s, i, "LRT"), i, "t23", "1st") ELSE Forget(s, i, "t23")

\* The second time the link is taken to have failed.
Q707T1Expired(s, i) ==
    LET n == Forget(s, i, "q707_t1")
    IN  StdTestSend(IF s.failed[i] = 0 THEN [n EXCEPT !.failed[i] = 1]
                    ELSE EventLinkDown(Stop([n EXCEPT !.failed[i] = 0], i, "q707_t2"), i), i)

Q707T2Expired(s, i) == Schedule(StdTestSend(s, i), i, "q707_t2", "1st")

\* The callback of timer t; a first expiry of T12, T13 or T14 leaves it to
\* net_mng_send to start the timer again.
Expired(s, i, t, callback) ==
    CASE t = "t1" -> T1Expired(s, i)   [] t = "t2" -> T2Expired(s, i)
      [] t = "t3" -> T3Expired(s, i)   [] t = "t4" -> T4Expired(s, i)
      [] t = "t5" -> T5Expired(s, i)
      [] t = "t12" /\ callback = "1st" -> NetMngSend(s, i, "LUN")
      [] t = "t13" /\ callback = "1st" -> NetMngSend(s, i, "LFU")
      [] t = "t14" /\ callback = "1st" -> NetMngSend(s, i, "LIN")
      [] t = "t12" /\ callback = "2nd" -> T12Expired2nd(s, i)
      [] t = "t13" /\ callback = "2nd" -> Forget(s, i, "t13")
      [] t = "t14" /\ callback = "2nd" -> T14Expired2nd(s, i)
      [] t = "t22" -> T22Expired(s, i) [] t = "t23" -> T23Expired(s, i)
      [] t = "q707_t1" -> Q707T1Expired(s, i)
      [] t = "q707_t2" -> Q707T2Expired(s, i)

T21Expired(s, sp) ==
    Check([s EXCEPT !.t21[sp] = FALSE, !.tra[sp] = @ \cup {"GOT"}], sp)

LinksetUpExpired(s) == PostEvent([s EXCEPT !.linkset_up = FALSE], [e |-> "UP"])

-------------------------------------------------------------------------------
(* What the application does, and what MTP3 makes of MTP2's events. *)

\* mtp3_alarm and mtp3_noalarm; mtp2_start flushes MTP2's buffers.
Alarm(s, i) == Ss7Check(LinkFailed([s EXCEPT !.linkstate[i] = "INALARM"], i))

NoAlarm(s, i) ==
    [s EXCEPT !.linkstate[i] = "ALIGNING", !.tx_q[i] = <<>>, !.tx_buf[i] = <<>>]

\* mtp3_net_mng
NetMngCommand(s, i, msg) ==
    IF msg = "LIN" /\ ~MayInhibit(s, i) THEN s ELSE NetMngSend(s, i, msg)

\* mtp3_process_event
ProcessEvent(s, e) ==
    CASE e.e = "LINK_UP"   -> EventLinkUp(s, e.link)
      [] e.e = "LINK_DOWN" -> EventLinkDown(s, e.link)
      [] OTHER -> s
===============================================================================
