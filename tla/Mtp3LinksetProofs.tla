-------------------------- MODULE Mtp3LinksetProofs --------------------------
(***************************************************************************)
(* Mtp3Linkset for any number of links, adjacent signalling points and     *)
(* messages, any timers and any peers: what the application is told of the *)
(* linkset is right, through failures, restarts and a full event queue.    *)
(*                                                                         *)
(* First what the functions of mtp3.c do to the part of a signalling point *)
(* that the application sees: which of its links have passed their test,   *)
(* the adjacent SPs and their restarts, the linkset's state and the        *)
(* events.  Most functions leave this core alone; the few that change it   *)
(* keep the states of the adjacent SPs and of the linkset together.  Then  *)
(* what they do to the timers of inhibited links, with the theorems of     *)
(* these two.  The last part is about the timers of changeover and         *)
(* changeback and the states of links they belong to.                      *)
(***************************************************************************)
EXTENDS Mtp3Linkset, SequenceTheorems, WellFoundedInduction, TLAPS

Core == {"passed", "sp", "tra", "t21", "state", "linkset_up", "ev", "evrefused",
         "orphan", "route"}

Whole(s) == Core \subseteq DOMAIN s

\* What can be scheduled without a variable that has its number.
Slots == Link \X LinkTimer \X Callback

\* Every route's T6 and T10 run when they should, and nothing waits without T6.
RouteField == {"state", "t6", "t10", "q"}
RouteRuns(r) ==
    /\ RouteField \subseteq DOMAIN r
    /\ r.t10 = (r.state = "TFP" /\ "t10" \in Configured)
    /\ r.t6 = (r.state = "TFA")
    /\ r.q # <<>> => r.t6
Routed(route) ==
    /\ DOMAIN route = Sp /\ \A sp \in Sp : DOMAIN route[sp] = Dest
    /\ \A sp \in Sp, d \in Dest : RouteRuns(route[sp][d])

LEMMA ProhibitedRuns ==
    RouteRuns([state |-> "TFP", t6 |-> FALSE, t10 |-> "t10" \in Configured, q |-> <<>>])
<1> DEFINE r == [state |-> "TFP", t6 |-> FALSE, t10 |-> "t10" \in Configured, q |-> <<>>]
<1>1. r.state = "TFP" /\ r.t6 = FALSE /\ r.q = <<>> /\ RouteField \subseteq DOMAIN r
  BY DEF RouteField
<1>2. r.t10 = ("t10" \in Configured) OBVIOUS
<1>3. (r.state = "TFP" /\ "t10" \in Configured) = ("t10" \in Configured) BY <1>1
<1> HIDE DEF r
<1>4. r.t10 = (r.state = "TFP" /\ "t10" \in Configured) BY Zenon, <1>2, <1>3
<1>5. (r.state = "TFA") = FALSE BY <1>1
<1>6. RouteRuns(r) BY <1>1, <1>4, <1>5 DEF RouteRuns
<1>q. QED BY <1>6 DEF r

LEMMA NoRouteRuns == RouteRuns(NoRoute)
BY DEF RouteRuns, RouteField, NoRoute

\* A function that leaves the core alone, but for a timer that it overwrites and
\* messages that wait for T6.
Same(s, n) ==
    /\ Whole(n)
    /\ n.passed = s.passed /\ n.sp = s.sp /\ n.tra = s.tra /\ n.t21 = s.t21
    /\ n.state = s.state /\ n.linkset_up = s.linkset_up
    /\ n.ev = s.ev /\ n.evrefused = s.evrefused
    /\ n.orphan \subseteq (s.orphan \cup Slots)
    /\ Routed(s.route) => Routed(n.route)

LEMMA SameItself ==
    ASSUME NEW s, Whole(s)
    PROVE  Same(s, s)
BY DEF Same

LEMMA SameTransitive ==
    ASSUME NEW s, NEW n, NEW m, Same(s, n), Same(n, m)
    PROVE  Same(s, m)
BY DEF Same

\* The first of a set of links is one of them.
LEMMA FirstExists ==
    ASSUME NEW S, S \subseteq Link, S # {}
    PROVE  First(S) \in S
<1> DEFINE R == {p \in Nat \X Nat : p[1] < p[2]}
<1>1. IsWellFoundedOn(R, Nat)
  <2>1. OpToRel(<, Nat) = R BY DEF OpToRel
  <2>q. QED BY <2>1, NatLessThanWellFounded
<1>2. S \subseteq Nat BY NumLinksAssumption DEF Link
<1> HIDE DEF R
<1>3. PICK i \in S : \A j \in S : ~ (<<j, i>> \in R) BY <1>1, <1>2, WFMin
<1>4. ASSUME NEW j \in S PROVE i <= j
  <2>1. i \in Nat /\ j \in Nat /\ <<j, i>> \notin R BY <1>2, <1>3
  <2>2. <<j, i>>[1] = j /\ <<j, i>>[2] = i OBVIOUS
  <2>q. QED BY <2>1, <2>2 DEF R
<1>q. QED BY <1>4 DEF First

-------------------------------------------------------------------------------
(* Functions that leave the core alone. *)

\* Timers.
LEMMA TimersKnown ==
    /\ "t1" \in LinkTimer /\ "t2" \in LinkTimer /\ "t3" \in LinkTimer /\ "t4" \in LinkTimer
    /\ "t5" \in LinkTimer /\ "t12" \in LinkTimer /\ "t13" \in LinkTimer
    /\ "t14" \in LinkTimer /\ "t22" \in LinkTimer /\ "t23" \in LinkTimer
    /\ "q707_t1" \in LinkTimer /\ "q707_t2" \in LinkTimer
BY DEF LinkTimer, CoCbTimer, OtherTimer

LEMMA StopAllSame ==
    ASSUME NEW s, Whole(s), NEW i, NEW T
    PROVE  Same(s, StopAll(s, i, T))
BY DEF StopAll, Same, Whole, Core

LEMMA TimersSame ==
    ASSUME NEW s, Whole(s), NEW i \in Link, NEW t \in LinkTimer, NEW c
    PROVE  /\ Same(s, Stop(s, i, t))
           /\ Same(s, Schedule(s, i, t, c)) /\ Same(s, Start(s, i, t))
           /\ Same(s, Restart(s, i, t)) /\ Same(s, ScheduleNext(s, i, t))
           /\ Same(s, Forget(s, i, t))
<1> USE DEF Same, Whole, Core
<1>1. Same(s, Stop(s, i, t)) BY DEF Stop
<1>2. \A n, k : Whole(n) => Same(n, Schedule(n, i, t, k))
  <2> SUFFICES ASSUME NEW n, NEW k, Whole(n) PROVE Same(n, Schedule(n, i, t, k))
    OBVIOUS
  <2>1. n.timer[i][t] \in Callback => <<i, t, n.timer[i][t]>> \in Slots BY DEF Slots
  <2>q. QED BY <2>1 DEF Schedule
<1>3. Same(s, Forget(s, i, t))
  <2>1. s.timer[i][t] \in Callback => <<i, t, s.timer[i][t]>> \in Slots BY DEF Slots
  <2>q. QED BY <2>1 DEF Forget
<1> HIDE DEF Same, Whole, Core
<1>4. Whole(Stop(s, i, t)) BY <1>1 DEF Same
<1>5. Same(s, Restart(s, i, t)) BY <1>1, <1>2, <1>4, SameTransitive DEF Restart
<1>q. QED BY <1>1, <1>2, <1>3, <1>5, SameItself DEF Start, ScheduleNext

\* The same core but for the routes.
Besides(s, n) ==
    /\ Whole(n) /\ n.passed = s.passed /\ n.sp = s.sp /\ n.tra = s.tra
    /\ n.t21 = s.t21 /\ n.state = s.state /\ n.linkset_up = s.linkset_up
    /\ n.ev = s.ev /\ n.evrefused = s.evrefused /\ n.orphan = s.orphan

LEMMA BesidesSame ==
    ASSUME NEW s, NEW n, Besides(s, n), Routed(s.route) => Routed(n.route)
    PROVE  Same(s, n)
BY DEF Besides, Same

\* Sending messages changes the routes' queues and nothing else of the core.
WithHeld(s, msgs) ==
    [sp \in Sp |-> [d \in Dest |-> [s.route[sp][d] EXCEPT !.q = @ \o HeldFor(s, msgs, sp, d)]]]

LEMMA TransmitCore ==
    ASSUME NEW s, Whole(s), NEW msgs, msgs # <<>>
    PROVE  /\ Besides(s, Transmit(s, msgs))
           /\ Transmit(s, msgs).route = WithHeld(s, msgs)
<1> DEFINE tx_q == [i \in Link |-> s.tx_q[i] \o Taken(s, msgs, i, "tx_q")]
           co_buf == [i \in Link |-> s.co_buf[i] \o Taken(s, msgs, i, "co_buf")]
           cb_buf == [i \in Link |-> s.cb_buf[i] \o Taken(s, msgs, i, "cb_buf")]
           route == WithHeld(s, msgs)
           n == [s EXCEPT !.tx_q = tx_q, !.co_buf = co_buf, !.cb_buf = cb_buf,
                          !.route = route]
<1>1. Transmit(s, msgs) = n BY DEF Transmit, WithHeld
<1> HIDE DEF tx_q, co_buf, cb_buf, route
<1>2. Besides(s, n) /\ n.route = route BY DEF Whole, Core, Besides
<1> HIDE DEF n
<1>q. QED BY <1>1, <1>2 DEF route

\* Only a message whose destination's T6 is running waits for it.
LEMMA HeldRuns ==
    ASSUME NEW s, NEW msgs, NEW sp \in Sp, NEW d \in Dest, RouteRuns(s.route[sp][d])
    PROVE  /\ RouteRuns(WithHeld(s, msgs)[sp][d])
           /\ WithHeld(s, msgs)[sp][d].state = s.route[sp][d].state
<1> DEFINE r == s.route[sp][d]
           h == HeldFor(s, msgs, sp, d)
           n == [r EXCEPT !.q = @ \o h]
<1>1. RouteRuns(r) OBVIOUS
<1>2. ~r.t6 => h = <<>> BY DEF HeldFor
<1>3. WithHeld(s, msgs)[sp][d] = n BY DEF WithHeld
<1> HIDE DEF r, h
<1>4. ~r.t6 => r.q = <<>> BY <1>1 DEF RouteRuns
<1>5. <<>> \o <<>> = <<>> OBVIOUS
<1>6. /\ n.state = r.state /\ n.t6 = r.t6 /\ n.t10 = r.t10 /\ n.q = r.q \o h
      /\ DOMAIN n = DOMAIN r
  BY <1>1 DEF RouteRuns, RouteField
<1> HIDE DEF n
<1>7. RouteRuns(n) BY <1>1, <1>2, <1>4, <1>5, <1>6 DEF RouteRuns
<1>q. QED BY <1>3, <1>6, <1>7 DEF r

LEMMA WithHeldRouted ==
    ASSUME NEW s, NEW msgs, Routed(s.route)
    PROVE  Routed(WithHeld(s, msgs))
<1>1. \A sp \in Sp, d \in Dest : RouteRuns(WithHeld(s, msgs)[sp][d])
  BY HeldRuns DEF Routed
<1>2. /\ DOMAIN WithHeld(s, msgs) = Sp
      /\ \A sp \in Sp : DOMAIN WithHeld(s, msgs)[sp] = Dest
  BY DEF WithHeld
<1>q. QED BY <1>1, <1>2 DEF Routed

\* User messages.
LEMMA BuffersSame ==
    ASSUME NEW s, Whole(s), NEW i \in Link
    PROVE  /\ \A msgs : Same(s, Transmit(s, msgs))
           /\ Same(s, FreeCo(s, i)) /\ Same(s, SaveBuffers(s, i))
<1>1. ASSUME NEW msgs PROVE Same(s, Transmit(s, msgs))
  <2> DEFINE n == Transmit(s, msgs)
  <2>1. CASE msgs = <<>> BY <2>1, SameItself DEF Transmit
  <2>2. CASE msgs # <<>>
    <3>1. Besides(s, n) BY <2>2, TransmitCore
    <3>2. Routed(s.route) => Routed(n.route) BY <2>2, TransmitCore, WithHeldRouted
    <3>q. QED BY <3>1, <3>2, BesidesSame
  <2>q. QED BY <2>1, <2>2
<1> USE DEF Same, Whole, Core
<1>2. Same(s, FreeCo(s, i)) BY DEF FreeCo
<1>3. Same(s, SaveBuffers(s, i)) BY DEF SaveBuffers
<1>q. QED BY <1>1, <1>2, <1>3

LEMMA ChangeoverSame ==
    ASSUME NEW s, Whole(s), NEW i \in Link
    PROVE  /\ Same(s, DropChangeback(s, i)) /\ Same(s, StartTimedChangeover(s, i))
           /\ Same(s, CancelChangeover(s, i))
<1>1. Same(s, DropChangeback(s, i))
  <2> DEFINE n == [s EXCEPT !.co_buf[i] = @ \o s.cb_buf[i], !.cb_buf[i] = <<>>,
                            !.changeover[i] = "NO_CHANGEOVER"]
  <2>1. Same(s, n) BY DEF Same, Whole, Core
  <2>2. DropChangeback(s, i) = StopAll(n, i, {"t3", "t4", "t5"}) BY DEF DropChangeback
  <2> HIDE DEF n
  <2>3. Whole(n) BY <2>1 DEF Same
  <2>4. Same(n, StopAll(n, i, {"t3", "t4", "t5"})) BY <2>3, StopAllSame
  <2>q. QED BY <2>1, <2>2, <2>4, SameTransitive
<1>2. Same(s, StartTimedChangeover(s, i))
  <2> DEFINE n == [s EXCEPT !.changeover[i] = "CHANGEOVER_IN_PROGRESS",
                            !.co_buf[i] = @ \o s.tx_q[i], !.tx_q[i] = <<>>]
  <2>1. Same(s, n) BY DEF Same, Whole, Core
  <2>2. StartTimedChangeover(s, i) \in {s, FreeCo(Restart(n, i, "t1"), i)}
    BY DEF StartTimedChangeover
  <2> HIDE DEF n
  <2>3. Whole(n) BY <2>1 DEF Same
  <2>4. Same(n, Restart(n, i, "t1")) BY <2>3, TimersSame, TimersKnown
  <2>5. Same(s, Restart(n, i, "t1")) BY <2>1, <2>4, SameTransitive
  <2>6. Whole(Restart(n, i, "t1")) BY <2>5 DEF Same
  <2>7. Same(s, FreeCo(Restart(n, i, "t1"), i)) BY <2>5, <2>6, BuffersSame, SameTransitive
  <2>q. QED BY <2>2, <2>7, SameItself
<1>3. Same(s, CancelChangeover(s, i))
  <2> DEFINE n == StopAll(s, i, {"t1", "t2"})
             m == [n EXCEPT !.sent[i] = @ \ {"COO", "ECO"},
                            !.cb_buf[i] = @ \o s.co_tx_q[i] \o s.co_buf[i],
                            !.co_buf[i] = <<>>,
                            !.changeover[i] = "NO_CHANGEOVER"]
  <2>1. Same(s, n) BY StopAllSame
  <2> HIDE DEF n
  <2>2. Same(n, m) BY <2>1 DEF Same, Whole, Core
  <2>3. Whole(m) BY <2>2 DEF Same
  <2>4. CancelChangeover(s, i) = FreeCo(m, i) BY DEF CancelChangeover, n
  <2> HIDE DEF m
  <2>q. QED BY <2>1, <2>2, <2>4, <2>3, BuffersSame, SameTransitive
<1>q. QED BY <1>1, <1>2, <1>3

\* net_mng_send of anything but a TRA, whether there is a link for it or not.
LEMMA NoteSentSame ==
    ASSUME NEW s, Whole(s), NEW i \in Link, NEW msg, msg # "TRA"
    PROVE  Same(s, NoteSent(s, i, msg))
<1> DEFINE n == IF msg \in SentMsg THEN [s EXCEPT !.sent[i] = @ \cup {msg}] ELSE s
<1>1. Same(s, n) BY DEF Same, Whole, Core
<1> HIDE DEF n
<1>2. Whole(n) BY <1>1 DEF Same
<1>3. \A t \in LinkTimer : Same(n, Stop(n, i, t)) BY <1>2, TimersSame, TimersKnown
<1>4. Same(n, Schedule(Stop(n, i, "t2"), i, "t2", "1st"))
  <2>1. Whole(Stop(n, i, "t2")) BY <1>3, TimersKnown DEF Same
  <2>2. \A m : Whole(m) => Same(m, Schedule(m, i, "t2", "1st")) BY TimersSame, TimersKnown
  <2>q. QED BY <1>3, <2>1, <2>2, TimersKnown, SameTransitive
<1>5. /\ Same(n, n) /\ Same(n, Schedule(n, i, "t4", "1st")) /\ Same(n, Restart(n, i, "t2"))
      /\ \A t \in LinkTimer : Same(n, ScheduleNext(n, i, t))
  BY <1>2, TimersSame, TimersKnown, SameItself
<1>6. Same(n, NoteSent(s, i, msg)) BY <1>4, <1>5, TimersKnown DEF NoteSent, n
<1>q. QED BY <1>1, <1>6, SameTransitive

LEMMA HandOverSame ==
    ASSUME NEW s, Whole(s), NEW i \in Link, NEW msg
    PROVE  Same(s, HandOver(s, i, msg))
<1>1. Same(s, SendFailed(s, i))
  <2> DEFINE a == [s EXCEPT !.sent[i] = @ \ {"COO", "ECO"}]
             n == Stop(a, i, "t2")
             d == DropChangeback(n, i)
             c == [s EXCEPT !.sent[i] = @ \ {"CBD"}]
  <2>1. Same(s, a) /\ Same(s, c) BY DEF Same, Whole, Core
  <2> HIDE DEF a, c
  <2>2. Whole(a) BY <2>1 DEF Same
  <2>3. Same(a, n) BY <2>2, TimersSame, TimersKnown
  <2>4. Same(s, n) BY <2>1, <2>3, SameTransitive
  <2> HIDE DEF n
  <2>5. Same(s, d)
    <3>1. Whole(n) BY <2>4 DEF Same
    <3>2. Same(n, d) BY <3>1, ChangeoverSame
    <3>q. QED BY <2>4, <3>2, SameTransitive
  <2> HIDE DEF d
  <2>6. Same(s, StartTimedChangeover(d, i)) /\ Same(s, StartTimedChangeover(n, i))
    <3>1. Whole(d) /\ Whole(n) BY <2>4, <2>5 DEF Same
    <3>q. QED BY <2>4, <2>5, <3>1, ChangeoverSame, SameTransitive
  <2>7. Same(s, DropChangeback(c, i))
    <3>1. Whole(c) BY <2>1 DEF Same
    <3>2. Same(c, DropChangeback(c, i)) BY <3>1, ChangeoverSame
    <3>q. QED BY <2>1, <3>2, SameTransitive
  <2>8. SendFailed(s, i) \in {StartTimedChangeover(d, i), StartTimedChangeover(n, i),
                              DropChangeback(c, i), s}
    BY DEF SendFailed, d, n, a, c
  <2>q. QED BY <2>6, <2>7, <2>8, SameItself
<1>2. Same(s, [s EXCEPT !.out = Append(@, [msg |-> msg, sls |-> i, via |-> Via(s, i)])])
  BY DEF Same, Whole, Core
<1>q. QED BY <1>1, <1>2 DEF HandOver

LEMMA SendSame ==
    ASSUME NEW s, Whole(s), NEW i \in Link, NEW msg, msg # "TRA"
    PROVE  Same(s, NetMngSend(s, i, msg))
<1>1. Same(s, NoteSent(s, i, msg)) BY NoteSentSame
<1>q. QED BY <1>1, HandOverSame, SameTransitive DEF NetMngSend, Same

LEMMA TestSendSame ==
    ASSUME NEW s, Whole(s), NEW i \in Link
    PROVE  Same(s, StdTestSend(s, i)) /\ Same(s, EventLinkUp(s, i))
<1> DEFINE n == [s EXCEPT !.out = Append(@, [msg |-> "SLTM", sls |-> i, via |-> {i}])]
           m == StdTestSend(s, i)
<1>1. Same(s, n) BY DEF Same, Whole, Core
<1>2. m \in {n, Restart(n, i, "q707_t1")} BY DEF StdTestSend
<1> HIDE DEF n, m
<1>3. Whole(n) BY <1>1 DEF Same
<1>4. Same(n, n) /\ Same(n, Restart(n, i, "q707_t1")) BY <1>3, TimersSame, TimersKnown, SameItself
<1>5. Same(s, m) BY <1>1, <1>2, <1>4, SameTransitive
<1>6. EventLinkUp(s, i) \in {m, Restart(m, i, "q707_t2")} BY DEF EventLinkUp, m
<1>7. Whole(m) BY <1>5 DEF Same
<1>8. Same(m, Restart(m, i, "q707_t2")) BY <1>7, TimersSame, TimersKnown
<1>9. Same(s, Restart(m, i, "q707_t2")) BY <1>5, <1>8, SameTransitive
<1>q. QED BY <1>5, <1>6, <1>9 DEF m

\* The requests to uninhibit.
LEMMA UninhibitSame ==
    ASSUME NEW s, Whole(s)
    PROVE  Same(s, Uninhibit(s))
<1>1. \A n, end, msg : Whole(n) /\ msg # "TRA" => Same(n, Request(n, end, msg))
  <2> TAKE n, end, msg
  <2>1. InhibitedBy(n, end) # {} => First(InhibitedBy(n, end)) \in Link
    BY FirstExists DEF InhibitedBy
  <2>q. QED BY <2>1, SendSame, SameItself DEF Request
<1>2. Same(s, Request(s, "LOCALLY", "LUN")) BY <1>1
<1>3. Same(s, Request(Request(s, "LOCALLY", "LUN"), "REMOTELY", "LFU"))
  <2>1. Whole(Request(s, "LOCALLY", "LUN")) BY <1>2 DEF Same
  <2>q. QED BY <1>1, <1>2, <2>1, SameTransitive
<1>q. QED BY <1>2, <1>3 DEF Uninhibit

-------------------------------------------------------------------------------
(* What holds of the core.  heard is the last UP or DOWN event that the         *)
(* application was handed.                                                     *)

\* With the events that it has yet to read the application knows v.
Says(ev, heard, v) ==
    \/ v = heard /\ \A k \in DOMAIN ev : ev[k].e \notin {"UP", "DOWN"}
    \/ \E k \in DOMAIN ev :
          /\ v = ev[k].e /\ ev[k].e \in {"UP", "DOWN"}
          /\ \A j \in DOMAIN ev : j > k => ev[j].e \notin {"UP", "DOWN"}

Typed(s) ==
    /\ Whole(s)
    /\ s.passed \in [Link -> BOOLEAN]
    /\ s.sp \in [Sp -> {"DOWN", "UP"}]
    /\ s.tra \in [Sp -> SUBSET {"GOT", "SENT"}]
    /\ s.t21 \in [Sp -> BOOLEAN]
    /\ s.state \in {"DOWN", "UP"}
    /\ s.linkset_up \in BOOLEAN
    /\ s.ev \in Seq(LinkEvent \cup AppEvent)
    /\ s.evrefused \in BOOLEAN
    /\ s.orphan \subseteq Slots
    /\ Routed(s.route)

\* An adjacent SP that is up has finished its restart and, unless it is one of
\* those in X, has a link.
Backed(s, X) == \A sp \in Sp : s.sp[sp] = "UP" =>
    s.tra[sp] = {"GOT", "SENT"} /\ (sp \notin X => Reachable(s, sp) # {})

Timed(s) == "t21" \in Configured => \A sp \in Sp : s.tra[sp] = {"SENT"} => s.t21[sp]

Truthful(s, heard) ==
    /\ s.linkset_up => s.state = "UP"
    /\ s.evrefused \/ Says(s.ev, heard, IF s.linkset_up THEN "DOWN" ELSE s.state)

Follows(s) == (s.state = "UP") <=> SpUp(s)

\* Before ss7_check, and after it.
Sound(s, heard, X) == Typed(s) /\ Backed(s, X) /\ Timed(s) /\ Truthful(s, heard)
Good(s, heard)     == Sound(s, heard, {}) /\ Follows(s)

LEMMA SameSound ==
    ASSUME NEW s, NEW n, Same(s, n), NEW heard
    PROVE  /\ \A X : Sound(s, heard, X) => Sound(n, heard, X)
           /\ Good(s, heard) => Good(n, heard)
           /\ Follows(s) => Follows(n)
           /\ Typed(s) => Typed(n)
<1>1. Typed(s) => Typed(n) BY DEF Typed, Same
<1>2. /\ \A sp : Reachable(n, sp) = Reachable(s, sp)
      /\ n.sp = s.sp /\ n.tra = s.tra /\ n.t21 = s.t21
      /\ SpUp(n) = SpUp(s)
  BY DEF Same, Reachable, PassedLinks, SpUp
<1>3. \A X : Backed(s, X) => Backed(n, X) BY <1>2 DEF Backed
<1>4. Timed(s) => Timed(n) BY <1>2 DEF Timed
<1>5. Truthful(s, heard) => Truthful(n, heard) BY DEF Truthful, Same
<1>6. Follows(s) => Follows(n) BY <1>2 DEF Follows, Same
<1>q. QED BY <1>1, <1>3, <1>4, <1>5, <1>6 DEF Sound, Good

LEMMA WholeOf ==
    ASSUME NEW s, NEW heard
    PROVE  /\ \A X : Sound(s, heard, X) => Whole(s)
           /\ Good(s, heard) => Whole(s)
           /\ Good(s, heard) => \A X : Sound(s, heard, X)
BY DEF Sound, Good, Typed, Backed

\* An event is appended, or the first one is handed over.
LEMMA SaysAppend ==
    ASSUME NEW ev \in Seq(LinkEvent \cup AppEvent), NEW e \in LinkEvent \cup AppEvent,
           NEW heard, NEW v
    PROVE  /\ e \in LinkEvent /\ Says(ev, heard, v) => Says(Append(ev, e), heard, v)
           /\ e \in AppEvent => Says(Append(ev, e), heard, e.e)
<1>1. /\ DOMAIN ev = 1 .. Len(ev) /\ Len(ev) \in Nat
      /\ DOMAIN Append(ev, e) = 1 .. Len(ev) + 1
      /\ \A k \in 1 .. Len(ev) : Append(ev, e)[k] = ev[k]
      /\ Append(ev, e)[Len(ev) + 1] = e
  BY AppendProperties, LenProperties
<1>2. /\ e \in LinkEvent => e.e \notin {"UP", "DOWN"}
      /\ e \in AppEvent => e.e \in {"UP", "DOWN"}
  BY DEF LinkEvent, AppEvent
<1>3. ASSUME e \in LinkEvent, Says(ev, heard, v) PROVE Says(Append(ev, e), heard, v)
  BY <1>1, <1>2, <1>3 DEF Says
<1>4. ASSUME e \in AppEvent PROVE Says(Append(ev, e), heard, e.e)
  BY <1>1, <1>2, <1>4 DEF Says
<1>q. QED BY <1>3, <1>4

LEMMA SaysTail ==
    ASSUME NEW ev \in Seq(LinkEvent \cup AppEvent), ev # <<>>, NEW heard, NEW v,
           Says(ev, heard, v)
    PROVE  Says(Tail(ev), IF Head(ev).e \in {"UP", "DOWN"} THEN Head(ev).e ELSE heard, v)
<1>1. /\ DOMAIN ev = 1 .. Len(ev) /\ Len(ev) \in Nat \ {0} /\ Head(ev) = ev[1]
      /\ DOMAIN Tail(ev) = 1 .. Len(ev) - 1
      /\ \A k \in 1 .. Len(ev) - 1 : Tail(ev)[k] = ev[k + 1]
  BY HeadTailProperties, LenProperties, EmptySeq
<1>2. CASE \A k \in DOMAIN ev : ev[k].e \notin {"UP", "DOWN"}
  BY <1>1, <1>2 DEF Says
<1>3. CASE \E k \in DOMAIN ev :
              /\ v = ev[k].e /\ ev[k].e \in {"UP", "DOWN"}
              /\ \A j \in DOMAIN ev : j > k => ev[j].e \notin {"UP", "DOWN"}
  <2>1. PICK k \in DOMAIN ev :
              /\ v = ev[k].e /\ ev[k].e \in {"UP", "DOWN"}
              /\ \A j \in DOMAIN ev : j > k => ev[j].e \notin {"UP", "DOWN"}
    BY <1>3
  <2>2. CASE k = 1
    <3>1. \A j \in DOMAIN Tail(ev) : Tail(ev)[j].e \notin {"UP", "DOWN"}
      BY <1>1, <2>1, <2>2
    <3>q. QED BY <1>1, <2>1, <2>2, <3>1 DEF Says
  <2>3. CASE k # 1
    <3>1. k - 1 \in DOMAIN Tail(ev) /\ Tail(ev)[k - 1] = ev[k] BY <1>1, <2>3
    <3>2. \A j \in DOMAIN Tail(ev) : j > k - 1 => Tail(ev)[j].e \notin {"UP", "DOWN"}
      BY <1>1, <2>1
    <3>q. QED BY <2>1, <3>1, <3>2 DEF Says
  <2>q. QED BY <2>2, <2>3
<1>q. QED BY <1>2, <1>3 DEF Says

\* The only places where the state of the linkset changes, and the events that
\* tell the application so.
LEMMA PostedTyped ==
    ASSUME NEW s, Typed(s), NEW e \in LinkEvent \cup AppEvent
    PROVE  Typed(PostEvent(s, e))
<1>1. Append(s.ev, e) \in Seq(LinkEvent \cup AppEvent) BY AppendProperties DEF Typed
<1>q. QED BY <1>1 DEF PostEvent, Typed, Whole, Core

LEMMA LinksetDownGood ==
    ASSUME NEW s, NEW heard, Sound(s, heard, {}), ~SpUp(s), s.state = "UP"
    PROVE  Good(LinksetDown(s), heard)
<1> DEFINE d == [s EXCEPT !.state = "DOWN"]
           e == [e |-> "DOWN"]
           p == PostEvent(d, e)
           c == [p EXCEPT
                 !.changeover = [i \in Link |-> IF "LOCALLY" \in d.inhibit[i]
                                                THEN "CHANGEOVER_COMPLETED"
                                                ELSE "NO_CHANGEOVER"],
                 !.co_tx_buf  = [i \in Link |-> <<>>],
                 !.co_tx_q    = [i \in Link |-> <<>>],
                 !.timer      = [i \in Link |-> [t \in LinkTimer |-> "off"]]]
<1>1. e \in AppEvent /\ e.e = "DOWN" BY DEF AppEvent
<1>2. Typed(s) /\ Whole(s) BY DEF Sound, Typed
<1>3. Typed(d) BY <1>2 DEF Typed, Whole, Core
<1>4. Typed(p) BY <1>1, <1>3, PostedTyped
<1>5. /\ p.passed = s.passed /\ p.sp = s.sp /\ p.tra = s.tra /\ p.t21 = s.t21
      /\ p.state = "DOWN" /\ p.linkset_up = s.linkset_up
      /\ \/ EventRoom(d) /\ p.ev = Append(s.ev, e)
         \/ ~EventRoom(d) /\ p.evrefused
  BY <1>2 DEF PostEvent, Whole, Core
<1>6. Says(Append(s.ev, e), heard, "DOWN")
  BY <1>1, <1>2, SaysAppend DEF Typed
<1>7. ASSUME s.linkset_up PROVE Good(LinksetDown(s), heard)
  <2> DEFINE m == [d EXCEPT !.linkset_up = FALSE]
  <2>1. LinksetDown(s) = m BY <1>2, <1>7 DEF LinksetDown, Whole, Core
  <2>2. Typed(m) BY <1>3 DEF Typed, Whole, Core
  <2>3. /\ m.passed = s.passed /\ m.sp = s.sp /\ m.tra = s.tra /\ m.t21 = s.t21
        /\ m.state = "DOWN" /\ m.linkset_up = FALSE /\ m.ev = s.ev
        /\ m.evrefused = s.evrefused
    BY <1>2 DEF Whole, Core
  <2> HIDE DEF m
  <2>4. SpUp(m) = SpUp(s) /\ \A sp : Reachable(m, sp) = Reachable(s, sp)
    BY <2>3 DEF SpUp, Reachable, PassedLinks
  <2>5. Truthful(m, heard) BY <1>7, <2>3 DEF Truthful, Sound
  <2>6. Backed(m, {}) /\ Timed(m) BY <2>3, <2>4 DEF Backed, Timed, Sound
  <2>q. QED BY <2>1, <2>2, <2>3, <2>4, <2>5, <2>6 DEF Good, Sound, Follows
<1>8. ASSUME ~s.linkset_up PROVE Good(p, heard)
  <2> HIDE DEF p
  <2>1. SpUp(p) = SpUp(s) /\ \A sp : Reachable(p, sp) = Reachable(s, sp)
    BY <1>5 DEF SpUp, Reachable, PassedLinks
  <2>2. Truthful(p, heard) BY <1>5, <1>6, <1>8 DEF Truthful, Sound
  <2>3. Backed(p, {}) /\ Timed(p) BY <1>5, <2>1 DEF Backed, Timed, Sound
  <2>q. QED BY <1>4, <1>5, <2>1, <2>2, <2>3 DEF Good, Sound, Follows
<1>9. ASSUME ~s.linkset_up PROVE LinksetDown(s) \in {p, c}
  BY <1>2, <1>9 DEF LinksetDown, Whole, Core
<1>10. Same(p, c)
  <2> HIDE DEF p
  <2>1. Whole(p) BY <1>4 DEF Typed
  <2>q. QED BY <2>1 DEF Same, Whole, Core
<1> HIDE DEF p, c
<1>q. QED BY <1>7, <1>8, <1>9, <1>10, SameSound

LEMMA LinksetFollowsGood ==
    ASSUME NEW s, NEW heard, Sound(s, heard, {})
    PROVE  Good(LinksetFollows(s), heard)
<1>1. ASSUME SpUp(s), s.state = "DOWN" PROVE Good(LinksetUp(s), heard)
  <2> DEFINE m == LinksetUp(s)
  <2>1. Whole(s) /\ Typed(s) /\ Truthful(s, heard) BY DEF Typed, Sound
  <2>2. Typed(m) BY <2>1 DEF Typed, Whole, Core, LinksetUp
  <2>3. /\ m.passed = s.passed /\ m.sp = s.sp /\ m.tra = s.tra /\ m.t21 = s.t21
        /\ m.state = "UP" /\ m.linkset_up = TRUE /\ m.ev = s.ev
        /\ m.evrefused = s.evrefused
    BY <2>1 DEF Whole, Core, LinksetUp
  <2> HIDE DEF m
  <2>4. SpUp(m) = SpUp(s) /\ \A sp : Reachable(m, sp) = Reachable(s, sp)
    BY <2>3 DEF SpUp, Reachable, PassedLinks
  <2>5. ~s.linkset_up BY <1>1, <2>1 DEF Truthful
  <2>6. Truthful(m, heard) BY <1>1, <2>1, <2>3, <2>5 DEF Truthful, Typed
  <2>7. Backed(m, {}) /\ Timed(m) BY <2>3, <2>4 DEF Backed, Timed, Sound
  <2>q. QED BY <1>1, <2>2, <2>3, <2>4, <2>6, <2>7 DEF Good, Sound, Follows, m
<1>2. ASSUME ~SpUp(s), s.state = "UP" PROVE Good(LinksetDown(s), heard)
  BY <1>2, LinksetDownGood
<1>3. s.state \in {"DOWN", "UP"} BY DEF Sound, Typed
<1>4. CASE SpUp(s) /\ s.state = "DOWN" BY <1>1, <1>4 DEF LinksetFollows
<1>5. CASE ~SpUp(s) /\ s.state = "UP"
  BY <1>2, <1>5 DEF LinksetFollows
<1>6. CASE /\ ~(SpUp(s) /\ s.state = "DOWN") /\ ~(~SpUp(s) /\ s.state = "UP")
  <2>1. LinksetFollows(s) = s BY <1>6 DEF LinksetFollows
  <2>2. Follows(s) BY <1>3, <1>6 DEF Follows
  <2>q. QED BY <2>1, <2>2 DEF Good
<1>q. QED BY <1>4, <1>5, <1>6

LEMMA Ss7CheckGood ==
    ASSUME NEW s, NEW heard, Sound(s, heard, {})
    PROVE  Good(Ss7Check(s), heard)
<1>1. Same(s, Uninhibit(s)) BY UninhibitSame, WholeOf
<1>2. Sound(Uninhibit(s), heard, {}) BY <1>1, SameSound
<1>q. QED BY <1>2, LinksetFollowsGood DEF Ss7Check

LEMMA ForgetPeerSound ==
    ASSUME NEW s, NEW heard, NEW sp \in Sp, Sound(s, heard, {sp})
    PROVE  /\ Sound(ForgetPeer(s, sp), heard, {})
           /\ ForgetPeer(s, sp).sp[sp] = "DOWN" /\ ForgetPeer(s, sp).tra[sp] = {}
<1> DEFINE n == ForgetPeer(s, sp)
<1>1. Typed(s) /\ Whole(s) /\ Truthful(s, heard) BY DEF Typed, Sound
<1>2. /\ n.passed = s.passed /\ n.t21 = s.t21 /\ n.orphan = s.orphan
      /\ n.sp = [s.sp EXCEPT ![sp] = "DOWN"] /\ n.tra = [s.tra EXCEPT ![sp] = {}]
      /\ n.state = s.state /\ n.linkset_up = s.linkset_up /\ n.ev = s.ev
      /\ n.evrefused = s.evrefused /\ Whole(n)
      /\ n.route = [s.route EXCEPT ![sp] = [d \in Dest |-> NoRoute]]
  BY <1>1 DEF Whole, Core, ForgetPeer
<1> HIDE DEF n
<1>3. Routed(n.route) BY <1>1, <1>2, NoRouteRuns DEF Typed, Routed
<1>4. Typed(n) BY <1>1, <1>2, <1>3 DEF Typed
<1>5. \A p : Reachable(n, p) = Reachable(s, p) BY <1>2 DEF Reachable, PassedLinks
<1>6. s.sp \in [Sp -> {"DOWN", "UP"}] /\ s.tra \in [Sp -> SUBSET {"GOT", "SENT"}]
  BY <1>1 DEF Typed
<1>7. Truthful(n, heard) BY <1>1, <1>2 DEF Truthful
<1>8. Backed(n, {})
  <2> SUFFICES ASSUME NEW p \in Sp, n.sp[p] = "UP"
               PROVE  n.tra[p] = {"GOT", "SENT"} /\ Reachable(n, p) # {}
    BY DEF Backed
  <2>1. p # sp /\ s.sp[p] = "UP" /\ n.tra[p] = s.tra[p] BY <1>2, <1>6
  <2>q. QED BY <1>5, <2>1 DEF Sound, Backed
<1>9. Timed(n)
  <2> SUFFICES ASSUME "t21" \in Configured, NEW p \in Sp, n.tra[p] = {"SENT"}
               PROVE  n.t21[p]
    BY DEF Timed
  <2>1. s.tra[p] = {"SENT"} BY <1>2, <1>6
  <2>q. QED BY <1>2, <2>1 DEF Sound, Timed
<1>q. QED BY <1>4, <1>2, <1>6, <1>7, <1>8, <1>9 DEF Sound, n

LEMMA PeerDownSound ==
    ASSUME NEW s, NEW heard, NEW sp \in Sp, Sound(s, heard, {sp})
    PROVE  Sound([ForgetPeer(s, sp) EXCEPT !.t19[sp] = FALSE, !.t21[sp] = FALSE], heard, {})
<1> DEFINE f == ForgetPeer(s, sp)
           n == [f EXCEPT !.t19[sp] = FALSE, !.t21[sp] = FALSE]
<1>1. Sound(f, heard, {}) /\ f.tra[sp] = {} BY ForgetPeerSound
<1> HIDE DEF f
<1>2. Typed(f) /\ Whole(f) BY <1>1 DEF Typed, Sound
<1>3. /\ n.passed = f.passed /\ n.t21 = [f.t21 EXCEPT ![sp] = FALSE]
      /\ n.sp = f.sp /\ n.tra = f.tra /\ n.state = f.state /\ n.ev = f.ev
      /\ n.linkset_up = f.linkset_up /\ n.evrefused = f.evrefused
  BY <1>2 DEF Whole, Core
<1>4. Typed(n) BY <1>2 DEF Typed, Whole, Core
<1> HIDE DEF n
<1>5. Truthful(n, heard) BY <1>1, <1>3 DEF Truthful, Sound
<1>6. Backed(n, {}) BY <1>1, <1>3 DEF Backed, Sound, Reachable, PassedLinks
<1>7. Timed(n)
  <2>1. f.t21 \in [Sp -> BOOLEAN] BY <1>2 DEF Typed
  <2>q. QED BY <1>1, <1>3, <2>1 DEF Timed, Sound
<1>q. QED BY <1>4, <1>5, <1>6, <1>7 DEF Sound, n, f

\* mtp3_check takes an adjacent SP down that has lost its last link.
LEMMA CheckGood ==
    ASSUME NEW s, NEW heard, NEW sp \in Sp, Sound(s, heard, {sp})
    PROVE  /\ Sound(Check(s, sp), heard, {})
           /\ Follows(s) => Good(Check(s, sp), heard)
<1>1. Typed(s) /\ Whole(s) /\ Truthful(s, heard) BY DEF Typed, Sound
<1>2. s.sp \in [Sp -> {"DOWN", "UP"}] /\ s.tra \in [Sp -> SUBSET {"GOT", "SENT"}]
  BY <1>1 DEF Typed
<1>3. CASE Reachable(s, sp) = {} /\ s.sp[sp] = "UP"
  <2> DEFINE n == [ForgetPeer(s, sp) EXCEPT !.t19[sp] = FALSE, !.t21[sp] = FALSE]
  <2>1. Sound(n, heard, {}) BY PeerDownSound
  <2>2. Check(s, sp) = Ss7Check(n) BY <1>3 DEF Check
  <2> HIDE DEF n
  <2>q. QED BY <2>1, <2>2, Ss7CheckGood DEF Good
<1>4. CASE Reachable(s, sp) # {} /\ s.sp[sp] = "DOWN" /\ s.tra[sp] = {"GOT", "SENT"}
  <2> DEFINE n == [s EXCEPT !.sp[sp] = "UP"]
  <2>1. /\ n.passed = s.passed /\ n.t21 = s.t21 /\ n.sp = [s.sp EXCEPT ![sp] = "UP"]
        /\ n.tra = s.tra /\ n.state = s.state /\ n.ev = s.ev
        /\ n.linkset_up = s.linkset_up /\ n.evrefused = s.evrefused
    BY <1>1 DEF Whole, Core
  <2>2. Typed(n) BY <1>1 DEF Typed, Whole, Core
  <2> HIDE DEF n
  <2>3. \A p : Reachable(n, p) = Reachable(s, p) BY <2>1 DEF Reachable, PassedLinks
  <2>4. Truthful(n, heard) BY <1>1, <2>1 DEF Truthful
  <2>5. Backed(n, {})
    <3> SUFFICES ASSUME NEW p \in Sp, n.sp[p] = "UP"
                 PROVE  n.tra[p] = {"GOT", "SENT"} /\ Reachable(n, p) # {}
      BY DEF Backed
    <3>1. CASE p = sp BY <1>4, <2>1, <2>3, <3>1
    <3>2. CASE p # sp
      <4>1. s.sp[p] = "UP" BY <1>2, <2>1, <3>2
      <4>q. QED BY <2>1, <2>3, <3>2, <4>1 DEF Sound, Backed
    <3>q. QED BY <3>1, <3>2
  <2>6. Timed(n) BY <2>1 DEF Timed, Sound
  <2>7. Good(Ss7Check(n), heard) BY <2>2, <2>4, <2>5, <2>6, Ss7CheckGood DEF Sound
  <2>8. Check(s, sp) = Ss7Check(n) BY <1>4 DEF Check, n
  <2>q. QED BY <2>7, <2>8 DEF Good
<1>5. CASE /\ ~(Reachable(s, sp) = {} /\ s.sp[sp] = "UP")
           /\ ~(Reachable(s, sp) # {} /\ s.sp[sp] = "DOWN" /\ s.tra[sp] = {"GOT", "SENT"})
  <2>1. Check(s, sp) = s BY <1>5 DEF Check
  <2>2. Backed(s, {}) BY <1>5 DEF Sound, Backed
  <2>q. QED BY <2>1, <2>2 DEF Good, Sound
<1>q. QED BY <1>3, <1>4, <1>5

\* A TRA starts T21.
LEMMA TraSent ==
    ASSUME NEW s, NEW heard, NEW i \in Link, Sound(s, heard, {})
    PROVE  /\ Sound(NoteSent(s, i, "TRA"), heard, {})
           /\ Follows(s) => Follows(NoteSent(s, i, "TRA"))
           /\ Sound(NetMngSend(s, i, "TRA"), heard, {})
           /\ Follows(s) => Good(NetMngSend(s, i, "TRA"), heard)
<1> DEFINE sp == AdjSp[i]
           n  == [s EXCEPT !.tra[sp] = @ \cup {"SENT"},
                           !.t21[sp] = @ \/ "t21" \in Configured]
<1>1. sp \in Sp BY DestAssumption
<1>2. "TRA" \notin SentMsg BY DEF SentMsg
<1>3. NoteSent(s, i, "TRA") = n BY <1>2 DEF NoteSent
<1>4. Typed(s) /\ Whole(s) /\ Truthful(s, heard) BY DEF Typed, Sound
<1>5. /\ s.tra \in [Sp -> SUBSET {"GOT", "SENT"}] /\ s.t21 \in [Sp -> BOOLEAN]
      /\ s.sp \in [Sp -> {"DOWN", "UP"}]
  BY <1>4 DEF Typed
<1>6. /\ n.passed = s.passed /\ n.sp = s.sp /\ n.state = s.state /\ n.ev = s.ev
      /\ n.linkset_up = s.linkset_up /\ n.evrefused = s.evrefused
      /\ n.orphan = s.orphan /\ n.route = s.route
      /\ n.tra = [s.tra EXCEPT ![sp] = @ \cup {"SENT"}]
      /\ n.t21 = [s.t21 EXCEPT ![sp] = @ \/ "t21" \in Configured]
      /\ Whole(n)
  BY <1>4 DEF Whole, Core
<1> HIDE DEF n
<1>7. n.tra \in [Sp -> SUBSET {"GOT", "SENT"}] BY <1>1, <1>5, <1>6
<1>8. n.t21 \in [Sp -> BOOLEAN]
  <2>1. (s.t21[sp] \/ "t21" \in Configured) \in BOOLEAN OBVIOUS
  <2>q. QED BY <1>1, <1>5, <1>6, <2>1
<1>9. Typed(n) BY <1>4, <1>6, <1>7, <1>8 DEF Typed
<1>10. Truthful(n, heard) BY <1>4, <1>6 DEF Truthful
<1>11. \A p : Reachable(n, p) = Reachable(s, p) BY <1>6 DEF Reachable, PassedLinks
<1>12. Backed(n, {})
  <2> SUFFICES ASSUME NEW p \in Sp, n.sp[p] = "UP"
               PROVE  n.tra[p] = {"GOT", "SENT"} /\ Reachable(n, p) # {}
    BY DEF Backed
  <2>1. s.tra[p] = {"GOT", "SENT"} /\ Reachable(s, p) # {} BY <1>6 DEF Sound, Backed
  <2>2. n.tra[p] = s.tra[p] BY <1>5, <1>6, <2>1
  <2>q. QED BY <1>11, <2>1, <2>2
<1>13. Timed(n)
  <2> SUFFICES ASSUME "t21" \in Configured, NEW p \in Sp, n.tra[p] = {"SENT"}
               PROVE  n.t21[p]
    BY DEF Timed
  <2>1. CASE p = sp BY <1>1, <1>5, <1>6, <2>1
  <2>2. CASE p # sp BY <1>1, <1>5, <1>6, <2>2 DEF Sound, Timed
  <2>q. QED BY <2>1, <2>2
<1>14. Sound(n, heard, {}) BY <1>9, <1>10, <1>12, <1>13 DEF Sound
<1>15. Follows(s) => Follows(n) BY <1>6 DEF Follows, SpUp
<1>16. Same(n, HandOver(n, i, "TRA")) BY <1>6, HandOverSame
<1>q. QED BY <1>3, <1>14, <1>15, <1>16, SameSound DEF NetMngSend, Good

-------------------------------------------------------------------------------
(* Changeover and changeback.                                                  *)

\* The adjacent SP of link i may just have lost its last link.
Shaken(s, heard, i) == Sound(s, heard, {AdjSp[i]}) /\ Follows(s)

LEMMA SameShaken ==
    ASSUME NEW s, NEW n, Same(s, n), NEW heard, NEW i
    PROVE  Shaken(s, heard, i) => Shaken(n, heard, i)
BY SameSound DEF Shaken

LEMMA GoodShaken ==
    ASSUME NEW s, NEW heard, NEW i \in Link
    PROVE  /\ Good(s, heard) => Shaken(s, heard, i)
           /\ Shaken(s, heard, i) => Good(Check(s, AdjSp[i]), heard) /\ Whole(s)
<1>1. AdjSp[i] \in Sp BY DestAssumption
<1>2. Good(s, heard) => Shaken(s, heard, i) BY WholeOf DEF Shaken, Good
<1>3. Shaken(s, heard, i) => Good(Check(s, AdjSp[i]), heard) /\ Whole(s)
  BY <1>1, CheckGood, WholeOf DEF Shaken
<1>q. QED BY <1>2, <1>3

LEMMA CancelGood ==
    ASSUME NEW s, NEW heard, NEW i \in Link
    PROVE  /\ Good(s, heard) => Good(CancelChangeback(s, i), heard)
           /\ Good(s, heard) => Good(TimedChangeover(s, i), heard)
           /\ Shaken(s, heard, i) => Shaken(PrepareChangeover(s, i), heard, i)
           /\ Good(s, heard) => Good(PrepareChangeover(s, i), heard)
<1>1. ASSUME Whole(s), Shaken(s, heard, i) PROVE Good(Check(DropChangeback(s, i), AdjSp[i]), heard)
  BY <1>1, ChangeoverSame, SameShaken, GoodShaken
<1>2. Good(s, heard) => Good(CancelChangeback(s, i), heard)
  BY <1>1, GoodShaken DEF CancelChangeback
<1>3. Shaken(s, heard, i) => Shaken(CancelChangeback(s, i), heard, i)
  <2>1. Good(Check(DropChangeback(s, i), AdjSp[i]), heard)
        => Shaken(Check(DropChangeback(s, i), AdjSp[i]), heard, i)
    BY GoodShaken
  <2>q. QED BY <1>1, <2>1, GoodShaken DEF CancelChangeback
<1> DEFINE n == CancelChangeback(s, i)
<1>4. Good(s, heard) => Whole(n) BY <1>2, WholeOf
<1>5. Shaken(s, heard, i) => Whole(n) BY <1>3, GoodShaken
<1> HIDE DEF n
<1>6. Whole(n) => Same(n, StartTimedChangeover(n, i)) /\ Same(n, SaveBuffers(n, i))
  BY ChangeoverSame, BuffersSame
<1>7. Good(s, heard) => Good(TimedChangeover(s, i), heard)
  BY <1>2, <1>4, <1>6, SameSound DEF TimedChangeover, n
<1>8. Shaken(s, heard, i) => Shaken(PrepareChangeover(s, i), heard, i)
  BY <1>3, <1>5, <1>6, SameShaken DEF PrepareChangeover, n
<1>9. Good(s, heard) => Good(PrepareChangeover(s, i), heard)
  BY <1>2, <1>4, <1>6, SameSound DEF PrepareChangeover, n
<1>q. QED BY <1>2, <1>7, <1>8, <1>9

LEMMA ChangeoverDoneGood ==
    ASSUME NEW s, NEW heard, NEW i \in Link, NEW acked, Good(s, heard)
    PROVE  Good(ChangeoverDone(s, i, acked), heard)
<1> DEFINE n == CancelChangeback(s, i)
           f == FreeCo(n, i)
           c == [f EXCEPT !.co_buf[i] = <<>>]
           msgs == Unacknowledged(n.co_tx_buf[i], acked) \o n.co_tx_q[i] \o n.co_buf[i]
           u == Transmit(c, msgs)
           v == [u EXCEPT !.changeover[i] = "CHANGEOVER_COMPLETED"]
<1>1. Good(n, heard) BY CancelGood
<1>2. ChangeoverDone(s, i, acked) \in {n, Check(v, AdjSp[i])}
  BY DEF ChangeoverDone, Divert
<1> HIDE DEF n, msgs
<1>3. Same(n, f) BY <1>1, WholeOf, BuffersSame
<1> HIDE DEF f
<1>4. Same(f, c) BY <1>3 DEF Same, Whole, Core
<1> HIDE DEF c
<1>5. Same(c, u)
  <2>1. Whole(c) BY <1>4 DEF Same
  <2>q. QED BY <2>1, BuffersSame
<1> HIDE DEF u
<1>6. Same(u, v) BY <1>5 DEF Same, Whole, Core
<1> HIDE DEF v
<1>7. Good(v, heard) BY <1>1, <1>3, <1>4, <1>5, <1>6, SameSound
<1>q. QED BY <1>1, <1>2, <1>7, GoodShaken

LEMMA ChangebackGood ==
    ASSUME NEW s, NEW heard, NEW i \in Link, Good(s, heard)
    PROVE  Good(Changeback(s, i), heard)
<1> DEFINE n == [s EXCEPT !.changeover[i] = "CHANGEBACK",
                          !.cb_buf[i] = @ \o s.tx_q[i],
                          !.tx_q[i] = <<>>]
           u == Schedule(n, i, "t3", "1st")
<1>1. Whole(s) BY WholeOf
<1>2. Changeback(s, i) \in {s, Check(CancelChangeover(s, i), AdjSp[i]), Check(u, AdjSp[i]),
                            Check(s, AdjSp[i])}
  BY DEF Changeback
<1>3. Same(s, n) BY <1>1 DEF Same, Whole, Core
<1> HIDE DEF n
<1>4. Whole(n) BY <1>3 DEF Same
<1>5. Same(n, u) BY <1>4, TimersSame, TimersKnown
<1> HIDE DEF u
<1>6. Good(u, heard) BY <1>3, <1>5, SameSound
<1>7. Good(CancelChangeover(s, i), heard) BY <1>1, ChangeoverSame, SameSound
<1>q. QED BY <1>2, <1>6, <1>7, GoodShaken

\* A link that fails may be the last one of its adjacent SP.
LEMMA LinkFailedGood ==
    ASSUME NEW s, NEW heard, NEW i \in Link, Good(s, heard)
    PROVE  Good(LinkFailed(s, i), heard)
<1> DEFINE f == [s EXCEPT !.passed[i] = FALSE]
           p == PrepareChangeover(f, i)
           c == IF /\ NumLinks > 1 /\ AvailableLinks(f, TRUE) # {}
                   /\ f.changeover[i] \in {"NO_CHANGEOVER", "CHANGEBACK"}
                THEN NetMngSend(p, i, "COO") ELSE f
<1>1. Whole(s) /\ Typed(s) BY WholeOf DEF Good, Sound
<1>2. /\ f.passed = [s.passed EXCEPT ![i] = FALSE] /\ f.t21 = s.t21 /\ f.sp = s.sp
      /\ f.tra = s.tra /\ f.state = s.state /\ f.ev = s.ev
      /\ f.linkset_up = s.linkset_up /\ f.evrefused = s.evrefused
  BY <1>1 DEF Whole, Core
<1>3. Typed(f) BY <1>1 DEF Typed, Whole, Core
<1>4. LinkFailed(s, i) = Check(StopAll(c, i, {"q707_t1", "q707_t2"}), AdjSp[i])
  BY DEF LinkFailed
<1> HIDE DEF f
<1>5. Shaken(f, heard, i)
  <2>1. s.passed \in [Link -> BOOLEAN] BY <1>1 DEF Typed
  <2>2. \A j \in Link : j # i => f.passed[j] = s.passed[j] BY <1>2, <2>1
  <2>3. \A sp : sp # AdjSp[i] => Reachable(f, sp) = Reachable(s, sp)
    BY <2>2 DEF Reachable, PassedLinks, LinksOf
  <2>4. Backed(f, {AdjSp[i]}) BY <1>2, <2>3 DEF Backed, Good, Sound
  <2>5. Truthful(f, heard) /\ Timed(f) /\ Follows(f)
    BY <1>2 DEF Truthful, Timed, Follows, SpUp, Good, Sound
  <2>q. QED BY <1>3, <2>4, <2>5 DEF Shaken, Sound
<1>6. Shaken(p, heard, i) BY <1>5, CancelGood
<1> HIDE DEF p
<1>7. Same(p, NetMngSend(p, i, "COO")) BY <1>6, GoodShaken, SendSame
<1>8. Shaken(c, heard, i) BY <1>5, <1>6, <1>7, SameShaken
<1> HIDE DEF c
<1>9. Same(c, StopAll(c, i, {"q707_t1", "q707_t2"})) BY <1>8, GoodShaken, StopAllSame
<1>q. QED BY <1>4, <1>8, <1>9, SameShaken, GoodShaken

LEMMA EventLinkDownGood ==
    ASSUME NEW s, NEW heard, NEW i \in Link, Good(s, heard)
    PROVE  Good(EventLinkDown(s, i), heard)
<1>1. Same(s, [s EXCEPT !.linkstate[i] = "DOWN"]) BY WholeOf DEF Same, Whole, Core
<1>q. QED BY <1>1, SameSound, LinkFailedGood DEF EventLinkDown

-------------------------------------------------------------------------------
(* Routes. *)

LEMMA WithdrawSame ==
    ASSUME NEW s, Whole(s), NEW sp, NEW d, NEW bufs,
           bufs \in Seq({"tx_q", "co_tx_q", "co_buf", "cb_buf", "tx_buf", "co_tx_buf"})
    PROVE  Same(s, Withdraw(s, sp, d, bufs))
<1>1. Range(bufs) \subseteq {"tx_q", "co_tx_q", "co_buf", "cb_buf", "tx_buf", "co_tx_buf"}
  BY ElementOfSeq, LenProperties DEF Range
<1>2. Core \cap Range(bufs) = {} BY <1>1 DEF Core
<1> DEFINE n == Withdraw(s, sp, d, bufs)
<1>3. DOMAIN n = DOMAIN s /\ \A f \in DOMAIN s : f \notin Range(bufs) => n[f] = s[f]
  BY DEF Withdraw
<1> HIDE DEF n
<1>4. \A f \in Core : f \in DOMAIN s /\ f \in DOMAIN n /\ n[f] = s[f] BY <1>2, <1>3 DEF Whole
<1>q. QED BY <1>4 DEF Same, Whole, Core, n

\* A route is put in the place of another.
LEMMA RoutePut ==
    ASSUME NEW s, NEW n, Same(s, n), NEW sp \in Sp, NEW d \in Dest, NEW r, RouteRuns(r)
    PROVE  Same(s, [n EXCEPT !.route[sp][d] = r])
<1> DEFINE m == [n EXCEPT !.route[sp][d] = r]
<1>1. Besides(n, m) /\ m.route = [n.route EXCEPT ![sp][d] = r]
  BY DEF Besides, Same, Whole, Core
<1> HIDE DEF m
<1>2. Routed(n.route) => Routed(m.route)
  <2> SUFFICES ASSUME Routed(n.route) PROVE Routed(m.route) OBVIOUS
  <2> DEFINE old == n.route
  <2>1. \A p \in Sp, e \in Dest :
           m.route[p][e] = IF p = sp /\ e = d THEN r ELSE old[p][e]
    BY <1>1 DEF Routed
  <2>2. DOMAIN m.route = Sp /\ \A p \in Sp : DOMAIN m.route[p] = Dest
    BY <1>1 DEF Routed
  <2>q. QED BY <2>1, <2>2 DEF Routed
<1>3. Same(n, m) BY <1>1, <1>2, BesidesSame
<1>q. QED BY <1>3, SameTransitive DEF m

\* T6 has expired: what waited is sent, and the route is gone.
LEMMA T6Same ==
    ASSUME NEW s, Whole(s), NEW sp \in Sp, NEW d \in Dest
    PROVE  Same(s, T6Expired(s, sp, d))
<1> DEFINE c == [s EXCEPT !.route[sp][d].t6 = FALSE, !.route[sp][d].q = <<>>]
           msgs == s.route[sp][d].q
           n == Transmit(c, msgs)
           m == [n EXCEPT !.route[sp][d] = NoRoute]
<1>1. Besides(s, c) /\ c.route = [s.route EXCEPT ![sp][d].t6 = FALSE, ![sp][d].q = <<>>]
  BY DEF Besides, Whole, Core
<1>2. T6Expired(s, sp, d) = IF n.route[sp][d].state = "TFA" THEN m ELSE n
  BY DEF T6Expired
<1>3. Whole(c) BY <1>1 DEF Besides
<1> HIDE DEF c, msgs
<1>4. Besides(s, n) /\ n.route = IF msgs = <<>> THEN c.route ELSE WithHeld(c, msgs)
  <2>1. CASE msgs = <<>> BY <1>1, <2>1 DEF Transmit
  <2>2. CASE msgs # <<>>
    <3>1. Besides(c, n) /\ n.route = WithHeld(c, msgs) BY <1>3, <2>2, TransmitCore
    <3>q. QED BY <1>1, <2>2, <3>1 DEF Besides
  <2>q. QED BY <2>1, <2>2
<1> HIDE DEF n
<1>5. ASSUME Routed(s.route)
      PROVE  IF s.route[sp][d].state = "TFA"
             THEN n.route[sp][d].state = "TFA" /\ Routed([n.route EXCEPT ![sp][d] = NoRoute])
             ELSE n.route[sp][d].state # "TFA" /\ Routed(n.route)
  <2> DEFINE r == s.route[sp][d]
             k == c.route[sp][d]
  <2>1. RouteRuns(r) BY <1>5 DEF Routed
  <2>2. /\ DOMAIN k = DOMAIN r /\ k.t6 = FALSE /\ k.q = <<>>
        /\ k.state = r.state /\ k.t10 = r.t10
    BY <1>1, <1>5, <2>1 DEF Routed, RouteRuns, RouteField
  <2>3. /\ DOMAIN c.route = Sp /\ \A p \in Sp : DOMAIN c.route[p] = Dest
        /\ \A p \in Sp, e \in Dest : (p # sp \/ e # d) => c.route[p][e] = s.route[p][e]
    BY <1>1, <1>5 DEF Routed
  <2>4. \A p \in Sp, e \in Dest : (p # sp \/ e # d) => RouteRuns(c.route[p][e])
    BY <1>5, <2>3 DEF Routed
  <2> HIDE DEF r, k
  <2>5. CASE r.state = "TFA"
    <3> DEFINE x == [n.route EXCEPT ![sp][d] = NoRoute]
    <3>1. n.route[sp][d].state = "TFA"
      <4>1. WithHeld(c, msgs)[sp][d] = [k EXCEPT !.q = @ \o HeldFor(c, msgs, sp, d)]
        BY DEF WithHeld, k
      <4>2. "state" \in DOMAIN k BY <2>1, <2>2 DEF RouteRuns, RouteField
      <4>3. WithHeld(c, msgs)[sp][d].state = k.state BY <4>1, <4>2
      <4>q. QED BY <1>4, <2>2, <2>5, <4>3 DEF k
    <3>2. DOMAIN n.route = Sp /\ \A p \in Sp : DOMAIN n.route[p] = Dest
      BY <1>4, <2>3 DEF WithHeld
    <3>3. \A p \in Sp, e \in Dest : (p # sp \/ e # d) => RouteRuns(n.route[p][e])
      BY <1>4, <2>4, HeldRuns
    <3>4. /\ DOMAIN x = Sp /\ \A p \in Sp : DOMAIN x[p] = Dest
          /\ \A p \in Sp, e \in Dest :
                 x[p][e] = IF p = sp /\ e = d THEN NoRoute ELSE n.route[p][e]
      BY <3>2
    <3> HIDE DEF x
    <3>5. Routed(x) BY <3>3, <3>4, NoRouteRuns DEF Routed
    <3>q. QED BY <2>5, <3>1, <3>5 DEF x, r
  <2>6. CASE r.state # "TFA"
    <3>1. RouteRuns(k) BY <2>1, <2>2, <2>6 DEF RouteRuns
    <3>2. \A p \in Sp, e \in Dest : RouteRuns(c.route[p][e]) BY <2>4, <3>1 DEF k
    <3>3. Routed(c.route) BY <2>3, <3>2 DEF Routed
    <3>4. Routed(n.route) BY <1>4, <3>3, WithHeldRouted
    <3>5. n.route[sp][d].state = k.state BY <1>4, <3>2, HeldRuns DEF k
    <3>q. QED BY <2>2, <2>6, <3>4, <3>5 DEF r
  <2>q. QED BY <2>5, <2>6
<1>6. Besides(s, m) /\ m.route = [n.route EXCEPT ![sp][d] = NoRoute]
  BY <1>4 DEF Besides, Whole, Core
<1> HIDE DEF m
<1>7. Besides(s, T6Expired(s, sp, d)) BY <1>2, <1>4, <1>6
<1>8. Routed(s.route) => Routed(T6Expired(s, sp, d).route) BY <1>2, <1>5, <1>6
<1>q. QED BY <1>7, <1>8, BesidesSame

LEMMA RerouteSame ==
    ASSUME NEW s, Whole(s), NEW sp \in Sp, NEW d \in Dest
    PROVE  /\ Same(s, ForcedReroute(s, sp, d)) /\ Same(s, ControlledReroute(s, sp, d))
           /\ Same(s, T6Expired(s, sp, d))
<1> DEFINE B == {"tx_q", "co_tx_q", "co_buf", "cb_buf", "tx_buf", "co_tx_buf"}
<1>1. \A bufs : bufs \in Seq(B) => Same(s, Withdraw(s, sp, d, bufs))
  BY WithdrawSame
<1>2. Same(s, ForcedReroute(s, sp, d))
  <2> DEFINE bufs == <<"tx_q", "co_tx_q", "co_buf", "cb_buf">>
             all == bufs \o <<"tx_buf", "co_tx_buf">>
             n == Withdraw(s, sp, d, all)
             r == [state |-> "TFP", t6 |-> FALSE, t10 |-> "t10" \in Configured, q |-> <<>>]
             m == [n EXCEPT !.route[sp][d] = r]
             msgs == s.route[sp][d].q \o Withdrawn(s, sp, d, bufs)
  <2>1. all \in Seq(B)
    <3>1. bufs \in Seq(B) /\ <<"tx_buf", "co_tx_buf">> \in Seq(B) OBVIOUS
    <3>q. QED BY <3>1, ConcatProperties
  <2>2. ForcedReroute(s, sp, d) = Transmit(m, msgs) BY DEF ForcedReroute
  <2>3. RouteRuns(r) BY ProhibitedRuns
  <2> HIDE DEF all, msgs, bufs, r
  <2>4. Same(s, n) BY <1>1, <2>1
  <2> HIDE DEF n
  <2>5. Same(s, m) BY <2>4, <2>3, RoutePut
  <2> HIDE DEF m
  <2>6. Whole(m) BY <2>5 DEF Same
  <2>7. Same(m, Transmit(m, msgs))
    <3>1. 0 \in Link BY NumLinksAssumption DEF Link
    <3>q. QED BY <2>6, <3>1, BuffersSame
  <2>q. QED BY <2>2, <2>5, <2>7, SameTransitive
<1>3. Same(s, ControlledReroute(s, sp, d))
  <2> DEFINE bufs == <<"tx_q", "co_buf", "cb_buf", "co_tx_q">>
             n == Withdraw(s, sp, d, bufs)
             r == [state |-> "TFA", t6 |-> TRUE, t10 |-> FALSE,
                   q |-> n.route[sp][d].q \o Withdrawn(s, sp, d, bufs)]
             w == [n EXCEPT !.route[sp][d] = r]
  <2>1. bufs \in Seq(B) OBVIOUS
  <2>2. CASE Routed(n.route)
    <3>1. ControlledReroute(s, sp, d) = w BY <2>2 DEF ControlledReroute, Routed
    <3>2. RouteRuns(r) BY DEF RouteRuns, RouteField
    <3> HIDE DEF bufs, r
    <3>3. Same(s, n) BY <1>1, <2>1
    <3> HIDE DEF n
    <3>q. QED BY <3>1, <3>3, <3>2, RoutePut
  <2>3. CASE ~Routed(n.route)
    <3> DEFINE x == ControlledReroute(s, sp, d)
    <3>1. DOMAIN x = DOMAIN n /\ \A f \in DOMAIN n : f # "route" => x[f] = n[f]
      BY DEF ControlledReroute
    <3> HIDE DEF bufs
    <3>2. Same(s, n) BY <1>1, <2>1
    <3> HIDE DEF n, x
    <3>3. ~Routed(s.route) BY <2>3, <3>2 DEF Same
    <3>4. Same(s, x) BY <3>1, <3>2, <3>3 DEF Same, Whole, Core
    <3>q. QED BY <3>4 DEF x
  <2>q. QED BY <2>2, <2>3
<1>q. QED BY <1>2, <1>3, T6Same

LEMMA RouteGood ==
    ASSUME NEW s, NEW heard, NEW sp \in Sp, NEW d \in Dest, Good(s, heard)
    PROVE  /\ Good(RxTfp(s, sp, d), heard) /\ Good(RxTfa(s, sp, d), heard)
           /\ Good(T6Expired(s, sp, d), heard) /\ Good(T10Expired(s, sp, d), heard)
<1>1. First(LinksOf(sp)) \in Link BY SpAssumption, FirstExists DEF LinksOf
<1>2. Good(T10Expired(s, sp, d), heard) BY <1>1, WholeOf, SendSame, SameSound DEF T10Expired
<1>q. QED BY <1>2, WholeOf, RerouteSame, SameSound DEF RxTfp, RxTfa

-------------------------------------------------------------------------------
(* Restart of an adjacent SP. *)

LEMMA InitPeerGood ==
    ASSUME NEW s, NEW heard, NEW i \in Link, Sound(s, heard, {})
    PROVE  /\ Sound(InitPeer(s, i), heard, {})
           /\ Follows(s) => Good(InitPeer(s, i), heard)
<1> DEFINE n == NetMngSend(s, i, "TRA")
<1>1. Whole(s) BY WholeOf
<1>2. Same(s, NetMngSend(s, i, "LIN")) BY <1>1, SendSame
<1>3. Sound(n, heard, {}) /\ (Follows(s) => Good(n, heard)) BY TraSent
<1>4. InitPeer(s, i) \in {s, NetMngSend(s, i, "LIN"), Check(n, AdjSp[i])} BY DEF InitPeer
<1> HIDE DEF n
<1>5. AdjSp[i] \in Sp BY DestAssumption
<1>6. Sound(n, heard, {AdjSp[i]}) /\ (Follows(s) => Follows(n))
  BY <1>3 DEF Sound, Backed, Good
<1>7. /\ Sound(Check(n, AdjSp[i]), heard, {})
      /\ Follows(s) => Good(Check(n, AdjSp[i]), heard)
  BY <1>5, <1>6, CheckGood
<1>q. QED BY <1>2, <1>4, <1>7, SameSound DEF Good

LEMMA InitLinksSound ==
    ASSUME NEW s, NEW heard, NEW sp \in Sp, Sound(s, heard, {})
    PROVE  Sound(InitLinks(s, sp), heard, {})
<1>1. Whole(s) BY WholeOf
<1>2. Sound(InitUnheard(s, sp), heard, {})
  <2> DEFINE free  == {i \in LinksOf(sp) : "LOCALLY" \notin s.inhibit[i]}
             later == {i \in free : \E j \in free : j < i}
             tried == {i \in LinksOf(sp) \ free : \A j \in later : i < j}
             lin   == [s EXCEPT !.sent = [i \in Link |-> IF i \in tried THEN @[i] \cup {"LIN"}
                                                         ELSE @[i]],
                                !.timer = [i \in Link |-> [t \in LinkTimer |->
                                              IF i \in tried /\ t = "t14" /\ t \in Configured
                                              THEN "1st" ELSE @[i][t]]]]
  <2>1. Same(s, lin) BY <1>1 DEF Same, Whole, Core
  <2>2. InitUnheard(s, sp) = IF free = {} THEN lin ELSE NoteSent(lin, First(free), "TRA")
    BY DEF InitUnheard
  <2>3. free # {} => First(free) \in Link
    <3>1. free \subseteq Link BY DEF LinksOf
    <3> HIDE DEF free
    <3>2. free # {} => First(free) \in free BY <3>1, FirstExists
    <3>q. QED BY <3>1, <3>2
  <2> HIDE DEF lin, free, tried, later
  <2>4. Sound(lin, heard, {}) BY <2>1, SameSound
  <2>q. QED BY <2>2, <2>3, <2>4, TraSent
<1>3. First(LinksOf(sp)) \in Link BY SpAssumption, FirstExists DEF LinksOf
<1>4. Sound(InitPeer(s, First(LinksOf(sp))), heard, {}) BY <1>3, InitPeerGood
<1>q. QED BY <1>2, <1>4 DEF InitLinks

LEMMA RestartGood ==
    ASSUME NEW s, NEW heard, NEW sp \in Sp, Good(s, heard)
    PROVE  Good(RestartPeer(s, sp), heard) /\ Good(InitRestart(s, sp), heard)
<1>1. Sound(s, heard, {sp}) /\ Whole(s) BY WholeOf
<1>2. Good(RestartPeer(s, sp), heard)
  <2>1. Sound(ForgetPeer(s, sp), heard, {}) BY <1>1, ForgetPeerSound
  <2>q. QED BY <2>1, InitLinksSound, Ss7CheckGood DEF RestartPeer
<1>3. Good(InitRestart(s, sp), heard)
  <2> DEFINE n == [s EXCEPT !.t19[sp] = FALSE, !.t21[sp] = FALSE]
             d == [ForgetPeer(s, sp) EXCEPT !.t19[sp] = FALSE, !.t21[sp] = FALSE]
  <2>1. Sound(d, heard, {}) BY <1>1, PeerDownSound
  <2>2. Same(d, ForgetPeer(n, sp)) BY <1>1 DEF Same, Whole, Core, ForgetPeer
  <2>3. InitRestart(s, sp) = Ss7Check(InitLinks(ForgetPeer(n, sp), sp))
    BY DEF InitRestart, RestartPeer
  <2> HIDE DEF d, n
  <2>4. Sound(ForgetPeer(n, sp), heard, {}) BY <2>1, <2>2, SameSound
  <2>q. QED BY <2>3, <2>4, InitLinksSound, Ss7CheckGood
<1>q. QED BY <1>2, <1>3

\* With the peer's TRA, or once T21 has expired, the restart may be over.
LEMMA TraReceived ==
    ASSUME NEW s, NEW heard, NEW sp \in Sp, Good(s, heard), NEW t19
    PROVE  /\ Good(Check([s EXCEPT !.t19[sp] = t19, !.t21[sp] = FALSE,
                                   !.tra[sp] = @ \cup {"GOT"}], sp), heard)
           /\ Good(T21Expired(s, sp), heard)
<1> DEFINE n == [s EXCEPT !.t19[sp] = t19, !.t21[sp] = FALSE,
                          !.tra[sp] = @ \cup {"GOT"}]
           m == [s EXCEPT !.t21[sp] = FALSE, !.tra[sp] = @ \cup {"GOT"}]
<1>1. Typed(s) /\ Whole(s) BY WholeOf DEF Good, Sound
<1>2. /\ s.tra \in [Sp -> SUBSET {"GOT", "SENT"}] /\ s.t21 \in [Sp -> BOOLEAN]
  BY <1>1 DEF Typed
<1>3. /\ m.passed = s.passed /\ m.sp = s.sp /\ m.state = s.state /\ m.ev = s.ev
      /\ m.linkset_up = s.linkset_up /\ m.evrefused = s.evrefused
      /\ m.tra = [s.tra EXCEPT ![sp] = @ \cup {"GOT"}]
      /\ m.t21 = [s.t21 EXCEPT ![sp] = FALSE]
  BY <1>1 DEF Whole, Core
<1>4. Typed(m) BY <1>1 DEF Typed, Whole, Core
<1>5. Same(m, n) BY <1>1 DEF Same, Whole, Core
<1>6. T21Expired(s, sp) = Check(m, sp) BY DEF T21Expired
<1> HIDE DEF m
<1>7. \A p : Reachable(m, p) = Reachable(s, p) BY <1>3 DEF Reachable, PassedLinks
<1>8. Truthful(m, heard) /\ Follows(m) BY <1>3 DEF Truthful, Follows, SpUp, Good, Sound
<1>9. Backed(m, {})
  <2> SUFFICES ASSUME NEW p \in Sp, m.sp[p] = "UP"
               PROVE  m.tra[p] = {"GOT", "SENT"} /\ Reachable(m, p) # {}
    BY DEF Backed
  <2>1. s.tra[p] = {"GOT", "SENT"} /\ Reachable(s, p) # {}
    BY <1>3 DEF Good, Sound, Backed
  <2>2. m.tra[p] = {"GOT", "SENT"} BY <1>2, <1>3, <2>1
  <2>q. QED BY <1>7, <2>1, <2>2
<1>10. Timed(m)
  <2> SUFFICES ASSUME "t21" \in Configured, NEW p \in Sp, m.tra[p] = {"SENT"}
               PROVE  m.t21[p]
    BY DEF Timed
  <2>1. p # sp BY <1>2, <1>3
  <2>q. QED BY <1>2, <1>3, <2>1 DEF Good, Sound, Timed
<1>11. Good(m, heard) BY <1>4, <1>8, <1>9, <1>10 DEF Good, Sound
<1>12. Good(n, heard) BY <1>5, <1>11, SameSound
<1> HIDE DEF n
<1>13. Good(Check(m, sp), heard) BY <1>11, WholeOf, CheckGood DEF Good
<1>14. Good(Check(n, sp), heard) BY <1>12, WholeOf, CheckGood DEF Good
<1>q. QED BY <1>6, <1>13, <1>14 DEF n

LEMMA RxTraGood ==
    ASSUME NEW s, NEW heard, NEW sp \in Sp, Good(s, heard)
    PROVE  Good(RxTra(s, sp), heard)
<1>1. \A n : Good(n, heard) => Good(NoteTra(n, sp), heard) BY TraReceived DEF NoteTra
<1>q. QED BY <1>1, RestartGood DEF RxTra

-------------------------------------------------------------------------------
(* Reception of network management and test messages. *)

\* A message is sent, or a field changed that is not of the core.
LEMMA SendGood ==
    ASSUME NEW s, NEW heard, NEW i \in Link, Good(s, heard)
    PROVE  /\ \A msg : msg # "TRA" => Good(NetMngSend(s, i, msg), heard)
           /\ \A v : Good([s EXCEPT !.sent[i] = v], heard)
           /\ \A v : Good([s EXCEPT !.inhibit[i] = v], heard)
           /\ \A v, w : Good([s EXCEPT !.sent[i] = v, !.inhibit[i] = w], heard)
           /\ \A T : Good(StopAll(s, i, T), heard)
           /\ \A t \in LinkTimer :
                 /\ Good(Stop(s, i, t), heard) /\ Good(Start(s, i, t), heard)
                 /\ Good(Forget(s, i, t), heard)
                 /\ \A c : Good(Schedule(s, i, t, c), heard)
           /\ Good(StdTestSend(s, i), heard) /\ Good(EventLinkUp(s, i), heard)
           /\ \A msgs : Good(Transmit(s, msgs), heard)
           /\ Good(FreeCo(s, i), heard)
<1>1. Whole(s) BY WholeOf
<1>2. /\ \A v : Same(s, [s EXCEPT !.sent[i] = v])
      /\ \A v : Same(s, [s EXCEPT !.inhibit[i] = v])
      /\ \A v, w : Same(s, [s EXCEPT !.sent[i] = v, !.inhibit[i] = w])
  BY <1>1 DEF Same, Whole, Core
<1>3. \A msg : msg # "TRA" => Same(s, NetMngSend(s, i, msg)) BY <1>1, SendSame
<1>4. \A T : Same(s, StopAll(s, i, T)) BY <1>1, StopAllSame
<1>5. \A t \in LinkTimer :
         /\ Same(s, Stop(s, i, t)) /\ Same(s, Start(s, i, t)) /\ Same(s, Forget(s, i, t))
         /\ \A c : Same(s, Schedule(s, i, t, c))
  BY <1>1, TimersSame
<1>6. Same(s, StdTestSend(s, i)) /\ Same(s, EventLinkUp(s, i)) BY <1>1, TestSendSame
<1>7. (\A msgs : Same(s, Transmit(s, msgs))) /\ Same(s, FreeCo(s, i)) BY <1>1, BuffersSame
<1>8. \A n : Same(s, n) => Good(n, heard) BY SameSound
<1> HIDE DEF Same
<1>q. QED BY <1>2, <1>3, <1>4, <1>5, <1>6, <1>7, <1>8

LEMMA RxChangeoverGood ==
    ASSUME NEW s, NEW heard, NEW i \in Link, NEW acked, Good(s, heard)
    PROVE  /\ Good(RxCoo(s, i, acked), heard) /\ Good(RxCoa(s, i, acked), heard)
           /\ Good(RxEco(s, i), heard) /\ Good(RxEca(s, i), heard)
           /\ Good(RxCbd(s, i), heard) /\ Good(RxCba(s, i), heard)
<1>1. Good(RxCoo(s, i, acked), heard)
  <2> DEFINE answer == IF s.changeover[i] \in {"NO_CHANGEOVER", "CHANGEOVER_INITIATED"}
                       THEN "COA" ELSE "ECA"
  <2>1. Good(NetMngSend(s, i, answer), heard) BY SendGood
  <2>2. RxCoo(s, i, acked) = ChangeoverDone(PrepareChangeover(NetMngSend(s, i, answer), i),
                                            i, acked)
    BY DEF RxCoo
  <2> HIDE DEF answer
  <2>3. Good(PrepareChangeover(NetMngSend(s, i, answer), i), heard) BY <2>1, CancelGood
  <2>q. QED BY <2>2, <2>3, ChangeoverDoneGood
<1>2. Good(RxCoa(s, i, acked), heard)
  <2>1. Good(Stop(s, i, "t2"), heard) BY SendGood, TimersKnown
  <2>2. \A v : Good([Stop(s, i, "t2") EXCEPT !.sent[i] = v], heard) BY <2>1, SendGood
  <2>3. Good([Stop(s, i, "t2") EXCEPT !.sent[i] = @ \ {"COO", "ECO"}], heard) BY <2>2
  <2>q. QED BY <2>3, ChangeoverDoneGood DEF RxCoa
<1>3. Good(RxEco(s, i), heard)
  <2> DEFINE t == StopAll(s, i, IF "ECO" \in s.sent[i] THEN {"t1", "t2"} ELSE {"t1"})
             n == [t EXCEPT !.sent[i] = @ \ {"CBD", "COO"}]
             answer == IF "ECO" \notin n.sent[i] /\ n.changeover[i] = "NO_CHANGEOVER"
                       THEN "COA" ELSE "ECA"
  <2>1. Good(t, heard) BY SendGood
  <2>2. answer # "TRA" /\ RxEco(s, i) = TimedChangeover(NetMngSend(n, i, answer), i)
    BY DEF RxEco
  <2> HIDE DEF t, answer
  <2>3. \A v : Good([t EXCEPT !.sent[i] = v], heard) BY <2>1, SendGood
  <2>4. Good(n, heard) BY <2>3
  <2> HIDE DEF n
  <2>5. Good(NetMngSend(n, i, answer), heard) BY <2>2, <2>4, SendGood
  <2>q. QED BY <2>2, <2>5, CancelGood
<1>4. Good(RxEca(s, i), heard)
  <2>1. Good(Stop(s, i, "t2"), heard) BY SendGood, TimersKnown
  <2>2. \A v : Good([Stop(s, i, "t2") EXCEPT !.sent[i] = v], heard) BY <2>1, SendGood
  <2>3. Good([Stop(s, i, "t2") EXCEPT !.sent[i] = @ \ {"COO", "ECO"}], heard) BY <2>2
  <2>q. QED BY <2>3, CancelGood DEF RxEca
<1>5. Good(RxCbd(s, i), heard)
  <2>1. Good(NetMngSend(s, i, "CBA"), heard) BY SendGood
  <2>q. QED BY <2>1, ChangebackGood DEF RxCbd
<1>6. Good(RxCba(s, i), heard)
  <2> DEFINE n == [s EXCEPT !.sent[i] = @ \ {"CBD"}]
  <2>1. \A v : Good([s EXCEPT !.sent[i] = v], heard) BY SendGood
  <2>2. Good(n, heard) BY <2>1
  <2>3. RxCba(s, i) \in {s, Changeback(StopAll(n, i, {"t4", "t5"}), i)} BY DEF RxCba
  <2> HIDE DEF n
  <2>4. Good(StopAll(n, i, {"t4", "t5"}), heard) BY <2>2, SendGood
  <2>q. QED BY <2>3, <2>4, ChangebackGood
<1>q. QED BY <1>1, <1>2, <1>3, <1>4, <1>5, <1>6

LEMMA RxInhibitGood ==
    ASSUME NEW s, NEW heard, NEW i \in Link, Good(s, heard)
    PROVE  /\ Good(RxLin(s, i), heard) /\ Good(RxLia(s, i), heard) /\ Good(RxLid(s, i), heard)
           /\ Good(RxLun(s, i), heard) /\ Good(RxLua(s, i), heard) /\ Good(RxLfu(s, i), heard)
           /\ Good(RxLlt(s, i), heard) /\ Good(RxLrt(s, i), heard)
<1>1. Good(RxLin(s, i), heard)
  <2> DEFINE n == NetMngSend(s, i, "LIA")
             m == [n EXCEPT !.inhibit[i] = @ \cup {"REMOTELY"}]
  <2>1. Good(n, heard) /\ Good(NetMngSend(s, i, "LID"), heard) BY SendGood
  <2>2. RxLin(s, i) \in {NetMngSend(s, i, "LID"), Start(TimedChangeover(m, i), i, "t23")}
    BY DEF RxLin
  <2> HIDE DEF n
  <2>3. \A v : Good([n EXCEPT !.inhibit[i] = v], heard) BY <2>1, SendGood
  <2>4. Good(m, heard) BY <2>3
  <2> HIDE DEF m
  <2>5. Good(TimedChangeover(m, i), heard) BY <2>4, CancelGood
  <2> DEFINE u == TimedChangeover(m, i)
  <2> HIDE DEF u
  <2>6. Good(u, heard) BY <2>5 DEF u
  <2>7. Good(Start(u, i, "t23"), heard) BY <2>6, SendGood, TimersKnown
  <2>q. QED BY <2>1, <2>2, <2>7 DEF u
<1>2. Good(RxLia(s, i), heard)
  <2> DEFINE a == TimedChangeover(s, i)
             m == [a EXCEPT !.sent[i] = @ \ {"LIN"}, !.inhibit[i] = @ \cup {"LOCALLY"}]
             b == TimedChangeover(m, i)
             c == LiaRestarts(b, i)
  <2>1. Good(a, heard) BY CancelGood
  <2>2. RxLia(s, i) \in {s, Stop(Start(c, i, "t22"), i, "t14")} BY DEF RxLia, NoteLia
  <2> HIDE DEF a
  <2>3. \A v, w : Good([a EXCEPT !.sent[i] = v, !.inhibit[i] = w], heard) BY <2>1, SendGood
  <2>4. Good(m, heard) BY <2>3
  <2> HIDE DEF m
  <2>5. Good(b, heard) BY <2>4, CancelGood
  <2> HIDE DEF b
  <2>6. Good(c, heard)
    <3>1. Sound(NetMngSend(b, i, "TRA"), heard, {}) BY <2>5, TraSent DEF Good
    <3>q. QED BY <2>5, <3>1, Ss7CheckGood DEF LiaRestarts
  <2> HIDE DEF c
  <2>7. Good(Start(c, i, "t22"), heard) BY <2>6, SendGood, TimersKnown
  <2>8. Good(Stop(Start(c, i, "t22"), i, "t14"), heard) BY <2>7, SendGood, TimersKnown
  <2>q. QED BY <2>2, <2>8
<1>3. Good(RxLid(s, i), heard)
  <2>1. \A v : Good([s EXCEPT !.sent[i] = v], heard) BY SendGood
  <2>2. Good([s EXCEPT !.sent[i] = @ \ {"LIN"}], heard) BY <2>1
  <2>q. QED BY <2>2, SendGood, TimersKnown DEF RxLid
<1>4. Good(RxLun(s, i), heard)
  <2> DEFINE a == [s EXCEPT !.sent[i] = @ \ {"LFU"}]
             n == NetMngSend(a, i, "LUA")
             m == [n EXCEPT !.inhibit[i] = @ \ {"REMOTELY"}]
  <2>1. RxLun(s, i) = StopAll(Changeback(m, i), i, {"t23", "t13"}) BY DEF RxLun
  <2>2. \A v : Good([s EXCEPT !.sent[i] = v], heard) BY SendGood
  <2>3. Good(a, heard) BY <2>2
  <2> HIDE DEF a
  <2>4. Good(n, heard) BY <2>3, SendGood
  <2> HIDE DEF n
  <2>5. \A v : Good([n EXCEPT !.inhibit[i] = v], heard) BY <2>4, SendGood
  <2>6. Good(m, heard) BY <2>5
  <2> HIDE DEF m
  <2>7. Good(Changeback(m, i), heard) BY <2>6, ChangebackGood
  <2>8. \A T : Good(StopAll(Changeback(m, i), i, T), heard) BY <2>7, SendGood
  <2>q. QED BY <2>1, <2>8
<1>5. Good(RxLua(s, i), heard)
  <2> DEFINE m == [s EXCEPT !.sent[i] = @ \ {"LUN"}, !.inhibit[i] = @ \ {"LOCALLY"}]
  <2>1. RxLua(s, i) \in {s, StopAll(Changeback(m, i), i, {"t12", "t22"})} BY DEF RxLua
  <2>2. \A v, w : Good([s EXCEPT !.sent[i] = v, !.inhibit[i] = w], heard) BY SendGood
  <2>3. Good(m, heard) BY <2>2
  <2> HIDE DEF m
  <2>4. Good(Changeback(m, i), heard) BY <2>3, ChangebackGood
  <2>5. \A T : Good(StopAll(Changeback(m, i), i, T), heard) BY <2>4, SendGood
  <2>q. QED BY <2>1, <2>5
<1>6. Good(RxLfu(s, i), heard) /\ Good(RxLlt(s, i), heard) /\ Good(RxLrt(s, i), heard)
  <2>1. Good(NetMngSend(s, i, "LUN"), heard) /\ Good(NetMngSend(s, i, "LFU"), heard)
    BY SendGood
  <2>q. QED BY <2>1 DEF RxLfu, RxLlt, RxLrt
<1>q. QED BY <1>1, <1>2, <1>3, <1>4, <1>5, <1>6

LEMMA NetMngReceiveGood ==
    ASSUME NEW s, NEW heard, NEW i \in Link, NEW msg, NEW acked, Good(s, heard)
    PROVE  Good(NetMngReceive(s, i, msg, acked), heard)
<1>1. AdjSp[i] \in Sp BY DestAssumption
<1>2. Good(RxTra(s, AdjSp[i]), heard) BY <1>1, RxTraGood
<1>q. QED BY <1>2, RxChangeoverGood, RxInhibitGood DEF NetMngReceive

\* RxSlta: the link has passed its test.
LEMMA PassedGood ==
    ASSUME NEW s, NEW heard, NEW i \in Link, Good(s, heard)
    PROVE  Good([Stop(s, i, "q707_t1") EXCEPT !.failed[i] = 0, !.passed[i] = TRUE], heard)
<1> DEFINE a == Stop(s, i, "q707_t1")
           n == [a EXCEPT !.failed[i] = 0, !.passed[i] = TRUE]
<1>1. Good(a, heard) BY SendGood, TimersKnown
<1> HIDE DEF a
<1>2. Whole(a) /\ Typed(a) BY <1>1, WholeOf DEF Good, Sound
<1>3. /\ n.passed = [a.passed EXCEPT ![i] = TRUE] /\ n.t21 = a.t21 /\ n.sp = a.sp
      /\ n.tra = a.tra /\ n.state = a.state /\ n.ev = a.ev
      /\ n.linkset_up = a.linkset_up /\ n.evrefused = a.evrefused
  BY <1>2 DEF Whole, Core
<1>4. Typed(n) BY <1>2 DEF Typed, Whole, Core
<1> HIDE DEF n
<1>5. \A sp : Reachable(a, sp) \subseteq Reachable(n, sp)
  <2>1. a.passed \in [Link -> BOOLEAN] BY <1>2 DEF Typed
  <2>q. QED BY <1>3, <2>1 DEF Reachable, PassedLinks
<1>6. Backed(n, {}) BY <1>1, <1>3, <1>5 DEF Backed, Good, Sound
<1>7. Truthful(n, heard) /\ Timed(n) /\ Follows(n)
  BY <1>1, <1>3 DEF Truthful, Timed, Follows, SpUp, Good, Sound
<1>q. QED BY <1>4, <1>6, <1>7 DEF Good, Sound, n, a

LEMMA RxTestGood ==
    ASSUME NEW s, NEW heard, NEW i \in Link, Good(s, heard)
    PROVE  /\ Good(RxSltm(s, i), heard) /\ Good(RxSlta(s, i), heard)
           /\ Good(RxSltaMismatch(s, i), heard)
<1>1. Good(RxSltm(s, i), heard)
  <2>1. Same(s, RxSltm(s, i)) BY WholeOf DEF Same, Whole, Core, RxSltm
  <2>q. QED BY <2>1, SameSound
<1>2. Good(RxSlta(s, i), heard)
  <2> DEFINE n == [Stop(s, i, "q707_t1") EXCEPT !.failed[i] = 0, !.passed[i] = TRUE]
             c == NetMngSend(n, i, "CBD")
             d == IF c.changeover[i] = "CHANGEOVER_COMPLETED" THEN c
                  ELSE CancelChangeover(c, i)
             b == [d EXCEPT !.changeover[i] = "CHANGEBACK_INITIATED"]
  <2>1. RxSlta(s, i) \in {InitPeer(b, i), InitPeer(n, i)} BY DEF RxSlta
  <2>2. Good(n, heard) BY PassedGood
  <2> HIDE DEF n
  <2>3. Good(c, heard) BY <2>2, SendGood
  <2> HIDE DEF c
  <2>4. Same(c, d) BY <2>3, WholeOf, ChangeoverSame, SameItself
  <2> HIDE DEF d
  <2>5. Same(d, b) BY <2>4 DEF Same, Whole, Core
  <2> HIDE DEF b
  <2>6. Good(b, heard) BY <2>3, <2>4, <2>5, SameSound
  <2>q. QED BY <2>1, <2>2, <2>6, InitPeerGood DEF Good
<1>3. Good(RxSltaMismatch(s, i), heard)
  <2> DEFINE a == Stop(s, i, "q707_t1")
             n == [a EXCEPT !.failed[i] = 1]
  <2>1. Good(a, heard) BY SendGood, TimersKnown
  <2>2. RxSltaMismatch(s, i) = Start(LinkFailed(n, i), i, "q707_t2") BY DEF RxSltaMismatch
  <2> HIDE DEF a
  <2>3. Same(a, n) BY <2>1, WholeOf DEF Same, Whole, Core
  <2> HIDE DEF n
  <2>4. Good(LinkFailed(n, i), heard) BY <2>1, <2>3, SameSound, LinkFailedGood
  <2>5. Good(Start(LinkFailed(n, i), i, "q707_t2"), heard) BY <2>4, SendGood, TimersKnown
  <2>q. QED BY <2>2, <2>5
<1>q. QED BY <1>1, <1>2, <1>3

-------------------------------------------------------------------------------
(* Timers. *)

LEMMA T1ExpiredGood ==
    ASSUME NEW s, NEW heard, NEW i \in Link, Good(s, heard)
    PROVE  Good(T1Expired(s, i), heard)
<1> DEFINE f == Forget(s, i, "t1")
           n == [f EXCEPT !.changeover[i] = "CHANGEOVER_COMPLETED", !.co_buf[i] = <<>>]
           u == Transmit(n, s.co_buf[i])
<1>1. Good(f, heard) BY SendGood, TimersKnown
<1>2. T1Expired(s, i) = FreeCo(u, i) BY DEF T1Expired
<1> HIDE DEF f
<1>3. Same(f, n) BY <1>1, WholeOf DEF Same, Whole, Core
<1> HIDE DEF n
<1>4. Good(n, heard) BY <1>1, <1>3, SameSound
<1>5. Good(u, heard) BY <1>4, SendGood
<1> HIDE DEF u
<1>q. QED BY <1>2, <1>5, SendGood

LEMMA T2ExpiredGood ==
    ASSUME NEW s, NEW heard, NEW i \in Link, Good(s, heard)
    PROVE  Good(T2Expired(s, i), heard)
<1> DEFINE f == Forget(s, i, "t2")
           n == [f EXCEPT !.sent[i] = @ \ {"COO", "ECO"}, !.co_tx_q[i] = <<>>, !.co_buf[i] = <<>>]
           u == Transmit(n, s.co_tx_q[i] \o s.co_buf[i])
           m == [u EXCEPT !.changeover[i] = "CHANGEOVER_COMPLETED"]
<1>1. Good(f, heard) BY SendGood, TimersKnown
<1>2. T2Expired(s, i) = Check(FreeCo(m, i), AdjSp[i]) BY DEF T2Expired
<1> HIDE DEF f
<1>3. Same(f, n) BY <1>1, WholeOf DEF Same, Whole, Core
<1> HIDE DEF n
<1>4. Good(n, heard) BY <1>1, <1>3, SameSound
<1>5. Good(u, heard) BY <1>4, SendGood
<1> HIDE DEF u
<1>6. Same(u, m) BY <1>5, WholeOf DEF Same, Whole, Core
<1> HIDE DEF m
<1>7. Good(m, heard) BY <1>5, <1>6, SameSound
<1>8. Good(FreeCo(m, i), heard) BY <1>7, SendGood
<1>q. QED BY <1>2, <1>8, GoodShaken

LEMMA T3ExpiredGood ==
    ASSUME NEW s, NEW heard, NEW i \in Link, Good(s, heard)
    PROVE  Good(T3Expired(s, i), heard)
<1> DEFINE f == Forget(s, i, "t3")
           n == [f EXCEPT !.changeover[i] = "NO_CHANGEOVER", !.cb_buf[i] = <<>>]
           u == Transmit(n, s.cb_buf[i])
<1>1. Good(f, heard) BY SendGood, TimersKnown
<1>2. T3Expired(s, i) = FreeCo(Ss7Check(u), i) BY DEF T3Expired
<1> HIDE DEF f
<1>3. Same(f, n) BY <1>1, WholeOf DEF Same, Whole, Core
<1> HIDE DEF n
<1>4. Good(n, heard) BY <1>1, <1>3, SameSound
<1>5. Good(u, heard) BY <1>4, SendGood
<1> HIDE DEF u
<1>6. Good(Ss7Check(u), heard) BY <1>5, Ss7CheckGood DEF Good
<1>7. Good(FreeCo(Ss7Check(u), i), heard) BY <1>6, SendGood
<1>q. QED BY <1>2, <1>7

LEMMA RequestExpiredGood ==
    ASSUME NEW s, NEW heard, NEW i \in Link, Good(s, heard)
    PROVE  /\ Good(T12Expired2nd(s, i), heard) /\ Good(T14Expired2nd(s, i), heard)
           /\ Good(T4Expired(s, i), heard) /\ Good(T5Expired(s, i), heard)
           /\ Good(T22Expired(s, i), heard) /\ Good(T23Expired(s, i), heard)
<1>1. Good(T12Expired2nd(s, i), heard)
  <2>1. Good(Forget(s, i, "t12"), heard) BY SendGood, TimersKnown
  <2>2. \A v : Good([Forget(s, i, "t12") EXCEPT !.sent[i] = v], heard) BY <2>1, SendGood
  <2>q. QED BY <2>2 DEF T12Expired2nd
<1>2. Good(T14Expired2nd(s, i), heard)
  <2>1. Good(Forget(s, i, "t14"), heard) BY SendGood, TimersKnown
  <2>2. \A v, w : Good([Forget(s, i, "t14") EXCEPT !.sent[i] = v, !.inhibit[i] = w], heard)
    BY <2>1, SendGood
  <2>q. QED BY <2>2 DEF T14Expired2nd
<1>3. Good(T4Expired(s, i), heard)
  <2> DEFINE n == NetMngSend(s, i, "CBD")
             f == Forget(n, i, "t4")
  <2>1. T4Expired(s, i) = Start(f, i, "t5") BY DEF T4Expired
  <2>2. Good(n, heard) BY SendGood
  <2> HIDE DEF n
  <2>3. Good(f, heard) BY <2>2, SendGood, TimersKnown
  <2> HIDE DEF f
  <2>4. Good(Start(f, i, "t5"), heard) BY <2>3, SendGood, TimersKnown
  <2>q. QED BY <2>1, <2>4
<1>4. Good(T5Expired(s, i), heard)
  <2> DEFINE f == Forget(s, i, "t5")
  <2>1. Good(f, heard) BY SendGood, TimersKnown
  <2>2. T5Expired(s, i) = T3Expired([f EXCEPT !.sent[i] = @ \ {"CBD"}], i) BY DEF T5Expired
  <2> HIDE DEF f
  <2>3. \A v : Good([f EXCEPT !.sent[i] = v], heard) BY <2>1, SendGood
  <2>4. Good([f EXCEPT !.sent[i] = @ \ {"CBD"}], heard) BY <2>3
  <2>q. QED BY <2>2, <2>4, T3ExpiredGood
<1>5. Good(T22Expired(s, i), heard) /\ Good(T23Expired(s, i), heard)
  <2> DEFINE n == NetMngSend(s, i, "LLT")
             m == NetMngSend(s, i, "LRT")
  <2>1. /\ T22Expired(s, i) \in {Schedule(n, i, "t22", "1st"), Forget(s, i, "t22")}
        /\ T23Expired(s, i) \in {Schedule(m, i, "t23", "1st"), Forget(s, i, "t23")}
    BY DEF T22Expired, T23Expired
  <2>2. /\ Good(n, heard) /\ Good(m, heard)
        /\ Good(Forget(s, i, "t22"), heard) /\ Good(Forget(s, i, "t23"), heard)
    BY SendGood, TimersKnown
  <2> HIDE DEF n, m
  <2>3. Good(Schedule(n, i, "t22", "1st"), heard) BY <2>2, SendGood, TimersKnown
  <2>4. Good(Schedule(m, i, "t23", "1st"), heard) BY <2>2, SendGood, TimersKnown
  <2>q. QED BY <2>1, <2>2, <2>3, <2>4
<1>q. QED BY <1>1, <1>2, <1>3, <1>4, <1>5

LEMMA Q707ExpiredGood ==
    ASSUME NEW s, NEW heard, NEW i \in Link, Good(s, heard)
    PROVE  Good(Q707T1Expired(s, i), heard) /\ Good(Q707T2Expired(s, i), heard)
<1>1. Good(Q707T1Expired(s, i), heard)
  <2> DEFINE f == Forget(s, i, "q707_t1")
             a == [f EXCEPT !.failed[i] = 1]
             b == [f EXCEPT !.failed[i] = 0]
             c == Stop(b, i, "q707_t2")
             d == EventLinkDown(c, i)
  <2>1. Q707T1Expired(s, i) \in {StdTestSend(a, i), StdTestSend(d, i)} BY DEF Q707T1Expired
  <2>2. Good(f, heard) BY SendGood, TimersKnown
  <2> HIDE DEF f
  <2>3. Same(f, a) /\ Same(f, b) BY <2>2, WholeOf DEF Same, Whole, Core
  <2> HIDE DEF a, b
  <2>4. Good(a, heard) /\ Good(b, heard) BY <2>2, <2>3, SameSound
  <2>5. Good(c, heard) BY <2>4, SendGood, TimersKnown
  <2> HIDE DEF c
  <2>6. Good(d, heard) BY <2>5, EventLinkDownGood
  <2> HIDE DEF d
  <2>7. Good(StdTestSend(a, i), heard) /\ Good(StdTestSend(d, i), heard)
    BY <2>4, <2>6, SendGood
  <2>q. QED BY <2>1, <2>7
<1>2. Good(Q707T2Expired(s, i), heard)
  <2> DEFINE n == StdTestSend(s, i)
  <2>1. Good(n, heard) BY SendGood
  <2> HIDE DEF n
  <2>2. Good(Schedule(n, i, "q707_t2", "1st"), heard) BY <2>1, SendGood, TimersKnown
  <2>q. QED BY <2>2 DEF Q707T2Expired, n
<1>q. QED BY <1>1, <1>2

LEMMA ExpiredGood ==
    ASSUME NEW s, NEW heard, NEW i \in Link, NEW t \in LinkTimer, NEW c \in Callback,
           Good(s, heard)
    PROVE  Good(Expired(s, i, t, c), heard)
<1>1. /\ t \in {"t1", "t2", "t3", "t4", "t5", "t12", "t13", "t14", "t22", "t23",
                "q707_t1", "q707_t2"}
      /\ c \in {"1st", "2nd"}
  BY DEF LinkTimer, CoCbTimer, OtherTimer, Callback
<1>2. /\ Good(NetMngSend(s, i, "LUN"), heard) /\ Good(NetMngSend(s, i, "LFU"), heard)
      /\ Good(NetMngSend(s, i, "LIN"), heard) /\ Good(Forget(s, i, "t13"), heard)
  BY SendGood, TimersKnown
<1>3. /\ Good(T1Expired(s, i), heard) /\ Good(T2Expired(s, i), heard)
      /\ Good(T3Expired(s, i), heard)
  BY T1ExpiredGood, T2ExpiredGood, T3ExpiredGood
<1>q. QED BY <1>1, <1>2, <1>3, RequestExpiredGood, Q707ExpiredGood DEF Expired

\* linkset_up_timer expires: the application is told UP.
LEMMA LinksetUpExpiredGood ==
    ASSUME NEW s, NEW heard, Good(s, heard), s.linkset_up
    PROVE  Good(LinksetUpExpired(s), heard)
<1> DEFINE d == [s EXCEPT !.linkset_up = FALSE]
           e == [e |-> "UP"]
           p == PostEvent(d, e)
<1>1. e \in AppEvent /\ e.e = "UP" BY DEF AppEvent
<1>2. Typed(s) /\ Whole(s) BY DEF Good, Sound, Typed
<1>3. Typed(d) BY <1>2 DEF Typed, Whole, Core
<1>4. Typed(p) BY <1>1, <1>3, PostedTyped
<1>5. /\ p.passed = s.passed /\ p.sp = s.sp /\ p.tra = s.tra /\ p.t21 = s.t21
      /\ p.state = s.state /\ p.linkset_up = FALSE
      /\ \/ EventRoom(d) /\ p.ev = Append(s.ev, e)
         \/ ~EventRoom(d) /\ p.evrefused
  BY <1>2 DEF PostEvent, Whole, Core
<1>6. Says(Append(s.ev, e), heard, "UP") BY <1>1, <1>2, SaysAppend DEF Typed
<1>7. LinksetUpExpired(s) = p BY DEF LinksetUpExpired
<1> HIDE DEF p, d
<1>8. s.state = "UP" BY DEF Good, Sound, Truthful
<1>9. Truthful(p, heard) BY <1>5, <1>6, <1>8 DEF Truthful
<1>10. SpUp(p) = SpUp(s) /\ \A sp : Reachable(p, sp) = Reachable(s, sp)
  BY <1>5 DEF SpUp, Reachable, PassedLinks
<1>11. Backed(p, {}) /\ Timed(p) /\ Follows(p)
  BY <1>5, <1>10 DEF Backed, Timed, Follows, Good, Sound
<1>q. QED BY <1>4, <1>7, <1>9, <1>11 DEF Good, Sound

-------------------------------------------------------------------------------
(* The application, and MTP2's events. *)

LEMMA ApplicationGood ==
    ASSUME NEW s, NEW heard, NEW i \in Link, Good(s, heard)
    PROVE  /\ Good(Alarm(s, i), heard) /\ Good(NoAlarm(s, i), heard)
           /\ \A msg : Good(NetMngCommand(s, i, msg), heard)
<1>1. Good(Alarm(s, i), heard)
  <2> DEFINE n == [s EXCEPT !.linkstate[i] = "INALARM"]
  <2>1. Same(s, n) BY WholeOf DEF Same, Whole, Core
  <2>2. Alarm(s, i) = Ss7Check(LinkFailed(n, i)) BY DEF Alarm
  <2> HIDE DEF n
  <2>3. Good(LinkFailed(n, i), heard) BY <2>1, SameSound, LinkFailedGood
  <2>q. QED BY <2>2, <2>3, Ss7CheckGood DEF Good
<1>2. Good(NoAlarm(s, i), heard)
  <2>1. Same(s, NoAlarm(s, i)) BY WholeOf DEF Same, Whole, Core, NoAlarm
  <2>q. QED BY <2>1, SameSound
<1>3. \A msg : Good(NetMngCommand(s, i, msg), heard)
  <2>1. Good(NetMngSend(s, i, "TRA"), heard) BY TraSent DEF Good
  <2>q. QED BY <2>1, SendGood DEF NetMngCommand
<1>q. QED BY <1>1, <1>2, <1>3

\* MTP2 posts that a link enters or leaves service.
LEMMA PostLinkEventGood ==
    ASSUME NEW s, NEW heard, NEW e \in LinkEvent, Good(s, heard)
    PROVE  Good(PostEvent(s, e), heard)
<1> DEFINE p == PostEvent(s, e)
<1>1. Typed(s) /\ Whole(s) /\ Truthful(s, heard) BY DEF Good, Sound, Typed
<1>2. Typed(p) BY <1>1, PostedTyped
<1>3. /\ p.passed = s.passed /\ p.sp = s.sp /\ p.tra = s.tra /\ p.t21 = s.t21
      /\ p.state = s.state /\ p.linkset_up = s.linkset_up
      /\ \/ p.ev = Append(s.ev, e) /\ p.evrefused = s.evrefused
         \/ p.evrefused
  BY <1>1 DEF PostEvent, Whole, Core
<1> HIDE DEF p
<1>4. \A v : Says(s.ev, heard, v) => Says(Append(s.ev, e), heard, v)
  BY <1>1, SaysAppend DEF Typed
<1>5. Truthful(p, heard) BY <1>1, <1>3, <1>4 DEF Truthful
<1>6. SpUp(p) = SpUp(s) /\ \A sp : Reachable(p, sp) = Reachable(s, sp)
  BY <1>3 DEF SpUp, Reachable, PassedLinks
<1>7. Backed(p, {}) /\ Timed(p) /\ Follows(p)
  BY <1>3, <1>6 DEF Backed, Timed, Follows, Good, Sound
<1>q. QED BY <1>2, <1>5, <1>7 DEF Good, Sound, p

\* The application takes the next event, and MTP3 with it if it is a link's.
LEMMA CheckEventGood ==
    ASSUME NEW s, NEW heard, s.ev # <<>>, Good(s, heard)
    PROVE  Good(ProcessEvent([s EXCEPT !.ev = Tail(@)], Head(s.ev)),
                IF Head(s.ev).e \in {"UP", "DOWN"} THEN Head(s.ev).e ELSE heard)
<1> DEFINE n == [s EXCEPT !.ev = Tail(@)]
           e == Head(s.ev)
           now == IF e.e \in {"UP", "DOWN"} THEN e.e ELSE heard
<1>1. Typed(s) /\ Whole(s) /\ Truthful(s, heard) BY DEF Good, Sound, Typed
<1>2. s.ev \in Seq(LinkEvent \cup AppEvent) BY <1>1 DEF Typed
<1>3. e \in LinkEvent \cup AppEvent /\ Tail(s.ev) \in Seq(LinkEvent \cup AppEvent)
  BY <1>2, HeadTailProperties
<1>4. \A v : Says(s.ev, heard, v) => Says(Tail(s.ev), now, v) BY <1>2, SaysTail
<1> HIDE DEF e, now
<1>5. Typed(n) BY <1>1, <1>3 DEF Typed, Whole, Core
<1>6. /\ n.passed = s.passed /\ n.sp = s.sp /\ n.tra = s.tra /\ n.t21 = s.t21
      /\ n.state = s.state /\ n.linkset_up = s.linkset_up /\ n.ev = Tail(s.ev)
      /\ n.evrefused = s.evrefused
  BY <1>1 DEF Whole, Core
<1> HIDE DEF n
<1>7. Truthful(n, now) BY <1>1, <1>4, <1>6 DEF Truthful
<1>8. SpUp(n) = SpUp(s) /\ \A sp : Reachable(n, sp) = Reachable(s, sp)
  BY <1>6 DEF SpUp, Reachable, PassedLinks
<1>9. Backed(n, {}) /\ Timed(n) /\ Follows(n)
  BY <1>6, <1>8 DEF Backed, Timed, Follows, Good, Sound
<1>10. Good(n, now) BY <1>5, <1>7, <1>9 DEF Good, Sound
<1>11. e.e \in {"LINK_UP", "LINK_DOWN"} => e.link \in Link
  BY <1>3 DEF LinkEvent, AppEvent
<1>12. e.e = "LINK_UP" => Good(EventLinkUp(n, e.link), now) BY <1>10, <1>11, SendGood
<1>13. e.e = "LINK_DOWN" => Good(EventLinkDown(n, e.link), now)
  BY <1>10, <1>11, EventLinkDownGood
<1>14. Good(ProcessEvent(n, e), now) BY <1>10, <1>12, <1>13 DEF ProcessEvent
<1>q. QED BY <1>14 DEF n, e, now

-------------------------------------------------------------------------------
(* Inhibiting.  As long as every adjacent SP is up and has a link, no function *)
(* tidies the links up, and the requests to inhibit and to uninhibit a link,   *)
(* the inhibited links and their timers belong together.                       *)

RequestTimer == {"t12", "t14", "t22", "t23"}

Laid(s) ==
    /\ Whole(s) /\ {"timer", "sent", "inhibit"} \subseteq DOMAIN s
    /\ s.timer \in [Link -> [LinkTimer -> Callback \cup {"off", "stale"}]]
    /\ s.sent \in [Link -> SUBSET SentMsg]
    /\ s.inhibit \in [Link -> SUBSET Inhibit]

\* A function that leaves the requests and the inhibited links alone, too.
Mute(s, n) ==
    /\ Laid(n)
    /\ n.inhibit = s.inhibit
    /\ \A i \in Link, t \in RequestTimer : n.timer[i][t] = s.timer[i][t]
    /\ \A i \in Link, m \in {"LIN", "LUN"} : m \in n.sent[i] <=> m \in s.sent[i]

Quiet(s, n) == Same(s, n) /\ Mute(s, n)

LEMMA QuietItself ==
    ASSUME NEW s, Laid(s)
    PROVE  Quiet(s, s)
BY SameItself DEF Quiet, Mute, Laid

LEMMA QuietTransitive ==
    ASSUME NEW s, NEW n, NEW m, Quiet(s, n), Quiet(n, m)
    PROVE  Quiet(s, m)
<1>1. Same(s, m) BY SameTransitive DEF Quiet
<1>2. Mute(s, m) BY DEF Quiet, Mute
<1>q. QED BY <1>1, <1>2 DEF Quiet

LEMMA QuietLaid ==
    ASSUME NEW s, NEW n, Quiet(s, n)
    PROVE  Laid(n) /\ Whole(n)
BY DEF Quiet, Mute, Laid

LEMMA RequestTimers ==
    /\ RequestTimer \subseteq LinkTimer
    /\ LinkTimer \ RequestTimer = {"t1", "t2", "t3", "t4", "t5", "t13", "q707_t1", "q707_t2"}
BY DEF RequestTimer, LinkTimer, CoCbTimer, OtherTimer

LEMMA TimersQuiet ==
    ASSUME NEW s, Laid(s), NEW i \in Link, NEW t \in LinkTimer \ RequestTimer
    PROVE  /\ Quiet(s, Stop(s, i, t)) /\ Quiet(s, Start(s, i, t)) /\ Quiet(s, Restart(s, i, t))
           /\ Quiet(s, ScheduleNext(s, i, t)) /\ Quiet(s, Forget(s, i, t))
           /\ \A c \in Callback : Quiet(s, Schedule(s, i, t, c))
<1>1. Whole(s) BY DEF Laid
<1>2. t \in LinkTimer /\ "1st" \in Callback /\ "2nd" \in Callback BY DEF Callback
<1>3. Quiet(s, Stop(s, i, t))
  <2>1. Same(s, Stop(s, i, t)) BY <1>1, <1>2, TimersSame
  <2>2. Mute(s, Stop(s, i, t)) BY DEF Mute, Laid, Whole, Stop
  <2>q. QED BY <2>1, <2>2 DEF Quiet
<1>4. Quiet(s, Forget(s, i, t))
  <2>1. Same(s, Forget(s, i, t)) BY <1>1, <1>2, TimersSame
  <2>2. Mute(s, Forget(s, i, t)) BY DEF Mute, Laid, Whole, Core, Forget
  <2>q. QED BY <2>1, <2>2 DEF Quiet
<1>5. ASSUME NEW n, Laid(n), NEW c \in Callback PROVE Quiet(n, Schedule(n, i, t, c))
  <2>1. Same(n, Schedule(n, i, t, c)) BY <1>2, <1>5, TimersSame DEF Laid
  <2>2. Mute(n, Schedule(n, i, t, c)) BY <1>5 DEF Mute, Laid, Whole, Core, Schedule
  <2>q. QED BY <2>1, <2>2 DEF Quiet
<1>6. Quiet(s, Restart(s, i, t))
  <2>1. Laid(Stop(s, i, t)) BY <1>3, QuietLaid
  <2>2. Quiet(Stop(s, i, t), Restart(s, i, t)) BY <1>2, <1>5, <2>1 DEF Restart
  <2>q. QED BY <1>3, <2>2, QuietTransitive
<1>7. Quiet(s, Start(s, i, t)) /\ Quiet(s, ScheduleNext(s, i, t))
  BY <1>2, <1>5, QuietItself DEF Start, ScheduleNext
<1>q. QED BY <1>3, <1>4, <1>5, <1>6, <1>7

LEMMA StopAllQuiet ==
    ASSUME NEW s, Laid(s), NEW i \in Link, NEW T, T \cap RequestTimer = {}
    PROVE  Quiet(s, StopAll(s, i, T))
<1>1. Same(s, StopAll(s, i, T)) BY StopAllSame DEF Laid
<1>2. Mute(s, StopAll(s, i, T))
  BY RequestTimers DEF Mute, Laid, Whole, StopAll
<1>q. QED BY <1>1, <1>2 DEF Quiet

\* A field changes that is not looked at, or what has been sent of other messages.
LEMMA FieldsQuiet ==
    ASSUME NEW s, Laid(s), NEW i \in Link
    PROVE  /\ \A msgs : Quiet(s, Transmit(s, msgs))
           /\ Quiet(s, FreeCo(s, i)) /\ Quiet(s, SaveBuffers(s, i))
           /\ \A M \in SUBSET {"COO", "ECO", "CBD", "LFU"} :
                 Quiet(s, [s EXCEPT !.sent[i] = @ \ M])
           /\ \A M \in SUBSET {"COO", "ECO", "CBD", "LFU"} :
                 Quiet(s, [s EXCEPT !.sent[i] = @ \cup M])
<1>1. Whole(s) BY DEF Laid
<1>2. \A msgs : Quiet(s, Transmit(s, msgs))
  <2>1. \A msgs : Mute(s, Transmit(s, msgs)) BY DEF Mute, Laid, Whole, Transmit
  <2>q. QED BY <1>1, <2>1, BuffersSame DEF Quiet
<1>3. Quiet(s, FreeCo(s, i)) /\ Quiet(s, SaveBuffers(s, i))
  <2>1. Mute(s, FreeCo(s, i)) BY DEF Mute, Laid, Whole, FreeCo
  <2>2. Mute(s, SaveBuffers(s, i)) BY DEF Mute, Laid, Whole, SaveBuffers
  <2>q. QED BY <1>1, <2>1, <2>2, BuffersSame DEF Quiet
<1>4. ASSUME NEW M \in SUBSET {"COO", "ECO", "CBD", "LFU"}
      PROVE  /\ Quiet(s, [s EXCEPT !.sent[i] = @ \ M])
             /\ Quiet(s, [s EXCEPT !.sent[i] = @ \cup M])
  <2>1. /\ Same(s, [s EXCEPT !.sent[i] = @ \ M])
        /\ Same(s, [s EXCEPT !.sent[i] = @ \cup M])
    BY <1>1 DEF Same, Whole, Core
  <2>2. M \subseteq SentMsg /\ "LIN" \notin M /\ "LUN" \notin M BY DEF SentMsg
  <2>3. Mute(s, [s EXCEPT !.sent[i] = @ \ M]) BY <2>2 DEF Mute, Laid, Whole
  <2>4. Mute(s, [s EXCEPT !.sent[i] = @ \cup M]) BY <2>2 DEF Mute, Laid, Whole
  <2>q. QED BY <2>1, <2>3, <2>4 DEF Quiet
<1>q. QED BY <1>2, <1>3, <1>4

LEMMA ChangeoverQuiet ==
    ASSUME NEW s, Laid(s), NEW i \in Link
    PROVE  /\ Quiet(s, DropChangeback(s, i)) /\ Quiet(s, StartTimedChangeover(s, i))
           /\ Quiet(s, CancelChangeover(s, i))
<1>1. \A n, T : Laid(n) /\ T \cap RequestTimer = {} => Quiet(n, StopAll(n, i, T))
  BY StopAllQuiet
<1>2. Quiet(s, DropChangeback(s, i))
  <2> DEFINE n == [s EXCEPT !.co_buf[i] = @ \o s.cb_buf[i], !.cb_buf[i] = <<>>,
                            !.changeover[i] = "NO_CHANGEOVER"]
  <2>1. Same(s, n) BY DEF Same, Whole, Core, Laid
  <2>2. Mute(s, n) BY DEF Mute, Laid, Whole
  <2>3. DropChangeback(s, i) = StopAll(n, i, {"t3", "t4", "t5"}) BY DEF DropChangeback
  <2>4. {"t3", "t4", "t5"} \cap RequestTimer = {} BY DEF RequestTimer
  <2> HIDE DEF n
  <2>5. Quiet(s, n) BY <2>1, <2>2 DEF Quiet
  <2>6. Quiet(n, StopAll(n, i, {"t3", "t4", "t5"})) BY <1>1, <2>4, <2>5, QuietLaid
  <2>q. QED BY <2>3, <2>5, <2>6, QuietTransitive
<1>3. Quiet(s, StartTimedChangeover(s, i))
  <2> DEFINE n == [s EXCEPT !.changeover[i] = "CHANGEOVER_IN_PROGRESS",
                            !.co_buf[i] = @ \o s.tx_q[i], !.tx_q[i] = <<>>]
             r == Restart(n, i, "t1")
  <2>1. Same(s, n) BY DEF Same, Whole, Core, Laid
  <2>2. Mute(s, n) BY DEF Mute, Laid, Whole
  <2>3. StartTimedChangeover(s, i) \in {s, FreeCo(r, i)} BY DEF StartTimedChangeover
  <2> HIDE DEF n
  <2>4. Quiet(s, n) BY <2>1, <2>2 DEF Quiet
  <2>5. Quiet(n, r) BY <2>4, QuietLaid, RequestTimers, TimersQuiet
  <2> HIDE DEF r
  <2>6. Quiet(r, FreeCo(r, i)) BY <2>5, QuietLaid, FieldsQuiet
  <2>7. Quiet(s, FreeCo(r, i)) BY <2>4, <2>5, <2>6, QuietTransitive
  <2>q. QED BY <2>3, <2>7, QuietItself
<1>4. Quiet(s, CancelChangeover(s, i))
  <2> DEFINE n == StopAll(s, i, {"t1", "t2"})
             m == [n EXCEPT !.sent[i] = @ \ {"COO", "ECO"},
                            !.cb_buf[i] = @ \o s.co_tx_q[i] \o s.co_buf[i],
                            !.co_buf[i] = <<>>,
                            !.changeover[i] = "NO_CHANGEOVER"]
  <2>1. {"t1", "t2"} \cap RequestTimer = {} BY DEF RequestTimer
  <2>2. Quiet(s, n) BY <1>1, <2>1
  <2>3. CancelChangeover(s, i) = FreeCo(m, i) BY DEF CancelChangeover
  <2> HIDE DEF n
  <2>4. Laid(n) BY <2>2, QuietLaid
  <2>5. Same(n, m) BY <2>4 DEF Same, Whole, Core, Laid
  <2>6. Mute(n, m) BY <2>4 DEF Mute, Laid, Whole, SentMsg
  <2> HIDE DEF m
  <2>7. Quiet(n, m) BY <2>5, <2>6 DEF Quiet
  <2>8. Quiet(m, FreeCo(m, i)) BY <2>7, QuietLaid, FieldsQuiet
  <2>q. QED BY <2>2, <2>3, <2>7, <2>8, QuietTransitive
<1>q. QED BY <1>2, <1>3, <1>4

LEMMA HandOverQuiet ==
    ASSUME NEW s, Laid(s), NEW i \in Link, NEW msg
    PROVE  Quiet(s, HandOver(s, i, msg))
<1>1. Quiet(s, SendFailed(s, i))
  <2> DEFINE a == [s EXCEPT !.sent[i] = @ \ {"COO", "ECO"}]
             n == Stop(a, i, "t2")
             d == DropChangeback(n, i)
             c == [s EXCEPT !.sent[i] = @ \ {"CBD"}]
  <2>1. Quiet(s, a) /\ Quiet(s, c)
    <3>1. /\ {"COO", "ECO"} \in SUBSET {"COO", "ECO", "CBD", "LFU"}
          /\ {"CBD"} \in SUBSET {"COO", "ECO", "CBD", "LFU"}
      OBVIOUS
    <3>q. QED BY <3>1, FieldsQuiet
  <2>2. SendFailed(s, i) \in {StartTimedChangeover(d, i), StartTimedChangeover(n, i),
                              DropChangeback(c, i), s}
    BY DEF SendFailed
  <2> HIDE DEF a, c
  <2>3. Quiet(a, n) BY <2>1, QuietLaid, RequestTimers, TimersQuiet
  <2> HIDE DEF n
  <2>4. Quiet(n, d) BY <2>3, QuietLaid, ChangeoverQuiet
  <2> HIDE DEF d
  <2>5. Quiet(d, StartTimedChangeover(d, i)) /\ Quiet(n, StartTimedChangeover(n, i))
    BY <2>3, <2>4, QuietLaid, ChangeoverQuiet
  <2>6. Quiet(c, DropChangeback(c, i)) BY <2>1, QuietLaid, ChangeoverQuiet
  <2>7. Quiet(s, n) BY <2>1, <2>3, QuietTransitive
  <2>8. Quiet(s, d) BY <2>4, <2>7, QuietTransitive
  <2>q. QED BY <2>1, <2>2, <2>5, <2>6, <2>7, <2>8, QuietItself, QuietTransitive
<1>2. Quiet(s, [s EXCEPT !.out = Append(@, [msg |-> msg, sls |-> i, via |-> Via(s, i)])])
  <2>1. Same(s, [s EXCEPT !.out = Append(@, [msg |-> msg, sls |-> i, via |-> Via(s, i)])])
    BY DEF Same, Whole, Core, Laid
  <2>2. Mute(s, [s EXCEPT !.out = Append(@, [msg |-> msg, sls |-> i, via |-> Via(s, i)])])
    BY DEF Mute, Laid, Whole
  <2>q. QED BY <2>1, <2>2 DEF Quiet
<1>q. QED BY <1>1, <1>2 DEF HandOver

LEMMA SendQuiet ==
    ASSUME NEW s, Laid(s), NEW i \in Link, NEW msg, msg \notin {"LIN", "LUN", "TRA"}
    PROVE  Quiet(s, NetMngSend(s, i, msg))
<1> DEFINE n == IF msg \in SentMsg THEN [s EXCEPT !.sent[i] = @ \cup {msg}] ELSE s
<1>1. Quiet(s, n)
  <2>1. msg \in SentMsg => {msg} \in SUBSET {"COO", "ECO", "CBD", "LFU"} BY DEF SentMsg
  <2>q. QED BY <2>1, FieldsQuiet, QuietItself
<1>2. NoteSent(s, i, msg) \in {n, Schedule(n, i, "t4", "1st"),
                               Schedule(Stop(n, i, "t2"), i, "t2", "1st"),
                               Restart(n, i, "t2"), ScheduleNext(n, i, "t13")}
  BY DEF NoteSent
<1> HIDE DEF n
<1>3. Laid(n) /\ "1st" \in Callback BY <1>1, QuietLaid DEF Callback
<1>4. /\ Quiet(n, n) /\ Quiet(n, Schedule(n, i, "t4", "1st")) /\ Quiet(n, Restart(n, i, "t2"))
      /\ Quiet(n, ScheduleNext(n, i, "t13")) /\ Quiet(n, Stop(n, i, "t2"))
  BY <1>3, RequestTimers, TimersQuiet, QuietItself
<1>5. Quiet(Stop(n, i, "t2"), Schedule(Stop(n, i, "t2"), i, "t2", "1st"))
  BY <1>3, <1>4, QuietLaid, RequestTimers, TimersQuiet
<1>6. Quiet(s, NoteSent(s, i, msg)) BY <1>1, <1>2, <1>4, <1>5, QuietTransitive
<1>q. QED BY <1>6, QuietLaid, HandOverQuiet, QuietTransitive DEF NetMngSend

LEMMA TestSendQuiet ==
    ASSUME NEW s, Laid(s), NEW i \in Link
    PROVE  Quiet(s, StdTestSend(s, i)) /\ Quiet(s, EventLinkUp(s, i))
<1> DEFINE n == [s EXCEPT !.out = Append(@, [msg |-> "SLTM", sls |-> i, via |-> {i}])]
           m == StdTestSend(s, i)
<1>1. Quiet(s, n)
  <2>1. Same(s, n) BY DEF Same, Whole, Core, Laid
  <2>2. Mute(s, n) BY DEF Mute, Laid, Whole
  <2>q. QED BY <2>1, <2>2 DEF Quiet
<1>2. m \in {n, Restart(n, i, "q707_t1")} BY DEF StdTestSend
<1>3. EventLinkUp(s, i) \in {m, Restart(m, i, "q707_t2")} BY DEF EventLinkUp
<1> HIDE DEF n, m
<1>4. Quiet(n, Restart(n, i, "q707_t1")) BY <1>1, QuietLaid, RequestTimers, TimersQuiet
<1>5. Quiet(s, m) BY <1>1, <1>2, <1>4, QuietTransitive
<1>6. Quiet(m, Restart(m, i, "q707_t2")) BY <1>5, QuietLaid, RequestTimers, TimersQuiet
<1>q. QED BY <1>3, <1>5, <1>6, QuietTransitive DEF m

\* Every adjacent SP is up, and has a link.
Up(s)     == s.state = "UP" /\ \A sp \in Sp : s.sp[sp] = "UP" /\ s.tra[sp] = {"GOT", "SENT"}
Linked(s) == \A sp \in Sp : Reachable(s, sp) # {}

\* InhibitTested and RequestsTimed.
Tested(s) == \A i \in Link :
    /\ "LOCALLY"  \in s.inhibit[i] => s.timer[i]["t22"] # "off"
    /\ "REMOTELY" \in s.inhibit[i] => s.timer[i]["t23"] # "off"
Pending(s) == \A i \in Link :
    /\ "LIN" \in s.sent[i] <=> s.timer[i]["t14"] # "off"
    /\ "LUN" \in s.sent[i] <=> s.timer[i]["t12"] # "off"
Asked(s) ==
    /\ {"t22", "t23"} \subseteq Configured => Tested(s)
    /\ "t14" \in Configured => Pending(s)

Calm(s) == Laid(s) /\ Up(s) /\ Linked(s) /\ Asked(s)

LEMMA FieldsCalm ==
    ASSUME NEW s, Calm(s), NEW n, Whole(n), {"timer", "sent", "inhibit"} \subseteq DOMAIN n,
           n.timer = s.timer, n.sent = s.sent, n.inhibit = s.inhibit,
           n.passed = s.passed, n.sp = s.sp, n.tra = s.tra, n.state = s.state
    PROVE  Calm(n)
<1>1. Laid(n) BY DEF Calm, Laid
<1>2. Up(n) /\ Linked(n) BY DEF Calm, Up, Linked, Reachable, PassedLinks
<1>3. Asked(n) BY DEF Calm, Asked, Tested, Pending
<1>q. QED BY <1>1, <1>2, <1>3 DEF Calm

LEMMA SameLinked ==
    ASSUME NEW s, NEW n, Same(s, n)
    PROVE  /\ Up(s) => Up(n)
           /\ Linked(s) <=> Linked(n)
BY DEF Same, Up, Linked, Reachable, PassedLinks

LEMMA QuietCalm ==
    ASSUME NEW s, NEW n, Quiet(s, n), Calm(s)
    PROVE  Calm(n)
<1>1. Up(n) /\ Linked(n) BY SameLinked DEF Quiet, Calm
<1>2. Laid(n) BY QuietLaid
<1>3. Tested(s) => Tested(n) BY DEF Quiet, Mute, Tested, RequestTimer
<1>4. Pending(s) => Pending(n) BY DEF Quiet, Mute, Pending, RequestTimer
<1>q. QED BY <1>1, <1>2, <1>3, <1>4 DEF Calm, Asked

LEMMA CheckCalm ==
    ASSUME NEW s, Calm(s), NEW i \in Link
    PROVE  Check(s, AdjSp[i]) = s
<1>1. AdjSp[i] \in Sp BY DestAssumption
<1>q. QED BY <1>1 DEF Calm, Up, Linked, Check

\* A request to inhibit or uninhibit a link is sent with its timer.
LEMMA RequestCalm ==
    ASSUME NEW s, Calm(s), NEW i \in Link, NEW msg \in {"LIN", "LUN"}
    PROVE  Calm(NetMngSend(s, i, msg))
<1> DEFINE t == IF msg = "LIN" THEN "t14" ELSE "t12"
           n == [s EXCEPT !.sent[i] = @ \cup {msg}]
           m == IF "t14" \in Configured THEN ScheduleNext(n, i, t) ELSE n
<1>1. NoteSent(s, i, msg) = m BY DEF NoteSent, SentMsg
<1>2. Laid(s) /\ Whole(s) BY DEF Calm, Laid
<1>3. Same(s, n) BY <1>2 DEF Same, Whole, Core
<1>4. Laid(n) BY <1>2 DEF Laid, Whole, SentMsg
<1>5. /\ n.timer = s.timer /\ n.inhibit = s.inhibit
      /\ \A j \in Link, x \in {"LIN", "LUN"} :
            x \in n.sent[j] <=> (x \in s.sent[j] \/ (j = i /\ x = msg))
  BY <1>2 DEF Laid, Whole
<1> HIDE DEF n
<1>6. t \in LinkTimer BY TimersKnown
<1>7. ASSUME "t14" \in Configured
      PROVE  /\ Same(n, m) /\ Laid(m) /\ m.inhibit = n.inhibit /\ m.sent = n.sent
             /\ \E c \in Callback : m.timer = [n.timer EXCEPT ![i][t] = c]
  <2>1. PICK c \in Callback : m = Schedule(n, i, t, c)
    BY <1>7 DEF ScheduleNext, Callback
  <2>2. Same(n, m) BY <1>4, <1>6, <2>1, TimersSame DEF Laid
  <2> HIDE DEF m, t
  <2>3. Laid(m) BY <1>4, <1>6, <2>1 DEF Laid, Whole, Core, Schedule
  <2>4. m.inhibit = n.inhibit /\ m.sent = n.sent /\ m.timer = [n.timer EXCEPT ![i][t] = c]
    BY <1>4, <1>6, <2>1 DEF Laid, Whole, Schedule
  <2>q. QED BY <2>2, <2>3, <2>4
<1>8. "t14" \notin Configured => m = n OBVIOUS
<1> HIDE DEF m
<1>9. Same(n, m) /\ Laid(m) BY <1>4, <1>7, <1>8, SameItself DEF Laid
<1>10. Up(m) /\ Linked(m) BY <1>3, <1>9, SameLinked DEF Calm
<1>11. \A j \in Link : /\ m.inhibit[j] = s.inhibit[j]
                       /\ m.timer[j]["t22"] = s.timer[j]["t22"]
                       /\ m.timer[j]["t23"] = s.timer[j]["t23"]
  <2>1. CASE "t14" \notin Configured BY <1>5, <1>8, <2>1
  <2>2. CASE "t14" \in Configured
    <3>1. t # "t22" /\ t # "t23" OBVIOUS
    <3> HIDE DEF t
    <3>2. PICK c \in Callback : m.timer = [n.timer EXCEPT ![i][t] = c] BY <1>7, <2>2
    <3>q. QED BY <1>4, <1>5, <1>7, <2>2, <3>1, <3>2 DEF Laid
  <2>q. QED BY <2>1, <2>2
<1>12. Tested(s) => Tested(m) BY <1>11 DEF Tested
<1>13. ASSUME "t14" \in Configured, Pending(s) PROVE Pending(m)
  <2>1. PICK c \in Callback : m.timer = [n.timer EXCEPT ![i][t] = c] BY <1>7, <1>13
  <2>2. c # "off" BY DEF Callback
  <2>3. m.sent = n.sent BY <1>7, <1>13
  <2>4. n.timer \in [Link -> [LinkTimer -> Callback \cup {"off", "stale"}]] BY <1>4 DEF Laid
  <2>5. "t12" \in LinkTimer /\ "t14" \in LinkTimer BY TimersKnown
  <2>6. CASE msg = "LIN"
    BY <1>5, <1>13, <2>1, <2>2, <2>3, <2>4, <2>5, <2>6 DEF Pending
  <2>7. CASE msg = "LUN"
    BY <1>5, <1>13, <2>1, <2>2, <2>3, <2>4, <2>5, <2>7 DEF Pending
  <2>q. QED BY <2>6, <2>7
<1>14. Calm(m) BY <1>9, <1>10, <1>12, <1>13 DEF Calm, Asked
<1>15. Quiet(m, HandOver(m, i, msg)) BY <1>9, HandOverQuiet
<1>q. QED BY <1>1, <1>14, <1>15, QuietCalm DEF NetMngSend

LEMMA SendCalm ==
    ASSUME NEW s, Calm(s), NEW i \in Link, NEW msg
    PROVE  Calm(NetMngSend(s, i, msg))
<1>1. Laid(s) /\ Whole(s) BY DEF Calm, Laid
<1>2. CASE msg \in {"LIN", "LUN"} BY <1>2, RequestCalm
<1>3. CASE msg \notin {"LIN", "LUN", "TRA"} BY <1>1, <1>3, SendQuiet, QuietCalm
<1>4. CASE msg = "TRA"
  <2> DEFINE n == [s EXCEPT !.tra[AdjSp[i]] = @ \cup {"SENT"},
                            !.t21[AdjSp[i]] = @ \/ "t21" \in Configured]
  <2>1. NoteSent(s, i, msg) = n BY <1>4 DEF NoteSent, SentMsg
  <2>2. /\ Whole(n) /\ {"timer", "sent", "inhibit"} \subseteq DOMAIN n
        /\ n.timer = s.timer /\ n.sent = s.sent /\ n.inhibit = s.inhibit
        /\ n.passed = s.passed /\ n.sp = s.sp /\ n.state = s.state
        /\ n.tra = [s.tra EXCEPT ![AdjSp[i]] = @ \cup {"SENT"}]
    BY <1>1 DEF Whole, Core, Laid
  <2>3. /\ \A sp \in Sp : n.sp[sp] = "UP" /\ n.tra[sp] = {"GOT", "SENT"}
        /\ n.state = "UP"
    BY <2>2 DEF Calm, Up
  <2> HIDE DEF n
  <2>4. Laid(n) BY <1>1, <2>2 DEF Laid
  <2>5. Up(n) /\ Linked(n) BY <2>2, <2>3 DEF Up, Linked, Reachable, PassedLinks, Calm
  <2>6. Asked(n) BY <2>2 DEF Calm, Asked, Tested, Pending
  <2>7. Calm(n) BY <2>4, <2>5, <2>6 DEF Calm
  <2>8. Quiet(n, HandOver(n, i, msg)) BY <2>4, HandOverQuiet
  <2>q. QED BY <2>1, <2>7, <2>8, QuietCalm DEF NetMngSend
<1>q. QED BY <1>2, <1>3, <1>4

LEMMA Ss7CheckCalm ==
    ASSUME NEW s, Calm(s)
    PROVE  Calm(Ss7Check(s))
<1>1. \A n, end, msg : Calm(n) => Calm(Request(n, end, msg))
  <2> TAKE n, end, msg
  <2>1. InhibitedBy(n, end) # {} => First(InhibitedBy(n, end)) \in Link
    BY FirstExists DEF InhibitedBy
  <2>q. QED BY <2>1, SendCalm DEF Request
<1>2. Calm(Uninhibit(s)) BY <1>1 DEF Uninhibit
<1>3. \A n : Calm(n) => LinksetFollows(n) = n
  <2>1. \E sp \in Sp : TRUE
    <3>1. 0 \in Link BY NumLinksAssumption DEF Link
    <3>q. QED BY <3>1, DestAssumption
  <2>q. QED BY <2>1 DEF Calm, Up, SpUp, LinksetFollows
<1>q. QED BY <1>2, <1>3 DEF Ss7Check

LEMMA CancelCalm ==
    ASSUME NEW s, Calm(s), NEW i \in Link
    PROVE  /\ Calm(CancelChangeback(s, i)) /\ Calm(TimedChangeover(s, i))
           /\ Calm(PrepareChangeover(s, i))
<1>1. \A n : Calm(n) => Laid(n) /\ Quiet(n, n) BY QuietItself DEF Calm
<1>2. Calm(DropChangeback(s, i)) BY <1>1, ChangeoverQuiet, QuietCalm
<1>3. Calm(CancelChangeback(s, i)) BY <1>2, CheckCalm DEF CancelChangeback
<1> DEFINE n == CancelChangeback(s, i)
<1> HIDE DEF n
<1>4. Calm(n) BY <1>3 DEF n
<1>5. Calm(StartTimedChangeover(n, i)) BY <1>1, <1>4, ChangeoverQuiet, QuietCalm
<1>6. Calm(SaveBuffers(n, i)) BY <1>1, <1>4, FieldsQuiet, QuietCalm
<1>q. QED BY <1>4, <1>5, <1>6 DEF TimedChangeover, PrepareChangeover, n

\* A buffer or the state of a changeover changes.
LEMMA BuffersCalm ==
    ASSUME NEW s, Calm(s), NEW i \in Link
    PROVE  /\ \A v, w : Calm([s EXCEPT !.changeover[i] = v, !.co_buf[i] = w])
           /\ \A v, w : Calm([s EXCEPT !.changeover[i] = v, !.cb_buf[i] = w])
           /\ \A v, w, x : Calm([s EXCEPT !.changeover[i] = v, !.cb_buf[i] = w, !.tx_q[i] = x])
           /\ \A v : Calm([s EXCEPT !.changeover[i] = v])
           /\ \A v : Calm([s EXCEPT !.co_buf[i] = v])
           /\ \A v : Calm([s EXCEPT !.co_tx_q[i] = v])
           /\ \A v : Calm([s EXCEPT !.failed[i] = v])
           /\ \A v : Calm([s EXCEPT !.linkstate[i] = v])
           /\ \A msgs : Calm(Transmit(s, msgs))
           /\ Calm(FreeCo(s, i)) /\ Calm(CancelChangeover(s, i))
           /\ Calm(StdTestSend(s, i)) /\ Calm(EventLinkUp(s, i))
<1>1. Laid(s) /\ Whole(s) BY DEF Calm, Laid
<1>2. /\ \A v, w : Calm([s EXCEPT !.changeover[i] = v, !.co_buf[i] = w])
      /\ \A v, w : Calm([s EXCEPT !.changeover[i] = v, !.cb_buf[i] = w])
      /\ \A v, w, x : Calm([s EXCEPT !.changeover[i] = v, !.cb_buf[i] = w, !.tx_q[i] = x])
  BY <1>1, FieldsCalm DEF Laid, Whole, Core
<1>3. /\ \A v : Calm([s EXCEPT !.changeover[i] = v])
      /\ \A v : Calm([s EXCEPT !.co_buf[i] = v])
      /\ \A v : Calm([s EXCEPT !.co_tx_q[i] = v])
      /\ \A v : Calm([s EXCEPT !.failed[i] = v])
      /\ \A v : Calm([s EXCEPT !.linkstate[i] = v])
  BY <1>1, FieldsCalm DEF Laid, Whole, Core
<1>4. /\ \A msgs : Calm(Transmit(s, msgs))
      /\ Calm(FreeCo(s, i)) /\ Calm(CancelChangeover(s, i))
      /\ Calm(StdTestSend(s, i)) /\ Calm(EventLinkUp(s, i))
  BY <1>1, FieldsQuiet, ChangeoverQuiet, TestSendQuiet, QuietCalm
<1>q. QED BY <1>2, <1>3, <1>4

\* The timers that are not a request's, and the messages that are none.
LEMMA TimersCalm ==
    ASSUME NEW s, Calm(s), NEW i \in Link
    PROVE  /\ \A t \in LinkTimer \ RequestTimer :
                 /\ Calm(Stop(s, i, t)) /\ Calm(Start(s, i, t)) /\ Calm(Forget(s, i, t))
                 /\ \A c \in Callback : Calm(Schedule(s, i, t, c))
           /\ \A T : T \cap RequestTimer = {} => Calm(StopAll(s, i, T))
           /\ \A M \in SUBSET {"COO", "ECO", "CBD", "LFU"} : Calm([s EXCEPT !.sent[i] = @ \ M])
<1>1. Laid(s) BY DEF Calm
<1>2. \A n : Quiet(s, n) => Calm(n) BY QuietCalm
<1>3. /\ \A t \in LinkTimer \ RequestTimer :
            /\ Quiet(s, Stop(s, i, t)) /\ Quiet(s, Start(s, i, t)) /\ Quiet(s, Forget(s, i, t))
            /\ \A c \in Callback : Quiet(s, Schedule(s, i, t, c))
      /\ \A T : T \cap RequestTimer = {} => Quiet(s, StopAll(s, i, T))
      /\ \A M \in SUBSET {"COO", "ECO", "CBD", "LFU"} : Quiet(s, [s EXCEPT !.sent[i] = @ \ M])
  BY <1>1, TimersQuiet, StopAllQuiet, FieldsQuiet
<1>q. QED BY <1>2, <1>3

LEMMA ChangeoverDoneCalm ==
    ASSUME NEW s, Calm(s), NEW i \in Link, NEW acked
    PROVE  Calm(ChangeoverDone(s, i, acked))
<1> DEFINE n == CancelChangeback(s, i)
           f == FreeCo(n, i)
           c == [f EXCEPT !.co_buf[i] = <<>>]
           msgs == Unacknowledged(n.co_tx_buf[i], acked) \o n.co_tx_q[i] \o n.co_buf[i]
           u == Transmit(c, msgs)
           v == [u EXCEPT !.changeover[i] = "CHANGEOVER_COMPLETED"]
<1>1. Calm(n) BY CancelCalm
<1>2. ChangeoverDone(s, i, acked) \in {n, Check(v, AdjSp[i])}
  BY DEF ChangeoverDone, Divert
<1> HIDE DEF n, msgs
<1>3. Calm(f) BY <1>1, BuffersCalm
<1> HIDE DEF f
<1>4. Calm(c) BY <1>3, BuffersCalm
<1> HIDE DEF c
<1>5. Calm(u) BY <1>4, BuffersCalm
<1> HIDE DEF u
<1>6. Calm(v) BY <1>5, BuffersCalm
<1> HIDE DEF v
<1>q. QED BY <1>1, <1>2, <1>6, CheckCalm

LEMMA ChangebackCalm ==
    ASSUME NEW s, Calm(s), NEW i \in Link
    PROVE  Calm(Changeback(s, i))
<1> DEFINE n == [s EXCEPT !.changeover[i] = "CHANGEBACK",
                          !.cb_buf[i] = @ \o s.tx_q[i],
                          !.tx_q[i] = <<>>]
           u == Schedule(n, i, "t3", "1st")
           c == CancelChangeover(s, i)
<1>1. Changeback(s, i) \in {s, Check(c, AdjSp[i]), Check(u, AdjSp[i]), Check(s, AdjSp[i])}
  BY DEF Changeback
<1>2. \A v, w, x : Calm([s EXCEPT !.changeover[i] = v, !.cb_buf[i] = w, !.tx_q[i] = x])
  BY BuffersCalm
<1>3. Calm(n) BY <1>2
<1> HIDE DEF n
<1>4. Calm(c) BY BuffersCalm
<1>5. "t3" \in LinkTimer \ RequestTimer /\ "1st" \in Callback BY RequestTimers DEF Callback
<1>6. Calm(u) BY <1>3, <1>5, TimersCalm
<1> HIDE DEF u, c
<1>q. QED BY <1>1, <1>4, <1>6, CheckCalm

\* Only a link that fails or passes its test changes which links have passed it.
Passes(s, n) == Whole(n) /\ n.passed = s.passed

LEMMA CheckPasses ==
    ASSUME NEW s, Whole(s), NEW sp
    PROVE  Passes(s, Ss7Check(s)) /\ Passes(s, Check(s, sp))
<1> USE DEF Passes
<1>1. ASSUME NEW n, Whole(n) PROVE Passes(n, LinksetFollows(n))
  <2> DEFINE d == [n EXCEPT !.state = "DOWN"]
             e == PostEvent(d, [e |-> "DOWN"])
  <2>1. Passes(n, LinksetUp(n)) BY <1>1 DEF LinksetUp, Whole, Core
  <2>2. Passes(n, d) BY <1>1 DEF Whole, Core
  <2>3. LinksetDown(n) \in
           {[d EXCEPT !.linkset_up = FALSE], e,
            [e EXCEPT
                 !.changeover = [i \in Link |-> IF "LOCALLY" \in d.inhibit[i]
                                                THEN "CHANGEOVER_COMPLETED"
                                                ELSE "NO_CHANGEOVER"],
                 !.co_tx_buf  = [i \in Link |-> <<>>],
                 !.co_tx_q    = [i \in Link |-> <<>>],
                 !.timer      = [i \in Link |-> [t \in LinkTimer |-> "off"]]]}
    BY DEF LinksetDown
  <2> HIDE DEF d
  <2>4. Passes(n, e) BY <2>2 DEF PostEvent, Whole, Core
  <2> HIDE DEF e
  <2>5. Passes(n, LinksetDown(n)) BY <2>2, <2>3, <2>4 DEF Whole, Core
  <2>q. QED BY <1>1, <2>1, <2>5 DEF LinksetFollows
<1>2. ASSUME NEW n, Whole(n) PROVE Passes(n, Ss7Check(n))
  <2>1. Passes(n, Uninhibit(n)) BY <1>2, UninhibitSame DEF Same
  <2>q. QED BY <1>1, <1>2, <2>1 DEF Ss7Check
<1>3. Passes(s, Check(s, sp))
  <2> DEFINE d == [ForgetPeer(s, sp) EXCEPT !.t19[sp] = FALSE, !.t21[sp] = FALSE]
             u == [s EXCEPT !.sp[sp] = "UP"]
  <2>1. Passes(s, d) /\ Passes(s, u) BY DEF ForgetPeer, Whole, Core
  <2>2. Check(s, sp) \in {Ss7Check(d), Ss7Check(u), s} BY DEF Check
  <2> HIDE DEF d, u
  <2>q. QED BY <1>2, <2>1, <2>2
<1>q. QED BY <1>2, <1>3

\* Unless an adjacent SP has lost its last link.
Calmed(n) == Whole(n) /\ (Linked(n) => Calm(n))

LEMMA SameCalmed ==
    ASSUME NEW s, Calmed(s), NEW n, Same(s, n), Calm(s) => Calm(n)
    PROVE  Calmed(n)
BY SameLinked DEF Calmed, Same

\* mtp3_link_failed takes no other link out of service.
LEMMA LinkFailedPasses ==
    ASSUME NEW s, Whole(s), NEW i \in Link
    PROVE  LET f == [s EXCEPT !.passed[i] = FALSE]
           IN  Passes(f, LinkFailed(s, i)) /\ Passes(f, Ss7Check(LinkFailed(s, i)))
<1> DEFINE f == [s EXCEPT !.passed[i] = FALSE]
           p == PrepareChangeover(f, i)
           c == IF /\ NumLinks > 1 /\ AvailableLinks(f, TRUE) # {}
                   /\ f.changeover[i] \in {"NO_CHANGEOVER", "CHANGEBACK"}
                THEN NetMngSend(p, i, "COO") ELSE f
           m == StopAll(c, i, {"q707_t1", "q707_t2"})
           l == LinkFailed(s, i)
<1>1. Whole(f) BY DEF Whole, Core
<1>2. l = Check(m, AdjSp[i]) BY DEF LinkFailed
<1> HIDE DEF f, l
<1>3. Passes(f, p)
  <2> DEFINE b == CancelChangeback(f, i)
  <2>1. Same(f, DropChangeback(f, i)) BY <1>1, ChangeoverSame
  <2>2. Passes(f, b)
    <3>1. Whole(DropChangeback(f, i)) BY <2>1 DEF Same
    <3>2. Passes(DropChangeback(f, i), Check(DropChangeback(f, i), AdjSp[i]))
      BY <3>1, CheckPasses
    <3>q. QED BY <1>1, <2>1, <3>2 DEF CancelChangeback, Passes, Same
  <2> HIDE DEF b
  <2>3. Same(b, SaveBuffers(b, i)) BY <2>2, BuffersSame DEF Passes
  <2>q. QED BY <2>2, <2>3 DEF PrepareChangeover, Passes, Same, b
<1> HIDE DEF p
<1>4. Same(p, NetMngSend(p, i, "COO")) BY <1>3, SendSame DEF Passes
<1>5. Passes(f, c) BY <1>1, <1>3, <1>4 DEF Passes, Same
<1> HIDE DEF c
<1>6. Same(c, m) BY <1>5, StopAllSame DEF Passes
<1> HIDE DEF m
<1>7. Passes(f, l) BY <1>2, <1>5, <1>6, CheckPasses DEF Passes, Same
<1>8. Passes(f, Ss7Check(l)) BY <1>7, CheckPasses DEF Passes
<1>q. QED BY <1>7, <1>8 DEF f, l

LEMMA LinkFailedCalm ==
    ASSUME NEW s, Calm(s), NEW i \in Link
    PROVE  Calmed(LinkFailed(s, i)) /\ Calmed(Ss7Check(LinkFailed(s, i)))
<1> DEFINE f == [s EXCEPT !.passed[i] = FALSE]
           p == PrepareChangeover(f, i)
           c == IF /\ NumLinks > 1 /\ AvailableLinks(f, TRUE) # {}
                   /\ f.changeover[i] \in {"NO_CHANGEOVER", "CHANGEBACK"}
                THEN NetMngSend(p, i, "COO") ELSE f
           m == StopAll(c, i, {"q707_t1", "q707_t2"})
           l == LinkFailed(s, i)
<1>1. Whole(s) /\ Laid(s) BY DEF Calm, Laid
<1>2. /\ Whole(f) /\ Laid(f)
      /\ f.timer = s.timer /\ f.sent = s.sent /\ f.inhibit = s.inhibit
      /\ f.sp = s.sp /\ f.tra = s.tra /\ f.state = s.state
  BY <1>1 DEF Whole, Core, Laid
<1>3. l = Check(m, AdjSp[i]) BY DEF LinkFailed
<1> HIDE DEF f, l
<1>4. Linked(f) => Calm(f) BY <1>2 DEF Calm, Up, Asked, Tested, Pending
<1>5. CASE Linked(f)
  <2>1. Calm(p) BY <1>4, <1>5, CancelCalm
  <2> HIDE DEF p
  <2>2. Calm(c) BY <1>4, <1>5, <2>1, SendCalm
  <2> HIDE DEF c
  <2>3. {"q707_t1", "q707_t2"} \cap RequestTimer = {} BY DEF RequestTimer
  <2>4. Calm(m) BY <2>2, <2>3, TimersCalm
  <2> HIDE DEF m
  <2>5. Calm(l) BY <1>3, <2>4, CheckCalm
  <2>6. Calm(Ss7Check(l)) BY <2>5, Ss7CheckCalm
  <2>q. QED BY <2>5, <2>6 DEF Calmed, Calm, Laid, l
<1>6. CASE ~Linked(f)
  <2>1. Passes(f, l) /\ Passes(f, Ss7Check(l)) BY <1>1, LinkFailedPasses DEF f, l
  <2>2. ASSUME NEW n, Passes(f, n) PROVE Calmed(n)
    BY <1>6, <2>2 DEF Calmed, Passes, Linked, Reachable, PassedLinks
  <2>3. Calmed(l) BY <2>1, <2>2
  <2>4. Calmed(Ss7Check(l)) BY <2>1, <2>2
  <2>q. QED BY <2>3, <2>4 DEF l
<1>q. QED BY <1>5, <1>6

LEMMA EventLinkDownCalm ==
    ASSUME NEW s, Calm(s), NEW i \in Link
    PROVE  Calmed(EventLinkDown(s, i))
BY BuffersCalm, LinkFailedCalm DEF EventLinkDown

LEMMA RxChangeoverCalm ==
    ASSUME NEW s, Calm(s), NEW i \in Link, NEW acked
    PROVE  /\ Calm(RxCoo(s, i, acked)) /\ Calm(RxCoa(s, i, acked))
           /\ Calm(RxEco(s, i)) /\ Calm(RxEca(s, i))
           /\ Calm(RxCbd(s, i)) /\ Calm(RxCba(s, i))
<1> DEFINE Other == {"COO", "ECO", "CBD", "LFU"}
<1>1. /\ {"COO", "ECO"} \in SUBSET Other /\ {"CBD", "COO"} \in SUBSET Other
      /\ {"CBD"} \in SUBSET Other
  OBVIOUS
<1>2. \A T \in SUBSET {"t1", "t2", "t4", "t5"} : T \cap RequestTimer = {} BY DEF RequestTimer
<1>3. "t2" \in LinkTimer \ RequestTimer BY RequestTimers
<1>4. Calm(RxCoo(s, i, acked))
  <2> DEFINE answer == IF s.changeover[i] \in {"NO_CHANGEOVER", "CHANGEOVER_INITIATED"}
                       THEN "COA" ELSE "ECA"
             n == NetMngSend(s, i, answer)
  <2>1. RxCoo(s, i, acked) = ChangeoverDone(PrepareChangeover(n, i), i, acked) BY DEF RxCoo
  <2>2. Calm(n) BY SendCalm
  <2> HIDE DEF n
  <2>3. Calm(PrepareChangeover(n, i)) BY <2>2, CancelCalm
  <2>q. QED BY <2>1, <2>3, ChangeoverDoneCalm
<1>5. Calm([Stop(s, i, "t2") EXCEPT !.sent[i] = @ \ {"COO", "ECO"}])
  <2> DEFINE n == Stop(s, i, "t2")
  <2>1. Calm(n) BY <1>3, TimersCalm
  <2> HIDE DEF n
  <2>2. Calm([n EXCEPT !.sent[i] = @ \ {"COO", "ECO"}]) BY <1>1, <2>1, TimersCalm
  <2>q. QED BY <2>2 DEF n
<1>6. Calm(RxCoa(s, i, acked)) BY <1>5, ChangeoverDoneCalm DEF RxCoa
<1>7. Calm(RxEca(s, i)) BY <1>5, CancelCalm DEF RxEca
<1>8. Calm(RxEco(s, i))
  <2> DEFINE T == IF "ECO" \in s.sent[i] THEN {"t1", "t2"} ELSE {"t1"}
             t == StopAll(s, i, T)
             n == [t EXCEPT !.sent[i] = @ \ {"CBD", "COO"}]
             answer == IF "ECO" \notin n.sent[i] /\ n.changeover[i] = "NO_CHANGEOVER"
                       THEN "COA" ELSE "ECA"
             m == NetMngSend(n, i, answer)
  <2>1. RxEco(s, i) = TimedChangeover(m, i) BY DEF RxEco
  <2>2. T \in SUBSET {"t1", "t2", "t4", "t5"} OBVIOUS
  <2> HIDE DEF T
  <2>3. Calm(t) BY <1>2, <2>2, TimersCalm
  <2> HIDE DEF t
  <2>4. Calm(n) BY <1>1, <2>3, TimersCalm
  <2> HIDE DEF n
  <2>5. Calm(m) BY <2>4, SendCalm
  <2> HIDE DEF m
  <2>q. QED BY <2>1, <2>5, CancelCalm
<1>9. Calm(RxCbd(s, i)) BY SendCalm, ChangebackCalm DEF RxCbd
<1>10. Calm(RxCba(s, i))
  <2> DEFINE n == [s EXCEPT !.sent[i] = @ \ {"CBD"}]
             m == StopAll(n, i, {"t4", "t5"})
  <2>1. Calm(n) BY <1>1, TimersCalm
  <2>2. RxCba(s, i) \in {s, Changeback(m, i)} BY DEF RxCba
  <2> HIDE DEF n
  <2>3. {"t4", "t5"} \in SUBSET {"t1", "t2", "t4", "t5"} OBVIOUS
  <2>4. Calm(m) BY <1>2, <2>1, <2>3, TimersCalm
  <2> HIDE DEF m
  <2>5. Calm(Changeback(m, i)) BY <2>4, ChangebackCalm
  <2>q. QED BY <2>2, <2>5
<1>q. QED BY <1>4, <1>6, <1>7, <1>8, <1>9, <1>10

\* What Calm says of one link.
LinkAsked(s, i) ==
    /\ {"t22", "t23"} \subseteq Configured =>
          /\ "LOCALLY"  \in s.inhibit[i] => s.timer[i]["t22"] # "off"
          /\ "REMOTELY" \in s.inhibit[i] => s.timer[i]["t23"] # "off"
    /\ "t14" \in Configured =>
          /\ "LIN" \in s.sent[i] <=> s.timer[i]["t14"] # "off"
          /\ "LUN" \in s.sent[i] <=> s.timer[i]["t12"] # "off"

\* Quiet for every link but i.
QuietBut(s, n, i) ==
    /\ Same(s, n) /\ Laid(n)
    /\ \A j \in Link \ {i} :
          /\ n.inhibit[j] = s.inhibit[j]
          /\ \A t \in RequestTimer : n.timer[j][t] = s.timer[j][t]
          /\ \A m \in {"LIN", "LUN"} : m \in n.sent[j] <=> m \in s.sent[j]

LEMMA LinkCalm ==
    ASSUME NEW s, Calm(s), NEW i \in Link, NEW n, QuietBut(s, n, i), LinkAsked(n, i)
    PROVE  Calm(n)
<1>1. Up(n) /\ Linked(n) BY SameLinked DEF Calm, QuietBut
<1>2. ASSUME {"t22", "t23"} \subseteq Configured PROVE Tested(n)
  <2>1. Tested(s) BY <1>2 DEF Calm, Asked
  <2>q. QED BY <1>2, <2>1 DEF Tested, QuietBut, LinkAsked, RequestTimer
<1>3. ASSUME "t14" \in Configured PROVE Pending(n)
  <2>1. Pending(s) BY <1>3 DEF Calm, Asked
  <2>q. QED BY <1>3, <2>1 DEF Pending, QuietBut, LinkAsked, RequestTimer
<1>q. QED BY <1>1, <1>2, <1>3 DEF Calm, Asked, QuietBut

LEMMA CalmLink ==
    ASSUME NEW s, Calm(s), NEW i \in Link
    PROVE  LinkAsked(s, i)
BY DEF Calm, Asked, Tested, Pending, LinkAsked

\* Of link i the timers T are stopped; timer t becomes c; requests or inhibited
\* ends of it change.
LEMMA LinkStops ==
    ASSUME NEW s, Laid(s), NEW i \in Link, NEW T \in SUBSET LinkTimer, NEW n,
           n = StopAll(s, i, T)
    PROVE  /\ QuietBut(s, n, i) /\ n.inhibit = s.inhibit /\ n.sent = s.sent
           /\ \A t \in LinkTimer : n.timer[i][t] = IF t \in T THEN "off" ELSE s.timer[i][t]
<1>1. Same(s, n) BY StopAllSame DEF Laid
<1>2. Laid(n) BY DEF Laid, Whole, Core, StopAll
<1>q. QED BY <1>1, <1>2, RequestTimers DEF Laid, StopAll, QuietBut

LEMMA LinkTimerSet ==
    ASSUME NEW s, Laid(s), NEW i \in Link, NEW t \in LinkTimer, NEW n, NEW c,
           \/ c = "off" /\ (n = Stop(s, i, t) \/ n = Forget(s, i, t))
           \/ c \in Callback /\ n = Schedule(s, i, t, c)
    PROVE  /\ QuietBut(s, n, i) /\ n.inhibit = s.inhibit /\ n.sent = s.sent
           /\ \A u \in LinkTimer : n.timer[i][u] = IF u = t THEN c ELSE s.timer[i][u]
<1>1. Same(s, n) BY TimersSame DEF Laid
<1>2. CASE c = "off" /\ n = Stop(s, i, t)
  <2>1. Laid(n) BY <1>2 DEF Laid, Whole, Core, Stop
  <2>q. QED BY <1>1, <1>2, <2>1, RequestTimers DEF Laid, Stop, QuietBut
<1>3. CASE c = "off" /\ n = Forget(s, i, t)
  <2>1. Laid(n) BY <1>3 DEF Laid, Whole, Core, Forget
  <2>q. QED BY <1>1, <1>3, <2>1, RequestTimers DEF Laid, Forget, QuietBut
<1>4. CASE c \in Callback /\ n = Schedule(s, i, t, c)
  <2>1. Laid(n) BY <1>4 DEF Laid, Whole, Core, Schedule
  <2>q. QED BY <1>1, <1>4, <2>1, RequestTimers DEF Laid, Schedule, QuietBut
<1>q. QED BY <1>2, <1>3, <1>4

Noted(s, i, R, E) == [s EXCEPT !.sent[i] = R, !.inhibit[i] = E]

LEMMA LinkNotes ==
    ASSUME NEW s, Laid(s), NEW i \in Link, NEW R \in SUBSET SentMsg, NEW E \in SUBSET Inhibit
    PROVE  /\ QuietBut(s, Noted(s, i, R, E), i) /\ Noted(s, i, R, E).timer = s.timer
           /\ Noted(s, i, R, E).sent[i] = R /\ Noted(s, i, R, E).inhibit[i] = E
<1> DEFINE n == Noted(s, i, R, E)
<1>1. Same(s, n) BY DEF Same, Whole, Core, Laid, Noted
<1>2. Laid(n) BY DEF Laid, Whole, Core, Noted
<1>3. /\ n.timer = s.timer /\ n.sent = [s.sent EXCEPT ![i] = R]
      /\ n.inhibit = [s.inhibit EXCEPT ![i] = E]
  BY DEF Laid, Noted
<1>4. QuietBut(s, n, i) BY <1>1, <1>2, <1>3 DEF Laid, QuietBut
<1>q. QED BY <1>3, <1>4 DEF Laid

LEMMA NotedAlone ==
    ASSUME NEW s, Laid(s), NEW i \in Link, NEW v
    PROVE  [s EXCEPT !.sent[i] = v] = Noted(s, i, v, s.inhibit[i])
<1>1. [s.inhibit EXCEPT ![i] = s.inhibit[i]] = s.inhibit BY DEF Laid
<1>q. QED BY <1>1 DEF Laid, Whole, Noted

LEMMA InhibitedAlone ==
    ASSUME NEW s, Laid(s), NEW i \in Link, NEW v
    PROVE  [s EXCEPT !.inhibit[i] = v] = Noted(s, i, s.sent[i], v)
<1>1. [s.sent EXCEPT ![i] = s.sent[i]] = s.sent BY DEF Laid
<1>q. QED BY <1>1 DEF Laid, Whole, Noted

\* The functions that change one link, one after the other.
LEMMA QuietButTransitive ==
    ASSUME NEW s, NEW n, NEW m, NEW i \in Link, QuietBut(s, n, i) \/ Quiet(s, n),
           QuietBut(n, m, i) \/ Quiet(n, m)
    PROVE  QuietBut(s, m, i) \/ Quiet(s, m)
<1>1. \A a, b : Quiet(a, b) => QuietBut(a, b, i) BY DEF Quiet, QuietBut, Mute
<1>2. QuietBut(s, n, i) /\ QuietBut(n, m, i) BY <1>1
<1>3. Same(s, m) BY <1>2, SameTransitive DEF QuietBut
<1>q. QED BY <1>2, <1>3 DEF QuietBut

\* Nothing that hangs on a changeover concerns the requests: mtp3_check finds
\* every SP as it should be.
LEMMA SteadyQuiet ==
    ASSUME NEW s, Laid(s), Up(s), Linked(s), NEW i \in Link
    PROVE  /\ Quiet(s, CancelChangeback(s, i)) /\ Quiet(s, TimedChangeover(s, i))
           /\ Quiet(s, Changeback(s, i))
<1>1. AdjSp[i] \in Sp BY DestAssumption
<1>2. ASSUME NEW n, Quiet(s, n) PROVE Check(n, AdjSp[i]) = n /\ Laid(n)
  <2>1. Up(n) /\ Linked(n) BY <1>2, SameLinked DEF Quiet
  <2>q. QED BY <1>1, <1>2, <2>1, QuietLaid DEF Up, Linked, Check
<1>3. Quiet(s, CancelChangeback(s, i))
  BY <1>2, ChangeoverQuiet, QuietItself DEF CancelChangeback
<1>4. Quiet(s, TimedChangeover(s, i))
  BY <1>2, <1>3, ChangeoverQuiet, QuietTransitive DEF TimedChangeover
<1>5. Quiet(s, Changeback(s, i))
  <2> DEFINE n == [s EXCEPT !.changeover[i] = "CHANGEBACK",
                            !.cb_buf[i] = @ \o s.tx_q[i],
                            !.tx_q[i] = <<>>]
             u == Schedule(n, i, "t3", "1st")
             c == CancelChangeover(s, i)
  <2>1. Changeback(s, i) \in {s, Check(c, AdjSp[i]), Check(u, AdjSp[i]), Check(s, AdjSp[i])}
    BY DEF Changeback
  <2>2. Same(s, n) BY DEF Same, Whole, Core, Laid
  <2>3. Mute(s, n) BY DEF Mute, Laid, Whole
  <2> HIDE DEF n
  <2>4. Quiet(s, n) BY <2>2, <2>3 DEF Quiet
  <2>5. "t3" \in LinkTimer \ RequestTimer /\ "1st" \in Callback BY RequestTimers DEF Callback
  <2>6. Quiet(n, u) BY <2>4, <2>5, QuietLaid, TimersQuiet
  <2>7. Quiet(s, u) BY <2>4, <2>6, QuietTransitive
  <2>8. Quiet(s, c) BY ChangeoverQuiet
  <2> HIDE DEF u, c
  <2>q. QED BY <1>2, <2>1, <2>7, <2>8, QuietItself
<1>q. QED BY <1>3, <1>4, <1>5

\* The peer's requests to inhibit and uninhibit a link, and its answers.
LEMMA RxInhibitCalm ==
    ASSUME NEW s, Calm(s), NEW i \in Link
    PROVE  /\ Calm(RxLin(s, i)) /\ Calm(RxLia(s, i)) /\ Calm(RxLid(s, i))
           /\ Calm(RxLun(s, i)) /\ Calm(RxLua(s, i))
           /\ Calm(RxLfu(s, i)) /\ Calm(RxLlt(s, i)) /\ Calm(RxLrt(s, i))
<1>1. "REMOTELY" \in Inhibit /\ "LOCALLY" \in Inhibit BY DEF Inhibit
<1>2. ASSUME NEW n, Calm(n)
      PROVE  /\ n.inhibit[i] \in SUBSET Inhibit /\ n.sent[i] \in SUBSET SentMsg
             /\ Laid(n) /\ Up(n) /\ Linked(n) /\ LinkAsked(n, i)
  BY <1>2, CalmLink DEF Calm, Laid
<1>3. ASSUME NEW a, Calm(a), NEW b, QuietBut(a, b, i)
      PROVE  /\ Laid(b) /\ Up(b) /\ Linked(b)
             /\ Quiet(b, TimedChangeover(b, i)) /\ Quiet(b, Changeback(b, i))
  <2>1. Laid(b) /\ Up(b) /\ Linked(b) BY <1>2, <1>3, SameLinked DEF QuietBut
  <2>q. QED BY <2>1, SteadyQuiet
<1>4. /\ {"t12", "t13", "t14", "t22", "t23"} \subseteq LinkTimer /\ "1st" \in Callback
  BY TimersKnown DEF Callback
<1>5. Calm(RxLin(s, i))
  <2> DEFINE a == NetMngSend(s, i, "LIA")
             b == [a EXCEPT !.inhibit[i] = @ \cup {"REMOTELY"}]
             c == TimedChangeover(b, i)
             d == Start(c, i, "t23")
  <2>1. RxLin(s, i) \in {d, NetMngSend(s, i, "LID")} BY DEF RxLin
  <2>2. Calm(a) BY SendCalm
  <2> HIDE DEF a
  <2>3. b = [a EXCEPT !.inhibit[i] = a.inhibit[i] \cup {"REMOTELY"}] OBVIOUS
  <2> HIDE DEF b
  <2>4. /\ QuietBut(a, b, i) /\ b.timer = a.timer /\ b.sent[i] = a.sent[i]
        /\ b.inhibit[i] = a.inhibit[i] \cup {"REMOTELY"}
    <3> DEFINE R == a.sent[i]
               E == a.inhibit[i] \cup {"REMOTELY"}
    <3>1. R \in SUBSET SentMsg /\ E \in SUBSET Inhibit /\ Laid(a) BY <1>1, <1>2, <2>2
    <3>2. b = Noted(a, i, R, E)
      <4>1. b = [a EXCEPT !.inhibit[i] = E] BY <2>3
      <4> HIDE DEF E
      <4>2. [a EXCEPT !.inhibit[i] = E] = Noted(a, i, a.sent[i], E) BY <3>1, InhibitedAlone
      <4>q. QED BY <4>1, <4>2
    <3>3. R = a.sent[i] /\ E = a.inhibit[i] \cup {"REMOTELY"} OBVIOUS
    <3> HIDE DEF R, E
    <3>q. QED BY <3>1, <3>2, <3>3, LinkNotes
  <2>5. Quiet(b, c) /\ Laid(c) BY <1>3, <2>2, <2>4, QuietLaid
  <2> HIDE DEF c
  <2>6. /\ QuietBut(c, d, i) \/ Quiet(c, d)
        /\ d.inhibit = c.inhibit /\ d.sent = c.sent
        /\ \A u \in LinkTimer \ {"t23"} : d.timer[i][u] = c.timer[i][u]
        /\ "t23" \in Configured => d.timer[i]["t23"] = "1st"
    <3>1. CASE "t23" \notin Configured BY <2>5, <3>1, QuietItself DEF Start
    <3>2. CASE "t23" \in Configured
      <4>1. d = Schedule(c, i, "t23", "1st") BY <3>2 DEF Start
      <4> HIDE DEF d
      <4>q. QED BY <1>4, <2>5, <4>1, LinkTimerSet
    <3>q. QED BY <3>1, <3>2
  <2> HIDE DEF d
  <2>7. QuietBut(a, d, i) \/ Quiet(a, d) BY <2>4, <2>5, <2>6, QuietButTransitive
  <2>8. LinkAsked(d, i)
    BY <1>2, <1>4, <2>2, <2>4, <2>5, <2>6 DEF LinkAsked, Quiet, Mute, RequestTimer
  <2>9. Calm(d) BY <2>2, <2>7, <2>8, LinkCalm, QuietCalm
  <2>q. QED BY <2>1, <2>9, SendCalm
<1>6. Calm(RxLun(s, i))
  <2> DEFINE f == [s EXCEPT !.sent[i] = @ \ {"LFU"}]
             a == NetMngSend(f, i, "LUA")
             b == [a EXCEPT !.inhibit[i] = @ \ {"REMOTELY"}]
             c == Changeback(b, i)
             d == StopAll(c, i, {"t23", "t13"})
  <2>1. RxLun(s, i) = d BY DEF RxLun
  <2>2. {"LFU"} \in SUBSET {"COO", "ECO", "CBD", "LFU"} OBVIOUS
  <2>3. Calm(f) BY <2>2, TimersCalm
  <2> HIDE DEF f
  <2>4. Calm(a) BY <2>3, SendCalm
  <2> HIDE DEF a
  <2>5. b = [a EXCEPT !.inhibit[i] = a.inhibit[i] \ {"REMOTELY"}] OBVIOUS
  <2> HIDE DEF b
  <2>6. /\ QuietBut(a, b, i) /\ b.timer = a.timer /\ b.sent[i] = a.sent[i]
        /\ b.inhibit[i] = a.inhibit[i] \ {"REMOTELY"}
    <3> DEFINE R == a.sent[i]
               E == a.inhibit[i] \ {"REMOTELY"}
    <3>1. R \in SUBSET SentMsg /\ E \in SUBSET Inhibit /\ Laid(a) BY <1>2, <2>4
    <3>2. b = Noted(a, i, R, E)
      <4>1. b = [a EXCEPT !.inhibit[i] = E] BY <2>5
      <4> HIDE DEF E
      <4>2. [a EXCEPT !.inhibit[i] = E] = Noted(a, i, a.sent[i], E) BY <3>1, InhibitedAlone
      <4>q. QED BY <4>1, <4>2
    <3>3. R = a.sent[i] /\ E = a.inhibit[i] \ {"REMOTELY"} OBVIOUS
    <3> HIDE DEF R, E
    <3>q. QED BY <3>1, <3>2, <3>3, LinkNotes
  <2>7. Quiet(b, c) /\ Laid(c) BY <1>3, <2>4, <2>6, QuietLaid
  <2> HIDE DEF c
  <2>8. /\ QuietBut(c, d, i) /\ d.inhibit = c.inhibit /\ d.sent = c.sent
        /\ \A t \in LinkTimer :
              d.timer[i][t] = IF t \in {"t23", "t13"} THEN "off" ELSE c.timer[i][t]
    BY <1>4, <2>7, LinkStops
  <2> HIDE DEF d
  <2>9. QuietBut(a, d, i) \/ Quiet(a, d) BY <2>6, <2>7, <2>8, QuietButTransitive
  <2>10. LinkAsked(d, i)
    BY <1>2, <1>4, <2>4, <2>6, <2>7, <2>8 DEF LinkAsked, Quiet, Mute, RequestTimer
  <2>q. QED BY <2>1, <2>4, <2>9, <2>10, LinkCalm, QuietCalm
<1>7. Calm(RxLua(s, i))
  <2> DEFINE b == [s EXCEPT !.sent[i] = @ \ {"LUN"}, !.inhibit[i] = @ \ {"LOCALLY"}]
             c == Changeback(b, i)
             d == StopAll(c, i, {"t12", "t22"})
  <2>1. RxLua(s, i) \in {s, d} BY DEF RxLua
  <2>2. b = [s EXCEPT !.sent[i] = s.sent[i] \ {"LUN"},
                      !.inhibit[i] = s.inhibit[i] \ {"LOCALLY"}] OBVIOUS
  <2> HIDE DEF b
  <2>3. /\ QuietBut(s, b, i) /\ b.timer = s.timer /\ b.sent[i] = s.sent[i] \ {"LUN"}
        /\ b.inhibit[i] = s.inhibit[i] \ {"LOCALLY"}
    <3> DEFINE R == s.sent[i] \ {"LUN"}
               E == s.inhibit[i] \ {"LOCALLY"}
    <3>1. R \in SUBSET SentMsg /\ E \in SUBSET Inhibit /\ Laid(s) BY <1>2
    <3>2. b = Noted(s, i, R, E)
      BY <2>2 DEF Noted
    <3>3. R = s.sent[i] \ {"LUN"} /\ E = s.inhibit[i] \ {"LOCALLY"} OBVIOUS
    <3> HIDE DEF R, E
    <3>q. QED BY <3>1, <3>2, <3>3, LinkNotes
  <2>4. Quiet(b, c) /\ Laid(c) BY <1>3, <2>3, QuietLaid
  <2> HIDE DEF c
  <2>5. /\ QuietBut(c, d, i) /\ d.inhibit = c.inhibit /\ d.sent = c.sent
        /\ \A t \in LinkTimer :
              d.timer[i][t] = IF t \in {"t12", "t22"} THEN "off" ELSE c.timer[i][t]
    BY <1>4, <2>4, LinkStops
  <2> HIDE DEF d
  <2>6. QuietBut(s, d, i) \/ Quiet(s, d) BY <2>3, <2>4, <2>5, QuietButTransitive
  <2>7. LinkAsked(d, i)
    BY <1>2, <1>4, <2>3, <2>4, <2>5 DEF LinkAsked, Quiet, Mute, RequestTimer
  <2>q. QED BY <2>1, <2>6, <2>7, LinkCalm, QuietCalm
<1>8. Calm(RxLia(s, i))
  <2> DEFINE a == TimedChangeover(s, i)
             b == [a EXCEPT !.sent[i] = @ \ {"LIN"}, !.inhibit[i] = @ \cup {"LOCALLY"}]
             c == TimedChangeover(b, i)
             d == Start(c, i, "t22")
             e == Stop(d, i, "t14")
  <2>1. Calm(a) BY CancelCalm
  <2> HIDE DEF a
  <2>2. b = [a EXCEPT !.sent[i] = a.sent[i] \ {"LIN"},
                      !.inhibit[i] = a.inhibit[i] \cup {"LOCALLY"}] OBVIOUS
  <2>3. NoteLia(a, i) = c BY DEF NoteLia
  <2> HIDE DEF b
  <2>4. /\ QuietBut(a, b, i) /\ b.timer = a.timer /\ b.sent[i] = a.sent[i] \ {"LIN"}
        /\ b.inhibit[i] = a.inhibit[i] \cup {"LOCALLY"}
    <3> DEFINE R == a.sent[i] \ {"LIN"}
               E == a.inhibit[i] \cup {"LOCALLY"}
    <3>1. R \in SUBSET SentMsg /\ E \in SUBSET Inhibit /\ Laid(a) BY <1>1, <1>2, <2>1
    <3>2. b = Noted(a, i, R, E)
      BY <2>2 DEF Noted
    <3>3. R = a.sent[i] \ {"LIN"} /\ E = a.inhibit[i] \cup {"LOCALLY"} OBVIOUS
    <3> HIDE DEF R, E
    <3>q. QED BY <3>1, <3>2, <3>3, LinkNotes
  <2>5. Quiet(b, c) /\ Laid(c) BY <1>3, <2>1, <2>4, QuietLaid
  <2>6. LiaRestarts(c, i) = c
    <3>1. Up(c) BY <1>3, <2>1, <2>4, <2>5, SameLinked DEF Quiet
    <3>2. AdjSp[i] \in Sp BY DestAssumption
    <3>q. QED BY <3>1, <3>2 DEF Up, LiaRestarts
  <2>7. RxLia(s, i) \in {s, e} BY <2>3, <2>6 DEF RxLia, a
  <2> HIDE DEF c
  <2>8. /\ QuietBut(c, d, i) \/ Quiet(c, d)
        /\ d.inhibit = c.inhibit /\ d.sent = c.sent /\ Laid(d)
        /\ \A u \in LinkTimer \ {"t22"} : d.timer[i][u] = c.timer[i][u]
        /\ "t22" \in Configured => d.timer[i]["t22"] = "1st"
    <3>1. CASE "t22" \notin Configured BY <2>5, <3>1, QuietItself DEF Start
    <3>2. CASE "t22" \in Configured
      <4>1. d = Schedule(c, i, "t22", "1st") BY <3>2 DEF Start
      <4> HIDE DEF d
      <4>2. /\ QuietBut(c, d, i) /\ d.inhibit = c.inhibit /\ d.sent = c.sent
            /\ \A u \in LinkTimer : d.timer[i][u] = IF u = "t22" THEN "1st" ELSE c.timer[i][u]
        BY <1>4, <2>5, <4>1, LinkTimerSet
      <4>q. QED BY <1>4, <4>2 DEF QuietBut
    <3>q. QED BY <3>1, <3>2
  <2> HIDE DEF d
  <2>9. /\ QuietBut(d, e, i) /\ e.inhibit = d.inhibit /\ e.sent = d.sent
        /\ \A u \in LinkTimer : e.timer[i][u] = IF u = "t14" THEN "off" ELSE d.timer[i][u]
    <3>1. Laid(d) /\ "t14" \in LinkTimer BY <1>4, <2>8
    <3>q. QED BY <3>1, LinkTimerSet
  <2> HIDE DEF e
  <2>10. QuietBut(a, e, i) \/ Quiet(a, e) BY <2>4, <2>5, <2>8, <2>9, QuietButTransitive
  <2>11. LinkAsked(e, i)
    BY <1>2, <1>4, <2>1, <2>4, <2>5, <2>8, <2>9 DEF LinkAsked, Quiet, Mute, RequestTimer
  <2>q. QED BY <2>1, <2>7, <2>10, <2>11, LinkCalm, QuietCalm
<1>9. Calm(RxLid(s, i))
  <2> DEFINE b == [s EXCEPT !.sent[i] = @ \ {"LIN"}]
             d == Stop(b, i, "t14")
  <2>1. RxLid(s, i) = d BY DEF RxLid
  <2>2. b = [s EXCEPT !.sent[i] = s.sent[i] \ {"LIN"}] OBVIOUS
  <2> HIDE DEF b
  <2>3. /\ QuietBut(s, b, i) /\ b.timer = s.timer /\ b.sent[i] = s.sent[i] \ {"LIN"}
        /\ b.inhibit[i] = s.inhibit[i]
    <3> DEFINE R == s.sent[i] \ {"LIN"}
               E == s.inhibit[i]
    <3>1. R \in SUBSET SentMsg /\ E \in SUBSET Inhibit /\ Laid(s) BY <1>2
    <3>2. b = Noted(s, i, R, E) BY <2>2, <3>1, NotedAlone
    <3>3. R = s.sent[i] \ {"LIN"} /\ E = s.inhibit[i] OBVIOUS
    <3> HIDE DEF R, E
    <3>q. QED BY <3>1, <3>2, <3>3, LinkNotes
  <2>4. /\ QuietBut(b, d, i) /\ d.inhibit = b.inhibit /\ d.sent = b.sent
        /\ \A u \in LinkTimer : d.timer[i][u] = IF u = "t14" THEN "off" ELSE b.timer[i][u]
    BY SMTT(30), <1>4, <2>3, LinkTimerSet DEF QuietBut
  <2> HIDE DEF d
  <2>5. QuietBut(s, d, i) \/ Quiet(s, d) BY <2>3, <2>4, QuietButTransitive
  <2>6. LinkAsked(d, i) BY <1>2, <1>4, <2>3, <2>4 DEF LinkAsked
  <2>q. QED BY <2>1, <2>5, <2>6, LinkCalm, QuietCalm
<1>10. Calm(RxLfu(s, i)) /\ Calm(RxLlt(s, i)) /\ Calm(RxLrt(s, i))
  BY SendCalm DEF RxLfu, RxLlt, RxLrt
<1>q. QED BY <1>5, <1>6, <1>7, <1>8, <1>9, <1>10

\* What net_mng_receive makes of any message but a TRA, after which an SP that
\* is up restarts.
LEMMA NetMngReceiveCalm ==
    ASSUME NEW s, Calm(s), NEW i \in Link, NEW msg, msg # "TRA", NEW acked
    PROVE  Calm(NetMngReceive(s, i, msg, acked))
BY RxChangeoverCalm, RxInhibitCalm DEF NetMngReceive

LEMMA RxTestCalm ==
    ASSUME NEW s, Calm(s), NEW i \in Link
    PROVE  /\ Calm(RxSltm(s, i)) /\ Calm(RxSlta(s, i))
           /\ Calmed(RxSltaMismatch(s, i))
<1>1. "q707_t1" \in LinkTimer \ RequestTimer /\ "q707_t2" \in LinkTimer \ RequestTimer
  BY RequestTimers
<1>2. Calm(RxSltm(s, i))
  BY FieldsCalm DEF RxSltm, Calm, Laid, Whole, Core
<1>3. Calm(RxSlta(s, i))
  <2> DEFINE a == Stop(s, i, "q707_t1")
             n == [a EXCEPT !.failed[i] = 0, !.passed[i] = TRUE]
             c == NetMngSend(n, i, "CBD")
             d == IF c.changeover[i] = "CHANGEOVER_COMPLETED" THEN c
                  ELSE CancelChangeover(c, i)
             b == [d EXCEPT !.changeover[i] = "CHANGEBACK_INITIATED"]
  <2>1. RxSlta(s, i) \in {InitPeer(b, i), InitPeer(n, i)} BY DEF RxSlta
  <2>2. Calm(a) BY <1>1, TimersCalm
  <2> HIDE DEF a
  <2>3. /\ Laid(n) /\ n.timer = a.timer /\ n.sent = a.sent /\ n.inhibit = a.inhibit
        /\ n.sp = a.sp /\ n.tra = a.tra /\ n.state = a.state
        /\ n.passed = [a.passed EXCEPT ![i] = TRUE]
    BY <2>2 DEF Calm, Laid, Whole, Core
  <2> HIDE DEF n
  <2>4. Linked(n)
    <3>1. \A j \in Link : a.passed[j] => n.passed[j]
      <4>1. CASE i \in DOMAIN a.passed BY <2>3, <4>1
      <4>2. CASE i \notin DOMAIN a.passed BY <2>3, <4>2
      <4>q. QED BY <4>1, <4>2
    <3>2. \A sp : Reachable(a, sp) \subseteq Reachable(n, sp) BY <3>1 DEF Reachable, PassedLinks
    <3>q. QED BY <2>2, <3>2 DEF Linked, Calm
  <2>5. Calm(n) BY <2>2, <2>3, <2>4 DEF Calm, Up, Asked, Tested, Pending
  <2>6. Calm(c) BY <2>5, SendCalm
  <2> HIDE DEF c
  <2>7. Calm(d) BY <2>6, BuffersCalm
  <2> HIDE DEF d
  <2>8. Calm(b) BY <2>7, BuffersCalm
  <2> HIDE DEF b
  <2>9. \A m : Calm(m) => InitPeer(m, i) = m
    <3>1. AdjSp[i] \in Sp BY DestAssumption
    <3>q. QED BY <3>1 DEF Calm, Up, InitPeer
  <2>q. QED BY <2>1, <2>5, <2>8, <2>9
<1>4. Calmed(RxSltaMismatch(s, i))
  <2> DEFINE a == Stop(s, i, "q707_t1")
             n == [a EXCEPT !.failed[i] = 1]
             l == LinkFailed(n, i)
  <2>1. RxSltaMismatch(s, i) = Start(l, i, "q707_t2") BY DEF RxSltaMismatch
  <2>2. Calm(a) BY <1>1, TimersCalm
  <2> HIDE DEF a
  <2>3. Calm(n) BY <2>2, BuffersCalm
  <2> HIDE DEF n
  <2>4. Calmed(l) BY <2>3, LinkFailedCalm
  <2> HIDE DEF l
  <2>5. Same(l, Start(l, i, "q707_t2")) BY <1>1, <2>4, TimersSame DEF Calmed
  <2>6. Calm(l) => Calm(Start(l, i, "q707_t2")) BY <1>1, TimersCalm
  <2>q. QED BY <2>1, <2>4, <2>5, <2>6, SameCalmed
<1>q. QED BY <1>2, <1>3, <1>4

LEMMA ChangeoverExpiredCalm ==
    ASSUME NEW s, Calm(s), NEW i \in Link
    PROVE  /\ Calm(T1Expired(s, i)) /\ Calm(T2Expired(s, i)) /\ Calm(T3Expired(s, i))
           /\ Calm(T4Expired(s, i)) /\ Calm(T5Expired(s, i))
<1>1. /\ "t1" \in LinkTimer \ RequestTimer /\ "t2" \in LinkTimer \ RequestTimer
      /\ "t3" \in LinkTimer \ RequestTimer /\ "t4" \in LinkTimer \ RequestTimer
      /\ "t5" \in LinkTimer \ RequestTimer
  BY RequestTimers
<1>2. Calm(T1Expired(s, i))
  <2> DEFINE f == Forget(s, i, "t1")
             n == [f EXCEPT !.changeover[i] = "CHANGEOVER_COMPLETED", !.co_buf[i] = <<>>]
             u == Transmit(n, s.co_buf[i])
  <2>1. T1Expired(s, i) = FreeCo(u, i) BY DEF T1Expired
  <2>2. Calm(f) BY <1>1, TimersCalm
  <2> HIDE DEF f
  <2>3. Calm(n) BY <2>2, BuffersCalm
  <2> HIDE DEF n
  <2>4. Calm(u) BY <2>3, BuffersCalm
  <2> HIDE DEF u
  <2>q. QED BY <2>1, <2>4, BuffersCalm
<1>3. Calm(T2Expired(s, i))
  <2> DEFINE f == Forget(s, i, "t2")
             g == [f EXCEPT !.sent[i] = @ \ {"COO", "ECO"}]
             q == [g EXCEPT !.co_tx_q[i] = <<>>]
             n == [q EXCEPT !.co_buf[i] = <<>>]
             u == Transmit(n, s.co_tx_q[i] \o s.co_buf[i])
             m == [u EXCEPT !.changeover[i] = "CHANGEOVER_COMPLETED"]
  <2>1. T2Expired(s, i) = Check(FreeCo(m, i), AdjSp[i]) BY DEF T2Expired
  <2>2. Calm(f) BY <1>1, TimersCalm
  <2> HIDE DEF f
  <2>3. {"COO", "ECO"} \in SUBSET {"COO", "ECO", "CBD", "LFU"} OBVIOUS
  <2>4. Calm(g) BY <2>2, <2>3, TimersCalm
  <2> HIDE DEF g
  <2>5. Calm(q) BY <2>4, BuffersCalm
  <2> HIDE DEF q
  <2>6. Calm(n) BY <2>5, BuffersCalm
  <2> HIDE DEF n
  <2>7. Calm(u) BY <2>6, BuffersCalm
  <2> HIDE DEF u
  <2>8. Calm(m) BY <2>7, BuffersCalm
  <2> HIDE DEF m
  <2>9. Calm(FreeCo(m, i)) BY <2>8, BuffersCalm
  <2>q. QED BY <2>1, <2>9, CheckCalm
<1>4. ASSUME NEW n, Calm(n) PROVE Calm(T3Expired(n, i))
  <2> DEFINE f == Forget(n, i, "t3")
             c == [f EXCEPT !.changeover[i] = "NO_CHANGEOVER", !.cb_buf[i] = <<>>]
             u == Transmit(c, n.cb_buf[i])
             k == Ss7Check(u)
  <2>1. T3Expired(n, i) = FreeCo(k, i) BY DEF T3Expired
  <2>2. Calm(f) BY <1>1, <1>4, TimersCalm
  <2> HIDE DEF f
  <2>3. Calm(c) BY <2>2, BuffersCalm
  <2> HIDE DEF c
  <2>4. Calm(u) BY <2>3, BuffersCalm
  <2> HIDE DEF u
  <2>5. Calm(k) BY <2>4, Ss7CheckCalm
  <2> HIDE DEF k
  <2>q. QED BY <2>1, <2>5, BuffersCalm
<1>5. Calm(T4Expired(s, i))
  <2> DEFINE n == NetMngSend(s, i, "CBD")
             f == Forget(n, i, "t4")
  <2>1. T4Expired(s, i) = Start(f, i, "t5") BY DEF T4Expired
  <2>2. Calm(n) BY SendCalm
  <2> HIDE DEF n
  <2>3. Calm(f) BY <1>1, <2>2, TimersCalm
  <2> HIDE DEF f
  <2>q. QED BY <1>1, <2>1, <2>3, TimersCalm
<1>6. Calm(T5Expired(s, i))
  <2> DEFINE f == Forget(s, i, "t5")
             n == [f EXCEPT !.sent[i] = @ \ {"CBD"}]
  <2>1. T5Expired(s, i) = T3Expired(n, i) BY DEF T5Expired
  <2>2. Calm(f) BY <1>1, TimersCalm
  <2> HIDE DEF f
  <2>3. {"CBD"} \in SUBSET {"COO", "ECO", "CBD", "LFU"} OBVIOUS
  <2>4. Calm(n) BY <2>2, <2>3, TimersCalm
  <2> HIDE DEF n
  <2>q. QED BY <1>4, <2>1, <2>4
<1>q. QED BY <1>2, <1>3, <1>4, <1>5, <1>6

\* T12 and T14 give the request up that they repeat; T22 and T23 run as long as
\* the link is inhibited.
LEMMA RequestExpiredCalm ==
    ASSUME NEW s, Calm(s), NEW i \in Link
    PROVE  /\ Calm(T12Expired2nd(s, i)) /\ Calm(T14Expired2nd(s, i))
           /\ Calm(T22Expired(s, i)) /\ Calm(T23Expired(s, i))
<1>1. ASSUME NEW n, Calm(n)
      PROVE  /\ n.inhibit[i] \in SUBSET Inhibit /\ n.sent[i] \in SUBSET SentMsg
             /\ Laid(n) /\ LinkAsked(n, i)
  BY <1>1, CalmLink DEF Calm, Laid
<1>2. {"t12", "t14", "t22", "t23"} \subseteq LinkTimer /\ "1st" \in Callback
  BY TimersKnown DEF Callback
<1>3. ASSUME NEW t \in {"t12", "t14", "t22", "t23"}
      PROVE  LET f == Forget(s, i, t)
             IN  /\ QuietBut(s, f, i) /\ Laid(f) /\ f.inhibit = s.inhibit /\ f.sent = s.sent
                 /\ \A u \in LinkTimer : f.timer[i][u] = IF u = t THEN "off" ELSE s.timer[i][u]
  <2> DEFINE f == Forget(s, i, t)
  <2>1. Laid(s) /\ t \in LinkTimer BY <1>1, <1>2
  <2>2. f = Forget(s, i, t) OBVIOUS
  <2> HIDE DEF f
  <2>3. /\ QuietBut(s, f, i) /\ f.inhibit = s.inhibit /\ f.sent = s.sent
        /\ \A u \in LinkTimer : f.timer[i][u] = IF u = t THEN "off" ELSE s.timer[i][u]
    BY <2>1, <2>2, LinkTimerSet
  <2>q. QED BY <2>3 DEF QuietBut, f
<1>4. Calm(T12Expired2nd(s, i))
  <2> DEFINE f == Forget(s, i, "t12")
             n == [f EXCEPT !.sent[i] = @ \ {"LUN"}]
             R == f.sent[i] \ {"LUN"}
             E == f.inhibit[i]
  <2>1. T12Expired2nd(s, i) = n BY DEF T12Expired2nd
  <2>2. /\ QuietBut(s, f, i) /\ Laid(f) /\ f.inhibit = s.inhibit /\ f.sent = s.sent
        /\ \A u \in LinkTimer : f.timer[i][u] = IF u = "t12" THEN "off" ELSE s.timer[i][u]
    BY <1>3
  <2>3. n = [f EXCEPT !.sent[i] = R] OBVIOUS
  <2> HIDE DEF f
  <2>4. R \in SUBSET SentMsg /\ E \in SUBSET Inhibit BY <1>1, <2>2
  <2>5. R = s.sent[i] \ {"LUN"} /\ E = s.inhibit[i] BY <2>2
  <2>6. [f EXCEPT !.sent[i] = R] = Noted(f, i, R, E) BY ZenonT(60), <2>2, NotedAlone
  <2> HIDE DEF n, R, E
  <2>7. n = Noted(f, i, R, E) BY <2>3, <2>6
  <2>8. QuietBut(f, n, i) /\ n.timer = f.timer /\ n.sent[i] = R /\ n.inhibit[i] = E
    BY <2>2, <2>4, <2>7, LinkNotes
  <2>9. QuietBut(s, n, i) \/ Quiet(s, n) BY <2>2, <2>8, QuietButTransitive
  <2>10. LinkAsked(n, i) BY <1>1, <1>2, <2>2, <2>5, <2>8 DEF LinkAsked
  <2>q. QED BY <2>1, <2>9, <2>10, LinkCalm, QuietCalm
<1>5. Calm(T14Expired2nd(s, i))
  <2> DEFINE f == Forget(s, i, "t14")
             n == [f EXCEPT !.sent[i] = @ \ {"LIN"}, !.inhibit[i] = @ \ {"LOCALLY"}]
             R == f.sent[i] \ {"LIN"}
             E == f.inhibit[i] \ {"LOCALLY"}
  <2>1. T14Expired2nd(s, i) = n BY DEF T14Expired2nd
  <2>2. /\ QuietBut(s, f, i) /\ Laid(f) /\ f.inhibit = s.inhibit /\ f.sent = s.sent
        /\ \A u \in LinkTimer : f.timer[i][u] = IF u = "t14" THEN "off" ELSE s.timer[i][u]
    BY <1>3
  <2>3. n = Noted(f, i, R, E) BY DEF Noted
  <2> HIDE DEF f, n
  <2>4. R \in SUBSET SentMsg /\ E \in SUBSET Inhibit BY <1>1, <2>2
  <2>5. R = s.sent[i] \ {"LIN"} /\ E = s.inhibit[i] \ {"LOCALLY"} BY <2>2
  <2> HIDE DEF R, E
  <2>6. QuietBut(f, n, i) /\ n.timer = f.timer /\ n.sent[i] = R /\ n.inhibit[i] = E
    BY <2>2, <2>3, <2>4, LinkNotes
  <2>7. QuietBut(s, n, i) \/ Quiet(s, n) BY <2>2, <2>6, QuietButTransitive
  <2>8. LinkAsked(n, i) BY <1>1, <1>2, <2>2, <2>5, <2>6 DEF LinkAsked
  <2>q. QED BY <2>1, <2>7, <2>8, LinkCalm, QuietCalm
<1>6. ASSUME NEW t \in {"t22", "t23"}, NEW msg
      PROVE  Calm(Schedule(NetMngSend(s, i, msg), i, t, "1st"))
  <2> DEFINE n == NetMngSend(s, i, msg)
             m == Schedule(n, i, t, "1st")
  <2>1. Calm(n) BY SendCalm
  <2>2. m = Schedule(n, i, t, "1st") OBVIOUS
  <2> HIDE DEF n, m
  <2>3. Laid(n) /\ t \in LinkTimer BY <1>1, <1>2, <2>1
  <2>4. /\ QuietBut(n, m, i) /\ m.inhibit = n.inhibit /\ m.sent = n.sent
        /\ \A u \in LinkTimer : m.timer[i][u] = IF u = t THEN "1st" ELSE n.timer[i][u]
    BY <1>2, <2>2, <2>3, LinkTimerSet
  <2>5. LinkAsked(m, i) BY <1>1, <1>2, <2>1, <2>4 DEF LinkAsked
  <2>6. Calm(m) BY <2>1, <2>4, <2>5, LinkCalm
  <2>q. QED BY <2>6 DEF m, n
<1>7. "LOCALLY" \notin s.inhibit[i] => Calm(Forget(s, i, "t22"))
  <2> DEFINE f == Forget(s, i, "t22")
  <2>1. /\ QuietBut(s, f, i) /\ f.inhibit = s.inhibit /\ f.sent = s.sent
        /\ \A u \in LinkTimer : f.timer[i][u] = IF u = "t22" THEN "off" ELSE s.timer[i][u]
    BY <1>3
  <2> HIDE DEF f
  <2>2. "LOCALLY" \notin s.inhibit[i] => LinkAsked(f, i) BY <1>1, <1>2, <2>1 DEF LinkAsked
  <2>q. QED BY <2>1, <2>2, LinkCalm DEF f
<1>8. "REMOTELY" \notin s.inhibit[i] => Calm(Forget(s, i, "t23"))
  <2> DEFINE f == Forget(s, i, "t23")
  <2>1. /\ QuietBut(s, f, i) /\ f.inhibit = s.inhibit /\ f.sent = s.sent
        /\ \A u \in LinkTimer : f.timer[i][u] = IF u = "t23" THEN "off" ELSE s.timer[i][u]
    BY <1>3
  <2> HIDE DEF f
  <2>2. "REMOTELY" \notin s.inhibit[i] => LinkAsked(f, i) BY <1>1, <1>2, <2>1 DEF LinkAsked
  <2>q. QED BY <2>1, <2>2, LinkCalm DEF f
<1>9. Calm(T22Expired(s, i)) BY <1>6, <1>7 DEF T22Expired
<1>10. Calm(T23Expired(s, i)) BY <1>6, <1>8 DEF T23Expired
<1>q. QED BY <1>4, <1>5, <1>9, <1>10

LEMMA Q707ExpiredCalm ==
    ASSUME NEW s, Calm(s), NEW i \in Link
    PROVE  Calmed(Q707T1Expired(s, i)) /\ Calm(Q707T2Expired(s, i))
<1>1. /\ "q707_t1" \in LinkTimer \ RequestTimer /\ "q707_t2" \in LinkTimer \ RequestTimer
      /\ "1st" \in Callback
  BY RequestTimers DEF Callback
<1>2. Calmed(Q707T1Expired(s, i))
  <2> DEFINE f == Forget(s, i, "q707_t1")
             a == [f EXCEPT !.failed[i] = 1]
             b == [f EXCEPT !.failed[i] = 0]
             c == Stop(b, i, "q707_t2")
             d == EventLinkDown(c, i)
  <2>1. Q707T1Expired(s, i) \in {StdTestSend(a, i), StdTestSend(d, i)} BY DEF Q707T1Expired
  <2>2. Calm(f) BY <1>1, TimersCalm
  <2> HIDE DEF f
  <2>3. Calm(a) /\ Calm(b) BY <2>2, BuffersCalm
  <2> HIDE DEF a, b
  <2>4. Calm(c) BY <1>1, <2>3, TimersCalm
  <2> HIDE DEF c
  <2>5. Calmed(d) BY <2>4, EventLinkDownCalm
  <2> HIDE DEF d
  <2>6. Same(d, StdTestSend(d, i)) BY <2>5, TestSendSame DEF Calmed
  <2>7. Calm(d) => Calm(StdTestSend(d, i)) BY BuffersCalm
  <2>8. Calmed(StdTestSend(d, i)) BY <2>5, <2>6, <2>7, SameCalmed
  <2>9. Calm(StdTestSend(a, i)) BY <2>3, BuffersCalm
  <2>q. QED BY <2>1, <2>8, <2>9 DEF Calmed, Calm, Laid
<1>3. Calm(Q707T2Expired(s, i))
  <2> DEFINE n == StdTestSend(s, i)
  <2>1. Calm(n) BY BuffersCalm
  <2> HIDE DEF n
  <2>2. Calm(Schedule(n, i, "q707_t2", "1st")) BY <1>1, <2>1, TimersCalm
  <2>q. QED BY <2>2 DEF Q707T2Expired, n
<1>q. QED BY <1>2, <1>3

LEMMA ExpiredCalm ==
    ASSUME NEW s, Calm(s), NEW i \in Link, NEW t \in LinkTimer, NEW c \in Callback
    PROVE  Calmed(Expired(s, i, t, c))
<1>1. /\ t \in {"t1", "t2", "t3", "t4", "t5", "t12", "t13", "t14", "t22", "t23",
                "q707_t1", "q707_t2"}
      /\ c \in {"1st", "2nd"}
  BY DEF LinkTimer, CoCbTimer, OtherTimer, Callback
<1>2. \A n : Calm(n) => Calmed(n) BY DEF Calmed, Calm, Laid
<1>3. /\ Calmed(NetMngSend(s, i, "LUN")) /\ Calmed(NetMngSend(s, i, "LFU"))
      /\ Calmed(NetMngSend(s, i, "LIN"))
  BY <1>2, SendCalm
<1>4. Calmed(Forget(s, i, "t13")) BY <1>2, RequestTimers, TimersCalm
<1>5. /\ Calmed(T1Expired(s, i)) /\ Calmed(T2Expired(s, i)) /\ Calmed(T3Expired(s, i))
      /\ Calmed(T4Expired(s, i)) /\ Calmed(T5Expired(s, i))
  BY <1>2, ChangeoverExpiredCalm
<1>6. /\ Calmed(T12Expired2nd(s, i)) /\ Calmed(T14Expired2nd(s, i))
      /\ Calmed(T22Expired(s, i)) /\ Calmed(T23Expired(s, i))
  BY <1>2, RequestExpiredCalm
<1>7. Calmed(Q707T1Expired(s, i)) /\ Calmed(Q707T2Expired(s, i)) BY <1>2, Q707ExpiredCalm
<1>q. QED BY <1>1, <1>3, <1>4, <1>5, <1>6, <1>7 DEF Expired

\* The slot of a timer is freed before its callback is called.
LEMMA StaleCalm ==
    ASSUME NEW s, Calm(s), NEW i \in Link, NEW t \in LinkTimer, s.timer[i][t] \in Callback
    PROVE  Calm([s EXCEPT !.timer[i][t] = "stale"])
<1> DEFINE n == [s EXCEPT !.timer[i][t] = "stale"]
<1>1. Same(s, n) BY DEF Same, Whole, Core, Calm, Laid
<1>2. Laid(n) BY DEF Whole, Core, Calm, Laid
<1>3. /\ n.inhibit = s.inhibit /\ n.sent = s.sent
      /\ \A j \in Link, u \in LinkTimer : (n.timer[j][u] # "off") = (s.timer[j][u] # "off")
  BY DEF Calm, Laid, Callback
<1> HIDE DEF n
<1>4. Up(n) /\ Linked(n) BY <1>1, SameLinked DEF Calm
<1>5. Asked(n) BY <1>3, TimersKnown DEF Calm, Asked, Tested, Pending
<1>6. Calm(n) BY <1>2, <1>4, <1>5 DEF Calm
<1>q. QED BY <1>6 DEF n

\* What a destination's route does to the buffers concerns no link's state.
LEMMA RouteCalm ==
    ASSUME NEW s, Calm(s), NEW sp \in Sp, NEW d \in Dest
    PROVE  /\ Calm(RxTfp(s, sp, d)) /\ Calm(RxTfa(s, sp, d))
           /\ Calm(T6Expired(s, sp, d)) /\ Calm(T10Expired(s, sp, d))
<1> DEFINE B == {"tx_q", "co_tx_q", "co_buf", "cb_buf", "tx_buf", "co_tx_buf"}
<1>1. Laid(s) /\ Whole(s) BY DEF Calm, Laid
<1>2. ASSUME NEW n, Laid(n), NEW bufs \in Seq(B) PROVE Quiet(n, Withdraw(n, sp, d, bufs))
  <2>1. Range(bufs) \subseteq B BY ElementOfSeq, LenProperties DEF Range
  <2>2. {"timer", "sent", "inhibit"} \cap Range(bufs) = {} BY <2>1
  <2> DEFINE m == Withdraw(n, sp, d, bufs)
  <2>3. DOMAIN m = DOMAIN n /\ \A f \in DOMAIN n : f \notin Range(bufs) => m[f] = n[f]
    BY DEF Withdraw
  <2>4. Same(n, m) BY <1>2, WithdrawSame DEF Laid
  <2> HIDE DEF m
  <2>5. m.timer = n.timer /\ m.sent = n.sent /\ m.inhibit = n.inhibit
    BY <1>2, <2>2, <2>3 DEF Laid
  <2>6. Mute(n, m) BY <1>2, <2>3, <2>4, <2>5 DEF Mute, Laid, Same
  <2>q. QED BY <2>4, <2>6 DEF Quiet, m
<1>3. \A n, r : Laid(n) /\ RouteRuns(r) => Quiet(n, [n EXCEPT !.route[sp][d] = r])
  <2> SUFFICES ASSUME NEW n, NEW r, Laid(n), RouteRuns(r)
               PROVE  Quiet(n, [n EXCEPT !.route[sp][d] = r])
    OBVIOUS
  <2> DEFINE m == [n EXCEPT !.route[sp][d] = r]
  <2>1. Whole(n) BY DEF Laid
  <2>2. Same(n, n) BY <2>1, SameItself
  <2>3. Same(n, m) BY <2>2, RoutePut
  <2>4. Mute(n, m) BY DEF Mute, Laid, Whole, Core
  <2>q. QED BY <2>3, <2>4 DEF Quiet
<1>4. \A n, msgs : Laid(n) => Quiet(n, Transmit(n, msgs))
  <2>1. 0 \in Link BY NumLinksAssumption DEF Link
  <2>q. QED BY <2>1, FieldsQuiet
<1>5. Quiet(s, ForcedReroute(s, sp, d))
  <2> DEFINE bufs == <<"tx_q", "co_tx_q", "co_buf", "cb_buf">>
             all == bufs \o <<"tx_buf", "co_tx_buf">>
             n == Withdraw(s, sp, d, all)
             r == [state |-> "TFP", t6 |-> FALSE, t10 |-> "t10" \in Configured, q |-> <<>>]
             m == [n EXCEPT !.route[sp][d] = r]
             msgs == s.route[sp][d].q \o Withdrawn(s, sp, d, bufs)
  <2>1. all \in Seq(B)
    <3>1. bufs \in Seq(B) /\ <<"tx_buf", "co_tx_buf">> \in Seq(B) OBVIOUS
    <3>q. QED BY <3>1, ConcatProperties
  <2>2. ForcedReroute(s, sp, d) = Transmit(m, msgs) BY DEF ForcedReroute
  <2>3. RouteRuns(r) BY ProhibitedRuns
  <2> HIDE DEF all, msgs, bufs, r
  <2>4. Quiet(s, n) BY <1>1, <1>2, <2>1
  <2> HIDE DEF n
  <2>5. Quiet(n, m) BY <1>3, <2>4, <2>3, QuietLaid
  <2> HIDE DEF m
  <2>6. Quiet(m, Transmit(m, msgs)) BY <1>4, <2>5, QuietLaid
  <2>q. QED BY <2>2, <2>4, <2>5, <2>6, QuietTransitive
<1>6. Quiet(s, ControlledReroute(s, sp, d))
  <2> DEFINE bufs == <<"tx_q", "co_buf", "cb_buf", "co_tx_q">>
             n == Withdraw(s, sp, d, bufs)
             w == ControlledReroute(s, sp, d)
  <2>1. bufs \in Seq(B) OBVIOUS
  <2>2. DOMAIN w = DOMAIN n /\ \A f \in DOMAIN n : f # "route" => w[f] = n[f]
    BY DEF ControlledReroute
  <2>3. Same(s, w) BY <1>1, RerouteSame
  <2> HIDE DEF bufs
  <2>4. Quiet(s, n) BY <1>1, <1>2, <2>1
  <2> HIDE DEF n, w
  <2>5. w.timer = n.timer /\ w.sent = n.sent /\ w.inhibit = n.inhibit
    BY <2>2, <2>4, QuietLaid DEF Laid
  <2>6. Laid(w) BY <2>2, <2>3, <2>4, <2>5, QuietLaid DEF Laid, Same
  <2>q. QED BY <2>3, <2>4, <2>5, <2>6 DEF Quiet, Mute, w
<1>7. Quiet(s, T6Expired(s, sp, d))
  <2> DEFINE c == [s EXCEPT !.route[sp][d].t6 = FALSE, !.route[sp][d].q = <<>>]
             n == Transmit(c, s.route[sp][d].q)
             m == [n EXCEPT !.route[sp][d] = NoRoute]
             w == T6Expired(s, sp, d)
  <2>1. Laid(c) /\ c.timer = s.timer /\ c.sent = s.sent /\ c.inhibit = s.inhibit
    BY SMTT(30), <1>1 DEF Laid, Whole, Core
  <2>2. w \in {n, m} BY DEF T6Expired
  <2>3. Same(s, w) BY <1>1, RerouteSame
  <2> HIDE DEF c, w
  <2>4. Quiet(c, n) BY <1>4, <2>1
  <2>5. Laid(n) BY <2>1, <2>4, QuietLaid
  <2> HIDE DEF n
  <2>6. Quiet(n, m) BY <1>3, <2>5, NoRouteRuns
  <2> HIDE DEF m
  <2>7. Mute(s, c) /\ Mute(c, n) /\ Mute(n, m) BY <2>1, <2>4, <2>6 DEF Quiet, Mute
  <2>8. Mute(s, w) BY <2>2, <2>7 DEF Mute
  <2>q. QED BY <2>3, <2>8 DEF Quiet, w
<1>8. Calm(T10Expired(s, sp, d))
  <2>1. First(LinksOf(sp)) \in Link BY SpAssumption, FirstExists DEF LinksOf
  <2>q. QED BY <2>1, SendCalm DEF T10Expired
<1>q. QED BY <1>5, <1>6, <1>7, <1>8, QuietCalm DEF RxTfp, RxTfa

\* The application, the timers of the adjacent SPs and of the linkset, and
\* MTP2's events.
LEMMA ApplicationCalm ==
    ASSUME NEW s, Calm(s), NEW i \in Link, NEW sp \in Sp
    PROVE  /\ Calmed(Alarm(s, i)) /\ Calm(NoAlarm(s, i))
           /\ \A msg : Calm(NetMngCommand(s, i, msg))
           /\ \A e : Calm(PostEvent(s, e))
           /\ Calm(T21Expired(s, sp)) /\ Calm(LinksetUpExpired(s))
<1>1. Laid(s) /\ Whole(s) BY DEF Calm, Laid
<1>2. Calmed(Alarm(s, i)) BY BuffersCalm, LinkFailedCalm DEF Alarm
<1>3. Calm(NoAlarm(s, i)) BY <1>1, FieldsCalm DEF NoAlarm, Laid, Whole, Core
<1>4. \A msg : Calm(NetMngCommand(s, i, msg)) BY SendCalm DEF NetMngCommand
<1>5. \A n, e : Calm(n) => Calm(PostEvent(n, e))
  <2> SUFFICES ASSUME NEW n, NEW e, Calm(n) PROVE Calm(PostEvent(n, e)) OBVIOUS
  <2>1. Laid(n) BY DEF Calm
  <2>q. QED BY <2>1, FieldsCalm DEF PostEvent, Laid, Whole, Core
<1>6. Calm(T21Expired(s, sp))
  <2> DEFINE n == [s EXCEPT !.t21[sp] = FALSE, !.tra[sp] = @ \cup {"GOT"}]
  <2>1. /\ Whole(n) /\ {"timer", "sent", "inhibit"} \subseteq DOMAIN n
        /\ n.timer = s.timer /\ n.sent = s.sent /\ n.inhibit = s.inhibit
        /\ n.passed = s.passed /\ n.sp = s.sp /\ n.state = s.state
        /\ n.tra = [s.tra EXCEPT ![sp] = @ \cup {"GOT"}]
    BY <1>1 DEF Whole, Core, Laid
  <2>2. T21Expired(s, sp) = Check(n, sp) BY DEF T21Expired
  <2> HIDE DEF n
  <2>3. \A q \in Sp : n.sp[q] = "UP" /\ n.tra[q] = {"GOT", "SENT"} BY <2>1 DEF Calm, Up
  <2>4. Up(n) /\ Linked(n) BY <2>1, <2>3 DEF Up, Linked, Reachable, PassedLinks, Calm
  <2>5. Calm(n) BY <1>1, <2>1, <2>4 DEF Calm, Laid, Asked, Tested, Pending
  <2>6. Check(n, sp) = n BY <2>4 DEF Up, Linked, Check
  <2>q. QED BY <2>2, <2>5, <2>6
<1>7. Calm(LinksetUpExpired(s))
  <2>1. Calm([s EXCEPT !.linkset_up = FALSE]) BY <1>1, FieldsCalm DEF Laid, Whole, Core
  <2>q. QED BY <1>5, <2>1 DEF LinksetUpExpired
<1>q. QED BY <1>2, <1>3, <1>4, <1>5, <1>6, <1>7

LEMMA ProcessEventCalm ==
    ASSUME NEW s, Calm(s), NEW e \in LinkEvent \cup AppEvent
    PROVE  Calmed(ProcessEvent(s, e))
<1>1. \A n : Calm(n) => Calmed(n) BY DEF Calmed, Calm, Laid
<1>2. e.e \in {"LINK_UP", "LINK_DOWN"} => e.link \in Link BY DEF LinkEvent, AppEvent
<1>3. e.e = "LINK_UP" => Calmed(EventLinkUp(s, e.link)) BY <1>1, <1>2, BuffersCalm
<1>4. e.e = "LINK_DOWN" => Calmed(EventLinkDown(s, e.link)) BY <1>2, EventLinkDownCalm
<1>q. QED BY <1>1, <1>3, <1>4 DEF ProcessEvent

-------------------------------------------------------------------------------
(* The linkset. *)

\* The invariant: what every function of mtp3.c keeps.
IInv == topic \in Topic /\ Good(ss7, told)

LEMMA BecomesGood ==
    ASSUME NEW n, Becomes(n), NEW v, Good(n, v)
    PROVE  Good(ss7', v)
<1> DEFINE m == [n EXCEPT !.out = <<>>]
<1>1. Same(n, m) BY WholeOf DEF Same, Whole, Core
<1>2. ss7' = m BY DEF Becomes
<1> HIDE DEF m
<1>q. QED BY <1>1, <1>2, SameSound

LEMMA InitGood ==
    ASSUME Init
    PROVE  IInv
<1> USE DEF Init
<1>1. StartsUp[topic] \in BOOLEAN BY TopicAssumption
<1>2. Typed(ss7)
  <2>1. ss7.ev \in Seq(LinkEvent \cup AppEvent) OBVIOUS
  <2>2. Whole(ss7) BY DEF Whole, Core
  <2>3. /\ ss7.passed \in [Link -> BOOLEAN] /\ ss7.linkset_up \in BOOLEAN
        /\ ss7.sp \in [Sp -> {"DOWN", "UP"}] /\ ss7.tra \in [Sp -> SUBSET {"GOT", "SENT"}]
        /\ ss7.t21 \in [Sp -> BOOLEAN] /\ ss7.state \in {"DOWN", "UP"}
        /\ ss7.evrefused \in BOOLEAN /\ ss7.orphan \subseteq Slots
    BY <1>1
  <2>4. ss7.route = [sp \in Sp |-> [d \in Dest |-> NoRoute]] OBVIOUS
  <2>5. Routed(ss7.route) BY <2>4, NoRouteRuns DEF Routed
  <2>q. QED BY <2>1, <2>2, <2>3, <2>5 DEF Typed
<1>3. Backed(ss7, {})
  <2> SUFFICES ASSUME NEW sp \in Sp, ss7.sp[sp] = "UP"
               PROVE  ss7.tra[sp] = {"GOT", "SENT"} /\ Reachable(ss7, sp) # {}
    BY DEF Backed
  <2>1. StartsUp[topic] OBVIOUS
  <2>2. Reachable(ss7, sp) = LinksOf(sp) BY <2>1 DEF Reachable, PassedLinks, LinksOf
  <2>q. QED BY <2>1, <2>2, SpAssumption
<1>4. Timed(ss7)
  <2>1. \A sp \in Sp : ss7.tra[sp] \in {{}, {"GOT", "SENT"}} OBVIOUS
  <2>2. {} # {"SENT"} /\ {"GOT", "SENT"} # {"SENT"}
    <3>1. "SENT" \notin {} /\ "GOT" \in {"GOT", "SENT"} /\ "GOT" \notin {"SENT"} OBVIOUS
    <3>2. "SENT" \in {"SENT"} OBVIOUS
    <3>q. QED BY <3>1, <3>2
  <2>q. QED BY <2>1, <2>2 DEF Timed
<1>5. Truthful(ss7, told)
  <2>1. ss7.ev = <<>> /\ ss7.linkset_up = FALSE /\ ss7.state = told OBVIOUS
  <2>2. Says(ss7.ev, told, told) BY <2>1 DEF Says
  <2>q. QED BY <2>1, <2>2 DEF Truthful
<1>6. Follows(ss7)
  <2>1. \E sp \in Sp : TRUE
    <3>1. 0 \in Link BY NumLinksAssumption DEF Link
    <3>q. QED BY <3>1, DestAssumption
  <2>q. QED BY <1>1, <2>1 DEF Follows, SpUp
<1>q. QED BY <1>2, <1>3, <1>4, <1>5, <1>6 DEF IInv, Good, Sound

\* MTP2's steps.
LEMMA Mtp2StepGood ==
    ASSUME NEW i \in Link, Good(ss7, told)
    PROVE  /\ Write(i) \/ WriteSio(i) \/ Acknowledge(i) => Good(ss7', told')
           /\ GoIn(i) \/ GoOut(i) => Good(ss7', told')
           /\ RaiseAlarm(i) \/ ClearAlarm(i) => Good(ss7', told')
<1>1. Whole(ss7) BY WholeOf
<1>2. ASSUME Write(i) \/ WriteSio(i) \/ Acknowledge(i) PROVE Good(ss7', told')
  <2>1. Same(ss7, ss7') /\ told' = told
    BY <1>1, <1>2 DEF Write, WriteSio, Acknowledge, Same, Whole, Core
  <2>q. QED BY <2>1, SameSound
<1>3. ASSUME GoIn(i) \/ GoOut(i) PROVE Good(ss7', told')
  <2>1. PICK e \in LinkEvent : ss7' = PostEvent(ss7, e) /\ told' = told
    BY <1>3 DEF GoIn, GoOut, LinkEvent
  <2>q. QED BY <2>1, PostLinkEventGood
<1>4. ASSUME RaiseAlarm(i) \/ ClearAlarm(i) PROVE Good(ss7', told')
  BY <1>4, ApplicationGood, BecomesGood DEF RaiseAlarm, ClearAlarm
<1>q. QED BY <1>2, <1>3, <1>4

\* What the peers send and the application asks for.
LEMMA ReceiveStepGood ==
    ASSUME NEW i \in Link, Good(ss7, told)
    PROVE  /\ ReceiveTest(i) \/ ReceiveNetMng(i) => Good(ss7', told')
           /\ ReceiveRoute(i) \/ Command(i) => Good(ss7', told')
<1>1. AdjSp[i] \in Sp BY DestAssumption
<1>2. ASSUME ReceiveTest(i) PROVE Good(ss7', told')
  BY <1>2, RxTestGood, BecomesGood DEF ReceiveTest
<1>3. ASSUME ReceiveNetMng(i) PROVE Good(ss7', told')
  BY <1>3, NetMngReceiveGood, BecomesGood DEF ReceiveNetMng
<1>4. ASSUME ReceiveRoute(i) PROVE Good(ss7', told')
  BY <1>1, <1>4, RouteGood, BecomesGood DEF ReceiveRoute
<1>5. ASSUME Command(i) PROVE Good(ss7', told')
  <2>1. PICK msg : Becomes(NetMngCommand(ss7, i, msg)) BY <1>5 DEF Command
  <2>2. Good(NetMngCommand(ss7, i, msg), told) BY ApplicationGood
  <2>3. told' = told BY <1>5 DEF Command
  <2>q. QED BY <2>1, <2>2, <2>3, BecomesGood
<1>q. QED BY <1>2, <1>3, <1>4, <1>5

LEMMA TimerStepGood ==
    ASSUME Good(ss7, told)
    PROVE  /\ \A i \in Link, t \in LinkTimer : Expire(i, t) => Good(ss7', told')
           /\ ExpireOrphan => Good(ss7', told')
           /\ \A sp \in Sp : ExpireT19(sp) \/ ExpireT21(sp) => Good(ss7', told')
           /\ \A sp \in Sp, d \in Dest : ExpireT6(sp, d) \/ ExpireT10(sp, d) => Good(ss7', told')
           /\ ExpireLinksetUp => Good(ss7', told')
<1>1. Whole(ss7) /\ Typed(ss7) BY WholeOf DEF Good, Sound
<1>2. ASSUME NEW i \in Link, NEW t \in LinkTimer, Expire(i, t) PROVE Good(ss7', told')
  <2> DEFINE n == [ss7 EXCEPT !.timer[i][t] = "stale"]
  <2>1. Same(ss7, n) BY <1>1 DEF Same, Whole, Core
  <2>2. /\ ss7.timer[i][t] \in Callback /\ told' = told
        /\ Becomes(Expired(n, i, t, ss7.timer[i][t]))
    BY <1>2 DEF Expire
  <2> HIDE DEF n
  <2>3. Good(n, told) BY <2>1, SameSound
  <2>4. Good(Expired(n, i, t, ss7.timer[i][t]), told) BY <2>2, <2>3, ExpiredGood
  <2>q. QED BY <2>2, <2>4, BecomesGood
<1>3. ASSUME ExpireOrphan PROVE Good(ss7', told')
  <2>1. PICK o \in ss7.orphan :
            Becomes(Expired([ss7 EXCEPT !.orphan = @ \ {o}], o[1], o[2], o[3]))
    BY <1>3 DEF ExpireOrphan
  <2> DEFINE n == [ss7 EXCEPT !.orphan = @ \ {o}]
  <2>2. Same(ss7, n) BY <1>1 DEF Same, Whole, Core
  <2>3. o[1] \in Link /\ o[2] \in LinkTimer /\ o[3] \in Callback
    BY <1>1 DEF Typed, Slots
  <2>4. told' = told BY <1>3 DEF ExpireOrphan
  <2>5. Becomes(Expired(n, o[1], o[2], o[3])) BY <2>1
  <2> HIDE DEF n
  <2>6. Good(n, told) BY <2>2, SameSound
  <2>7. Good(Expired(n, o[1], o[2], o[3]), told) BY <2>3, <2>6, ExpiredGood
  <2>q. QED BY <2>4, <2>5, <2>7, BecomesGood
<1>4. ASSUME NEW sp \in Sp, ExpireT19(sp) \/ ExpireT21(sp) PROVE Good(ss7', told')
  <2>1. CASE ExpireT19(sp)
    <3>1. Same(ss7, ss7') /\ told' = told BY <1>1, <2>1 DEF ExpireT19, Same, Whole, Core
    <3>q. QED BY <3>1, SameSound
  <2>2. CASE ExpireT21(sp)
    <3>1. Good(T21Expired(ss7, sp), told) BY TraReceived
    <3>q. QED BY <2>2, <3>1, BecomesGood DEF ExpireT21
  <2>q. QED BY <1>4, <2>1, <2>2
<1>5. ASSUME NEW sp \in Sp, NEW d \in Dest, ExpireT6(sp, d) \/ ExpireT10(sp, d)
      PROVE  Good(ss7', told')
  BY <1>5, RouteGood, BecomesGood DEF ExpireT6, ExpireT10
<1>6. ASSUME ExpireLinksetUp PROVE Good(ss7', told')
  BY <1>6, LinksetUpExpiredGood, BecomesGood DEF ExpireLinksetUp
<1>q. QED BY <1>2, <1>3, <1>4, <1>5, <1>6

LEMMA TopicStays ==
    ASSUME [Next]_vars
    PROVE  topic' = topic
<1>1. CASE CheckEvent \/ RestartTraffic \/ ExpireOrphan \/ ExpireLinksetUp
  BY <1>1 DEF CheckEvent, RestartTraffic, ExpireOrphan, ExpireLinksetUp
<1>2. \A m \in Msg : Give(m) => topic' = topic BY DEF Give
<1>3. \A sp \in Sp : ExpireT19(sp) \/ ExpireT21(sp) => topic' = topic
  BY DEF ExpireT19, ExpireT21
<1>4. \A sp \in Sp, d \in Dest : ExpireT6(sp, d) \/ ExpireT10(sp, d) => topic' = topic
  BY DEF ExpireT6, ExpireT10
<1>5. ASSUME NEW i \in Link
      PROVE  /\ Write(i) \/ WriteSio(i) \/ Acknowledge(i) => topic' = topic
             /\ GoIn(i) \/ GoOut(i) \/ RaiseAlarm(i) \/ ClearAlarm(i) => topic' = topic
             /\ ReceiveTest(i) \/ ReceiveNetMng(i) => topic' = topic
             /\ ReceiveRoute(i) \/ Command(i) => topic' = topic
             /\ \A t \in LinkTimer : Expire(i, t) => topic' = topic
  BY DEF Write, WriteSio, Acknowledge, GoIn, GoOut, RaiseAlarm, ClearAlarm, ReceiveTest,
         ReceiveNetMng, ReceiveRoute, Command, Expire
<1>6. CASE UNCHANGED vars BY <1>6 DEF vars
<1>q. QED BY <1>1, <1>2, <1>3, <1>4, <1>5, <1>6 DEF Next

LEMMA NextGood ==
    ASSUME IInv, [Next]_vars
    PROVE  IInv'
<1>1. topic' = topic BY TopicStays
<1>2. Good(ss7, told) BY DEF IInv
<1>3. Good(ss7', told')
  <2>1. CASE CheckEvent
    <3>1. Good(ProcessEvent([ss7 EXCEPT !.ev = Tail(@)], Head(ss7.ev)), told')
      BY <1>2, <2>1, CheckEventGood DEF CheckEvent
    <3>q. QED BY <2>1, <3>1, BecomesGood DEF CheckEvent
  <2>2. CASE RestartTraffic
    BY <1>2, <2>2, RestartGood, BecomesGood DEF RestartTraffic
  <2>3. ASSUME NEW m \in Msg, Give(m) PROVE Good(ss7', told')
    <3>1. 0 \in Link BY NumLinksAssumption DEF Link
    <3>2. Good(Transmit(ss7, <<m>>), told) BY <1>2, <3>1, SendGood
    <3>q. QED BY <2>3, <3>2, BecomesGood DEF Give
  <2>4. CASE UNCHANGED vars BY <1>2, <2>4 DEF vars
  <2>5. CASE \/ ExpireOrphan \/ ExpireLinksetUp
             \/ \E sp \in Sp : ExpireT19(sp) \/ ExpireT21(sp)
             \/ \E sp \in Sp, d \in Dest : ExpireT6(sp, d) \/ ExpireT10(sp, d)
    BY <1>2, <2>5, TimerStepGood
  <2>6. ASSUME NEW i \in Link,
               \/ Write(i) \/ WriteSio(i) \/ Acknowledge(i) \/ GoIn(i) \/ GoOut(i)
               \/ RaiseAlarm(i) \/ ClearAlarm(i)
               \/ ReceiveTest(i) \/ ReceiveNetMng(i) \/ ReceiveRoute(i) \/ Command(i)
               \/ \E t \in LinkTimer : Expire(i, t)
        PROVE  Good(ss7', told')
    BY <1>2, <2>6, Mtp2StepGood, ReceiveStepGood, TimerStepGood
  <2>q. QED BY <2>1, <2>2, <2>3, <2>4, <2>5, <2>6 DEF Next
<1>q. QED BY SMTT(30), <1>1, <1>3 DEF IInv

THEOREM InvariantHolds == Spec => []IInv
<1>1. Init => IInv BY InitGood
<1>2. IInv /\ [Next]_vars => IInv' BY NextGood
<1>q. QED BY <1>1, <1>2, PTL DEF Spec

\* The application's linkset is up exactly as long as an adjacent SP is, and each
\* of those has a link that has passed its test and both ends' TRA: whatever
\* order the links fail in, whoever restarts, and whichever path calls
\* mtp3_check (mtp3.c:700, ss7_check at mtp3.c:510).
THEOREM StateFollowsSps == Spec => []StateFollows
<1>1. IInv => StateFollows
  <2>1. ASSUME IInv PROVE (ss7.state = "UP") = SpUp(ss7)
    <3>1. SpUp(ss7) \in BOOLEAN BY DEF SpUp
    <3>q. QED BY <2>1, <3>1 DEF IInv, Good, Follows
  <2>2. ASSUME IInv, NEW sp \in Sp, ss7.sp[sp] = "UP"
        PROVE  Reachable(ss7, sp) # {} /\ ss7.tra[sp] = {"GOT", "SENT"}
    BY <2>2 DEF IInv, Good, Sound, Backed
  <2>q. QED BY <2>1, <2>2 DEF StateFollows
<1>q. QED BY <1>1, InvariantHolds, PTL

\* What the application is told, with the events it has not read yet, is the
\* state of the linkset once linkset_up_timer has expired, unless an event was
\* refused (ss7_check, mtp3.c:497).
THEOREM ApplicationKnows == Spec => []ToldTruth
<1>1. ASSUME Typed(ss7), NEW v, Says(ss7.ev, told, v) PROVE LastTold = v
  <2>1. CASE v = told /\ \A k \in DOMAIN ss7.ev : ss7.ev[k].e \notin {"UP", "DOWN"}
    BY <2>1 DEF LastTold, AppEvents
  <2>2. ASSUME NEW k \in DOMAIN ss7.ev, v = ss7.ev[k].e, ss7.ev[k].e \in {"UP", "DOWN"},
               \A j \in DOMAIN ss7.ev : j > k => ss7.ev[j].e \notin {"UP", "DOWN"}
        PROVE  LastTold = v
    <3>1. DOMAIN ss7.ev \subseteq Nat BY <1>1, LenProperties DEF Typed
    <3>2. k \in AppEvents /\ \A j \in AppEvents : k >= j BY <2>2, <3>1 DEF AppEvents
    <3>3. AppEvents \subseteq Nat BY <3>1 DEF AppEvents
    <3>4. Max(AppEvents) = k BY <3>2, <3>3 DEF Max
    <3>q. QED BY <2>2, <3>2, <3>4 DEF LastTold
  <2>q. QED BY <1>1, <2>1, <2>2 DEF Says
<1>2. IInv => ToldTruth BY <1>1 DEF IInv, Good, Sound, Truthful, ToldTruth
<1>q. QED BY <1>2, InvariantHolds, PTL

\* If T21 is configured, a restart whose TRA the peer has not answered is timed:
\* it ends without the peer's TRA (mtp3_restart, mtp3_t21_expired).
THEOREM RestartTimed ==
    ASSUME "t21" \in Configured
    PROVE  Spec => []TraTimed
<1>1. IInv => TraTimed BY DEF IInv, Good, Sound, Timed, TraTimed
<1>q. QED BY <1>1, InvariantHolds, PTL

\* If T10 is configured, a destination is tested exactly while a peer prohibits
\* it, T6 runs exactly while traffic for it is held back, and no message is left
\* waiting without it (mtp3_forced_reroute, mtp3_controlled_reroute,
\* mtp3_t6_expired, and link_available, mtp3.c:186).
THEOREM RoutesTimed ==
    ASSUME "t10" \in Configured
    PROVE  Spec => []RouteTimed
<1>1. IInv => RouteTimed
  <2> SUFFICES ASSUME IInv, NEW sp \in Sp, NEW d \in Dest
               PROVE  LET r == ss7.route[sp][d]
                      IN  /\ r.t10 = (r.state = "TFP")
                          /\ r.t6 = (r.state = "TFA")
                          /\ r.q # <<>> => r.t6
    BY DEF RouteTimed
  <2>1. RouteRuns(ss7.route[sp][d]) BY DEF IInv, Good, Sound, Typed, Routed
  <2>2. (ss7.route[sp][d].state = "TFP" /\ "t10" \in Configured)
           = (ss7.route[sp][d].state = "TFP")
    OBVIOUS
  <2>q. QED BY <2>1, <2>2 DEF RouteRuns
<1>q. QED BY <1>1, InvariantHolds, PTL

-------------------------------------------------------------------------------
(* Inhibiting. *)

\* The links are in service to begin with, and nobody restarts an SP that is up.
Undisturbed == \A t \in Topic : StartsUp[t] /\ ~Restarts[t] /\ "TRA" \notin PeerSends[t]

\* No adjacent SP has lost its last link.
Reached == Linked(ss7)

CalmInv == Calm(ss7)

LEMMA BecomesCalm ==
    ASSUME NEW n, Becomes(n), Calmed(n), Reached'
    PROVE  CalmInv'
<1> DEFINE m == [n EXCEPT !.out = <<>>]
<1>1. ss7' = m BY DEF Becomes
<1>2. Same(n, m) BY DEF Same, Whole, Core, Calmed
<1>3. Linked(m) BY <1>1 DEF Reached
<1>4. Calm(n) BY <1>2, <1>3, SameLinked DEF Calmed
<1>5. Calm(m) BY <1>4, FieldsCalm DEF Calm, Laid, Whole, Core
<1>q. QED BY <1>1, <1>5 DEF CalmInv

LEMMA InitCalm ==
    ASSUME Init, Undisturbed, Reached
    PROVE  CalmInv
<1>1. StartsUp[topic] BY DEF Init, Undisturbed
<1>2. Whole(ss7) BY InitGood, WholeOf DEF IInv
<1>3. Laid(ss7) BY <1>1, <1>2 DEF Init, Laid, Callback
<1>4. Up(ss7) BY <1>1 DEF Init, Up
<1>5. Asked(ss7)
  <2>1. \A i \in Link : /\ ss7.inhibit[i] = {} /\ ss7.sent[i] = {}
                        /\ ss7.timer[i]["t12"] = "off" /\ ss7.timer[i]["t14"] = "off"
    BY TimersKnown DEF Init
  <2>q. QED BY <2>1 DEF Asked, Tested, Pending
<1>q. QED BY <1>3, <1>4, <1>5 DEF CalmInv, Calm, Reached

LEMMA LinkStepCalm ==
    ASSUME CalmInv, Reached', NEW i \in Link
    PROVE  /\ Write(i) \/ WriteSio(i) \/ Acknowledge(i) => CalmInv'
           /\ GoIn(i) \/ GoOut(i) \/ RaiseAlarm(i) \/ ClearAlarm(i) => CalmInv'
           /\ ReceiveTest(i) \/ ReceiveRoute(i) \/ Command(i) => CalmInv'
           /\ "TRA" \notin PeerSends[topic] /\ ReceiveNetMng(i) => CalmInv'
           /\ \A t \in LinkTimer : Expire(i, t) => CalmInv'
<1>1. AdjSp[i] \in Sp BY DestAssumption
<1>2. Calm(ss7) /\ Laid(ss7) /\ Whole(ss7) BY DEF CalmInv, Calm, Laid
<1>3. \A n : Calm(n) => Calmed(n) BY DEF Calmed, Calm, Laid
<1>4. ASSUME Write(i) \/ WriteSio(i) \/ Acknowledge(i) PROVE CalmInv'
  BY <1>2, <1>4, FieldsCalm
  DEF Write, WriteSio, Acknowledge, CalmInv, Laid, Whole, Core
<1>5. ASSUME GoIn(i) \/ GoOut(i) PROVE CalmInv'
  BY <1>1, <1>2, <1>5, ApplicationCalm DEF GoIn, GoOut, CalmInv
<1>6. ASSUME RaiseAlarm(i) \/ ClearAlarm(i) PROVE CalmInv'
  BY <1>1, <1>2, <1>3, <1>6, ApplicationCalm, BecomesCalm DEF RaiseAlarm, ClearAlarm
<1>7. ASSUME ReceiveTest(i) PROVE CalmInv'
  BY <1>2, <1>3, <1>7, RxTestCalm, BecomesCalm DEF ReceiveTest
<1>8. ASSUME ReceiveRoute(i) PROVE CalmInv'
  BY <1>1, <1>2, <1>3, <1>8, RouteCalm, BecomesCalm DEF ReceiveRoute
<1>9. ASSUME Command(i) PROVE CalmInv'
  <2>1. PICK msg : Becomes(NetMngCommand(ss7, i, msg)) BY <1>9 DEF Command
  <2>2. Calmed(NetMngCommand(ss7, i, msg)) BY <1>1, <1>2, <1>3, ApplicationCalm
  <2>q. QED BY <2>1, <2>2, BecomesCalm
<1>10. ASSUME "TRA" \notin PeerSends[topic], ReceiveNetMng(i) PROVE CalmInv'
  <2>1. PICK msg, acked : msg # "TRA" /\ Becomes(NetMngReceive(ss7, i, msg, acked))
    BY <1>10 DEF ReceiveNetMng
  <2>2. Calmed(NetMngReceive(ss7, i, msg, acked)) BY <1>2, <1>3, <2>1, NetMngReceiveCalm
  <2>q. QED BY <2>1, <2>2, BecomesCalm
<1>11. ASSUME NEW t \in LinkTimer, Expire(i, t) PROVE CalmInv'
  <2> DEFINE n == [ss7 EXCEPT !.timer[i][t] = "stale"]
  <2>1. ss7.timer[i][t] \in Callback /\ Becomes(Expired(n, i, t, ss7.timer[i][t]))
    BY <1>11 DEF Expire
  <2>2. Calm(n) BY <1>2, <2>1, StaleCalm
  <2> HIDE DEF n
  <2>3. Calmed(Expired(n, i, t, ss7.timer[i][t])) BY <2>1, <2>2, ExpiredCalm
  <2>q. QED BY <2>1, <2>3, BecomesCalm
<1>q. QED BY <1>4, <1>5, <1>6, <1>7, <1>8, <1>9, <1>10, <1>11

LEMMA NextCalm ==
    ASSUME IInv, CalmInv, Undisturbed, Reached', [Next]_vars
    PROVE  CalmInv'
<1>1. Calm(ss7) /\ Laid(ss7) /\ Whole(ss7) BY DEF CalmInv, Calm, Laid
<1>2. \A n : Calm(n) => Calmed(n) BY DEF Calmed, Calm, Laid
<1>3. 0 \in Link BY NumLinksAssumption DEF Link
<1>4. ~Restarts[topic] /\ "TRA" \notin PeerSends[topic] BY DEF IInv, Undisturbed
<1>5. Typed(ss7) BY DEF IInv, Good, Sound
<1>6. CASE CheckEvent
  <2> DEFINE n == [ss7 EXCEPT !.ev = Tail(@)]
  <2>1. Head(ss7.ev) \in LinkEvent \cup AppEvent
    <3>1. ss7.ev # <<>> /\ ss7.ev \in Seq(LinkEvent \cup AppEvent)
      BY <1>5, <1>6 DEF CheckEvent, Typed
    <3>q. QED BY <3>1, HeadTailProperties
  <2>2. Becomes(ProcessEvent(n, Head(ss7.ev))) BY <1>6 DEF CheckEvent
  <2>3. Calm(n) BY <1>1, FieldsCalm DEF Laid, Whole, Core
  <2> HIDE DEF n
  <2>4. Calmed(ProcessEvent(n, Head(ss7.ev))) BY <2>1, <2>3, ProcessEventCalm
  <2>q. QED BY <2>2, <2>4, BecomesCalm
<1>7. ASSUME NEW m \in Msg, Give(m) PROVE CalmInv'
  <2>1. Becomes(Transmit(ss7, <<m>>)) BY <1>7 DEF Give
  <2>2. Calmed(Transmit(ss7, <<m>>)) BY <1>1, <1>2, <1>3, BuffersCalm
  <2>q. QED BY <2>1, <2>2, BecomesCalm
<1>8. CASE ExpireOrphan
  <2>1. PICK o \in ss7.orphan :
            Becomes(Expired([ss7 EXCEPT !.orphan = @ \ {o}], o[1], o[2], o[3]))
    BY <1>8 DEF ExpireOrphan
  <2> DEFINE n == [ss7 EXCEPT !.orphan = @ \ {o}]
  <2>2. o[1] \in Link /\ o[2] \in LinkTimer /\ o[3] \in Callback
    BY <1>5 DEF Typed, Slots
  <2>3. Calm(n) BY <1>1, FieldsCalm DEF Laid, Whole, Core
  <2>4. Becomes(Expired(n, o[1], o[2], o[3])) BY <2>1
  <2> HIDE DEF n
  <2>5. Calmed(Expired(n, o[1], o[2], o[3])) BY <2>2, <2>3, ExpiredCalm
  <2>q. QED BY <2>4, <2>5, BecomesCalm
<1>9. ASSUME NEW sp \in Sp, ExpireT19(sp) \/ ExpireT21(sp) PROVE CalmInv'
  <2>1. CASE ExpireT19(sp)
    BY <1>1, <2>1, FieldsCalm DEF ExpireT19, CalmInv, Laid, Whole, Core
  <2>2. CASE ExpireT21(sp)
    BY <1>1, <1>2, <1>3, <2>2, ApplicationCalm, BecomesCalm DEF ExpireT21
  <2>q. QED BY <1>9, <2>1, <2>2
<1>10. ASSUME NEW sp \in Sp, NEW d \in Dest, ExpireT6(sp, d) \/ ExpireT10(sp, d)
       PROVE  CalmInv'
  BY <1>1, <1>2, <1>10, RouteCalm, BecomesCalm DEF ExpireT6, ExpireT10
<1>11. CASE ExpireLinksetUp
  <2>1. AdjSp[0] \in Sp BY <1>3, DestAssumption
  <2>2. Calmed(LinksetUpExpired(ss7)) BY <1>1, <1>2, <1>3, <2>1, ApplicationCalm
  <2>q. QED BY <1>11, <2>2, BecomesCalm DEF ExpireLinksetUp
<1>12. CASE UNCHANGED vars BY <1>1, <1>12 DEF vars, CalmInv
<1>13. ASSUME NEW i \in Link,
              \/ Write(i) \/ WriteSio(i) \/ Acknowledge(i) \/ GoIn(i) \/ GoOut(i)
              \/ RaiseAlarm(i) \/ ClearAlarm(i)
              \/ ReceiveTest(i) \/ ReceiveNetMng(i) \/ ReceiveRoute(i) \/ Command(i)
              \/ \E t \in LinkTimer : Expire(i, t)
       PROVE  CalmInv'
  BY <1>4, <1>13, LinkStepCalm
<1>14. ~RestartTraffic BY <1>4 DEF RestartTraffic
<1>q. QED BY <1>6, <1>7, <1>8, <1>9, <1>10, <1>11, <1>12, <1>13, <1>14 DEF Next

\* As long as every adjacent SP keeps a link that has passed its test, every
\* link that either end has inhibited is asked about again and again: no
\* failure, changeover, lost answer or repeated request stops T22 or T23 while
\* the link is inhibited (mtp3.c:1296, mtp3.c:1338, mtp3_t22_expired,
\* mtp3_t23_expired).
THEOREM InhibitedLinksAsked ==
    ASSUME Undisturbed, {"t22", "t23"} \subseteq Configured
    PROVE  Spec /\ []Reached => []InhibitTested
<1>1. Init /\ Reached => CalmInv BY InitCalm
<1>2. IInv /\ CalmInv /\ Reached' /\ [Next]_vars => CalmInv' BY NextCalm
<1>3. CalmInv => InhibitTested BY DEF CalmInv, Calm, Asked, Tested, InhibitTested
<1>q. QED BY <1>1, <1>2, <1>3, InvariantHolds, PTL DEF Spec

\* Under the same conditions a request to inhibit or uninhibit a link is noted as
\* sent exactly as long as the timer runs that repeats it or gives it up: whatever
\* is lost or answered twice, the application can always try again
\* (net_mng_send, mtp3_t12_expired, mtp3_t14_expired).
THEOREM RequestsAreTimed ==
    ASSUME Undisturbed, "t14" \in Configured
    PROVE  Spec /\ []Reached => []RequestsTimed
<1>1. Init /\ Reached => CalmInv BY InitCalm
<1>2. IInv /\ CalmInv /\ Reached' /\ [Next]_vars => CalmInv' BY NextCalm
<1>3. CalmInv => RequestsTimed BY DEF CalmInv, Calm, Asked, Pending, RequestsTimed
<1>q. QED BY <1>1, <1>2, <1>3, InvariantHolds, PTL DEF Spec

-------------------------------------------------------------------------------
(* The timers of changeover and changeback.  Each belongs to one state of the  *)
(* link, so that a function that changes the state must have stopped it.       *)

PhaseTimer == {"t1", "t2", "t3", "t4", "t5"}

\* Every adjacent SP is up and has a link: what Calm says but for the requests.
Firm(s) ==
    /\ Laid(s) /\ Up(s) /\ Linked(s)
    /\ "changeover" \in DOMAIN s /\ s.changeover \in [Link -> Changeover]

\* Timers of changeover and changeback that nobody can stop.
Strays(s) == {o \in s.orphan : o[2] \in PhaseTimer}

\* The same phase of every link.
Spares(s, n) ==
    /\ Same(s, n) /\ Laid(n)
    /\ "changeover" \in DOMAIN n /\ n.changeover = s.changeover /\ n.inhibit = s.inhibit
    /\ \A j \in Link, t \in PhaseTimer : n.timer[j][t] = s.timer[j][t]
    /\ Strays(n) \subseteq Strays(s)

\* Of every link but i.
SparesBut(s, n, i) ==
    /\ Same(s, n) /\ Laid(n)
    /\ "changeover" \in DOMAIN n /\ n.changeover \in [Link -> Changeover]
    /\ \A j \in Link \ {i} :
          /\ n.changeover[j] = s.changeover[j] /\ n.inhibit[j] = s.inhibit[j]
          /\ \A t \in PhaseTimer : n.timer[j][t] = s.timer[j][t]
    /\ Strays(n) \subseteq Strays(s)

\* The state of link i and its timers fit together: T1 belongs to a timed
\* changeover, T2 to one that the peer has been asked for, T3 to a changeback,
\* and T4 or T5, not both, to one that the peer has been asked for.
InTime(s, i) ==
    LET c == s.changeover[i]
        t == s.timer[i]
    IN  /\ t["t1"] # "off" => c = "CHANGEOVER_IN_PROGRESS"
        /\ t["t2"] # "off" => c = "CHANGEOVER_INITIATED"
        /\ (t["t3"] # "off") <=> (c = "CHANGEBACK")
        /\ t["t4"] # "off" \/ t["t5"] # "off" => c = "CHANGEBACK_INITIATED"
        /\ t["t4"] = "off" \/ t["t5"] = "off"
        /\ c = "CHANGEBACK_INITIATED" /\ {"t4", "t5"} \subseteq Configured
               => t["t4"] # "off" \/ t["t5"] # "off"
        /\ \A u \in PhaseTimer : t[u] # "stale"

\* The traffic of the link is taken away from it.
Diverted(s, i) == s.changeover[i] \in
    {"CHANGEOVER_INITIATED", "CHANGEOVER_IN_PROGRESS", "CHANGEOVER_COMPLETED"}

\* back: the link may pass a test again, which begins a changeback.
InPhase(s, i, back) ==
    /\ InTime(s, i)
    /\ s.changeover[i] = "CHANGEBACK_INITIATED" => back
    /\ s.inhibit[i] # {} => Diverted(s, i)

Phased(s, back) == Firm(s) /\ Strays(s) = {} /\ \A i \in Link : InPhase(s, i, back)

LEMMA PhaseTimers ==
    /\ PhaseTimer \subseteq LinkTimer
    /\ LinkTimer \ PhaseTimer = {"t12", "t13", "t14", "t22", "t23", "q707_t1", "q707_t2"}
    /\ "t1" \in PhaseTimer /\ "t2" \in PhaseTimer /\ "t3" \in PhaseTimer
    /\ "t4" \in PhaseTimer /\ "t5" \in PhaseTimer
BY DEF PhaseTimer, LinkTimer, CoCbTimer, OtherTimer

LEMMA SparesItself ==
    ASSUME NEW s, Firm(s)
    PROVE  Spares(s, s)
BY SameItself DEF Spares, Firm, Laid

LEMMA SparesTransitive ==
    ASSUME NEW s, NEW n, NEW m, Spares(s, n), Spares(n, m)
    PROVE  Spares(s, m)
<1>1. Same(s, m) BY SameTransitive DEF Spares
<1>q. QED BY <1>1 DEF Spares

LEMMA SparesFirm ==
    ASSUME NEW s, Firm(s), NEW n, Spares(s, n) \/ (\E i \in Link : SparesBut(s, n, i))
    PROVE  Firm(n)
<1>1. Same(s, n) /\ Laid(n) BY DEF Spares, SparesBut
<1>2. Up(n) /\ Linked(n) BY <1>1, SameLinked DEF Firm
<1>q. QED BY <1>1, <1>2 DEF Firm, Spares, SparesBut

LEMMA SparesAll ==
    ASSUME NEW s, Firm(s), NEW n, Spares(s, n), NEW i \in Link
    PROVE  /\ SparesBut(s, n, i)
           /\ \A back : InPhase(s, i, back) => InPhase(n, i, back)
<1>1. SparesBut(s, n, i) BY DEF Spares, SparesBut, Firm
<1>2. n.changeover[i] = s.changeover[i] /\ n.inhibit[i] = s.inhibit[i] BY DEF Spares
<1>3. \A t \in PhaseTimer : n.timer[i][t] = s.timer[i][t] BY DEF Spares
<1>4. InTime(s, i) => InTime(n, i) BY <1>2, <1>3, PhaseTimers DEF InTime
<1>q. QED BY <1>1, <1>2, <1>4 DEF InPhase, Diverted

LEMMA SparesButTransitive ==
    ASSUME NEW s, Firm(s), NEW n, NEW m, NEW i \in Link,
           SparesBut(s, n, i), SparesBut(n, m, i)
    PROVE  SparesBut(s, m, i)
<1>1. Same(s, m) BY SameTransitive DEF SparesBut
<1>q. QED BY <1>1 DEF SparesBut

\* One link's phase changes.
LEMMA LinkPhased ==
    ASSUME NEW s, NEW back, Phased(s, back), NEW i \in Link, NEW n, SparesBut(s, n, i),
           InPhase(n, i, back)
    PROVE  Phased(n, back)
<1>1. Firm(n) BY SparesFirm DEF Phased
<1>2. Strays(n) = {} BY DEF Phased, SparesBut
<1>3. ASSUME NEW j \in Link, j # i PROVE InPhase(n, j, back)
  <2>1. n.changeover[j] = s.changeover[j] /\ n.inhibit[j] = s.inhibit[j]
    BY <1>3 DEF SparesBut
  <2>2. \A t \in PhaseTimer : n.timer[j][t] = s.timer[j][t] BY <1>3 DEF SparesBut
  <2>3. InPhase(s, j, back) BY DEF Phased
  <2>4. InTime(n, j) BY <2>1, <2>2, <2>3, PhaseTimers DEF InTime, InPhase
  <2>q. QED BY <2>1, <2>3, <2>4 DEF InPhase, Diverted
<1>q. QED BY <1>1, <1>2, <1>3 DEF Phased

LEMMA SparesPhased ==
    ASSUME NEW s, NEW back, Phased(s, back), NEW n, Spares(s, n)
    PROVE  Phased(n, back)
<1>1. Firm(s) BY DEF Phased
<1>2. Firm(n) BY <1>1, SparesFirm
<1>3. \A i \in Link : InPhase(n, i, back) BY <1>1, SparesAll DEF Phased
<1>q. QED BY <1>2, <1>3 DEF Phased, Spares

\* Neither the links' phases nor the state of the SPs and of the links changes.
LEMMA FieldsPhased ==
    ASSUME NEW s, NEW back, Phased(s, back), NEW n, Laid(n), Linked(n), Up(n),
           "changeover" \in DOMAIN n, n.changeover = s.changeover,
           n.inhibit = s.inhibit, n.timer = s.timer, n.orphan \subseteq s.orphan
    PROVE  Phased(n, back)
<1>1. Firm(n) BY DEF Phased, Firm
<1>2. Strays(n) = {} BY DEF Strays, Phased
<1>3. \A i \in Link : InPhase(n, i, back) BY DEF Phased, InPhase, InTime, Diverted
<1>q. QED BY <1>1, <1>2, <1>3 DEF Phased

-------------------------------------------------------------------------------
(* Functions that leave every link in its phase. *)

LEMMA TimersSpare ==
    ASSUME NEW s, Firm(s), NEW i \in Link, NEW t \in LinkTimer \ PhaseTimer
    PROVE  /\ Spares(s, Stop(s, i, t)) /\ Spares(s, Start(s, i, t))
           /\ Spares(s, Restart(s, i, t)) /\ Spares(s, ScheduleNext(s, i, t))
           /\ Spares(s, Forget(s, i, t))
           /\ \A c \in Callback : Spares(s, Schedule(s, i, t, c))
<1>1. t \in LinkTimer /\ t \notin PhaseTimer /\ "1st" \in Callback /\ "2nd" \in Callback
  BY DEF Callback
<1>2. Spares(s, Stop(s, i, t))
  <2> DEFINE n == Stop(s, i, t)
  <2>1. Same(s, n) BY <1>1, TimersSame DEF Firm, Laid
  <2>2. Laid(n) BY <1>1 DEF Firm, Laid, Whole, Core, Stop
  <2>3. /\ "changeover" \in DOMAIN n /\ n.changeover = s.changeover
        /\ n.inhibit = s.inhibit /\ n.orphan = s.orphan
        /\ \A j \in Link, u \in PhaseTimer : n.timer[j][u] = s.timer[j][u]
    BY <1>1, PhaseTimers DEF Firm, Laid, Whole, Core, Stop
  <2>q. QED BY <2>1, <2>2, <2>3 DEF Spares, Strays
<1>3. Spares(s, Forget(s, i, t))
  <2> DEFINE n == Forget(s, i, t)
  <2>1. Same(s, n) BY <1>1, TimersSame DEF Firm, Laid
  <2>2. Laid(n) BY <1>1 DEF Firm, Laid, Whole, Core, Forget
  <2>3. /\ "changeover" \in DOMAIN n /\ n.changeover = s.changeover
        /\ n.inhibit = s.inhibit /\ n.orphan \subseteq s.orphan \cup {<<i, t, s.timer[i][t]>>}
        /\ \A j \in Link, u \in PhaseTimer : n.timer[j][u] = s.timer[j][u]
    BY <1>1, PhaseTimers DEF Firm, Laid, Whole, Core, Forget
  <2>4. Strays(n) \subseteq Strays(s) BY <1>1, <2>3 DEF Strays
  <2>q. QED BY <2>1, <2>2, <2>3, <2>4 DEF Spares
<1>4. ASSUME NEW n, Firm(n), NEW c \in Callback PROVE Spares(n, Schedule(n, i, t, c))
  <2> DEFINE m == Schedule(n, i, t, c)
  <2>1. Same(n, m) BY <1>1, <1>4, TimersSame DEF Firm, Laid
  <2>2. Laid(m) BY <1>1, <1>4 DEF Firm, Laid, Whole, Core, Schedule
  <2>3. /\ "changeover" \in DOMAIN m /\ m.changeover = n.changeover
        /\ m.inhibit = n.inhibit /\ m.orphan \subseteq n.orphan \cup {<<i, t, n.timer[i][t]>>}
        /\ \A j \in Link, u \in PhaseTimer : m.timer[j][u] = n.timer[j][u]
    BY <1>1, <1>4, PhaseTimers DEF Firm, Laid, Whole, Core, Schedule
  <2>4. Strays(m) \subseteq Strays(n) BY <1>1, <2>3 DEF Strays
  <2>q. QED BY <2>1, <2>2, <2>3, <2>4 DEF Spares
<1>5. Spares(s, Restart(s, i, t))
  <2>1. Firm(Stop(s, i, t)) BY <1>2, SparesFirm
  <2>2. Spares(Stop(s, i, t), Restart(s, i, t)) BY <1>1, <1>4, <2>1 DEF Restart
  <2>q. QED BY <1>2, <2>2, SparesTransitive
<1>6. Spares(s, Start(s, i, t)) /\ Spares(s, ScheduleNext(s, i, t))
  BY <1>1, <1>4, SparesItself DEF Start, ScheduleNext
<1>q. QED BY <1>2, <1>3, <1>4, <1>5, <1>6

LEMMA StopAllSpares ==
    ASSUME NEW s, Firm(s), NEW i \in Link, NEW T, T \cap PhaseTimer = {}
    PROVE  Spares(s, StopAll(s, i, T))
<1> DEFINE n == StopAll(s, i, T)
<1>1. Same(s, n) BY StopAllSame DEF Firm, Laid
<1>2. Laid(n) BY DEF Firm, Laid, Whole, Core, StopAll
<1>3. /\ "changeover" \in DOMAIN n /\ n.changeover = s.changeover
      /\ n.inhibit = s.inhibit /\ n.orphan = s.orphan
      /\ \A j \in Link, u \in PhaseTimer : n.timer[j][u] = s.timer[j][u]
  BY PhaseTimers DEF Firm, Laid, Whole, Core, StopAll
<1>q. QED BY <1>1, <1>2, <1>3 DEF Spares, Strays

\* Buffers, what has been sent, and what is handed to MTP2.
LEMMA FieldsSpare ==
    ASSUME NEW s, Firm(s), NEW i \in Link
    PROVE  /\ \A msgs : Spares(s, Transmit(s, msgs))
           /\ Spares(s, FreeCo(s, i))
           /\ \A v : Spares(s, [s EXCEPT !.co_buf[i] = v])
           /\ \A v : Spares(s, [s EXCEPT !.cb_buf[i] = v])
           /\ \A v : Spares(s, [s EXCEPT !.co_tx_q[i] = v])
           /\ \A v : Spares(s, [s EXCEPT !.failed[i] = v])
           /\ \A v : Spares(s, [s EXCEPT !.linkstate[i] = v])
           /\ \A v : Spares(s, [s EXCEPT !.out = v])
           /\ \A M \in SUBSET SentMsg : Spares(s, [s EXCEPT !.sent[i] = M])
<1>1. Whole(s) /\ Laid(s) BY DEF Firm, Laid
<1>2. ASSUME NEW msgs PROVE Spares(s, Transmit(s, msgs))
  <2>1. Same(s, Transmit(s, msgs)) BY <1>1, BuffersSame
  <2>q. QED BY <1>1, <2>1 DEF Spares, Firm, Laid, Whole, Core, Strays, Transmit
<1>3. Spares(s, FreeCo(s, i))
  <2>1. Same(s, FreeCo(s, i)) BY <1>1, BuffersSame
  <2>q. QED BY <1>1, <2>1 DEF Spares, Firm, Laid, Whole, Core, Strays, FreeCo
<1>4. /\ \A v : Spares(s, [s EXCEPT !.co_buf[i] = v])
      /\ \A v : Spares(s, [s EXCEPT !.cb_buf[i] = v])
      /\ \A v : Spares(s, [s EXCEPT !.co_tx_q[i] = v])
  BY <1>1 DEF Spares, Firm, Laid, Whole, Core, Strays, Same
<1>5. /\ \A v : Spares(s, [s EXCEPT !.failed[i] = v])
      /\ \A v : Spares(s, [s EXCEPT !.linkstate[i] = v])
      /\ \A v : Spares(s, [s EXCEPT !.out = v])
  BY <1>1 DEF Spares, Firm, Laid, Whole, Core, Strays, Same
<1>6. \A M \in SUBSET SentMsg : Spares(s, [s EXCEPT !.sent[i] = M])
  BY <1>1 DEF Spares, Firm, Laid, Whole, Core, Strays, Same
<1>q. QED BY <1>2, <1>3, <1>4, <1>5, <1>6

\* A link can carry the message.
LEMMA HandOverSpares ==
    ASSUME NEW s, Firm(s), NEW i \in Link, NEW msg
    PROVE  Spares(s, HandOver(s, i, msg))
<1>1. Via(s, i) # {} BY DestAssumption DEF Via, Firm, Linked
<1> DEFINE out == Append(s.out, [msg |-> msg, sls |-> i, via |-> Via(s, i)])
<1>2. HandOver(s, i, msg) = [s EXCEPT !.out = out] BY <1>1 DEF HandOver
<1> HIDE DEF out
<1>3. Spares(s, [s EXCEPT !.out = out]) BY FieldsSpare
<1>q. QED BY <1>2, <1>3

\* Not so for COO, ECO and CBD, which are timed; a TRA changes the SP's state.
LEMMA SendSpares ==
    ASSUME NEW s, Firm(s), NEW i \in Link, NEW msg, msg \notin {"COO", "ECO", "CBD", "TRA"}
    PROVE  Spares(s, NetMngSend(s, i, msg))
<1> DEFINE n == IF msg \in SentMsg THEN [s EXCEPT !.sent[i] = @ \cup {msg}] ELSE s
<1>1. Spares(s, n)
  <2>1. msg \in SentMsg => s.sent[i] \cup {msg} \in SUBSET SentMsg BY DEF Firm, Laid
  <2>2. msg \in SentMsg => Spares(s, [s EXCEPT !.sent[i] = s.sent[i] \cup {msg}])
    BY <2>1, FieldsSpare
  <2>q. QED BY <2>2, SparesItself
<1>2. NoteSent(s, i, msg) \in {n, ScheduleNext(n, i, "t12"), ScheduleNext(n, i, "t13"),
                               ScheduleNext(n, i, "t14")}
  BY DEF NoteSent
<1> HIDE DEF n
<1>3. Firm(n) BY <1>1, SparesFirm
<1>4. /\ Spares(n, n) /\ Spares(n, ScheduleNext(n, i, "t12"))
      /\ Spares(n, ScheduleNext(n, i, "t13")) /\ Spares(n, ScheduleNext(n, i, "t14"))
  BY <1>3, PhaseTimers, TimersSpare, SparesItself
<1>5. Spares(s, NoteSent(s, i, msg)) BY <1>1, <1>2, <1>4, SparesTransitive
<1>6. Firm(NoteSent(s, i, msg)) BY <1>5, SparesFirm
<1>7. Spares(NoteSent(s, i, msg), NetMngSend(s, i, msg)) BY <1>6, HandOverSpares DEF NetMngSend
<1>q. QED BY <1>5, <1>7, SparesTransitive

LEMMA CheckIdle ==
    ASSUME NEW s, Firm(s), NEW sp \in Sp
    PROVE  Check(s, sp) = s
BY DEF Firm, Up, Linked, Check

LEMMA Ss7CheckSpares ==
    ASSUME NEW s, Firm(s)
    PROVE  Spares(s, Ss7Check(s))
<1>1. \A n, end, msg : Firm(n) /\ msg \in {"LUN", "LFU"} => Spares(n, Request(n, end, msg))
  <2> TAKE n, end, msg
  <2>1. InhibitedBy(n, end) # {} => First(InhibitedBy(n, end)) \in Link
    BY FirstExists DEF InhibitedBy
  <2>q. QED BY <2>1, SendSpares, SparesItself DEF Request
<1> DEFINE a == Request(s, "LOCALLY", "LUN")
           b == Request(a, "REMOTELY", "LFU")
<1>2. Uninhibit(s) \in {a, b} BY DEF Uninhibit
<1>3. Spares(s, a) BY <1>1
<1> HIDE DEF a
<1>4. Spares(a, b) BY <1>1, <1>3, SparesFirm
<1> HIDE DEF b
<1>5. Spares(s, Uninhibit(s)) BY <1>2, <1>3, <1>4, SparesTransitive
<1>6. \A n : Firm(n) => LinksetFollows(n) = n
  <2>1. \E sp \in Sp : TRUE
    <3>1. 0 \in Link BY NumLinksAssumption DEF Link
    <3>q. QED BY <3>1, DestAssumption
  <2>q. QED BY <2>1 DEF Firm, Up, SpUp, LinksetFollows
<1>7. Ss7Check(s) \in {LinksetFollows(s), LinksetFollows(Uninhibit(s))} BY DEF Ss7Check
<1>q. QED BY <1>5, <1>6, <1>7, SparesFirm, SparesItself

LEMMA TestSendSpares ==
    ASSUME NEW s, Firm(s), NEW i \in Link
    PROVE  Spares(s, StdTestSend(s, i)) /\ Spares(s, EventLinkUp(s, i))
<1> DEFINE n == [s EXCEPT !.out = Append(@, [msg |-> "SLTM", sls |-> i, via |-> {i}])]
           m == StdTestSend(s, i)
<1>1. Spares(s, n) BY FieldsSpare
<1>2. m \in {n, Restart(n, i, "q707_t1")} BY DEF StdTestSend
<1>3. EventLinkUp(s, i) \in {m, Restart(m, i, "q707_t2")} BY DEF EventLinkUp
<1> HIDE DEF n, m
<1>4. Spares(n, Restart(n, i, "q707_t1")) BY <1>1, SparesFirm, PhaseTimers, TimersSpare
<1>5. Spares(s, m) BY <1>1, <1>2, <1>4, SparesTransitive
<1>6. Spares(m, Restart(m, i, "q707_t2")) BY <1>5, SparesFirm, PhaseTimers, TimersSpare
<1>q. QED BY <1>3, <1>5, <1>6, SparesTransitive DEF m

-------------------------------------------------------------------------------
(* Functions that change the phase of one link. *)

\* Link i is in state c now, and its timers T are stopped.
Shifts(s, n, i, c, T) ==
    /\ SparesBut(s, n, i)
    /\ n.changeover[i] = c /\ n.inhibit[i] = s.inhibit[i]
    /\ \A t \in PhaseTimer : n.timer[i][t] = IF t \in T THEN "off" ELSE s.timer[i][t]

\* Timer t of link i is what is given.
Sets(s, n, i, t, v) ==
    /\ SparesBut(s, n, i)
    /\ n.changeover = s.changeover /\ n.inhibit = s.inhibit
    /\ \A u \in PhaseTimer : n.timer[i][u] = IF u = t THEN v ELSE s.timer[i][u]

LEMMA ShiftsThenSpares ==
    ASSUME NEW s, Firm(s), NEW i \in Link, NEW n, NEW c, NEW T, Shifts(s, n, i, c, T),
           NEW m, Spares(n, m)
    PROVE  Shifts(s, m, i, c, T)
<1>1. Firm(n) BY SparesFirm DEF Shifts
<1>2. SparesBut(n, m, i) BY <1>1, SparesAll
<1>3. SparesBut(s, m, i) BY <1>2, SparesButTransitive DEF Shifts
<1>q. QED BY <1>3 DEF Shifts, Spares

LEMMA SparesThenShifts ==
    ASSUME NEW s, Firm(s), NEW i \in Link, NEW n, NEW c, NEW T, Spares(s, n),
           NEW m, Shifts(n, m, i, c, T)
    PROVE  Shifts(s, m, i, c, T)
<1>1. SparesBut(s, n, i) BY SparesAll
<1>2. SparesBut(s, m, i) BY <1>1, SparesButTransitive DEF Shifts
<1>q. QED BY <1>2 DEF Shifts, Spares

LEMMA ShiftsTransitive ==
    ASSUME NEW s, Firm(s), NEW i \in Link, NEW n, NEW c, NEW T, Shifts(s, n, i, c, T),
           NEW m, NEW d, NEW U, Shifts(n, m, i, d, U)
    PROVE  Shifts(s, m, i, d, T \cup U)
<1>1. SparesBut(s, m, i) BY SparesButTransitive DEF Shifts
<1>2. m.changeover[i] = d /\ m.inhibit[i] = s.inhibit[i] BY DEF Shifts
<1>3. \A t \in PhaseTimer : m.timer[i][t] = IF t \in T \cup U THEN "off" ELSE s.timer[i][t]
  BY DEF Shifts
<1>q. QED BY <1>1, <1>2, <1>3 DEF Shifts

LEMMA StopShifts ==
    ASSUME NEW s, Firm(s), NEW i \in Link
    PROVE  /\ \A T : Shifts(s, StopAll(s, i, T), i, s.changeover[i], T)
           /\ \A t \in LinkTimer : Shifts(s, Stop(s, i, t), i, s.changeover[i], {t})
           /\ \A t \in LinkTimer : s.timer[i][t] \notin Callback
                  => Shifts(s, Forget(s, i, t), i, s.changeover[i], {t})
<1>1. Whole(s) /\ Laid(s) BY DEF Firm, Laid
<1>2. ASSUME NEW T PROVE Shifts(s, StopAll(s, i, T), i, s.changeover[i], T)
  <2> DEFINE n == StopAll(s, i, T)
  <2>1. Same(s, n) BY <1>1, StopAllSame
  <2>2. Laid(n) BY <1>1 DEF Laid, Whole, Core, StopAll
  <2>3. /\ "changeover" \in DOMAIN n /\ n.changeover = s.changeover
        /\ n.inhibit = s.inhibit /\ n.orphan = s.orphan
        /\ \A j \in Link \ {i}, u \in PhaseTimer : n.timer[j][u] = s.timer[j][u]
        /\ \A u \in PhaseTimer : n.timer[i][u] = IF u \in T THEN "off" ELSE s.timer[i][u]
    BY <1>1, PhaseTimers DEF Firm, Laid, Whole, Core, StopAll
  <2>q. QED BY <2>1, <2>2, <2>3 DEF Shifts, SparesBut, Strays, Firm
<1>3. ASSUME NEW t \in LinkTimer PROVE Shifts(s, Stop(s, i, t), i, s.changeover[i], {t})
  <2> DEFINE n == Stop(s, i, t)
  <2>1. Same(s, n) BY <1>1, TimersSame
  <2>2. Laid(n) BY <1>1 DEF Laid, Whole, Core, Stop
  <2>3. /\ "changeover" \in DOMAIN n /\ n.changeover = s.changeover
        /\ n.inhibit = s.inhibit /\ n.orphan = s.orphan
        /\ \A j \in Link \ {i}, u \in PhaseTimer : n.timer[j][u] = s.timer[j][u]
        /\ \A u \in PhaseTimer : n.timer[i][u] = IF u \in {t} THEN "off" ELSE s.timer[i][u]
    BY <1>1, PhaseTimers DEF Firm, Laid, Whole, Core, Stop
  <2>q. QED BY <2>1, <2>2, <2>3 DEF Shifts, SparesBut, Strays, Firm
<1>4. ASSUME NEW t \in LinkTimer, s.timer[i][t] \notin Callback
      PROVE  Shifts(s, Forget(s, i, t), i, s.changeover[i], {t})
  <2> DEFINE n == Forget(s, i, t)
  <2>1. Same(s, n) BY <1>1, TimersSame
  <2>2. Laid(n) BY <1>1 DEF Laid, Whole, Core, Forget
  <2>3. /\ "changeover" \in DOMAIN n /\ n.changeover = s.changeover
        /\ n.inhibit = s.inhibit /\ n.orphan = s.orphan
        /\ \A j \in Link \ {i}, u \in PhaseTimer : n.timer[j][u] = s.timer[j][u]
        /\ \A u \in PhaseTimer : n.timer[i][u] = IF u \in {t} THEN "off" ELSE s.timer[i][u]
    BY <1>1, <1>4, PhaseTimers DEF Firm, Laid, Whole, Core, Forget
  <2>q. QED BY <2>1, <2>2, <2>3 DEF Shifts, SparesBut, Strays, Firm
<1>q. QED BY <1>2, <1>3, <1>4

\* A timer is started that does not run.
LEMMA ScheduleSets ==
    ASSUME NEW s, Firm(s), NEW i \in Link, NEW t \in LinkTimer, NEW c \in Callback,
           s.timer[i][t] \notin Callback
    PROVE  Sets(s, Schedule(s, i, t, c), i, t, c)
<1> DEFINE n == Schedule(s, i, t, c)
<1>1. Whole(s) /\ Laid(s) BY DEF Firm, Laid
<1>2. Same(s, n) BY <1>1, TimersSame
<1>3. Laid(n) BY <1>1 DEF Laid, Whole, Core, Schedule
<1>4. /\ "changeover" \in DOMAIN n /\ n.changeover = s.changeover
      /\ n.inhibit = s.inhibit /\ n.orphan = s.orphan
      /\ \A j \in Link \ {i}, u \in PhaseTimer : n.timer[j][u] = s.timer[j][u]
      /\ \A u \in PhaseTimer : n.timer[i][u] = IF u = t THEN c ELSE s.timer[i][u]
  BY <1>1, PhaseTimers DEF Firm, Laid, Whole, Core, Schedule
<1>q. QED BY <1>2, <1>3, <1>4 DEF Sets, SparesBut, Strays, Firm

\* The state of the link changes, and some buffers.
LEMMA MarkShifts ==
    ASSUME NEW s, Firm(s), NEW i \in Link, NEW v \in Changeover
    PROVE  /\ Shifts(s, [s EXCEPT !.changeover[i] = v], i, v, {})
           /\ \A w : Shifts(s, [s EXCEPT !.changeover[i] = v, !.co_buf[i] = w], i, v, {})
           /\ \A w : Shifts(s, [s EXCEPT !.changeover[i] = v, !.cb_buf[i] = w], i, v, {})
           /\ \A w, x, y : Shifts(s, [s EXCEPT !.sent[i] = w \cap SentMsg, !.cb_buf[i] = x,
                                               !.co_buf[i] = y, !.changeover[i] = v], i, v, {})
           /\ \A w, x : Shifts(s, [s EXCEPT !.co_buf[i] = w, !.cb_buf[i] = x,
                                            !.changeover[i] = v], i, v, {})
           /\ \A w, x : Shifts(s, [s EXCEPT !.changeover[i] = v, !.co_buf[i] = w,
                                            !.tx_q[i] = x], i, v, {})
           /\ \A w, x : Shifts(s, [s EXCEPT !.changeover[i] = v, !.cb_buf[i] = w,
                                            !.tx_q[i] = x], i, v, {})
<1> DEFINE Else(n) ==
             /\ Besides(s, n) /\ n.route = s.route
             /\ {"timer", "sent", "inhibit", "changeover"} \subseteq DOMAIN n
             /\ n.timer = s.timer /\ n.inhibit = s.inhibit
             /\ n.changeover = [s.changeover EXCEPT ![i] = v]
<1>1. ASSUME NEW n, Else(n), n.sent \in [Link -> SUBSET SentMsg]
      PROVE  Shifts(s, n, i, v, {})
  <2>1. Laid(s) /\ Whole(s) BY DEF Firm, Laid
  <2>2. Same(s, n) BY <1>1 DEF Same, Besides
  <2>3. Laid(n) BY <1>1, <2>1 DEF Laid, Besides
  <2>4. /\ n.changeover \in [Link -> Changeover] /\ n.changeover[i] = v
        /\ \A j \in Link \ {i} : n.changeover[j] = s.changeover[j]
    BY <1>1 DEF Firm
  <2>q. QED BY <1>1, <2>2, <2>3, <2>4 DEF Shifts, SparesBut, Strays, Besides
<1>2. s.sent \in [Link -> SUBSET SentMsg] BY DEF Firm, Laid
<1>3. \A w : [s.sent EXCEPT ![i] = w \cap SentMsg] \in [Link -> SUBSET SentMsg] BY <1>2
<1>4. Whole(s) /\ {"timer", "sent", "inhibit", "changeover"} \subseteq DOMAIN s
  BY DEF Firm, Laid
<1>5. Shifts(s, [s EXCEPT !.changeover[i] = v], i, v, {})
  <2> DEFINE n == [s EXCEPT !.changeover[i] = v]
  <2>1. Else(n) /\ n.sent = s.sent BY <1>4 DEF Besides, Whole, Core
  <2> HIDE DEF n, Else
  <2>q. QED BY <1>1, <1>2, <2>1 DEF n
<1>6. ASSUME NEW w
      PROVE  Shifts(s, [s EXCEPT !.changeover[i] = v, !.co_buf[i] = w], i, v, {})
  <2> DEFINE n == [s EXCEPT !.changeover[i] = v, !.co_buf[i] = w]
  <2>1. Else(n) /\ n.sent = s.sent BY <1>4 DEF Besides, Whole, Core
  <2> HIDE DEF n, Else
  <2>q. QED BY <1>1, <1>2, <2>1 DEF n
<1>7. ASSUME NEW w
      PROVE  Shifts(s, [s EXCEPT !.changeover[i] = v, !.cb_buf[i] = w], i, v, {})
  <2> DEFINE n == [s EXCEPT !.changeover[i] = v, !.cb_buf[i] = w]
  <2>1. Else(n) /\ n.sent = s.sent BY <1>4 DEF Besides, Whole, Core
  <2> HIDE DEF n, Else
  <2>q. QED BY <1>1, <1>2, <2>1 DEF n
<1>8. ASSUME NEW w, NEW x
      PROVE  Shifts(s, [s EXCEPT !.co_buf[i] = w, !.cb_buf[i] = x, !.changeover[i] = v], i, v, {})
  <2> DEFINE n == [s EXCEPT !.co_buf[i] = w, !.cb_buf[i] = x, !.changeover[i] = v]
  <2>1. Else(n) /\ n.sent = s.sent BY <1>4 DEF Besides, Whole, Core
  <2> HIDE DEF n, Else
  <2>q. QED BY <1>1, <1>2, <2>1 DEF n
<1>9. ASSUME NEW w, NEW x
      PROVE  Shifts(s, [s EXCEPT !.changeover[i] = v, !.co_buf[i] = w, !.tx_q[i] = x], i, v, {})
  <2> DEFINE n == [s EXCEPT !.changeover[i] = v, !.co_buf[i] = w, !.tx_q[i] = x]
  <2>1. Else(n) /\ n.sent = s.sent BY <1>4 DEF Besides, Whole, Core
  <2> HIDE DEF n, Else
  <2>q. QED BY <1>1, <1>2, <2>1 DEF n
<1>10. ASSUME NEW w, NEW x
      PROVE  Shifts(s, [s EXCEPT !.changeover[i] = v, !.cb_buf[i] = w, !.tx_q[i] = x], i, v, {})
  <2> DEFINE n == [s EXCEPT !.changeover[i] = v, !.cb_buf[i] = w, !.tx_q[i] = x]
  <2>1. Else(n) /\ n.sent = s.sent BY <1>4 DEF Besides, Whole, Core
  <2> HIDE DEF n, Else
  <2>q. QED BY <1>1, <1>2, <2>1 DEF n
<1>11. ASSUME NEW w, NEW x, NEW y
      PROVE  Shifts(s, [s EXCEPT !.sent[i] = w \cap SentMsg, !.cb_buf[i] = x,
                                 !.co_buf[i] = y, !.changeover[i] = v], i, v, {})
  <2> DEFINE n == [s EXCEPT !.sent[i] = w \cap SentMsg, !.cb_buf[i] = x,
                            !.co_buf[i] = y, !.changeover[i] = v]
  <2>1. Else(n) /\ n.sent = [s.sent EXCEPT ![i] = w \cap SentMsg]
    BY <1>4 DEF Besides, Whole, Core
  <2>2. [s.sent EXCEPT ![i] = w \cap SentMsg] \in [Link -> SUBSET SentMsg] BY <1>3
  <2> HIDE DEF n, Else
  <2>3. n.sent \in [Link -> SUBSET SentMsg] BY <2>1, <2>2
  <2>4. Shifts(s, n, i, v, {}) BY <1>1, <2>1, <2>3
  <2>q. QED BY <2>4 DEF n
<1>q. QED BY <1>5, <1>6, <1>7, <1>8, <1>9, <1>10, <1>11

LEMMA ChangeoverShifts ==
    ASSUME NEW s, Firm(s), NEW i \in Link
    PROVE  /\ Shifts(s, DropChangeback(s, i), i, "NO_CHANGEOVER", {"t3", "t4", "t5"})
           /\ Shifts(s, CancelChangeover(s, i), i, "NO_CHANGEOVER", {"t1", "t2"})
           /\ s.changeover[i] # "CHANGEOVER_INITIATED"
                  => Shifts(s, SaveBuffers(s, i), i, "CHANGEOVER_INITIATED", {})
<1>1. "NO_CHANGEOVER" \in Changeover /\ "CHANGEOVER_INITIATED" \in Changeover
  BY DEF Changeover
<1>2. Shifts(s, DropChangeback(s, i), i, "NO_CHANGEOVER", {"t3", "t4", "t5"})
  <2> DEFINE w == s.co_buf[i] \o s.cb_buf[i]
             n == [s EXCEPT !.co_buf[i] = w, !.cb_buf[i] = <<>>,
                            !.changeover[i] = "NO_CHANGEOVER"]
             m == StopAll(n, i, {"t3", "t4", "t5"})
  <2>1. m = DropChangeback(s, i) BY DEF DropChangeback
  <2> HIDE DEF w
  <2>2. Shifts(s, n, i, "NO_CHANGEOVER", {}) BY <1>1, MarkShifts
  <2> HIDE DEF n
  <2>3. Firm(n) /\ n.changeover[i] = "NO_CHANGEOVER" BY <2>2, SparesFirm DEF Shifts
  <2>4. Shifts(n, m, i, "NO_CHANGEOVER", {"t3", "t4", "t5"}) BY <2>3, StopShifts
  <2> HIDE DEF m
  <2>5. Shifts(s, m, i, "NO_CHANGEOVER", {} \cup {"t3", "t4", "t5"})
    BY <2>2, <2>4, ShiftsTransitive
  <2>6. {} \cup {"t3", "t4", "t5"} = {"t3", "t4", "t5"} OBVIOUS
  <2>q. QED BY <2>1, <2>5, <2>6
<1>3. Shifts(s, CancelChangeover(s, i), i, "NO_CHANGEOVER", {"t1", "t2"})
  <2> DEFINE n == StopAll(s, i, {"t1", "t2"})
             w == n.sent[i] \ {"COO", "ECO"}
             x == n.cb_buf[i] \o s.co_tx_q[i] \o s.co_buf[i]
             m == [n EXCEPT !.sent[i] = w \cap SentMsg, !.cb_buf[i] = x,
                            !.co_buf[i] = <<>>, !.changeover[i] = "NO_CHANGEOVER"]
             f == FreeCo(m, i)
  <2>1. Shifts(s, n, i, s.changeover[i], {"t1", "t2"}) BY StopShifts
  <2>2. Firm(n) BY <2>1, SparesFirm DEF Shifts
  <2>3. n.sent[i] \in SUBSET SentMsg BY <2>2 DEF Firm, Laid
  <2>4. w \cap SentMsg = n.sent[i] \ {"COO", "ECO"} BY <2>3
  <2>5. f = CancelChangeover(s, i) BY <2>4 DEF CancelChangeover
  <2> HIDE DEF n, w, x
  <2>6. Shifts(n, m, i, "NO_CHANGEOVER", {}) BY <1>1, <2>2, MarkShifts
  <2> HIDE DEF m
  <2>7. Shifts(s, m, i, "NO_CHANGEOVER", {"t1", "t2"} \cup {})
    BY <2>1, <2>6, ShiftsTransitive
  <2>8. {"t1", "t2"} \cup {} = {"t1", "t2"} OBVIOUS
  <2>9. Firm(m) BY <2>7, SparesFirm DEF Shifts
  <2>10. Spares(m, f) BY <2>9, FieldsSpare
  <2> HIDE DEF f
  <2>q. QED BY <2>5, <2>7, <2>8, <2>10, ShiftsThenSpares
<1>4. ASSUME s.changeover[i] # "CHANGEOVER_INITIATED"
      PROVE  Shifts(s, SaveBuffers(s, i), i, "CHANGEOVER_INITIATED", {})
  <2> DEFINE m == [s EXCEPT !.changeover[i] = "CHANGEOVER_INITIATED"]
             n == SaveBuffers(s, i)
  <2>1. n = [s EXCEPT !.changeover[i] = "CHANGEOVER_INITIATED",
                      !.co_tx_buf[i] = s.tx_buf[i], !.tx_buf[i] = <<>>,
                      !.co_tx_q[i] = s.tx_q[i],     !.tx_q[i] = <<>>]
    BY <1>4 DEF SaveBuffers
  <2>2. Shifts(s, m, i, "CHANGEOVER_INITIATED", {}) BY <1>1, MarkShifts
  <2>3. Same(s, n) BY BuffersSame DEF Firm, Laid
  <2>4. /\ {"timer", "sent", "inhibit", "changeover"} \subseteq DOMAIN n
        /\ n.changeover = m.changeover /\ n.inhibit = s.inhibit /\ n.timer = s.timer
        /\ n.sent = s.sent /\ n.orphan = s.orphan
        /\ m.timer = s.timer /\ m.inhibit = s.inhibit
    BY <2>1 DEF Firm, Laid, Whole, Core
  <2> HIDE DEF m, n
  <2>5. Laid(n) BY <2>3, <2>4 DEF Laid, Firm, Same
  <2>6. SparesBut(s, n, i) BY <2>2, <2>3, <2>4, <2>5 DEF Shifts, SparesBut, Strays
  <2>q. QED BY <2>2, <2>4, <2>6 DEF Shifts, n
<1>q. QED BY <1>2, <1>3, <1>4

\* A changeback that is under way is given up.
LEMMA CancelShifts ==
    ASSUME NEW s, Firm(s), NEW i \in Link
    PROVE  \/ CancelChangeback(s, i) = s /\ ~InChangeback(s, i)
           \/ /\ InChangeback(s, i)
              /\ Shifts(s, CancelChangeback(s, i), i, "NO_CHANGEOVER", {"t3", "t4", "t5"})
<1> DEFINE n == DropChangeback(s, i)
<1>1. Shifts(s, n, i, "NO_CHANGEOVER", {"t3", "t4", "t5"}) BY ChangeoverShifts
<1>2. CancelChangeback(s, i) = IF InChangeback(s, i) THEN Check(n, AdjSp[i]) ELSE s
  BY DEF CancelChangeback
<1> HIDE DEF n
<1>3. Check(n, AdjSp[i]) = n
  BY <1>1, SparesFirm, CheckIdle, DestAssumption DEF Shifts
<1>q. QED BY <1>1, <1>2, <1>3

LEMMA CancelInTime ==
    ASSUME NEW s, Firm(s), NEW i \in Link, InTime(s, i)
    PROVE  LET n == CancelChangeback(s, i)
           IN  /\ Firm(n) /\ SparesBut(s, n, i) /\ InTime(n, i) /\ ~InChangeback(n, i)
               /\ n.inhibit[i] = s.inhibit[i]
               /\ n.changeover[i] = s.changeover[i] \/ n.changeover[i] = "NO_CHANGEOVER"
               /\ \A t \in PhaseTimer : s.timer[i][t] = "off" => n.timer[i][t] = "off"
<1> DEFINE n == CancelChangeback(s, i)
<1>1. n = CancelChangeback(s, i) OBVIOUS
<1> HIDE DEF n
<1>2. CASE n = s /\ ~InChangeback(s, i)
  BY <1>1, <1>2, SparesItself, SparesAll
<1>3. CASE InChangeback(s, i) /\ Shifts(s, n, i, "NO_CHANGEOVER", {"t3", "t4", "t5"})
  <2>1. Firm(n) /\ SparesBut(s, n, i) BY <1>3, SparesFirm DEF Shifts
  <2>2. /\ n.changeover[i] = "NO_CHANGEOVER" /\ n.inhibit[i] = s.inhibit[i]
        /\ n.timer[i]["t3"] = "off" /\ n.timer[i]["t4"] = "off" /\ n.timer[i]["t5"] = "off"
        /\ n.timer[i]["t1"] = s.timer[i]["t1"] /\ n.timer[i]["t2"] = s.timer[i]["t2"]
        /\ \A t \in PhaseTimer : n.timer[i][t] = "off" \/ n.timer[i][t] = s.timer[i][t]
    BY <1>3, PhaseTimers DEF Shifts
  <2>3. s.timer[i]["t1"] = "off" /\ s.timer[i]["t2"] = "off"
    BY <1>3 DEF InTime, InChangeback
  <2>4. \A t \in PhaseTimer : n.timer[i][t] # "stale" BY <2>2 DEF InTime
  <2>5. InTime(n, i) /\ ~InChangeback(n, i) BY <2>2, <2>3, <2>4 DEF InTime, InChangeback
  <2>q. QED BY <1>1, <2>1, <2>2, <2>5
<1>q. QED BY <1>1, <1>2, <1>3, CancelShifts

LEMMA TimedInTime ==
    ASSUME NEW s, Firm(s), NEW i \in Link, InTime(s, i)
    PROVE  LET n == TimedChangeover(s, i)
           IN  /\ Firm(n) /\ SparesBut(s, n, i) /\ InTime(n, i) /\ Diverted(n, i)
               /\ n.inhibit[i] = s.inhibit[i]
<1> DEFINE c == CancelChangeback(s, i)
           n == StartTimedChangeover(c, i)
<1>1. n = TimedChangeover(s, i) BY DEF TimedChangeover
<1>2. /\ Firm(c) /\ SparesBut(s, c, i) /\ InTime(c, i) /\ ~InChangeback(c, i)
      /\ c.inhibit[i] = s.inhibit[i]
  BY CancelInTime
<1> HIDE DEF c
<1>3. CASE c.changeover[i] # "NO_CHANGEOVER"
  <2>1. n = c BY <1>3 DEF StartTimedChangeover
  <2>2. Diverted(c, i) BY <1>2, <1>3 DEF Diverted, InChangeback, Firm, Changeover
  <2>q. QED BY <1>1, <1>2, <2>1, <2>2
<1>4. CASE c.changeover[i] = "NO_CHANGEOVER"
  <2> DEFINE w == c.co_buf[i] \o c.tx_q[i]
             a == [c EXCEPT !.changeover[i] = "CHANGEOVER_IN_PROGRESS",
                            !.co_buf[i] = w, !.tx_q[i] = <<>>]
             b == Stop(a, i, "t1")
             d == Schedule(b, i, "t1", "1st")
  <2>1. n = FreeCo(d, i) BY <1>4 DEF StartTimedChangeover, Restart
  <2> HIDE DEF n, w
  <2>2. "CHANGEOVER_IN_PROGRESS" \in Changeover /\ "t1" \in LinkTimer /\ "1st" \in Callback
    BY TimersKnown DEF Changeover, Callback
  <2>3. Shifts(c, a, i, "CHANGEOVER_IN_PROGRESS", {}) BY <1>2, <2>2, MarkShifts
  <2> HIDE DEF a
  <2>4. Firm(a) /\ a.changeover[i] = "CHANGEOVER_IN_PROGRESS"
    BY <1>2, <2>3, SparesFirm DEF Shifts
  <2>5. Shifts(a, b, i, "CHANGEOVER_IN_PROGRESS", {"t1"}) BY <2>2, <2>4, StopShifts
  <2> HIDE DEF b
  <2>6. Shifts(c, b, i, "CHANGEOVER_IN_PROGRESS", {} \cup {"t1"})
    BY <1>2, <2>3, <2>5, ShiftsTransitive
  <2>7. Firm(b) /\ b.timer[i]["t1"] = "off" BY <1>2, <2>6, SparesFirm, PhaseTimers DEF Shifts
  <2>8. Sets(b, d, i, "t1", "1st")
    <3>1. b.timer[i]["t1"] \notin Callback BY <2>7 DEF Callback
    <3>q. QED BY <2>2, <2>7, <3>1, ScheduleSets
  <2> HIDE DEF d
  <2>9. Firm(d) BY <2>7, <2>8, SparesFirm DEF Sets
  <2>10. Spares(d, n) BY <2>1, <2>9, FieldsSpare
  <2>11. SparesBut(d, n, i) BY <2>9, <2>10, SparesAll
  <2>12. Firm(n) BY <2>9, <2>10, SparesFirm
  <2>13. SparesBut(c, d, i) BY <1>2, <2>6, <2>8, SparesButTransitive DEF Shifts, Sets
  <2>14. SparesBut(s, d, i) BY <1>2, <2>13, SparesButTransitive
  <2>15. SparesBut(s, n, i) BY <2>11, <2>14, SparesButTransitive
  <2>16. /\ n.changeover[i] = "CHANGEOVER_IN_PROGRESS" /\ n.inhibit[i] = s.inhibit[i]
         /\ \A t \in PhaseTimer : n.timer[i][t] = IF t = "t1" THEN "1st" ELSE c.timer[i][t]
    BY <1>2, <2>6, <2>8, <2>10 DEF Shifts, Sets, Spares
  <2>17. InTime(n, i)
    <3>1. /\ c.timer[i]["t2"] = "off" /\ c.timer[i]["t3"] = "off"
          /\ c.timer[i]["t4"] = "off" /\ c.timer[i]["t5"] = "off"
      BY <1>2, <1>4 DEF InTime
    <3>2. /\ n.timer[i]["t2"] = "off" /\ n.timer[i]["t3"] = "off"
          /\ n.timer[i]["t4"] = "off" /\ n.timer[i]["t5"] = "off"
      BY <2>16, <3>1, PhaseTimers
    <3>3. \A t \in PhaseTimer : n.timer[i][t] # "stale" BY <1>2, <2>16 DEF InTime
    <3>q. QED BY <2>16, <3>2, <3>3 DEF InTime
  <2>18. Diverted(n, i) BY <2>16 DEF Diverted
  <2>q. QED BY <1>1, <2>12, <2>15, <2>16, <2>17, <2>18
<1>q. QED BY <1>3, <1>4

\* T4 and T5 are off, whatever the state of the link is.
Unasked(s, i) ==
    LET c == s.changeover[i]
        t == s.timer[i]
    IN  /\ t["t1"] # "off" => c = "CHANGEOVER_IN_PROGRESS"
        /\ t["t2"] # "off" => c = "CHANGEOVER_INITIATED"
        /\ (t["t3"] # "off") <=> (c = "CHANGEBACK")
        /\ t["t4"] = "off" /\ t["t5"] = "off"
        /\ \A u \in PhaseTimer : t[u] # "stale"

LEMMA ChangebackInTime ==
    ASSUME NEW s, Firm(s), NEW i \in Link, Unasked(s, i)
    PROVE  LET n == Changeback(s, i)
           IN  /\ Firm(n) /\ SparesBut(s, n, i) /\ n.inhibit[i] = s.inhibit[i]
               /\ s.inhibit[i] # {} => n = s
               /\ s.inhibit[i] = {} =>
                      InTime(n, i) /\ n.changeover[i] # "CHANGEBACK_INITIATED"
<1> DEFINE n == Changeback(s, i)
           c == CancelChangeover(s, i)
           w == s.cb_buf[i] \o s.tx_q[i]
           a == [s EXCEPT !.changeover[i] = "CHANGEBACK", !.cb_buf[i] = w, !.tx_q[i] = <<>>]
           d == Schedule(a, i, "t3", "1st")
<1>1. /\ s.inhibit[i] # {} => n = s
      /\ s.inhibit[i] = {} =>
            /\ s.changeover[i] \in {"CHANGEOVER_IN_PROGRESS", "CHANGEOVER_INITIATED"}
                   => n = Check(c, AdjSp[i])
            /\ s.changeover[i] \in {"CHANGEOVER_COMPLETED", "CHANGEBACK_INITIATED"}
                   => n = Check(d, AdjSp[i])
            /\ s.changeover[i] \in {"NO_CHANGEOVER", "CHANGEBACK"}
                   => n = Check(s, AdjSp[i])
  BY DEF Changeback
<1>2. n = Changeback(s, i) OBVIOUS
<1>3. s.changeover[i] \in Changeover /\ AdjSp[i] \in Sp BY DestAssumption DEF Firm
<1> HIDE DEF n, w
<1>4. SparesBut(s, s, i) BY SparesItself, SparesAll
<1>5. CASE s.inhibit[i] # {} BY <1>1, <1>2, <1>4, <1>5
<1>6. CASE /\ s.inhibit[i] = {}
           /\ s.changeover[i] \in {"CHANGEOVER_IN_PROGRESS", "CHANGEOVER_INITIATED"}
  <2>1. Shifts(s, c, i, "NO_CHANGEOVER", {"t1", "t2"}) BY ChangeoverShifts
  <2> HIDE DEF c
  <2>2. Firm(c) BY <2>1, SparesFirm DEF Shifts
  <2>3. n = c BY <1>1, <1>3, <1>6, <2>2, CheckIdle
  <2>4. /\ c.changeover[i] = "NO_CHANGEOVER" /\ c.inhibit[i] = s.inhibit[i]
        /\ c.timer[i]["t1"] = "off" /\ c.timer[i]["t2"] = "off"
        /\ c.timer[i]["t3"] = s.timer[i]["t3"] /\ c.timer[i]["t4"] = s.timer[i]["t4"]
        /\ c.timer[i]["t5"] = s.timer[i]["t5"]
        /\ \A t \in PhaseTimer : c.timer[i][t] = "off" \/ c.timer[i][t] = s.timer[i][t]
    BY <2>1, PhaseTimers DEF Shifts
  <2>5. \A t \in PhaseTimer : c.timer[i][t] # "stale" BY <2>4 DEF Unasked
  <2>6. s.timer[i]["t3"] = "off" /\ s.timer[i]["t4"] = "off" /\ s.timer[i]["t5"] = "off"
    BY <1>6 DEF Unasked
  <2>7. InTime(c, i) BY <2>4, <2>5, <2>6 DEF InTime
  <2>q. QED BY <1>2, <1>6, <2>1, <2>2, <2>3, <2>4, <2>7 DEF Shifts
<1>7. CASE /\ s.inhibit[i] = {}
           /\ s.changeover[i] \in {"CHANGEOVER_COMPLETED", "CHANGEBACK_INITIATED"}
  <2>1. "CHANGEBACK" \in Changeover /\ "t3" \in LinkTimer /\ "1st" \in Callback
    BY TimersKnown DEF Changeover, Callback
  <2>2. Shifts(s, a, i, "CHANGEBACK", {}) BY <2>1, MarkShifts
  <2> HIDE DEF a
  <2>3. /\ Firm(a) /\ a.changeover[i] = "CHANGEBACK" /\ a.inhibit[i] = s.inhibit[i]
        /\ \A t \in PhaseTimer : a.timer[i][t] = s.timer[i][t]
    BY <2>2, SparesFirm DEF Shifts
  <2>4. /\ s.timer[i]["t1"] = "off" /\ s.timer[i]["t2"] = "off" /\ s.timer[i]["t3"] = "off"
        /\ s.timer[i]["t4"] = "off" /\ s.timer[i]["t5"] = "off"
    BY <1>7 DEF Unasked
  <2>5. Sets(a, d, i, "t3", "1st")
    <3>1. a.timer[i]["t3"] \notin Callback BY <2>3, <2>4, PhaseTimers DEF Callback
    <3>q. QED BY <2>1, <2>3, <3>1, ScheduleSets
  <2> HIDE DEF d
  <2>6. Firm(d) BY <2>3, <2>5, SparesFirm DEF Sets
  <2>7. n = d BY <1>1, <1>3, <1>7, <2>6, CheckIdle
  <2>8. SparesBut(s, d, i) BY <2>2, <2>5, SparesButTransitive DEF Shifts, Sets
  <2>9. /\ d.changeover[i] = "CHANGEBACK" /\ d.inhibit[i] = s.inhibit[i]
        /\ \A t \in PhaseTimer : d.timer[i][t] = IF t = "t3" THEN "1st" ELSE s.timer[i][t]
    BY <2>3, <2>5 DEF Sets
  <2>10. InTime(d, i)
    <3>1. /\ d.timer[i]["t1"] = "off" /\ d.timer[i]["t2"] = "off"
          /\ d.timer[i]["t3"] = "1st"
          /\ d.timer[i]["t4"] = "off" /\ d.timer[i]["t5"] = "off"
      BY <2>4, <2>9, PhaseTimers
    <3>2. \A t \in PhaseTimer : d.timer[i][t] # "stale" BY <2>9 DEF Unasked
    <3>q. QED BY <2>9, <3>1, <3>2 DEF InTime
  <2>q. QED BY <1>2, <1>7, <2>6, <2>7, <2>8, <2>9, <2>10
<1>8. CASE s.inhibit[i] = {} /\ s.changeover[i] \in {"NO_CHANGEOVER", "CHANGEBACK"}
  <2>1. n = s BY <1>1, <1>3, <1>8, CheckIdle
  <2>2. InTime(s, i) BY <1>8 DEF Unasked, InTime
  <2>q. QED BY <1>2, <1>4, <1>8, <2>1, <2>2
<1>q. QED BY <1>3, <1>5, <1>6, <1>7, <1>8 DEF Changeover

\* A changeover is completed once T2 is stopped.
LEMMA DoneInTime ==
    ASSUME NEW s, Firm(s), NEW i \in Link, InTime(s, i), s.timer[i]["t2"] = "off", NEW acked
    PROVE  LET n == ChangeoverDone(s, i, acked)
           IN  /\ Firm(n) /\ SparesBut(s, n, i) /\ InTime(n, i) /\ Diverted(n, i)
               /\ n.inhibit[i] = s.inhibit[i]
<1> DEFINE c == CancelChangeback(s, i)
           n == Divert(c, i, acked)
<1>1. n = ChangeoverDone(s, i, acked) BY DEF ChangeoverDone
<1>2. /\ Firm(c) /\ SparesBut(s, c, i) /\ InTime(c, i) /\ ~InChangeback(c, i)
      /\ c.inhibit[i] = s.inhibit[i] /\ c.timer[i]["t2"] = "off"
  BY CancelInTime, PhaseTimers
<1> HIDE DEF c
<1>3. CASE c.changeover[i] \notin {"NO_CHANGEOVER", "CHANGEOVER_INITIATED"}
  <2>1. n = c BY <1>3 DEF Divert
  <2>2. Diverted(c, i) BY <1>2, <1>3 DEF Diverted, InChangeback, Firm, Changeover
  <2>q. QED BY <1>1, <1>2, <2>1, <2>2
<1>4. CASE c.changeover[i] \in {"NO_CHANGEOVER", "CHANGEOVER_INITIATED"}
  <2> DEFINE msgs == Unacknowledged(c.co_tx_buf[i], acked) \o c.co_tx_q[i] \o c.co_buf[i]
             f == FreeCo(c, i)
             e == [f EXCEPT !.co_buf[i] = <<>>]
             u == Transmit(e, msgs)
             v == [u EXCEPT !.changeover[i] = "CHANGEOVER_COMPLETED"]
  <2>1. n = Check(v, AdjSp[i]) BY <1>4 DEF Divert
  <2> HIDE DEF msgs, n
  <2>2. Spares(c, f) BY <1>2, FieldsSpare
  <2>3. Firm(f) BY <1>2, <2>2, SparesFirm
  <2> HIDE DEF f
  <2>4. Spares(f, e) BY <2>3, FieldsSpare
  <2>5. Firm(e) BY <2>3, <2>4, SparesFirm
  <2> HIDE DEF e
  <2>6. Spares(e, u) BY <2>5, FieldsSpare
  <2>7. Firm(u) BY <2>5, <2>6, SparesFirm
  <2> HIDE DEF u
  <2>8. Shifts(u, v, i, "CHANGEOVER_COMPLETED", {}) BY <2>7, MarkShifts DEF Changeover
  <2> HIDE DEF v
  <2>9. Spares(c, u) BY <2>2, <2>4, <2>6, SparesTransitive
  <2>10. Shifts(c, v, i, "CHANGEOVER_COMPLETED", {}) BY <1>2, <2>8, <2>9, SparesThenShifts
  <2>11. Firm(v) BY <1>2, <2>10, SparesFirm DEF Shifts
  <2>12. n = v BY <2>1, <2>11, CheckIdle, DestAssumption
  <2>13. SparesBut(s, v, i) BY <1>2, <2>10, SparesButTransitive DEF Shifts
  <2>14. /\ v.changeover[i] = "CHANGEOVER_COMPLETED" /\ v.inhibit[i] = c.inhibit[i]
         /\ \A t \in PhaseTimer : v.timer[i][t] = c.timer[i][t]
    BY <2>10 DEF Shifts
  <2>15. InTime(v, i)
    <3>1. /\ c.timer[i]["t1"] = "off" /\ c.timer[i]["t3"] = "off"
          /\ c.timer[i]["t4"] = "off" /\ c.timer[i]["t5"] = "off"
      BY <1>2, <1>4 DEF InTime
    <3>2. /\ v.timer[i]["t1"] = "off" /\ v.timer[i]["t2"] = "off" /\ v.timer[i]["t3"] = "off"
          /\ v.timer[i]["t4"] = "off" /\ v.timer[i]["t5"] = "off"
      BY <1>2, <2>14, <3>1, PhaseTimers
    <3>3. \A t \in PhaseTimer : v.timer[i][t] # "stale" BY <1>2, <2>14 DEF InTime
    <3>q. QED BY <2>14, <3>2, <3>3 DEF InTime
  <2>q. QED BY <1>1, <1>2, <2>11, <2>12, <2>13, <2>14, <2>15 DEF Diverted
<1>q. QED BY <1>3, <1>4

LEMMA DivertedPhase ==
    ASSUME NEW s, NEW i, InTime(s, i), Diverted(s, i)
    PROVE  \A back : InPhase(s, i, back)
BY DEF InPhase, Diverted

\* T1 and T2 may stop at any time.
LEMMA StopInTime ==
    ASSUME NEW s, Firm(s), NEW i \in Link, InTime(s, i), NEW T, T \subseteq {"t1", "t2"},
           NEW n, Shifts(s, n, i, s.changeover[i], T)
    PROVE  Firm(n) /\ InTime(n, i)
<1>1. /\ n.changeover[i] = s.changeover[i]
      /\ n.timer[i]["t1"] \in {"off", s.timer[i]["t1"]}
      /\ n.timer[i]["t2"] \in {"off", s.timer[i]["t2"]}
      /\ n.timer[i]["t3"] = s.timer[i]["t3"] /\ n.timer[i]["t4"] = s.timer[i]["t4"]
      /\ n.timer[i]["t5"] = s.timer[i]["t5"]
      /\ \A t \in PhaseTimer : n.timer[i][t] \in {"off", s.timer[i][t]}
  BY PhaseTimers DEF Shifts
<1>2. \A t \in PhaseTimer : n.timer[i][t] # "stale" BY <1>1 DEF InTime
<1>3. InTime(n, i) BY <1>1, <1>2 DEF InTime
<1>q. QED BY <1>3, SparesFirm DEF Shifts

\* What is noted of the link changes.
LEMMA NotedPhase ==
    ASSUME NEW s, Firm(s), NEW i \in Link, NEW R \in SUBSET SentMsg, NEW E \in SUBSET Inhibit
    PROVE  LET n == Noted(s, i, R, E)
           IN  /\ Firm(n) /\ SparesBut(s, n, i) /\ n.inhibit[i] = E /\ n.sent[i] = R
               /\ n.changeover = s.changeover /\ n.timer = s.timer
               /\ InTime(s, i) => InTime(n, i)
               /\ Unasked(s, i) => Unasked(n, i)
<1> DEFINE n == Noted(s, i, R, E)
<1>1. n = Noted(s, i, R, E) OBVIOUS
<1>2. Laid(s) BY DEF Firm
<1>3. /\ QuietBut(s, n, i) /\ n.timer = s.timer
      /\ n.sent[i] = R /\ n.inhibit[i] = E
  BY <1>2, LinkNotes
<1>4. "changeover" \in DOMAIN n /\ n.changeover = s.changeover /\ n.orphan = s.orphan
  BY DEF Noted, Firm
<1> HIDE DEF n
<1>5. SparesBut(s, n, i)
  <2>1. Same(s, n) /\ Laid(n) /\ \A j \in Link \ {i} : n.inhibit[j] = s.inhibit[j]
    BY <1>3 DEF QuietBut
  <2>q. QED BY <1>3, <1>4, <2>1 DEF SparesBut, Strays, Firm
<1>6. Firm(n) BY <1>5, SparesFirm
<1>7. (InTime(s, i) => InTime(n, i)) /\ (Unasked(s, i) => Unasked(n, i))
  BY <1>3, <1>4 DEF InTime, Unasked
<1>q. QED BY <1>1, <1>3, <1>4, <1>5, <1>6, <1>7

\* T2 is started with a COO, T4 with a CBD unless it runs.
LEMMA SendTimed ==
    ASSUME NEW s, Firm(s), NEW i \in Link
    PROVE  /\ LET n == NetMngSend(s, i, "COO")
              IN  /\ Firm(n) /\ SparesBut(s, n, i)
                  /\ n.changeover[i] = s.changeover[i] /\ n.inhibit[i] = s.inhibit[i]
                  /\ n.timer[i]["t2"] \in {"1st", s.timer[i]["t2"]}
                  /\ \A t \in PhaseTimer \ {"t2"} : n.timer[i][t] = s.timer[i][t]
           /\ LET n == NetMngSend(s, i, "CBD")
              IN  /\ Firm(n) /\ SparesBut(s, n, i)
                  /\ n.changeover[i] = s.changeover[i] /\ n.inhibit[i] = s.inhibit[i]
                  /\ n.timer[i]["t4"] = IF "t4" \in Configured /\ s.timer[i]["t4"] = "off"
                                         THEN "1st" ELSE s.timer[i]["t4"]
                  /\ \A t \in PhaseTimer \ {"t4"} : n.timer[i][t] = s.timer[i][t]
<1>1. "t2" \in LinkTimer /\ "t4" \in LinkTimer /\ "1st" \in Callback /\ "off" \notin Callback
  BY TimersKnown DEF Callback
<1>2. ASSUME NEW msg \in SentMsg
      PROVE  /\ Spares(s, [s EXCEPT !.sent[i] = @ \cup {msg}])
             /\ Firm([s EXCEPT !.sent[i] = @ \cup {msg}])
  <2>1. s.sent[i] \cup {msg} \in SUBSET SentMsg BY DEF Firm, Laid
  <2>2. Spares(s, [s EXCEPT !.sent[i] = s.sent[i] \cup {msg}]) BY <2>1, FieldsSpare
  <2>q. QED BY <2>2, SparesFirm
<1>3. ASSUME NEW n, Firm(n), NEW msg
      PROVE  Spares(n, HandOver(n, i, msg)) /\ Firm(HandOver(n, i, msg))
  BY <1>3, HandOverSpares, SparesFirm
<1>4. LET n == NetMngSend(s, i, "COO")
      IN  /\ Firm(n) /\ SparesBut(s, n, i)
          /\ n.changeover[i] = s.changeover[i] /\ n.inhibit[i] = s.inhibit[i]
          /\ n.timer[i]["t2"] \in {"1st", s.timer[i]["t2"]}
          /\ \A t \in PhaseTimer \ {"t2"} : n.timer[i][t] = s.timer[i][t]
  <2> DEFINE a == [s EXCEPT !.sent[i] = @ \cup {"COO"}]
             b == Stop(a, i, "t2")
             c == Schedule(b, i, "t2", "1st")
             n == NoteSent(s, i, "COO")
             m == NetMngSend(s, i, "COO")
  <2>1. n \in {a, c} BY DEF NoteSent, SentMsg
  <2>2. m = HandOver(n, i, "COO") BY DEF NetMngSend
  <2>3. Spares(s, a) /\ Firm(a) BY <1>2 DEF SentMsg
  <2> HIDE DEF a, m, n
  <2>4. Shifts(a, b, i, a.changeover[i], {"t2"}) BY <1>1, <2>3, StopShifts
  <2> HIDE DEF b
  <2>5. Firm(b) /\ b.timer[i]["t2"] = "off" BY <2>3, <2>4, SparesFirm, PhaseTimers DEF Shifts
  <2>6. Sets(b, c, i, "t2", "1st") BY <1>1, <2>5, ScheduleSets
  <2> HIDE DEF c
  <2>7. SparesBut(a, a, i) /\ SparesBut(s, a, i) BY <2>3, SparesItself, SparesAll
  <2>8. SparesBut(a, c, i) BY <2>3, <2>4, <2>6, SparesButTransitive DEF Shifts, Sets
  <2>9. SparesBut(s, n, i) BY <2>1, <2>7, <2>8, SparesButTransitive
  <2>10. /\ n.changeover[i] = s.changeover[i] /\ n.inhibit[i] = s.inhibit[i]
         /\ n.timer[i]["t2"] \in {"1st", s.timer[i]["t2"]}
         /\ \A t \in PhaseTimer \ {"t2"} : n.timer[i][t] = s.timer[i][t]
    <3>1. CASE n = a BY <2>3, <3>1, PhaseTimers DEF Spares
    <3>2. CASE n = c BY <2>3, <2>4, <2>6, <3>2, PhaseTimers DEF Spares, Shifts, Sets
    <3>q. QED BY <2>1, <3>1, <3>2
  <2>11. Firm(n) BY <2>9, SparesFirm
  <2>12. Spares(n, m) /\ Firm(m) BY <1>3, <2>2, <2>11
  <2>13. SparesBut(n, m, i) BY <2>11, <2>12, SparesAll
  <2>14. SparesBut(s, m, i) BY <2>9, <2>13, SparesButTransitive
  <2>15. /\ m.changeover[i] = s.changeover[i] /\ m.inhibit[i] = s.inhibit[i]
         /\ m.timer[i]["t2"] \in {"1st", s.timer[i]["t2"]}
         /\ \A t \in PhaseTimer \ {"t2"} : m.timer[i][t] = s.timer[i][t]
    BY <2>10, <2>12, PhaseTimers DEF Spares
  <2>q. QED BY <2>12, <2>14, <2>15 DEF m
<1>5. LET n == NetMngSend(s, i, "CBD")
      IN  /\ Firm(n) /\ SparesBut(s, n, i)
          /\ n.changeover[i] = s.changeover[i] /\ n.inhibit[i] = s.inhibit[i]
          /\ n.timer[i]["t4"] = IF "t4" \in Configured /\ s.timer[i]["t4"] = "off"
                                 THEN "1st" ELSE s.timer[i]["t4"]
          /\ \A t \in PhaseTimer \ {"t4"} : n.timer[i][t] = s.timer[i][t]
  <2> DEFINE a == [s EXCEPT !.sent[i] = @ \cup {"CBD"}]
             c == Schedule(a, i, "t4", "1st")
             n == NoteSent(s, i, "CBD")
             m == NetMngSend(s, i, "CBD")
  <2>1. n = IF "t4" \in Configured /\ a.timer[i]["t4"] = "off" THEN c ELSE a
    BY DEF NoteSent, SentMsg
  <2>2. m = HandOver(n, i, "CBD") BY DEF NetMngSend
  <2>3. Spares(s, a) /\ Firm(a) BY <1>2 DEF SentMsg
  <2> HIDE DEF a, m, n
  <2>4. a.timer[i]["t4"] = "off" => Sets(a, c, i, "t4", "1st") BY <1>1, <2>3, ScheduleSets
  <2> HIDE DEF c
  <2>5. SparesBut(a, a, i) /\ SparesBut(s, a, i) BY <2>3, SparesItself, SparesAll
  <2>6. SparesBut(a, n, i) BY <2>1, <2>4, <2>5 DEF Sets
  <2>7. SparesBut(s, n, i) BY <2>5, <2>6, SparesButTransitive
  <2>8. /\ n.changeover[i] = s.changeover[i] /\ n.inhibit[i] = s.inhibit[i]
        /\ n.timer[i]["t4"] = IF "t4" \in Configured /\ s.timer[i]["t4"] = "off"
                               THEN "1st" ELSE s.timer[i]["t4"]
        /\ \A t \in PhaseTimer \ {"t4"} : n.timer[i][t] = s.timer[i][t]
    <3>1. a.timer[i]["t4"] = s.timer[i]["t4"] BY <2>3, PhaseTimers DEF Spares
    <3>2. CASE "t4" \in Configured /\ a.timer[i]["t4"] = "off"
      BY <2>1, <2>3, <2>4, <3>1, <3>2, PhaseTimers DEF Spares, Sets
    <3>3. CASE ~("t4" \in Configured /\ a.timer[i]["t4"] = "off")
      BY <2>1, <2>3, <3>1, <3>3, PhaseTimers DEF Spares
    <3>q. QED BY <3>2, <3>3
  <2>9. Firm(n) BY <2>7, SparesFirm
  <2>10. Spares(n, m) /\ Firm(m) BY <1>3, <2>2, <2>9
  <2>11. SparesBut(n, m, i) BY <2>9, <2>10, SparesAll
  <2>12. SparesBut(s, m, i) BY <2>7, <2>11, SparesButTransitive
  <2>13. /\ m.changeover[i] = s.changeover[i] /\ m.inhibit[i] = s.inhibit[i]
         /\ m.timer[i]["t4"] = IF "t4" \in Configured /\ s.timer[i]["t4"] = "off"
                                THEN "1st" ELSE s.timer[i]["t4"]
         /\ \A t \in PhaseTimer \ {"t4"} : m.timer[i][t] = s.timer[i][t]
    BY <2>8, <2>10, PhaseTimers DEF Spares
  <2>q. QED BY <2>10, <2>12, <2>13 DEF m
<1>q. QED BY <1>4, <1>5

\* What has been sent of link i.
LEMMA SentSpares ==
    ASSUME NEW s, Firm(s), NEW i \in Link, NEW M
    PROVE  /\ Spares(s, [s EXCEPT !.sent[i] = @ \ M]) /\ Firm([s EXCEPT !.sent[i] = @ \ M])
<1> DEFINE R == s.sent[i] \ M
<1>1. R \in SUBSET SentMsg BY DEF Firm, Laid
<1>2. [s EXCEPT !.sent[i] = @ \ M] = [s EXCEPT !.sent[i] = R] OBVIOUS
<1> HIDE DEF R
<1>3. Spares(s, [s EXCEPT !.sent[i] = R]) BY <1>1, FieldsSpare
<1>q. QED BY <1>2, <1>3, SparesFirm

\* COA, ECO, ECA and CBA.
LEMMA RxChangeoverPhased ==
    ASSUME NEW s, NEW back, Phased(s, back), NEW i \in Link, NEW acked
    PROVE  /\ Phased(RxCoa(s, i, acked), back) /\ Phased(RxEco(s, i), back)
           /\ Phased(RxEca(s, i), back) /\ Phased(RxCba(s, i), back)
<1>1. Firm(s) /\ InPhase(s, i, back) /\ InTime(s, i) BY DEF Phased, InPhase
<1>2. /\ "t2" \in LinkTimer /\ {"t2"} \subseteq {"t1", "t2"} BY TimersKnown
<1>3. ASSUME NEW n, SparesBut(s, n, i), NEW m, Firm(n), SparesBut(n, m, i),
             InTime(m, i), Diverted(m, i)
      PROVE  Phased(m, back)
  <2>1. SparesBut(s, m, i) BY <1>1, <1>3, SparesButTransitive
  <2>2. InPhase(m, i, back) BY <1>3, DivertedPhase
  <2>q. QED BY <2>1, <2>2, LinkPhased
<1> DEFINE a == Stop(s, i, "t2")
           b == [a EXCEPT !.sent[i] = @ \ {"COO", "ECO"}]
<1>4. Firm(b) /\ SparesBut(s, b, i) /\ InTime(b, i) /\ b.timer[i]["t2"] = "off"
  <2>1. Shifts(s, a, i, s.changeover[i], {"t2"}) BY <1>1, <1>2, StopShifts
  <2> HIDE DEF a
  <2>2. Firm(a) /\ InTime(a, i) /\ a.timer[i]["t2"] = "off"
    <3>1. Firm(a) /\ InTime(a, i) BY <1>1, <1>2, <2>1, StopInTime
    <3>2. a.timer[i]["t2"] = "off" BY <2>1, PhaseTimers DEF Shifts
    <3>q. QED BY <3>1, <3>2
  <2>3. Spares(a, b) /\ Firm(b) BY <2>2, SentSpares
  <2> HIDE DEF b
  <2>4. SparesBut(a, b, i) BY <2>2, <2>3, SparesAll
  <2>5. b.changeover = a.changeover /\ b.timer[i]["t2"] = "off"
        /\ \A t \in PhaseTimer : b.timer[i][t] = a.timer[i][t]
    BY <2>2, <2>3, PhaseTimers DEF Spares
  <2>6. InTime(b, i) BY <2>2, <2>5, PhaseTimers DEF InTime
  <2>7. SparesBut(s, b, i) BY <1>1, <2>1, <2>4, SparesButTransitive DEF Shifts
  <2>q. QED BY <2>3, <2>5, <2>6, <2>7
<1>5. Phased(RxCoa(s, i, acked), back)
  <2>1. RxCoa(s, i, acked) \in {s, ChangeoverDone(b, i, acked)} BY DEF RxCoa
  <2> HIDE DEF a, b
  <2>2. Phased(ChangeoverDone(b, i, acked), back) BY <1>3, <1>4, DoneInTime
  <2>q. QED BY <2>1, <2>2
<1>6. Phased(RxEca(s, i), back)
  <2>1. RxEca(s, i) = TimedChangeover(b, i) BY DEF RxEca
  <2> HIDE DEF a, b
  <2>q. QED BY <1>3, <1>4, <2>1, TimedInTime
<1>7. Phased(RxEco(s, i), back)
  <2> DEFINE T == IF "ECO" \in s.sent[i] THEN {"t1", "t2"} ELSE {"t1"}
             t == StopAll(s, i, T)
             n == [t EXCEPT !.sent[i] = @ \ {"CBD", "COO"}]
             answer == IF "ECO" \notin n.sent[i] /\ n.changeover[i] = "NO_CHANGEOVER"
                       THEN "COA" ELSE "ECA"
             m == NetMngSend(n, i, answer)
  <2>1. RxEco(s, i) = TimedChangeover(m, i) BY DEF RxEco
  <2>2. T \subseteq {"t1", "t2"} OBVIOUS
  <2> HIDE DEF T
  <2>3. Shifts(s, t, i, s.changeover[i], T) BY <1>1, StopShifts
  <2>4. Firm(t) /\ InTime(t, i) BY <1>1, <2>2, <2>3, StopInTime
  <2> HIDE DEF t
  <2>5. Spares(t, n) /\ Firm(n) BY <2>4, SentSpares
  <2>6. answer \notin {"COO", "ECO", "CBD", "TRA"} OBVIOUS
  <2> HIDE DEF n, answer
  <2>7. Spares(n, m) BY <2>5, <2>6, SendSpares
  <2> HIDE DEF m
  <2>8. Spares(t, m) BY <2>5, <2>7, SparesTransitive
  <2>9. Firm(m) /\ SparesBut(t, m, i) BY <2>4, <2>8, SparesFirm, SparesAll
  <2>10. InTime(m, i)
    <3>1. m.changeover = t.changeover /\ \A u \in PhaseTimer : m.timer[i][u] = t.timer[i][u]
      BY <2>8 DEF Spares
    <3>q. QED BY <2>4, <3>1, PhaseTimers DEF InTime
  <2>11. SparesBut(s, m, i) BY <1>1, <2>3, <2>9, SparesButTransitive DEF Shifts
  <2>q. QED BY <1>3, <2>1, <2>9, <2>10, <2>11, TimedInTime
<1>8. Phased(RxCba(s, i), back)
  <2> DEFINE n == [s EXCEPT !.sent[i] = @ \ {"CBD"}]
             m == StopAll(n, i, {"t4", "t5"})
             k == Changeback(m, i)
  <2>1. RxCba(s, i) \in {s, k} BY DEF RxCba
  <2>2. Spares(s, n) /\ Firm(n) BY <1>1, SentSpares
  <2> HIDE DEF n
  <2>3. Shifts(n, m, i, n.changeover[i], {"t4", "t5"}) BY <2>2, StopShifts
  <2> HIDE DEF m
  <2>4. Shifts(s, m, i, n.changeover[i], {"t4", "t5"}) BY <1>1, <2>2, <2>3, SparesThenShifts
  <2>5. Firm(m) BY <2>2, <2>3, SparesFirm DEF Shifts
  <2>6. /\ m.changeover[i] = s.changeover[i] /\ m.inhibit[i] = s.inhibit[i]
        /\ m.timer[i]["t1"] = s.timer[i]["t1"] /\ m.timer[i]["t2"] = s.timer[i]["t2"]
        /\ m.timer[i]["t3"] = s.timer[i]["t3"]
        /\ m.timer[i]["t4"] = "off" /\ m.timer[i]["t5"] = "off"
        /\ \A t \in PhaseTimer : m.timer[i][t] \in {"off", s.timer[i][t]}
    BY <2>2, <2>4, PhaseTimers DEF Shifts, Spares
  <2>7. Unasked(m, i)
    <3>1. \A t \in PhaseTimer : m.timer[i][t] # "stale" BY <1>1, <2>6 DEF InTime
    <3>q. QED BY <1>1, <2>6, <3>1 DEF Unasked, InTime
  <2>8. /\ Firm(k) /\ SparesBut(m, k, i) /\ k.inhibit[i] = m.inhibit[i]
        /\ m.inhibit[i] # {} => k = m
        /\ m.inhibit[i] = {} => InTime(k, i) /\ k.changeover[i] # "CHANGEBACK_INITIATED"
    BY <2>5, <2>7, ChangebackInTime
  <2> HIDE DEF k
  <2>9. SparesBut(s, k, i) BY <1>1, <2>4, <2>8, SparesButTransitive DEF Shifts
  <2>10. InPhase(k, i, back)
    <3>1. CASE m.inhibit[i] = {} BY <2>8, <3>1 DEF InPhase
    <3>2. CASE m.inhibit[i] # {}
      <4>1. Diverted(m, i) BY <1>1, <2>6, <3>2 DEF InPhase, Diverted
      <4>2. InTime(m, i) BY <2>7, <4>1 DEF Unasked, InTime, Diverted
      <4>q. QED BY <2>8, <3>2, <4>1, <4>2, DivertedPhase
    <3>q. QED BY <3>1, <3>2
  <2>11. Phased(k, back) BY <2>9, <2>10, LinkPhased
  <2>q. QED BY <2>1, <2>11
<1>q. QED BY <1>5, <1>6, <1>7, <1>8

\* What either end has inhibited of link i changes.
Inhibits(s, i, E) == [s EXCEPT !.inhibit[i] = E]

LEMMA InhibitPhase ==
    ASSUME NEW s, Firm(s), NEW i \in Link, NEW E \in SUBSET Inhibit, NEW R \in SUBSET SentMsg,
           NEW n, n = Inhibits(s, i, E) \/ n = Noted(s, i, R, E)
    PROVE  /\ Firm(n) /\ SparesBut(s, n, i) /\ n.inhibit[i] = E
           /\ n.changeover = s.changeover /\ n.timer = s.timer
           /\ InTime(s, i) => InTime(n, i)
           /\ Unasked(s, i) => Unasked(n, i)
<1>1. s.sent[i] \in SUBSET SentMsg /\ Laid(s) BY DEF Firm, Laid
<1>2. Inhibits(s, i, E) = Noted(s, i, s.sent[i], E) BY <1>1, InhibitedAlone DEF Inhibits
<1>3. PICK Q \in SUBSET SentMsg : n = Noted(s, i, Q, E) BY <1>1, <1>2
<1>q. QED BY <1>3, NotedPhase

\* Changeback once less of the link is inhibited, unless the peer has been asked
\* for a changeback.
LEMMA UninhibitPhased ==
    ASSUME NEW s, NEW back, Phased(s, back), NEW i \in Link,
           s.changeover[i] # "CHANGEBACK_INITIATED",
           NEW n, Firm(n), SparesBut(s, n, i), InTime(n, i), n.changeover = s.changeover,
           n.inhibit[i] \subseteq s.inhibit[i]
    PROVE  Phased(Changeback(n, i), back)
<1> DEFINE k == Changeback(n, i)
<1>1. Firm(s) /\ InPhase(s, i, back) BY DEF Phased
<1>2. Unasked(n, i) BY DEF InTime, Unasked
<1>3. /\ Firm(k) /\ SparesBut(n, k, i) /\ k.inhibit[i] = n.inhibit[i]
      /\ n.inhibit[i] # {} => k = n
      /\ n.inhibit[i] = {} => InTime(k, i) /\ k.changeover[i] # "CHANGEBACK_INITIATED"
  BY <1>2, ChangebackInTime
<1> HIDE DEF k
<1>4. SparesBut(s, k, i) BY <1>1, <1>3, SparesButTransitive
<1>5. InPhase(k, i, back)
  <2>1. CASE n.inhibit[i] = {} BY <1>3, <2>1 DEF InPhase
  <2>2. CASE n.inhibit[i] # {}
    <3>1. s.inhibit[i] # {} BY <2>2
    <3>2. Diverted(n, i) BY <1>1, <3>1 DEF InPhase, Diverted
    <3>q. QED BY <1>3, <2>2, <3>2, DivertedPhase
  <2>q. QED BY <2>1, <2>2
<1>6. Phased(k, back) BY <1>4, <1>5, LinkPhased
<1>q. QED BY <1>6 DEF k

\* Messages about inhibiting.  back rules out the ones that begin a changeback.
LEMMA RxInhibitPhased ==
    ASSUME NEW s, NEW back, Phased(s, back), NEW i \in Link
    PROVE  /\ Phased(RxLin(s, i), back) /\ Phased(RxLia(s, i), back)
           /\ Phased(RxLid(s, i), back) /\ Phased(RxLfu(s, i), back)
           /\ Phased(RxLlt(s, i), back) /\ Phased(RxLrt(s, i), back)
           /\ ~back => Phased(RxLun(s, i), back) /\ Phased(RxLua(s, i), back)
<1>1. Firm(s) /\ InPhase(s, i, back) /\ InTime(s, i) BY DEF Phased, InPhase
<1>2. /\ {"t12", "t13", "t14", "t22", "t23"} \subseteq LinkTimer \ PhaseTimer
      /\ "REMOTELY" \in Inhibit /\ "LOCALLY" \in Inhibit
  BY PhaseTimers DEF Inhibit
<1>3. ASSUME NEW n, Firm(n)
      PROVE  n.inhibit[i] \in SUBSET Inhibit /\ n.sent[i] \in SUBSET SentMsg
  BY <1>3 DEF Firm, Laid
<1>4. ASSUME NEW n, SparesBut(s, n, i), NEW m, SparesBut(n, m, i), InTime(m, i), Diverted(m, i)
      PROVE  Phased(m, back)
  <2>1. SparesBut(s, m, i) BY <1>1, <1>4, SparesButTransitive
  <2>2. InPhase(m, i, back) BY <1>4, DivertedPhase
  <2>q. QED BY <2>1, <2>2, LinkPhased
<1>5. \A msg : msg \notin {"COO", "ECO", "CBD", "TRA"} => Phased(NetMngSend(s, i, msg), back)
  BY <1>1, SendSpares, SparesPhased
<1>6. Phased(RxLin(s, i), back)
  <2> DEFINE a == NetMngSend(s, i, "LIA")
             E == a.inhibit[i] \cup {"REMOTELY"}
             b == [a EXCEPT !.inhibit[i] = E]
             c == TimedChangeover(b, i)
             d == Start(c, i, "t23")
  <2>1. RxLin(s, i) \in {d, NetMngSend(s, i, "LID")} BY DEF RxLin
  <2>2. Spares(s, a) BY <1>1, SendSpares
  <2> HIDE DEF a
  <2>3. Firm(a) /\ SparesBut(s, a, i) BY <1>1, <2>2, SparesFirm, SparesAll
  <2>4. InTime(a, i)
    <3>1. a.changeover = s.changeover /\ \A t \in PhaseTimer : a.timer[i][t] = s.timer[i][t]
      BY <2>2 DEF Spares
    <3>q. QED BY <1>1, <3>1, PhaseTimers DEF InTime
  <2>5. E \in SUBSET Inhibit BY <1>2, <1>3, <2>3
  <2>6. a.sent[i] \in SUBSET SentMsg BY <1>3, <2>3
  <2> HIDE DEF E
  <2>7. b = Inhibits(a, i, E) BY DEF Inhibits
  <2> HIDE DEF b
  <2>8. Firm(b) /\ SparesBut(a, b, i) /\ InTime(b, i)
    BY <2>3, <2>4, <2>5, <2>6, <2>7, InhibitPhase
  <2>9. Firm(c) /\ SparesBut(b, c, i) /\ InTime(c, i) /\ Diverted(c, i)
    BY <2>8, TimedInTime
  <2> HIDE DEF c
  <2>10. SparesBut(s, b, i) BY <1>1, <2>3, <2>8, SparesButTransitive
  <2>11. Phased(c, back) BY <1>4, <2>9, <2>10
  <2>12. Spares(c, d) BY <1>2, <2>9, TimersSpare
  <2>13. Phased(d, back) BY <2>11, <2>12, SparesPhased
  <2>q. QED BY <1>5, <2>1, <2>13
<1>7. Phased(RxLia(s, i), back)
  <2> DEFINE a == TimedChangeover(s, i)
             R == a.sent[i] \ {"LIN"}
             E == a.inhibit[i] \cup {"LOCALLY"}
             b == [a EXCEPT !.sent[i] = R, !.inhibit[i] = E]
             c == TimedChangeover(b, i)
             d == Start(c, i, "t22")
             e == Stop(d, i, "t14")
  <2>1. NoteLia(a, i) = c BY DEF NoteLia
  <2>2. RxLia(s, i) \in {s, Stop(Start(LiaRestarts(c, i), i, "t22"), i, "t14")}
    BY <2>1 DEF RxLia
  <2>3. Firm(a) /\ SparesBut(s, a, i) /\ InTime(a, i) BY <1>1, TimedInTime
  <2> HIDE DEF a
  <2>4. R \in SUBSET SentMsg /\ E \in SUBSET Inhibit BY <1>2, <1>3, <2>3
  <2> HIDE DEF R, E
  <2>5. b = Noted(a, i, R, E) BY DEF Noted
  <2> HIDE DEF b
  <2>6. Firm(b) /\ SparesBut(a, b, i) /\ InTime(b, i) BY <2>5, <2>3, <2>4, InhibitPhase
  <2>7. Firm(c) /\ SparesBut(b, c, i) /\ InTime(c, i) /\ Diverted(c, i)
    BY <2>6, TimedInTime
  <2> HIDE DEF c
  <2>8. LiaRestarts(c, i) = c
    BY <2>7, DestAssumption DEF Firm, Up, LiaRestarts
  <2>9. SparesBut(s, b, i) BY <1>1, <2>3, <2>6, SparesButTransitive
  <2>10. Phased(c, back) BY <1>4, <2>7, <2>9
  <2>11. Spares(c, d) BY <1>2, <2>7, TimersSpare
  <2>12. Firm(d) BY <2>7, <2>11, SparesFirm
  <2> HIDE DEF d
  <2>13. Spares(d, e) BY <1>2, <2>12, TimersSpare
  <2>14. Phased(e, back) BY <2>10, <2>11, <2>13, SparesTransitive, SparesPhased
  <2>q. QED BY <2>2, <2>8, <2>14 DEF d
<1>8. Phased(RxLid(s, i), back)
  <2> DEFINE n == [s EXCEPT !.sent[i] = @ \ {"LIN"}]
  <2>1. Spares(s, n) /\ Firm(n) BY <1>1, SentSpares
  <2>2. RxLid(s, i) = Stop(n, i, "t14") BY DEF RxLid
  <2> HIDE DEF n
  <2>3. Spares(n, Stop(n, i, "t14")) BY <1>2, <2>1, TimersSpare
  <2>q. QED BY <2>1, <2>2, <2>3, SparesTransitive, SparesPhased
<1>9. Phased(RxLfu(s, i), back) /\ Phased(RxLlt(s, i), back) /\ Phased(RxLrt(s, i), back)
  BY <1>5 DEF RxLfu, RxLlt, RxLrt
<1>10. ASSUME ~back PROVE Phased(RxLun(s, i), back)
  <2> DEFINE f == [s EXCEPT !.sent[i] = @ \ {"LFU"}]
             a == NetMngSend(f, i, "LUA")
             E == a.inhibit[i] \ {"REMOTELY"}
             b == [a EXCEPT !.inhibit[i] = E]
             c == Changeback(b, i)
  <2>1. RxLun(s, i) = StopAll(c, i, {"t23", "t13"}) BY DEF RxLun
  <2>2. Spares(s, f) /\ Firm(f) BY <1>1, SentSpares
  <2> HIDE DEF f
  <2>3. Spares(f, a) BY <2>2, SendSpares
  <2> HIDE DEF a
  <2>4. Spares(s, a) BY <2>2, <2>3, SparesTransitive
  <2>5. Firm(a) /\ SparesBut(s, a, i) BY <1>1, <2>4, SparesFirm, SparesAll
  <2>6. a.changeover = s.changeover /\ a.inhibit = s.inhibit
        /\ \A t \in PhaseTimer : a.timer[i][t] = s.timer[i][t]
    BY <2>4 DEF Spares
  <2>7. InTime(a, i) BY <1>1, <2>6, PhaseTimers DEF InTime
  <2>8. E \in SUBSET Inhibit /\ a.sent[i] \in SUBSET SentMsg BY <1>3, <2>5
  <2>9. E \subseteq s.inhibit[i] BY <2>6
  <2> HIDE DEF E
  <2>10. b = Inhibits(a, i, E) BY DEF Inhibits
  <2> HIDE DEF b
  <2>11. /\ Firm(b) /\ SparesBut(a, b, i) /\ InTime(b, i) /\ b.inhibit[i] = E
         /\ b.changeover = a.changeover
    BY <2>10, <2>5, <2>7, <2>8, InhibitPhase
  <2>12. SparesBut(s, b, i) BY <1>1, <2>5, <2>11, SparesButTransitive
  <2>13. s.changeover[i] # "CHANGEBACK_INITIATED" BY <1>1, <1>10 DEF InPhase
  <2>14. Phased(c, back) BY <2>6, <2>9, <2>11, <2>12, <2>13, UninhibitPhased
  <2> HIDE DEF c
  <2>15. {"t23", "t13"} \cap PhaseTimer = {} BY <1>2
  <2>16. Spares(c, StopAll(c, i, {"t23", "t13"})) BY <2>14, <2>15, StopAllSpares DEF Phased
  <2>q. QED BY <2>1, <2>14, <2>16, SparesPhased
<1>11. ASSUME ~back PROVE Phased(RxLua(s, i), back)
  <2> DEFINE R == s.sent[i] \ {"LUN"}
             E == s.inhibit[i] \ {"LOCALLY"}
             b == [s EXCEPT !.sent[i] = R, !.inhibit[i] = E]
             c == Changeback(b, i)
  <2>1. RxLua(s, i) \in {s, StopAll(c, i, {"t12", "t22"})} BY DEF RxLua
  <2>2. R \in SUBSET SentMsg /\ E \in SUBSET Inhibit BY <1>1, <1>3
  <2>3. E \subseteq s.inhibit[i] OBVIOUS
  <2> HIDE DEF R, E
  <2>4. b = Noted(s, i, R, E) BY DEF Noted
  <2> HIDE DEF b
  <2>5. /\ Firm(b) /\ SparesBut(s, b, i) /\ InTime(b, i) /\ b.inhibit[i] = E
        /\ b.changeover = s.changeover
    BY <2>4, <1>1, <2>2, InhibitPhase
  <2>6. s.changeover[i] # "CHANGEBACK_INITIATED" BY <1>1, <1>11 DEF InPhase
  <2>7. Phased(c, back) BY <2>3, <2>5, <2>6, UninhibitPhased
  <2> HIDE DEF c
  <2>8. {"t12", "t22"} \cap PhaseTimer = {} BY <1>2
  <2>9. Spares(c, StopAll(c, i, {"t12", "t22"})) BY <2>7, <2>8, StopAllSpares DEF Phased
  <2>q. QED BY <2>1, <2>7, <2>9, SparesPhased
<1>q. QED BY <1>6, <1>7, <1>8, <1>9, <1>10, <1>11

\* The peer declares a changeback of its own.
LEMMA RxCbdPhased ==
    ASSUME NEW s, NEW back, Phased(s, back), NEW i \in Link, ~back
    PROVE  Phased(RxCbd(s, i), back)
<1> DEFINE n == NetMngSend(s, i, "CBA")
<1>1. Firm(s) /\ InPhase(s, i, back) /\ InTime(s, i) BY DEF Phased, InPhase
<1>2. RxCbd(s, i) = Changeback(n, i) BY DEF RxCbd
<1>3. Spares(s, n) BY <1>1, SendSpares
<1> HIDE DEF n
<1>4. Firm(n) /\ SparesBut(s, n, i) BY <1>1, <1>3, SparesFirm, SparesAll
<1>5. n.changeover = s.changeover /\ n.inhibit = s.inhibit BY <1>3 DEF Spares
<1>6. InTime(n, i)
  <2>1. \A t \in PhaseTimer : n.timer[i][t] = s.timer[i][t] BY <1>3 DEF Spares
  <2>q. QED BY <1>1, <1>5, <2>1, PhaseTimers DEF InTime
<1>7. s.changeover[i] # "CHANGEBACK_INITIATED" BY <1>1 DEF InPhase
<1>q. QED BY <1>2, <1>4, <1>5, <1>6, <1>7, UninhibitPhased

LEMMA NetMngReceivePhased ==
    ASSUME NEW s, NEW back, Phased(s, back), NEW i \in Link, NEW acked,
           NEW msg, msg \notin {"TRA", "COO"}, back => msg \notin {"CBD", "LUN", "LUA"}
    PROVE  Phased(NetMngReceive(s, i, msg, acked), back)
<1>1. CASE msg = "CBD" BY <1>1, RxCbdPhased DEF NetMngReceive
<1>2. CASE msg # "CBD" BY <1>2, RxChangeoverPhased, RxInhibitPhased DEF NetMngReceive
<1>q. QED BY <1>1, <1>2

-------------------------------------------------------------------------------
(* Failing links, tests and timers. *)

\* Unless an adjacent SP has lost its last link.
Phasing(n, back) == Whole(n) /\ (Linked(n) => Phased(n, back))

LEMMA PhasedPhasing ==
    ASSUME NEW back
    PROVE  /\ \A n : Phased(n, back) => Phasing(n, back)
           /\ \A n, m : Phased(n, back) /\ Spares(n, m) => Phasing(m, back)
BY SparesPhased DEF Phasing, Phased, Firm, Laid

LEMMA SparesPhasing ==
    ASSUME NEW s, NEW back, Phasing(s, back), NEW n, Same(s, n), Firm(s) => Spares(s, n)
    PROVE  Phasing(n, back)
<1>1. Whole(n) BY DEF Same
<1>2. Linked(n) => Linked(s) BY SameLinked
<1>3. Phased(s, back) => Phased(n, back) BY SparesPhased DEF Phased
<1>q. QED BY <1>1, <1>2, <1>3 DEF Phasing

LEMMA LinkFailedPhased ==
    ASSUME NEW s, NEW back, Phased(s, back), NEW i \in Link
    PROVE  Phasing(LinkFailed(s, i), back) /\ Phasing(Ss7Check(LinkFailed(s, i)), back)
<1> DEFINE f == [s EXCEPT !.passed[i] = FALSE]
           b == CancelChangeback(f, i)
           p == SaveBuffers(b, i)
           n == NetMngSend(p, i, "COO")
           c == IF /\ NumLinks > 1 /\ AvailableLinks(f, TRUE) # {}
                   /\ f.changeover[i] \in {"NO_CHANGEOVER", "CHANGEBACK"}
                THEN n ELSE f
           m == StopAll(c, i, {"q707_t1", "q707_t2"})
           l == LinkFailed(s, i)
<1>1. Whole(s) /\ Laid(s) BY DEF Phased, Firm, Laid
<1>2. Passes(f, l) /\ Passes(f, Ss7Check(l)) BY <1>1, LinkFailedPasses
<1>3. /\ Laid(f) /\ "changeover" \in DOMAIN f /\ f.changeover = s.changeover
      /\ f.timer = s.timer /\ f.inhibit = s.inhibit /\ f.orphan = s.orphan
      /\ f.sp = s.sp /\ f.tra = s.tra /\ f.state = s.state
  BY <1>1 DEF Whole, Core, Laid, Phased, Firm
<1>4. l = Check(m, AdjSp[i]) BY DEF LinkFailed, PrepareChangeover
<1> HIDE DEF f, l
<1>5. CASE Linked(f)
  <2>1. Up(f) BY <1>3 DEF Phased, Firm, Up
  <2>2. Phased(f, back) BY <1>3, <1>5, <2>1, FieldsPhased
  <2>3. Firm(f) /\ InPhase(f, i, back) /\ InTime(f, i) BY <2>2 DEF Phased, InPhase
  <2>4. ASSUME f.changeover[i] \in {"NO_CHANGEOVER", "CHANGEBACK"} PROVE Phased(n, back)
    <3>1. f.inhibit[i] = {} BY <2>3, <2>4 DEF InPhase, Diverted
    <3>2. /\ Firm(b) /\ SparesBut(f, b, i) /\ InTime(b, i) /\ ~InChangeback(b, i)
          /\ b.inhibit[i] = f.inhibit[i]
          /\ b.changeover[i] = f.changeover[i] \/ b.changeover[i] = "NO_CHANGEOVER"
      BY <2>3, CancelInTime
    <3> HIDE DEF b
    <3>3. b.changeover[i] = "NO_CHANGEOVER" BY <2>4, <3>2 DEF InChangeback
    <3>4. Shifts(b, p, i, "CHANGEOVER_INITIATED", {}) BY <3>2, <3>3, ChangeoverShifts
    <3> HIDE DEF p
    <3>5. Firm(p) /\ SparesBut(b, p, i) BY <3>2, <3>4, SparesFirm DEF Shifts
    <3>6. /\ p.changeover[i] = "CHANGEOVER_INITIATED" /\ p.inhibit[i] = {}
          /\ \A t \in PhaseTimer : p.timer[i][t] = b.timer[i][t]
      BY <3>1, <3>2, <3>4 DEF Shifts
    <3>7. /\ Firm(n) /\ SparesBut(p, n, i)
          /\ n.changeover[i] = p.changeover[i] /\ n.inhibit[i] = p.inhibit[i]
          /\ n.timer[i]["t2"] \in {"1st", p.timer[i]["t2"]}
          /\ \A t \in PhaseTimer \ {"t2"} : n.timer[i][t] = p.timer[i][t]
      BY <3>5, SendTimed
    <3> HIDE DEF n
    <3>8. SparesBut(f, n, i) BY <2>3, <3>2, <3>5, <3>7, SparesButTransitive
    <3>9. \A t \in PhaseTimer : b.timer[i][t] = "off"
      <4>1. /\ b.timer[i]["t1"] = "off" /\ b.timer[i]["t2"] = "off" /\ b.timer[i]["t3"] = "off"
            /\ b.timer[i]["t4"] = "off" /\ b.timer[i]["t5"] = "off"
        BY <3>2, <3>3 DEF InTime
      <4>q. QED BY <4>1 DEF PhaseTimer
    <3>10. /\ n.timer[i]["t1"] = "off" /\ n.timer[i]["t3"] = "off"
           /\ n.timer[i]["t4"] = "off" /\ n.timer[i]["t5"] = "off"
           /\ \A t \in PhaseTimer : n.timer[i][t] \in {"1st", "off"}
      BY <3>6, <3>7, <3>9, PhaseTimers
    <3>11. InTime(n, i) BY <3>6, <3>7, <3>10 DEF InTime
    <3>12. InPhase(n, i, back) BY <3>6, <3>7, <3>11 DEF InPhase
    <3>q. QED BY <2>2, <3>8, <3>12, LinkPhased
  <2> HIDE DEF n
  <2>5. Phased(c, back) BY <2>2, <2>4
  <2> HIDE DEF c
  <2>6. {"q707_t1", "q707_t2"} \cap PhaseTimer = {} BY PhaseTimers
  <2>7. Spares(c, m) BY <2>5, <2>6, StopAllSpares DEF Phased
  <2> HIDE DEF m
  <2>8. Phased(m, back) BY <2>5, <2>7, SparesPhased
  <2>9. AdjSp[i] \in Sp BY DestAssumption
  <2>10. l = m BY <1>4, <2>8, <2>9, CheckIdle DEF Phased
  <2>11. Spares(l, Ss7Check(l)) BY <2>8, <2>10, Ss7CheckSpares DEF Phased
  <2>q. QED BY <2>8, <2>10, <2>11, PhasedPhasing DEF l
<1>6. CASE ~Linked(f)
  <2>1. \A k : Passes(f, k) => Phasing(k, back)
    BY <1>6 DEF Phasing, Passes, Linked, Reachable, PassedLinks
  <2>q. QED BY <1>2, <2>1 DEF l
<1>q. QED BY <1>5, <1>6

\* A link that fails and what goes with it.
LEMMA FailurePhased ==
    ASSUME NEW s, NEW back, Phased(s, back), NEW i \in Link
    PROVE  /\ Phasing(EventLinkDown(s, i), back) /\ Phasing(Alarm(s, i), back)
           /\ Phasing(RxSltaMismatch(s, i), back) /\ Phasing(Q707T1Expired(s, i), back)
<1>1. /\ {"q707_t1", "q707_t2"} \subseteq LinkTimer \ PhaseTimer BY PhaseTimers
<1>2. ASSUME NEW v
      PROVE  /\ Phasing(LinkFailed([s EXCEPT !.linkstate[i] = v], i), back)
             /\ Phasing(Ss7Check(LinkFailed([s EXCEPT !.linkstate[i] = v], i)), back)
  <2> DEFINE n == [s EXCEPT !.linkstate[i] = v]
  <2>1. Spares(s, n) BY FieldsSpare DEF Phased
  <2> HIDE DEF n
  <2>2. Phased(n, back) BY <2>1, SparesPhased
  <2>3. Phasing(LinkFailed(n, i), back) /\ Phasing(Ss7Check(LinkFailed(n, i)), back)
    BY <2>2, LinkFailedPhased
  <2>q. QED BY <2>3 DEF n
<1>3. Phasing(EventLinkDown(s, i), back) /\ Phasing(Alarm(s, i), back)
  BY <1>2 DEF EventLinkDown, Alarm
<1>4. Phasing(RxSltaMismatch(s, i), back)
  <2> DEFINE a == Stop(s, i, "q707_t1")
             n == [a EXCEPT !.failed[i] = 1]
             l == LinkFailed(n, i)
             m == Start(l, i, "q707_t2")
  <2>1. RxSltaMismatch(s, i) = m BY DEF RxSltaMismatch
  <2>2. Spares(s, a) BY <1>1, TimersSpare DEF Phased
  <2> HIDE DEF a
  <2>3. Firm(a) BY <2>2, SparesFirm DEF Phased
  <2>4. Spares(a, n) BY <2>3, FieldsSpare
  <2> HIDE DEF n
  <2>5. Phased(n, back) BY <2>2, <2>4, SparesTransitive, SparesPhased
  <2>6. Phasing(l, back) BY <2>5, LinkFailedPhased
  <2> HIDE DEF l
  <2>7. Same(l, m) BY <1>1, <2>6, TimersSame DEF Phasing
  <2>8. Firm(l) => Spares(l, m) BY <1>1, TimersSpare
  <2>q. QED BY <2>1, <2>6, <2>7, <2>8, SparesPhasing
<1>5. Phasing(Q707T1Expired(s, i), back)
  <2> DEFINE f == Forget(s, i, "q707_t1")
             a == [f EXCEPT !.failed[i] = 1]
             b == [f EXCEPT !.failed[i] = 0]
             c == Stop(b, i, "q707_t2")
             d == LinkFailed([c EXCEPT !.linkstate[i] = "DOWN"], i)
             e == [c EXCEPT !.linkstate[i] = "DOWN"]
  <2>1. Q707T1Expired(s, i) \in {StdTestSend(a, i), StdTestSend(d, i)}
    BY DEF Q707T1Expired, EventLinkDown
  <2>2. Spares(s, f) BY <1>1, TimersSpare DEF Phased
  <2> HIDE DEF f
  <2>3. Firm(f) BY <2>2, SparesFirm DEF Phased
  <2>4. Spares(f, a) /\ Spares(f, b) BY <2>3, FieldsSpare
  <2> HIDE DEF a, b
  <2>5. Phased(a, back) /\ Phased(b, back) BY <2>2, <2>4, SparesTransitive, SparesPhased
  <2>6. Spares(b, c) BY <1>1, <2>5, TimersSpare DEF Phased
  <2> HIDE DEF c
  <2>7. Phased(c, back) BY <2>5, <2>6, SparesPhased
  <2>8. Spares(c, e) BY <2>7, FieldsSpare DEF Phased
  <2>9. d = LinkFailed(e, i) OBVIOUS
  <2> HIDE DEF d, e
  <2>10. Phased(e, back) BY <2>7, <2>8, SparesPhased
  <2>11. Phasing(d, back) BY <2>9, <2>10, LinkFailedPhased
  <2>12. Same(d, StdTestSend(d, i)) BY <2>11, TestSendSame DEF Phasing
  <2>13. Firm(d) => Spares(d, StdTestSend(d, i)) BY TestSendSpares
  <2>14. Phasing(StdTestSend(d, i), back) BY <2>11, <2>12, <2>13, SparesPhasing
  <2>15. Spares(a, StdTestSend(a, i)) BY <2>5, TestSendSpares DEF Phased
  <2>q. QED BY <2>1, <2>5, <2>14, <2>15, PhasedPhasing
<1>q. QED BY <1>3, <1>4, <1>5

\* A link passes its test; unless it did so before, that begins a changeback.
LEMMA RxTestPhased ==
    ASSUME NEW s, NEW back, Phased(s, back), NEW i \in Link
    PROVE  Phased(RxSltm(s, i), back) /\ (back => Phased(RxSlta(s, i), back))
<1>1. Firm(s) /\ InPhase(s, i, back) /\ InTime(s, i) BY DEF Phased, InPhase
<1>2. Laid(s) /\ Whole(s) BY <1>1 DEF Firm, Laid
<1>3. Phased(RxSltm(s, i), back)
  <2> DEFINE n == RxSltm(s, i)
  <2>1. /\ Whole(n) /\ {"timer", "sent", "inhibit", "changeover"} \subseteq DOMAIN n
        /\ n.timer = s.timer /\ n.sent = s.sent /\ n.inhibit = s.inhibit
        /\ n.changeover = s.changeover /\ n.orphan = s.orphan
        /\ n.passed = s.passed /\ n.sp = s.sp /\ n.tra = s.tra /\ n.state = s.state
    BY <1>1, <1>2 DEF RxSltm, Firm, Laid, Whole, Core
  <2> HIDE DEF n
  <2>2. Laid(n) BY <1>2, <2>1 DEF Laid
  <2>3. Linked(n) /\ Up(n) BY <1>1, <2>1 DEF Firm, Linked, Reachable, PassedLinks, Up
  <2>q. QED BY <2>1, <2>2, <2>3, FieldsPhased DEF n
<1>4. ASSUME back PROVE Phased(RxSlta(s, i), back)
  <2> DEFINE a == Stop(s, i, "q707_t1")
             n == [a EXCEPT !.failed[i] = 0, !.passed[i] = TRUE]
             c == NetMngSend(n, i, "CBD")
             k == CancelChangeover(c, i)
             d == IF c.changeover[i] = "CHANGEOVER_COMPLETED" THEN c ELSE k
             b == [d EXCEPT !.changeover[i] = "CHANGEBACK_INITIATED"]
  <2>1. \/ RxSlta(s, i) = InitPeer(n, i)
        \/ RxSlta(s, i) = InitPeer(b, i) /\ s.inhibit[i] = {} /\ Diverted(s, i)
    BY DEF RxSlta, Diverted
  <2>2. Spares(s, a) BY <1>1, PhaseTimers, TimersSpare
  <2> HIDE DEF a
  <2>3. Phased(a, back) /\ Laid(a) /\ Whole(a) BY <2>2, SparesPhased DEF Spares, Laid
  <2>4. /\ Laid(n) /\ n.timer = a.timer /\ n.sent = a.sent /\ n.inhibit = a.inhibit
        /\ "changeover" \in DOMAIN n /\ n.changeover = a.changeover /\ n.orphan = a.orphan
        /\ n.sp = a.sp /\ n.tra = a.tra /\ n.state = a.state
        /\ n.passed = [a.passed EXCEPT ![i] = TRUE]
    BY <2>3 DEF Phased, Firm, Laid, Whole, Core
  <2> HIDE DEF n
  <2>5. Linked(n) /\ Up(n)
    <3>1. \A j \in Link : a.passed[j] => n.passed[j]
      <4>1. CASE i \in DOMAIN a.passed BY <2>4, <4>1
      <4>2. CASE i \notin DOMAIN a.passed BY <2>4, <4>2
      <4>q. QED BY <4>1, <4>2
    <3>2. \A sp : Reachable(a, sp) \subseteq Reachable(n, sp) BY <3>1 DEF Reachable, PassedLinks
    <3>q. QED BY <2>3, <2>4, <3>2 DEF Linked, Up, Phased, Firm
  <2>6. Phased(n, back) BY <2>3, <2>4, <2>5, FieldsPhased
  <2>7. /\ n.changeover = s.changeover /\ n.inhibit = s.inhibit
        /\ \A t \in PhaseTimer : n.timer[i][t] = s.timer[i][t]
    BY <2>2, <2>4 DEF Spares
  <2>8. ASSUME s.inhibit[i] = {}, Diverted(s, i) PROVE Phased(b, back)
    <3>1. Firm(n) /\ InTime(n, i) BY <2>6 DEF Phased, InPhase
    <3>2. /\ n.timer[i]["t3"] = "off" /\ n.timer[i]["t4"] = "off" /\ n.timer[i]["t5"] = "off"
          /\ n.changeover[i] = "CHANGEOVER_COMPLETED"
                 => n.timer[i]["t1"] = "off" /\ n.timer[i]["t2"] = "off"
      BY <2>7, <2>8, <3>1 DEF InTime, Diverted
    <3>3. /\ Firm(c) /\ SparesBut(n, c, i)
          /\ c.changeover[i] = n.changeover[i] /\ c.inhibit[i] = n.inhibit[i]
          /\ c.timer[i]["t4"] = IF "t4" \in Configured /\ n.timer[i]["t4"] = "off"
                                 THEN "1st" ELSE n.timer[i]["t4"]
          /\ \A t \in PhaseTimer \ {"t4"} : c.timer[i][t] = n.timer[i][t]
      BY <3>1, SendTimed
    <3> HIDE DEF c
    <3>4. /\ c.timer[i]["t4"] = IF "t4" \in Configured THEN "1st" ELSE "off"
          /\ c.timer[i]["t3"] = "off" /\ c.timer[i]["t5"] = "off"
          /\ c.changeover[i] = "CHANGEOVER_COMPLETED"
                 => c.timer[i]["t1"] = "off" /\ c.timer[i]["t2"] = "off"
      BY <3>2, <3>3, PhaseTimers
    <3>5. Shifts(c, k, i, "NO_CHANGEOVER", {"t1", "t2"}) BY <3>3, ChangeoverShifts
    <3> HIDE DEF k
    <3>6. SparesBut(c, c, i) BY <3>3, SparesItself, SparesAll
    <3>7. SparesBut(c, d, i) BY <3>5, <3>6 DEF Shifts
    <3>8. /\ d.timer[i]["t4"] = IF "t4" \in Configured THEN "1st" ELSE "off"
          /\ d.timer[i]["t3"] = "off" /\ d.timer[i]["t5"] = "off"
          /\ d.timer[i]["t1"] = "off" /\ d.timer[i]["t2"] = "off"
          /\ d.inhibit[i] = {}
      <4>1. CASE c.changeover[i] = "CHANGEOVER_COMPLETED" BY <2>7, <2>8, <3>3, <3>4, <4>1
      <4>2. CASE c.changeover[i] # "CHANGEOVER_COMPLETED"
        <5>1. /\ k.timer[i]["t1"] = "off" /\ k.timer[i]["t2"] = "off"
              /\ k.timer[i]["t3"] = c.timer[i]["t3"] /\ k.timer[i]["t4"] = c.timer[i]["t4"]
              /\ k.timer[i]["t5"] = c.timer[i]["t5"] /\ k.inhibit[i] = c.inhibit[i]
          BY <3>5, PhaseTimers DEF Shifts
        <5>q. QED BY <2>7, <2>8, <3>3, <3>4, <4>2, <5>1
      <4>q. QED BY <4>1, <4>2
    <3> HIDE DEF d
    <3>9. Firm(d) BY <3>3, <3>7, SparesFirm
    <3>10. Shifts(d, b, i, "CHANGEBACK_INITIATED", {})
      <4>1. "CHANGEBACK_INITIATED" \in Changeover BY DEF Changeover
      <4>q. QED BY ZenonT(60), <3>9, <4>1, MarkShifts
    <3> HIDE DEF b
    <3>11. SparesBut(n, b, i) BY <3>1, <3>3, <3>7, <3>10, SparesButTransitive DEF Shifts
    <3>12. /\ b.changeover[i] = "CHANGEBACK_INITIATED" /\ b.inhibit[i] = {}
           /\ b.timer[i]["t4"] = IF "t4" \in Configured THEN "1st" ELSE "off"
           /\ b.timer[i]["t3"] = "off" /\ b.timer[i]["t5"] = "off"
           /\ b.timer[i]["t1"] = "off" /\ b.timer[i]["t2"] = "off"
      BY <3>8, <3>10, PhaseTimers DEF Shifts
    <3>13. InTime(b, i) BY <3>12 DEF InTime, PhaseTimer
    <3>14. InPhase(b, i, back) BY <1>4, <3>12, <3>13 DEF InPhase
    <3>q. QED BY <2>6, <3>11, <3>14, LinkPhased
  <2> HIDE DEF b
  <2>9. \A m : Phased(m, back) => InitPeer(m, i) = m
    BY DestAssumption DEF Phased, Firm, Up, InitPeer
  <2>q. QED BY <2>1, <2>6, <2>8, <2>9
<1>q. QED BY <1>3, <1>4

\* The slot of a timer is freed before its callback is called, which sets the
\* variable to -1.
LEMMA StaleSets ==
    ASSUME NEW s, Firm(s), NEW i \in Link, NEW t \in LinkTimer
    PROVE  LET x == [s EXCEPT !.timer[i][t] = "stale"]
           IN  /\ Firm(x) /\ Sets(s, x, i, t, "stale") /\ x.timer[i][t] = "stale"
               /\ t \notin PhaseTimer => Spares(s, x)
<1> DEFINE x == [s EXCEPT !.timer[i][t] = "stale"]
<1>1. Whole(s) /\ Laid(s) BY DEF Firm, Laid
<1>2. Same(s, x) BY <1>1 DEF Same, Whole, Core
<1>3. Laid(x) /\ x.timer[i][t] = "stale" BY <1>1 DEF Laid, Whole, Core
<1>4. /\ "changeover" \in DOMAIN x /\ x.changeover = s.changeover
      /\ x.inhibit = s.inhibit /\ x.orphan = s.orphan
      /\ \A j \in Link \ {i}, u \in PhaseTimer : x.timer[j][u] = s.timer[j][u]
      /\ \A u \in PhaseTimer : x.timer[i][u] = IF u = t THEN "stale" ELSE s.timer[i][u]
  BY <1>1, PhaseTimers DEF Firm, Laid, Whole, Core
<1> HIDE DEF x
<1>5. Sets(s, x, i, t, "stale") BY <1>2, <1>3, <1>4 DEF Sets, SparesBut, Strays, Firm
<1>6. Firm(x) BY <1>5, SparesFirm DEF Sets
<1>7. t \notin PhaseTimer => Spares(s, x) BY <1>2, <1>3, <1>4 DEF Spares, Strays
<1>q. QED BY <1>3, <1>5, <1>6, <1>7 DEF x

LEMMA StaleForgotten ==
    ASSUME NEW s, Firm(s), NEW i \in Link, NEW t \in PhaseTimer
    PROVE  LET f == Forget([s EXCEPT !.timer[i][t] = "stale"], i, t)
           IN  Firm(f) /\ Shifts(s, f, i, s.changeover[i], {t})
<1> DEFINE x == [s EXCEPT !.timer[i][t] = "stale"]
           f == Forget(x, i, t)
<1>1. t \in LinkTimer BY PhaseTimers
<1>2. Firm(x) /\ Sets(s, x, i, t, "stale") /\ x.timer[i][t] = "stale" BY <1>1, StaleSets
<1> HIDE DEF x
<1>3. x.timer[i][t] \notin Callback BY <1>2 DEF Callback
<1>4. Shifts(x, f, i, x.changeover[i], {t}) BY <1>1, <1>2, <1>3, StopShifts
<1> HIDE DEF f
<1>5. SparesBut(s, f, i) BY <1>2, <1>4, SparesButTransitive DEF Sets, Shifts
<1>6. /\ f.changeover[i] = s.changeover[i] /\ f.inhibit[i] = s.inhibit[i]
      /\ \A u \in PhaseTimer : f.timer[i][u] = IF u \in {t} THEN "off" ELSE s.timer[i][u]
  BY <1>2, <1>4 DEF Sets, Shifts
<1>7. Shifts(s, f, i, s.changeover[i], {t}) BY <1>5, <1>6 DEF Shifts
<1>8. Firm(f) BY <1>5, SparesFirm
<1>q. QED BY <1>7, <1>8 DEF f, x

LEMMA T3Shifts ==
    ASSUME NEW s, Firm(s), NEW i \in Link, s.timer[i]["t3"] \notin Callback
    PROVE  Shifts(s, T3Expired(s, i), i, "NO_CHANGEOVER", {"t3"})
<1> DEFINE none == <<>>
           f == Forget(s, i, "t3")
           n == [f EXCEPT !.changeover[i] = "NO_CHANGEOVER", !.cb_buf[i] = none]
           u == Transmit(n, s.cb_buf[i])
           k == Ss7Check(u)
           m == FreeCo(k, i)
<1>1. T3Expired(s, i) = m BY DEF T3Expired
<1> HIDE DEF none
<1>2. Shifts(s, f, i, s.changeover[i], {"t3"}) BY TimersKnown, StopShifts
<1> HIDE DEF f
<1>3. Firm(f) BY <1>2, SparesFirm DEF Shifts
<1>4. "NO_CHANGEOVER" \in Changeover BY DEF Changeover
<1>5. n = [f EXCEPT !.changeover[i] = "NO_CHANGEOVER", !.cb_buf[i] = none] OBVIOUS
<1>6. Shifts(f, n, i, "NO_CHANGEOVER", {}) BY ZenonT(60), <1>3, <1>4, <1>5, MarkShifts
<1> HIDE DEF n
<1>7. Shifts(s, n, i, "NO_CHANGEOVER", {"t3"} \cup {}) BY <1>2, <1>6, ShiftsTransitive
<1>8. {"t3"} \cup {} = {"t3"} OBVIOUS
<1>9. Firm(n) BY <1>7, SparesFirm DEF Shifts
<1>10. Spares(n, u) BY <1>9, FieldsSpare
<1> HIDE DEF u
<1>11. Firm(u) BY <1>9, <1>10, SparesFirm
<1>12. Spares(u, k) BY <1>11, Ss7CheckSpares
<1> HIDE DEF k
<1>13. Firm(k) BY <1>11, <1>12, SparesFirm
<1>14. Spares(k, m) BY <1>13, FieldsSpare
<1> HIDE DEF m
<1>15. Spares(n, m) BY <1>10, <1>12, <1>14, SparesTransitive
<1>q. QED BY <1>1, <1>7, <1>8, <1>15, ShiftsThenSpares

\* One timer of the phase has expired, and its function changes the state.
LEMMA ExpiresPhased ==
    ASSUME NEW s, NEW back, Phased(s, back), NEW i \in Link, NEW c \in Changeover, NEW T,
           NEW n, Shifts(s, n, i, c, T),
           \A t \in PhaseTimer \ T : s.timer[i][t] = "off",
           c \in {"NO_CHANGEOVER", "CHANGEOVER_COMPLETED"},
           c = "NO_CHANGEOVER" => s.inhibit[i] = {}
    PROVE  Phased(n, back)
<1>1. \A t \in PhaseTimer : n.timer[i][t] = "off" BY DEF Shifts
<1>2. /\ n.timer[i]["t1"] = "off" /\ n.timer[i]["t2"] = "off" /\ n.timer[i]["t3"] = "off"
      /\ n.timer[i]["t4"] = "off" /\ n.timer[i]["t5"] = "off"
  BY <1>1, PhaseTimers
<1>3. n.changeover[i] = c /\ n.inhibit[i] = s.inhibit[i] BY DEF Shifts
<1>4. InTime(n, i) BY <1>1, <1>2, <1>3 DEF InTime
<1>5. InPhase(n, i, back) BY <1>3, <1>4 DEF InPhase, Diverted
<1>q. QED BY <1>5, LinkPhased DEF Shifts

\* T1 and T2 complete a changeover, T3 and T5 a changeback; T4 is followed by T5.
LEMMA PhaseTimerPhased ==
    ASSUME NEW s, NEW back, Phased(s, back), NEW i \in Link, NEW t \in PhaseTimer,
           s.timer[i][t] \in Callback
    PROVE  LET x == [s EXCEPT !.timer[i][t] = "stale"]
           IN  /\ t = "t1" => Phased(T1Expired(x, i), back)
               /\ t = "t2" => Phased(T2Expired(x, i), back)
               /\ t = "t3" => Phased(T3Expired(x, i), back)
               /\ t = "t4" => Phased(T4Expired(x, i), back)
               /\ t = "t5" => Phased(T5Expired(x, i), back)
<1> DEFINE x == [s EXCEPT !.timer[i][t] = "stale"]
           f == Forget(x, i, t)
<1>1. Firm(s) /\ InPhase(s, i, back) /\ InTime(s, i) BY DEF Phased, InPhase
<1>2. t \in LinkTimer /\ s.timer[i][t] # "off" BY PhaseTimers DEF Callback
<1>3. Firm(x) /\ Sets(s, x, i, t, "stale") /\ x.timer[i][t] = "stale" BY <1>1, <1>2, StaleSets
<1>4. Firm(f) /\ Shifts(s, f, i, s.changeover[i], {t}) BY <1>1, StaleForgotten
<1>5. f = Forget(x, i, t) OBVIOUS
<1> HIDE DEF x, f
<1>6. /\ "NO_CHANGEOVER" \in Changeover /\ "CHANGEOVER_COMPLETED" \in Changeover
  BY DEF Changeover
<1>7. CASE t = "t1"
  <2> DEFINE none == <<>>
             n == [f EXCEPT !.changeover[i] = "CHANGEOVER_COMPLETED", !.co_buf[i] = none]
             u == Transmit(n, x.co_buf[i])
             m == FreeCo(u, i)
  <2>1. T1Expired(x, i) = m BY <1>5, <1>7 DEF T1Expired
  <2> HIDE DEF none
  <2>2. n = [f EXCEPT !.changeover[i] = "CHANGEOVER_COMPLETED", !.co_buf[i] = none] OBVIOUS
  <2>3. Shifts(f, n, i, "CHANGEOVER_COMPLETED", {}) BY ZenonT(60), <1>4, <1>6, <2>2, MarkShifts
  <2> HIDE DEF n
  <2>4. Shifts(s, n, i, "CHANGEOVER_COMPLETED", {t} \cup {})
    BY <1>1, <1>4, <2>3, ShiftsTransitive
  <2>5. Firm(n) BY <1>1, <2>4, SparesFirm DEF Shifts
  <2>6. Spares(n, u) BY <2>5, FieldsSpare
  <2> HIDE DEF u
  <2>7. Spares(u, m) BY <2>5, <2>6, SparesFirm, FieldsSpare
  <2> HIDE DEF m
  <2>8. Shifts(s, m, i, "CHANGEOVER_COMPLETED", {t} \cup {})
    BY <1>1, <2>4, <2>6, <2>7, SparesTransitive, ShiftsThenSpares
  <2>9. /\ s.timer[i]["t2"] = "off" /\ s.timer[i]["t3"] = "off"
        /\ s.timer[i]["t4"] = "off" /\ s.timer[i]["t5"] = "off"
    BY <1>1, <1>2, <1>7 DEF InTime
  <2>10. \A u1 \in PhaseTimer \ ({t} \cup {}) : s.timer[i][u1] = "off"
    BY <1>7, <2>9 DEF PhaseTimer
  <2>11. Phased(m, back) BY <1>6, <2>8, <2>10, ExpiresPhased
  <2>q. QED BY <1>7, <2>1, <2>11 DEF x
<1>8. CASE t = "t2"
  <2> DEFINE g == [f EXCEPT !.sent[i] = @ \ {"COO", "ECO"}]
             q == [g EXCEPT !.co_tx_q[i] = <<>>]
             n == [q EXCEPT !.co_buf[i] = <<>>]
             u == Transmit(n, x.co_tx_q[i] \o x.co_buf[i])
             m == [u EXCEPT !.changeover[i] = "CHANGEOVER_COMPLETED"]
             k == FreeCo(m, i)
  <2>1. T2Expired(x, i) = Check(k, AdjSp[i]) BY <1>5, <1>8 DEF T2Expired
  <2>2. Spares(f, g) /\ Firm(g) BY <1>4, SentSpares
  <2> HIDE DEF g
  <2>3. Spares(g, q) BY <2>2, FieldsSpare
  <2>4. Firm(q) BY <2>2, <2>3, SparesFirm
  <2> HIDE DEF q
  <2>5. Spares(q, n) BY <2>4, FieldsSpare
  <2>6. Firm(n) BY <2>4, <2>5, SparesFirm
  <2> HIDE DEF n
  <2>7. Spares(n, u) BY <2>6, FieldsSpare
  <2>8. Firm(u) BY <2>6, <2>7, SparesFirm
  <2> HIDE DEF u
  <2>9. Spares(f, u) BY <2>2, <2>3, <2>5, <2>7, SparesTransitive
  <2>10. m = [u EXCEPT !.changeover[i] = "CHANGEOVER_COMPLETED"] OBVIOUS
  <2>11. Shifts(u, m, i, "CHANGEOVER_COMPLETED", {})
    BY ZenonT(60), <1>6, <2>8, <2>10, MarkShifts
  <2> HIDE DEF m
  <2>12. Shifts(f, m, i, "CHANGEOVER_COMPLETED", {}) BY <1>4, <2>9, <2>11, SparesThenShifts
  <2>13. Shifts(s, m, i, "CHANGEOVER_COMPLETED", {t} \cup {})
    BY <1>1, <1>4, <2>12, ShiftsTransitive
  <2>14. Firm(m) BY <1>1, <2>13, SparesFirm DEF Shifts
  <2>15. Spares(m, k) BY <2>14, FieldsSpare
  <2> HIDE DEF k
  <2>16. Shifts(s, k, i, "CHANGEOVER_COMPLETED", {t} \cup {})
    BY <1>1, <2>13, <2>15, ShiftsThenSpares
  <2>17. /\ s.timer[i]["t1"] = "off" /\ s.timer[i]["t3"] = "off"
         /\ s.timer[i]["t4"] = "off" /\ s.timer[i]["t5"] = "off"
    BY <1>1, <1>2, <1>8 DEF InTime
  <2>18. \A u1 \in PhaseTimer \ ({t} \cup {}) : s.timer[i][u1] = "off"
    BY <1>8, <2>17 DEF PhaseTimer
  <2>19. Phased(k, back) BY <1>6, <2>16, <2>18, ExpiresPhased
  <2>20. AdjSp[i] \in Sp BY DestAssumption
  <2>21. Check(k, AdjSp[i]) = k BY <2>19, <2>20, CheckIdle DEF Phased
  <2>q. QED BY <1>8, <2>1, <2>19, <2>21 DEF x
<1>9. CASE t = "t3"
  <2> DEFINE m == T3Expired(x, i)
  <2>1. x.timer[i]["t3"] \notin Callback BY <1>3, <1>9 DEF Callback
  <2>2. Shifts(x, m, i, "NO_CHANGEOVER", {"t3"}) BY <1>3, <2>1, T3Shifts
  <2> HIDE DEF m
  <2>3. SparesBut(s, m, i) BY <1>1, <1>3, <2>2, SparesButTransitive DEF Sets, Shifts
  <2>4. /\ m.changeover[i] = "NO_CHANGEOVER" /\ m.inhibit[i] = s.inhibit[i]
        /\ \A u \in PhaseTimer : m.timer[i][u] = IF u \in {"t3"} THEN "off" ELSE s.timer[i][u]
    BY <1>3, <1>9, <2>2 DEF Sets, Shifts
  <2>5. Shifts(s, m, i, "NO_CHANGEOVER", {"t3"}) BY <2>3, <2>4 DEF Shifts
  <2>6. /\ s.timer[i]["t1"] = "off" /\ s.timer[i]["t2"] = "off"
        /\ s.timer[i]["t4"] = "off" /\ s.timer[i]["t5"] = "off"
        /\ s.changeover[i] = "CHANGEBACK"
    BY <1>1, <1>2, <1>9 DEF InTime
  <2>7. s.inhibit[i] = {} BY <1>1, <2>6 DEF InPhase, Diverted
  <2>8. \A u \in PhaseTimer \ {"t3"} : s.timer[i][u] = "off" BY <2>6 DEF PhaseTimer
  <2>9. Phased(m, back) BY <1>6, <2>5, <2>7, <2>8, ExpiresPhased
  <2>q. QED BY <1>9, <2>9 DEF x, m
<1>10. CASE t = "t4"
  <2> DEFINE n == NetMngSend(x, i, "CBD")
             g == Forget(n, i, "t4")
             m == Schedule(g, i, "t5", "1st")
             w == Start(g, i, "t5")
  <2>1. T4Expired(x, i) = w BY DEF T4Expired
  <2>2. w = IF "t5" \in Configured THEN m ELSE g BY DEF Start
  <2>3. "t4" \in LinkTimer /\ "t5" \in LinkTimer /\ "1st" \in Callback
    BY TimersKnown DEF Callback
  <2>4. /\ Firm(n) /\ SparesBut(x, n, i)
        /\ n.changeover[i] = x.changeover[i] /\ n.inhibit[i] = x.inhibit[i]
        /\ n.timer[i]["t4"] = IF "t4" \in Configured /\ x.timer[i]["t4"] = "off"
                               THEN "1st" ELSE x.timer[i]["t4"]
        /\ \A u \in PhaseTimer \ {"t4"} : n.timer[i][u] = x.timer[i][u]
    BY <1>3, SendTimed
  <2> HIDE DEF n, w
  <2>5. n.timer[i]["t4"] \notin Callback BY <1>3, <1>10, <2>4 DEF Callback
  <2>6. Shifts(n, g, i, n.changeover[i], {"t4"}) BY <2>3, <2>4, <2>5, StopShifts
  <2> HIDE DEF g
  <2>7. Firm(g) /\ SparesBut(n, g, i) BY <2>4, <2>6, SparesFirm DEF Shifts
  <2>8. /\ s.timer[i]["t1"] = "off" /\ s.timer[i]["t2"] = "off"
        /\ s.timer[i]["t3"] = "off" /\ s.timer[i]["t5"] = "off"
        /\ s.changeover[i] = "CHANGEBACK_INITIATED"
    BY <1>1, <1>2, <1>10 DEF InTime
  <2>9. s.inhibit[i] = {} /\ back BY <1>1, <2>8 DEF InPhase, Diverted
  <2>10. /\ x.timer[i]["t1"] = "off" /\ x.timer[i]["t2"] = "off"
         /\ x.timer[i]["t3"] = "off" /\ x.timer[i]["t5"] = "off"
         /\ x.changeover[i] = "CHANGEBACK_INITIATED" /\ x.inhibit[i] = {}
    BY <1>3, <1>10, <2>8, <2>9, PhaseTimers DEF Sets
  <2>11. /\ g.timer[i]["t1"] = "off" /\ g.timer[i]["t2"] = "off"
         /\ g.timer[i]["t3"] = "off" /\ g.timer[i]["t4"] = "off" /\ g.timer[i]["t5"] = "off"
         /\ g.changeover[i] = "CHANGEBACK_INITIATED" /\ g.inhibit[i] = {}
    BY <2>4, <2>6, <2>10, PhaseTimers DEF Shifts
  <2>12. Sets(g, m, i, "t5", "1st")
    <3>1. g.timer[i]["t5"] \notin Callback BY <2>11 DEF Callback
    <3>q. QED BY <2>3, <2>7, <3>1, ScheduleSets
  <2> HIDE DEF m
  <2>13. SparesBut(g, g, i) BY <2>7, SparesItself, SparesAll
  <2>14. SparesBut(g, w, i) BY <2>2, <2>12, <2>13 DEF Sets
  <2>15. SparesBut(s, n, i) BY <1>1, <1>3, <2>4, SparesButTransitive DEF Sets
  <2>16. SparesBut(s, g, i) BY <1>1, <2>7, <2>15, SparesButTransitive
  <2>17. SparesBut(s, w, i) BY <1>1, <2>14, <2>16, SparesButTransitive
  <2>18. /\ w.timer[i]["t1"] = "off" /\ w.timer[i]["t2"] = "off"
         /\ w.timer[i]["t3"] = "off" /\ w.timer[i]["t4"] = "off"
         /\ w.timer[i]["t5"] = IF "t5" \in Configured THEN "1st" ELSE "off"
         /\ w.changeover[i] = "CHANGEBACK_INITIATED" /\ w.inhibit[i] = {}
    <3>1. CASE "t5" \in Configured BY <2>2, <2>11, <2>12, <3>1, PhaseTimers DEF Sets
    <3>2. CASE "t5" \notin Configured BY <2>2, <2>11, <3>2
    <3>q. QED BY <3>1, <3>2
  <2>19. InTime(w, i) BY <2>18 DEF InTime, PhaseTimer
  <2>20. InPhase(w, i, back) BY <2>9, <2>18, <2>19 DEF InPhase
  <2>21. Phased(w, back) BY <2>17, <2>20, LinkPhased
  <2>q. QED BY <1>10, <2>1, <2>21 DEF x
<1>11. CASE t = "t5"
  <2> DEFINE n == [f EXCEPT !.sent[i] = @ \ {"CBD"}]
             m == T3Expired(n, i)
  <2>1. T5Expired(x, i) = m BY <1>5, <1>11 DEF T5Expired
  <2>2. Spares(f, n) /\ Firm(n) BY <1>4, SentSpares
  <2> HIDE DEF n
  <2>3. Shifts(s, n, i, s.changeover[i], {t}) BY <1>1, <1>4, <2>2, ShiftsThenSpares
  <2>4. /\ s.timer[i]["t1"] = "off" /\ s.timer[i]["t2"] = "off"
        /\ s.timer[i]["t3"] = "off" /\ s.timer[i]["t4"] = "off"
        /\ s.changeover[i] = "CHANGEBACK_INITIATED"
    BY <1>1, <1>2, <1>11 DEF InTime
  <2>5. n.timer[i]["t3"] \notin Callback BY <1>11, <2>3, <2>4, PhaseTimers DEF Shifts, Callback
  <2>6. Shifts(n, m, i, "NO_CHANGEOVER", {"t3"}) BY <2>2, <2>5, T3Shifts
  <2> HIDE DEF m
  <2>7. Shifts(s, m, i, "NO_CHANGEOVER", {t} \cup {"t3"}) BY <1>1, <2>3, <2>6, ShiftsTransitive
  <2>8. s.inhibit[i] = {} BY <1>1, <2>4 DEF InPhase, Diverted
  <2>9. \A u \in PhaseTimer \ ({t} \cup {"t3"}) : s.timer[i][u] = "off"
    BY <1>11, <2>4 DEF PhaseTimer
  <2>10. Phased(m, back) BY <1>6, <2>7, <2>8, <2>9, ExpiresPhased
  <2>q. QED BY <1>11, <2>1, <2>10 DEF x
<1>q. QED BY <1>7, <1>8, <1>9, <1>10, <1>11 DEF PhaseTimer, x

\* The other timers, also those whose number was overwritten.
LEMMA OtherTimerPhased ==
    ASSUME NEW s, NEW back, Phased(s, back), NEW i \in Link, NEW t \in LinkTimer \ PhaseTimer,
           NEW c \in Callback
    PROVE  Phasing(Expired(s, i, t, c), back)
<1>1. /\ t \in {"t12", "t13", "t14", "t22", "t23", "q707_t1", "q707_t2"}
      /\ c \in {"1st", "2nd"} /\ "1st" \in Callback
  BY PhaseTimers DEF Callback
<1>2. /\ {"t12", "t13", "t14", "t22", "t23", "q707_t1", "q707_t2"}
              \subseteq LinkTimer \ PhaseTimer
  BY PhaseTimers
<1>3. Firm(s) BY DEF Phased
<1>4. Phased(s, back) => Phasing(s, back) BY PhasedPhasing
<1>5. \A msg : msg \in {"LUN", "LFU", "LIN", "LLT", "LRT"} => Spares(s, NetMngSend(s, i, msg))
  BY <1>3, SendSpares
<1>6. \A u : u \in LinkTimer \ PhaseTimer => Spares(s, Forget(s, i, u)) BY <1>3, TimersSpare
<1>7. Spares(s, T12Expired2nd(s, i))
  <2> DEFINE f == Forget(s, i, "t12")
             n == [f EXCEPT !.sent[i] = @ \ {"LUN"}]
  <2>1. T12Expired2nd(s, i) = n BY DEF T12Expired2nd
  <2>2. Spares(s, f) /\ Firm(f) BY <1>2, <1>3, <1>6, SparesFirm
  <2> HIDE DEF f
  <2>3. Spares(f, n) BY <2>2, SentSpares
  <2>q. QED BY <2>1, <2>2, <2>3, SparesTransitive
<1>8. Phased(T14Expired2nd(s, i), back)
  <2> DEFINE f == Forget(s, i, "t14")
             R == f.sent[i] \ {"LIN"}
             E == f.inhibit[i] \ {"LOCALLY"}
             n == [f EXCEPT !.sent[i] = R, !.inhibit[i] = E]
  <2>1. T14Expired2nd(s, i) = n BY DEF T14Expired2nd
  <2>2. Spares(s, f) /\ Firm(f) BY <1>2, <1>3, <1>6, SparesFirm
  <2> HIDE DEF f
  <2>3. Phased(f, back) BY <2>2, SparesPhased
  <2>4. R \in SUBSET SentMsg /\ E \in SUBSET Inhibit /\ E \subseteq f.inhibit[i]
    BY <2>2 DEF Firm, Laid
  <2> HIDE DEF R, E
  <2>5. n = Noted(f, i, R, E) BY DEF Noted
  <2> HIDE DEF n
  <2>6. InPhase(f, i, back) BY <2>3 DEF Phased
  <2>7. /\ Firm(n) /\ SparesBut(f, n, i) /\ n.inhibit[i] = E
        /\ n.changeover = f.changeover /\ InTime(n, i)
    BY <2>2, <2>4, <2>5, <2>6, InhibitPhase DEF InPhase
  <2>8. InPhase(n, i, back) BY <2>4, <2>6, <2>7 DEF InPhase, Diverted
  <2>q. QED BY <2>1, <2>3, <2>7, <2>8, LinkPhased
<1>9. ASSUME NEW u \in {"t22", "t23"}, NEW msg \in {"LLT", "LRT"}
      PROVE  Spares(s, Schedule(NetMngSend(s, i, msg), i, u, "1st"))
  <2> DEFINE n == NetMngSend(s, i, msg)
  <2>1. Spares(s, n) /\ Firm(n) BY <1>3, <1>5, SparesFirm
  <2> HIDE DEF n
  <2>2. u \in LinkTimer \ PhaseTimer BY <1>2
  <2>3. Spares(n, Schedule(n, i, u, "1st")) BY <1>1, <2>1, <2>2, TimersSpare
  <2>q. QED BY <2>1, <2>3, SparesTransitive DEF n
<1>10. Spares(s, T22Expired(s, i)) /\ Spares(s, T23Expired(s, i))
  BY <1>2, <1>6, <1>9 DEF T22Expired, T23Expired
<1>11. Phasing(Q707T1Expired(s, i), back) BY FailurePhased
<1>12. Spares(s, Q707T2Expired(s, i))
  <2> DEFINE n == StdTestSend(s, i)
  <2>1. Spares(s, n) /\ Firm(n) BY <1>3, TestSendSpares, SparesFirm
  <2> HIDE DEF n
  <2>2. Spares(n, Schedule(n, i, "q707_t2", "1st")) BY <1>1, <1>2, <2>1, TimersSpare
  <2>q. QED BY <2>1, <2>2, SparesTransitive DEF Q707T2Expired, n
<1>13. CASE t \in {"t12", "t13", "t14"} /\ c = "1st"
  <2>1. Expired(s, i, t, c) \in {NetMngSend(s, i, msg) : msg \in {"LUN", "LFU", "LIN"}}
    BY <1>13 DEF Expired
  <2>q. QED BY <1>5, <2>1, PhasedPhasing
<1>14. CASE t \in {"t12", "t13", "t14"} /\ c = "2nd"
  <2>1. Expired(s, i, t, c) \in {T12Expired2nd(s, i), Forget(s, i, "t13"), T14Expired2nd(s, i)}
    BY <1>14 DEF Expired
  <2>q. QED BY <1>2, <1>6, <1>7, <1>8, <2>1, PhasedPhasing
<1>15. CASE t \in {"t22", "t23", "q707_t1", "q707_t2"}
  <2>1. Expired(s, i, t, c) \in {T22Expired(s, i), T23Expired(s, i), Q707T1Expired(s, i),
                                 Q707T2Expired(s, i)}
    BY <1>15 DEF Expired
  <2>q. QED BY <1>10, <1>11, <1>12, <2>1, PhasedPhasing
<1>q. QED BY <1>1, <1>13, <1>14, <1>15

LEMMA ExpirePhased ==
    ASSUME NEW s, NEW back, Phased(s, back), NEW i \in Link, NEW t \in LinkTimer,
           s.timer[i][t] \in Callback
    PROVE  Phasing(Expired([s EXCEPT !.timer[i][t] = "stale"], i, t, s.timer[i][t]), back)
<1> DEFINE x == [s EXCEPT !.timer[i][t] = "stale"]
           c == s.timer[i][t]
<1>1. Firm(s) BY DEF Phased
<1>2. CASE t \in PhaseTimer
  <2>1. /\ t = "t1" => Phased(T1Expired(x, i), back)
        /\ t = "t2" => Phased(T2Expired(x, i), back)
        /\ t = "t3" => Phased(T3Expired(x, i), back)
        /\ t = "t4" => Phased(T4Expired(x, i), back)
        /\ t = "t5" => Phased(T5Expired(x, i), back)
    BY <1>2, PhaseTimerPhased
  <2> HIDE DEF x, c
  <2>2. Phased(Expired(x, i, t, c), back) BY <1>2, <2>1 DEF Expired, PhaseTimer
  <2>q. QED BY <2>2, PhasedPhasing DEF x, c
<1>3. CASE t \notin PhaseTimer
  <2>1. Spares(s, x) BY <1>1, <1>3, StaleSets
  <2> HIDE DEF x
  <2>2. Phased(x, back) BY <2>1, SparesPhased
  <2>3. c \in Callback OBVIOUS
  <2> HIDE DEF c
  <2>4. t \in LinkTimer \ PhaseTimer BY <1>3
  <2>5. Phasing(Expired(x, i, t, c), back) BY <2>2, <2>3, <2>4, OtherTimerPhased
  <2>q. QED BY <2>5 DEF x, c
<1>q. QED BY <1>2, <1>3

-------------------------------------------------------------------------------
(* Routes, the application, and what is left. *)

\* The phases and all that times them are as they were.
PhaseField == {"timer", "sent", "inhibit", "changeover", "orphan"}
Keeps(s, n) == PhaseField \subseteq DOMAIN n /\ \A f \in PhaseField : n[f] = s[f]

LEMMA KeepsTransitive ==
    ASSUME NEW s, NEW n, NEW m, Keeps(s, n), Keeps(n, m)
    PROVE  Keeps(s, m)
BY DEF Keeps

LEMMA KeepsSpares ==
    ASSUME NEW s, Firm(s), NEW n, Same(s, n), Keeps(s, n)
    PROVE  Spares(s, n)
<1>1. /\ {"timer", "sent", "inhibit", "changeover"} \subseteq DOMAIN n
      /\ n.timer = s.timer /\ n.sent = s.sent /\ n.inhibit = s.inhibit
      /\ n.changeover = s.changeover /\ n.orphan = s.orphan
  BY DEF Keeps, PhaseField
<1>q. QED BY <1>1 DEF Spares, Firm, Laid, Same, Strays

LEMMA RouteKeeps ==
    ASSUME NEW s, Whole(s), PhaseField \subseteq DOMAIN s, NEW sp \in Sp, NEW d \in Dest
    PROVE  Keeps(s, ForcedReroute(s, sp, d)) /\ Keeps(s, ControlledReroute(s, sp, d))
           /\ Keeps(s, T6Expired(s, sp, d))
<1> DEFINE B == {"tx_q", "co_tx_q", "co_buf", "cb_buf", "tx_buf", "co_tx_buf"}
<1>1. ASSUME NEW bufs \in Seq(B) PROVE Keeps(s, Withdraw(s, sp, d, bufs))
  <2>1. Range(bufs) \subseteq B BY ElementOfSeq, LenProperties DEF Range
  <2>2. PhaseField \cap Range(bufs) = {} BY <2>1 DEF PhaseField
  <2> DEFINE m == Withdraw(s, sp, d, bufs)
  <2>3. DOMAIN m = DOMAIN s /\ \A f \in DOMAIN s : f \notin Range(bufs) => m[f] = s[f]
    BY DEF Withdraw
  <2> HIDE DEF m
  <2>4. Keeps(s, m) BY <2>2, <2>3 DEF Keeps
  <2>q. QED BY <2>4 DEF m
<1>2. \A n, r : PhaseField \subseteq DOMAIN n => Keeps(n, [n EXCEPT !.route[sp][d] = r])
  BY DEF Keeps, PhaseField
<1>3. \A n, msgs : PhaseField \subseteq DOMAIN n => Keeps(n, Transmit(n, msgs))
  BY DEF Keeps, PhaseField, Transmit
<1>4. Keeps(s, ForcedReroute(s, sp, d))
  <2> DEFINE bufs == <<"tx_q", "co_tx_q", "co_buf", "cb_buf">>
             all == bufs \o <<"tx_buf", "co_tx_buf">>
             n == Withdraw(s, sp, d, all)
             r == [state |-> "TFP", t6 |-> FALSE, t10 |-> "t10" \in Configured, q |-> <<>>]
             m == [n EXCEPT !.route[sp][d] = r]
             msgs == s.route[sp][d].q \o Withdrawn(s, sp, d, bufs)
  <2>1. all \in Seq(B)
    <3>1. bufs \in Seq(B) /\ <<"tx_buf", "co_tx_buf">> \in Seq(B) OBVIOUS
    <3>q. QED BY <3>1, ConcatProperties
  <2>2. ForcedReroute(s, sp, d) = Transmit(m, msgs) BY DEF ForcedReroute
  <2> HIDE DEF all, msgs, bufs, r
  <2>3. Keeps(s, n) BY <1>1, <2>1
  <2> HIDE DEF n
  <2>4. Keeps(n, m) BY <1>2, <2>3 DEF Keeps
  <2> HIDE DEF m
  <2>5. Keeps(m, Transmit(m, msgs)) BY <1>3, <2>4 DEF Keeps
  <2>q. QED BY <2>2, <2>3, <2>4, <2>5, KeepsTransitive
<1>5. Keeps(s, ControlledReroute(s, sp, d))
  <2> DEFINE bufs == <<"tx_q", "co_buf", "cb_buf", "co_tx_q">>
             n == Withdraw(s, sp, d, bufs)
             w == ControlledReroute(s, sp, d)
  <2>1. bufs \in Seq(B) OBVIOUS
  <2>2. DOMAIN w = DOMAIN n /\ \A f \in DOMAIN n : f # "route" => w[f] = n[f]
    BY DEF ControlledReroute
  <2> HIDE DEF bufs
  <2>3. Keeps(s, n) BY <1>1, <2>1
  <2> HIDE DEF n, w
  <2>4. Keeps(n, w) BY <2>2, <2>3 DEF Keeps, PhaseField
  <2>5. Keeps(s, w) BY <2>3, <2>4, KeepsTransitive
  <2>q. QED BY <2>5 DEF w
<1>6. Keeps(s, T6Expired(s, sp, d))
  <2> DEFINE c == [s EXCEPT !.route[sp][d].t6 = FALSE, !.route[sp][d].q = <<>>]
             n == Transmit(c, s.route[sp][d].q)
             m == [n EXCEPT !.route[sp][d] = NoRoute]
             w == T6Expired(s, sp, d)
  <2>1. Keeps(s, c) BY SMTT(30) DEF Keeps, PhaseField
  <2>2. w \in {n, m} BY DEF T6Expired
  <2> HIDE DEF c, w
  <2>3. Keeps(c, n) BY <1>3, <2>1 DEF Keeps
  <2> HIDE DEF n
  <2>4. Keeps(n, m) BY <1>2, <2>3 DEF Keeps
  <2> HIDE DEF m
  <2>5. Keeps(s, w) BY <2>1, <2>2, <2>3, <2>4, KeepsTransitive
  <2>q. QED BY <2>5 DEF w
<1>q. QED BY <1>4, <1>5, <1>6

\* A destination's route concerns no link's phase.
LEMMA RoutePhased ==
    ASSUME NEW s, NEW back, Phased(s, back), NEW sp \in Sp, NEW d \in Dest
    PROVE  /\ Phased(RxTfp(s, sp, d), back) /\ Phased(RxTfa(s, sp, d), back)
           /\ Phased(T6Expired(s, sp, d), back) /\ Phased(T10Expired(s, sp, d), back)
<1>1. Firm(s) /\ Whole(s) /\ PhaseField \subseteq DOMAIN s
  BY DEF Phased, Firm, Laid, Whole, Core, PhaseField
<1>2. /\ Same(s, ForcedReroute(s, sp, d)) /\ Same(s, ControlledReroute(s, sp, d))
      /\ Same(s, T6Expired(s, sp, d))
  BY <1>1, RerouteSame
<1>3. /\ Spares(s, ForcedReroute(s, sp, d)) /\ Spares(s, ControlledReroute(s, sp, d))
      /\ Spares(s, T6Expired(s, sp, d))
  BY <1>1, <1>2, RouteKeeps, KeepsSpares
<1>4. Spares(s, T10Expired(s, sp, d))
  <2>1. First(LinksOf(sp)) \in Link BY SpAssumption, FirstExists DEF LinksOf
  <2>q. QED BY <1>1, <2>1, SendSpares DEF T10Expired
<1>q. QED BY <1>3, <1>4, SparesPhased DEF RxTfp, RxTfa

LEMMA KeepsPhased ==
    ASSUME NEW s, NEW back, Phased(s, back), NEW n, Whole(n), Keeps(s, n),
           n.passed = s.passed, n.sp = s.sp, n.state = s.state,
           \A sp \in Sp : n.tra[sp] = {"GOT", "SENT"}
    PROVE  Phased(n, back)
<1>1. /\ PhaseField \subseteq DOMAIN n
      /\ n.timer = s.timer /\ n.sent = s.sent /\ n.inhibit = s.inhibit
      /\ n.changeover = s.changeover /\ n.orphan = s.orphan
  BY DEF Keeps, PhaseField
<1>2. Laid(n) BY <1>1 DEF Phased, Firm, Laid, PhaseField
<1>3. Linked(n) /\ Up(n) BY DEF Phased, Firm, Linked, Reachable, PassedLinks, Up
<1>4. "changeover" \in DOMAIN n BY <1>1 DEF PhaseField
<1>q. QED BY <1>1, <1>2, <1>3, <1>4, FieldsPhased

LEMMA ApplicationPhased ==
    ASSUME NEW s, NEW back, Phased(s, back), NEW i \in Link, NEW sp \in Sp
    PROVE  /\ Phased(NoAlarm(s, i), back)
           /\ \A msg : msg \notin {"COO", "ECO", "CBD"} => Phased(NetMngCommand(s, i, msg), back)
           /\ \A e : Phased(PostEvent(s, e), back)
           /\ Phased(T21Expired(s, sp), back) /\ Phased(LinksetUpExpired(s), back)
<1>1. Firm(s) /\ Whole(s) /\ PhaseField \subseteq DOMAIN s /\ Up(s)
  BY DEF Phased, Firm, Laid, Whole, Core, PhaseField
<1>2. \A q \in Sp : s.tra[q] = {"GOT", "SENT"} BY <1>1 DEF Up
<1>3. Phased(NoAlarm(s, i), back)
  <2> DEFINE n == NoAlarm(s, i)
  <2>1. /\ Whole(n) /\ PhaseField \subseteq DOMAIN n
        /\ n.passed = s.passed /\ n.sp = s.sp /\ n.state = s.state /\ n.tra = s.tra
        /\ n.timer = s.timer /\ n.sent = s.sent /\ n.inhibit = s.inhibit
        /\ n.changeover = s.changeover /\ n.orphan = s.orphan
    BY <1>1 DEF NoAlarm, PhaseField, Whole, Core
  <2> HIDE DEF n
  <2>2. Keeps(s, n) BY <2>1 DEF Keeps, PhaseField
  <2>q. QED BY <1>2, <2>1, <2>2, KeepsPhased DEF n
<1>4. Phased(NetMngSend(s, i, "TRA"), back)
  <2> DEFINE n == NoteSent(s, i, "TRA")
  <2>1. /\ Whole(n) /\ Keeps(s, n) /\ n.passed = s.passed /\ n.sp = s.sp /\ n.state = s.state
        /\ n.tra = [s.tra EXCEPT ![AdjSp[i]] = @ \cup {"SENT"}]
    BY <1>1 DEF NoteSent, SentMsg, Keeps, PhaseField, Whole, Core
  <2> HIDE DEF n
  <2>2. \A q \in Sp : n.tra[q] = {"GOT", "SENT"}
    <3>1. \A q \in Sp : n.tra[q] \in {s.tra[q], s.tra[q] \cup {"SENT"}} BY <2>1
    <3>q. QED BY <1>2, <3>1
  <2>3. Phased(n, back) BY <2>1, <2>2, KeepsPhased
  <2>4. Spares(n, HandOver(n, i, "TRA")) BY <2>3, HandOverSpares DEF Phased
  <2>q. QED BY <2>3, <2>4, SparesPhased DEF NetMngSend, n
<1>5. ASSUME NEW msg, msg \notin {"COO", "ECO", "CBD"} PROVE Phased(NetMngCommand(s, i, msg), back)
  <2>1. msg # "TRA" => Spares(s, NetMngSend(s, i, msg)) BY <1>1, <1>5, SendSpares
  <2>q. QED BY <1>4, <2>1, SparesPhased DEF NetMngCommand
<1>6. \A n, e : Phased(n, back) => Phased(PostEvent(n, e), back)
  <2> SUFFICES ASSUME NEW n, NEW e, Phased(n, back) PROVE Phased(PostEvent(n, e), back)
    OBVIOUS
  <2>1. Whole(n) /\ PhaseField \subseteq DOMAIN n /\ \A q \in Sp : n.tra[q] = {"GOT", "SENT"}
    BY DEF Phased, Firm, Up, Laid, Whole, Core, PhaseField
  <2>q. QED BY <2>1, KeepsPhased DEF PostEvent, Keeps, PhaseField, Whole, Core
<1>7. Phased(T21Expired(s, sp), back)
  <2> DEFINE n == [s EXCEPT !.t21[sp] = FALSE, !.tra[sp] = @ \cup {"GOT"}]
  <2>1. /\ Whole(n) /\ Keeps(s, n) /\ n.passed = s.passed /\ n.sp = s.sp /\ n.state = s.state
        /\ n.tra = [s.tra EXCEPT ![sp] = @ \cup {"GOT"}]
    BY <1>1 DEF Keeps, PhaseField, Whole, Core
  <2>2. T21Expired(s, sp) = Check(n, sp) BY DEF T21Expired
  <2> HIDE DEF n
  <2>3. \A q \in Sp : n.tra[q] = {"GOT", "SENT"}
    <3>1. \A q \in Sp : n.tra[q] \in {s.tra[q], s.tra[q] \cup {"GOT"}} BY <2>1
    <3>q. QED BY <1>2, <3>1
  <2>4. Phased(n, back) BY <2>1, <2>3, KeepsPhased
  <2>q. QED BY <2>2, <2>4, CheckIdle DEF Phased
<1>8. Phased(LinksetUpExpired(s), back)
  <2> DEFINE n == [s EXCEPT !.linkset_up = FALSE]
  <2>1. Phased(n, back) BY <1>1, <1>2, KeepsPhased DEF Keeps, PhaseField, Whole, Core
  <2>q. QED BY <1>6, <2>1 DEF LinksetUpExpired
<1>q. QED BY <1>3, <1>5, <1>6, <1>7, <1>8

LEMMA ProcessEventPhased ==
    ASSUME NEW s, NEW back, Phased(s, back), NEW e \in LinkEvent \cup AppEvent
    PROVE  Phasing(ProcessEvent(s, e), back)
<1>1. e.e \in {"LINK_UP", "LINK_DOWN"} => e.link \in Link BY DEF LinkEvent, AppEvent
<1>2. e.e = "LINK_UP" => Spares(s, EventLinkUp(s, e.link)) BY <1>1, TestSendSpares DEF Phased
<1>3. e.e = "LINK_DOWN" => Phasing(EventLinkDown(s, e.link), back) BY <1>1, FailurePhased
<1>q. QED BY <1>2, <1>3, PhasedPhasing DEF ProcessEvent

\* Neither the peers nor the application begin a changeover; and where a link may
\* pass a test again, so that this end begins a changeback, the peer begins none
\* and nobody takes an inhibition back, which begins one as well.
Restrained == \A t \in Topic :
    /\ "COO" \notin PeerSends[t]
    /\ {"COO", "ECO", "CBD"} \cap Commands[t] = {}
    /\ "SLTA" \in PeerSends[t] => {"CBD", "LUN", "LUA"} \cap PeerSends[t] = {}

Back == "SLTA" \in PeerSends[topic]

PhaseInv == Phased(ss7, Back)

LEMMA BecomesPhased ==
    ASSUME NEW n, Becomes(n), Phasing(n, Back), Reached', topic' = topic
    PROVE  PhaseInv'
<1> DEFINE m == [n EXCEPT !.out = <<>>]
           b == Back
<1>1. ss7' = m /\ Back' = b BY DEF Becomes, Back
<1>2. Same(n, m) BY DEF Same, Whole, Core, Phasing
<1>3. Linked(m) BY <1>1 DEF Reached
<1>4. Phased(n, b) BY <1>2, <1>3, SameLinked DEF Phasing
<1> HIDE DEF b
<1>5. \A v : Spares(n, [n EXCEPT !.out = v])
  <2>1. 0 \in Link BY NumLinksAssumption DEF Link
  <2>q. QED BY <1>4, <2>1, FieldsSpare DEF Phased
<1>6. Phased(m, b) BY <1>4, <1>5, SparesPhased
<1>q. QED BY <1>1, <1>6 DEF PhaseInv

LEMMA InitPhased ==
    ASSUME Init, Undisturbed, Reached
    PROVE  PhaseInv
<1>1. StartsUp[topic] BY DEF Init, Undisturbed
<1>2. Laid(ss7) /\ Up(ss7) /\ Linked(ss7) BY InitCalm DEF CalmInv, Calm
<1>3. /\ "changeover" \in DOMAIN ss7 /\ ss7.changeover = [i \in Link |-> "NO_CHANGEOVER"]
      /\ ss7.inhibit = [i \in Link |-> {}] /\ ss7.orphan = {}
      /\ \A i \in Link, t \in LinkTimer : t # "q707_t2" => ss7.timer[i][t] = "off"
  BY DEF Init
<1>4. "NO_CHANGEOVER" \in Changeover BY DEF Changeover
<1>5. Firm(ss7) BY <1>2, <1>3, <1>4 DEF Firm
<1>6. \A i \in Link, t \in PhaseTimer : ss7.timer[i][t] = "off" BY <1>3, PhaseTimers
<1>7. ASSUME NEW i \in Link PROVE InPhase(ss7, i, Back)
  <2>1. /\ ss7.timer[i]["t1"] = "off" /\ ss7.timer[i]["t2"] = "off"
        /\ ss7.timer[i]["t3"] = "off" /\ ss7.timer[i]["t4"] = "off"
        /\ ss7.timer[i]["t5"] = "off"
    BY <1>6, PhaseTimers
  <2>2. InTime(ss7, i) BY <1>3, <1>6, <2>1 DEF InTime
  <2>q. QED BY <1>3, <2>2 DEF InPhase
<1>q. QED BY <1>3, <1>5, <1>7 DEF PhaseInv, Phased, Strays


LEMMA LinkStepPhased ==
    ASSUME PhaseInv, Reached', Undisturbed, Restrained, topic \in Topic, topic' = topic,
           NEW i \in Link
    PROVE  /\ Write(i) \/ WriteSio(i) \/ Acknowledge(i) => PhaseInv'
           /\ GoIn(i) \/ GoOut(i) \/ RaiseAlarm(i) \/ ClearAlarm(i) => PhaseInv'
           /\ ReceiveTest(i) \/ ReceiveRoute(i) \/ Command(i) => PhaseInv'
           /\ ReceiveNetMng(i) => PhaseInv'
           /\ \A t \in LinkTimer : Expire(i, t) => PhaseInv'
<1> DEFINE b == Back
<1>1. AdjSp[i] \in Sp BY DestAssumption
<1>2. Phased(ss7, b) /\ Back' = b BY DEF PhaseInv, Back
<1>3. /\ Firm(ss7) /\ Whole(ss7) /\ PhaseField \subseteq DOMAIN ss7
      /\ \A q \in Sp : ss7.tra[q] = {"GOT", "SENT"}
  BY <1>2 DEF Phased, Firm, Up, Laid, Whole, Core, PhaseField
<1>4. \A n : Phased(n, b) => Phasing(n, b) BY PhasedPhasing
<1>5. \A n : Becomes(n) /\ Phasing(n, b) => PhaseInv' BY BecomesPhased
<1>6. /\ {"TRA", "COO"} \cap PeerSends[topic] = {}
      /\ {"COO", "ECO", "CBD"} \cap Commands[topic] = {}
      /\ b => {"CBD", "LUN", "LUA"} \cap PeerSends[topic] = {}
  BY DEF Undisturbed, Restrained, Back
<1>7. b = ("SLTA" \in PeerSends[topic]) BY DEF Back
<1> HIDE DEF b
<1>8. \A n : Phased(n, b) /\ ss7' = n => PhaseInv' BY <1>2 DEF PhaseInv
<1>9. ASSUME Write(i) \/ WriteSio(i) \/ Acknowledge(i) PROVE PhaseInv'
  <2>1. /\ Whole(ss7') /\ Keeps(ss7, ss7')
        /\ ss7'.passed = ss7.passed /\ ss7'.sp = ss7.sp /\ ss7'.state = ss7.state
        /\ ss7'.tra = ss7.tra
    BY <1>3, <1>9 DEF Write, WriteSio, Acknowledge, Keeps, PhaseField, Whole, Core
  <2>2. Phased(ss7', b) BY <1>2, <1>3, <2>1, KeepsPhased
  <2>q. QED BY <1>8, <2>2
<1>10. ASSUME GoIn(i) \/ GoOut(i) PROVE PhaseInv'
  <2>1. PICK e : ss7' = PostEvent(ss7, e) BY <1>10 DEF GoIn, GoOut
  <2>2. Phased(PostEvent(ss7, e), b) BY <1>1, <1>2, ApplicationPhased
  <2>q. QED BY <1>8, <2>1, <2>2
<1>11. ASSUME RaiseAlarm(i) PROVE PhaseInv'
  BY <1>2, <1>5, <1>11, FailurePhased DEF RaiseAlarm
<1>12. ASSUME ClearAlarm(i) PROVE PhaseInv'
  BY <1>1, <1>2, <1>4, <1>5, <1>12, ApplicationPhased DEF ClearAlarm
<1>13. ASSUME ReceiveTest(i) PROVE PhaseInv'
  <2>1. Phasing(RxSltm(ss7, i), b) /\ (b => Phasing(RxSlta(ss7, i), b))
    BY <1>2, <1>4, RxTestPhased
  <2>2. Phasing(RxSltaMismatch(ss7, i), b) BY <1>2, FailurePhased
  <2>q. QED BY <1>5, <1>7, <1>13, <2>1, <2>2 DEF ReceiveTest
<1>14. ASSUME ReceiveRoute(i) PROVE PhaseInv'
  BY <1>1, <1>2, <1>4, <1>5, <1>14, RoutePhased DEF ReceiveRoute
<1>15. ASSUME Command(i) PROVE PhaseInv'
  <2>1. PICK msg \in Commands[topic] : Becomes(NetMngCommand(ss7, i, msg)) BY <1>15 DEF Command
  <2>2. msg \notin {"COO", "ECO", "CBD"} BY <1>6, <2>1
  <2>3. Phased(NetMngCommand(ss7, i, msg), b) BY <1>1, <1>2, <2>2, ApplicationPhased
  <2>q. QED BY <1>4, <1>5, <2>1, <2>3
<1>16. ASSUME ReceiveNetMng(i) PROVE PhaseInv'
  <2>1. PICK msg \in PeerSends[topic] : \E acked : Becomes(NetMngReceive(ss7, i, msg, acked))
    BY <1>16 DEF ReceiveNetMng
  <2>2. PICK acked : Becomes(NetMngReceive(ss7, i, msg, acked)) BY <2>1
  <2>3. msg \notin {"TRA", "COO"} /\ (b => msg \notin {"CBD", "LUN", "LUA"})
    BY <1>6, <2>1
  <2>4. Phased(NetMngReceive(ss7, i, msg, acked), b) BY <1>2, <2>3, NetMngReceivePhased
  <2>q. QED BY <1>4, <1>5, <2>2, <2>4
<1>17. ASSUME NEW t \in LinkTimer, Expire(i, t) PROVE PhaseInv'
  BY <1>2, <1>5, <1>17, ExpirePhased DEF Expire
<1>q. QED BY <1>9, <1>10, <1>11, <1>12, <1>13, <1>14, <1>15, <1>16, <1>17

LEMMA NextPhased ==
    ASSUME IInv, PhaseInv, Undisturbed, Restrained, Reached', [Next]_vars
    PROVE  PhaseInv'
<1> DEFINE b == Back
<1>1. topic \in Topic /\ topic' = topic BY TopicStays DEF IInv
<1>2. Phased(ss7, b) /\ Back' = b BY <1>1 DEF PhaseInv, Back
<1>3. /\ Firm(ss7) /\ Whole(ss7) /\ PhaseField \subseteq DOMAIN ss7
      /\ \A q \in Sp : ss7.tra[q] = {"GOT", "SENT"}
  BY <1>2 DEF Phased, Firm, Up, Laid, Whole, Core, PhaseField
<1>4. \A n : Phased(n, b) => Phasing(n, b) BY PhasedPhasing
<1>5. \A n : Becomes(n) /\ Phasing(n, b) => PhaseInv' BY <1>1, BecomesPhased
<1>6. ~Restarts[topic] BY <1>1 DEF Undisturbed
<1> HIDE DEF b
<1>7. \A n : Phased(n, b) /\ ss7' = n => PhaseInv' BY <1>2 DEF PhaseInv
<1>8. Typed(ss7) BY DEF IInv, Good, Sound
<1>9. 0 \in Link BY NumLinksAssumption DEF Link
<1>10. CASE CheckEvent
  <2> DEFINE n == [ss7 EXCEPT !.ev = Tail(@)]
             e == Head(ss7.ev)
  <2>1. e \in LinkEvent \cup AppEvent
    <3>1. ss7.ev # <<>> /\ ss7.ev \in Seq(LinkEvent \cup AppEvent)
      BY <1>8, <1>10 DEF CheckEvent, Typed
    <3>q. QED BY <3>1, HeadTailProperties
  <2>2. Becomes(ProcessEvent(n, e)) BY <1>10 DEF CheckEvent
  <2>3. /\ Whole(n) /\ Keeps(ss7, n) /\ n.passed = ss7.passed /\ n.sp = ss7.sp
        /\ n.state = ss7.state /\ n.tra = ss7.tra
    BY <1>3 DEF Keeps, PhaseField, Whole, Core
  <2> HIDE DEF n, e
  <2>4. Phased(n, b) BY <1>2, <1>3, <2>3, KeepsPhased
  <2>5. Phasing(ProcessEvent(n, e), b) BY <2>1, <2>4, ProcessEventPhased
  <2>q. QED BY <1>5, <2>2, <2>5
<1>11. ASSUME NEW m \in Msg, Give(m) PROVE PhaseInv'
  <2>1. Spares(ss7, Transmit(ss7, <<m>>)) BY <1>3, <1>9, FieldsSpare
  <2>2. Phased(Transmit(ss7, <<m>>), b) BY <1>2, <2>1, SparesPhased
  <2>q. QED BY <1>4, <1>5, <1>11, <2>2 DEF Give
<1>12. CASE ExpireOrphan
  <2>1. PICK o \in ss7.orphan :
            Becomes(Expired([ss7 EXCEPT !.orphan = @ \ {o}], o[1], o[2], o[3]))
    BY <1>12 DEF ExpireOrphan
  <2> DEFINE n == [ss7 EXCEPT !.orphan = @ \ {o}]
  <2>2. o[1] \in Link /\ o[2] \in LinkTimer \ PhaseTimer /\ o[3] \in Callback
    <3>1. o[1] \in Link /\ o[2] \in LinkTimer /\ o[3] \in Callback BY <1>8 DEF Typed, Slots
    <3>2. o \notin Strays(ss7) BY <1>2 DEF Phased
    <3>q. QED BY <3>1, <3>2 DEF Strays
  <2>3. /\ Laid(n) /\ Linked(n) /\ Up(n) /\ "changeover" \in DOMAIN n
        /\ n.changeover = ss7.changeover /\ n.inhibit = ss7.inhibit /\ n.timer = ss7.timer
        /\ n.orphan \subseteq ss7.orphan
    BY <1>3 DEF Firm, Laid, Whole, Core, Linked, Reachable, PassedLinks, Up
  <2>4. Becomes(Expired(n, o[1], o[2], o[3])) BY <2>1
  <2> HIDE DEF n
  <2>5. Phased(n, b) BY <1>2, <2>3, FieldsPhased
  <2>6. Phasing(Expired(n, o[1], o[2], o[3]), b) BY <2>2, <2>5, OtherTimerPhased
  <2>q. QED BY <1>5, <2>4, <2>6
<1>13. ASSUME NEW sp \in Sp, ExpireT19(sp) \/ ExpireT21(sp) PROVE PhaseInv'
  <2>1. CASE ExpireT19(sp)
    <3>1. /\ Whole(ss7') /\ Keeps(ss7, ss7')
          /\ ss7'.passed = ss7.passed /\ ss7'.sp = ss7.sp /\ ss7'.state = ss7.state
          /\ ss7'.tra = ss7.tra
      BY <1>3, <2>1 DEF ExpireT19, Keeps, PhaseField, Whole, Core
    <3>2. Phased(ss7', b) BY <1>2, <1>3, <3>1, KeepsPhased
    <3>q. QED BY <1>7, <3>2
  <2>2. CASE ExpireT21(sp)
    BY <1>2, <1>4, <1>5, <1>9, <2>2, ApplicationPhased DEF ExpireT21
  <2>q. QED BY <1>13, <2>1, <2>2
<1>14. ASSUME NEW sp \in Sp, NEW d \in Dest, ExpireT6(sp, d) \/ ExpireT10(sp, d)
       PROVE  PhaseInv'
  BY <1>2, <1>4, <1>5, <1>14, RoutePhased DEF ExpireT6, ExpireT10
<1>15. CASE ExpireLinksetUp
  <2>1. AdjSp[0] \in Sp BY <1>9, DestAssumption
  <2>2. Phased(LinksetUpExpired(ss7), b) BY <1>2, <1>9, <2>1, ApplicationPhased
  <2>q. QED BY <1>4, <1>5, <1>15, <2>2 DEF ExpireLinksetUp
<1>16. CASE UNCHANGED vars BY <1>2, <1>7, <1>16 DEF vars
<1>17. ASSUME NEW i \in Link,
              \/ Write(i) \/ WriteSio(i) \/ Acknowledge(i) \/ GoIn(i) \/ GoOut(i)
              \/ RaiseAlarm(i) \/ ClearAlarm(i)
              \/ ReceiveTest(i) \/ ReceiveNetMng(i) \/ ReceiveRoute(i) \/ Command(i)
              \/ \E t \in LinkTimer : Expire(i, t)
       PROVE  PhaseInv'
  BY <1>1, <1>17, LinkStepPhased
<1>18. ~RestartTraffic BY <1>6 DEF RestartTraffic
<1>q. QED BY <1>10, <1>11, <1>12, <1>13, <1>14, <1>15, <1>16, <1>17, <1>18 DEF Next

\* As long as every adjacent SP keeps a link that has passed its test, and the
\* peers leave changeovers and changebacks to this end (Restrained), no link
\* fails, is inhibited or comes back in a way that loses a timer of its
\* changeover or its changeback: each of T1 to T5 can be stopped, none is started
\* over while it runs, and no variable names a slot that has been freed
\* (net_mng_send, mtp3.c:817; mtp3_timed_changeover and mtp3_changeback; the
\* functions mtp3_t1_expired to mtp3_t5_expired).
THEOREM TimersNotLost ==
    ASSUME Undisturbed, Restrained
    PROVE  Spec /\ []Reached => []TimersOwned
<1>1. Init /\ Reached => PhaseInv BY InitPhased
<1>2. IInv /\ PhaseInv /\ Reached' /\ [Next]_vars => PhaseInv' BY NextPhased
<1>3. PhaseInv => TimersOwned
  <2> SUFFICES ASSUME PhaseInv PROVE TimersOwned OBVIOUS
  <2>1. {"t1", "t2", "t3", "t4", "t5"} = PhaseTimer BY DEF PhaseTimer
  <2>2. \A o \in ss7.orphan : o[2] \notin PhaseTimer BY DEF PhaseInv, Phased, Strays
  <2>3. \A i \in Link, t \in PhaseTimer : ss7.timer[i][t] # "stale"
    BY DEF PhaseInv, Phased, InPhase, InTime
  <2>q. QED BY <2>1, <2>2, <2>3 DEF TimersOwned
<1>q. QED BY <1>1, <1>2, <1>3, InvariantHolds, PTL DEF Spec

\* Under the same conditions a changeback is timed by T3 exactly while it is under
\* way, and by T4 or T5 exactly until the peer has agreed to it: whatever fails
\* meanwhile, no timer of a changeback goes on when it is over or cancelled, and
\* none is left without (mtp3_cancel_changeback, the CBA in net_mng_receive,
\* mtp3_t3_expired, mtp3_t4_expired, mtp3_t5_expired).
THEOREM ChangebacksTimed ==
    ASSUME Undisturbed, Restrained, {"t4", "t5"} \subseteq Configured
    PROVE  Spec /\ []Reached => []ChangebackTimed
<1>1. Init /\ Reached => PhaseInv BY InitPhased
<1>2. IInv /\ PhaseInv /\ Reached' /\ [Next]_vars => PhaseInv' BY NextPhased
<1>3. PhaseInv => ChangebackTimed BY DEF PhaseInv, Phased, InPhase, InTime, ChangebackTimed
<1>q. QED BY <1>1, <1>2, <1>3, InvariantHolds, PTL DEF Spec

\* Under the same conditions a link that either end has inhibited is not given
\* user messages: its traffic has been diverted, and nothing but the end of the
\* inhibition begins a changeback (mtp3_changeback, mtp3.c:952; link_available,
\* mtp3.c:186; std_test_receive).
THEOREM InhibitedGetNothing ==
    ASSUME Undisturbed, Restrained
    PROVE  Spec /\ []Reached => []InhibitedUnused
<1>1. Init /\ Reached => PhaseInv BY InitPhased
<1>2. IInv /\ PhaseInv /\ Reached' /\ [Next]_vars => PhaseInv' BY NextPhased
<1>3. PhaseInv => InhibitedUnused
  <2> SUFFICES ASSUME PhaseInv, NEW i \in Link, ss7.inhibit[i] # {}, Usable(ss7, i)
               PROVE  CoCbBuffer(ss7, i) # "tx_q"
    BY DEF InhibitedUnused
  <2>1. Diverted(ss7, i) BY DEF PhaseInv, Phased, InPhase
  <2>2. ss7.changeover[i] \in {"CHANGEOVER_IN_PROGRESS", "CHANGEOVER_INITIATED"}
    BY <2>1 DEF Diverted, Usable
  <2>3. CoCbBuffer(ss7, i) = "co_buf" BY <2>2 DEF CoCbBuffer
  <2>q. QED BY <2>3
<1>q. QED BY <1>1, <1>2, <1>3, InvariantHolds, PTL DEF Spec

===============================================================================
