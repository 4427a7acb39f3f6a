------------------------------- MODULE IsupPair -------------------------------
(***************************************************************************)
(* One circuit and both of its ends: the library at either end, the two    *)
(* applications, and the messages between them as octets.  The main loop   *)
(* of an application takes every event from the queue before it reads the  *)
(* next message; its other calls (dialling, answering, hanging up) come    *)
(* from other threads at any time.                                         *)
(*                                                                         *)
(* The applications are not part of the library: they are as libss7.h and  *)
(* the events want them to be.                                             *)
(***************************************************************************)
EXTENDS Isup, IsupCodec, Sequences, TLC
LOCAL INSTANCE SequencesExt
LOCAL INSTANCE FiniteSetsExt

CONSTANTS End, PointCode, CIC,  \* the two ends and the circuit
          Topic,                \* what the two ends are busy with
          Switch,               \* the kind of network, by topic
          Dials, Groups,        \* by topic and end: what an application may set for a call,
                                \* and which groups of circuits it may block or reset
          Answers,              \* by topic: what the answering application may set
          During,               \* by topic: what it may send meanwhile
          Cause,                \* by end: the cause of its releases
          MaxLost,              \* by topic: how many messages may get lost
          MaxHurry,             \* and how many timers may run out before an answer
                                \* on its way has come
          MaxCalls              \* and how many calls and requests are made

ASSUME EndAssumption == \E x, y \in End : x # y /\ End = {x, y}
ASSUME PointCodeAssumption ==
    PointCode \in [End -> Nat] /\ \A x, y \in End : PointCode[x] = PointCode[y] => x = y
ASSUME SwitchAssumption == Switch \in [Topic -> SwitchType]

VARIABLES call,     \* at each end the call on the circuit,
          data,     \* its parameters,
          event,    \* the event in the queue,
          app,      \* what the application uses the circuit for,
          said,     \* what it said last in a message of each kind
          line,     \* the messages on their way to an end
          topic,
          spent     \* the losses, early timers and calls so far

vars == <<call, data, event, app, said, line, topic, spent>>

NoEvent == [kind |-> "none"]
NoWords == <<>>
Words(w, k) == IF k \in DOMAIN w THEN w[k] ELSE NoWords
Other(e) == CHOOSE x \in End : x # e
sw == Switch[topic]

Init ==
    /\ topic \in Topic
    /\ call = [e \in End |-> NoCall] /\ data = [e \in End |-> NewParms]
    /\ event = [e \in End |-> NoEvent] /\ app = [e \in End |-> "idle"]
    /\ said = [e \in End |-> NoWords] /\ line = [e \in End |-> <<>>]
    /\ spent = [lost |-> 0, hurry |-> 0, calls |-> 0]

-------------------------------------------------------------------------------
(* The ends of a step. *)

HasCalling(d) == d.calling.num # <<>> \/ d.calling.pres = NotAvailable

\* The surroundings of a call: there is always room for the event and a way for
\* the message.
Around(e, d) ==
    [room |-> TRUE, sent |-> TRUE, cic |-> IF app[e] = "idle" THEN "IDLE" ELSE "USED",
     calling |-> HasCalling(d), complete |-> \E i \in DOMAIN d.called.num : d.called.num[i] = 15]

MyCircuit(e) == Controls(PointCode[e], PointCode[Other(e)], CIC)

Out(c) == IF c = NoCall THEN {} ELSE c.out

\* isup_cgb, isup_cgu, isup_cgba and the others for a group: the first states
\* of the status are overwritten.
GroupSet(d, g) ==
    [d EXCEPT !.range = g.endcic - CIC,
              !.status = {x \in @ : x > g.endcic - CIC} \cup g.status]

\* isup_rel
CauseSet(d, cause) == [d EXCEPT !.cause = [cause |-> cause, code |-> 0, loc |-> CauseLocation]]

\* What the library itself puts into a message, now or when it is repeated.
Ready(d, kind) ==
    CASE kind = "CGB" -> [GroupSet(d, d.sent_cgb) EXCEPT !.type = d.sent_cgb.type]
      [] kind = "CGU" -> [GroupSet(d, d.sent_cgu) EXCEPT !.type = d.sent_cgu.type]
      [] kind = "GRS" -> [d EXCEPT !.range = d.sent_grs - CIC]
      [] kind = "INR" -> [d EXCEPT !.inr = <<1, 0>>]
      [] kind = "INF" -> [d EXCEPT !.inf = IF d.calling.num = <<>> THEN <<33, 0>> ELSE <<35, 0>>]
      [] OTHER -> d

\* Where one step sends two messages, the group reset is the second.
InOrder(out) == IF out = {"CGU", "GRS"} THEN <<"CGU", "GRS">> ELSE SetToSeq(out)

\* End e is left with call c and its parameters d when it has sent the messages
\* of out; queue is the line without them.
Leaves(e, c, d, words, out, queue) ==
    LET sent(k) == [kind |-> k, body |-> Encode(k, Ready(d, k), sw),
                    said |-> Words(words, IF k = "INF" THEN "IAM" ELSE k)]
        order   == InOrder(out)
    IN  /\ call' = [call EXCEPT ![e] = IF c = NoCall THEN c ELSE [c EXCEPT !.out = {}]]
        /\ data' = [data EXCEPT ![e] = IF c = NoCall THEN NewParms
                                       ELSE FoldLeft(Ready, d, order)]
        /\ said' = [said EXCEPT ![e] = IF c = NoCall THEN NoWords ELSE words]
        /\ line' = [queue EXCEPT ![Other(e)] = @ \o [i \in DOMAIN order |-> sent(order[i])]]

-------------------------------------------------------------------------------
(* Receiving. *)

\* What a message means for the call (Message of Isup), its parameters being in d.
Meaning(kind, d) ==
    LET answers(g) == d.range = g.endcic - CIC /\ d.type = g.type
                      /\ {x \in d.status : x <= d.range} \subseteq g.status
    IN  [kind |-> kind, cot |-> d.cot \ {"passed"},
         yes |-> CASE kind = "COT" -> "passed" \in d.cot
                   [] kind = "INF" -> d.inf[1] < 128
                   [] kind \in {"SUS", "RES"} -> d.network # 0
                   [] kind = "GRA" -> d.range = d.sent_grs - CIC
                   [] kind = "CGBA" -> answers(d.sent_cgb)
                   [] kind = "CGUA" -> answers(d.sent_cgu)
                   [] OTHER -> FALSE]

\* Whether isup_event_iam reports the call.
IamReported(c, d) ==
    ~ Has(c, {"SENT_IAM", "PENDING_IAM"}) /\ ~ (AskCalling /\ ~ HasCalling(d))

\* The event of a message: "none", "IAM" for the INF that completes one, ...
EventOf(c, m, d) ==
    CASE m.kind \in {"IAM", "INF"} ->
             IF /\ m.kind = "INF" => IsExpected(c, m) /\ m.yes
                /\ IamReported(c, d)
             THEN "IAM" ELSE "none"
      [] \/ IsIgnored(c, m) \/ ~ IsExpected(c, m)
         \/ m.kind \in {"INR", "CQR"} \cup Unhandled
         \/ m.kind = "RSC" /\ Has(c, {"SENT_RSC"}) -> "none"
      [] OTHER -> m.kind

Event(kind, d, words) ==
    IF kind = "none" THEN NoEvent ELSE [kind |-> kind, told |-> Told(kind, d), said |-> words]

\* What the rest of isup_receive does to the parameters.
Reacted(d, kind, out) ==
    CASE kind = "IAM" -> [d EXCEPT !.cot = @ \ {"passed"}]
      [] kind # "IAM" /\ "REL" \in out -> CauseSet(d, 16)
      [] OTHER -> d

ReceiveMessage(e) ==
    /\ line[e] # <<>> /\ event[e] = NoEvent
    /\ LET in  == Head(line[e])
           old == IF call[e] = NoCall THEN NewCall ELSE call[e]
           d   == Decode(data[e], in.kind, sw, in.body)
           m   == Meaning(in.kind, d)
           c   == Receive(call[e], m, MyCircuit(e), Around(e, d))
           k   == EventOf(old, m, d)
       IN  /\ Leaves(e, c, Reacted(d, k, Out(c)), said[e], Out(c), [line EXCEPT ![e] = Tail(@)])
           /\ event' = [event EXCEPT ![e] = Event(k, d, in.said)]
    /\ UNCHANGED <<app, topic, spent>>

Lose(e) ==
    /\ line[e] # <<>> /\ spent.lost < MaxLost[topic]
    /\ line' = [line EXCEPT ![e] = Tail(@)]
    /\ spent' = [spent EXCEPT !.lost = @ + 1]
    /\ UNCHANGED <<call, data, event, app, said, topic>>

\* Nothing is on its way, and both applications have done what they were asked to.
AllQuiet ==
    \A e \in End : /\ line[e] = <<>> /\ event[e] = NoEvent
                   /\ call[e] # NoCall => call[e].asked = {}

\* A timer is longer than an answer takes, but for a few that are not.
Expire(e, t) ==
    /\ call[e] # NoCall /\ t \in call[e].timer /\ event[e] = NoEvent
    /\ IF AllQuiet THEN UNCHANGED spent
       ELSE /\ spent.hurry < MaxHurry[topic]
            /\ spent' = [spent EXCEPT !.hurry = @ + 1]
    /\ LET c == Expired(call[e], t, Around(e, data[e]))
       IN  Leaves(e, c, data[e], said[e], Out(c), line)
    /\ UNCHANGED <<event, app, topic>>

-------------------------------------------------------------------------------
(* The applications. *)

Becomes(e, use) == app' = [app EXCEPT ![e] = use]

\* The application sends a message of kind k and says s in it; with c and d being
\* the call and the parameters then.
Says(e, k, s, c, d) == Leaves(e, c, d, (k :> s) @@ said[e], Out(c), line)

\* isup_new_call
Seize(e) ==
    /\ Dials[topic][e] # {}
    /\ app[e] = "idle" /\ call[e] = NoCall /\ event[e] = NoEvent
    /\ spent.calls < MaxCalls[topic]
    /\ spent' = [spent EXCEPT !.calls = @ + 1]
    /\ call' = [call EXCEPT ![e] = Mark(NewCall, {"PENDING_IAM"})]
    /\ Becomes(e, "out")
    /\ UNCHANGED <<data, event, said, line, topic>>

\* The isup_set_... functions and isup_iam
Dial(e) ==
    /\ app[e] = "out" /\ event[e] = NoEvent
    /\ "PENDING_IAM" \in call[e].flags /\ ~ Has(call[e], {"GOT_IAM"})
    /\ \E want \in Dials[topic][e] :
           Says(e, "IAM", want, Iam(call[e], Around(e, data[e])), Prepare(data[e], want, sw))
    /\ UNCHANGED <<event, app, topic, spent>>

AnsweredWith(c, k, e) ==
    CASE k = "ACM" -> Acm(c, e) [] k = "ANM" -> Anm(c, e) [] k = "CON" -> Con(c, e)

\* isup_acm, then isup_anm, or isup_con at once
AnswerCall(e) ==
    /\ app[e] \in {"in", "alerting"} /\ event[e] = NoEvent
    /\ \E k \in (IF app[e] = "in" THEN {"ACM", "CON"} ELSE {"ANM"}), want \in Answers[topic] :
           /\ Says(e, k, want @@ Words(said[e], "ACM"), AnsweredWith(call[e], k, Around(e, data[e])),
                   Prepare(data[e], want, sw))
           /\ Becomes(e, IF k = "ACM" THEN "alerting" ELSE "talking")
    /\ UNCHANGED <<event, topic, spent>>

\* isup_cpg while it rings; isup_sus, isup_res and isup_faa in a call
Tell(e) ==
    /\ AllQuiet
    /\ \E k \in DOMAIN During[topic] :
           /\ app[e] = IF k = "CPG" THEN "alerting" ELSE "talking"
           /\ \E s \in During[topic][k] :
                  Says(e, k, s, IF k = "CPG" THEN Cpg(call[e], Around(e, data[e]))
                                ELSE Plain(call[e], k, Around(e, data[e])),
                       Prepare(data[e], s, sw))
    /\ UNCHANGED <<event, app, topic, spent>>

\* isup_rel with a cause of its own at each end
Release(e) ==
    /\ Says(e, "REL", [cause |-> Cause[e]], Rel([call[e] EXCEPT !.asked = @ \ {"SEND_REL"}],
                                    Around(e, data[e])),
            CauseSet(data[e], Cause[e]))
    /\ Becomes(e, "releasing")
    /\ UNCHANGED <<event, topic, spent>>

HangUp(e) ==
    /\ event[e] = NoEvent
    /\ \/ app[e] = "out" /\ Has(call[e], {"SENT_IAM"})
       \/ app[e] \in {"in", "alerting", "talking"}
    /\ call[e].asked = {}
    /\ Release(e)

\* What ss7_hangup told the application to do: it gives up its call, resets the
\* circuit, or gives way to the incoming call.
Obey(e) ==
    /\ event[e] = NoEvent /\ call[e] # NoCall
    /\ \/ "SEND_REL" \in call[e].asked /\ Release(e)
       \/ /\ "SEND_RSC" \in call[e].asked
          /\ LET c == Rsc([call[e] EXCEPT !.asked = @ \ {"SEND_RSC"}], Around(e, data[e]))
             IN  Leaves(e, c, data[e], said[e], Out(c), line)
          /\ Becomes(e, "releasing")
          /\ UNCHANGED <<event, topic, spent>>
       \/ /\ "REEVENT_IAM" \in call[e].asked
          /\ LET given == ClearCallflags([call[e] EXCEPT !.asked = @ \ {"REEVENT_IAM"}],
                                         {"SENT_IAM", "PENDING_IAM"})
                 c == EventIam(given, MyCircuit(e), Around(e, data[e]))
                 d == Reacted(data[e], "IAM", {})
             IN  /\ Leaves(e, c, d, said[e], Out(c), line)
                 /\ event' = [event EXCEPT ![e] =
                        Event(IF IamReported(given, d) THEN "IAM" ELSE "none", d, <<>>)]
          /\ UNCHANGED <<app, topic, spent>>

\* isup_cgb, isup_cgu or isup_grs, with a call of its own
RequestGroup(e) ==
    /\ app[e] = "idle" /\ event[e] = NoEvent
    /\ spent.calls < MaxCalls[topic]
    /\ spent' = [spent EXCEPT !.calls = @ + 1]
    /\ \E g \in Groups[topic][e] :
           LET c == IF call[e] = NoCall THEN NewCall ELSE call[e]
               d == data[e]
               group == Only(g, {"endcic", "type", "status"})
           IN  \/ /\ g.kind = "CGB" /\ ~ Has(c, {"SENT_CGB"})
                  /\ Says(e, "CGB", group, Cgb(c, Around(e, d)), [d EXCEPT !.sent_cgb = group])
               \/ /\ g.kind = "CGU" /\ ~ Has(c, {"SENT_CGU"})
                  /\ Says(e, "CGU", group, Cgu(c, Around(e, d)), [d EXCEPT !.sent_cgu = group])
               \/ /\ g.kind = "GRS" /\ ~ Has(c, {"SENT_GRS"})
                  /\ Says(e, "GRS", group, Grs(c, Around(e, d)), [d EXCEPT !.sent_grs = g.endcic])
    /\ UNCHANGED <<event, app, topic>>

-------------------------------------------------------------------------------
(* ... and its part in what it is told. *)

\* isup_rlc and the like, and isup_free_call_if_clear
Confirm(e, k, words, d) ==
    LET c == Plain(call[e], k, Around(e, d))
    IN  Leaves(e, FreeIfClear(c), d, words @@ said[e], Out(c), line)

Acknowledgement == [CGB |-> "CGBA", CGU |-> "CGUA", GRS |-> "GRA"]

\* A group of more than 32 circuits is not acknowledged.
ConfirmGroup(e, kind, told) ==
    LET g == [endcic |-> CIC + told.range, status |-> IF kind = "GRS" THEN {} ELSE told.status]
    IN  IF told.range > 31
        THEN Leaves(e, FreeIfClear(call[e]), data[e], said[e], {}, line)
        ELSE Confirm(e, Acknowledgement[kind], Acknowledgement[kind] :> g, GroupSet(data[e], g))

TakeEvent(e) ==
    LET k == event[e].kind
    IN  /\ event[e] # NoEvent
        /\ event' = [event EXCEPT ![e] = NoEvent]
        /\ CASE k \in {"REL", "RSC"} -> Confirm(e, "RLC", "REL" :> NoWords, data[e])
             [] k \in {"RLC", "CGBA", "CGUA", "GRA"} ->
                    Leaves(e, FreeIfClear(call[e]), data[e], said[e], {}, line)
             [] k \in DOMAIN Acknowledgement -> ConfirmGroup(e, k, event[e].told)
             [] OTHER -> UNCHANGED <<call, data, said, line>>
        /\ CASE k = "IAM" -> Becomes(e, "in")
             [] k \in {"ANM", "CON"} /\ app[e] = "out" -> Becomes(e, "talking")
             [] k \in {"RLC", "RSC"} \/ (k = "REL" /\ app[e] # "releasing") -> Becomes(e, "idle")
             [] OTHER -> UNCHANGED app
        /\ UNCHANGED <<topic, spent>>

-------------------------------------------------------------------------------

Next ==
    \E e \in End :
        \/ ReceiveMessage(e) \/ Lose(e) \/ \E t \in Timer : Expire(e, t)
        \/ Seize(e) \/ Dial(e) \/ AnswerCall(e) \/ Tell(e) \/ HangUp(e) \/ Obey(e)
        \/ RequestGroup(e) \/ TakeEvent(e)

Spec == Init /\ [][Next]_vars

\* What the main loop of end e does: it reads what comes, takes the events from the
\* queue, does what it is asked to and, when there is nothing else, runs the timers.
MainLoop(e) ==
    \/ ReceiveMessage(e) \/ TakeEvent(e) \/ Obey(e)
    \/ AllQuiet /\ \E t \in Timer : Expire(e, t)

\* ENABLED MainLoop(e)
HasWork(e) ==
    \/ line[e] # <<>> \/ event[e] # NoEvent
    \/ call[e] # NoCall /\ (call[e].asked # {} \/ (AllQuiet /\ call[e].timer # {}))

\* WF_vars(MainLoop(e)) for both ends, spelt out.
FairSpec == Spec /\ \A e \in End : <>[]HasWork(e) => []<><<MainLoop(e)>>_vars

-------------------------------------------------------------------------------
(* Properties. *)

\* What an IAM carries of what the application has set.
Carried ==
    {"called", "calling", "orig_called", "redirecting", "redirect_counter", "redirect_info",
     "cug", "cat"} \cup
    IF sw = "ITU" THEN {"transcap"}
    ELSE {"charge", "oli", "gen_add", "gen_dig", "generic_name", "jip"}

\* What end e must hear of a message of kind k for which the other application
\* said s; e asked for the connected number itself.
Heard(e, k, s) ==
    LET set == Prepare(NewParms, s, sw)
        echo == Flag1(set.local_echo # 0)
        asked == "col_req" \in DOMAIN Words(said[e], "IAM")
        connected == CASE ~ asked -> NoAddress
                       [] asked /\ set.connected.num = <<>> -> [NoAddress EXCEPT !.pres = NotAvailable]
                       [] OTHER -> set.connected
        nobody == [NoAddress EXCEPT !.pres = NotAvailable]
        calling == IF AskCalling /\ ~ HasCalling(set) THEN nobody ELSE set.calling
    IN  CASE k = "IAM" ->
                 [calling |-> calling, echo |-> echo] @@ [f \in Carried |-> set[f]]
          [] k = "ACM" -> [echo |-> echo]
          [] k = "ANM" -> [connected |-> connected]
          [] k = "CON" -> [connected |-> connected, echo |-> echo]
          [] k = "CPG" -> [event_info |-> set.event_info]
          [] k \in {"SUS", "RES"} -> [network |-> set.network]
          [] k = "FAA" -> [call_ref |-> set.call_ref]
          [] k = "REL" /\ s # NoWords ->
                 [cause |-> [cause |-> s.cause, code |-> 0, loc |-> CauseLocation]]
          [] k \in {"CGB", "CGU"} ->
                 [range |-> s.endcic - CIC, type |-> s.type, status |-> s.status]
          [] k \in {"CGBA", "CGUA"} ->
                 [range |-> s.endcic - CIC, status |-> s.status,
                  type |-> said[e][IF k = "CGBA" THEN "CGB" ELSE "CGU"].type]
          [] k = "GRS" -> [range |-> s.endcic - CIC]
          [] k = "GRA" -> [range |-> s.endcic - CIC, status |-> s.status]
          [] OTHER -> <<>>

\* Every event tells an application what the other one said, whatever parameters
\* there are and whatever else crossed it: that one's words come out of the octets
\* as they went in.  Not so for an incoming call that displaces an own one, whose
\* parameters are left in it, and for a release that T1 repeats after it crossed the
\* other end's, whose cause it has then.
ToldIsSaid ==
    \A e \in End :
        LET ev == event[e]
            heard == Heard(e, ev.kind, ev.said)
        IN  /\ ev # NoEvent
            /\ ev.kind = "IAM" => app[e] = "idle" /\ ev.said # NoWords
            => \A f \in DOMAIN heard : ev.told[f] = heard[f]

\* Two ends that seize the circuit at once agree on whose call it is: when
\* everything is said and nobody is about to dial, the outgoing call of one end is
\* the incoming one of the other, and not both ends have an incoming call.  (One of
\* them may have one without the other: an IAM that crosses a REL is taken for a new
\* call, while the REL ends it at the end it came from.)
OneOwner ==
    LET flagged(e, f) == call[e] # NoCall /\ f \in call[e].flags
    IN  /\ AllQuiet /\ spent.lost = 0
        /\ \A e \in End : ~ flagged(e, "PENDING_IAM")
        => /\ \A e \in End : flagged(e, "SENT_IAM") => flagged(Other(e), "GOT_IAM")
           /\ \E e \in End : ~ flagged(e, "GOT_IAM")

\* A release, a reset of the circuit and a blocking of circuits are confirmed in the
\* end, though messages get lost and timers run out too early.  (Not so for a group that
\* was to be blocked, if its message is lost and the circuit is reset meanwhile: with
\* the timers of the call those of the group are stopped.)
Waiting(e) ==
    call[e] # NoCall /\ Has(call[e], {"SENT_REL", "SENT_RSC", "SENT_CGB", "SENT_CGU", "SENT_GRS"})

RequestsEnd == \A e \in End : Waiting(e) ~> ~ Waiting(e)
===============================================================================
