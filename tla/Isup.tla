---------------------------------- MODULE Isup ----------------------------------
(***************************************************************************)
(* The call control of isup.c for one circuit: struct isup_call with its   *)
(* flags (got_sent_msg) and its timers, and what the library's functions   *)
(* do to it.  Every operator takes the call as it is and returns it as it  *)
(* is afterwards, NoCall once it has been freed.                           *)
(*                                                                         *)
(* Of the parameters of a message only those are kept that decide what     *)
(* happens: the rest is data the application is handed in an event.  What  *)
(* lies outside a call is an environment e: whether the event queue has    *)
(* room, whether mtp3_transmit takes the message, what the application     *)
(* answers to ss7_hangup, and what the parameters received so far are.     *)
(***************************************************************************)
EXTENDS Integers

CONSTANTS Configured,   \* the timers set with ss7_set_isup_timer
          AskCalling    \* SS7_INR_IF_NO_CALLING among the flags of the instance

Connected == {"GOT_ACM", "GOT_ANM", "GOT_CON", "SENT_CON", "SENT_ACM", "SENT_ANM"}
Pending   == {"GOT_IAM", "SENT_IAM", "PENDING_IAM", "GOT_CCR", "SENT_INR", "SENT_FAR"}
Flag      == Connected \cup Pending \cup
             {"SENT_GRS", "SENT_GRS2", "SENT_CGB", "SENT_CGU", "SENT_RSC", "SENT_REL",
              "SENT_BLO", "SENT_UBL"}

Timer == {"T1", "T2", "T5", "T6", "T7", "T8", "T10", "T12", "T13", "T14", "T15", "T16",
          "T17", "T18", "T19", "T20", "T21", "T22", "T23", "T27", "T33", "T35"}

ASSUME ConfiguredAssumption == Configured \subseteq Timer
ASSUME AskCallingAssumption == AskCalling \in BOOLEAN

\* The messages that lead to an event and change nothing in the call.
Reported == {"CQM", "GRS", "CVT", "BLO", "UBL", "LPA", "CGB", "CGU", "CPG", "UCIC",
             "FRJ", "FAA", "FAR"}
\* The messages of the table that isup_receive has no case for.
Unhandled == {"CVR", "CFN"}
Kind == Reported \cup Unhandled \cup
        {"IAM", "SAM", "INF", "INR", "GRA", "RSC", "REL", "ACM", "CON", "ANM", "RLC",
         "COT", "CCR", "BLA", "UBA", "CGBA", "CGUA", "SUS", "RES", "CQR"}

\* The continuity check asked for in an IAM.
Cot == SUBSET {"required", "previous"}

\* yes: COT check passed, INF solicited, SUS and RES by the network, and the
\* circuits and states of GRA, CGBA and CGUA as in the message they answer.
Message == [kind : Kind, cot : Cot, yes : BOOLEAN]

Call == [flags : SUBSET Flag,      \* got_sent_msg
         timer : SUBSET Timer,     \* the timers that run
         cot   : Cot,              \* cot_check_required, cot_performed_on_previous_cic
         asked : SUBSET {"SEND_REL", "SEND_RSC", "REEVENT_IAM"},
                                   \* hangups the application was told to carry out
         out   : SUBSET Kind]      \* the messages sent in this step
NoCall == [freed |-> TRUE]

Env == [room     : BOOLEAN,        \* ss7_next_empty_event finds room
        sent     : BOOLEAN,        \* isup_send_message succeeds
        cic      : {"IDLE", "USED", "NOT_EXISTS"},    \* what ss7_hangup returns
        calling  : BOOLEAN,        \* the calling number is there or not available
        complete : BOOLEAN]        \* the called number ends with '#'

\* Variant: calloc forgotten for the continuity check.
NewCallUnset == [flags |-> {}, timer |-> {}, cot |-> {"unset"}, asked |-> {}, out |-> {}]

\* __isup_new_call
NewCall == [flags |-> {}, timer |-> {}, cot |-> {}, asked |-> {}, out |-> {}]

-------------------------------------------------------------------------------

Mark(c, F)       == [c EXCEPT !.flags = @ \cup F]
Clear(c, F)      == [c EXCEPT !.flags = @ \ F]
Has(c, F)        == c.flags \cap F # {}
StartTimer(c, t) == IF t \in Configured THEN [c EXCEPT !.timer = @ \cup {t}] ELSE c
StopTimers(c, T) == [c EXCEPT !.timer = @ \ T]
StopAllTimers(c) == [c EXCEPT !.timer = {}]
SendMessage(c, m) == [c EXCEPT !.out = @ \cup {m}]
Ask(c, hangup)   == [c EXCEPT !.asked = @ \cup {hangup}]

\* A call for which a message cannot be sent or reported is freed, after the
\* application was told to forget it (ss7_call_null).
Unless(ok, c) == IF ok THEN c ELSE NoCall

FreeIfClear(c) == IF c.flags = {} /\ c.timer = {} THEN NoCall ELSE c

ClearCallflags(c, F) ==
    Clear(StopTimers(c, (IF "SENT_IAM" \in F THEN {"T7"} ELSE {}) \cup
                        (IF "SENT_CGB" \in F THEN {"T18", "T19"} ELSE {}) \cup
                        (IF "SENT_CGU" \in F THEN {"T20", "T21"} ELSE {})), F)

-------------------------------------------------------------------------------
(* The functions that send.  The timers of a message that waits for an answer  *)
(* are started with it.                                                        *)

Request(c, m, flag, t1, t2) ==
    StartTimer(StartTimer(Mark(SendMessage(c, m), {flag}), t1), t2)

Blo(c, e) == Unless(e.sent, Request(c, "BLO", "SENT_BLO", "T12", "T13"))
Ubl(c, e) == Unless(e.sent, Request(c, "UBL", "SENT_UBL", "T14", "T15"))
Cgb(c, e) == Unless(e.sent, Request(c, "CGB", "SENT_CGB", "T18", "T19"))
Cgu(c, e) == Unless(e.sent, Request(c, "CGU", "SENT_CGU", "T20", "T21"))

\* ITU: ANSI sends it twice and sets SENT_GRS2 as well.
Grs(c, e) == Unless(e.sent, Request(StopAllTimers(c), "GRS", "SENT_GRS", "T22", "T23"))

\* Variant: T7 is started by whoever dials.
IamNoT7(c, e) ==
    Unless(e.sent, Clear(Mark(SendMessage(c, "IAM"), {"SENT_IAM"}), {"PENDING_IAM"}))

Iam(c, e) ==
    Unless(e.sent, Clear(StartTimer(Mark(SendMessage(c, "IAM"), {"SENT_IAM"}), "T7"),
                         {"PENDING_IAM"}))

\* isup_acm, isup_anm, isup_con
Answer(c, m, flag, e) ==
    Unless(e.sent, StopTimers(Mark(SendMessage(c, m), {flag}), {"T35", "T10"}))
Acm(c, e) == Answer(c, "ACM", "SENT_ACM", e)
Anm(c, e) == Answer(c, "ANM", "SENT_ANM", e)
Con(c, e) == Answer(c, "CON", "SENT_CON", e)
Cpg(c, e) == Unless(e.sent, StopTimers(SendMessage(c, "CPG"), {"T35", "T10"}))

\* Variant: T7 goes on for a call that is given up.
RelKeepsT7(c, e) ==
    Unless(e.sent,
           Clear(Request(StopTimers(c, {"T8", "T27", "T2", "T6", "T35", "T10"}),
                         "REL", "SENT_REL", "T1", "T5"),
                 Pending \cup Connected))

Rel(c, e) ==
    Unless(e.sent,
           Clear(Request(StopTimers(c, {"T7", "T8", "T27", "T2", "T6", "T35", "T10"}),
                         "REL", "SENT_REL", "T1", "T5"),
                 Pending \cup Connected))

Rsc(c, e) ==
    Unless(e.sent, StartTimer(Mark(StopAllTimers(SendMessage(c, "RSC")), {"SENT_RSC"}),
                              "T17"))

Inr(c, e) == Unless(e.sent, Mark(StartTimer(SendMessage(c, "INR"), "T33"), {"SENT_INR"}))

\* isup_rlc, isup_inf, isup_sus, isup_res, isup_bla, isup_uba, isup_gra,
\* isup_cgba, isup_cgua, isup_frj, isup_faa
Plain(c, m, e) == Unless(e.sent, SendMessage(c, m))

-------------------------------------------------------------------------------
(* Receiving. *)

\* Variant: odd circuits for neither.
ControlsEven(pc, opc, cic) == cic % 2 = 0

\* Q.764 2.9.1.4: which end a circuit is controlled by when both seize it.
Controls(pc, opc, cic) == IF pc > opc THEN cic % 2 = 0 ELSE cic % 2 = 1

Report(c) ==
    IF "required" \in c.cot THEN Mark(c, {"GOT_CCR"}) ELSE c

EventIam(c, controls, e) ==
    IF Has(c, {"SENT_IAM", "PENDING_IAM"})
    THEN IF controls THEN c ELSE Ask(Mark(c, {"GOT_IAM"}), "REEVENT_IAM")
    ELSE IF AskCalling /\ ~ e.calling
    THEN Inr(Mark(c, {"GOT_IAM"}), e)
    ELSE Unless(e.room,
                LET digits == IF e.complete THEN c ELSE StartTimer(c, "T35")
                    timed  == IF c.cot = {} THEN digits ELSE StartTimer(digits, "T8")
                IN  Report(Mark(timed, {"GOT_IAM"})))

\* The flags of which a message needs one, or else it is unexpected.
Needs(kind) ==
    CASE kind = "SAM" -> {"GOT_IAM"}
      [] kind \in {"INR", "ACM", "CON", "ANM", "CPG"} -> {"SENT_IAM"}
      [] kind \in {"SUS", "RES"} -> {"GOT_IAM", "SENT_IAM"}
      [] kind = "RLC" -> {"SENT_REL", "SENT_RSC"}
      [] kind = "INF" -> {"SENT_INR"}
      [] kind = "COT" -> {"GOT_CCR"}
      [] kind = "GRA" -> {"SENT_GRS"}
      [] kind = "BLA" -> {"SENT_BLO"}
      [] kind = "UBA" -> {"SENT_UBL"}
      [] kind = "CGBA" -> {"SENT_CGB"}
      [] kind = "CGUA" -> {"SENT_CGU"}
      [] OTHER -> {}

IsExpected(c, m) ==
    \/ Needs(m.kind) = {}
    \/ Has(c, Needs(m.kind))
    \/ m.kind = "INF" /\ ~ m.yes
    \/ m.kind = "COT" /\ "previous" \in c.cot

\* A message is ignored while the application hangs up anyway, and one that
\* does not answer what was sent.
IsIgnored(c, m) ==
    \/ m.kind = "SUS" /\ Has(c, {"SENT_RSC", "SENT_REL"})
    \/ m.kind \in {"GRA", "CGBA", "CGUA"} /\ Has(c, Needs(m.kind)) /\ ~ m.yes

\* isup_handle_unexpected
Unexpected(c, e) ==
    IF \/ Has(c, Connected)
       \/ Has(c, {"SENT_REL", "SENT_RSC"}) /\ {"T1", "T5", "T16", "T17"} \subseteq Configured
    THEN c
    ELSE CASE e.cic = "IDLE" -> Rsc(c, e)
           [] e.cic = "USED" -> Ask(c, "SEND_RSC")
           [] e.cic = "NOT_EXISTS" -> NoCall

\* What becomes of a call with the message that its event reports: the end of
\* a call or of a reset, ...
NotedEnd(c, kind) ==
    CASE kind = "GRA" ->
             StopTimers(Clear(c, IF Has(c, {"SENT_GRS2"}) THEN {"SENT_GRS2"} ELSE {"SENT_GRS"}),
                        {"T22", "T23"})
      [] kind = "RSC" -> [StopAllTimers(c) EXCEPT !.flags = {}]
      [] kind = "REL" ->
             Clear(StopTimers(c, {"T7", "T2", "T6", "T35", "T10"}), Connected \cup Pending)
      [] kind = "RLC" ->
             Clear(StopTimers(c, {"T1", "T2", "T5", "T6", "T16", "T17"}),
                   {"SENT_REL", "SENT_RSC"} \cup
                   IF Has(c, {"SENT_RSC"}) THEN Connected \cup Pending ELSE {})

\* ... an answer, ...
NotedAnswer(c, kind) ==
    CASE kind = "ACM" -> Mark(StopTimers(c, {"T7"}), {"GOT_ACM"})
      [] kind = "CON" -> Mark(StopTimers(c, {"T7"}), {"GOT_CON"})
      [] kind = "ANM" -> Mark(c, {"GOT_ANM"})

\* ... a continuity check or its result, ...
NotedCheck(c, m) ==
    CASE m.kind = "CCR" -> StopTimers(Mark(c, {"GOT_CCR"}), {"T27"})
      [] m.kind = "COT" /\ m.yes -> StopTimers(Clear(c, {"GOT_CCR"}), {"T8"})
      [] m.kind = "COT" /\ ~ m.yes ->
             StartTimer(StopTimers(Clear(c, {"GOT_IAM", "GOT_CCR"}), {"T8"}), "T27")

\* ... the circuits that were blocked or unblocked, ...
NotedCircuits(c, kind) ==
    CASE kind = "BLA"  -> Clear(StopTimers(c, {"T12", "T13"}), {"SENT_BLO"})
      [] kind = "UBA"  -> Clear(StopTimers(c, {"T14", "T15"}), {"SENT_UBL"})
      [] kind = "CGBA" -> ClearCallflags(c, {"SENT_CGB"})
      [] kind = "CGUA" -> ClearCallflags(c, {"SENT_CGU"})

\* ... a call that is suspended or goes on, by the network (T6) or the user ...
NotedSuspend(c, m) ==
    LET t == IF m.yes THEN "T6" ELSE "T2"
    IN  IF m.kind = "SUS" THEN StartTimer(c, t) ELSE StopTimers(c, {t})

\* ... or more digits.
Noted(c, m) ==
    CASE m.kind \in {"GRA", "RSC", "REL", "RLC"}    -> NotedEnd(c, m.kind)
      [] m.kind \in {"ACM", "CON", "ANM"}           -> NotedAnswer(c, m.kind)
      [] m.kind \in {"COT", "CCR"}                  -> NotedCheck(c, m)
      [] m.kind \in {"BLA", "UBA", "CGBA", "CGUA"}  -> NotedCircuits(c, m.kind)
      [] m.kind \in {"SUS", "RES"}                  -> NotedSuspend(c, m)
      [] m.kind = "SAM"                             -> StartTimer(c, "T35")
      [] OTHER                                      -> c

Inf(c, m, controls, e) ==
    IF AskCalling /\ ~ e.calling THEN Rel(c, e)
    ELSE IF ~ m.yes THEN FreeIfClear(c)
    ELSE EventIam(Clear(StopTimers(c, {"T33"}), {"SENT_INR"}), controls, e)

\* The parameters of a message are stored in the call before anything else.
Parsed(c, m) == IF m.kind = "IAM" THEN [c EXCEPT !.cot = m.cot] ELSE c

\* Variant: the own reset is answer enough.
BothResetSilently(c, e) == c

\* The other end resets the circuit as well.
BothReset(c, e) == IF e.sent THEN SendMessage(c, "RLC") ELSE c

Handled(c, m, controls, e) ==
    CASE m.kind = "IAM" -> EventIam(c, controls, e)
      [] IsIgnored(c, m) -> c
      [] ~ IsIgnored(c, m) /\ ~ IsExpected(c, m) -> Unexpected(c, e)
      [] m.kind = "INF" /\ IsExpected(c, m) -> Inf(c, m, controls, e)
      [] m.kind = "INR" /\ IsExpected(c, m) -> Plain(c, "INF", e)
      [] m.kind = "RSC" /\ Has(c, {"SENT_RSC"}) -> BothReset(c, e)
      [] m.kind \in Unhandled -> FreeIfClear(c)
      [] m.kind = "CQR" -> NoCall      \* nothing receives its circuit states
      [] OTHER -> Unless(e.room, Noted(c, m))

\* isup_receive, with the call isup_find_call finds or makes
Receive(c, m, controls, e) ==
    Handled(Parsed(IF c = NoCall THEN NewCall ELSE c, m), m, controls, e)

-------------------------------------------------------------------------------
(* Timers. *)

\* Variant: the message is repeated once only.
AgainOnce(c, m, t) == SendMessage(c, m)

\* A repeated message: whether it could be sent is not looked at.
Again(c, m, t) == StartTimer(SendMessage(c, m), t)

\* Variant: the reset after T5 is not noted.
ResetAgainUnnoted(c) == StartTimer(SendMessage(StopAllTimers(c), "RSC"), "T17")

ResetAgain(c) ==
    StartTimer(SendMessage(Mark(StopAllTimers(c), {"SENT_RSC"}), "RSC"), "T17")

\* The code of T20 and T21 runs on into that of T23 and T22.
IntoT23(c) == StartTimer(Again(StopTimers(c, {"T22"}), "GRS", "T23"), "T22")

TimedOut(c, t, e) ==
    CASE t = "T1" -> Again(c, "REL", t)
      [] t = "T16" -> Again(Mark(c, {"SENT_RSC"}), "RSC", t)
      [] t \in {"T2", "T6", "T7"} -> Ask(c, "SEND_REL")
      [] t \in {"T5", "T17"} -> ResetAgain(c)
      [] t = "T10" -> Unless(e.room, c)
      [] t = "T12" -> Again(c, "BLO", t)
      [] t = "T13" -> Again(StopTimers(c, {"T12"}), "BLO", t)
      [] t = "T14" -> Again(c, "UBL", t)
      [] t = "T15" -> Again(StopTimers(c, {"T14"}), "UBL", t)
      [] t = "T18" -> Again(c, "CGB", t)
      [] t = "T19" -> Again(StopTimers(c, {"T18"}), "CGB", t)
      [] t = "T20" -> IntoT23(Again(c, "CGU", t))
      [] t = "T21" -> IntoT23(Again(StopTimers(c, {"T20"}), "CGU", t))
      [] t = "T22" -> Again(c, "GRS", t)
      [] t = "T23" -> Again(StopTimers(c, {"T22"}), "GRS", t)
      [] t = "T27" -> Rsc(c, e)
      [] t = "T33" -> Rel(Clear(c, {"SENT_INR"}), e)
      [] t \in {"T8", "T35"} -> Rel(c, e)

\* isup_timer_expiry
Expired(c, t, e) == TimedOut(StopTimers(c, {t}), t, e)
===============================================================================
