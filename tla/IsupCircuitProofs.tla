--------------------------- MODULE IsupCircuitProofs ---------------------------
(***************************************************************************)
(* Type correctness of IsupCircuit, and that a timer runs only for a       *)
(* request that waits for its answer, for any peer, any application within *)
(* the two restrictions of IsupCircuit and any set of configured timers.   *)
(***************************************************************************)
EXTENDS IsupCircuit, TLAPS

\* The timers and flags of a call as TimersJustified wants them, and what that
\* rests on: T16 is never started, no timer runs that is not configured, and a call that is being reset has lost the
\* T7 of its IAM, so that the RLC which clears SENT_IAM too leaves no T7.
Justified(c) ==
    /\ \A r \in Repeats : r[2] \in c.timer => r[1] \in c.flags
    /\ "T16" \notin c.timer
    /\ c.timer \subseteq Configured
    /\ "SENT_RSC" \in c.flags => "T7" \notin c.timer

Sound(c)  == c \in Call /\ Justified(c)
Result(c) == c = NoCall \/ Sound(c)

-------------------------------------------------------------------------------
(* The steps that the functions of isup.c are built from. *)

\* Flags that are set justify more timers, unless the call is being reset now.
LEMMA MarkSound ==
    ASSUME NEW c, Sound(c), NEW F \in SUBSET Flag,
           "SENT_RSC" \in F => "T7" \notin c.timer
    PROVE  /\ Sound(Mark(c, F))
           /\ Mark(c, F).timer = c.timer
           /\ Mark(c, F).flags = c.flags \cup F
BY DEF Sound, Call, Justified, Repeats, Mark

\* A flag may be cleared when the timers that rest on it are stopped.
LEMMA ClearSound ==
    ASSUME NEW c, Sound(c), NEW F,
           \A r \in Repeats : r[1] \in F => r[2] \notin c.timer
    PROVE  /\ Sound(Clear(c, F))
           /\ Clear(c, F).timer = c.timer
           /\ Clear(c, F).flags = c.flags \ F
BY DEF Sound, Call, Justified, Clear

\* Stopping timers is always sound.
LEMMA StopSound ==
    ASSUME NEW c, Sound(c), NEW T
    PROVE  /\ Sound(StopTimers(c, T))
           /\ StopTimers(c, T).timer = c.timer \ T
           /\ StopTimers(c, T).flags = c.flags
BY DEF Sound, Call, Justified, StopTimers

LEMMA StopAllSound ==
    ASSUME NEW c, Sound(c)
    PROVE  /\ Sound(StopAllTimers(c))
           /\ StopAllTimers(c).timer = {}
           /\ StopAllTimers(c).flags = c.flags
BY DEF Sound, Call, Justified, StopAllTimers

\* A timer may be started for a request that is noted, and T7 in no reset.
LEMMA StartSound ==
    ASSUME NEW c, Sound(c), NEW t \in Timer \ {"T16"},
           \A r \in Repeats : r[2] = t => r[1] \in c.flags,
           t = "T7" => "SENT_RSC" \notin c.flags
    PROVE  /\ Sound(StartTimer(c, t))
           /\ StartTimer(c, t).timer \subseteq c.timer \cup {t}
           /\ StartTimer(c, t).flags = c.flags
BY DEF Sound, Call, Justified, StartTimer

\* What is sent or asked does not touch flags and timers.
LEMMA SendSound ==
    ASSUME NEW c, Sound(c), NEW m \in Kind
    PROVE  /\ Sound(SendMessage(c, m))
           /\ SendMessage(c, m).timer = c.timer
           /\ SendMessage(c, m).flags = c.flags
BY DEF Sound, Call, Justified, SendMessage

LEMMA AskSound ==
    ASSUME NEW c, Sound(c), NEW h \in {"SEND_REL", "SEND_RSC", "REEVENT_IAM"}
    PROVE  Sound(Ask(c, h))
BY DEF Sound, Call, Justified, Ask

LEMMA UnlessSound ==
    ASSUME NEW ok, NEW c, Result(c)
    PROVE  Result(Unless(ok, c))
BY DEF Result, Unless

LEMMA NewCallSound == Sound(NewCall)
BY DEF Sound, Call, Justified, NewCall, Repeats, Cot

\* Clearing flags of isup_clear_callflags that the application may clear.
LEMMA ClearCallflagsSound ==
    ASSUME NEW c, Sound(c),
           NEW F \in {{"SENT_CGB"}, {"SENT_CGU"}, {"SENT_IAM", "PENDING_IAM"}}
    PROVE  Sound(ClearCallflags(c, F))
<1> DEFINE T == (IF "SENT_IAM" \in F THEN {"T7"} ELSE {}) \cup
                (IF "SENT_CGB" \in F THEN {"T18", "T19"} ELSE {}) \cup
                (IF "SENT_CGU" \in F THEN {"T20", "T21"} ELSE {})
           d == StopTimers(c, T)
<1>1. Sound(d) /\ d.timer = c.timer \ T
  BY StopSound
<1>2. \A r \in Repeats : r[1] \in F => r[2] \in T
  BY DEF Repeats
<1>3. \A r \in Repeats : r[1] \in F => r[2] \notin d.timer
  BY <1>1, <1>2
<1>4. ClearCallflags(c, F) = Clear(d, F)
  BY DEF ClearCallflags
<1> HIDE DEF d
<1> QED
  BY <1>1, <1>3, <1>4, ClearSound

-------------------------------------------------------------------------------
(* The functions that send. *)

\* A request notes itself before its timers start.
LEMMA RequestSound ==
    ASSUME NEW c, Sound(c), NEW m \in Kind, NEW f \in Flag \ {"SENT_RSC"},
           NEW t1 \in Timer \ {"T16", "T7"}, NEW t2 \in Timer \ {"T16", "T7"},
           \A r \in Repeats : r[2] \in {t1, t2} => r[1] = f
    PROVE  /\ Sound(Request(c, m, f, t1, t2))
           /\ Request(c, m, f, t1, t2).timer \subseteq c.timer \cup {t1, t2}
           /\ Request(c, m, f, t1, t2).flags = c.flags \cup {f}
<1> DEFINE d1 == SendMessage(c, m)
           d2 == Mark(d1, {f})
           d3 == StartTimer(d2, t1)
<1>1. Sound(d1) /\ d1.timer = c.timer /\ d1.flags = c.flags
  BY SendSound
<1>2. Sound(d2) /\ d2.timer = c.timer /\ d2.flags = c.flags \cup {f}
  <2> HIDE DEF d1
  <2> QED BY <1>1, MarkSound
<1>3. Sound(d3) /\ d3.timer \subseteq c.timer \cup {t1} /\ d3.flags = c.flags \cup {f}
  <2> HIDE DEF d2
  <2> QED BY <1>2, StartSound
<1>4. Request(c, m, f, t1, t2) = StartTimer(d3, t2)
  BY DEF Request
<1> HIDE DEF d3
<1>5. \A r \in Repeats : r[2] = t2 => r[1] \in d3.flags
  BY <1>3
<1>6. /\ Sound(StartTimer(d3, t2))
      /\ StartTimer(d3, t2).timer \subseteq d3.timer \cup {t2}
      /\ StartTimer(d3, t2).flags = d3.flags
  BY <1>3, <1>5, StartSound
<1> QED
  BY <1>3, <1>4, <1>6

LEMMA BlockingSound ==
    ASSUME NEW c, Sound(c), NEW e
    PROVE  Result(Blo(c, e)) /\ Result(Ubl(c, e)) /\ Result(Cgb(c, e)) /\ Result(Cgu(c, e))
<1> USE DEF Kind, Reported, Flag, Timer
<1>1. Sound(Request(c, "BLO", "SENT_BLO", "T12", "T13"))
  BY RequestSound DEF Repeats
<1>2. Sound(Request(c, "UBL", "SENT_UBL", "T14", "T15"))
  BY RequestSound DEF Repeats
<1>3. Sound(Request(c, "CGB", "SENT_CGB", "T18", "T19"))
  BY RequestSound DEF Repeats
<1>4. Sound(Request(c, "CGU", "SENT_CGU", "T20", "T21"))
  BY RequestSound DEF Repeats
<1> QED
  BY <1>1, <1>2, <1>3, <1>4, UnlessSound DEF Blo, Ubl, Cgb, Cgu, Result

LEMMA GrsSound ==
    ASSUME NEW c, Sound(c), NEW e
    PROVE  Result(Grs(c, e))
<1>1. Sound(StopAllTimers(c))
  BY StopAllSound
<1>2. Sound(Request(StopAllTimers(c), "GRS", "SENT_GRS", "T22", "T23"))
  BY <1>1, RequestSound DEF Repeats, Kind, Reported, Flag, Timer
<1> QED
  BY <1>2, UnlessSound DEF Grs, Result

LEMMA IamSound ==
    ASSUME NEW c, Sound(c), NEW e, "SENT_RSC" \notin c.flags
    PROVE  Result(Iam(c, e))
<1> DEFINE d1 == SendMessage(c, "IAM")
           d2 == Mark(d1, {"SENT_IAM"})
           d3 == StartTimer(d2, "T7")
<1>1. Sound(d1) /\ d1.timer = c.timer /\ d1.flags = c.flags
  BY SendSound DEF Kind
<1>2. Sound(d2) /\ d2.flags = c.flags \cup {"SENT_IAM"}
  <2> HIDE DEF d1
  <2> QED BY <1>1, MarkSound DEF Flag, Pending
<1>3. Sound(d3)
  <2> HIDE DEF d2
  <2> QED BY <1>2, StartSound DEF Repeats, Timer
<1>4. Sound(Clear(d3, {"PENDING_IAM"}))
  <2> HIDE DEF d3
  <2> QED BY <1>3, ClearSound DEF Repeats
<1> QED
  BY <1>4, UnlessSound DEF Iam, Result

LEMMA AnswerSound ==
    ASSUME NEW c, Sound(c), NEW e
    PROVE  Result(Acm(c, e)) /\ Result(Anm(c, e)) /\ Result(Con(c, e))
<1>1. ASSUME NEW m \in Kind, NEW f \in Flag \ {"SENT_RSC"} PROVE Result(Answer(c, m, f, e))
  <2>1. Sound(SendMessage(c, m)) /\ SendMessage(c, m).timer = c.timer
    BY SendSound
  <2>2. Sound(Mark(SendMessage(c, m), {f}))
    BY <2>1, MarkSound
  <2>3. Sound(StopTimers(Mark(SendMessage(c, m), {f}), {"T35", "T10"}))
    BY <2>2, StopSound
  <2> QED
    BY <2>3, UnlessSound DEF Answer, Result
<1> QED
  BY <1>1 DEF Acm, Anm, Con, Kind, Flag, Connected

LEMMA PlainSound ==
    ASSUME NEW c, Sound(c), NEW m \in Kind, NEW e
    PROVE  Result(Plain(c, m, e))
BY SendSound, UnlessSound DEF Plain, Result

LEMMA CpgSound ==
    ASSUME NEW c, Sound(c), NEW e
    PROVE  Result(Cpg(c, e))
<1>1. Sound(SendMessage(c, "CPG"))
  BY SendSound DEF Kind, Reported
<1>2. Sound(StopTimers(SendMessage(c, "CPG"), {"T35", "T10"}))
  BY <1>1, StopSound
<1> QED
  BY <1>2, UnlessSound DEF Cpg, Result

\* A release takes the T7 of the IAM with it, whose flag it clears.
LEMMA RelSound ==
    ASSUME NEW c, Sound(c), NEW e
    PROVE  Result(Rel(c, e))
<1> DEFINE d1 == StopTimers(c, {"T7", "T8", "T27", "T2", "T6", "T35", "T10"})
           d2 == Request(d1, "REL", "SENT_REL", "T1", "T5")
<1>1. Sound(d1) /\ "T7" \notin d1.timer
  BY StopSound
<1>2. Sound(d2) /\ "T7" \notin d2.timer
  <2> HIDE DEF d1
  <2>1. /\ "REL" \in Kind /\ "SENT_REL" \in Flag \ {"SENT_RSC"}
        /\ {"T1", "T5"} \subseteq Timer \ {"T16", "T7"}
    BY DEF Kind, Flag, Timer
  <2>2. \A r \in Repeats : r[2] \in {"T1", "T5"} => r[1] = "SENT_REL"
    BY DEF Repeats
  <2>3. Sound(d2) /\ d2.timer \subseteq d1.timer \cup {"T1", "T5"}
    BY <1>1, <2>1, <2>2, RequestSound
  <2> QED
    BY <1>1, <2>3
<1>3. \A r \in Repeats : r[1] \in Pending \cup Connected => r[2] = "T7"
  BY DEF Repeats, Pending, Connected
<1>4. Sound(Clear(d2, Pending \cup Connected))
  <2> HIDE DEF d2
  <2> QED BY <1>2, <1>3, ClearSound
<1> QED
  BY <1>4, UnlessSound DEF Rel, Result

LEMMA RscSound ==
    ASSUME NEW c, Sound(c), NEW e
    PROVE  Result(Rsc(c, e))
<1> DEFINE d1 == SendMessage(c, "RSC")
           d2 == StopAllTimers(d1)
           d3 == Mark(d2, {"SENT_RSC"})
<1>1. Sound(d1)
  BY SendSound DEF Kind
<1>2. Sound(d2) /\ d2.timer = {}
  BY <1>1, StopAllSound
<1>3. Sound(d3) /\ "SENT_RSC" \in d3.flags
  <2> HIDE DEF d2
  <2> QED BY <1>2, MarkSound DEF Flag
<1>4. Sound(StartTimer(d3, "T17"))
  <2> HIDE DEF d3
  <2> QED BY <1>3, StartSound DEF Repeats, Timer
<1> QED
  BY <1>4, UnlessSound DEF Rsc, Result

\* Timers that no request rests on may start at any time.
LEMMA FreeTimerSound ==
    ASSUME NEW c, Sound(c), NEW t \in {"T2", "T6", "T8", "T10", "T27", "T33", "T35"}
    PROVE  Sound(StartTimer(c, t))
BY StartSound DEF Repeats, Timer

LEMMA InrSound ==
    ASSUME NEW c, Sound(c), NEW e
    PROVE  Result(Inr(c, e))
<1>1. Sound(SendMessage(c, "INR"))
  BY SendSound DEF Kind
<1>2. Sound(StartTimer(SendMessage(c, "INR"), "T33"))
  BY <1>1, FreeTimerSound
<1>3. Sound(Mark(StartTimer(SendMessage(c, "INR"), "T33"), {"SENT_INR"}))
  BY <1>2, MarkSound DEF Flag, Pending
<1> QED
  BY <1>3, UnlessSound DEF Inr, Result
-------------------------------------------------------------------------------
(* Receiving. *)

LEMMA FreeIfClearSound ==
    ASSUME NEW c, Sound(c)
    PROVE  Result(FreeIfClear(c))
BY DEF FreeIfClear, Result

LEMMA EventIamSound ==
    ASSUME NEW c, Sound(c), NEW controls, NEW e
    PROVE  Result(EventIam(c, controls, e))
<1> DEFINE iam    == Mark(c, {"GOT_IAM"})
           digits == IF e.complete THEN c ELSE StartTimer(c, "T35")
           timed  == IF c.cot = {} THEN digits ELSE StartTimer(digits, "T8")
           noted  == Mark(timed, {"GOT_IAM"})
<1>1. Sound(iam)
  BY MarkSound DEF Flag, Pending
<1>2. Sound(Ask(iam, "REEVENT_IAM")) /\ Result(Inr(iam, e))
  <2> HIDE DEF iam
  <2> QED BY <1>1, AskSound, InrSound
<1>3. Sound(digits)
  BY FreeTimerSound
<1>4. Sound(timed)
  <2> HIDE DEF digits
  <2> QED BY <1>3, FreeTimerSound
<1>5. Sound(noted)
  <2> HIDE DEF timed
  <2> QED BY <1>4, MarkSound DEF Flag, Pending
<1>6. Sound(Report(noted))
  <2> HIDE DEF noted
  <2> QED BY <1>5, MarkSound DEF Report, Flag, Pending
<1>7. Result(Unless(e.room, Report(noted)))
  BY <1>6, UnlessSound DEF Result
<1>8. \/ EventIam(c, controls, e) = c
      \/ EventIam(c, controls, e) = Ask(iam, "REEVENT_IAM")
      \/ EventIam(c, controls, e) = Inr(iam, e)
      \/ EventIam(c, controls, e) = Unless(e.room, Report(noted))
  BY Zenon DEF EventIam
<1> HIDE DEF iam, noted
<1> QED
  BY <1>2, <1>7, <1>8 DEF Result

LEMMA UnexpectedSound ==
    ASSUME NEW c, Sound(c), NEW e \in Env
    PROVE  Result(Unexpected(c, e))
<1>1. e.cic \in {"IDLE", "USED", "NOT_EXISTS"}
  BY DEF Env
<1>2. Result(Rsc(c, e)) /\ Sound(Ask(c, "SEND_RSC"))
  BY RscSound, AskSound
<1> QED
  BY <1>1, <1>2 DEF Unexpected, Result

\* The end of a call or of a reset stops the timers whose flags it clears.
LEMMA NotedEndSound ==
    ASSUME NEW c, Sound(c), NEW kind \in {"GRA", "RSC", "REL", "RLC"}
    PROVE  Sound(NotedEnd(c, kind))
<1>1. CASE kind = "GRA"
  <2>1. ASSUME NEW F \in {{"SENT_GRS2"}, {"SENT_GRS"}}
        PROVE  Sound(StopTimers(Clear(c, F), {"T22", "T23"}))
    <3>1. Sound(Clear(c, F))
      BY ClearSound DEF Repeats
    <3> QED
      BY <3>1, StopSound
  <2> QED
    BY <1>1, <2>1 DEF NotedEnd
<1>2. CASE kind = "RSC"
  <2>1. Sound([StopAllTimers(c) EXCEPT !.flags = {}])
    BY DEF StopAllTimers, Sound, Call, Justified
  <2> QED
    BY <1>2, <2>1 DEF NotedEnd
<1>3. CASE kind = "REL"
  <2> DEFINE d == StopTimers(c, {"T7", "T2", "T6", "T35", "T10"})
  <2>1. Sound(d) /\ "T7" \notin d.timer
    BY StopSound
  <2>2. \A r \in Repeats : r[1] \in Connected \cup Pending => r[2] = "T7"
    BY DEF Repeats, Pending, Connected
  <2>3. NotedEnd(c, kind) = Clear(d, Connected \cup Pending)
    BY <1>3 DEF NotedEnd
  <2> HIDE DEF d
  <2> QED
    BY <2>1, <2>2, <2>3, ClearSound
<1>4. CASE kind = "RLC"
  <2> DEFINE d == StopTimers(c, {"T1", "T2", "T5", "T6", "T16", "T17"})
             F == {"SENT_REL", "SENT_RSC"} \cup
                  IF Has(c, {"SENT_RSC"}) THEN Connected \cup Pending ELSE {}
  <2>1. Sound(d) /\ d.timer = c.timer \ {"T1", "T2", "T5", "T6", "T16", "T17"}
    BY StopSound
  <2>2. \A r \in Repeats : r[1] \in F =>
            \/ r[2] \in {"T1", "T5", "T17"}
            \/ r[2] = "T7" /\ "SENT_RSC" \in c.flags
    BY DEF Repeats, Pending, Connected, Has
  <2>3. "SENT_RSC" \in c.flags => "T7" \notin c.timer
    BY DEF Sound, Justified
  <2>4. NotedEnd(c, kind) = Clear(d, F)
    BY <1>4 DEF NotedEnd
  <2>5. \A r \in Repeats : r[1] \in F => r[2] \notin d.timer
    BY <2>1, <2>2, <2>3
  <2> HIDE DEF d, F
  <2> QED
    BY <2>1, <2>4, <2>5, ClearSound
<1> QED
  BY <1>1, <1>2, <1>3, <1>4

LEMMA NotedAnswerSound ==
    ASSUME NEW c, Sound(c), NEW kind \in {"ACM", "CON", "ANM"}
    PROVE  Sound(NotedAnswer(c, kind))
<1>1. Sound(StopTimers(c, {"T7"}))
  BY StopSound
<1>2. \A f \in {"GOT_ACM", "GOT_CON"} : Sound(Mark(StopTimers(c, {"T7"}), {f}))
  BY <1>1, MarkSound DEF Flag, Connected
<1>3. Sound(Mark(c, {"GOT_ANM"}))
  BY MarkSound DEF Flag, Connected
<1> QED
  BY <1>2, <1>3 DEF NotedAnswer

LEMMA NotedCheckSound ==
    ASSUME NEW c, Sound(c), NEW m \in Message, m.kind \in {"CCR", "COT"}
    PROVE  Sound(NotedCheck(c, m))
<1>1. Sound(StopTimers(Mark(c, {"GOT_CCR"}), {"T27"}))
  BY MarkSound, StopSound DEF Flag, Pending
<1>2. \A F \in {{"GOT_CCR"}, {"GOT_IAM", "GOT_CCR"}} : Sound(StopTimers(Clear(c, F), {"T8"}))
  <2> TAKE F \in {{"GOT_CCR"}, {"GOT_IAM", "GOT_CCR"}}
  <2>1. Sound(Clear(c, F))
    BY ClearSound DEF Repeats
  <2> QED
    BY <2>1, StopSound
<1>3. Sound(StartTimer(StopTimers(Clear(c, {"GOT_IAM", "GOT_CCR"}), {"T8"}), "T27"))
  BY <1>2, FreeTimerSound
<1>4. m.yes \in BOOLEAN
  BY DEF Message
<1> QED
  BY <1>1, <1>2, <1>3, <1>4 DEF NotedCheck

LEMMA NotedCircuitsSound ==
    ASSUME NEW c, Sound(c), NEW kind \in {"BLA", "UBA", "CGBA", "CGUA"}
    PROVE  Sound(NotedCircuits(c, kind))
<1>1. \A T : /\ Sound(StopTimers(c, T))
             /\ StopTimers(c, T).timer = c.timer \ T
  BY StopSound
<1>2. Sound(Clear(StopTimers(c, {"T12", "T13"}), {"SENT_BLO"}))
  BY <1>1, ClearSound DEF Repeats
<1>3. Sound(Clear(StopTimers(c, {"T14", "T15"}), {"SENT_UBL"}))
  BY <1>1, ClearSound DEF Repeats
<1>4. Sound(ClearCallflags(c, {"SENT_CGB"})) /\ Sound(ClearCallflags(c, {"SENT_CGU"}))
  BY ClearCallflagsSound
<1> QED
  BY <1>2, <1>3, <1>4 DEF NotedCircuits

LEMMA NotedSound ==
    ASSUME NEW c, Sound(c), NEW m \in Message
    PROVE  Sound(Noted(c, m))
<1>1. Sound(NotedSuspend(c, m))
  BY FreeTimerSound, StopSound DEF NotedSuspend
<1>2. Sound(StartTimer(c, "T35"))
  BY FreeTimerSound
<1> QED
  BY <1>1, <1>2, NotedEndSound, NotedAnswerSound, NotedCheckSound, NotedCircuitsSound
     DEF Noted
LEMMA InfSound ==
    ASSUME NEW c, Sound(c), NEW m, NEW controls, NEW e
    PROVE  Result(Inf(c, m, controls, e))
<1> DEFINE d == StopTimers(c, {"T33"})
<1>1. Sound(d)
  BY StopSound
<1>2. Sound(Clear(d, {"SENT_INR"}))
  <2> HIDE DEF d
  <2> QED BY <1>1, ClearSound DEF Repeats
<1>3. Result(EventIam(Clear(d, {"SENT_INR"}), controls, e))
  <2> HIDE DEF d
  <2> QED BY <1>2, EventIamSound
<1> QED
  BY <1>3, RelSound, FreeIfClearSound DEF Inf

LEMMA HandledSound ==
    ASSUME NEW c, Sound(c), NEW m \in Message, NEW controls, NEW e \in Env
    PROVE  Result(Handled(c, m, controls, e))
<1>1. Result(EventIam(c, controls, e)) /\ Result(Unexpected(c, e))
  BY EventIamSound, UnexpectedSound
<1>2. Result(Inf(c, m, controls, e)) /\ Result(FreeIfClear(c))
  BY InfSound, FreeIfClearSound
<1>3. Result(Plain(c, "INF", e)) /\ Result(SendMessage(c, "RLC"))
  BY PlainSound, SendSound DEF Kind, Result
<1>4. Result(Unless(e.room, Noted(c, m)))
  BY NotedSound, UnlessSound DEF Result
<1>5. Result(c) /\ Result(NoCall)
  BY DEF Result
<1> QED
  BY <1>1, <1>2, <1>3, <1>4, <1>5 DEF Handled, BothReset

LEMMA ReceiveSound ==
    ASSUME NEW c, Result(c), NEW m \in Message, NEW controls, NEW e \in Env
    PROVE  Result(Receive(c, m, controls, e))
<1> DEFINE d == IF c = NoCall THEN NewCall ELSE c
<1>1. Sound(d)
  BY NewCallSound DEF Result
<1>2. Sound(Parsed(d, m))
  <2> HIDE DEF d
  <2> QED BY <1>1 DEF Parsed, Sound, Call, Justified, Message
<1>3. Receive(c, m, controls, e) = Handled(Parsed(d, m), m, controls, e)
  BY DEF Receive
<1> HIDE DEF d
<1> QED
  BY <1>2, <1>3, HandledSound

-------------------------------------------------------------------------------
(* Timers. *)

\* A message may be repeated as long as its timer's request is noted.
LEMMA AgainSound ==
    ASSUME NEW c, Sound(c), NEW m \in Kind, NEW t \in Timer \ {"T16", "T7"},
           \A r \in Repeats : r[2] = t => r[1] \in c.flags
    PROVE  Sound(Again(c, m, t)) /\ Again(c, m, t).flags = c.flags
<1> DEFINE d == SendMessage(c, m)
<1>1. Sound(d) /\ d.flags = c.flags
  BY SendSound
<1>2. Again(c, m, t) = StartTimer(d, t)
  BY DEF Again
<1> HIDE DEF d
<1> QED
  BY <1>1, <1>2, StartSound

LEMMA ResetAgainSound ==
    ASSUME NEW c, Sound(c)
    PROVE  Sound(ResetAgain(c))
<1> DEFINE d1 == StopAllTimers(c)
           d2 == Mark(d1, {"SENT_RSC"})
           d3 == SendMessage(d2, "RSC")
<1>1. Sound(d1) /\ d1.timer = {}
  BY StopAllSound
<1>2. Sound(d2) /\ "SENT_RSC" \in d2.flags
  <2> HIDE DEF d1
  <2> QED BY <1>1, MarkSound DEF Flag
<1>3. Sound(d3) /\ "SENT_RSC" \in d3.flags
  <2> HIDE DEF d2
  <2> QED BY <1>2, SendSound DEF Kind
<1>4. ResetAgain(c) = StartTimer(d3, "T17")
  BY DEF ResetAgain
<1> HIDE DEF d3
<1> QED
  BY <1>3, <1>4, StartSound DEF Repeats, Timer

LEMMA IntoT23Sound ==
    ASSUME NEW c, Sound(c)
    PROVE  Sound(IntoT23(c))
<1>1. Sound(StopTimers(c, {"T22"}))
  BY StopSound
<1>2. Sound(Again(StopTimers(c, {"T22"}), "GRS", "T23"))
  BY <1>1, AgainSound DEF Repeats, Timer, Kind, Reported
<1>3. Sound(StartTimer(Again(StopTimers(c, {"T22"}), "GRS", "T23"), "T22"))
  BY <1>2, StartSound DEF Repeats, Timer
<1> QED
  BY <1>3 DEF IntoT23

LEMMA TimedOutSound ==
    ASSUME NEW c, Sound(c), NEW t \in Timer \ {"T16"},
           \A r \in Repeats : r[2] = t => r[1] \in c.flags, NEW e
    PROVE  Result(TimedOut(c, t, e))
<1>1. \A T : Sound(StopTimers(c, T)) /\ StopTimers(c, T).flags = c.flags
  BY StopSound
<1>2. \A m \in Kind : \A T : t # "T7" =>
          /\ Sound(Again(c, m, t))
          /\ Sound(Again(StopTimers(c, T), m, t))
  BY <1>1, AgainSound
<1>3. \A m \in Kind : \A T : t # "T7" =>
          /\ Sound(IntoT23(Again(c, m, t)))
          /\ Sound(IntoT23(Again(StopTimers(c, T), m, t)))
  BY <1>2, IntoT23Sound
<1>4. Sound(Ask(c, "SEND_REL")) /\ Sound(ResetAgain(c))
  BY AskSound, ResetAgainSound
<1>5. Result(Unless(e.room, c)) /\ Result(Rsc(c, e)) /\ Result(Rel(c, e))
  BY UnlessSound, RscSound, RelSound DEF Result
<1>6. Result(Rel(Clear(c, {"SENT_INR"}), e))
  <2>1. Sound(Clear(c, {"SENT_INR"}))
    BY ClearSound DEF Repeats
  <2> QED
    BY <2>1, RelSound
<1>7. {"REL", "BLO", "UBL", "CGB", "CGU", "GRS"} \subseteq Kind
  BY DEF Kind, Reported
<1>8. CASE t \in {"T1", "T12", "T14", "T18", "T22"}
  BY <1>2, <1>7, <1>8 DEF TimedOut, Result
<1>9. CASE t \in {"T13", "T15", "T19", "T23"}
  BY <1>2, <1>7, <1>9 DEF TimedOut, Result
<1>10. CASE t \in {"T20", "T21"}
  BY <1>3, <1>7, <1>10 DEF TimedOut, Result
<1>11. CASE t \in {"T2", "T6", "T7", "T5", "T17"}
  BY <1>4, <1>11 DEF TimedOut, Result
<1>12. CASE t \in {"T10", "T27", "T33", "T8", "T35"}
  BY <1>5, <1>6, <1>12 DEF TimedOut
<1> QED
  BY <1>8, <1>9, <1>10, <1>11, <1>12 DEF Timer

\* A timer that runs out was justified.
LEMMA ExpiredSound ==
    ASSUME NEW c, Sound(c), NEW t \in c.timer, NEW e
    PROVE  Result(Expired(c, t, e))
<1> DEFINE d == StopTimers(c, {t})
<1>1. t \in Timer \ {"T16"} /\ \A r \in Repeats : r[2] = t => r[1] \in c.flags
  BY DEF Sound, Call, Justified
<1>2. Sound(d) /\ d.flags = c.flags
  BY StopSound
<1>3. Expired(c, t, e) = TimedOut(d, t, e)
  BY DEF Expired
<1> HIDE DEF d
<1> QED
  BY <1>1, <1>2, <1>3, TimedOutSound

-------------------------------------------------------------------------------
(* The application. *)

LEMMA ForgetSound ==
    ASSUME NEW c, Sound(c), NEW h
    PROVE  Sound([c EXCEPT !.asked = @ \ h])
BY DEF Sound, Call, Justified

LEMMA AfterUseSound ==
    ASSUME NEW c, Sound(c), NEW f, NEW e
    PROVE  Result(AfterUse(c, f, e))
<1>1. /\ Result(Acm(c, e)) /\ Result(Anm(c, e)) /\ Result(Con(c, e)) /\ Result(Cpg(c, e))
      /\ Result(Plain(c, "RLC", e)) /\ Result(Inr(c, e))
  BY AnswerSound, CpgSound, PlainSound, InrSound DEF Kind
<1>2. /\ Result(Blo(c, e)) /\ Result(Ubl(c, e)) /\ Result(Cgb(c, e)) /\ Result(Cgu(c, e))
      /\ Result(Grs(c, e))
  BY BlockingSound, GrsSound
<1>3. /\ Result(Rel([c EXCEPT !.asked = @ \ {"SEND_REL"}], e))
      /\ Result(Rsc([c EXCEPT !.asked = @ \ {"SEND_RSC"}], e))
  BY ForgetSound, RelSound, RscSound
<1>4. Result(EventIam(ClearCallflags([c EXCEPT !.asked = @ \ {"REEVENT_IAM"}],
                                     {"SENT_IAM", "PENDING_IAM"}),
                      Controls(PC, OPC, CIC), e))
  <2>1. Sound(ClearCallflags([c EXCEPT !.asked = @ \ {"REEVENT_IAM"}],
                             {"SENT_IAM", "PENDING_IAM"}))
    BY ForgetSound, ClearCallflagsSound
  <2> QED
    BY <2>1, EventIamSound
<1>5. Result(StartTimer(c, "T10")) /\ Result(FreeIfClear(c)) /\ Result(NoCall)
  BY FreeTimerSound, FreeIfClearSound DEF Result
<1> QED
  BY <1>1, <1>2, <1>3, <1>4, <1>5, Zenon DEF AfterUse

-------------------------------------------------------------------------------

IInv == Result(call) /\ silent \in BOOLEAN /\ topic \in Topic

LEMMA BecomesSound ==
    ASSUME NEW c, Result(c), Becomes(c)
    PROVE  Result(call')
BY DEF Becomes, Result, Sound, Call, Justified

LEMMA Invariance == IInv /\ [Next]_vars => IInv'
<1> SUFFICES ASSUME IInv, [Next]_vars PROVE IInv'
  OBVIOUS
<1> USE DEF IInv
<1>1. \A e \in Envs[topic] : e \in Env
  BY TopicAssumption
<1>2. CASE ReceiveMessage
  <2>1. PICK m \in PeerSends[topic], e \in Envs[topic] :
            Becomes(Receive(call, m, Controls(PC, OPC, CIC), e))
    BY <1>2 DEF ReceiveMessage
  <2>2. m \in Message
    BY TopicAssumption
  <2>3. Result(Receive(call, m, Controls(PC, OPC, CIC), e))
    BY <1>1, <2>2, ReceiveSound
  <2> QED
    BY <1>2, <2>1, <2>3, BecomesSound DEF ReceiveMessage
<1>3. CASE PeerFails
  BY <1>3 DEF PeerFails
<1>4. CASE MakeCall
  <2>1. PICK flags \in {{}, {"PENDING_IAM"}} : call' = [NewCall EXCEPT !.flags = flags]
    BY <1>4 DEF MakeCall
  <2>2. Sound(call')
    BY <2>1 DEF NewCall, Sound, Call, Justified, Flag, Pending, Cot
  <2> QED
    BY <1>4, <2>2 DEF MakeCall, Result
<1>5. CASE Dial
  <2>1. PICK e \in Envs[topic] : Becomes(Iam(call, e))
    BY <1>5 DEF Dial
  <2>2. Sound(call) /\ "SENT_RSC" \notin call.flags
    BY <1>5 DEF Dial, Flags, Result
  <2>3. Result(Iam(call, e))
    BY <2>2, IamSound
  <2> QED
    BY <1>5, <2>1, <2>3, BecomesSound DEF Dial
<1>6. CASE UseCall
  <2>1. PICK f \in Uses[topic] \ {"iam"}, e \in Envs[topic] : Becomes(AfterUse(call, f, e))
    BY <1>6 DEF UseCall
  <2>2. Sound(call)
    BY <1>6 DEF UseCall, Result
  <2>3. Result(AfterUse(call, f, e))
    BY <2>2, AfterUseSound
  <2> QED
    BY <1>6, <2>1, <2>3, BecomesSound DEF UseCall
<1>7. ASSUME NEW t \in Timer, Expire(t) PROVE IInv'
  <2>1. PICK e \in Envs[topic] : Becomes(Expired(call, t, e))
    BY <1>7 DEF Expire
  <2>2. Sound(call) /\ t \in call.timer
    BY <1>7 DEF Expire, Result
  <2>3. Result(Expired(call, t, e))
    BY <2>2, ExpiredSound
  <2> QED
    BY <1>7, <2>1, <2>3, BecomesSound DEF Expire
<1>8. CASE UNCHANGED vars
  BY <1>8 DEF vars
<1> QED
  BY <1>2, <1>3, <1>4, <1>5, <1>6, <1>7, <1>8 DEF Next

LEMMA InvariantHolds == Spec => []IInv
<1>1. Init => IInv
  BY DEF Init, IInv, Result
<1> QED
  BY <1>1, Invariance, PTL DEF Spec

\* A call is what struct isup_call can be, or was freed, whatever is received,
\* runs out or is done with it.
THEOREM TypeCorrect == Spec => []TypeOK
<1>1. IInv => TypeOK
  BY DEF IInv, TypeOK, Result, Sound
<1> QED
  BY <1>1, InvariantHolds, PTL

\* A timer that repeats a message runs only while the call waits for the answer
\* to that message.
THEOREM OnlyJustified == Spec => []TimersJustified
<1>1. IInv => TimersJustified
  BY DEF IInv, TimersJustified, Result, Sound, Justified
<1> QED
  BY <1>1, InvariantHolds, PTL
-------------------------------------------------------------------------------
(* A request is repeated until it is answered.  Of the timers of a request the *)
(* last one repeats it for ever, and what is done to a call falls into three   *)
(* kinds: it keeps every last timer, or it clears the flag of the request      *)
(* whose last timer it stops, or it resets the circuit.                        *)

Last == {"T5", "T13", "T15", "T17", "T19", "T21"}

Keeps(c, d)  == d = NoCall \/ c.timer \cap Last \subseteq d.timer
Drops(c, d)  == d = NoCall \/ \A r \in LastTimer :
                                  r[2] \in c.timer /\ r[1] \in d.flags => r[2] \in d.timer
Resets(d)    == \/ d = NoCall
                \/ "SENT_RSC" \in d.flags /\ d.timer = {"T17"} \cap Configured
                \/ "SENT_GRS" \in d.flags /\ d.timer = {"T22", "T23"} \cap Configured
Goes(c, d)   == Keeps(c, d) \/ Drops(c, d) \/ Resets(d)

LEMMA KeepsTransitive ==
    ASSUME NEW c, NEW d, NEW f, d # NoCall, Keeps(c, d), Keeps(d, f)
    PROVE  Keeps(c, f)
BY DEF Keeps

LEMMA KeepsUnless ==
    ASSUME NEW ok, NEW c, NEW d, Keeps(c, d)
    PROVE  Keeps(c, Unless(ok, d))
BY DEF Keeps, Unless

\* What the functions that send do to the timers: they stop none of the last
\* ones, except the two that reset.
LEMMA SendingKeeps ==
    ASSUME NEW c, Sound(c), NEW e
    PROVE  /\ Keeps(c, Blo(c, e)) /\ Keeps(c, Ubl(c, e))
           /\ Keeps(c, Cgb(c, e)) /\ Keeps(c, Cgu(c, e))
           /\ Keeps(c, Iam(c, e)) /\ Keeps(c, Inr(c, e))
           /\ Keeps(c, Acm(c, e)) /\ Keeps(c, Anm(c, e)) /\ Keeps(c, Con(c, e))
           /\ Keeps(c, Cpg(c, e)) /\ Keeps(c, Rel(c, e))
           /\ \A m : Keeps(c, Plain(c, m, e))
<1> USE DEF Sound, Call, Mark, Clear, StartTimer, StopTimers, SendMessage, Request
<1>1. \A m, f, t1, t2 : Keeps(c, Request(c, m, f, t1, t2))
  BY DEF Keeps
<1>2. /\ Keeps(c, Blo(c, e)) /\ Keeps(c, Ubl(c, e))
      /\ Keeps(c, Cgb(c, e)) /\ Keeps(c, Cgu(c, e))
  BY ZenonT(60), <1>1, KeepsUnless DEF Blo, Ubl, Cgb, Cgu
<1>3. Keeps(c, Iam(c, e))
  BY DEF Iam, Keeps, Unless
<1>4. Keeps(c, Inr(c, e))
  BY DEF Inr, Keeps, Unless
<1>5. \A m, f : Keeps(c, Answer(c, m, f, e))
  BY DEF Answer, Keeps, Unless, Last
<1>6. Keeps(c, Cpg(c, e))
  BY DEF Cpg, Keeps, Unless, Last
<1>7. Keeps(c, Rel(c, e))
  BY DEF Rel, Keeps, Unless, Last
<1>8. \A m : Keeps(c, Plain(c, m, e))
  BY DEF Plain, Keeps, Unless
<1> QED
  BY <1>2, <1>3, <1>4, <1>5, <1>6, <1>7, <1>8 DEF Acm, Anm, Con

LEMMA SendingResets ==
    ASSUME NEW c, Sound(c), NEW e
    PROVE  Resets(Grs(c, e)) /\ Resets(Rsc(c, e)) /\ Resets(ResetAgain(c))
<1> USE DEF Sound, Call, Mark, StartTimer, StopAllTimers, SendMessage, Unless, Resets
<1>1. Resets(Grs(c, e))
  <2> DEFINE f == Mark(SendMessage(StopAllTimers(c), "GRS"), {"SENT_GRS"})
             g == StartTimer(f, "T22")
             h == StartTimer(g, "T23")
  <2>1. f.timer = {} /\ "SENT_GRS" \in f.flags /\ "timer" \in DOMAIN f
    OBVIOUS
  <2>2. Grs(c, e) = Unless(e.sent, h)
    BY DEF Grs, Request
  <2> HIDE DEF f
  <2>3. g.timer = {"T22"} \cap Configured /\ g.flags = f.flags /\ "timer" \in DOMAIN g
    BY <2>1
  <2> HIDE DEF g
  <2>4. h.timer = g.timer \cup ({"T23"} \cap Configured) /\ h.flags = g.flags
    BY <2>3
  <2>5. h.timer = {"T22", "T23"} \cap Configured
    BY <2>3, <2>4
  <2> HIDE DEF h
  <2> QED
    BY <2>1, <2>2, <2>3, <2>4, <2>5
<1>2. Resets(Rsc(c, e))
  BY DEF Rsc
<1>3. Resets(ResetAgain(c))
  BY DEF ResetAgain
<1> QED
  BY <1>1, <1>2, <1>3

LEMMA EventIamKeeps ==
    ASSUME NEW c, Sound(c), NEW controls, NEW e
    PROVE  Keeps(c, EventIam(c, controls, e))
<1>1. Sound(Mark(c, {"GOT_IAM"})) /\ Mark(c, {"GOT_IAM"}).timer = c.timer
  BY MarkSound DEF Flag, Pending
<1>2. Keeps(c, Mark(c, {"GOT_IAM"}))
  BY <1>1 DEF Keeps
<1>3. Mark(c, {"GOT_IAM"}) # NoCall
  BY DEF Sound, Call, Mark, NoCall
<1>4. Keeps(c, Inr(Mark(c, {"GOT_IAM"}), e))
  BY <1>1, <1>2, <1>3, SendingKeeps, KeepsTransitive
<1>5. Keeps(c, Ask(Mark(c, {"GOT_IAM"}), "REEVENT_IAM"))
  BY DEF Sound, Call, Mark, Ask, Keeps
<1> DEFINE digits == IF e.complete THEN c ELSE StartTimer(c, "T35")
           timed  == IF c.cot = {} THEN digits ELSE StartTimer(digits, "T8")
<1>6. Keeps(c, Report(Mark(timed, {"GOT_IAM"})))
  BY DEF Sound, Call, Mark, StartTimer, Report, Keeps
<1>7. \/ EventIam(c, controls, e) = c
      \/ EventIam(c, controls, e) = Ask(Mark(c, {"GOT_IAM"}), "REEVENT_IAM")
      \/ EventIam(c, controls, e) = Inr(Mark(c, {"GOT_IAM"}), e)
      \/ EventIam(c, controls, e) = Unless(e.room, Report(Mark(timed, {"GOT_IAM"})))
  BY Zenon DEF EventIam
<1>8. Keeps(c, c)
  BY DEF Keeps
<1> HIDE DEF timed
<1> QED
  BY <1>4, <1>5, <1>6, <1>7, <1>8, KeepsUnless

\* What is stopped with the answer to a request is no longer asked for.
LEMMA NotedGoes ==
    ASSUME NEW c, Sound(c), NEW m \in Message
    PROVE  Keeps(c, Noted(c, m)) \/ Drops(c, Noted(c, m))
<1> USE DEF Sound, Call, Mark, Clear, StartTimer, StopTimers, StopAllTimers
<1>1. CASE m.kind = "GRA"
  BY <1>1 DEF Noted, NotedEnd, Keeps, Last
<1>2. CASE m.kind = "RSC"
  BY <1>2 DEF Noted, NotedEnd, Drops
<1>3. CASE m.kind = "REL"
  BY <1>3 DEF Noted, NotedEnd, Keeps, Last
<1>4. CASE m.kind = "RLC"
  <2> DEFINE d == StopTimers(c, {"T1", "T2", "T5", "T6", "T16", "T17"})
             F == {"SENT_REL", "SENT_RSC"} \cup
                  IF Has(c, {"SENT_RSC"}) THEN Connected \cup Pending ELSE {}
  <2>1. Noted(c, m) = Clear(d, F)
    BY <1>4 DEF Noted, NotedEnd
  <2>2. d \in Call /\ d.timer = c.timer \ {"T1", "T2", "T5", "T6", "T16", "T17"}
    OBVIOUS
  <2>3. {"SENT_REL", "SENT_RSC"} \subseteq F
    OBVIOUS
  <2> HIDE DEF d, F
  <2>4. Clear(d, F).timer = d.timer /\ {"SENT_REL", "SENT_RSC"} \cap Clear(d, F).flags = {}
    BY <2>2, <2>3
  <2> QED
    BY <2>1, <2>2, <2>4 DEF Drops, LastTimer
<1>5. CASE m.kind \in {"ACM", "CON", "ANM"}
  BY <1>5 DEF Noted, NotedAnswer, Keeps, Last
<1>6. CASE m.kind \in {"COT", "CCR"}
  BY <1>6 DEF Noted, NotedCheck, Keeps, Last, Message
<1>7. CASE m.kind \in {"BLA", "UBA"}
  BY <1>7 DEF Noted, NotedCircuits, Drops, LastTimer
<1>8. CASE m.kind \in {"CGBA", "CGUA"}
  BY <1>8 DEF Noted, NotedCircuits, ClearCallflags, Drops, LastTimer
<1>9. CASE m.kind \in {"SUS", "RES"}
  BY <1>9 DEF Noted, NotedSuspend, Keeps, Last
<1>10. CASE m.kind = "SAM"
  BY <1>10 DEF Noted, Keeps
<1>11. CASE m.kind \notin {"GRA", "RSC", "REL", "RLC", "ACM", "CON", "ANM", "COT", "CCR",
                           "BLA", "UBA", "CGBA", "CGUA", "SUS", "RES", "SAM"}
  BY <1>11 DEF Noted, Keeps
<1> QED
  BY <1>1, <1>2, <1>3, <1>4, <1>5, <1>6, <1>7, <1>8, <1>9, <1>10, <1>11

LEMMA InfKeeps ==
    ASSUME NEW c, Sound(c), NEW m, NEW controls, NEW e
    PROVE  Keeps(c, Inf(c, m, controls, e))
<1> DEFINE d == Clear(StopTimers(c, {"T33"}), {"SENT_INR"})
<1>1. Sound(StopTimers(c, {"T33"}))
  BY StopSound
<1>2. Sound(d)
  BY <1>1, ClearSound DEF Repeats
<1>3. Keeps(c, d) /\ d # NoCall
  BY DEF Keeps, Sound, Call, Clear, StopTimers, Last, NoCall
<1>4. Keeps(c, Rel(c, e)) /\ Keeps(c, FreeIfClear(c))
  BY SendingKeeps DEF Keeps, FreeIfClear
<1>5. Inf(c, m, controls, e) \in {Rel(c, e), FreeIfClear(c), EventIam(d, controls, e)}
  BY DEF Inf
<1> HIDE DEF d
<1>6. Keeps(c, EventIam(d, controls, e))
  BY <1>2, <1>3, EventIamKeeps, KeepsTransitive
<1> QED
  BY <1>4, <1>5, <1>6

LEMMA ReceiveGoes ==
    ASSUME NEW c, Sound(c), NEW m \in Message, NEW controls, NEW e \in Env
    PROVE  Goes(c, Receive(c, m, controls, e))
<1> DEFINE d == Parsed(c, m)
<1>1. Sound(d) /\ d.timer = c.timer
  BY DEF Parsed, Sound, Call, Justified, Message
<1>2. Receive(c, m, controls, e) = Handled(d, m, controls, e)
  BY DEF Receive, Sound, Call, NoCall
<1> HIDE DEF d
<1>3. Goes(d, Handled(d, m, controls, e))
  <2>1. Keeps(d, EventIam(d, controls, e)) /\ Keeps(d, Inf(d, m, controls, e))
    BY <1>1, EventIamKeeps, InfKeeps
  <2>2. Keeps(d, d) /\ Keeps(d, NoCall) /\ Keeps(d, FreeIfClear(d))
    BY DEF Keeps, FreeIfClear
  <2>3. Goes(d, Unexpected(d, e))
    <3>1. Keeps(d, Ask(d, "SEND_RSC"))
      BY <1>1 DEF Sound, Call, Ask, Keeps
    <3>2. e.cic \in {"IDLE", "USED", "NOT_EXISTS"}
      BY DEF Env
    <3> QED
      BY <1>1, <2>2, <3>1, <3>2, SendingResets DEF Unexpected, Goes
  <2>4. Keeps(d, Plain(d, "INF", e)) /\ Keeps(d, BothReset(d, e))
    BY <1>1, SendingKeeps DEF BothReset, Keeps, Sound, Call, SendMessage
  <2>5. Goes(d, Unless(e.room, Noted(d, m)))
    BY <1>1, NotedGoes DEF Unless, Goes, Keeps
  <2> QED
    BY <2>1, <2>2, <2>3, <2>4, <2>5 DEF Handled, Goes
<1> QED
  BY <1>1, <1>2, <1>3 DEF Goes, Keeps, Drops

\* A timer that repeats a message is started again: it was configured, or it
\* would not have run.
LEMMA ExpiredGoes ==
    ASSUME NEW c, Sound(c), NEW t \in c.timer, NEW e
    PROVE  Goes(c, Expired(c, t, e))
<1> DEFINE d == StopTimers(c, {t})
<1> USE DEF Goes
<1>1. t \in Configured /\ t \in Timer \ {"T16"}
  BY DEF Sound, Call, Justified
<1>2. Sound(d) /\ d.timer = c.timer \ {t}
  BY StopSound
<1>3. Expired(c, t, e) = TimedOut(d, t, e)
  BY DEF Expired
<1> HIDE DEF d
<1>4. \A m, T : T \cap Last = {} =>
          /\ Again(StopTimers(d, T), m, t).timer \in SUBSET Timer
          /\ c.timer \cap Last \subseteq Again(StopTimers(d, T), m, t).timer
  BY <1>1, <1>2 DEF Again, StopTimers, SendMessage, StartTimer, Sound, Call
<1>5. \A m : c.timer \cap Last \subseteq Again(d, m, t).timer
  BY <1>1, <1>2 DEF Again, SendMessage, StartTimer, Sound, Call
<1>6. \A f \in Call : f.timer \cap Last \subseteq IntoT23(f).timer
  BY DEF IntoT23, Again, StopTimers, SendMessage, StartTimer, Call, Last
<1>7. CASE t \in {"T1", "T12", "T14", "T18", "T22"}
  BY <1>3, <1>5, <1>7 DEF TimedOut, Keeps
<1>8. CASE t \in {"T13", "T15", "T19", "T23"}
  BY <1>3, <1>4, <1>8 DEF TimedOut, Keeps, Last
<1>9. CASE t \in {"T20", "T21"}
  <2>1. \A r \in Repeats : r[2] = t => r[1] \in d.flags
    BY StopSound DEF Sound, Justified, d
  <2>2. Sound(Again(d, "CGU", t)) /\ Sound(Again(StopTimers(d, {"T20"}), "CGU", t))
    BY <1>1, <1>2, <1>9, <2>1, StopSound, AgainSound DEF Kind, Reported
  <2>3. {"T20"} \cap Last = {}
    BY DEF Last
  <2>4. /\ c.timer \cap Last \subseteq IntoT23(Again(d, "CGU", t)).timer
        /\ c.timer \cap Last \subseteq IntoT23(Again(StopTimers(d, {"T20"}), "CGU", t)).timer
    BY <1>4, <1>5, <1>6, <2>2, <2>3 DEF Sound
  <2> QED
    BY <1>3, <1>9, <2>4 DEF TimedOut, Keeps
<1>10. CASE t \in {"T2", "T6", "T7"}
  BY <1>2, <1>3, <1>10 DEF TimedOut, Keeps, Last, Ask, Sound, Call
<1>11. CASE t \in {"T5", "T17", "T27"}
  BY <1>2, <1>3, <1>11, SendingResets DEF TimedOut
<1>12. CASE t \in {"T10", "T8", "T35"}
  BY <1>2, <1>3, <1>12, SendingKeeps DEF TimedOut, Unless, Keeps, Last
<1>13. CASE t = "T33"
  <2>1. Sound(Clear(d, {"SENT_INR"})) /\ Clear(d, {"SENT_INR"}).timer = d.timer
    BY <1>2, ClearSound DEF Repeats
  <2> QED
    BY <1>2, <1>3, <1>13, <2>1, SendingKeeps DEF TimedOut, Keeps, Last
<1> QED
  BY <1>1, <1>7, <1>8, <1>9, <1>10, <1>11, <1>12, <1>13 DEF Timer

LEMMA AfterUseGoes ==
    ASSUME NEW c, Sound(c), NEW f, NEW e
    PROVE  Goes(c, AfterUse(c, f, e))
<1> USE DEF Goes
<1>1. \A h : LET d == [c EXCEPT !.asked = @ \ h] IN Sound(d) /\ d.timer = c.timer
  BY ForgetSound DEF Sound, Call
<1>2. /\ Goes(c, Rel([c EXCEPT !.asked = @ \ {"SEND_REL"}], e))
      /\ Goes(c, Rsc([c EXCEPT !.asked = @ \ {"SEND_RSC"}], e))
  BY <1>1, SendingKeeps, SendingResets DEF Keeps
<1>3. Goes(c, EventIam(ClearCallflags([c EXCEPT !.asked = @ \ {"REEVENT_IAM"}],
                                      {"SENT_IAM", "PENDING_IAM"}),
                       Controls(PC, OPC, CIC), e))
  <2> DEFINE d == [c EXCEPT !.asked = @ \ {"REEVENT_IAM"}]
             g == ClearCallflags(d, {"SENT_IAM", "PENDING_IAM"})
  <2>1. Sound(d) /\ d.timer = c.timer
    BY <1>1
  <2>2. Sound(g)
    <3> HIDE DEF d
    <3> QED BY <2>1, ClearCallflagsSound
  <2>3. c.timer \cap Last \subseteq g.timer
    <3> HIDE DEF d
    <3> QED BY <2>1 DEF ClearCallflags, Clear, StopTimers, Sound, Call, Last
  <2>4. Keeps(c, EventIam(g, Controls(PC, OPC, CIC), e))
    <3> HIDE DEF g
    <3>1. Keeps(g, EventIam(g, Controls(PC, OPC, CIC), e))
      BY <2>2, EventIamKeeps
    <3> QED
      BY <2>3, <3>1 DEF Keeps
  <2> QED
    BY <2>4
<1>4. Keeps(c, StartTimer(c, "T10")) /\ Keeps(c, FreeIfClear(c)) /\ Keeps(c, NoCall)
  BY DEF Keeps, StartTimer, FreeIfClear, Sound, Call
<1> QED
  BY <1>2, <1>3, <1>4, SendingKeeps, SendingResets, Zenon DEF AfterUse

LEMMA GoesOn ==
    ASSUME NEW c, Sound(c), NEW d, Result(d), Goes(c, d), call = c, Becomes(d), call' # NoCall
    PROVE  \A r \in LastTimer : r[2] \in call.timer /\ r[1] \in call.flags \cap call'.flags
                                    => r[2] \in call'.timer \/ IsReset
<1>1. d # NoCall /\ call'.timer = d.timer /\ call'.flags = d.flags
  BY DEF Becomes, Result, Sound, Call
<1>2. \A r \in LastTimer : r[2] \in Last
  BY DEF LastTimer, Last
<1> QED
  BY <1>1, <1>2 DEF Goes, Keeps, Drops, Resets, IsReset

\* While a request waits for its answer its last timer goes on, whatever the
\* peer sends, the application does and whichever timer runs out, unless the
\* circuit is reset.
THEOREM AsksUntilAnswered == Spec => KeepsAsking
<1> DEFINE Goal == call # NoCall /\ call' # NoCall =>
                       \A r \in LastTimer :
                           r[2] \in call.timer /\ r[1] \in call.flags \cap call'.flags
                               => r[2] \in call'.timer \/ IsReset
<1>1. IInv /\ [Next]_vars => [Goal]_vars
  <2> SUFFICES ASSUME IInv, Next, call # NoCall, call' # NoCall PROVE Goal
    BY DEF vars
  <2>1. Sound(call) /\ \A e \in Envs[topic] : e \in Env
    BY TopicAssumption DEF IInv, Result
  <2> HIDE DEF Goal
  <2>2. ASSUME NEW d, Result(d), Goes(call, d), Becomes(d) PROVE Goal
    BY <2>1, <2>2, GoesOn DEF Goal
  <2>3. CASE ReceiveMessage
    <3>1. PICK m \in PeerSends[topic], e \in Envs[topic] :
              Becomes(Receive(call, m, Controls(PC, OPC, CIC), e))
      BY <2>3 DEF ReceiveMessage
    <3>2. m \in Message
      BY TopicAssumption DEF IInv
    <3>3. /\ Result(Receive(call, m, Controls(PC, OPC, CIC), e))
          /\ Goes(call, Receive(call, m, Controls(PC, OPC, CIC), e))
      BY <2>1, <3>2, ReceiveSound, ReceiveGoes DEF Result
    <3> QED
      BY <2>2, <3>1, <3>3
  <2>4. CASE PeerFails \/ MakeCall
    <3>1. call' = call
      BY <2>4 DEF PeerFails, MakeCall
    <3> QED
      BY <3>1 DEF Goal
  <2>5. CASE Dial
    <3>1. PICK e \in Envs[topic] : Becomes(Iam(call, e))
      BY <2>5 DEF Dial
    <3>2. Sound(call) /\ "SENT_RSC" \notin call.flags
      BY <2>1, <2>5 DEF Dial, Flags
    <3>3. Result(Iam(call, e)) /\ Goes(call, Iam(call, e))
      BY <3>2, IamSound, SendingKeeps DEF Goes
    <3> QED
      BY <2>2, <3>1, <3>3
  <2>6. CASE UseCall
    <3>1. PICK f \in Uses[topic] \ {"iam"}, e \in Envs[topic] : Becomes(AfterUse(call, f, e))
      BY <2>6 DEF UseCall
    <3>2. Result(AfterUse(call, f, e)) /\ Goes(call, AfterUse(call, f, e))
      BY <2>1, AfterUseSound, AfterUseGoes
    <3> QED
      BY <2>2, <3>1, <3>2
  <2>7. ASSUME NEW t \in Timer, Expire(t) PROVE Goal
    <3>1. PICK e \in Envs[topic] : Becomes(Expired(call, t, e))
      BY <2>7 DEF Expire
    <3>2. t \in call.timer
      BY <2>7 DEF Expire
    <3>3. Result(Expired(call, t, e)) /\ Goes(call, Expired(call, t, e))
      BY <2>1, <3>2, ExpiredSound, ExpiredGoes
    <3> QED
      BY <2>2, <3>1, <3>3
  <2> QED
    BY <2>3, <2>4, <2>5, <2>6, <2>7 DEF Next
<1> QED
  BY <1>1, InvariantHolds, PTL DEF Spec, KeepsAsking

\* When both ends seize a circuit exactly one of them goes by the rule that its
\* own call stays (isup_event_iam): each has the other's point code as its OPC.
THEOREM OneEndControls ==
    ASSUME NEW a \in Nat, NEW b \in Nat, a # b, NEW cic \in Nat
    PROVE  Controls(a, b, cic) # Controls(b, a, cic)
<1>1. cic % 2 \in {0, 1}
  OBVIOUS
<1>2. (a > b) # (b > a)
  OBVIOUS
<1> QED
  BY <1>1, <1>2 DEF Controls
===============================================================================
