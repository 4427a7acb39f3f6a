------------------------------ MODULE IsupCircuit ------------------------------
(***************************************************************************)
(* One circuit of one end: any peer, which may send any message at any     *)
(* time and may fail for good, the timers, and an application that calls   *)
(* the functions of libss7.h on the call as it likes, with two             *)
(* restrictions.  It makes no second call for a circuit that has one (the  *)
(* library would find the first of them only), and it dials only on a      *)
(* call it has made for that, neither released nor reset and with no       *)
(* incoming call on the circuit.                                           *)
(***************************************************************************)
EXTENDS Isup

CONSTANTS PC, OPC, CIC, \* the point codes of the two ends and the circuit's code
          Topic,        \* what the two ends may be busy with on the circuit
          PeerSends,    \* for each, the messages the peer may send,
          Uses,         \* the functions the application uses
          Envs          \* and what may happen around a call

ASSUME CircuitAssumption == PC \in Nat /\ OPC \in Nat /\ CIC \in Nat /\ PC # OPC
ASSUME TopicAssumption ==
    /\ PeerSends \in [Topic -> SUBSET Message]
    /\ Envs \in [Topic -> SUBSET Env]

VARIABLES call,         \* the call that isup_find_call finds for the circuit, if any
          silent,       \* whether the peer has stopped sending
          topic         \* what this peer and this application are busy with

vars == <<call, silent, topic>>

TypeOK == call \in Call \cup {NoCall} /\ silent \in BOOLEAN /\ topic \in Topic

Init == call = NoCall /\ silent = FALSE /\ topic \in Topic

\* What is sent does not matter here.
Becomes(c) == call' = IF c = NoCall THEN c ELSE [c EXCEPT !.out = {}]

Flags == IF call = NoCall THEN {} ELSE call.flags

-------------------------------------------------------------------------------

\* mtp3_receive -> isup_receive
ReceiveMessage ==
    /\ ~ silent
    /\ \E m \in PeerSends[topic], e \in Envs[topic] :
           Becomes(Receive(call, m, Controls(PC, OPC, CIC), e))
    /\ UNCHANGED <<silent, topic>>

PeerFails == ~ silent /\ silent' = TRUE /\ UNCHANGED <<call, topic>>

\* ss7_schedule_run
Expire(t) ==
    /\ call # NoCall /\ t \in call.timer
    /\ \E e \in Envs[topic] : Becomes(Expired(call, t, e))
    /\ UNCHANGED <<silent, topic>>

\* isup_new_call, for an outgoing call or to block, unblock or reset circuits
MakeCall ==
    /\ call = NoCall
    /\ \E flags \in {{}, {"PENDING_IAM"}} : call' = [NewCall EXCEPT !.flags = flags]
    /\ UNCHANGED <<silent, topic>>

Dial ==
    /\ "iam" \in Uses[topic]
    /\ "PENDING_IAM" \in Flags
    /\ Flags \cap {"GOT_IAM", "SENT_REL", "SENT_RSC", "SENT_GRS"} = {}
    /\ \E e \in Envs[topic] : Becomes(Iam(call, e))
    /\ UNCHANGED <<silent, topic>>

\* The call after one of the other functions.
AfterUse(c, f, e) ==
    CASE f = "acm"   -> Acm(c, e)
      [] f = "anm"   -> Anm(c, e)
      [] f = "con"   -> Con(c, e)
      [] f = "cpg"   -> Cpg(c, e)
      [] f = "rlc"   -> Plain(c, "RLC", e)
      [] f = "inr"   -> Inr(c, e)
      [] f = "blo"   -> Blo(c, e)
      [] f = "ubl"   -> Ubl(c, e)
      [] f = "cgb"   -> Cgb(c, e)
      [] f = "cgu"   -> Cgu(c, e)
      [] f = "grs"   -> Grs(c, e)
      [] f = "rel"   -> Rel([c EXCEPT !.asked = @ \ {"SEND_REL"}], e)
      [] f = "rsc"   -> Rsc([c EXCEPT !.asked = @ \ {"SEND_RSC"}], e)
      [] f = "event_iam" ->
             EventIam(ClearCallflags([c EXCEPT !.asked = @ \ {"REEVENT_IAM"}],
                                     {"SENT_IAM", "PENDING_IAM"}),
                      Controls(PC, OPC, CIC), e)
      [] f = "digittimeout"  -> StartTimer(c, "T10")
      [] f = "free_if_clear" -> FreeIfClear(c)
      [] OTHER -> NoCall

\* Whatever else the application does with a call; isup_event_iam only when it
\* was told to, after it gave its own call up.
UseCall ==
    /\ call # NoCall
    /\ \E f \in Uses[topic] \ {"iam"}, e \in Envs[topic] :
           /\ f = "event_iam" => "REEVENT_IAM" \in call.asked
           /\ Becomes(AfterUse(call, f, e))
    /\ UNCHANGED <<silent, topic>>

Next ==
    \/ ReceiveMessage \/ PeerFails \/ MakeCall \/ Dial \/ UseCall
    \/ \E t \in Timer : Expire(t)

Spec == Init /\ [][Next]_vars

\* The main loop runs the timers.  (A timer that is started again and again
\* would never run out, which this leaves out: the properties below are about
\* a peer that has fallen silent.)
FairSpec == Spec /\ \A t \in Timer : WF_vars(Expire(t))

-------------------------------------------------------------------------------
(* Properties. *)

\* The requests and the timers that repeat or end them.
Repeats == {<<"SENT_REL", "T1">>, <<"SENT_REL", "T5">>, <<"SENT_IAM", "T7">>,
            <<"SENT_BLO", "T12">>, <<"SENT_BLO", "T13">>,
            <<"SENT_UBL", "T14">>, <<"SENT_UBL", "T15">>, <<"SENT_RSC", "T17">>,
            <<"SENT_CGB", "T18">>, <<"SENT_CGB", "T19">>,
            <<"SENT_CGU", "T20">>, <<"SENT_CGU", "T21">>}

\* What is answered, given up or cleared is not sent again: a timer runs only
\* for a request that waits for its answer, whatever else happened on the
\* circuit.  (Not so for T22 and T23, which the code of T20 and T21 starts as
\* well, and for T8, T27, T33 and T35, which outlive a call that is released
\* by the peer.)
TimersJustified ==
    call # NoCall =>
        \A r \in Repeats : r[2] \in call.timer => r[1] \in call.flags

\* The timers of a reset have taken the place of all the others.
IsReset ==
    \/ "SENT_RSC" \in call'.flags /\ call'.timer = {"T17"} \cap Configured
    \/ "SENT_GRS" \in call'.flags /\ call'.timer = {"T22", "T23"} \cap Configured

\* The last of the timers of a request, which goes on until the answer comes.
LastTimer == {<<"SENT_REL", "T5">>, <<"SENT_BLO", "T13">>, <<"SENT_UBL", "T15">>,
              <<"SENT_RSC", "T17">>, <<"SENT_CGB", "T19">>, <<"SENT_CGU", "T21">>}

\* A request is repeated until it is answered: while it waits for its answer
\* nothing stops its last timer but a reset of the circuit.
KeepsAsking ==
    [][call # NoCall /\ call' # NoCall =>
        \A r \in LastTimer :
            r[2] \in call.timer /\ r[1] \in call.flags \cap call'.flags
                => r[2] \in call'.timer \/ IsReset]_vars

NoGroupReset == []("SENT_GRS" \notin Flags)

\* When the peer no longer answers, a release turns into a reset (T5), unless
\* the circuit is taken into a group reset.
ReleaseEscalates ==
    NoGroupReset =>
        (silent /\ "SENT_REL" \in Flags ~> "SENT_REL" \notin Flags \/ "SENT_RSC" \in Flags)

\* ... and a call that was not answered ends, or the application is told to
\* end it (T7).
SetupEnds ==
    NoGroupReset =>
        (silent /\ "SENT_IAM" \in Flags /\ Flags \cap Connected = {}
            ~> \/ "SENT_IAM" \notin Flags
               \/ "SENT_RSC" \in Flags
               \/ "SEND_REL" \in call.asked)
===============================================================================
