------------------------------- MODULE IsupCodec -------------------------------
(***************************************************************************)
(* The parameters of a call (the data of struct isup_call) and what isup.c *)
(* makes of them: the octets of a message (isup_send_message), the call    *)
(* after a message (the first part of isup_receive), what an event tells   *)
(* the application, and the functions by which it sets them.               *)
(*                                                                         *)
(* An octet is a number below 256, a digit one below 16, '#' being 15; a   *)
(* character that is not sent as a digit is its code.  The fields of one   *)
(* parameter form a record.                                                *)
(***************************************************************************)
EXTENDS Integers, Sequences
LOCAL INSTANCE SequencesExt
LOCAL INSTANCE FiniteSetsExt

CONSTANTS CauseLocation,   \* cause_location of the instance
          IsdnAccess       \* SS7_ISDN_ACCESS_INDICATOR among its flags

ASSUME CauseLocationAssumption == CauseLocation \in 0..15
ASSUME IsdnAccessAssumption == IsdnAccess \in BOOLEAN

SwitchType == {"ITU", "ANSI"}

\* SS7_PRESENTATION_ADDR_NOT_AVAILABLE
NotAvailable == 2

NoAddress == [num |-> <<>>, nai |-> 0, pres |-> 0, screen |-> 0]
NoGroup   == [endcic |-> 0, type |-> 0, status |-> {}]

\* __isup_new_call: calloc and init_isup_call
NewParms ==
    [called |-> [num |-> <<>>, nai |-> 0], calling |-> NoAddress,
     redirecting |-> NoAddress, orig_called |-> NoAddress, connected |-> NoAddress,
     charge |-> [num |-> <<>>, nai |-> 0, plan |-> 0],
     gen_add |-> [num |-> <<>>, nai |-> 0, plan |-> 0, pres |-> 0, type |-> 0],
     gen_dig |-> [num |-> <<>>, type |-> 0, scheme |-> 0],
     generic_name |-> [chars |-> <<>>, typeofname |-> 0, avail |-> 0, pres |-> 0],
     jip |-> <<>>, lspi |-> [ident |-> <<>>, type |-> 0, scheme |-> 0, context |-> 0],
     oli |-> -1, call_ref |-> [ident |-> 0, pc |-> 0],
     redirect_counter |-> 0,
     redirect_info |-> [on |-> 0, ind |-> 0, orig_reas |-> 0, counter |-> 0, reas |-> 0],
     cat |-> 10, transcap |-> 0, col_req |-> 0,
     cug |-> [ind |-> 0, ni |-> <<0, 0, 0, 0>>, code |-> 0],
     interworking |-> 0, pmbits |-> 0, local_echo |-> 0, echo |-> 0,
     called_status |-> 0, event_info |-> 0, network |-> 0,
     inr |-> <<0, 0>>, inf |-> <<0, 0>>,
     cause |-> [cause |-> 0, code |-> 0, loc |-> 0],
     cot |-> {},                          \* those of required, previous, passed that are set
     range |-> 0, type |-> 0, status |-> {},    \* the circuits whose status is 1
     sent_cgb |-> NoGroup, sent_cgu |-> NoGroup, sent_grs |-> 0]

-------------------------------------------------------------------------------
(* Octets. *)

Bits(x, low, n) == (x \div 2^low) % 2^n
Flag1(b) == IF b THEN 1 ELSE 0

\* parm[i]; and the octets of a parameter of length len from parm[i] on
At(b, i)        == b[i + 1]
From(b, i, len) == SubSeq(b, i + 1, len)

Odd(num) == Len(num) % 2

\* isup_put_number: two digits to an octet, the first one low
PutNumber(num) ==
    [i \in 1..(Len(num) + 1) \div 2 |->
        num[2*i - 1] + IF 2*i <= Len(num) THEN 16 * num[2*i] ELSE 0]

\* Variant: the filler is taken for a digit.
GetNumberFilled(src, oddeven) ==
    IF oddeven < 2 THEN [i \in 1..(2 * Len(src)) |-> Bits(src[(i + 1) \div 2], 4 * ((i + 1) % 2), 4)]
    ELSE src

\* isup_get_number: oddeven 2 and more for characters
GetNumber(src, oddeven) ==
    IF oddeven < 2
    THEN [i \in 1..(2 * Len(src) - oddeven) |-> Bits(src[(i + 1) \div 2], 4 * ((i + 1) % 2), 4)]
    ELSE src

\* The layout shared by the calling, connected, redirecting and original called number.
PutAddress(a, plan) ==
    <<128 * Odd(a.num) + a.nai, 16 * plan + 4 * a.pres + a.screen>> \o PutNumber(a.num)
GetAddress(b, len) ==
    [num |-> GetNumber(From(b, 2, len), Bits(At(b, 0), 7, 1)), nai |-> Bits(At(b, 0), 0, 7),
     pres |-> Bits(At(b, 1), 2, 2), screen |-> Bits(At(b, 1), 0, 2)]

-------------------------------------------------------------------------------
(* Sending a parameter: its octets, none for one that is left out. *)

NatureTransmit(d) ==
    <<4 * Flag1("required" \in d.cot) + 8 * Flag1("previous" \in d.cot)
        + 16 * Flag1(d.local_echo # 0)>>

ForwardCallTransmit(d) ==
    <<96 + 8 * Flag1(d.interworking # 0), Flag1(IsdnAccess) + 16 * Bits(d.pmbits, 4, 4)>>

\* CCITT 3.1 kHz audio, circuit mode, 64 kbit/s, u-law
UserServiceTransmit == <<144, 144, 162>>

CalledTransmit(d) == <<128 * Odd(d.called.num) + d.called.nai, 16>> \o PutNumber(d.called.num)

\* The access indicator is always set: the code tests the flags with '|'.
BackwardCallTransmit(d) == <<64, 4 + 32 * Flag1(d.local_echo # 0) + 16>>

OptForwardTransmit(d) ==
    IF d.col_req # 0 \/ d.cug.ind # 0 THEN <<Bits(d.cug.ind, 0, 2) + 128 * d.col_req>> ELSE <<>>

CauseTransmit(d) == <<128 + 32 * d.cause.code + d.cause.loc, 128 + d.cause.cause>>

\* Messages whose Range and Status has no status.
RangeOnly == {"CQR", "CQM", "GRS"}

RangeAndStatusTransmit(d, kind) ==
    <<d.range % 256>> \o
    IF kind \in RangeOnly THEN <<>>
    ELSE [i \in 1..(d.range + 8) \div 8 |->
             MapThenSumSet(LAMBDA x : 2^(x % 8),
                           {x \in d.status : x <= d.range /\ x \div 8 = i - 1})]

\* What the code changes in the call on the way (calling_nai, connected_presentation_ind)
\* is what it sends the next time anyway.
CallingTransmit(d) ==
    CASE d.calling.pres = NotAvailable -> <<0, 4 * NotAvailable + d.calling.screen>>
      [] d.calling.pres # NotAvailable /\ d.calling.num = <<>> -> <<>>
      [] OTHER -> PutAddress(d.calling, 1)

\* if they don't ask we won't tell
ConnectedTransmit(d) ==
    IF d.col_req = 0 THEN <<>>
    ELSE PutAddress(IF d.connected.num = <<>> THEN [d.connected EXCEPT !.pres = NotAvailable]
                    ELSE d.connected, 0)

OliTransmit(d) ==
    IF d.oli < 0 THEN <<>> ELSE <<IF d.oli < 99 THEN d.oli ELSE 0>>

ChargeTransmit(d) ==
    IF d.charge.num = <<>> THEN <<>>
    ELSE <<128 * Odd(d.charge.num) + d.charge.nai, 16>> \o PutNumber(d.charge.num)

RedirectionInfoTransmit(d) ==
    LET r == d.redirect_info
    IN  IF r.on = 0 THEN <<>>
        ELSE <<Bits(r.ind, 0, 3) + 16 * Bits(r.orig_reas, 0, 4),
               Bits(r.counter, 0, 3) + 16 * Bits(r.reas, 0, 4)>>

GenericNameTransmit(d) ==
    LET n == d.generic_name
    IN  IF n.chars = <<>> THEN <<>>
        ELSE <<32 * n.typeofname + 16 * Bits(n.avail, 0, 1) + Bits(n.pres, 0, 2)>> \o n.chars

GenericAddressTransmit(d) ==
    LET g == d.gen_add
    IN  IF g.num = <<>> THEN <<>>
        ELSE <<g.type, 128 * Odd(g.num) + g.nai, 16 * g.plan + 4 * Bits(g.pres, 0, 2)>>
                 \o PutNumber(g.num)

\* Type 3, a business group identity, goes out as characters.
GenericDigitsTransmit(d) ==
    LET g == d.gen_dig
    IN  CASE g.num = <<>> -> <<>>
          [] g.num # <<>> /\ g.type = 3 -> <<32 * g.scheme + g.type>> \o g.num
          [] OTHER -> <<32 * Odd(g.num) + g.type>> \o PutNumber(g.num)

OrigCalledTransmit(d) ==
    IF d.orig_called.num = <<>> THEN <<>> ELSE PutAddress(d.orig_called, 1)

RedirectingTransmit(d) ==
    IF d.redirecting.num = <<>> THEN <<>> ELSE PutAddress(d.redirecting, 1)

LspiTransmit(d) == IF d.lspi.scheme = 0 THEN <<>> ELSE <<32 * d.lspi.scheme + d.lspi.type>>

CallRefTransmit(d, sw) ==
    LET r == d.call_ref
        octet(x, i) == Bits(x, 8 * i, 8)
    IN  IF r.ident = 0 THEN <<>>
        ELSE <<octet(r.ident, 0), octet(r.ident, 1), octet(r.ident, 2), octet(r.pc, 0)>> \o
             IF sw = "ANSI" THEN <<octet(r.pc, 1), octet(r.pc, 2)>> ELSE <<Bits(r.pc, 8, 6)>>

RedirectCounterTransmit(d) ==
    IF d.redirect_counter = 0 THEN <<>> ELSE <<Bits(d.redirect_counter, 0, 5)>>

\* ISUP_CUG_OUTGOING_ALLOWED and ISUP_CUG_OUTGOING_NOT_ALLOWED
CugTransmit(d) ==
    LET ni == d.cug.ni
    IN  IF d.cug.ind \notin {2, 3} THEN <<>>
        ELSE <<16 * ni[1] + ni[2], 16 * ni[3] + ni[4], Bits(d.cug.code, 8, 8), Bits(d.cug.code, 0, 8)>>

\* The transmit functions of the table parms[]
Transmit(p, d, kind, sw) ==
    CASE p = "NATURE_OF_CONNECTION_IND" -> NatureTransmit(d)
      [] p = "FORWARD_CALL_IND"         -> ForwardCallTransmit(d)
      [] p = "CALLING_PARTY_CAT"        -> <<d.cat>>
      [] p = "TRANSMISSION_MEDIUM_REQS" -> IF sw = "ITU" THEN <<d.transcap>> ELSE <<>>
      [] p = "USER_SERVICE_INFO"        -> UserServiceTransmit
      [] p = "CALLED_PARTY_NUM"         -> CalledTransmit(d)
      [] p = "CALLING_PARTY_NUM"        -> CallingTransmit(d)
      [] p = "REDIRECTING_NUMBER"       -> RedirectingTransmit(d)
      [] p = "REDIRECTION_INFO"         -> RedirectionInfoTransmit(d)
      [] p = "REDIRECT_COUNTER"         -> RedirectCounterTransmit(d)
      [] p = "ORIGINAL_CALLED_NUM"      -> OrigCalledTransmit(d)
      [] p = "OPT_FORWARD_CALL_INDICATOR" -> OptForwardTransmit(d)
      [] p = "CUG_INTERLOCK_CODE"       -> CugTransmit(d)
      [] p = "CHARGE_NUMBER"            -> ChargeTransmit(d)
      [] p = "ORIG_LINE_INFO"           -> OliTransmit(d)
      [] p = "GENERIC_ADDR"             -> GenericAddressTransmit(d)
      [] p = "GENERIC_DIGITS"           -> GenericDigitsTransmit(d)
      [] p = "GENERIC_NAME"             -> GenericNameTransmit(d)
      [] p = "JIP"                      -> PutNumber(d.jip)
      [] p = "LOCAL_SERVICE_PROVIDER_IDENTIFICATION" -> LspiTransmit(d)
      [] p = "BACKWARD_CALL_IND"        -> BackwardCallTransmit(d)
      [] p = "CONNECTED_NUMBER"         -> ConnectedTransmit(d)
      [] p = "CAUSE"                    -> CauseTransmit(d)
      [] p = "RANGE_AND_STATUS"         -> RangeAndStatusTransmit(d, kind)
      [] p = "CIRCUIT_GROUP_SUPERVISION_IND" -> <<Bits(d.type, 0, 2)>>
      [] p = "CIRCUIT_STATE_IND"        -> [i \in 1..d.range + 1 |-> Flag1(i - 1 \in d.status)]
      [] p = "CONTINUITY_IND"           -> <<Flag1("passed" \in d.cot)>>
      [] p = "EVENT_INFO"               -> <<d.event_info>>
      [] p = "FACILITY_IND"             -> <<16>>
      [] p = "CALL_REF"                 -> CallRefTransmit(d, sw)
      [] p = "SUSPEND_RESUME_IND"       -> <<Bits(d.network, 0, 1)>>
      [] p = "INR_IND"                  -> d.inr
      [] p = "INF_IND"                  -> d.inf

-------------------------------------------------------------------------------
(* Receiving a parameter: b has the octets from the parameter's data to the end *)
(* of the message, of which len are the parameter's.                            *)

NatureReceive(d, b) ==
    [d EXCEPT !.cot = (@ \cap {"passed"})
                        \cup {x \in {"required"} : Bits(At(b, 0), 2, 1) = 1}
                        \cup {x \in {"previous"} : Bits(At(b, 0), 3, 1) = 1},
              !.echo = Bits(At(b, 0), 4, 1)]

CalledReceive(d, b, len) ==
    [d EXCEPT !.called = [num |-> GetNumber(From(b, 2, len), Bits(At(b, 0), 7, 1)),
                          nai |-> Bits(At(b, 0), 0, 7)]]

BackwardCallReceive(d, b) ==
    [d EXCEPT !.called_status = Bits(At(b, 0), 2, 2), !.echo = Bits(At(b, 1), 5, 1)]

OptForwardReceive(d, b) ==
    [d EXCEPT !.cug.ind = Bits(At(b, 0), 0, 2), !.col_req = Bits(At(b, 0), 7, 1)]

CauseReceive(d, b) ==
    [d EXCEPT !.cause = [loc |-> Bits(At(b, 0), 0, 4), code |-> Bits(At(b, 0), 5, 2),
                         cause |-> Bits(At(b, 1), 0, 7)]]

RangeAndStatusReceive(d, kind, b) ==
    LET range == At(b, 0)
    IN  IF kind \in RangeOnly THEN [d EXCEPT !.range = range]
        ELSE [d EXCEPT !.range = range,
                       !.status = {x \in @ : x > range} \cup
                                  {x \in 0..range : Bits(At(b, 1 + x \div 8), x % 8, 1) = 1}]

ChargeReceive(d, b, len) ==
    [d EXCEPT !.charge = [num |-> GetNumber(From(b, 2, len), Bits(At(b, 0), 7, 1)),
                          nai |-> Bits(At(b, 0), 0, 7), plan |-> Bits(At(b, 1), 4, 3)]]

ContinuityReceive(d, b) ==
    [d EXCEPT !.cot = IF Bits(At(b, 0), 0, 1) = 1 THEN @ \cup {"passed"} ELSE @ \ {"passed"}]

RedirectionInfoReceive(d, b) ==
    [d EXCEPT !.redirect_info = [on |-> 1,
                                 ind |-> Bits(At(b, 0), 0, 3), orig_reas |-> Bits(At(b, 0), 4, 4),
                                 counter |-> Bits(At(b, 1), 0, 3), reas |-> Bits(At(b, 1), 4, 4)]]

\* Nothing ends the name where a longer one was before.
GenericNameReceive(d, b, len) ==
    LET name == From(b, 1, len)
        old  == d.generic_name.chars
    IN  [d EXCEPT !.generic_name =
            [typeofname |-> Bits(At(b, 0), 5, 3), avail |-> Bits(At(b, 0), 4, 1),
             pres |-> Bits(At(b, 0), 0, 2),
             chars |-> name \o SubSeq(old, Len(name) + 1, Len(old))]]

GenericAddressReceive(d, b, len) ==
    [d EXCEPT !.gen_add = [type |-> At(b, 0), nai |-> Bits(At(b, 1), 0, 7),
                           pres |-> Bits(At(b, 2), 2, 2), plan |-> Bits(At(b, 2), 4, 3),
                           num |-> GetNumber(From(b, 3, len), Bits(At(b, 1), 7, 1))]]

GenericDigitsReceive(d, b, len) ==
    LET scheme == Bits(At(b, 0), 5, 3)
    IN  [d EXCEPT !.gen_dig = [scheme |-> scheme, type |-> Bits(At(b, 0), 0, 5),
                               num |-> GetNumber(From(b, 1, len), scheme)]]

\* A sender like LspiTransmit sends one octet: the context is taken from the
\* octet behind it.
LspiReceive(d, b, len) ==
    LET scheme == Bits(At(b, 0), 5, 3)
    IN  [d EXCEPT !.lspi = [type |-> Bits(At(b, 0), 0, 5), scheme |-> scheme,
                            context |-> Bits(At(b, 1), 0, 4),
                            ident |-> GetNumber(From(b, 2, len), scheme)]]

CallRefReceive(d, b, sw) ==
    [d EXCEPT !.call_ref =
        [ident |-> At(b, 0) + 2^8 * At(b, 1) + 2^16 * At(b, 2),
         pc |-> IF sw = "ANSI" THEN At(b, 3) + 2^8 * At(b, 4) + 2^16 * At(b, 5)
                ELSE At(b, 3) + 2^8 * Bits(At(b, 4), 0, 6)]]

InfReceive(d, b) ==
    [d EXCEPT !.inf = <<At(b, 0), At(b, 1)>>,
              !.calling.pres = IF Bits(At(b, 0), 0, 2) = 1 THEN NotAvailable ELSE @]

CugReceive(d, b) ==
    [d EXCEPT !.cug.ni = <<Bits(At(b, 0), 4, 4), Bits(At(b, 0), 0, 4),
                           Bits(At(b, 1), 4, 4), Bits(At(b, 1), 0, 4)>>,
              !.cug.code = 2^8 * At(b, 2) + At(b, 3)]

\* The receive functions of the table parms[]
ReceiveParm(p, d, kind, sw, b, len) ==
    CASE p = "NATURE_OF_CONNECTION_IND" -> NatureReceive(d, b)
      [] p = "CALLING_PARTY_CAT"        -> [d EXCEPT !.cat = At(b, 0)]
      [] p = "TRANSMISSION_MEDIUM_REQS" -> [d EXCEPT !.transcap = Bits(At(b, 0), 0, 7)]
      [] p = "CALLED_PARTY_NUM"         -> CalledReceive(d, b, len)
      [] p = "CALLING_PARTY_NUM"        -> [d EXCEPT !.calling = GetAddress(b, len)]
      [] p = "REDIRECTING_NUMBER"       -> [d EXCEPT !.redirecting = GetAddress(b, len)]
      [] p = "REDIRECTION_INFO"         -> RedirectionInfoReceive(d, b)
      [] p = "REDIRECT_COUNTER"         -> [d EXCEPT !.redirect_counter = Bits(At(b, 0), 0, 5)]
      [] p = "ORIGINAL_CALLED_NUM"      -> [d EXCEPT !.orig_called = GetAddress(b, len)]
      [] p = "OPT_FORWARD_CALL_INDICATOR" -> OptForwardReceive(d, b)
      [] p = "CUG_INTERLOCK_CODE"       -> CugReceive(d, b)
      [] p = "CHARGE_NUMBER"            -> ChargeReceive(d, b, len)
      [] p = "ORIG_LINE_INFO"           -> [d EXCEPT !.oli = At(b, 0)]
      [] p = "GENERIC_ADDR"             -> GenericAddressReceive(d, b, len)
      [] p = "GENERIC_DIGITS"           -> GenericDigitsReceive(d, b, len)
      [] p = "GENERIC_NAME"             -> GenericNameReceive(d, b, len)
      [] p = "JIP"                      -> [d EXCEPT !.jip = GetNumber(From(b, 0, len), 0)]
      [] p = "LOCAL_SERVICE_PROVIDER_IDENTIFICATION" -> LspiReceive(d, b, len)
      [] p = "BACKWARD_CALL_IND"        -> BackwardCallReceive(d, b)
      [] p = "CONNECTED_NUMBER"         -> [d EXCEPT !.connected = GetAddress(b, len)]
      [] p = "CAUSE"                    -> CauseReceive(d, b)
      [] p = "RANGE_AND_STATUS"         -> RangeAndStatusReceive(d, kind, b)
      [] p = "CIRCUIT_GROUP_SUPERVISION_IND" -> [d EXCEPT !.type = Bits(At(b, 0), 0, 2)]
      [] p = "CONTINUITY_IND"           -> ContinuityReceive(d, b)
      [] p = "EVENT_INFO"               -> [d EXCEPT !.event_info = At(b, 0)]
      [] p = "CALL_REF"                 -> CallRefReceive(d, b, sw)
      [] p = "SUSPEND_RESUME_IND"       -> [d EXCEPT !.network = Bits(At(b, 0), 0, 1)]
      [] p = "INR_IND"                  -> [d EXCEPT !.inr = <<At(b, 0), At(b, 1)>>]
      [] p = "INF_IND"                  -> InfReceive(d, b)
      [] OTHER                          -> d      \* noted by nobody

\* What a receive function returns, for the parameters where it is not the
\* length: the octets of a fixed one, and how far isup_receive goes on after an
\* optional one.
Size == [NATURE_OF_CONNECTION_IND |-> 1, FORWARD_CALL_IND |-> 2, CALLING_PARTY_CAT |-> 1,
         TRANSMISSION_MEDIUM_REQS |-> 1, BACKWARD_CALL_IND |-> 2,
         OPT_FORWARD_CALL_INDICATOR |-> 1, ORIG_LINE_INFO |-> 1, EVENT_INFO |-> 1,
         CONTINUITY_IND |-> 1, CIRCUIT_GROUP_SUPERVISION_IND |-> 1, FACILITY_IND |-> 1,
         REDIRECTION_INFO |-> 2, REDIRECT_COUNTER |-> 1, INR_IND |-> 2, INF_IND |-> 2,
         SUSPEND_RESUME_IND |-> 1, CUG_INTERLOCK_CODE |-> 4]

\* The codes of isup.h.
Code == [CALL_REF |-> 1, TRANSMISSION_MEDIUM_REQS |-> 2, CALLED_PARTY_NUM |-> 4,
         NATURE_OF_CONNECTION_IND |-> 6, FORWARD_CALL_IND |-> 7,
         OPT_FORWARD_CALL_INDICATOR |-> 8, CALLING_PARTY_CAT |-> 9, CALLING_PARTY_NUM |-> 10,
         REDIRECTING_NUMBER |-> 11, INR_IND |-> 14, INF_IND |-> 15, CONTINUITY_IND |-> 16,
         BACKWARD_CALL_IND |-> 17, CAUSE |-> 18, REDIRECTION_INFO |-> 19,
         CIRCUIT_GROUP_SUPERVISION_IND |-> 21, RANGE_AND_STATUS |-> 22, FACILITY_IND |-> 24,
         CUG_INTERLOCK_CODE |-> 26, USER_SERVICE_INFO |-> 29, CONNECTED_NUMBER |-> 33,
         SUSPEND_RESUME_IND |-> 34, EVENT_INFO |-> 36, CIRCUIT_STATE_IND |-> 38,
         ORIGINAL_CALLED_NUM |-> 40, REDIRECT_COUNTER |-> 119, GENERIC_ADDR |-> 192,
         GENERIC_DIGITS |-> 193, JIP |-> 196, GENERIC_NAME |-> 199,
         LOCAL_SERVICE_PROVIDER_IDENTIFICATION |-> 228, ORIG_LINE_INFO |-> 234,
         CHARGE_NUMBER |-> 235]

-------------------------------------------------------------------------------
(* Messages. *)

\* The table messages[] with the lists of parameters: the fixed and the variable
\* mandatory ones, whether optional ones may follow, and those the library sends.
Of(fixed, var, hasopt, opt) == [fixed |-> fixed, var |-> var, hasopt |-> hasopt, opt |-> opt]

Layout(kind, sw) ==
    LET nature == "NATURE_OF_CONNECTION_IND"  forward == "FORWARD_CALL_IND"
        cat == "CALLING_PARTY_CAT"  redirected == "REDIRECTING_NUMBER"
        group == "CIRCUIT_GROUP_SUPERVISION_IND"  range == "RANGE_AND_STATUS"
        last == <<"ORIGINAL_CALLED_NUM", "OPT_FORWARD_CALL_INDICATOR", "CUG_INTERLOCK_CODE">>
    IN  CASE kind = "IAM" /\ sw = "ITU" ->
                 Of(<<nature, forward, cat, "TRANSMISSION_MEDIUM_REQS">>,
                    <<"CALLED_PARTY_NUM">>, TRUE,
                    <<"CALLING_PARTY_NUM", redirected, "REDIRECTION_INFO",
                      "REDIRECT_COUNTER">> \o last)
          [] kind = "IAM" /\ sw = "ANSI" ->
                 Of(<<nature, forward, cat>>, <<"USER_SERVICE_INFO", "CALLED_PARTY_NUM">>, TRUE,
                    <<"CALLING_PARTY_NUM", "CHARGE_NUMBER", "ORIG_LINE_INFO", "GENERIC_ADDR",
                      "GENERIC_DIGITS", "GENERIC_NAME", "JIP",
                      "LOCAL_SERVICE_PROVIDER_IDENTIFICATION", "REDIRECTION_INFO", redirected,
                      "REDIRECT_COUNTER">> \o last)
          [] kind = "ACM" -> Of(<<"BACKWARD_CALL_IND">>, <<>>, TRUE, <<>>)
          [] kind = "ANM" -> Of(<<>>, <<>>, TRUE, <<"CONNECTED_NUMBER">>)
          [] kind = "CON" -> Of(<<"BACKWARD_CALL_IND">>, <<>>, TRUE, <<"CONNECTED_NUMBER">>)
          [] kind = "CPG" -> Of(<<"EVENT_INFO">>, <<>>, TRUE, <<"CONNECTED_NUMBER">>)
          [] kind = "REL" -> Of(<<>>, <<"CAUSE">>, TRUE, <<>>)
          [] kind = "RLC" -> Of(<<>>, <<>>, sw = "ITU", <<>>)
          [] kind \in {"GRS", "GRA"} -> Of(<<>>, <<range>>, sw = "ANSI", <<>>)
          [] kind \in {"CGB", "CGU", "CGBA", "CGUA"} -> Of(<<group>>, <<range>>, FALSE, <<>>)
          [] kind = "COT" -> Of(<<"CONTINUITY_IND">>, <<>>, FALSE, <<>>)
          [] kind = "CQM" -> Of(<<>>, <<range>>, FALSE, <<>>)
          [] kind = "CQR" -> Of(<<>>, <<range, "CIRCUIT_STATE_IND">>, FALSE, <<>>)
          [] kind \in {"FRJ", "FAA", "FAR"} -> Of(<<"FACILITY_IND">>, <<>>, TRUE, <<"CALL_REF">>)
          [] kind \in {"SUS", "RES"} -> Of(<<"SUSPEND_RESUME_IND">>, <<>>, TRUE, <<"CALL_REF">>)
          [] kind = "INR" -> Of(<<"INR_IND">>, <<>>, FALSE, <<>>)
          [] kind = "INF" -> Of(<<"INF_IND">>, <<>>, TRUE, <<"CALLING_PARTY_NUM", cat>>)
          [] OTHER -> Of(<<>>, <<>>, FALSE, <<>>)

\* isup_send_message, from the first parameter on.  A pointer counts the octets
\* from itself to its parameter.
Encode(kind, d, sw) ==
    LET l       == Layout(kind, sw)
        sent(p) == Transmit(p, d, kind, sw)
        varied(i) == <<Len(sent(l.var[i]))>> \o sent(l.var[i])
        chosen(p) == IF sent(p) = <<>> THEN <<>> ELSE <<Code[p], Len(sent(p))>> \o sent(p)
        fixed == FlattenSeq([i \in DOMAIN l.fixed |-> sent(l.fixed[i])])
        var   == [i \in DOMAIN l.var |-> varied(i)]
        opt   == FlattenSeq([i \in DOMAIN l.opt |-> chosen(l.opt[i])])
        before(i) == MapThenSumSet(LAMBDA j : Len(var[j]), 1..i - 1)
        pointer(i) == Len(var) + Flag1(l.hasopt) - i + 1 + before(i)
    IN  fixed \o [i \in DOMAIN var |-> pointer(i)]
              \o (IF ~ l.hasopt THEN <<>> ELSE IF opt = <<>> THEN <<0>>
                  ELSE <<1 + before(Len(var) + 1)>>)
              \o FlattenSeq(var) \o (IF opt = <<>> THEN <<>> ELSE opt \o <<0>>)

\* What is left of the message: the call as parsed so far, the offset of the
\* next octet and how many there are by the library's count.
DecodeFixed(s, p, kind, sw, m) ==
    [d   |-> ReceiveParm(p, s.d, kind, sw, From(m, s.off, Len(m)), s.len),
     off |-> s.off + Size[p], len |-> s.len - Size[p]]

\* s.off is the offset of the pointer.
DecodeVariable(s, p, kind, sw, m) ==
    LET at == s.off + At(m, s.off)
    IN  IF s.len = 0 \/ At(m, s.off) = 0 THEN s
        ELSE [d   |-> ReceiveParm(p, s.d, kind, sw, From(m, at + 1, Len(m)), At(m, at)),
              off |-> s.off + 1, len |-> s.len - (1 + At(m, at)) - 1]

RECURSIVE DecodeOptional(_, _, _, _)
DecodeOptional(s, kind, sw, m) ==
    IF s.len <= 0 \/ At(m, s.off) = 0 THEN s.d
    ELSE LET len   == At(m, s.off + 1)
             known == {p \in DOMAIN Code : Code[p] = At(m, s.off)}
             body  == From(m, s.off + 2, Len(m))
             sized == known \cap DOMAIN Size
             step  == 2 + IF sized = {} THEN len ELSE Size[CHOOSE p \in sized : TRUE]
         IN  DecodeOptional(
                 [d   |-> FoldSet(LAMBDA p, d : ReceiveParm(p, d, kind, sw, body, len), s.d, known),
                  off |-> s.off + step, len |-> s.len - step],
                 kind, sw, m)

\* The parameters of the call after message m was parsed into it (isup_receive).
Decode(d, kind, sw, m) ==
    LET l == Layout(kind, sw)
        afterFixed == FoldLeft(LAMBDA s, p : DecodeFixed(s, p, kind, sw, m),
                               [d |-> d, off |-> 0, len |-> Len(m)], l.fixed)
        afterVar == IF afterFixed.len > 0
                    THEN FoldLeft(LAMBDA s, p : DecodeVariable(s, p, kind, sw, m),
                                  afterFixed, l.var)
                    ELSE afterFixed
    IN  IF l.hasopt /\ afterVar.len > 0 /\ At(m, afterVar.off) # 0
        THEN DecodeOptional([afterVar EXCEPT !.off = @ + At(m, afterVar.off), !.len = @ - 1],
                            kind, sw, m)
        ELSE afterVar.d

-------------------------------------------------------------------------------
(* The application's side. *)

\* The called number ends with '#' (15) in an ITU network.
Complete(num, sw) == IF sw = "ITU" THEN Append(num, 15) ELSE num

\* A number that is empty is not set, unless it is said not to be available.
SetAddress(old, a, mayBeEmpty) ==
    IF a.num # <<>> \/ (mayBeEmpty /\ a.pres = NotAvailable) THEN a ELSE old

\* The isup_set_... functions: s is the rest of the name, a the arguments.
Setter(d, s, a, sw) ==
    CASE s = "called" ->
             IF a.num = <<>> THEN d
             ELSE [d EXCEPT !.called = [a EXCEPT !.num = Complete(@, sw)]]
      [] s = "calling"     -> [d EXCEPT !.calling = SetAddress(@, a, TRUE)]
      [] s = "connected"   -> [d EXCEPT !.connected = SetAddress(@, a, TRUE)]
      [] s = "redirecting" -> [d EXCEPT !.redirecting = SetAddress(@, a, FALSE)]
      [] s = "orig_called" -> [d EXCEPT !.orig_called = SetAddress(@, a, FALSE)]
      [] s = "charge"      -> [d EXCEPT !.charge = SetAddress(@, a, FALSE)]
      [] s = "gen_add"     -> [d EXCEPT !.gen_add = SetAddress(@, a, FALSE)]
      [] s = "gen_dig"     -> [d EXCEPT !.gen_dig = SetAddress(@, a, FALSE)]
      [] s = "generic_name" -> IF a.chars = <<>> THEN d ELSE [d EXCEPT !.generic_name = a]
      [] s = "lspi"        -> IF a.ident = <<>> THEN d ELSE [d EXCEPT !.lspi = a]
      [] s = "jip"         -> IF a = <<>> THEN d ELSE [d EXCEPT !.jip = a]
      [] s = "redirect_info" -> [d EXCEPT !.redirect_info = [a EXCEPT !.on = 1]]
      [] OTHER             -> [d EXCEPT ![s] = a]

\* What the application sets before it calls a function that sends.
Prepare(d, want, sw) == FoldSet(LAMBDA s, x : Setter(x, s, want[s], sw), d, DOMAIN want)

Only(d, F) == [f \in F |-> d[f]]

\* What the event of a message tells the application of the call.
Told(kind, d) ==
    LET answer == {"connected", "echo"}
        group  == {"type", "range", "status"}
        inRange == [d EXCEPT !.status = {x \in @ : x <= d.range}]
    IN  Only(inRange,
             CASE kind = "IAM" ->
                      {"called", "calling", "charge", "oli", "gen_add", "gen_dig", "jip",
                       "generic_name", "lspi", "orig_called", "redirecting", "redirect_counter",
                       "redirect_info", "cat", "transcap", "cug", "echo", "cot"}
               [] kind = "ACM" -> {"call_ref", "called_status", "echo"}
               [] kind \in {"CON", "ANM"} -> answer
               [] kind = "CPG" -> answer \cup {"event_info"}
               [] kind = "REL" -> {"cause"}
               [] kind = "COT" -> {"cot"}
               [] kind \in {"GRS", "CQM"} -> {"range"}
               [] kind = "GRA" -> {"range", "status"}
               [] kind \in {"CGB", "CGU", "CGBA", "CGUA"} -> group
               [] kind \in {"FRJ", "FAA", "FAR"} -> {"call_ref"}
               [] kind \in {"SUS", "RES"} -> {"network"}
               [] OTHER -> {})
===============================================================================
