------------------------------ MODULE MCIsupPair ------------------------------
(***************************************************************************)
(* Instances of IsupPair for TLC: what the two ends are busy with.         *)
(***************************************************************************)
EXTENDS IsupPair, FiniteSets

CONSTANTS A, B

Points == A :> 1 @@ B :> 2
Causes == A :> 16 @@ B :> 17

Kinds == [t \in Topic |-> IF t = "ansi" THEN "ANSI" ELSE "ITU"]

Number(num, nai) == [num |-> num, nai |-> nai, pres |-> 1, screen |-> 3]

\* What can be set for a call, with an odd and an even number of digits.
Always == [called |-> [num |-> <<1, 2, 3>>, nai |-> 3], cat |-> 11, local_echo |-> 1]
ItuOnly ==
    [transcap |-> 2, calling |-> Number(<<4, 5>>, 4), redirecting |-> Number(<<6>>, 3),
     orig_called |-> Number(<<7, 8>>, 4), redirect_counter |-> 5,
     redirect_info |-> [on |-> 1, ind |-> 3, orig_reas |-> 2, counter |-> 1, reas |-> 15],
     col_req |-> 1, cug |-> [ind |-> 2, ni |-> <<1, 2, 3, 4>>, code |-> 258]]
AnsiOnly ==
    [charge |-> [num |-> <<9>>, nai |-> 3, plan |-> 1], oli |-> 23,
     gen_add |-> [num |-> <<1, 2>>, nai |-> 4, plan |-> 1, pres |-> 1, type |-> 192],
     gen_dig |-> [num |-> <<3, 4, 5>>, type |-> 2, scheme |-> 1],
     generic_name |-> [chars |-> <<65, 66>>, typeofname |-> 1, avail |-> 0, pres |-> 1],
     jip |-> <<5, 6>>,
     lspi |-> [ident |-> <<1>>, type |-> 1, scheme |-> 1, context |-> 0]]
       @@ Only(ItuOnly, DOMAIN ItuOnly \ {"transcap"})

Wants(all, S) == {Always @@ Only(all, w) : w \in S}

MayDial == [t \in Topic |-> [e \in End |->
    CASE t = "itu" /\ e = A -> Wants(ItuOnly, SUBSET DOMAIN ItuOnly)
      [] t = "ansi" /\ e = A -> Wants(AnsiOnly, {w \in SUBSET DOMAIN AnsiOnly :
                                     Cardinality(w) \in {0, 1, Cardinality(DOMAIN AnsiOnly) - 1,
                                                         Cardinality(DOMAIN AnsiOnly)}})
      [] t = "talk" /\ e = A -> Wants(ItuOnly, {{"calling", "col_req"}})
      [] t = "seizure" -> Wants(ItuOnly, {{"calling"}})
      [] t = "faults" /\ e = A -> Wants(ItuOnly, {{"calling"}})
      [] OTHER -> {}]]

MayAnswer == [t \in Topic |->
    CASE t = "talk" -> {[connected |-> Number(<<1, 2, 3>>, 3), local_echo |-> 1], [local_echo |-> 0]}
      [] t \in {"itu", "ansi"} -> {}
      [] OTHER -> {[connected |-> Number(<<1, 2>>, 3), local_echo |-> 0]}]

MayTell == [t \in Topic |->
    IF t = "talk"
    THEN [CPG |-> {[event_info |-> 1]}, SUS |-> {[network |-> 1]}, RES |-> {[network |-> 1]},
          FAA |-> {[call_ref |-> [ident |-> 66051, pc |-> 1000]]}]
    ELSE <<>>]

Block(k, t, last) == [kind |-> k, type |-> t, endcic |-> last, status |-> {0, last - CIC}]
Reset == [kind |-> "GRS", type |-> 0, endcic |-> CIC + 3, status |-> {}]
MayBlock == [t \in Topic |-> [e \in End |->
    CASE t = "group" ->
             {Block("CGB", IF e = A THEN 0 ELSE 1, CIC + 1), Block("CGU", 0, CIC + 2), Reset}
      [] t = "blocking" -> {Block("CGB", IF e = A THEN 0 ELSE 1, CIC + 1)}
      [] OTHER -> {}]]

Losses == [t \in Topic |-> IF t \in {"faults", "blocking"} THEN 1 ELSE 0]
Calls == [t \in Topic |-> CASE t \in {"seizure", "faults", "blocking"} -> 2 [] t = "group" -> 3 [] OTHER -> 1]
Hurries == [t \in Topic |-> IF t \in {"faults", "blocking"} THEN 1 ELSE 0]
===============================================================================
