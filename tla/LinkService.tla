----------------------------- MODULE LinkService -----------------------------
(***************************************************************************)
(* What a pair of MTP2 links promises the MTP3s above it: the messages     *)
(* given to one end are delivered to the other in the order they were      *)
(* given and none twice.  Messages are numbered as they are given.         *)
(*                                                                         *)
(* While both ends are up no message on its way is ever skipped or lost.   *)
(* When an end is down messages may be dropped (MTP3's changeover is there *)
(* to save them), but the rest are still delivered in order.               *)
(***************************************************************************)
EXTENDS Integers

CONSTANT End            \* the two ends

VARIABLES up,           \* whether both ends are in service
          given,        \* number of the last message given for an end
          pending,      \* the messages on their way to an end
          got           \* number of the last message delivered to an end

vars == <<up, given, pending, got>>

TypeOK == /\ up \in BOOLEAN
          /\ given \in [End -> Nat]
          /\ pending \in [End -> SUBSET Nat]
          /\ got \in [End -> Nat]

Init == /\ up \in BOOLEAN
        /\ given = [e \in End |-> 0]
        /\ pending = [e \in End |-> {}]
        /\ got = [e \in End |-> 0]

Give(e) ==
    /\ given' = [given EXCEPT ![e] = @ + 1]
    /\ pending' = [pending EXCEPT ![e] = @ \cup {given[e] + 1}]
    /\ UNCHANGED <<up, got>>

\* The oldest message on its way is the next one delivered.  It can be the
\* signal unit that brings its receiver into service.
Deliver(e) ==
    /\ up' \in {TRUE, up}
    /\ \E m \in pending[e] :
         /\ \A n \in pending[e] : m <= n
         /\ got' = [got EXCEPT ![e] = m]
         /\ pending' = [pending EXCEPT ![e] = @ \ {m}]
    /\ UNCHANGED given

\* An end goes down, comes up, or loses messages while the ends are not up.
Realign ==
    /\ ~up \/ ~up'
    /\ DOMAIN pending' = End
    /\ \A e \in End : pending'[e] \subseteq pending[e]
    /\ UNCHANGED <<given, got>>

Next == Realign \/ \E e \in End : Give(e) \/ Deliver(e)

Spec == Init /\ [][Next]_vars
===============================================================================
