----------------------------- MODULE MCIsupCircuit -----------------------------
(* Instances of IsupCircuit for TLC. *)
EXTENDS IsupCircuit, TLC

\* Messages whose content does not matter come in one form.
Plainly(kinds) == [kind : kinds, cot : {{}}, yes : {TRUE}]
Either(kinds)  == [kind : kinds, cot : {{}}, yes : BOOLEAN]

\* Calls with or without a continuity check, resets; overlap sending, calling
\* numbers that are asked for, suspended calls; blocking, unblocking and resets
\* of circuits, one by one and in groups.
Topics == {"calls", "overlap", "circuits", "groups"}

Sends ==
    [t \in Topics |->
        CASE t = "calls" ->
                 Plainly({"IAM", "ACM", "REL", "RLC", "RSC", "CCR"}) \cup Either({"COT"})
                 \cup [kind : {"IAM"}, cot : {{"required"}, {"previous"}}, yes : {TRUE}]
          [] t = "overlap" ->
                 Plainly({"IAM", "SAM", "INR", "CON", "ANM", "CPG", "REL", "RLC"})
                 \cup Either({"INF", "SUS", "RES"})
          [] t = "circuits" ->
                 Plainly({"BLA", "CGUA", "RSC", "RLC", "CQM", "CQR", "CFN"}) \cup Either({"GRA"})
          [] t = "groups" ->
                 Plainly({"BLO", "UBA", "RSC", "RLC"}) \cup Either({"CGBA"})]

Functions ==
    [t \in Topics |->
        CASE t = "calls"    -> {"iam", "acm", "rlc", "rel", "rsc", "blo", "event_iam", "free"}
          [] t = "overlap"  -> {"iam", "con", "cpg", "rel", "inr", "digittimeout", "free"}
          [] t = "circuits" -> {"blo", "cgu", "grs", "rsc", "rel", "free_if_clear"}
          [] t = "groups"   -> {"ubl", "cgb", "rsc", "free"}]

\* All is well, the circuit is in use, there is no room or no link; digits are
\* missing, or the calling number.
Around ==
    LET well == [room |-> TRUE, sent |-> TRUE, cic |-> "IDLE", calling |-> TRUE,
                 complete |-> TRUE]
        bad  == [well EXCEPT !.room = FALSE, !.sent = FALSE]
    IN  [t \in Topics |->
            CASE t = "overlap" -> {well, [well EXCEPT !.complete = FALSE],
                                   [well EXCEPT !.calling = FALSE], bad}
              [] OTHER -> {well, [well EXCEPT !.cic = "USED"], bad}]
===============================================================================
