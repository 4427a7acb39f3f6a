----------------------------- MODULE MCMtp3Linkset -----------------------------
(***************************************************************************)
(* Instances of Mtp3Linkset for TLC: its topics and what happens in each.  *)
(***************************************************************************)
EXTENDS Mtp3Linkset

CONSTANTS a, b, here, there, far

\* One message for each of two links, all to one destination.
NoMessage == <<>>
OneEach == [m \in Msg |-> IF m = a THEN 0 ELSE 1]
SameDest == [m \in Msg |-> far]

\* The links lead to one SP or to one each.
OneSp == [i \in Link |-> here]
TwoSps == 0 :> here @@ 1 :> there

OnLink0 == [t \in Topic |-> {0}]
MayFail == [t \in Topic |-> IF t = "inhibit" THEN {} ELSE {0}]
MayGive == [t \in Topic |-> IF t = "inhibit" THEN {} ELSE Msg]
MayAlarm == [t \in Topic |-> t \in {"changeover", "restart"}]
MayRestart == [t \in Topic |-> t = "restart"]
MayBeUp == [t \in Topic |-> t # "restart"]

MaySend == [t \in Topic |->
    CASE t = "changeover" -> {"SLTM", "SLTA", "MISMATCH", "COA", "ECO", "ECA", "CBA"}
      [] t = "inhibit" -> {"LIN", "LUN", "LIA", "LUA", "LID", "LFU", "LLT", "LRT"}
      [] t = "routes" -> {"SLTM", "SLTA", "CBA", "TRA", "TFP", "TFA"}
      [] t = "restart" -> {"SLTM", "SLTA", "LIA", "LUN", "TRA"}]

MayCommand == [t \in Topic |->
    CASE t = "inhibit" -> {"LIN", "LUN"} [] t = "restart" -> {"LIN"} [] OTHER -> {}]
===============================================================================
