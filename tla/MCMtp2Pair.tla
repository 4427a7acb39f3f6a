------------------------------ MODULE MCMtp2Pair ------------------------------
(***************************************************************************)
(* Instances of Mtp2Pair for TLC: loss on the line; a link in service that *)
(* fails while messages are on their way; links that meet, and meet again  *)
(* when one is stopped in service; links stopped in any state.             *)
(***************************************************************************)
EXTENDS Mtp2Pair, TLC

CONSTANTS west, east          \* the two ends

TwoEnds == {west, east}
Numbers == 1 .. 4

\* Whether the pair starts from nothing: the messages are then those of the
\* tests, one at a time, and timers run out.
Fresh == {"meet", "stopped"}

Messages == [t \in Topic |->
    CASE t \in Fresh -> (west :> 2) @@ (east :> 2)
      [] t = "crossing" -> (west :> 2) @@ (east :> 1)
      [] t = "restart" -> (west :> 2) @@ (east :> 0)
      [] t = "loss" -> (west :> 3) @@ (east :> 0)]
ForTests  == [t \in Topic |-> IF t \in Fresh THEN 2 ELSE 0]
Together  == [t \in Topic |-> IF t \in Fresh THEN 1 ELSE 2]

Faults    == [t \in Topic |-> CASE t = "loss" -> 2 [] t = "crossing" -> 3 [] OTHER -> 1]
GoesWrong == [t \in Topic |->
    CASE t = "loss" -> {"loss", "write"} [] t = "crossing" -> {"loss"}
      [] t = "restart" -> {"stop", "alarm"} [] t \in Fresh -> {"stop"}]
Stopped   == [t \in Topic |-> IF t = "stopped" THEN LinkState ELSE {"INSERVICE"}]

RunOut    == [t \in Topic |->
    CASE t \in Fresh -> {"t1", "t2", "t3", "t4"} [] t = "restart" -> {"t4"} [] OTHER -> {}]
Outlast   == [t \in Topic |-> t \in Fresh]
InService == [t \in Topic |-> t \notin Fresh]
===============================================================================
