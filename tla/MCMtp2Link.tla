------------------------------ MODULE MCMtp2Link ------------------------------
(***************************************************************************)
(* Instances of Mtp2Link for TLC.  The sequence number and bit of an LSSU  *)
(* are never read, so that one value of them stands for all.               *)
(***************************************************************************)
EXTENDS Mtp2Link, TLC

MsuSymmetry == Permutations(Msu)

\* A peer that sends every kind of signal unit (SIB is handled like SIPO, the
\* other one left out), each with the header of a link just aligned.
ControlPeer ==
    {su \in Su : /\ su.kind \notin {"SIB"} /\ su.fib = 1 /\ su.bib = 1
                 /\ su.bsn = LastSeq
                 /\ su.fsn = IF su.kind = "MSU" THEN 0 ELSE LastSeq}

\* A peer that aligns with SIN, sends one message, and then acknowledges or
\* asks for a retransmission of anything at any time.
DataPeer ==
    {su \in Su : /\ su.kind \in {"SIN", "FISU"} => su.fsn = LastSeq /\ su.fib = 1
                 /\ su.kind \in {"SIN", "MSU"}  => su.bsn = LastSeq /\ su.bib = 1
                 /\ su.kind = "MSU"             => su.fsn = 0 /\ su.fib = 1
                 /\ su.kind \in {"SIN", "FISU", "MSU"}}
===============================================================================
