---------------------------- MODULE MCVoteManager ---------------------------
(* Small instances of VoteManager. *)
EXTENDS VoteManager

CONSTANTS MaxNumber, MaxSource, Fork

(* Two forks, every possible justified ancestor. *)
MCForks ==
    {h \in [number : 1 .. MaxNumber, source : 0 .. MaxSource, fork : Fork] :
        h.source < h.number}

(* The steady state: every block justifies its parent. *)
MCSteady ==
    {[number |-> i, source |-> i - 1, fork |-> f] : i \in 2 .. MaxNumber, f \in Fork}
=============================================================================
