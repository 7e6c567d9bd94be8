------------------------------ MODULE Finality ------------------------------
(***************************************************************************)
(* What fast finality promises: the blocks the network finalizes lie on    *)
(* one chain, and that set only grows.                                     *)
(***************************************************************************)
CONSTANTS Block, Genesis, Ancestors

VARIABLE final

Comparable(b, c) == b \in Ancestors[c] \/ c \in Ancestors[b]

Init == final = {Genesis}

Finalize(b) ==
    /\ \A c \in final : Comparable(b, c)
    /\ final' = final \cup {b}

Next == \E b \in Block : Finalize(b)

Spec == Init /\ [][Next]_final
=============================================================================
