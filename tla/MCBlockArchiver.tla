-------------------------- MODULE MCBlockArchiver --------------------------
(* Instances of BlockArchiver for TLC: blocks 1 and 2 share a bundle, the *)
(* genesis block has none, and side is a block of height 2 in no bundle.   *)
EXTENDS BlockArchiver, TLC

CONSTANTS g, b1, b2, side, p1, p2, p3

Heights == (g :> 0) @@ (b1 :> 1) @@ (b2 :> 2) @@ (side :> 2)
MCNumber == [b \in Block |-> Heights[b]]
MCFrom == [n \in Height |-> IF n = 2 THEN 1 ELSE n]
MCTo == [n \in Height |-> IF n = 1 THEN 2 ELSE n]
MCSymmetry == Permutations(Caller)
=============================================================================
