--------------------------- MODULE MCFastFinality ---------------------------
(* Two forks from the genesis block, four validators of which one faulty.  *)
EXTENDS FastFinality, TLC

CONSTANTS g, a1, a2, a3, b1, b2, b3, b4

MCBlock == {g, a1, a2, a3, b1, b2, b3, b4}

MCParent == g :> g @@ a1 :> g @@ a2 :> a1 @@ a3 :> a2
              @@ b1 :> g @@ b2 :> b1 @@ b3 :> b2 @@ b4 :> b3

MCNumber == [b \in MCBlock |->
    CASE b = g -> 0 [] b \in {a1, b1} -> 1 [] b \in {a2, b2} -> 2
      [] b \in {a3, b3} -> 3 [] b = b4 -> 4]

MCAncestors == [b \in MCBlock |->
    {c \in MCBlock : \/ c \in {b, g}
                     \/ MCNumber[c] <= MCNumber[b] /\ ({b, c} \subseteq {a1, a2, a3}
                                                       \/ {b, c} \subseteq {b1, b2, b3, b4})}]

(* The blocks of the first fork are in turn, those of the other are not.   *)
MCTotalDifficulty ==
    [b \in MCBlock |-> IF b \in {a1, a2, a3} THEN 2 * MCNumber[b] ELSE MCNumber[b]]

CONSTANTS v1, v2, v3, v4
MCHonestSymmetry == Permutations({v1, v2, v3})
=============================================================================
