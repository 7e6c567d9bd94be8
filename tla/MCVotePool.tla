----------------------------- MODULE MCVotePool -----------------------------
(* Instances of VotePool for TLC: a chain a1-a3 with a fork b2 at height 2. *)
EXTENDS VotePool, TLC

CONSTANTS g, a1, a2, a3, b2, k1, k2, k3, k4

MCBlock == {g, a1, a2, a3, b2}
MCParent == (g :> g) @@ (a1 :> g) @@ (a2 :> a1) @@ (a3 :> a2) @@ (b2 :> a1)
MCNumber == (g :> 0) @@ (a1 :> 1) @@ (a2 :> 2) @@ (a3 :> 3) @@ (b2 :> 2)
MCJustified == (g :> g) @@ (a1 :> g) @@ (a2 :> g) @@ (a3 :> a1) @@ (b2 :> g)
MCArchivable == {g, a1, a2}
MCVoterKeys == [b \in MCBlock |-> {k1, k2, k3}]

Vote(k, h, n, s, ok) ==
    [voteAddress |-> k, targetHash |-> h, targetNumber |-> n, source |-> s, sigOK |-> ok]

(* Valid votes on both forks, and votes with a wrong source, a bad         *)
(* signature, and an unknown voter and wrong number.                       *)
MCEnvelope ==
    {Vote(k1, a2, 2, g, TRUE), Vote(k2, a2, 2, g, TRUE), Vote(k3, a2, 2, g, TRUE),
     Vote(k1, b2, 2, g, TRUE), Vote(k1, a3, 3, g, TRUE), Vote(k2, a3, 3, a1, FALSE),
     Vote(k4, b2, 1, g, TRUE)}

(* Votes on one fork, one of them naming the wrong number for its target.  *)
MCEnvelopeMisnumbered ==
    {Vote(k1, a2, 2, g, TRUE), Vote(k2, a2, 1, g, TRUE), Vote(k1, b2, 2, g, TRUE)}
=============================================================================
