----------------------------- MODULE VoteRules ------------------------------
(***************************************************************************)
(* What a validator promises about the votes published under its key, as   *)
(* stated above UnderRules in core/vote/vote_manager.go: no two votes for  *)
(* the same height (Rule 1), no vote within the span of another (Rule 2).  *)
(* Rule 2 is meant within the slash scope: votes whose targets are further *)
(* apart than Scope are not judged (maliciousVoteSlashScope).              *)
(***************************************************************************)
EXTENDS Integers

CONSTANTS Vote,    \* records with fields source and target, both numbers
          Scope    \* maliciousVoteSlashScope

VARIABLE published

SameHeight(v, w) == v # w /\ v.target = w.target

(* w lies strictly within the span of v *)
Surrounds(v, w) ==
    /\ v.source < w.source
    /\ w.target < v.target
    /\ v.target - w.target <= Scope

Compatible(v, w) == ~SameHeight(v, w) /\ ~Surrounds(v, w) /\ ~Surrounds(w, v)

Init == published = {}

Cast(v) ==
    /\ \A w \in published : Compatible(v, w)
    /\ published' = published \cup {v}

Next == \E v \in Vote : Cast(v)

Spec == Init /\ [][Next]_published
=============================================================================
