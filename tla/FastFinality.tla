---------------------------- MODULE FastFinality ----------------------------
(***************************************************************************)
(* Parlia's fast finality (BEP-126) across the whole network: honest       *)
(* validators follow ReorgNeededWithFastFinality and vote under UnderRules *)
(* for the head they adopt; a proposer may embed an attestation of the     *)
(* parent once 2/3 of the validators voted for it; every block's snapshot  *)
(* carries the justified and the finalized block of its chain.             *)
(*                                                                         *)
(* The tree of blocks that can be proposed is a constant.  A vote for b    *)
(* always has the source justified[b]: VerifyVote and                      *)
(* verifyVoteAttestation refuse any other.  The validator set is fixed.    *)
(* Votes of faulty validators for any block are available at any time.     *)
(***************************************************************************)
EXTENDS Integers, FiniteSets

CONSTANTS Validator, Faulty, Block, Genesis, Parent, Number, Ancestors,
          TotalDifficulty, maliciousVoteSlashScope, upperLimitOfVoteBlockNumber

Honest == Validator \ Faulty

ASSUME ValidatorAssumption ==
    /\ IsFiniteSet(Validator) /\ Faulty \subseteq Validator
    /\ 3 * Cardinality(Faulty) < Cardinality(Validator)

ASSUME TreeAssumption ==
    /\ Genesis \in Block
    /\ Parent \in [Block -> Block]
    /\ Number \in [Block -> Nat]
    /\ Ancestors \in [Block -> SUBSET Block]
    /\ TotalDifficulty \in [Block -> Nat]
    /\ Number[Genesis] = 0
    /\ Ancestors[Genesis] = {Genesis}
    /\ \A b \in Block \ {Genesis} :
          /\ Number[b] = Number[Parent[b]] + 1
          /\ Ancestors[b] = Ancestors[Parent[b]] \cup {b}

ASSUME LimitAssumption ==
    maliciousVoteSlashScope \in Nat /\ upperLimitOfVoteBlockNumber \in Nat

VARIABLES
    proposed,    \* blocks that exist
    justified,   \* [Block -> Block]: Snapshot.Attestation's target at the block
    finalized,   \* [Block -> Block]: Snapshot.Attestation's source at the block
    votes,       \* [Honest -> SUBSET Block]: targets voted for
    head,        \* [Honest -> Block]: currentBlock
    reported     \* [Honest -> SUBSET Block]: every block SetFinalized was given

vars == <<proposed, justified, finalized, votes, head, reported>>

Init ==
    /\ proposed = {Genesis}
    /\ justified = [b \in Block |-> Genesis]
    /\ finalized = [b \in Block |-> Genesis]
    /\ votes = [v \in Honest |-> {}]
    /\ head = [v \in Honest |-> Genesis]
    /\ reported = [v \in Honest |-> {Genesis}]

-----------------------------------------------------------------------------
CeilDiv(x, y) == (x + y - 1) \div y

Voters(b) == Faulty \cup {v \in Honest : b \in votes[v]}

(* Mutant: half of the validators are enough. *)
AttestableMutant(b) ==
    /\ b # Genesis
    /\ Cardinality(Voters(b)) >= CeilDiv(Cardinality(Validator), 2)

(* assembleVoteAttestation and verifyVoteAttestation: enough validators    *)
(* voted for the block.                                                    *)
Attestable(b) ==
    /\ b # Genesis
    /\ Cardinality(Voters(b)) >= CeilDiv(Cardinality(Validator) * 2, 3)

(* updateAttestation on the snapshot of b's parent: without an attestation *)
(* the snapshot is inherited; with one the parent becomes justified, and   *)
(* the source becomes final only if it is the target's direct parent.      *)
updateAttestation(b, attested) ==
    LET source == justified[Parent[b]]
        target == Parent[b]
    IN /\ justified' = [justified EXCEPT ![b] = IF attested THEN target ELSE source]
       /\ finalized' = [finalized EXCEPT ![b] =
              IF attested /\ Number[source] + 1 = Number[target] THEN source
                                                                 ELSE finalized[target]]

(* A proposer mines b, with an attestation of its parent or without one.   *)
Propose(b, attested) ==
    /\ b \notin proposed /\ Parent[b] \in proposed
    /\ attested => Attestable(Parent[b])
    /\ proposed' = proposed \cup {b}
    /\ updateAttestation(b, attested)
    /\ UNCHANGED <<votes, head, reported>>

(* UnderRules, over every vote the validator has cast.                     *)
LowWindow(b) ==
    LET s == Number[justified[b]]
    IN (IF s + 1 + maliciousVoteSlashScope < Number[b]
        THEN Number[b] - maliciousVoteSlashScope ELSE s + 1) .. Number[b] - 1

HighWindow(b) == Number[b] + 1 .. Number[b] + upperLimitOfVoteBlockNumber

UnderRules(v, b) ==
    \A c \in votes[v] :
        /\ Number[c] # Number[b]
        /\ Number[c] \in LowWindow(b) => Number[justified[c]] <= Number[justified[b]]
        /\ Number[c] \in HighWindow(b) => Number[justified[c]] >= Number[justified[b]]

(* What the two windows rely on.  A validator votes only in time (the      *)
(* "too late to vote" check), so its other targets are at most             *)
(* upperLimitOfVoteBlockNumber ahead; and the chain is justified at least  *)
(* once within the slash scope.                                            *)
InTime(v, b) ==
    /\ \A c \in votes[v] : Number[c] <= Number[b] + upperLimitOfVoteBlockNumber
    /\ Number[b] <= Number[justified[b]] + 1 + maliciousVoteSlashScope

(* loop's head event: the validator votes for the head it adopted.         *)
Vote(v, b) ==
    /\ b = head[v] /\ b # Genesis
    /\ InTime(v, b)
    /\ UnderRules(v, b)
    /\ votes' = [votes EXCEPT ![v] = @ \cup {b}]
    /\ UNCHANGED <<proposed, justified, finalized, head, reported>>

(* ReorgNeeded.  Equally heavy blocks of the same number are decided by    *)
(* the preserve rule, the timestamp or at random: left open.               *)
MayReorg(current, b) ==
    \/ TotalDifficulty[b] > TotalDifficulty[current]
    \/ TotalDifficulty[b] = TotalDifficulty[current] /\ Number[b] <= Number[current]

(* Mutant: only total difficulties are compared. *)
ReorgNeededWithFastFinalityMutant(current, b) == MayReorg(current, b)

ReorgNeededWithFastFinality(current, b) ==
    \/ Number[justified[b]] > Number[justified[current]]
    \/ Number[justified[b]] = Number[justified[current]] /\ MayReorg(current, b)

(* writeBlockAndSetHead, up to SetFinalized.                               *)
Adopt(v, b) ==
    /\ b \in proposed /\ b # head[v]
    /\ ReorgNeededWithFastFinality(head[v], b)
    /\ head' = [head EXCEPT ![v] = b]
    /\ reported' = [reported EXCEPT ![v] = @ \cup {finalized[b]}]
    /\ UNCHANGED <<proposed, justified, finalized, votes>>

Next ==
    \/ \E b \in Block, attested \in BOOLEAN : Propose(b, attested)
    \/ \E v \in Honest, b \in Block : Vote(v, b) \/ Adopt(v, b)

Spec == Init /\ [][Next]_vars

-----------------------------------------------------------------------------
(* Type invariant: the snapshots name blocks, and so does everything the  *)
(* validators voted for, adopted and gave to SetFinalized.                 *)
TypeOK ==
    /\ proposed \subseteq Block
    /\ justified \in [Block -> Block]
    /\ finalized \in [Block -> Block]
    /\ votes \in [Honest -> SUBSET Block]
    /\ head \in [Honest -> Block]
    /\ reported \in [Honest -> SUBSET Block]

Final == {finalized[b] : b \in proposed}

Comparable(b, c) == b \in Ancestors[c] \/ c \in Ancestors[b]

(* No two conflicting blocks are ever finalized: whatever the forks, the   *)
(* sources that updateAttestation makes final lie on one chain.            *)
FinalizedOnOneChain == \A b, c \in Final : Comparable(b, c)

(* An honest node never reorgs below a block it reported as finalized,     *)
(* even when the reorg lowers the finalized block of its head: every block *)
(* ever given to SetFinalized stays an ancestor of currentBlock.           *)
HeadKeepsReported == \A v \in Honest : reported[v] \subseteq Ancestors[head[v]]

Abstract == INSTANCE Finality WITH final <- Final

(* The snapshots of all blocks implement one growing chain of finalized    *)
(* blocks.                                                                 *)
ImplementsFinality == Abstract!Spec
=============================================================================
