------------------------- MODULE FastFinalityProofs -------------------------
(***************************************************************************)
(* Safety of fast finality for every validator set with less than a third  *)
(* faulty, every block tree and every pair of window sizes.                *)
(***************************************************************************)
EXTENDS FastFinality, TLAPS, FiniteSetTheorems, WellFoundedInduction

-----------------------------------------------------------------------------
(* Numbers and ancestors *)

(* A nonempty set of block numbers has a least element.                    *)
LEMMA LeastNumber ==
    ASSUME NEW T, T \subseteq Nat, T # {}
    PROVE  \E x \in T : \A y \in T : x <= y
<1> DEFINE R == {ss \in Nat \X Nat : ss[1] < ss[2]}
<1>1. IsWellFoundedOn(R, Nat)
  BY NatLessThanWellFounded DEF OpToRel
<1> HIDE DEF R
<1>2. PICK x \in T : \A y \in T : ~ (<<y, x>> \in R)
  BY WFMin, <1>1
<1>3. \A y \in T : ~(y < x)
  BY <1>2 DEF R
<1>4. QED BY <1>3

Ancestry(b) ==
    /\ b \in Ancestors[b]
    /\ Genesis \in Ancestors[b]
    /\ \A a \in Ancestors[b] : Ancestors[a] \subseteq Ancestors[b]

(* The ancestor relation of the block tree is reflexive and transitive,    *)
(* and every block descends from the genesis block.                        *)
LEMMA AncestorFacts == \A b \in Block : Ancestry(b)
<1> DEFINE T == {Number[b] : b \in {c \in Block : ~Ancestry(c)}}
<1> SUFFICES ASSUME NEW b0 \in Block, ~Ancestry(b0) PROVE FALSE
  OBVIOUS
<1>1. T \subseteq Nat /\ T # {}
  BY TreeAssumption
<1>2. PICK x \in T : \A y \in T : x <= y
  BY <1>1, LeastNumber
<1>3. PICK b \in Block : ~Ancestry(b) /\ x = Number[b]
  BY <1>2
<1>4. \A c \in Block : Number[c] < Number[b] => Ancestry(c)
  <2> SUFFICES ASSUME NEW c \in Block, Number[c] < Number[b], ~Ancestry(c) PROVE FALSE
    OBVIOUS
  <2>1. Number[c] \in T
    OBVIOUS
  <2>2. x <= Number[c]
    BY <2>1, <1>2
  <2> QED BY <2>2, <1>3, TreeAssumption
<1>5. CASE b = Genesis
  BY <1>5, <1>3, TreeAssumption DEF Ancestry
<1>6. CASE b # Genesis
  <2>1. /\ Parent[b] \in Block
        /\ Number[b] = Number[Parent[b]] + 1
        /\ Ancestors[b] = Ancestors[Parent[b]] \cup {b}
        /\ Number[Parent[b]] \in Nat
    BY <1>6, TreeAssumption
  <2>2. Ancestry(Parent[b])
    BY <2>1, <1>4
  <2>3. Ancestry(b)
    BY <2>1, <2>2 DEF Ancestry
  <2> QED BY <2>3, <1>3
<1> QED BY <1>5, <1>6

-----------------------------------------------------------------------------
(* Quorums *)

(* Two sets of validators that are each large enough for an attestation    *)
(* share an honest validator.                                              *)
LEMMA QuorumIntersection ==
    ASSUME NEW P \in SUBSET Validator, NEW Q \in SUBSET Validator,
           Cardinality(P) >= CeilDiv(Cardinality(Validator) * 2, 3),
           Cardinality(Q) >= CeilDiv(Cardinality(Validator) * 2, 3)
    PROVE  \E v \in Honest : v \in P /\ v \in Q
<1> DEFINE n == Cardinality(Validator)
<1>1. /\ IsFiniteSet(P) /\ IsFiniteSet(Q) /\ IsFiniteSet(P \cup Q) /\ IsFiniteSet(P \cap Q)
      /\ IsFiniteSet(Faulty)
  BY ValidatorAssumption, FS_Subset
<1>2. /\ n \in Nat /\ Cardinality(P) \in Nat /\ Cardinality(Q) \in Nat
      /\ Cardinality(P \cup Q) \in Nat /\ Cardinality(P \cap Q) \in Nat
      /\ Cardinality(Faulty) \in Nat
  BY <1>1, ValidatorAssumption, FS_CardinalityType
<1>3. Cardinality(P \cup Q) = Cardinality(P) + Cardinality(Q) - Cardinality(P \cap Q)
  BY <1>1, FS_Union
<1>4. Cardinality(P \cup Q) <= n
  BY ValidatorAssumption, FS_Subset
<1>5. 3 * CeilDiv(n * 2, 3) >= 2 * n
  BY <1>2 DEF CeilDiv
<1>6. CeilDiv(n * 2, 3) \in Int
  BY <1>2 DEF CeilDiv
<1>7. 3 * Cardinality(P \cap Q) >= n
  <2> HIDE DEF n
  <2> QED BY <1>2, <1>3, <1>4, <1>5, <1>6 DEF n
<1>8. Cardinality(P \cap Q) > Cardinality(Faulty)
  BY <1>2, <1>7, ValidatorAssumption
<1>9. ~(P \cap Q \subseteq Faulty)
  BY <1>1, <1>2, <1>8, FS_Subset
<1> QED BY <1>9 DEF Honest

-----------------------------------------------------------------------------
(* The inductive invariant *)

(* The snapshot of a block names a justified ancestor that a quorum voted  *)
(* for.                                                                    *)
JustifiedSound ==
    \A b \in proposed :
        /\ justified[b] \in proposed \cap Ancestors[b]
        /\ b # Genesis => Number[justified[b]] < Number[b]
        /\ \A j \in Block : j = justified[b] /\ j # Genesis => Attestable(j)

(* What makes f final: f and a child of it, whose source is f, were both   *)
(* voted for by quorums.                                                   *)
FinalBy(f, t) ==
    /\ t \in proposed /\ justified[t] = f /\ Number[t] = Number[f] + 1
    /\ Attestable(t) /\ Attestable(f)

IsFinal(f) == f \in proposed /\ (f # Genesis => \E t \in Block : FinalBy(f, t))

FinalizedSound ==
    \A b \in proposed : \A f \in Block : f = finalized[b] =>
        /\ IsFinal(f)
        /\ f # Genesis => Number[f] < Number[justified[b]]

(* The votes of an honest validator obey Rules 1 and 2.                    *)
VotesSound ==
    \A v \in Honest :
        /\ votes[v] \subseteq proposed \ {Genesis}
        /\ \A c, d \in votes[v] :
              /\ Number[c] = Number[d] => c = d
              /\ ~(Number[justified[c]] < Number[justified[d]] /\ Number[d] < Number[c])

HeadSound ==
    \A v \in Honest :
        /\ head[v] \in proposed
        /\ \A f \in reported[v] :
              /\ IsFinal(f)
              /\ f # Genesis => Number[f] < Number[justified[head[v]]]

IInv ==
    /\ TypeOK
    /\ Genesis \in proposed
    /\ justified[Genesis] = Genesis
    /\ JustifiedSound
    /\ FinalizedSound
    /\ VotesSound
    /\ HeadSound

(* The initial states satisfy the invariant.                               *)
LEMMA InitInv == Init => IInv
<1> SUFFICES ASSUME Init PROVE IInv
  OBVIOUS
<1>1. TypeOK
  BY TreeAssumption DEF Init, TypeOK
<1>2. JustifiedSound
  BY AncestorFacts, TreeAssumption DEF Init, JustifiedSound, Ancestry
<1>3. FinalizedSound
  BY TreeAssumption DEF Init, FinalizedSound, IsFinal
<1>4. VotesSound
  BY DEF Init, VotesSound
<1>5. HeadSound
  BY DEF Init, HeadSound, IsFinal
<1> QED BY <1>1, <1>2, <1>3, <1>4, <1>5, TreeAssumption DEF Init, IInv

(* Attestable blocks have an honest voter in common.                       *)
LEMMA CommonVoter ==
    ASSUME TypeOK, NEW b \in Block, NEW c \in Block, Attestable(b), Attestable(c)
    PROVE  \E v \in Honest : b \in votes[v] /\ c \in votes[v]
<1>1. Voters(b) \in SUBSET Validator /\ Voters(c) \in SUBSET Validator
  BY ValidatorAssumption DEF Voters, Honest
<1>2. PICK v \in Honest : v \in Voters(b) /\ v \in Voters(c)
  BY <1>1, QuorumIntersection DEF Attestable
<1> QED BY <1>2 DEF Voters, Honest

(* No block as high as a final one, or higher, is voted for by a quorum    *)
(* unless it descends from it.                                             *)
LEMMA AttestableAboveFinal ==
    ASSUME IInv, NEW f \in Block, IsFinal(f),
           NEW c0 \in proposed, Attestable(c0), Number[f] <= Number[c0]
    PROVE  f \in Ancestors[c0]
<1> USE TreeAssumption
<1>0. TypeOK /\ JustifiedSound /\ VotesSound /\ proposed \subseteq Block
  BY DEF IInv, TypeOK
<1> SUFFICES ASSUME f # Genesis PROVE f \in Ancestors[c0]
  BY AncestorFacts, <1>0 DEF Ancestry
<1>1. PICK t \in Block : FinalBy(f, t)
  BY DEF IsFinal
<1>2. \A c \in proposed : Attestable(c) /\ Number[c] = Number[f] => c = f
  BY <1>0, <1>1, CommonVoter DEF FinalBy, VotesSound
<1> DEFINE Bad(c) == /\ c \in proposed /\ Attestable(c) /\ Number[f] <= Number[c]
                     /\ f \notin Ancestors[c]
           T == {Number[c] : c \in {d \in Block : Bad(d)}}
<1> SUFFICES ASSUME Bad(c0) PROVE FALSE
  OBVIOUS
<1>3. T \subseteq Nat /\ T # {}
  <2>1. \A d \in Block : Number[d] \in Nat
    OBVIOUS
  <2>2. c0 \in {d \in Block : Bad(d)}
    BY <1>0
  <2> HIDE DEF Bad
  <2> QED BY <2>1, <2>2
<1>4. PICK x \in T : \A y \in T : x <= y
  BY <1>3, LeastNumber
<1>5. PICK c \in Block : Bad(c) /\ x = Number[c]
  BY <1>4
<1>6. \A d \in Block : Bad(d) => Number[c] <= Number[d]
  BY <1>4, <1>5
<1> HIDE DEF T
<1>7. Number[f] < Number[c]
  BY <1>0, <1>2, <1>5, AncestorFacts DEF Ancestry
<1>v. PICK v \in Honest : t \in votes[v] /\ c \in votes[v]
  BY <1>0, <1>1, <1>5, CommonVoter DEF FinalBy
<1>8. Number[t] < Number[c]
  <2>1. CASE Number[t] = Number[c]
    <3>1. t = c
      BY <2>1, <1>0, <1>v DEF VotesSound
    <3>2. f \in Ancestors[t]
      BY <1>0, <1>1 DEF FinalBy, JustifiedSound
    <3> QED BY <3>1, <3>2, <1>5
  <2> QED BY <2>1, <1>7, <1>1 DEF FinalBy
<1> DEFINE s == justified[c]
<1>9. /\ s \in proposed /\ s \in Ancestors[c] /\ Number[s] < Number[c]
      /\ s # Genesis => Attestable(s)
  BY <1>0, <1>5, <1>7 DEF JustifiedSound
<1>10. CASE Number[s] < Number[f]
  BY <1>v, <1>0, <1>1, <1>8, <1>10 DEF FinalBy, VotesSound
<1>11. CASE Number[f] <= Number[s]
  <2>0. Number[f] > 0
    OBVIOUS
  <2>1. Attestable(s)
    BY <2>0, <1>9, <1>11
  <2>2. f \in Ancestors[s]
    BY <2>1, <1>6, <1>9, <1>11, <1>0
  <2>3. f \in Ancestors[c]
    BY <2>2, <1>9, AncestorFacts DEF Ancestry
  <2> QED BY <2>3, <1>5
<1> QED BY <1>10, <1>11, <1>9, <1>0

-----------------------------------------------------------------------------
(* Preservation *)

(* A block that a quorum voted for stays so: votes are never withdrawn.    *)
LEMMA VotesGrow ==
    ASSUME TypeOK, TypeOK', \A v \in Honest : votes[v] \subseteq votes'[v],
           NEW b \in Block, Attestable(b)
    PROVE  Attestable(b)'
<1>1. Voters(b) \in SUBSET Voters(b)' /\ Voters(b)' \in SUBSET Validator
  BY ValidatorAssumption DEF Voters, Honest
<1>2. IsFiniteSet(Voters(b)') /\ IsFiniteSet(Voters(b))
  BY <1>1, ValidatorAssumption, FS_Subset
<1>3. Cardinality(Voters(b)) <= Cardinality(Voters(b)')
  BY <1>1, <1>2, FS_Subset
<1>4. /\ Cardinality(Voters(b)) \in Nat /\ Cardinality(Voters(b)') \in Nat
      /\ Cardinality(Validator) \in Nat
  BY <1>2, ValidatorAssumption, FS_CardinalityType
<1>5. CeilDiv(Cardinality(Validator) * 2, 3) \in Int
  BY <1>4 DEF CeilDiv
<1> QED BY <1>3, <1>4, <1>5 DEF Attestable

(* A final block stays final while snapshots and votes only grow.          *)
LEMMA FinalStays ==
    ASSUME TypeOK, TypeOK', \A v \in Honest : votes[v] \subseteq votes'[v],
           proposed \subseteq proposed', \A b \in proposed : justified'[b] = justified[b],
           NEW f \in Block, IsFinal(f)
    PROVE  IsFinal(f)'
<1> SUFFICES ASSUME f # Genesis PROVE \E t \in Block : FinalBy(f, t)'
  BY DEF IsFinal
<1>1. PICK t \in Block : FinalBy(f, t)
  BY DEF IsFinal
<1>2. Attestable(t)' /\ Attestable(f)'
  BY <1>1, VotesGrow DEF FinalBy
<1>3. FinalBy(f, t)'
  BY <1>1, <1>2 DEF FinalBy
<1> QED BY <1>3

(* Proposing a block preserves the invariant: updateAttestation only ever  *)
(* justifies a block that a quorum voted for.                              *)
LEMMA ProposeInv ==
    ASSUME IInv, NEW b \in Block, NEW attested \in BOOLEAN, Propose(b, attested)
    PROVE  IInv'
<1> USE TreeAssumption
<1> DEFINE p == Parent[b]
<1>0. /\ TypeOK /\ JustifiedSound /\ FinalizedSound /\ VotesSound /\ HeadSound
      /\ Genesis \in proposed /\ justified[Genesis] = Genesis
  BY DEF IInv
<1>1. /\ b # Genesis /\ p \in proposed /\ p \in Block /\ b \notin proposed
      /\ proposed' = proposed \cup {b} /\ proposed \subseteq Block
      /\ Number[b] = Number[p] + 1 /\ Ancestors[b] = Ancestors[p] \cup {b}
      /\ votes' = votes /\ head' = head /\ reported' = reported
  BY <1>0 DEF Propose, TypeOK
<1>q. PICK q \in Block : q = justified[p]
  BY <1>0, <1>1 DEF TypeOK
<1>f. PICK f \in Block : f = finalized[p]
  BY <1>0, <1>1 DEF TypeOK
<1>2. /\ justified' = [justified EXCEPT ![b] = IF attested THEN p ELSE q]
      /\ finalized' = [finalized EXCEPT ![b] = IF attested /\ Number[q] + 1 = Number[p]
                                                THEN q ELSE f]
  BY <1>q, <1>f DEF Propose, updateAttestation
<1>3. TypeOK'
  BY <1>0, <1>1, <1>2 DEF TypeOK
<1>4. \A c \in proposed : justified'[c] = justified[c] /\ finalized'[c] = finalized[c]
  BY <1>0, <1>1, <1>2 DEF TypeOK
<1>5. /\ justified'[b] = IF attested THEN p ELSE q
      /\ finalized'[b] = IF attested /\ Number[q] + 1 = Number[p] THEN q ELSE f
  BY <1>0, <1>2 DEF TypeOK
<1>6. /\ \A c \in Block : Attestable(c) => Attestable(c)'
      /\ \A c \in Block : IsFinal(c) => IsFinal(c)'
  BY <1>0, <1>1, <1>3, <1>4, VotesGrow, FinalStays
<1>7. /\ q \in proposed /\ q \in Ancestors[p] /\ (q # Genesis => Attestable(q))
      /\ p # Genesis => Number[q] < Number[p]
  BY <1>0, <1>1, <1>q DEF JustifiedSound
<1>8. attested => Attestable(p)
  BY DEF Propose
<1>9. JustifiedSound'
  <2> SUFFICES ASSUME NEW c \in proposed'
               PROVE  /\ justified'[c] \in proposed' \cap Ancestors[c]
                      /\ c # Genesis => Number[justified'[c]] < Number[c]
                      /\ \A j \in Block : j = justified'[c] /\ j # Genesis => Attestable(j)'
    BY DEF JustifiedSound
  <2>1. CASE c \in proposed
    BY <2>1, <1>0, <1>1, <1>4, <1>6 DEF JustifiedSound
  <2>2. CASE c = b
    <3>1. justified'[b] \in proposed /\ justified'[b] \in Ancestors[b]
      BY <1>1, <1>5, <1>7, AncestorFacts DEF Ancestry
    <3>2. Number[justified'[b]] < Number[b]
      BY <1>0, <1>1, <1>q, <1>5, <1>7
    <3>3. \A j \in Block : j = justified'[b] /\ j # Genesis => Attestable(j)'
      BY <1>1, <1>5, <1>6, <1>7, <1>8
    <3> QED BY <2>2, <3>1, <3>2, <3>3, <1>1
  <2> QED BY <2>1, <2>2, <1>1
<1>10. FinalizedSound'
  <2> SUFFICES ASSUME NEW c \in proposed', NEW g \in Block, g = finalized'[c]
               PROVE  /\ IsFinal(g)'
                      /\ g # Genesis => Number[g] < Number[justified'[c]]
    BY DEF FinalizedSound
  <2>1. CASE c \in proposed
    BY <2>1, <1>0, <1>4, <1>6 DEF FinalizedSound
  <2>2. CASE c = b /\ attested /\ Number[q] + 1 = Number[p]
    <3>1. g = q /\ justified'[b] = p
      BY <2>2, <1>5
    <3>2. q # Genesis => FinalBy(q, p)'
      BY <2>2, <1>1, <1>q, <1>4, <1>6, <1>7, <1>8 DEF FinalBy
    <3>3. IsFinal(q)'
      BY <3>2, <1>1, <1>7 DEF IsFinal
    <3> QED BY <2>2, <3>1, <3>3, <1>1
  <2>3. CASE c = b /\ ~(attested /\ Number[q] + 1 = Number[p])
    <3>1. g = f
      BY <2>3, <1>5
    <3>2. IsFinal(f) /\ (f # Genesis => Number[f] < Number[q])
      BY <1>0, <1>1, <1>q, <1>f DEF FinalizedSound
    <3>3. Number[q] <= Number[justified'[b]] /\ justified'[b] \in Block
      BY <1>0, <1>1, <1>q, <1>5, <1>7
    <3> QED BY <2>3, <3>1, <3>2, <3>3, <1>1, <1>6
  <2> QED BY <2>1, <2>2, <2>3, <1>1
<1>11. VotesSound'
  BY <1>0, <1>1, <1>4 DEF VotesSound
<1>12. HeadSound'
  <2>1. \A v \in Honest : reported[v] \subseteq Block
    BY <1>0 DEF TypeOK
  <2> QED BY <2>1, <1>0, <1>1, <1>4, <1>6 DEF HeadSound
<1> QED BY <1>0, <1>1, <1>3, <1>4, <1>9, <1>10, <1>11, <1>12 DEF IInv

(* Under the assumption InTime, UnderRules with its two bounded windows    *)
(* implies Rules 1 and 2 in full.                                          *)
LEMMA UnderRulesFull ==
    ASSUME IInv, NEW v \in Honest, NEW b \in proposed, b # Genesis,
           InTime(v, b), UnderRules(v, b), NEW c \in votes[v]
    PROVE  /\ Number[c] # Number[b]
           /\ ~(Number[justified[c]] < Number[justified[b]] /\ Number[b] < Number[c])
           /\ ~(Number[justified[b]] < Number[justified[c]] /\ Number[c] < Number[b])
<1> USE TreeAssumption, LimitAssumption
<1>1. /\ b \in Block /\ c \in Block /\ c \in proposed /\ c # Genesis
      /\ justified[b] \in Block /\ justified[c] \in Block
  <2>1. TypeOK /\ VotesSound
    BY DEF IInv
  <2>2. proposed \subseteq Block /\ votes[v] \subseteq proposed \ {Genesis}
    BY <2>1 DEF TypeOK, VotesSound
  <2> QED BY <2>1, <2>2 DEF TypeOK
<1>2. Number[justified[c]] < Number[c]
  BY <1>1 DEF IInv, JustifiedSound
<1> DEFINE nb == Number[b]
           nc == Number[c]
           sb == Number[justified[b]]
           sc == Number[justified[c]]
<1>3. nb \in Nat /\ nc \in Nat /\ sb \in Nat /\ sc \in Nat
  BY <1>1
<1>4. nc <= nb + upperLimitOfVoteBlockNumber /\ nb <= sb + 1 + maliciousVoteSlashScope
  BY DEF InTime
<1>5. LowWindow(b) = sb + 1 .. nb - 1 /\ HighWindow(b) = nb + 1 .. nb + upperLimitOfVoteBlockNumber
  <2>1. ~(Number[justified[b]] + 1 + maliciousVoteSlashScope < Number[b])
    BY <1>3, <1>4
  <2>2. LowWindow(b) = Number[justified[b]] + 1 .. Number[b] - 1
    BY <2>1 DEF LowWindow
  <2> QED BY <2>2 DEF HighWindow
<1>6. /\ nc # nb
      /\ nc \in sb + 1 .. nb - 1 => sc <= sb
      /\ nc \in nb + 1 .. nb + upperLimitOfVoteBlockNumber => sc >= sb
  BY <1>5 DEF UnderRules
<1> HIDE DEF nb, nc, sb, sc
<1>7. /\ nc # nb
      /\ ~(sc < sb /\ nb < nc)
      /\ ~(sb < sc /\ nc < nb)
  BY <1>2, <1>3, <1>4, <1>6 DEF nc, sc
<1> QED BY <1>7 DEF nb, nc, sb, sc

(* Voting preserves the invariant.                                         *)
LEMMA VoteInv ==
    ASSUME IInv, NEW v \in Honest, NEW b \in Block, Vote(v, b)
    PROVE  IInv'
<1> USE TreeAssumption
<1>0. /\ TypeOK /\ JustifiedSound /\ FinalizedSound /\ VotesSound /\ HeadSound
      /\ Genesis \in proposed /\ justified[Genesis] = Genesis
  BY DEF IInv
<1>1. /\ proposed' = proposed /\ justified' = justified /\ finalized' = finalized
      /\ head' = head /\ reported' = reported
      /\ votes' = [votes EXCEPT ![v] = @ \cup {b}]
      /\ b = head[v] /\ b # Genesis /\ InTime(v, b) /\ UnderRules(v, b)
  BY DEF Vote
<1>2. TypeOK'
  BY <1>0, <1>1 DEF TypeOK
<1>3. \A w \in Honest : votes[w] \subseteq votes'[w]
  BY <1>0, <1>1 DEF TypeOK
<1>4. /\ \A c \in Block : Attestable(c) => Attestable(c)'
      /\ \A c \in Block : IsFinal(c) => IsFinal(c)'
  BY <1>0, <1>1, <1>2, <1>3, VotesGrow, FinalStays
<1>5. JustifiedSound'
  BY <1>0, <1>1, <1>4 DEF JustifiedSound
<1>6. FinalizedSound'
  BY <1>0, <1>1, <1>4 DEF FinalizedSound
<1>7. VotesSound'
  <2>1. b \in proposed
    BY <1>0, <1>1 DEF HeadSound
  <2>2. \A c \in votes[v] :
            /\ Number[c] # Number[b]
            /\ ~(Number[justified[c]] < Number[justified[b]] /\ Number[b] < Number[c])
            /\ ~(Number[justified[b]] < Number[justified[c]] /\ Number[c] < Number[b])
    BY <2>1, <1>1, UnderRulesFull
  <2>3. votes'[v] = votes[v] \cup {b} /\ \A w \in Honest \ {v} : votes'[w] = votes[w]
    BY <1>0, <1>1 DEF TypeOK
  <2>4. /\ votes'[v] \subseteq proposed \ {Genesis}
        /\ \A c, d \in votes'[v] :
              /\ Number[c] = Number[d] => c = d
              /\ ~(Number[justified[c]] < Number[justified[d]] /\ Number[d] < Number[c])
    <3>1. /\ votes[v] \subseteq proposed \ {Genesis}
          /\ \A c, d \in votes[v] :
                /\ Number[c] = Number[d] => c = d
                /\ ~(Number[justified[c]] < Number[justified[d]] /\ Number[d] < Number[c])
      BY <1>0 DEF VotesSound
    <3>2. ~(Number[b] < Number[b])
      OBVIOUS
    <3> QED BY <3>1, <3>2, <2>1, <2>2, <2>3, <1>1
  <2> QED BY <2>3, <2>4, <1>0, <1>1 DEF VotesSound
<1>8. HeadSound'
  <2>1. \A w \in Honest : reported[w] \subseteq Block
    BY <1>0 DEF TypeOK
  <2> QED BY <2>1, <1>0, <1>1, <1>4 DEF HeadSound
<1> QED BY <1>0, <1>1, <1>2, <1>5, <1>6, <1>7, <1>8 DEF IInv

(* Adopting a head preserves the invariant: the justified number of the    *)
(* head never decreases.                                                   *)
LEMMA AdoptInv ==
    ASSUME IInv, NEW v \in Honest, NEW b \in Block, Adopt(v, b)
    PROVE  IInv'
<1> USE TreeAssumption
<1>0. /\ TypeOK /\ JustifiedSound /\ FinalizedSound /\ VotesSound /\ HeadSound
      /\ Genesis \in proposed /\ justified[Genesis] = Genesis
  BY DEF IInv
<1>1. /\ proposed' = proposed /\ justified' = justified /\ finalized' = finalized
      /\ votes' = votes /\ b \in proposed
      /\ head' = [head EXCEPT ![v] = b]
      /\ reported' = [reported EXCEPT ![v] = @ \cup {finalized[b]}]
      /\ Number[justified[b]] >= Number[justified[head[v]]]
  <2>1. ReorgNeededWithFastFinality(head[v], b) => Number[justified[b]] >= Number[justified[head[v]]]
    BY <1>0 DEF ReorgNeededWithFastFinality, TypeOK
  <2> QED BY <2>1 DEF Adopt
<1>2. TypeOK'
  BY <1>0, <1>1 DEF TypeOK
<1>4. /\ \A c \in Block : Attestable(c) => Attestable(c)'
      /\ \A c \in Block : IsFinal(c) => IsFinal(c)'
  BY <1>0, <1>1, <1>2, VotesGrow, FinalStays
<1>5. JustifiedSound'
  BY <1>0, <1>1, <1>4 DEF JustifiedSound
<1>6. FinalizedSound'
  BY <1>0, <1>1, <1>4 DEF FinalizedSound
<1>7. VotesSound'
  BY <1>0, <1>1 DEF VotesSound
<1>8. HeadSound'
  <2> SUFFICES ASSUME NEW w \in Honest
               PROVE  /\ head'[w] \in proposed
                      /\ \A f \in reported'[w] :
                            /\ IsFinal(f)'
                            /\ f # Genesis => Number[f] < Number[justified[head'[w]]]
    BY <1>1 DEF HeadSound
  <2>1. \A f \in reported[w] : /\ f \in Block /\ IsFinal(f)
                               /\ f # Genesis => Number[f] < Number[justified[head[w]]]
    BY <1>0 DEF HeadSound, TypeOK
  <2>2. CASE w # v
    BY <2>1, <2>2, <1>0, <1>1, <1>4 DEF HeadSound, TypeOK
  <2>3. CASE w = v
    <3>1. head'[w] = b /\ reported'[w] = reported[w] \cup {finalized[b]}
      BY <2>3, <1>0, <1>1 DEF TypeOK
    <3>2. \A f \in Block : f = finalized[b] =>
              IsFinal(f) /\ (f # Genesis => Number[f] < Number[justified[b]])
      BY <1>0, <1>1 DEF FinalizedSound
    <3>3. /\ justified[b] \in Block /\ justified[head[v]] \in Block /\ finalized[b] \in Block
      BY <1>0 DEF TypeOK
    <3>4. \A f \in Block : Number[f] < Number[justified[head[v]]] => Number[f] < Number[justified[b]]
      BY <3>3, <1>1
    <3> QED BY <2>1, <2>3, <3>1, <3>2, <3>3, <3>4, <1>1, <1>4
  <2> QED BY <2>2, <2>3
<1> QED BY <1>0, <1>1, <1>2, <1>5, <1>6, <1>7, <1>8 DEF IInv

-----------------------------------------------------------------------------
(* The theorems *)

(* Every step of the network preserves the invariant.                      *)
THEOREM FinalityInvariant == Spec => []IInv
<1>1. IInv /\ [Next]_vars => IInv'
  <2> SUFFICES ASSUME IInv, [Next]_vars PROVE IInv'
    OBVIOUS
  <2>1. CASE \E b \in Block, attested \in BOOLEAN : Propose(b, attested)
    BY <2>1, ProposeInv
  <2>2. CASE \E v \in Honest, b \in Block : Vote(v, b)
    BY <2>2, VoteInv
  <2>3. CASE \E v \in Honest, b \in Block : Adopt(v, b)
    BY <2>3, AdoptInv
  <2>4. CASE UNCHANGED vars
    <3>0. /\ TypeOK /\ JustifiedSound /\ FinalizedSound /\ VotesSound /\ HeadSound
          /\ Genesis \in proposed /\ justified[Genesis] = Genesis
      BY DEF IInv
    <3>1. TypeOK'
      BY <2>4, <3>0 DEF vars, TypeOK
    <3>2. /\ \A c \in Block : Attestable(c) => Attestable(c)'
          /\ \A c \in Block : IsFinal(c) => IsFinal(c)'
      BY <2>4, <3>0, <3>1, VotesGrow, FinalStays DEF vars
    <3>3. JustifiedSound' /\ FinalizedSound'
      BY <2>4, <3>0, <3>2 DEF vars, JustifiedSound, FinalizedSound
    <3>4. VotesSound'
      BY <2>4, <3>0 DEF vars, VotesSound
    <3>5. HeadSound'
      BY <2>4, <3>0, <3>2 DEF vars, HeadSound, TypeOK
    <3> QED BY <2>4, <3>0, <3>1, <3>3, <3>4, <3>5 DEF vars, IInv
  <2> QED BY <2>1, <2>2, <2>3, <2>4 DEF Next
<1> QED BY <1>1, InitInv, PTL DEF Spec

(* The snapshots, votes and heads of the network are well typed.           *)
THEOREM FinalityTyped == Spec => []TypeOK
<1>1. IInv => TypeOK
  BY DEF IInv
<1> QED BY <1>1, FinalityInvariant, PTL

(* With less than a third of the validators faulty, no two conflicting     *)
(* blocks are ever finalized by updateAttestation.                         *)
THEOREM FinalizedNeverConflict == Spec => []FinalizedOnOneChain
<1>1. IInv => FinalizedOnOneChain
  <2> SUFFICES ASSUME IInv, NEW x \in proposed, NEW y \in proposed
               PROVE  Comparable(finalized[x], finalized[y])
    BY DEF FinalizedOnOneChain, Final
  <2>1. PICK f \in Block : f = finalized[x] /\ IsFinal(f)
    BY DEF IInv, TypeOK, FinalizedSound
  <2>2. PICK g \in Block : g = finalized[y] /\ IsFinal(g)
    BY DEF IInv, TypeOK, FinalizedSound
  <2>3. CASE f = Genesis \/ g = Genesis
    BY <2>1, <2>2, <2>3, AncestorFacts DEF Ancestry, Comparable
  <2>4. CASE f # Genesis /\ g # Genesis
    <3>1. Attestable(f) /\ Attestable(g) /\ f \in proposed /\ g \in proposed
      BY <2>1, <2>2, <2>4 DEF IsFinal, FinalBy
    <3>2. Number[f] <= Number[g] \/ Number[g] <= Number[f]
      BY TreeAssumption
    <3>3. f \in Ancestors[g] \/ g \in Ancestors[f]
      BY <3>1, <3>2, <2>1, <2>2, AttestableAboveFinal
    <3> QED BY <3>3, <2>1, <2>2 DEF Comparable
  <2> QED BY <2>3, <2>4
<1> QED BY <1>1, FinalityInvariant, PTL

(* An honest node never abandons a block it ever reported as finalized:    *)
(* ReorgNeededWithFastFinality compares justified numbers first.           *)
THEOREM ReportedNeverReverted == Spec => []HeadKeepsReported
<1>1. IInv => HeadKeepsReported
  <2> SUFFICES ASSUME IInv, NEW v \in Honest, NEW f \in reported[v]
               PROVE  f \in Ancestors[head[v]]
    BY DEF HeadKeepsReported
  <2>1. /\ head[v] \in proposed /\ head[v] \in Block /\ f \in Block /\ IsFinal(f)
        /\ f # Genesis => Number[f] < Number[justified[head[v]]]
    BY DEF IInv, TypeOK, HeadSound
  <2>2. CASE f = Genesis
    BY <2>1, <2>2, AncestorFacts DEF Ancestry
  <2>3. CASE f # Genesis
    <3>1. PICK j \in Block : j = justified[head[v]]
      BY <2>1 DEF IInv, TypeOK
    <3>2. j # Genesis
      BY <2>1, <2>3, <3>1, TreeAssumption
    <3>3. j \in proposed /\ j \in Ancestors[head[v]] /\ Attestable(j)
      BY <2>1, <3>1, <3>2 DEF IInv, JustifiedSound
    <3>4. f \in Ancestors[j]
      BY <2>1, <2>3, <3>1, <3>3, TreeAssumption, AttestableAboveFinal
    <3> QED BY <2>1, <3>3, <3>4, AncestorFacts DEF Ancestry
  <2> QED BY <2>2, <2>3
<1> QED BY <1>1, FinalityInvariant, PTL

(* Fast finality implements its abstract specification: the finalized      *)
(* blocks of all snapshots are one growing chain.                          *)
THEOREM FastFinalityImplementsFinality == Spec => ImplementsFinality
<1>1. Init => Abstract!Init
  BY TreeAssumption DEF Init, Abstract!Init, Final
<1>2. TypeOK /\ FinalizedOnOneChain' /\ [Next]_vars => [Abstract!Next]_Final
  <2> SUFFICES ASSUME TypeOK, FinalizedOnOneChain', [Next]_vars
               PROVE  Final' = Final \/ Abstract!Next
    OBVIOUS
  <2>1. CASE UNCHANGED <<proposed, finalized>>
    BY <2>1 DEF Final
  <2>2. CASE \E b \in Block, attested \in BOOLEAN : Propose(b, attested)
    <3>1. PICK b \in Block, attested \in BOOLEAN : Propose(b, attested)
      BY <2>2
    <3>2. PICK f \in Block : finalized' = [finalized EXCEPT ![b] = f]
      BY <3>1, TreeAssumption DEF Propose, updateAttestation, TypeOK
    <3>3. Final' = Final \cup {f}
      BY <3>1, <3>2 DEF Propose, Final, TypeOK
    <3>4. \A c \in Final : Comparable(f, c)
      BY <3>3 DEF FinalizedOnOneChain, Comparable
    <3>5. Abstract!Finalize(f)
      BY <3>3, <3>4 DEF Abstract!Finalize, Abstract!Comparable, Comparable
    <3> QED BY <3>5 DEF Abstract!Next
  <2> QED BY <2>1, <2>2 DEF Next, Vote, Adopt, vars
<1> QED BY <1>1, <1>2, FinalityTyped, FinalizedNeverConflict, PTL
        DEF Spec, ImplementsFinality, Abstract!Spec
=============================================================================
