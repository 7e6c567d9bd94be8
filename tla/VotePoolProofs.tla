--------------------------- MODULE VotePoolProofs ---------------------------
(***************************************************************************)
(* Safety of the vote pool for every chain, every set of envelopes and     *)
(* every value of the limits.                                              *)
(***************************************************************************)
EXTENDS VotePool, FiniteSetTheorems, TLAPS

(* A future vote is in the box of its target, and its signature verifies.  *)
FutureVotesBoxed ==
    \A h \in DOMAIN futureVotes : \A v \in futureVotes[h].voteMessages :
        v.targetHash = h /\ v.sigOK

(* Entries are set aside only while the second loop runs.                  *)
BufferInSecondLoop == drain.phase # "recent" => drain.buffer = {}

IInv ==
    /\ TypeOK
    /\ ReceivedIsStored
    /\ PqMatchesBoxes
    /\ CurVotesVerified
    /\ FutureVotesBoxed
    /\ BufferInSecondLoop

(* The empty vote pool satisfies the invariant.                            *)
LEMMA InitInv == Init => IInv
<1> SUFFICES ASSUME Init PROVE IInv
  OBVIOUS
<1> USE DEF Init
<1>1. DOMAIN curVotes = {} /\ DOMAIN futureVotes = {}
  OBVIOUS
<1>2. TypeOK
  BY <1>1, ChainAssumption DEF TypeOK, IsMap, Idle, NoInsert, Box, Entry
<1>3. ReceivedIsStored /\ PqMatchesBoxes
  BY <1>1 DEF ReceivedIsStored, PqMatchesBoxes, StoredIn, Entries, Idle
<1> QED
  BY <1>1, <1>2, <1>3 DEF IInv, CurVotesVerified, FutureVotesBoxed, BufferInSecondLoop, Idle

(* The steps of the inserting goroutine do not touch the pool.             *)
LEMMA ChainInv == IInv /\ ChainStep => IInv'
<1> SUFFICES ASSUME IInv, ChainStep PROVE IInv'
  OBVIOUS
<1> USE DEF IInv
<1>1. UNCHANGED <<poolVars, drain>>
  BY DEF ChainStep, StartInsert, Archive, SendHead, WriteBlockWithState, WriteFails
<1>2. TypeOK'
  <2>1. headCh' \in Seq(Nat)
    <3>1. CASE SendHead
      BY <3>1, ChainAssumption DEF TypeOK, SendHead
    <3>2. CASE ~SendHead
      BY <3>2 DEF TypeOK, ChainStep, StartInsert, Archive, WriteBlockWithState, WriteFails
    <3> QED
      BY <3>1, <3>2
  <2>2. /\ stored' \subseteq Block /\ archived' \subseteq Block /\ current' \in Block /\ highestVerified' \in Block
        /\ inserting' \in [phase : {"none", "send", "write"}, block : Block]
        /\ failures' \in Nat
    <3> inserting.block \in Block /\ NoInsert \in [phase : {"none", "send", "write"}, block : Block]
      BY ChainAssumption DEF TypeOK, NoInsert
    <3>1. ASSUME NEW b \in Block, StartInsert(b) \/ Archive(b) PROVE
        /\ stored' \subseteq Block /\ archived' \subseteq Block /\ current' \in Block /\ highestVerified' \in Block
        /\ inserting' \in [phase : {"none", "send", "write"}, block : Block]
        /\ failures' \in Nat
      BY <3>1 DEF TypeOK, StartInsert, Archive
    <3>2. CASE SendHead
      BY <3>2 DEF TypeOK, SendHead
    <3>3. CASE WriteBlockWithState
      BY <3>3 DEF TypeOK, WriteBlockWithState
    <3>4. CASE WriteFails
      BY <3>4 DEF TypeOK, WriteFails
    <3> QED
      BY <3>1, <3>2, <3>3, <3>4 DEF ChainStep
  <2> QED
    BY <1>1, <2>1, <2>2 DEF TypeOK, poolVars
<1> QED
  BY <1>1, <1>2 DEF poolVars, ReceivedIsStored, PqMatchesBoxes, CurVotesVerified,
     FutureVotesBoxed, BufferInSecondLoop, StoredIn

(* The votes of a map are those of its boxes.                              *)
LEMMA StoredInElement ==
    ASSUME NEW m, NEW w
    PROVE  w \in StoredIn(m) <=> \E h \in DOMAIN m : w \in m[h].voteMessages
BY DEF StoredIn

(* What putVote makes of a map m: b is m with v in the box of its target.  *)
HasVote(m, v, b) ==
    /\ IsMap(b)
    /\ DOMAIN b = DOMAIN m \cup {v.targetHash}
    /\ \A h \in DOMAIN m : b[h].blockNumber = m[h].blockNumber
    /\ v.targetHash \notin DOMAIN m => b[v.targetHash].blockNumber = v.targetNumber
    /\ \A h \in DOMAIN b : \A w :
          w \in b[h].voteMessages <=>
             \/ h \in DOMAIN m /\ w \in m[h].voteMessages
             \/ h = v.targetHash /\ w = v

(* BoxWith puts the vote into the box of its target, made if it is not     *)
(* there.                                                                  *)
LEMMA BoxWithFacts ==
    ASSUME NEW m, IsMap(m), NEW v \in Envelope
    PROVE  HasVote(m, v, BoxWith(m, v))
<1> v.targetHash \in Block /\ v.targetNumber \in Nat
  BY EnvelopeAssumption
<1> DEFINE b == BoxWith(m, v)
<1>1. CASE v.targetHash \in DOMAIN m
  <2>1. m[v.targetHash] \in Box
    BY <1>1 DEF IsMap
  <2> QED
    BY <1>1, <2>1 DEF HasVote, IsMap, BoxWith, Box
<1>2. CASE v.targetHash \notin DOMAIN m
  <2>1. b = [g \in DOMAIN m \cup {v.targetHash} |->
              IF g = v.targetHash THEN [blockNumber |-> v.targetNumber, voteMessages |-> {v}]
              ELSE m[g]]
    BY <1>2 DEF BoxWith, WithBox
  <2> QED
    BY <1>2, <2>1 DEF HasVote, IsMap, Box
<1> QED
  BY <1>1, <1>2

(* Putting a vote adds this vote and no other.                             *)
LEMMA HasVoteStored ==
    ASSUME NEW m, IsMap(m), NEW v \in Envelope, NEW b, HasVote(m, v, b)
    PROVE  StoredIn(b) = StoredIn(m) \cup {v}
<1>1. ASSUME NEW w PROVE w \in StoredIn(b) <=> w \in StoredIn(m) \cup {v}
  <2>1. w \in StoredIn(b) <=> \E h \in DOMAIN b : w \in b[h].voteMessages
    BY StoredInElement
  <2>2. w \in StoredIn(m) <=> \E h \in DOMAIN m : w \in m[h].voteMessages
    BY StoredInElement
  <2> QED
    BY <2>1, <2>2 DEF HasVote
<1> QED
  BY <1>1

(* The queue keeps one entry per box when a vote is put.                   *)
LEMMA HasVoteEntries ==
    ASSUME NEW m, IsMap(m), NEW v \in Envelope, NEW b, HasVote(m, v, b)
    PROVE  Entries(b) = PqWith(m, Entries(m), v)
<1>1. CASE v.targetHash \in DOMAIN m
  <2>1. DOMAIN b = DOMAIN m /\ \A h \in DOMAIN m : b[h].blockNumber = m[h].blockNumber
    BY <1>1 DEF HasVote
  <2> QED
    BY <1>1, <2>1 DEF Entries, PqWith
<1>2. CASE v.targetHash \notin DOMAIN m
  <2>1. ASSUME NEW e PROVE e \in Entries(b) <=> e \in Entries(m) \cup {VoteData(v)}
    BY <1>2 DEF Entries, VoteData, HasVote
  <2> QED
    BY <1>2, <2>1 DEF PqWith
<1> QED
  BY <1>1, <1>2

(* putVote into futureVotes keeps the invariant.                           *)
LEMMA PutFutureInv ==
    ASSUME IInv, NEW v \in Envelope, PutFuture(v)
    PROVE  IInv'
<1> USE DEF PutFuture
<1>0. IsMap(futureVotes) /\ IsMap(curVotes) /\ drain.buffer = {}
  BY DEF IInv, TypeOK, BufferInSecondLoop
<1>1. HasVote(futureVotes, v, futureVotes')
  BY <1>0, BoxWithFacts
<1>2. StoredIn(futureVotes') = StoredIn(futureVotes) \cup {v}
  BY <1>0, <1>1, HasVoteStored
<1>3. Entries(futureVotes') = PqWith(futureVotes, Entries(futureVotes), v)
  BY <1>0, <1>1, HasVoteEntries
<1>4. TypeOK'
  <2>1. VoteData(v) \in Entry
    BY EnvelopeAssumption DEF VoteData, Entry
  <2> QED
    BY <1>1, <2>1 DEF IInv, TypeOK, HasVote, PqWith, chainVars
<1>5. ReceivedIsStored'
  BY <1>2 DEF IInv, ReceivedIsStored, basicVerify
<1>6. PqMatchesBoxes'
  BY <1>0, <1>3 DEF IInv, PqMatchesBoxes
<1>7. CurVotesVerified' /\ BufferInSecondLoop'
  BY DEF IInv, CurVotesVerified, BufferInSecondLoop
<1>8. FutureVotesBoxed'
  BY <1>1 DEF IInv, FutureVotesBoxed, HasVote, basicVerify
<1> QED
  BY <1>4, <1>5, <1>6, <1>7, <1>8 DEF IInv

(* putVote into curVotes keeps the invariant.                              *)
LEMMA PutCurInv ==
    ASSUME IInv, NEW v \in Envelope, PutCur(v)
    PROVE  IInv'
<1> USE DEF PutCur
<1>0. IsMap(futureVotes) /\ IsMap(curVotes)
  BY DEF IInv, TypeOK
<1>1. HasVote(curVotes, v, curVotes')
  BY <1>0, BoxWithFacts
<1>2. StoredIn(curVotes') = StoredIn(curVotes) \cup {v}
  BY <1>0, <1>1, HasVoteStored
<1>3. Entries(curVotes') = PqWith(curVotes, Entries(curVotes), v)
  BY <1>0, <1>1, HasVoteEntries
<1>4. TypeOK'
  <2>1. VoteData(v) \in Entry
    BY EnvelopeAssumption DEF VoteData, Entry
  <2> QED
    BY <1>1, <2>1 DEF IInv, TypeOK, HasVote, PqWith, chainVars
<1>5. ReceivedIsStored'
  BY <1>2 DEF IInv, ReceivedIsStored, basicVerify
<1>6. PqMatchesBoxes'
  BY <1>0, <1>3 DEF IInv, PqMatchesBoxes
<1>7. FutureVotesBoxed' /\ BufferInSecondLoop'
  BY DEF IInv, FutureVotesBoxed, BufferInSecondLoop
<1>8. CurVotesVerified'
  BY <1>1 DEF IInv, CurVotesVerified, HasVote, basicVerify, VerifyVote
<1> QED
  BY <1>4, <1>5, <1>6, <1>7, <1>8 DEF IInv

(* prune removes the entries, the boxes and the hashes of the same blocks. *)
LEMMA HandleHeadInv == IInv /\ HandleHead => IInv'
<1> SUFFICES ASSUME IInv, HandleHead PROVE IInv'
  OBVIOUS
<1> DEFINE latest == Head(headCh)
           old == {e \in curVotesPq : Outdated(e, latest)}
           gone == {e.targetHash : e \in old}
           kept == DOMAIN curVotes \ gone
<1>0. /\ headCh # <<>>
      /\ curVotesPq' = curVotesPq \ old
      /\ receivedVotes' = receivedVotes \ Forgotten(gone)
      /\ curVotes' = [h \in kept |-> curVotes[h]]
      /\ drain.phase = "idle"
      /\ drain' = [phase |-> "old", latest |-> latest, buffer |-> {}]
      /\ headCh' = Tail(headCh)
      /\ UNCHANGED <<chainVars, futureVotes, futureVotesPq>>
  BY DEF HandleHead, Restrict
<1>1. /\ IsMap(curVotes) /\ IsMap(curVotes') /\ DOMAIN curVotes' = kept
      /\ \A h \in kept : curVotes'[h] = curVotes[h]
  BY <1>0 DEF IInv, TypeOK, IsMap
<1>2. \A h \in DOMAIN curVotes : \A v \in curVotes[h].voteMessages : v.targetHash = h
  BY DEF IInv, CurVotesVerified
<1>3. latest \in Nat /\ Tail(headCh) \in Seq(Nat)
  BY <1>0 DEF IInv, TypeOK
<1>4. TypeOK'
  BY <1>0, <1>1, <1>3 DEF IInv, TypeOK, chainVars
<1>5. ReceivedIsStored'
  <2>1. gone \subseteq DOMAIN curVotes
    BY DEF IInv, PqMatchesBoxes, Entries
  <2> HIDE DEF gone
  <2>2. ASSUME NEW w PROVE w \in StoredIn(curVotes') <=>
                            w \in StoredIn(curVotes) /\ w \notin Forgotten(gone)
    <3>1. w \in StoredIn(curVotes') <=> \E h \in kept : w \in curVotes[h].voteMessages
      BY <1>1, StoredInElement
    <3>2. w \in StoredIn(curVotes) <=> \E h \in DOMAIN curVotes : w \in curVotes[h].voteMessages
      BY StoredInElement
    <3>3. w \in Forgotten(gone) <=> \E h \in gone : w \in curVotes[h].voteMessages
      BY <2>1 DEF Forgotten, Messages
    <3> QED
      BY <1>2, <2>1, <3>1, <3>2, <3>3
  <2>3. \A w : w \in Forgotten(gone) => w \in StoredIn(curVotes)
    BY <2>1, StoredInElement DEF Forgotten, Messages
  <2> QED
    BY <1>0, <2>2, <2>3 DEF IInv, ReceivedIsStored
<1>6. PqMatchesBoxes'
  <2>1. \A h \in DOMAIN curVotes :
           h \in gone <=> [targetNumber |-> curVotes[h].blockNumber, targetHash |-> h] \in old
    BY DEF IInv, PqMatchesBoxes, Entries
  <2>2. ASSUME NEW e PROVE e \in Entries(curVotes') <=> e \in Entries(curVotes) \ old
    <3> HIDE DEF old, gone
    <3> QED BY <1>1, <2>1 DEF Entries
  <2>3. curVotesPq' = Entries(curVotes')
    BY <1>0, <2>2 DEF IInv, PqMatchesBoxes
  <2> QED
    BY <1>0, <2>3 DEF IInv, PqMatchesBoxes, BufferInSecondLoop
<1>7. CurVotesVerified'
  BY <1>1 DEF IInv, CurVotesVerified
<1>8. FutureVotesBoxed' /\ BufferInSecondLoop'
  BY <1>0 DEF IInv, FutureVotesBoxed, BufferInSecondLoop
<1> QED
  BY <1>4, <1>5, <1>6, <1>7, <1>8 DEF IInv

(* transfer of the entry e, with the rest of the state as the two loops    *)
(* leave it.                                                               *)
LEMMA TransferInv ==
    ASSUME IInv, NEW e \in futureVotesPq, transfer(e), UNCHANGED <<chainVars, headCh, drain>>
    PROVE  IInv'
<1> DEFINE h == e.targetHash
           votes == Messages(futureVotes, h)
           valid == {v \in votes : VerifyVote(v)}
<1>0. h \in DOMAIN futureVotes /\ e.targetNumber = futureVotes[h].blockNumber
      /\ e = [targetNumber |-> futureVotes[h].blockNumber, targetHash |-> h]
  BY DEF IInv, PqMatchesBoxes, Entries
<1>1. votes = futureVotes[h].voteMessages
  BY <1>0 DEF Messages
<1>2. /\ futureVotesPq' = futureVotesPq \ {e}
      /\ receivedVotes' = receivedVotes \ (votes \ valid)
      /\ futureVotes' = [g \in DOMAIN futureVotes \ {h} |-> futureVotes[g]]
  BY DEF transfer, Without, Restrict
<1>3. IsMap(futureVotes) /\ IsMap(curVotes)
  BY DEF IInv, TypeOK
<1>4. /\ IsMap(futureVotes') /\ DOMAIN futureVotes' = DOMAIN futureVotes \ {h}
      /\ \A g \in DOMAIN futureVotes' : futureVotes'[g] = futureVotes[g]
  BY <1>2, <1>3 DEF IsMap
<1>5. futureVotes[h] \in Box /\ valid \subseteq votes /\ votes \subseteq Envelope
  BY <1>0, <1>1, <1>3 DEF IsMap, Box
<1> HIDE DEF valid, votes, h
<1>6. /\ IsMap(curVotes') /\ DOMAIN curVotes' = DOMAIN curVotes \cup {h}
      /\ \A g \in DOMAIN curVotes : curVotes'[g].blockNumber = curVotes[g].blockNumber
      /\ h \notin DOMAIN curVotes => curVotes'[h].blockNumber = futureVotes[h].blockNumber
      /\ \A g \in DOMAIN curVotes' : \A w :
            w \in curVotes'[g].voteMessages <=>
                \/ g \in DOMAIN curVotes /\ w \in curVotes[g].voteMessages
                \/ g = h /\ w \in valid
      /\ h \in DOMAIN curVotes => curVotesPq' = curVotesPq
      /\ h \notin DOMAIN curVotes => curVotesPq' = curVotesPq \cup {e}
  <2>0. h \in Block
    BY <1>0, <1>3 DEF IsMap
  <2>1. CASE h \in DOMAIN curVotes
    <3>1. /\ curVotes' = [curVotes EXCEPT ![h].voteMessages = @ \cup valid]
          /\ curVotesPq' = curVotesPq
      BY <2>1 DEF transfer, h, votes, valid
    <3>2. curVotes[h] \in Box
      BY <1>3, <2>1 DEF IsMap
    <3> QED
      BY <1>3, <1>5, <2>0, <2>1, <3>1, <3>2 DEF IsMap, Box
  <2>2. CASE h \notin DOMAIN curVotes
    <3>1. /\ curVotes' = [g \in DOMAIN curVotes \cup {h} |->
                            IF g = h THEN [blockNumber |-> futureVotes[h].blockNumber,
                                           voteMessages |-> valid]
                            ELSE curVotes[g]]
          /\ curVotesPq' = curVotesPq \cup {e}
      BY <2>2 DEF transfer, WithBox, h, votes, valid
    <3> QED
      BY <1>3, <1>5, <2>0, <2>2, <3>1 DEF IsMap, Box
  <2> QED
    BY <2>1, <2>2
<1>7. TypeOK'
  BY <1>2, <1>4, <1>6 DEF IInv, TypeOK, chainVars
<1>8. ReceivedIsStored'
  <2>1. \A w : w \in StoredIn(futureVotes') <=> w \in StoredIn(futureVotes) /\ w \notin votes
    <3> TAKE w
    <3>1. w \in StoredIn(futureVotes') <=> \E g \in DOMAIN futureVotes' : w \in futureVotes[g].voteMessages
      BY <1>4, StoredInElement
    <3>2. w \in StoredIn(futureVotes) <=> \E g \in DOMAIN futureVotes : w \in futureVotes[g].voteMessages
      BY StoredInElement
    <3>3. \A g \in DOMAIN futureVotes : w \in futureVotes[g].voteMessages => w.targetHash = g
      BY DEF IInv, FutureVotesBoxed
    <3> QED
      BY <1>0, <1>1, <1>4, <3>1, <3>2, <3>3
  <2>2. \A w : w \in StoredIn(curVotes') <=> w \in StoredIn(curVotes) \/ w \in valid
    <3> TAKE w
    <3>1. w \in StoredIn(curVotes') <=> \E g \in DOMAIN curVotes' : w \in curVotes'[g].voteMessages
      BY StoredInElement
    <3>2. w \in StoredIn(curVotes) <=> \E g \in DOMAIN curVotes : w \in curVotes[g].voteMessages
      BY StoredInElement
    <3> QED
      BY <1>6, <3>1, <3>2
  <2>3. \A w \in votes : w \in StoredIn(futureVotes)
    BY <1>0, <1>1, StoredInElement
  <2> QED
    BY <1>2, <1>5, <2>1, <2>2, <2>3 DEF IInv, ReceivedIsStored
<1>9. PqMatchesBoxes'
  <2>1. Entries(futureVotes') = Entries(futureVotes) \ {e}
    <3>1. ASSUME NEW f PROVE f \in Entries(futureVotes') <=> f \in Entries(futureVotes) \ {e}
      BY <1>0, <1>4 DEF Entries
    <3> QED
      BY <3>1
  <2>2. CASE h \in DOMAIN curVotes
    <3>1. Entries(curVotes') = Entries(curVotes)
      BY <1>6, <2>2 DEF Entries
    <3> QED
      BY <1>2, <1>6, <2>1, <2>2, <3>1 DEF IInv, PqMatchesBoxes
  <2>3. CASE h \notin DOMAIN curVotes
    <3>1. ASSUME NEW f PROVE f \in Entries(curVotes') <=> f \in Entries(curVotes) \cup {e}
      BY <1>0, <1>6, <2>3 DEF Entries
    <3>2. Entries(curVotes') = Entries(curVotes) \cup {e}
      BY <3>1
    <3> QED
      BY <1>2, <1>6, <2>1, <2>3, <3>2 DEF IInv, PqMatchesBoxes
  <2> QED
    BY <2>2, <2>3
<1>10. CurVotesVerified'
  <2>1. \A v \in valid : /\ v.sigOK /\ v.targetHash = h /\ v.targetNumber = Number[h]
                         /\ v.source = Justified[h] /\ v.voteAddress \in VoterKeys[h]
    BY <1>0, <1>1 DEF valid, VerifyVote, IInv, FutureVotesBoxed
  <2> QED
    BY <1>6, <2>1 DEF IInv, CurVotesVerified
<1>11. FutureVotesBoxed' /\ BufferInSecondLoop'
  BY <1>4 DEF IInv, FutureVotesBoxed, BufferInSecondLoop
<1> QED
  BY <1>7, <1>8, <1>9, <1>10, <1>11 DEF IInv

(* The steps of the two loops that move no vote.                           *)
LEMMA LoopInv == IInv /\ (OldDone \/ BufferUnknown \/ RecentDone) => IInv'
<1> SUFFICES ASSUME IInv, OldDone \/ BufferUnknown \/ RecentDone PROVE IInv'
  OBVIOUS
<1>1. UNCHANGED <<chainVars, headCh, receivedVotes, curVotes, futureVotes, curVotesPq>>
  BY DEF OldDone, BufferUnknown, RecentDone, poolVars
<1>2. /\ futureVotesPq' \subseteq Entry
      /\ drain' \in [phase : {"idle", "old", "recent"}, latest : Nat, buffer : SUBSET Entry]
      /\ futureVotesPq' \cup drain'.buffer = futureVotesPq \cup drain.buffer
      /\ futureVotesPq' \cap drain'.buffer = {}
      /\ drain'.phase # "recent" => drain'.buffer = {}
  <2>0. /\ futureVotesPq \subseteq Entry
        /\ drain \in [phase : {"idle", "old", "recent"}, latest : Nat, buffer : SUBSET Entry]
        /\ futureVotesPq \cap drain.buffer = {}
        /\ drain.phase # "recent" => drain.buffer = {}
    BY DEF IInv, TypeOK, PqMatchesBoxes, BufferInSecondLoop
  <2>1. CASE OldDone
    BY <2>0, <2>1 DEF OldDone, poolVars
  <2>2. CASE BufferUnknown
    BY <2>0, <2>2 DEF BufferUnknown, Peek
  <2>3. CASE RecentDone
    BY <2>0, <2>3 DEF RecentDone, Idle
  <2> QED
    BY <2>1, <2>2, <2>3
<1>3. TypeOK'
  BY <1>1, <1>2 DEF IInv, TypeOK, chainVars
<1> QED
  BY <1>1, <1>2, <1>3 DEF IInv, ReceivedIsStored, PqMatchesBoxes, CurVotesVerified,
     FutureVotesBoxed, BufferInSecondLoop

(* The inductive invariant holds in every reachable state.                 *)
THEOREM PoolInvariant == Spec => []IInv
<1>1. IInv /\ [Next]_vars => IInv'
  <2> SUFFICES ASSUME IInv, [Next]_vars PROVE IInv'
    OBVIOUS
  <2>1. CASE ChainStep
    BY <2>1, ChainInv
  <2>2. CASE PoolHeadStep
    <3>1. CASE HandleHead
      BY <3>1, HandleHeadInv
    <3>2. CASE TransferOld
      BY <3>2, TransferInv DEF TransferOld, Peek
    <3>3. CASE TransferRecent
      BY <3>3, TransferInv DEF TransferRecent, Peek
    <3>4. CASE OldDone \/ BufferUnknown \/ RecentDone
      BY <3>4, LoopInv
    <3> QED
      BY <2>2, <3>1, <3>2, <3>3, <3>4 DEF PoolHeadStep
  <2>3. CASE PutStep
    BY <2>3, PutFutureInv, PutCurInv DEF PutStep
  <2>4. CASE UNCHANGED vars
    BY <2>4 DEF vars, chainVars, poolVars, IInv, TypeOK, ReceivedIsStored, PqMatchesBoxes,
       CurVotesVerified, FutureVotesBoxed, BufferInSecondLoop
  <2> QED
    BY <2>1, <2>2, <2>3, <2>4 DEF Next
<1> QED
  BY InitInv, <1>1, PTL DEF Spec

(* The duplicate filter holds exactly the stored votes, for every chain,   *)
(* every set of envelopes and every limit: put, transfer and prune of      *)
(* vote_pool.go keep the two maps and receivedVotes in step.               *)
THEOREM DuplicateFilterExact == Spec => []ReceivedIsStored
BY PoolInvariant, PTL DEF IInv

(* The priority queues index the boxes exactly, so no box can be missed by *)
(* prune or by transferVotesFromFutureToCur.                               *)
THEOREM QueuesIndexBoxes == Spec => []PqMatchesBoxes
BY PoolInvariant, PTL DEF IInv

(* Every vote the pool hands out was verified by VerifyVote.               *)
THEOREM HandedOutVotesVerified == Spec => []CurVotesVerified
BY PoolInvariant, PTL DEF IInv

(* Type correctness of the pool.                                           *)
THEOREM PoolTyped == Spec => []TypeOK
BY PoolInvariant, PTL DEF IInv

-----------------------------------------------------------------------------
(* A current vote leaves only through prune, and only out of the window.   *)
LEMMA PruneOnlyOutdated ==
    ASSUME IInv, [Next]_vars, NEW h \in DOMAIN curVotes, h \notin DOMAIN curVotes'
    PROVE  headCh # <<>> /\ curVotes[h].blockNumber + LowerLimit - 1 < Head(headCh)
<1>1. CASE HandleHead
  <2>1. PICK e \in curVotesPq : Outdated(e, Head(headCh)) /\ e.targetHash = h
    BY <1>1 DEF HandleHead, Restrict
  <2>2. e.targetNumber = curVotes[h].blockNumber
    BY <2>1 DEF IInv, PqMatchesBoxes, Entries
  <2> QED BY <1>1, <2>1, <2>2 DEF HandleHead, Outdated
<1>2. CASE ChainStep \/ OldDone \/ BufferUnknown \/ RecentDone \/ UNCHANGED vars
  <2>1. curVotes' = curVotes
    BY <1>2 DEF ChainStep, StartInsert, Archive, SendHead, WriteBlockWithState, WriteFails, OldDone,
                BufferUnknown, RecentDone, poolVars, vars
  <2> QED BY <2>1
<1>3. CASE PutStep
  <2>1. IsMap(curVotes)
    BY DEF IInv, TypeOK
  <2>2. ASSUME NEW v \in Envelope, PutFuture(v) \/ PutCur(v) PROVE h \in DOMAIN curVotes'
    <3>1. DOMAIN BoxWith(curVotes, v) = DOMAIN curVotes \cup {v.targetHash}
      BY <2>1, BoxWithFacts DEF HasVote
    <3>2. curVotes' = curVotes \/ curVotes' = BoxWith(curVotes, v)
      BY <2>2 DEF PutFuture, PutCur
    <3> QED BY <3>1, <3>2
  <2> QED BY <1>3, <2>2 DEF PutStep
<1>4. CASE TransferOld \/ TransferRecent
  <2>1. PICK e : transfer(e)
    BY <1>4 DEF TransferOld, TransferRecent
  <2>2. h \in DOMAIN curVotes'
    BY <2>1 DEF transfer, WithBox
  <2> QED BY <2>2
<1> QED BY <1>1, <1>2, <1>3, <1>4 DEF Next, PoolHeadStep

(* A box with votes leaves curVotes only when a head event beyond its      *)
(* window is handled, for every chain, every set of envelopes and every    *)
(* limit of vote_pool.go.                                                  *)
THEOREM CurVotesLeaveByPrune == Spec => CurVoteKept
<1>1. IInv /\ [Next]_vars =>
        [\A h \in DOMAIN curVotes :
            curVotes[h].voteMessages # {} /\ h \notin DOMAIN curVotes' =>
                /\ headCh # <<>>
                /\ curVotes[h].blockNumber + LowerLimit - 1 < Head(headCh)]_vars
  BY PruneOnlyOutdated
<1> QED BY <1>1, PoolInvariant, PTL DEF Spec, CurVoteKept
-----------------------------------------------------------------------------
(* How large a box can grow.                                               *)
One(p) == IF p THEN 1 ELSE 0

Inserting(h) == inserting.phase # "none" /\ inserting.block = h

(* How often a future box of block h may still be merged into its current  *)
(* one: once when the block is archived, once when it is inserted, once if *)
(* a box is waiting although the block is verified.                        *)
Turns(h) ==
    One(h \notin archived)
    + One(h \notin stored /\ ~Inserting(h))
    + One(GetVerifiedBlockByHash(h) /\ h \in DOMAIN futureVotes)

Merged(h) == 2 + failures - Turns(h)

(* A block under insertion is highestVerifiedBlock and not written yet;    *)
(* only a failed write leaves highestVerifiedBlock without a stored block. *)
InsertInv ==
    /\ \A h \in Block : Inserting(h) => h = highestVerified /\ h \notin stored
    /\ failures = 0 => highestVerified \in stored \/ Inserting(highestVerified)

FutureBounded ==
    \A h \in DOMAIN futureVotes : LET votes == futureVotes[h].voteMessages
                                  IN IsFiniteSet(votes) /\ Cardinality(votes) <= MaxFuture

CurBounded ==
    \A h \in DOMAIN curVotes : LET votes == curVotes[h].voteMessages
                               IN IsFiniteSet(votes) /\ Cardinality(votes) <= MaxCur + Merged(h) * MaxFuture

BoundInv == InsertInv /\ FutureBounded /\ CurBounded

(* Products with the cap grow with the other factor. *)
LEMMA TimesMonotonic ==
    ASSUME NEW a \in Int, NEW b \in Int, NEW m \in Nat, a <= b
    PROVE  a * m \in Int /\ b * m \in Int /\ a * m <= b * m /\ (a + 1) * m = a * m + m
<1>1. a * m \in Int /\ b * m \in Int /\ (b - a) * m \in Nat
  OBVIOUS
<1>2. b * m = a * m + (b - a) * m
  OBVIOUS
<1>3. (a + 1) * m = a * m + m
  OBVIOUS
<1> QED BY <1>1, <1>2, <1>3

(* There are never more turns to come than have been allowed for.          *)
LEMMA MergedNat ==
    ASSUME TypeOK, InsertInv, NEW h \in Block
    PROVE  Turns(h) \in Nat /\ Merged(h) \in Nat /\ Merged(h) <= 2 + failures
<1>1. failures \in Nat
  BY DEF TypeOK
<1>2. Turns(h) \in 0 .. 3
  BY DEF Turns, One
<1>3. CASE failures = 0
  <2>1. h = highestVerified => ~(h \notin stored /\ ~Inserting(h))
    BY <1>3 DEF InsertInv
  <2>2. h # highestVerified => (GetVerifiedBlockByHash(h) => h \in archived)
    BY DEF GetVerifiedBlockByHash
  <2>3. Turns(h) <= 2
    BY <2>1, <2>2 DEF Turns, One
  <2> QED BY <1>2, <1>3, <2>3 DEF Merged
<1>4. CASE failures # 0
  BY <1>1, <1>2, <1>4 DEF Merged
<1> QED BY <1>3, <1>4

(* Insertion keeps InsertInv; the pool does not touch the chain.           *)
LEMMA InsertKept ==
    ASSUME TypeOK, InsertInv, [Next]_vars
    PROVE  InsertInv'
<1> USE DEF InsertInv, Inserting
<1>1. ASSUME NEW b \in Block, StartInsert(b)
      PROVE  InsertInv'
  BY <1>1 DEF StartInsert
<1>2. ASSUME NEW b \in Block, Archive(b)
      PROVE  InsertInv'
  BY <1>2 DEF Archive
<1>3. CASE SendHead
  BY <1>3 DEF SendHead, TypeOK
<1>4. CASE WriteBlockWithState
  BY <1>4 DEF WriteBlockWithState, NoInsert, TypeOK
<1>5. CASE WriteFails
  BY <1>5 DEF WriteFails, NoInsert, TypeOK
<1>6. CASE PoolHeadStep \/ PutStep \/ UNCHANGED vars
  <2>1. UNCHANGED chainVars
    BY <1>6 DEF PoolHeadStep, PutStep, HandleHead, TransferOld, OldDone, TransferRecent, BufferUnknown,
                RecentDone, PutFuture, PutCur, vars
  <2> QED BY <2>1 DEF chainVars
<1> QED BY <1>1, <1>2, <1>3, <1>4, <1>5, <1>6 DEF Next, ChainStep

(* A step of the inserting goroutine or of the archiver gives no block a   *)
(* turn it did not have, unless a write fails.                             *)
LEMMA ChainMerged ==
    ASSUME TypeOK, InsertInv, ChainStep, NEW h \in Block
    PROVE  Merged(h)' >= Merged(h)
<1>0. failures \in Nat /\ futureVotes' = futureVotes
  BY DEF TypeOK, ChainStep, StartInsert, Archive, SendHead, WriteBlockWithState, WriteFails, poolVars
<1> USE DEF Merged, Turns, One, Inserting, GetVerifiedBlockByHash
<1>1. ASSUME NEW b \in Block, StartInsert(b)
      PROVE  Merged(h)' >= Merged(h)
  BY <1>0, <1>1 DEF StartInsert
<1>2. ASSUME NEW b \in Block, Archive(b)
      PROVE  Merged(h)' >= Merged(h)
  BY <1>0, <1>2 DEF Archive
<1>3. CASE SendHead
  BY <1>0, <1>3 DEF SendHead, TypeOK
<1>4. CASE WriteBlockWithState
  BY <1>0, <1>4 DEF WriteBlockWithState, NoInsert, TypeOK, InsertInv
<1>5. CASE WriteFails
  BY <1>0, <1>5 DEF WriteFails, NoInsert, TypeOK, InsertInv
<1> QED BY <1>1, <1>2, <1>3, <1>4, <1>5 DEF ChainStep

(* A step of the pool that opens no future box of a verified block. *)
LEMMA PoolMerged ==
    ASSUME TypeOK, NEW h \in Block, UNCHANGED chainVars,
           h \in DOMAIN futureVotes' /\ GetVerifiedBlockByHash(h) => h \in DOMAIN futureVotes
    PROVE  /\ Merged(h)' >= Merged(h)
           /\ GetVerifiedBlockByHash(h) /\ h \in DOMAIN futureVotes /\ h \notin DOMAIN futureVotes'
                 => Merged(h)' >= Merged(h) + 1
BY DEF TypeOK, chainVars, Merged, Turns, One, Inserting, GetVerifiedBlockByHash

(* The same in the next state. *)
LEMMA MergedNatNext ==
    ASSUME NEW h \in Block
    PROVE  TypeOK' /\ InsertInv' => (Merged(h) \in Nat)'
<1>1. TypeOK /\ InsertInv => Merged(h) \in Nat
  BY MergedNat
<1> QED BY <1>1, PTL

(* A box that does not grow stays within its bound.                        *)
LEMMA BoundKept ==
    ASSUME TypeOK, InsertInv, InsertInv', TypeOK', NEW h \in Block, NEW A, NEW B \in SUBSET A,
           IsFiniteSet(A), Cardinality(A) <= MaxCur + Merged(h) * MaxFuture, Merged(h)' >= Merged(h)
    PROVE  IsFiniteSet(B) /\ Cardinality(B) <= MaxCur + Merged(h)' * MaxFuture
<1>1. Merged(h) \in Nat /\ MaxCur \in Nat /\ MaxFuture \in Nat
  BY MergedNat, LimitAssumption
<1>2. Merged(h)' \in Nat
  BY MergedNatNext
<1>3. IsFiniteSet(B) /\ Cardinality(B) <= Cardinality(A)
  BY FS_Subset
<1>4. Cardinality(A) \in Nat /\ Cardinality(B) \in Nat
  BY <1>3, FS_CardinalityType
<1>5. Merged(h) * MaxFuture \in Int /\ Merged(h)' * MaxFuture \in Int /\ Merged(h) * MaxFuture <= Merged(h)' * MaxFuture
  BY <1>1, <1>2, TimesMonotonic
<1> QED BY <1>1, <1>3, <1>4, <1>5

(* putVote after basicVerify: only the box of the target changes, and it   *)
(* stays within the cap.                                                   *)
LEMMA PutWithinCap ==
    ASSUME NEW m, IsMap(m), NEW v \in Envelope, NEW b, HasVote(m, v, b), NEW max \in Nat,
           \A h \in DOMAIN m : IsFiniteSet(m[h].voteMessages),
           Cardinality(Messages(m, v.targetHash)) < max
    PROVE  \A h \in DOMAIN b :
              /\ h # v.targetHash => h \in DOMAIN m /\ b[h].voteMessages = m[h].voteMessages
              /\ h = v.targetHash => /\ IsFiniteSet(b[h].voteMessages)
                                     /\ Cardinality(b[h].voteMessages) <= max
<1> SUFFICES ASSUME NEW h \in DOMAIN b
             PROVE  /\ h # v.targetHash => h \in DOMAIN m /\ b[h].voteMessages = m[h].voteMessages
                    /\ h = v.targetHash => /\ IsFiniteSet(b[h].voteMessages)
                                           /\ Cardinality(b[h].voteMessages) <= max
  OBVIOUS
<1>0. \A w : w \in b[h].voteMessages <=>
               \/ h \in DOMAIN m /\ w \in m[h].voteMessages
               \/ h = v.targetHash /\ w = v
  BY DEF HasVote
<1>1. ASSUME h # v.targetHash PROVE h \in DOMAIN m /\ b[h].voteMessages = m[h].voteMessages
  <2>1. h \in DOMAIN m
    BY <1>1 DEF HasVote
  <2>2. b[h] \in Box /\ m[h] \in Box
    BY <2>1 DEF HasVote, IsMap
  <2> QED BY <1>0, <1>1, <2>1, <2>2 DEF Box
<1>2. ASSUME h = v.targetHash
      PROVE  IsFiniteSet(b[h].voteMessages) /\ Cardinality(b[h].voteMessages) <= max
  <2> DEFINE A == Messages(m, h)
  <2>1. IsFiniteSet(A)
    BY FS_EmptySet DEF Messages
  <2>2. A \in SUBSET Envelope /\ b[h].voteMessages \in SUBSET Envelope
    <3>1. b[h] \in Box /\ (h \in DOMAIN m => m[h] \in Box)
      BY DEF HasVote, IsMap
    <3> QED BY <3>1 DEF Box, Messages
  <2>3. b[h].voteMessages = A \cup {v}
    BY <1>0, <1>2, <2>2 DEF Messages
  <2> HIDE DEF A
  <2>4. IsFiniteSet(A \cup {v}) /\ Cardinality(A \cup {v}) = IF v \in A THEN Cardinality(A) ELSE Cardinality(A) + 1
    BY <2>1, FS_AddElement
  <2>5. Cardinality(A) \in Nat /\ Cardinality(A) < max
    BY <1>2, <2>1, FS_CardinalityType DEF A
  <2> QED BY <2>3, <2>4, <2>5
<1> QED BY <1>1, <1>2

(* The bound while neither map changes in the pool.                        *)
LEMMA BoundUntouched ==
    ASSUME IInv, IInv', BoundInv, InsertInv', UNCHANGED <<curVotes, futureVotes>>,
           \A h \in Block : Merged(h)' >= Merged(h)
    PROVE  BoundInv'
<1>1. FutureBounded'
  BY DEF BoundInv, FutureBounded
<1>2. CurBounded'
  <2> SUFFICES ASSUME NEW h \in DOMAIN curVotes
               PROVE  /\ IsFiniteSet(curVotes[h].voteMessages)
                      /\ Cardinality(curVotes[h].voteMessages) <= MaxCur + Merged(h)' * MaxFuture
    BY DEF CurBounded
  <2>1. h \in Block /\ TypeOK /\ TypeOK' /\ InsertInv
    BY DEF IInv, TypeOK, IsMap, BoundInv
  <2>2. /\ IsFiniteSet(curVotes[h].voteMessages)
        /\ Cardinality(curVotes[h].voteMessages) <= MaxCur + Merged(h) * MaxFuture
    BY DEF BoundInv, CurBounded
  <2> QED BY <2>1, <2>2, BoundKept
<1> QED BY <1>1, <1>2 DEF BoundInv

(* putIntoVotePool keeps both bounds.                                      *)
LEMMA BoundPut ==
    ASSUME IInv, IInv', BoundInv, InsertInv', PutStep
    PROVE  BoundInv'
<1>0. /\ TypeOK /\ TypeOK' /\ InsertInv /\ FutureBounded /\ CurBounded
      /\ IsMap(curVotes) /\ IsMap(futureVotes) /\ MaxCur \in Nat /\ MaxFuture \in Nat
  BY LimitAssumption DEF IInv, TypeOK, BoundInv
<1>1. PICK v \in Envelope : PutFuture(v) \/ PutCur(v)
  BY DEF PutStep
<1>2. UNCHANGED chainVars
  BY <1>1 DEF PutFuture, PutCur
<1>3. CASE PutFuture(v)
  <2>1. HasVote(futureVotes, v, futureVotes') /\ curVotes' = curVotes
    BY <1>0, <1>3, BoxWithFacts DEF PutFuture
  <2>2. \A h \in DOMAIN futureVotes : IsFiniteSet(futureVotes[h].voteMessages)
    BY <1>0 DEF FutureBounded
  <2>3. Cardinality(Messages(futureVotes, v.targetHash)) < MaxFuture /\ ~GetVerifiedBlockByHash(v.targetHash)
    BY <1>3 DEF PutFuture, basicVerify
  <2>4. \A h \in DOMAIN futureVotes' :
           /\ h # v.targetHash => h \in DOMAIN futureVotes
                                  /\ futureVotes'[h].voteMessages = futureVotes[h].voteMessages
           /\ h = v.targetHash => /\ IsFiniteSet(futureVotes'[h].voteMessages)
                                  /\ Cardinality(futureVotes'[h].voteMessages) <= MaxFuture
    BY <1>0, <2>1, <2>2, <2>3, PutWithinCap
  <2>5. FutureBounded'
    BY <1>0, <2>4 DEF FutureBounded
  <2>6. \A h \in Block : Merged(h)' >= Merged(h)
    <3> TAKE h \in Block
    <3>1. h \in DOMAIN futureVotes' /\ GetVerifiedBlockByHash(h) => h \in DOMAIN futureVotes
      BY <2>3, <2>4
    <3> QED BY <1>0, <1>2, <3>1, PoolMerged
  <2>7. CurBounded'
    <3> SUFFICES ASSUME NEW h \in DOMAIN curVotes
                 PROVE  /\ IsFiniteSet(curVotes[h].voteMessages)
                        /\ Cardinality(curVotes[h].voteMessages) <= MaxCur + Merged(h)' * MaxFuture
      BY <2>1 DEF CurBounded
    <3>1. h \in Block
      BY <1>0 DEF IsMap
    <3>2. /\ IsFiniteSet(curVotes[h].voteMessages)
          /\ Cardinality(curVotes[h].voteMessages) <= MaxCur + Merged(h) * MaxFuture
      BY <1>0 DEF CurBounded
    <3> QED BY <1>0, <2>6, <3>1, <3>2, BoundKept
  <2> QED BY <2>5, <2>7 DEF BoundInv
<1>4. CASE PutCur(v)
  <2>1. HasVote(curVotes, v, curVotes') /\ futureVotes' = futureVotes
    BY <1>0, <1>4, BoxWithFacts DEF PutCur
  <2>2. \A h \in DOMAIN curVotes : IsFiniteSet(curVotes[h].voteMessages)
    BY <1>0 DEF CurBounded
  <2>3. Cardinality(Messages(curVotes, v.targetHash)) < MaxCur
    BY <1>4 DEF PutCur, basicVerify
  <2>4. \A h \in DOMAIN curVotes' :
           /\ h # v.targetHash => h \in DOMAIN curVotes
                                  /\ curVotes'[h].voteMessages = curVotes[h].voteMessages
           /\ h = v.targetHash => /\ IsFiniteSet(curVotes'[h].voteMessages)
                                  /\ Cardinality(curVotes'[h].voteMessages) <= MaxCur
    BY <1>0, <2>1, <2>2, <2>3, PutWithinCap
  <2>5. FutureBounded'
    BY <1>0, <2>1 DEF FutureBounded
  <2>6. \A h \in Block : Merged(h)' >= Merged(h)
    BY <1>0, <1>2, <2>1, PoolMerged
  <2>7. CurBounded'
    <3> SUFFICES ASSUME NEW h \in DOMAIN curVotes'
                 PROVE  /\ IsFiniteSet(curVotes'[h].voteMessages)
                        /\ Cardinality(curVotes'[h].voteMessages) <= MaxCur + Merged(h)' * MaxFuture
      BY DEF CurBounded
    <3>1. h \in Block
      BY <1>0 DEF TypeOK, IsMap
    <3>2. CASE h = v.targetHash
      <4>1. Merged(h)' \in Nat
        BY <1>0, <3>1, MergedNatNext
      <4>2. Merged(h)' * MaxFuture \in Nat
        BY <1>0, <4>1
      <4>3. IsFiniteSet(curVotes'[h].voteMessages) /\ Cardinality(curVotes'[h].voteMessages) <= MaxCur
        BY <2>4, <3>2
      <4>4. Cardinality(curVotes'[h].voteMessages) \in Nat
        BY <4>3, FS_CardinalityType
      <4> QED BY <1>0, <4>2, <4>3, <4>4
    <3>3. CASE h # v.targetHash
      <4>1. h \in DOMAIN curVotes /\ curVotes'[h].voteMessages = curVotes[h].voteMessages
        BY <2>4, <3>3
      <4>2. /\ IsFiniteSet(curVotes[h].voteMessages)
            /\ Cardinality(curVotes[h].voteMessages) <= MaxCur + Merged(h) * MaxFuture
        BY <1>0, <4>1 DEF CurBounded
      <4> QED BY <1>0, <2>6, <3>1, <4>1, <4>2, BoundKept
    <3> QED BY <3>2, <3>3
  <2> QED BY <2>5, <2>7 DEF BoundInv
<1> QED BY <1>1, <1>3, <1>4

(* prune drops boxes and changes none.                                     *)
LEMMA BoundPrune ==
    ASSUME IInv, IInv', BoundInv, InsertInv', HandleHead
    PROVE  BoundInv'
<1>0. TypeOK /\ TypeOK' /\ InsertInv /\ FutureBounded /\ CurBounded
  BY DEF IInv, BoundInv
<1>1. /\ UNCHANGED chainVars /\ futureVotes' = futureVotes
      /\ DOMAIN curVotes' \subseteq DOMAIN curVotes
      /\ \A h \in DOMAIN curVotes' : curVotes'[h] = curVotes[h]
  BY DEF HandleHead, Restrict
<1>2. FutureBounded'
  BY <1>0, <1>1 DEF FutureBounded
<1>3. CurBounded'
  <2> SUFFICES ASSUME NEW h \in DOMAIN curVotes'
               PROVE  /\ IsFiniteSet(curVotes'[h].voteMessages)
                      /\ Cardinality(curVotes'[h].voteMessages) <= MaxCur + Merged(h)' * MaxFuture
    BY DEF CurBounded
  <2>1. h \in Block /\ h \in DOMAIN curVotes
    BY <1>0, <1>1 DEF TypeOK, IsMap
  <2>2. /\ IsFiniteSet(curVotes[h].voteMessages)
        /\ Cardinality(curVotes[h].voteMessages) <= MaxCur + Merged(h) * MaxFuture
    BY <1>0, <2>1 DEF CurBounded
  <2>3. Merged(h)' >= Merged(h)
    BY <1>0, <1>1, <2>1, PoolMerged
  <2> QED BY <1>0, <1>1, <2>1, <2>2, <2>3, BoundKept
<1> QED BY <1>2, <1>3 DEF BoundInv

(* transfer merges at most MaxFuture votes, and merges any only when it    *)
(* uses up a turn of the block.                                            *)
LEMMA BoundTransfer ==
    ASSUME IInv, IInv', BoundInv, InsertInv', NEW e \in futureVotesPq, transfer(e), UNCHANGED chainVars
    PROVE  BoundInv'
<1> DEFINE h == e.targetHash
           votes == Messages(futureVotes, h)
           valid == {v \in votes : VerifyVote(v)}
           old == Messages(curVotes, h)
<1>0. /\ TypeOK /\ TypeOK' /\ InsertInv /\ FutureBounded /\ CurBounded
      /\ MaxCur \in Nat /\ MaxFuture \in Nat
      /\ IsMap(curVotes) /\ IsMap(futureVotes)
  BY LimitAssumption DEF IInv, TypeOK, BoundInv
<1>1. h \in DOMAIN futureVotes /\ h \in Block
  BY <1>0 DEF IInv, PqMatchesBoxes, Entries, IsMap
<1>2. /\ DOMAIN futureVotes' = DOMAIN futureVotes \ {h}
      /\ \A g \in DOMAIN futureVotes' : futureVotes'[g] = futureVotes[g]
  BY DEF transfer, Without, Restrict
<1>3. /\ DOMAIN curVotes' = DOMAIN curVotes \cup {h}
      /\ \A g \in DOMAIN curVotes' \ {h} : curVotes'[g] = curVotes[g]
      /\ curVotes'[h].voteMessages = old \cup valid
  <2>1. CASE h \in DOMAIN curVotes
    <3>1. curVotes[h] \in Box
      BY <1>0, <2>1 DEF IsMap
    <3> QED BY <2>1, <3>1 DEF transfer, Messages, Box
  <2>2. CASE h \notin DOMAIN curVotes
    BY <2>2 DEF transfer, WithBox, Messages
  <2> QED BY <2>1, <2>2
<1>4. IsFiniteSet(votes) /\ Cardinality(votes) <= MaxFuture
  BY <1>0, <1>1 DEF FutureBounded, Messages
<1>5. valid \in SUBSET votes /\ (~GetVerifiedBlockByHash(h) => valid = {})
  BY <1>1 DEF valid, votes, VerifyVote, IInv, FutureVotesBoxed, Messages
<1>6. \A g \in Block : Merged(g)' >= Merged(g)
  BY <1>0, <1>2, PoolMerged
<1>7. GetVerifiedBlockByHash(h) => Merged(h)' >= Merged(h) + 1
  BY <1>0, <1>1, <1>2, PoolMerged
<1>8. Merged(h) \in Nat /\ Merged(h)' \in Nat
  BY <1>0, <1>1, MergedNat, MergedNatNext
<1>9. IsFiniteSet(old) /\ Cardinality(old) <= MaxCur + Merged(h) * MaxFuture
  <2>1. CASE h \in DOMAIN curVotes
    BY <1>0, <2>1 DEF CurBounded, Messages
  <2>2. CASE h \notin DOMAIN curVotes
    <3>1. Merged(h) * MaxFuture \in Nat
      BY <1>0, <1>8
    <3> QED BY <1>0, <2>2, <3>1, FS_EmptySet DEF Messages
  <2> QED BY <2>1, <2>2
<1> HIDE DEF h, votes, valid, old
<1>10. IsFiniteSet(old \cup valid) /\ Cardinality(old \cup valid) <= MaxCur + Merged(h)' * MaxFuture
  <2>1. CASE GetVerifiedBlockByHash(h)
    <3>1. IsFiniteSet(valid) /\ Cardinality(valid) <= Cardinality(votes)
      BY <1>4, <1>5, FS_Subset
    <3>2. Cardinality(valid) \in Nat /\ Cardinality(votes) \in Nat /\ Cardinality(old) \in Nat
      BY <1>4, <1>9, <3>1, FS_CardinalityType
    <3>3. /\ IsFiniteSet(old \cup valid) /\ IsFiniteSet(old \cap valid)
          /\ Cardinality(old \cup valid) = Cardinality(old) + Cardinality(valid) - Cardinality(old \cap valid)
      BY <1>9, <3>1, FS_Union, FS_Intersection
    <3>4. Cardinality(old \cap valid) \in Nat
      BY <3>3, FS_CardinalityType
    <3>5. Cardinality(old \cup valid) <= MaxCur + Merged(h) * MaxFuture + MaxFuture
      <4> DEFINE X == Merged(h) * MaxFuture
      <4>1. X \in Nat
        BY <1>0, <1>8
      <4>2. Cardinality(old) <= MaxCur + X
        BY <1>9
      <4> HIDE DEF X
      <4>3. Cardinality(old \cup valid) <= MaxCur + X + MaxFuture
        BY <1>0, <1>4, <3>1, <3>2, <3>3, <3>4, <4>1, <4>2
      <4> QED BY <4>3 DEF X
    <3>6. (Merged(h) + 1) * MaxFuture <= Merged(h)' * MaxFuture
      <4>1. Merged(h) + 1 \in Int /\ Merged(h) + 1 <= Merged(h)'
        BY <1>7, <1>8, <2>1
      <4> QED BY <1>0, <1>8, <4>1, TimesMonotonic
    <3>7. (Merged(h) + 1) * MaxFuture = Merged(h) * MaxFuture + MaxFuture
      BY <1>0, <1>8, TimesMonotonic
    <3>8. Merged(h) * MaxFuture \in Int /\ Merged(h)' * MaxFuture \in Int
      BY <1>0, <1>8
    <3>9. Cardinality(old \cup valid) \in Nat
      BY <3>3, FS_CardinalityType
    <3> QED BY <1>0, <3>3, <3>5, <3>6, <3>7, <3>8, <3>9
  <2>2. CASE ~GetVerifiedBlockByHash(h)
    <3>1. old \cup valid = old
      BY <1>5, <2>2
    <3> QED BY <1>0, <1>1, <1>6, <1>9, <3>1, BoundKept
  <2> QED BY <2>1, <2>2
<1>11. FutureBounded'
  BY <1>0, <1>2 DEF FutureBounded
<1>12. CurBounded'
  <2> SUFFICES ASSUME NEW g \in DOMAIN curVotes'
               PROVE  /\ IsFiniteSet(curVotes'[g].voteMessages)
                      /\ Cardinality(curVotes'[g].voteMessages) <= MaxCur + Merged(g)' * MaxFuture
    BY DEF CurBounded
  <2>1. CASE g = h
    BY <1>3, <1>10, <2>1
  <2>2. CASE g # h
    <3>1. g \in Block /\ g \in DOMAIN curVotes /\ curVotes'[g] = curVotes[g]
      BY <1>0, <1>3, <2>2 DEF IsMap
    <3>2. /\ IsFiniteSet(curVotes[g].voteMessages)
          /\ Cardinality(curVotes[g].voteMessages) <= MaxCur + Merged(g) * MaxFuture
      BY <1>0, <3>1 DEF CurBounded
    <3> QED BY <1>0, <1>6, <3>1, <3>2, BoundKept
  <2> QED BY <2>1, <2>2
<1> QED BY <1>11, <1>12 DEF BoundInv

(* The counting invariant holds in every reachable state.                  *)
THEOREM BoundInvariant == Spec => []BoundInv
<1>1. Init => BoundInv
  <2> SUFFICES ASSUME Init PROVE BoundInv
    OBVIOUS
  <2>1. DOMAIN curVotes = {} /\ DOMAIN futureVotes = {}
    BY DEF Init
  <2>2. InsertInv
    BY DEF Init, InsertInv, Inserting, NoInsert
  <2> QED BY <2>1, <2>2 DEF BoundInv, FutureBounded, CurBounded
<1>2. IInv /\ IInv' /\ BoundInv /\ [Next]_vars => BoundInv'
  <2> SUFFICES ASSUME IInv, IInv', BoundInv, [Next]_vars PROVE BoundInv'
    OBVIOUS
  <2>0. TypeOK /\ InsertInv
    BY DEF IInv, BoundInv
  <2>1. InsertInv'
    BY <2>0, InsertKept
  <2>2. CASE ChainStep
    <3>1. UNCHANGED <<curVotes, futureVotes>>
      BY <2>2 DEF ChainStep, StartInsert, Archive, SendHead, WriteBlockWithState, WriteFails, poolVars
    <3>2. \A h \in Block : Merged(h)' >= Merged(h)
      BY <2>0, <2>2, ChainMerged
    <3> QED BY <2>1, <3>1, <3>2, BoundUntouched
  <2>3. CASE OldDone \/ BufferUnknown \/ RecentDone \/ UNCHANGED vars
    <3>1. UNCHANGED <<curVotes, futureVotes>> /\ UNCHANGED chainVars
      BY <2>3 DEF OldDone, BufferUnknown, RecentDone, poolVars, vars
    <3>2. \A h \in Block : Merged(h)' >= Merged(h)
      BY <2>0, <3>1, PoolMerged
    <3> QED BY <2>1, <3>1, <3>2, BoundUntouched
  <2>4. CASE HandleHead
    BY <2>1, <2>4, BoundPrune
  <2>5. CASE TransferOld \/ TransferRecent
    <3>1. PICK e \in futureVotesPq : transfer(e) /\ UNCHANGED chainVars
      BY <2>5 DEF TransferOld, TransferRecent, Peek
    <3> QED BY <2>1, <3>1, BoundTransfer
  <2>6. CASE PutStep
    BY <2>1, <2>6, BoundPut
  <2> QED BY <2>2, <2>3, <2>4, <2>5, <2>6 DEF Next, PoolHeadStep
<1> QED BY <1>1, <1>2, PoolInvariant, PTL DEF Spec

(* However votes and blocks interleave, a block costs the pool at most     *)
(* MaxCur votes, and MaxFuture more for its insertion, for its indexing by *)
(* the archiver and for each failed write: transferVotesFromFutureToCur    *)
(* checks no cap, and needs none.                                          *)
THEOREM BoxesBounded == Spec => []BoxBound
<1>1. IInv /\ BoundInv => BoxBound
  <2> SUFFICES ASSUME IInv, BoundInv PROVE BoxBound
    OBVIOUS
  <2>1. ASSUME NEW h \in DOMAIN curVotes
        PROVE  Cardinality(curVotes[h].voteMessages) <= MaxCur + (2 + failures) * MaxFuture
    <3>1. h \in Block /\ TypeOK /\ InsertInv /\ failures \in Nat
      BY DEF IInv, TypeOK, IsMap, BoundInv
    <3>2. Merged(h) \in Nat /\ Merged(h) <= 2 + failures
      BY <3>1, MergedNat
    <3>3. MaxFuture \in Nat /\ MaxCur \in Nat
      BY LimitAssumption
    <3>4. 2 + failures \in Nat
      BY <3>1
    <3>5. /\ Merged(h) * MaxFuture \in Int /\ (2 + failures) * MaxFuture \in Int
          /\ Merged(h) * MaxFuture <= (2 + failures) * MaxFuture
      BY <3>2, <3>3, <3>4, TimesMonotonic
    <3>6. /\ IsFiniteSet(curVotes[h].voteMessages)
          /\ Cardinality(curVotes[h].voteMessages) <= MaxCur + Merged(h) * MaxFuture
      BY <2>1 DEF BoundInv, CurBounded
    <3>7. Cardinality(curVotes[h].voteMessages) \in Nat
      BY <3>6, FS_CardinalityType
    <3> QED BY <3>3, <3>5, <3>6, <3>7
  <2>2. \A h \in DOMAIN futureVotes : Cardinality(futureVotes[h].voteMessages) <= MaxFuture
    BY DEF BoundInv, FutureBounded
  <2> QED BY <2>1, <2>2 DEF BoxBound
<1> QED BY <1>1, PoolInvariant, BoundInvariant, PTL
=============================================================================
