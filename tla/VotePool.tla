------------------------------ MODULE VotePool ------------------------------
(***************************************************************************)
(* The vote pool of core/vote/vote_pool.go: the in-memory store of fast-   *)
(* finality votes.  One goroutine (loop) owns every write; it interleaves  *)
(* with the goroutine that inserts blocks (core/blockchain.go), whose      *)
(* state the pool reads without a lock: the current head and               *)
(* highestVerifiedBlock, a block that may be in memory only.  Any other    *)
(* header is looked up through HeaderChain, which asks the block archiver: *)
(* what is found there grows on its own, whatever this node has written.   *)
(*                                                                         *)
(* A vote envelope is a record: the voter's key, the target hash and the   *)
(* target number it CLAIMS, its source and whether its BLS signature       *)
(* verifies.  The chain data a vote is judged by (number, justified block  *)
(* and validator keys at a block) are functions of the block hash, hence   *)
(* constants.                                                              *)
(***************************************************************************)
EXTENDS Integers, Sequences, FiniteSets, Functions

CONSTANTS Block,          \* block hashes
          Genesis,        \* the block every node starts from
          Parent,         \* [Block -> Block], Parent[Genesis] = Genesis
          Number,         \* [Block -> Nat]
          Justified,      \* [Block -> Block]: GetJustifiedNumberAndHash
          VoterKeys,      \* [Block -> SUBSET Key]: vote keys at the parent's snapshot
          Archivable,     \* blocks the archiver may come to serve
          Envelope,       \* the vote envelopes that can reach this node
          MaxCur,         \* maxCurVoteAmountPerBlock
          MaxFuture,      \* maxFutureVoteAmountPerBlock
          LowerLimit,     \* lowerLimitOfVoteBlockNumber
          UpperLimit,     \* upperLimitOfVoteBlockNumber
          ChanSize,       \* highestVerifiedBlockChanSize
          MaxWriteFailures \* bound: failing writeBlockWithState calls

ASSUME ChainAssumption ==
    /\ Genesis \in Block
    /\ Archivable \subseteq Block
    /\ Parent \in [Block -> Block]
    /\ Number \in [Block -> Nat]
    /\ Justified \in [Block -> Block]
    /\ \A b \in Block \ {Genesis} : Number[b] = Number[Parent[b]] + 1

ASSUME LimitAssumption ==
    /\ MaxCur \in Nat \ {0}
    /\ MaxFuture \in Nat \ {0}
    /\ LowerLimit \in Nat \ {0}
    /\ UpperLimit \in Nat
    /\ ChanSize \in Nat \ {0}

ASSUME EnvelopeAssumption ==
    \A v \in Envelope : v.targetHash \in Block /\ v.targetNumber \in Nat

VARIABLES
    stored,          \* blocks this node inserted
    archived,        \* blocks GetHeaderByHash finds
    current,         \* bc.CurrentBlock()
    highestVerified, \* bc.highestVerifiedBlock
    inserting,       \* the block under insertion, and how far it got
    failures,        \* failed block writes so far (bounded)
    headCh,          \* highestVerifiedBlockCh: numbers of the head events
    receivedVotes, curVotes, futureVotes, curVotesPq, futureVotesPq,
    drain            \* the head event being handled: see HandleHead

chainVars == <<stored, archived, current, highestVerified, inserting, failures>>
poolVars == <<receivedVotes, curVotes, futureVotes, curVotesPq, futureVotesPq>>
vars == <<chainVars, headCh, poolVars, drain>>

Idle == [phase |-> "idle", latest |-> 0, buffer |-> {}]
NoInsert == [phase |-> "none", block |-> Genesis]

Init ==
    /\ stored = {Genesis}
    /\ archived = {Genesis}
    /\ current = Genesis
    /\ highestVerified = Genesis
    /\ inserting = NoInsert
    /\ failures = 0
    /\ headCh = <<>>
    /\ receivedVotes = {}
    /\ curVotes = <<>>
    /\ futureVotes = <<>>
    /\ curVotesPq = {}
    /\ futureVotesPq = {}
    /\ drain = Idle

-----------------------------------------------------------------------------
(* The chain as the pool sees it. *)

GetVerifiedBlockByHashMutant(h) == h = highestVerified

(* highestVerifiedBlock, or what HeaderChain.GetHeaderByHash finds.        *)
GetVerifiedBlockByHash(h) == h \in archived \cup {highestVerified}

VerifyVoteMutant(v) ==
    /\ GetVerifiedBlockByHash(v.targetHash)
    /\ Number[v.targetHash] = v.targetNumber
    /\ v.voteAddress \in VoterKeys[v.targetHash]

(* Parlia.VerifyVote: the target is a verified block of that number, the   *)
(* source is its justified block, the voter is in the validator set.       *)
VerifyVote(v) ==
    /\ GetVerifiedBlockByHash(v.targetHash)
    /\ Number[v.targetHash] = v.targetNumber
    /\ v.source = Justified[v.targetHash]
    /\ v.voteAddress \in VoterKeys[v.targetHash]

(* writeBlockAndSetHead on a block that fork choice makes the new head:    *)
(* highestVerifiedBlock is set, ...                                        *)
StartInsert(b) ==
    /\ inserting.phase = "none"
    /\ b \in Block \ stored
    /\ Parent[b] \in archived \cup {current}
    /\ highestVerified' = b
    /\ inserting' = [phase |-> "send", block |-> b]
    /\ UNCHANGED <<stored, archived, current, failures, headCh, poolVars, drain>>

(* ... the head event is sent (the feed blocks while the pool's channel is *)
(* full) ...                                                               *)
SendHead ==
    /\ inserting.phase = "send"
    /\ Len(headCh) < ChanSize
    /\ headCh' = Append(headCh, Number[inserting.block])
    /\ inserting' = [inserting EXCEPT !.phase = "write"]
    /\ UNCHANGED <<stored, archived, current, highestVerified, failures, poolVars, drain>>

(* ... and only then is the block written and made the current head.       *)
WriteBlockWithState ==
    /\ inserting.phase = "write"
    /\ stored' = stored \cup {inserting.block}
    /\ current' = inserting.block
    /\ inserting' = NoInsert
    /\ UNCHANGED <<archived, highestVerified, failures, headCh, poolVars, drain>>

(* The write fails: the event is out and highestVerifiedBlock still names  *)
(* a block that was never written.                                         *)
WriteFails ==
    /\ inserting.phase = "write"
    /\ failures < MaxWriteFailures
    /\ failures' = failures + 1
    /\ inserting' = NoInsert
    /\ UNCHANGED <<stored, archived, current, highestVerified, headCh, poolVars, drain>>

(* The archiver has indexed one more block of the network's chain.         *)
Archive(b) ==
    /\ b \in Archivable \ archived
    /\ Parent[b] \in archived
    /\ archived' = archived \cup {b}
    /\ UNCHANGED <<stored, current, highestVerified, inserting, failures, headCh, poolVars, drain>>

-----------------------------------------------------------------------------
(* The pool.  voteMessages is the set of a box's votes (nobody reads their *)
(* order; ReceivedIsStored shows that a stored vote is never put again, so *)
(* no append is lost in the set).  A priority queue is the set of its      *)
(* VoteData entries, one per box (PqMatchesBoxes); a tie is popped in any  *)
(* order.                                                                  *)

VoteData(v) == [targetNumber |-> v.targetNumber, targetHash |-> v.targetHash]

Peek(pq) == {e \in pq : \A f \in pq : e.targetNumber <= f.targetNumber}

Messages(m, h) == IF h \in DOMAIN m THEN m[h].voteMessages ELSE {}

Without(m, h) == Restrict(m, DOMAIN m \ {h})

WithBox(m, h, box) == [g \in DOMAIN m \cup {h} |-> IF g = h THEN box ELSE m[g]]

basicVerifyMutant(v, m, max) ==
    /\ v \notin receivedVotes
    /\ Cardinality(Messages(m, v.targetHash)) <= max
    /\ v.sigOK

(* basicVerify: not seen before, room in the box, the signature verifies.  *)
basicVerify(v, m, max) ==
    /\ v \notin receivedVotes
    /\ Cardinality(Messages(m, v.targetHash)) < max
    /\ v.sigOK

(* putVote: the map with the vote in its box, and the queue with an entry  *)
(* for the box when it is new.                                             *)
BoxWith(m, v) ==
    IF v.targetHash \in DOMAIN m
    THEN [m EXCEPT ![v.targetHash].voteMessages = @ \cup {v}]
    ELSE WithBox(m, v.targetHash, [blockNumber |-> v.targetNumber, voteMessages |-> {v}])

PqWith(m, pq, v) == IF v.targetHash \in DOMAIN m THEN pq ELSE pq \cup {VoteData(v)}

InRange(v) ==
    /\ v.targetNumber + LowerLimit - 1 >= Number[current]
    /\ v.targetNumber <= Number[current] + UpperLimit

(* putIntoVotePool for a vote whose block is not known yet. *)
PutFuture(v) ==
    /\ drain.phase = "idle"
    /\ InRange(v)
    /\ ~GetVerifiedBlockByHash(v.targetHash)
    /\ basicVerify(v, futureVotes, MaxFuture)
    /\ futureVotes' = BoxWith(futureVotes, v)
    /\ futureVotesPq' = PqWith(futureVotes, futureVotesPq, v)
    /\ receivedVotes' = receivedVotes \cup {v}
    /\ UNCHANGED <<chainVars, headCh, curVotes, curVotesPq, drain>>

(* putIntoVotePool for a vote whose block is verified. *)
PutCur(v) ==
    /\ drain.phase = "idle"
    /\ InRange(v)
    /\ GetVerifiedBlockByHash(v.targetHash)
    /\ basicVerify(v, curVotes, MaxCur)
    /\ VerifyVote(v)
    /\ curVotes' = BoxWith(curVotes, v)
    /\ curVotesPq' = PqWith(curVotes, curVotesPq, v)
    /\ receivedVotes' = receivedVotes \cup {v}
    /\ UNCHANGED <<chainVars, headCh, futureVotes, futureVotesPq, drain>>

OutdatedMutant(e, latest) == e.targetNumber + LowerLimit - 1 <= latest
Outdated(e, latest) == e.targetNumber + LowerLimit - 1 < latest

ForgottenMutant(gone) == {}
Forgotten(gone) == UNION {Messages(curVotes, h) : h \in gone}

(* prune: the boxes below the window of latest go, with the hashes of      *)
(* their votes.                                                            *)
HandleHead ==
    /\ drain.phase = "idle"
    /\ headCh # <<>>
    /\ LET latest == Head(headCh)
           old == {e \in curVotesPq : Outdated(e, latest)}
           gone == {e.targetHash : e \in old}
       IN /\ curVotesPq' = curVotesPq \ old
          /\ receivedVotes' = receivedVotes \ Forgotten(gone)
          /\ curVotes' = Restrict(curVotes, DOMAIN curVotes \ gone)
          /\ drain' = [phase |-> "old", latest |-> latest, buffer |-> {}]
    /\ headCh' = Tail(headCh)
    /\ UNCHANGED <<chainVars, futureVotes, futureVotesPq>>

(* transfer: the valid votes of a future box join the current box of its   *)
(* hash (a new, possibly empty, one if there is none); the hashes of the   *)
(* others are forgotten.                                                   *)
transfer(e) ==
    LET h == e.targetHash
        votes == Messages(futureVotes, h)
        valid == {v \in votes : VerifyVote(v)}
    IN /\ futureVotesPq' = futureVotesPq \ {e}
       /\ receivedVotes' = receivedVotes \ (votes \ valid)
       /\ futureVotes' = Without(futureVotes, h)
       /\ IF h \in DOMAIN curVotes
          THEN /\ curVotes' = [curVotes EXCEPT ![h].voteMessages = @ \cup valid]
               /\ UNCHANGED curVotesPq
          ELSE /\ curVotes' = WithBox(curVotes, h, [blockNumber |-> futureVotes[h].blockNumber,
                                                    voteMessages |-> valid])
               /\ curVotesPq' = curVotesPq \cup {e}

(* transferVotesFromFutureToCur, first loop: everything below the window   *)
(* is transferred, known block or not.                                     *)
TransferOld ==
    /\ drain.phase = "old"
    /\ \E e \in Peek(futureVotesPq) :
          /\ e.targetNumber + UpperLimit < drain.latest
          /\ transfer(e)
    /\ UNCHANGED <<chainVars, headCh, drain>>

OldDone ==
    /\ drain.phase = "old"
    /\ \A e \in futureVotesPq : e.targetNumber + UpperLimit >= drain.latest
    /\ drain' = [drain EXCEPT !.phase = "recent"]
    /\ UNCHANGED <<chainVars, headCh, poolVars>>

(* Second loop: up to latest, only the boxes of verified blocks move; the  *)
(* other entries wait in the buffer.                                       *)
TransferRecent ==
    /\ drain.phase = "recent"
    /\ \E e \in Peek(futureVotesPq) :
          /\ e.targetNumber <= drain.latest
          /\ GetVerifiedBlockByHash(e.targetHash)
          /\ transfer(e)
    /\ UNCHANGED <<chainVars, headCh, drain>>

BufferUnknown ==
    /\ drain.phase = "recent"
    /\ \E e \in Peek(futureVotesPq) :
          /\ e.targetNumber <= drain.latest
          /\ ~GetVerifiedBlockByHash(e.targetHash)
          /\ futureVotesPq' = futureVotesPq \ {e}
          /\ drain' = [drain EXCEPT !.buffer = @ \cup {e}]
    /\ UNCHANGED <<chainVars, headCh, receivedVotes, curVotes, futureVotes, curVotesPq>>

RecentDoneMutant ==
    /\ drain.phase = "recent"
    /\ \A e \in futureVotesPq : e.targetNumber > drain.latest
    /\ drain' = Idle
    /\ UNCHANGED <<chainVars, headCh, poolVars>>

RecentDone ==
    /\ drain.phase = "recent"
    /\ \A e \in futureVotesPq : e.targetNumber > drain.latest
    /\ futureVotesPq' = futureVotesPq \cup drain.buffer
    /\ drain' = Idle
    /\ UNCHANGED <<chainVars, headCh, receivedVotes, curVotes, futureVotes, curVotesPq>>

-----------------------------------------------------------------------------
ChainStep ==
    \/ \E b \in Block : StartInsert(b) \/ Archive(b)
    \/ SendHead
    \/ WriteBlockWithState
    \/ WriteFails

PoolHeadStep ==
    HandleHead \/ TransferOld \/ OldDone \/ TransferRecent \/ BufferUnknown \/ RecentDone

PutStep == \E v \in Envelope : PutFuture(v) \/ PutCur(v)

Next == ChainStep \/ PoolHeadStep \/ PutStep

(* The loop goroutine is always runnable, and it serves a ready head       *)
(* channel again and again (select picks among the ready channels at       *)
(* random), so its head steps are weakly fair: votes put while an event    *)
(* waits do not disable HandleHead.                                        *)
Spec == Init /\ [][Next]_vars /\ WF_vars(PoolHeadStep)

-----------------------------------------------------------------------------
(* Properties *)

StoredIn(m) == UNION {m[h].voteMessages : h \in DOMAIN m}

Box == [blockNumber : Nat, voteMessages : SUBSET Envelope]
Entry == [targetNumber : Nat, targetHash : Block]
IsMap(m) == DOMAIN m \subseteq Block /\ m \in [DOMAIN m -> Box]
Entries(m) == {[targetNumber |-> m[h].blockNumber, targetHash |-> h] : h \in DOMAIN m}

(* Type invariant of the chain view and of the pool's maps and queues.     *)
TypeOK ==
    /\ stored \subseteq Block
    /\ archived \subseteq Block
    /\ current \in Block
    /\ highestVerified \in Block
    /\ inserting \in [phase : {"none", "send", "write"}, block : Block]
    /\ failures \in Nat
    /\ headCh \in Seq(Nat)
    /\ receivedVotes \subseteq Envelope
    /\ IsMap(curVotes)
    /\ IsMap(futureVotes)
    /\ curVotesPq \subseteq Entry
    /\ futureVotesPq \subseteq Entry
    /\ drain \in [phase : {"idle", "old", "recent"}, latest : Nat, buffer : SUBSET Entry]

(* receivedVotes, the duplicate filter of basicVerify, holds exactly the   *)
(* votes in the two maps: put, transfer and prune never leave a hash       *)
(* behind (its vote could never be stored again) nor drop the hash of a    *)
(* stored vote (it could be stored and broadcast twice).  No vote is in    *)
(* both maps.                                                              *)
ReceivedIsStored ==
    /\ receivedVotes = StoredIn(curVotes) \cup StoredIn(futureVotes)
    /\ StoredIn(curVotes) \cap StoredIn(futureVotes) = {}

(* Each priority queue has exactly one entry per box of its map, carrying  *)
(* the box's number.  The entries transferVotesFromFutureToCur has set     *)
(* aside in futurePqBuffer count: a box without an entry would never be    *)
(* transferred or pruned.                                                  *)
PqMatchesBoxes ==
    /\ curVotesPq = Entries(curVotes)
    /\ futureVotesPq \cup drain.buffer = Entries(futureVotes)
    /\ futureVotesPq \cap drain.buffer = {}

(* Whatever FetchVoteByBlockHash can hand to assembleVoteAttestation was   *)
(* verified against the chain: the signature, the target number, the       *)
(* source and the voter of every current vote are right for its box's      *)
(* block, although future votes are stored with the signature check alone. *)
CurVotesVerified ==
    \A h \in DOMAIN curVotes : \A v \in curVotes[h].voteMessages :
        /\ v.sigOK
        /\ v.targetHash = h
        /\ v.targetNumber = Number[h]
        /\ v.source = Justified[h]
        /\ v.voteAddress \in VoterKeys[h]

(* The per-block caps of basicVerify bound the memory a block can take     *)
(* even though transfer merges a future box into a current one without     *)
(* looking at the cap: a block turns from unknown to verified at most once *)
(* by being inserted and once by being archived, and once more for every   *)
(* failed block write, and a future box is merged once for each.           *)
BoxBound ==
    /\ \A h \in DOMAIN futureVotes : Cardinality(futureVotes[h].voteMessages) <= MaxFuture
    /\ \A h \in DOMAIN curVotes :
          Cardinality(curVotes[h].voteMessages) <= MaxCur + (2 + failures) * MaxFuture

(* A current vote leaves the pool only through prune, and only when its    *)
(* box has fallen out of the window of the head event being handled.       *)
CurVoteKept ==
    [][\A h \in DOMAIN curVotes :
            curVotes[h].voteMessages # {} /\ h \notin DOMAIN curVotes' =>
                /\ headCh # <<>>
                /\ curVotes[h].blockNumber + LowerLimit - 1 < Head(headCh)]_vars

(* prune's comment: votes are deleted in the range up to                   *)
(* latest - lowerLimitOfVoteBlockNumber, so a verified vote whose own      *)
(* target is inside the window survives the head event.  (The code goes by *)
(* the number the FIRST vote of the box claims.)                           *)
PrunedOnlyOutOfRange ==
    [][\A h \in DOMAIN curVotes :
            h \notin DOMAIN curVotes' =>
                \A v \in curVotes[h].voteMessages :
                    v.targetNumber + LowerLimit - 1 < Head(headCh)]_vars

(* A future box that a queued head event reaches: it is below the event's  *)
(* window, or not above its number and its block is one the archiver has.  *)
Covered(h) ==
    /\ h \in DOMAIN futureVotes
    /\ \E i \in DOMAIN headCh :
        \/ futureVotes[h].blockNumber + UpperLimit < headCh[i]
        \/ h \in archived /\ futureVotes[h].blockNumber <= headCh[i]

(* A queued head event empties every future box it covers, although votes  *)
(* are put and blocks inserted meanwhile: transferVotesFromFutureToCur     *)
(* leaves no box of a known block behind.                                  *)
FutureVotesDrained ==
    \A h \in Block : Covered(h) ~> h \notin DOMAIN futureVotes
=============================================================================
