----------------------------- MODULE VoteManager ----------------------------
(***************************************************************************)
(* core/vote/vote_manager.go and vote_journal.go: how the machines holding *)
(* one validator's vote key decide to vote, journal the vote and publish   *)
(* it.  Usually one machine mines and a backup follows; both run the same  *)
(* loop.  A machine can crash at any point and restart from its write-     *)
(* ahead log.                                                              *)
(*                                                                         *)
(* A header is [number, source, fork]: source is the number of its         *)
(* justified block; fork is what its chain's total difficulty exceeds the  *)
(* number by (in-turn blocks weigh 2, the others 1) and tells apart blocks *)
(* of the same number.                                                     *)
(***************************************************************************)
EXTENDS Integers, Sequences, FiniteSets, SequencesExt

CONSTANTS Node,                    \* machines that hold the vote key
          Header,                  \* headers that can become a head
          blocksNumberSinceMining,
          maxSizeOfRecentEntry,    \* capacity of the journal and of its LRU
          maliciousVoteSlashScope,
          upperLimitOfVoteBlockNumber,
          MaxLag,                  \* how far behind the best head a block can
                                   \* be and still be voted in time
          MaxFaults,               \* bound: crashes, journal errors and downloader
                                   \* cycles
          MaxStops                 \* bound: stops of mining

ASSUME HeaderAssumption ==
    \A h \in Header : /\ h.number \in Nat \ {0}
                       /\ h.source \in 0 .. h.number - 1
                       /\ h.fork \in Nat

Genesis == [number |-> 0, source |-> 0, fork |-> 0]
NoVote == [source |-> 0, target |-> 0, fork |-> 0]
VoteOf(h) == [source |-> h.source, target |-> h.number, fork |-> h.fork]
Vote == {VoteOf(h) : h \in Header}

VARIABLES
    startVote,             \* [Node -> BOOLEAN]
    mining,                \* [Node -> BOOLEAN]: eth.IsMining
    blockCountSinceMining, \* [Node -> Nat], saturating one above the threshold
    head,                  \* [Node -> Header]: the last head announced
    top,                   \* highest number announced anywhere: the clock
    wal,                   \* [Node -> Seq(Vote)]: walLog, on disk
    voteDataBuffer,        \* [Node -> Seq(Vote)]: the LRU, oldest first
    pending,               \* [Node -> Vote]: journaled, not yet in the pool
    published,             \* votes put into the pool, by any node
    synced,                \* [Node -> SUBSET Vote]: events taken off syncVoteCh
    faults, stops

vars == <<startVote, mining, blockCountSinceMining, head, top, wal, voteDataBuffer,
          pending, published, synced, faults, stops>>

Init ==
    /\ startVote = [n \in Node |-> TRUE]
    /\ mining = [n \in Node |-> FALSE]
    /\ blockCountSinceMining = [n \in Node |-> 0]
    /\ head = [n \in Node |-> Genesis]
    /\ top = 0
    /\ wal = [n \in Node |-> <<>>]
    /\ voteDataBuffer = [n \in Node |-> <<>>]
    /\ pending = [n \in Node |-> NoVote]
    /\ published = {}
    /\ synced = [n \in Node |-> {}]
    /\ faults = 0 /\ stops = 0

Fault == faults < MaxFaults /\ faults' = faults + 1

-----------------------------------------------------------------------------
(* The journal. *)

Latest(s, k) == IF Len(s) > k THEN SubSeq(s, Len(s) - k + 1, Len(s)) ELSE s

(* lru.Add keyed by the target number: replaces, refreshes, evicts.        *)
Add(lru, v) ==
    Latest(Append(SelectSeq(lru, LAMBDA w : w.target # v.target), v), maxSizeOfRecentEntry)

Recorded(lru, t) == \E i \in DOMAIN lru : lru[i].target = t

(* Mutant: the log is not replayed. *)
ReloadMutant(log) == <<>>

(* NewVoteJournal: the log is replayed into the LRU in order.              *)
Reload(log) == FoldLeft(Add, <<>>, log)

(* Mutant: the front of the log is dropped one entry too early. *)
JournaledMutant(n, lru, v, truncated) ==
    /\ wal' = [wal EXCEPT ![n] = Latest(Append(@, v), maxSizeOfRecentEntry - 1)]
    /\ voteDataBuffer' = [voteDataBuffer EXCEPT ![n] = Add(lru, v)]

(* WriteVote: append to the log, drop its front beyond the capacity        *)
(* (unless truncation fails, which is only logged), then the LRU.          *)
Journaled(n, lru, v, truncated) ==
    /\ wal' = [wal EXCEPT ![n] = IF truncated THEN Latest(Append(@, v), maxSizeOfRecentEntry)
                                              ELSE Append(@, v)]
    /\ voteDataBuffer' = [voteDataBuffer EXCEPT ![n] = Add(lru, v)]

-----------------------------------------------------------------------------
(* UnderRules.  The two loops read (and refresh) the recorded votes in     *)
(* their windows in ascending order and stop at the first conflict.        *)

LowWindow(h) ==
    LET from == IF h.source + 1 + maliciousVoteSlashScope < h.number
                THEN h.number - maliciousVoteSlashScope
                ELSE h.source + 1
    IN from .. h.number - 1

HighWindow(h) == h.number + 1 .. h.number + upperLimitOfVoteBlockNumber

Conflict(h, v) ==
    \/ v.target \in LowWindow(h) /\ v.source > h.source
    \/ v.target \in HighWindow(h) /\ v.source < h.source

UnderRules(lru, h) ==
    /\ ~Recorded(lru, h.number)
    /\ \A i \in DOMAIN lru : ~Conflict(h, lru[i])

(* The LRU after UnderRules: the votes it looked at, up to the first       *)
(* conflict, are now the most recent ones.                                 *)
Touched(lru, h) ==
    IF Recorded(lru, h.number) THEN lru
    ELSE LET inWindow(v) == v.target \in LowWindow(h) \cup HighWindow(h)
             scan == SortSeq(SelectSeq(lru, inWindow), LAMBDA v, w : v.target < w.target)
             bad == {i \in DOMAIN scan : Conflict(h, scan[i])}
             looked == IF bad = {} THEN scan ELSE SubSeq(scan, 1, Min(bad))
         IN SelectSeq(lru, LAMBDA v : \A i \in DOMAIN looked : looked[i] # v) \o looked

-----------------------------------------------------------------------------
(* The head event handler of loop. *)

TotalDifficulty(h) == h.number + h.fork

(* Fork choice announces a head only with a higher justified block, or     *)
(* with the same one and a higher total difficulty.                        *)
Adopts(n, h) ==
    /\ pending[n] = NoVote
    /\ \/ h.source > head[n].source
       \/ h.source = head[n].source /\ TotalDifficulty(h) > TotalDifficulty(head[n])

Announce(n, h) ==
    /\ Adopts(n, h)
    /\ head' = [head EXCEPT ![n] = h]
    /\ top' = IF h.number > top THEN h.number ELSE top

TooLate(h) == h.number + MaxLag < top

Counted(n) == IF blockCountSinceMining[n] > blocksNumberSinceMining
              THEN blockCountSinceMining[n] ELSE blockCountSinceMining[n] + 1

MayVote(n, h) ==
    /\ startVote[n]
    /\ mining[n]
    /\ Counted(n) > blocksNumberSinceMining
    /\ ~TooLate(h)

Count(n) == blockCountSinceMining' = [blockCountSinceMining EXCEPT ![n] = Counted(n)]

(* Mutant: the count survives a stop of mining. *)
HeadIgnoredMutant(n, h) ==
    /\ Announce(n, h)
    /\ ~(startVote[n] /\ mining[n])
    /\ UNCHANGED <<startVote, mining, blockCountSinceMining, wal, voteDataBuffer, pending,
                   published, synced, faults, stops>>

(* startVote is off, or the node is not mining.                            *)
HeadIgnored(n, h) ==
    /\ Announce(n, h)
    /\ ~(startVote[n] /\ mining[n])
    /\ blockCountSinceMining' = [blockCountSinceMining EXCEPT ![n] = IF startVote[n] THEN 0 ELSE @]
    /\ UNCHANGED <<startVote, mining, wal, voteDataBuffer, pending, published, synced, faults, stops>>

(* The head is counted and the handler gives up before UnderRules: still   *)
(* within the waiting period, too late, not an active validator.           *)
HeadSkipped(n, h) ==
    /\ Announce(n, h)
    /\ startVote[n] /\ mining[n]
    /\ Count(n)
    /\ UNCHANGED <<startVote, mining, wal, voteDataBuffer, pending, published, synced, faults, stops>>

(* UnderRules refuses, or the signer or the journal fails after it.        *)
HeadNotVoted(n, h) ==
    /\ MayVote(n, h)
    /\ Announce(n, h)
    /\ Count(n)
    /\ IF UnderRules(voteDataBuffer[n], h)
       THEN Fault
       ELSE UNCHANGED faults
    /\ voteDataBuffer' = [voteDataBuffer EXCEPT ![n] = Touched(@, h)]
    /\ UNCHANGED <<startVote, mining, wal, pending, published, synced, stops>>

(* The vote is journaled; PutVote is still to come.                        *)
HeadVoted(n, h) ==
    /\ MayVote(n, h)
    /\ Announce(n, h)
    /\ Count(n)
    /\ UnderRules(voteDataBuffer[n], h)
    /\ \E truncated \in BOOLEAN :
          /\ IF truncated THEN UNCHANGED faults ELSE Fault
          /\ Journaled(n, Touched(voteDataBuffer[n], h), VoteOf(h), truncated)
    /\ pending' = [pending EXCEPT ![n] = VoteOf(h)]
    /\ UNCHANGED <<startVote, mining, published, synced, stops>>

PutVote(n) ==
    /\ pending[n] # NoVote
    /\ published' = published \cup {pending[n]}
    /\ pending' = [pending EXCEPT ![n] = NoVote]
    /\ UNCHANGED <<startVote, mining, blockCountSinceMining, head, top, wal, voteDataBuffer,
                   synced, faults, stops>>

(* The pool announces only votes near the head (putIntoVotePool), and some *)
(* peer, at most MaxLag behind the best head, must still hold the vote.    *)
InPoolRange(n, v) ==
    /\ v.target + maliciousVoteSlashScope + MaxLag > top
    /\ v.target + maliciousVoteSlashScope > head[n].number
    /\ v.target <= head[n].number + upperLimitOfVoteBlockNumber

(* The other cases of loop's select.  A vote of our own key comes back     *)
(* from the pool: only a node that is not mining journals it, and an error *)
(* of the journal loses it.                                                *)
SyncVote(n, v) ==
    /\ pending[n] = NoVote
    /\ v \in published \ synced[n]
    /\ InPoolRange(n, v)
    /\ synced' = [synced EXCEPT ![n] = @ \cup {v}]
    /\ \/ mining[n] /\ UNCHANGED <<wal, voteDataBuffer, faults>>
       \/ ~mining[n] /\ Journaled(n, voteDataBuffer[n], v, TRUE) /\ UNCHANGED faults
       \/ ~mining[n] /\ Fault /\ UNCHANGED <<wal, voteDataBuffer>>
    /\ UNCHANGED <<startVote, mining, blockCountSinceMining, head, top, pending, published,
                   stops>>

DownloaderStart(n) ==
    /\ pending[n] = NoVote
    /\ startVote[n]
    /\ Fault
    /\ startVote' = [startVote EXCEPT ![n] = FALSE]
    /\ UNCHANGED <<mining, blockCountSinceMining, head, top, wal, voteDataBuffer, pending,
                   published, synced, stops>>

DownloaderDoneOrFailed(n) ==
    /\ pending[n] = NoVote
    /\ ~startVote[n]
    /\ startVote' = [startVote EXCEPT ![n] = TRUE]
    /\ UNCHANGED <<mining, blockCountSinceMining, head, top, wal, voteDataBuffer, pending,
                   published, synced, faults, stops>>

(* The operator mines on one machine at a time, and a machine starts to    *)
(* mine once its downloader is done: within MaxLag of the best head.       *)
StartMining(n) ==
    /\ \A m \in Node : ~mining[m] /\ pending[m] = NoVote
    /\ head[n].number + MaxLag >= top
    /\ mining' = [mining EXCEPT ![n] = TRUE]
    /\ UNCHANGED <<startVote, blockCountSinceMining, head, top, wal, voteDataBuffer, pending,
                   published, synced, faults, stops>>

StopMining(n) ==
    /\ mining[n]
    /\ stops < MaxStops /\ stops' = stops + 1
    /\ mining' = [mining EXCEPT ![n] = FALSE]
    /\ UNCHANGED <<startVote, blockCountSinceMining, head, top, wal, voteDataBuffer, pending,
                   published, synced, faults>>

(* Everything but the log is lost; the head falls back.                    *)
Crash(n) ==
    /\ Fault
    /\ startVote' = [startVote EXCEPT ![n] = TRUE]
    /\ mining' = [mining EXCEPT ![n] = FALSE]
    /\ blockCountSinceMining' = [blockCountSinceMining EXCEPT ![n] = 0]
    /\ head' = [head EXCEPT ![n] = Genesis]
    /\ voteDataBuffer' = [voteDataBuffer EXCEPT ![n] = Reload(wal[n])]
    /\ pending' = [pending EXCEPT ![n] = NoVote]
    /\ synced' = [synced EXCEPT ![n] = {}]
    /\ UNCHANGED <<top, wal, published, stops>>

Next ==
    \E n \in Node :
        \/ \E h \in Header : \/ HeadIgnored(n, h)
                             \/ HeadSkipped(n, h)
                             \/ HeadNotVoted(n, h)
                             \/ HeadVoted(n, h)
        \/ PutVote(n)
        \/ \E v \in published : SyncVote(n, v)
        \/ DownloaderStart(n) \/ DownloaderDoneOrFailed(n)
        \/ StartMining(n) \/ StopMining(n)
        \/ Crash(n)

Spec == Init /\ [][Next]_vars

-----------------------------------------------------------------------------
(* Type invariant; voteDataBuffer, the LRU of WriteVote, never outgrows    *)
(* its capacity.                                                           *)
TypeOK ==
    /\ startVote \in [Node -> BOOLEAN]
    /\ mining \in [Node -> BOOLEAN]
    /\ blockCountSinceMining \in [Node -> 0 .. blocksNumberSinceMining + 1]
    /\ head \in [Node -> Header \cup {Genesis}]
    /\ top \in Nat
    /\ wal \in [Node -> Seq(Vote)]
    /\ voteDataBuffer \in [Node -> Seq(Vote)]
    /\ \A n \in Node : Len(voteDataBuffer[n]) <= maxSizeOfRecentEntry
    /\ pending \in [Node -> Vote \cup {NoVote}]
    /\ published \subseteq Vote
    /\ synced \in [Node -> SUBSET Vote]
    /\ faults \in 0 .. MaxFaults /\ stops \in 0 .. MaxStops

(* A restart forgets nothing that still matters: every vote in the LRU     *)
(* that UnderRules can still consult for a votable head (its target within *)
(* the slash scope of the best head) is found again when NewVoteJournal    *)
(* replays the log, although the log drops its oldest entry and the LRU    *)
(* its least recently used one.                                            *)
RestartForgetsNothing ==
    \A n \in Node : \A i \in DOMAIN voteDataBuffer[n] :
        LET v == voteDataBuffer[n][i]
        IN v.target + maliciousVoteSlashScope >= top => Recorded(Reload(wal[n]), v.target)

Rules == INSTANCE VoteRules WITH Scope <- maliciousVoteSlashScope

(* The votes published under the key follow the rules stated above         *)
(* UnderRules: across crashes, restarts, journal eviction and a hand-over  *)
(* between machines, every published vote is a step the abstract voter     *)
(* could take.                                                             *)
FollowsVoteRules == Rules!Spec
=============================================================================
