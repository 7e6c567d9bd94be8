--------------------------- MODULE HeaderService ---------------------------
(***************************************************************************)
(* How this peer answers GetBlockHeaders and GetBlockBodies (handlers.go   *)
(* of eth/protocols/eth over core/headerchain.go).  The code is the full   *)
(* node's, but the chain it reads is not: the database holds the genesis   *)
(* block only, every other block is a lookup in the block archiver that    *)
(* may find nothing, and the head is what the remote node last reported,   *)
(* ahead of the blocks that are bundled.                                   *)
(*                                                                         *)
(* A lookup answers as BlockService promises: the archived block of that   *)
(* number, or nothing.  So a header is its number.  A hash is the number   *)
(* of its block and whether the block is the archived one of that number.  *)
(* Sizes are counted in headers (bodies) of one size.                      *)
(***************************************************************************)
EXTENDS Integers, Sequences, Functions

CONSTANTS Top,           \* bound: the highest block number there is
          First,         \* the lowest bundled block
          MaxServe,      \* maxHeadersServe, maxBodiesServe
          SoftLimit,     \* softResponseLimit, in headers or bodies
          NonCanonical,  \* maxNonCanonical
          Amounts,       \* amounts asked for
          Skips,         \* gaps asked for
          MaxHashes,     \* bound: bodies asked for at a time
          MaxMisses      \* bound: lookups of bundled blocks that fail

ASSUME ServiceAssumption ==
    /\ Top \in Nat /\ First \in {0, 1}
    /\ MaxServe \in Nat \ {0} /\ SoftLimit \in Nat \ {0}
    /\ NonCanonical \in Nat /\ MaxHashes \in Nat /\ MaxMisses \in Nat
    /\ Amounts \subseteq Nat \ {0} /\ Skips \subseteq Nat

VARIABLES
    head,     \* CurrentHeader().Number
    bundled,  \* the highest bundled block
    query,    \* the request being answered
    phase,    \* where the handler is; "idle" between requests
    number,   \* the next block to look up
    left,     \* headers still wanted by the loop it is in
    ours,     \* is query.Origin.Hash the archived block of its number
    budget,   \* what is left of maxNonCanonical
    lookups,  \* lookups made for this request
    segment,  \* what GetHeadersFrom has collected, going down
    headers,  \* the answer
    misses,   \* failed lookups of bundled blocks so far (bounded)
    calm      \* nothing failed or moved since the request came, and the
              \* bundles reached up to the head: a history variable

world == <<head, bundled>>
cursor == <<number, left, ours, budget, lookups>>
vars == <<world, query, phase, cursor, segment, headers, misses, calm>>

Hash == {h \in [number : 0 .. Top, ours : BOOLEAN] : h.number = 0 => h.ours}

Request ==
    [kind : {"number"}, origin : {[number |-> n, ours |-> TRUE] : n \in 0 .. Top + 1},
     amount : Amounts, skip : Skips, reverse : BOOLEAN]
    \cup [kind : {"hash"}, origin : Hash, amount : Amounts, skip : Skips, reverse : BOOLEAN]
    \cup [kind : {"bodies"}, hashes : UNION {[1 .. n -> Hash] : n \in 1 .. MaxHashes}]

Count(q) == IF q.amount > MaxServe THEN MaxServe ELSE q.amount

Init ==
    /\ head \in {0, Top} /\ bundled = 0
    /\ query = [kind |-> "none"] /\ phase = "idle"
    /\ number = 0 /\ left = 0 /\ ours = TRUE /\ budget = 0 /\ lookups = 0
    /\ segment = << >> /\ headers = << >>
    /\ misses = 0 /\ calm = FALSE

-----------------------------------------------------------------------------
(* The chain behind the handler. *)

Archived(n) == First <= n /\ n <= bundled

Found(n) == Archived(n) /\ UNCHANGED <<misses, calm>>

NotFound(n) ==
    \/ ~Archived(n) /\ UNCHANGED <<misses, calm>>
    \/ Archived(n) /\ misses < MaxMisses /\ misses' = misses + 1 /\ calm' = FALSE

(* GetHeaderByNumber, GetHeader: the genesis header is in the database.    *)
HasHeader(n) == IF n = 0 THEN UNCHANGED <<misses, calm>> ELSE Found(n)
NoHeader(n) == n # 0 /\ NotFound(n)

(* updateCurrentHeader: whatever the remote node says the latest block is; *)
(* another of its replicas may be behind.                                  *)
SetCurrentHeader ==
    /\ head' \in bundled .. Top /\ head' # head
    /\ calm' = FALSE
    /\ UNCHANGED <<bundled, query, phase, cursor, segment, headers, misses>>

(* Another bundle is uploaded. *)
Upload ==
    /\ bundled < head
    /\ bundled' \in bundled + 1 .. head
    /\ calm' = FALSE
    /\ UNCHANGED <<head, query, phase, cursor, segment, headers, misses>>

-----------------------------------------------------------------------------
(* ServiceGetBlockHeadersQuery and ServiceGetBlockBodiesQuery. *)

Receive(q) ==
    /\ phase = "idle"
    /\ query' = q
    /\ phase' = IF q.kind = "bodies" THEN "bodies"
                ELSE IF q.skip # 0 THEN "stride"
                ELSE IF q.kind = "number" THEN "from" ELSE "origin"
    /\ number' = IF q.kind = "bodies" THEN 0 ELSE q.origin.number
    /\ ours' = (q.kind # "bodies" => q.origin.ours)
    /\ left' = 0 /\ budget' = NonCanonical /\ lookups' = 0
    /\ segment' = << >> /\ headers' = << >>
    /\ calm' = (bundled = head)
    /\ UNCHANGED <<world, misses>>

(* The answer is assembled ... *)
Reply(answer) ==
    /\ headers' = answer
    /\ phase' = "reply"
    /\ number' = 0 /\ left' = 0 /\ ours' = TRUE /\ budget' = 0 /\ lookups' = 0
    /\ segment' = << >>
    /\ UNCHANGED <<world, query>>

(* ... and handed to the connection (ReplyBlockHeadersRLP,                 *)
(* ReplyBlockBodiesRLP); the next message is read.                         *)
Send ==
    /\ phase = "reply"
    /\ phase' = "idle"
    /\ query' = [kind |-> "none"] /\ headers' = << >> /\ calm' = FALSE
    /\ UNCHANGED <<world, cursor, segment, misses>>

GetHeadersFromMutant(top, count) ==
    IF head >= top
    THEN number' = top /\ left' = count /\ phase' = "down"
    ELSE number' = 0 /\ left' = 0 /\ phase' = "down"

(* GetHeadersFrom(top, count): the part above the head is dropped first.   *)
GetHeadersFrom(top, count) ==
    IF head >= top
    THEN number' = top /\ left' = count /\ phase' = "down"
    ELSE IF count > top - head
    THEN number' = head /\ left' = count - (top - head) /\ phase' = "down"
    ELSE number' = 0 /\ left' = 0 /\ phase' = "down"

(* serviceContiguousBlockHeaderQuery, number mode. *)
ContiguousByNumber ==
    /\ phase = "from"
    /\ GetHeadersFrom(IF query.reverse THEN query.origin.number
                      ELSE query.origin.number + Count(query) - 1, Count(query))
    /\ UNCHANGED <<world, query, ours, budget, lookups, segment, headers, misses, calm>>

HeaderBelowMutant ==
    /\ phase = "down" /\ left > 0
    /\ Found(number)
    /\ segment' = Append(segment, number)
    /\ number' = number - 1
    /\ UNCHANGED <<world, query, phase, left, ours, budget, lookups, headers>>

(* The loop of GetHeadersFrom.  It asks the archiver for block 0 too; the  *)
(* number below 0 is 2^64 - 1, which nobody has.                           *)
HeaderBelow ==
    /\ phase = "down" /\ left > 0
    /\ Found(number)
    /\ segment' = Append(segment, number)
    /\ left' = left - 1
    /\ number' = number - 1
    /\ UNCHANGED <<world, query, phase, ours, budget, lookups, headers>>

(* The loop that swaps headers[i] and headers[j] from both ends. *)
Reversed(s) == [i \in 1 .. Len(s) |-> s[Len(s) + 1 - i]]

InOrder == headers \o (IF query.reverse THEN segment ELSE Reversed(segment))

NoHeaderBelowMutant ==
    /\ phase = "down" /\ left > 0
    /\ Archived(number) /\ NotFound(number)
    /\ Reply(InOrder)

NoHeaderBelow ==
    /\ phase = "down" /\ left > 0
    /\ NotFound(number)
    /\ Reply(InOrder)

SegmentDone ==
    /\ phase = "down" /\ left = 0
    /\ Reply(InOrder)
    /\ UNCHANGED <<misses, calm>>

(* Hash mode: the origin first.  Descendants follow if GetCanonicalHash    *)
(* has the hash, and it reads the database.                                *)
Origin ==
    /\ phase = "origin"
    /\ Found(number)
    /\ headers' = <<number>>
    /\ IF query.reverse
       THEN /\ phase' = "up"
            /\ number' = number - 1
            /\ left' = Count(query) - 1
       ELSE IF number = 0
       THEN GetHeadersFrom(number + Count(query) - 1, Count(query) - 1)
       ELSE phase' = "down" /\ number' = 0 /\ left' = 0
    /\ UNCHANGED <<world, query, ours, budget, lookups, segment>>

NoOrigin ==
    /\ phase = "origin"
    /\ NotFound(number)
    /\ Reply(<< >>)

(* "Last mode: deliver ancestors of H". *)
Parent ==
    /\ phase = "up" /\ left > 0
    /\ Found(number)
    /\ headers' = Append(headers, number)
    /\ number' = number - 1
    /\ left' = left - 1
    /\ UNCHANGED <<world, query, phase, ours, budget, lookups, segment>>

NoParent ==
    /\ phase = "up" /\ left > 0
    /\ NotFound(number)
    /\ Reply(headers)

ParentsDone ==
    /\ phase = "up" /\ left = 0
    /\ Reply(headers)
    /\ UNCHANGED <<misses, calm>>

-----------------------------------------------------------------------------
(* serviceNonContiguousBlockHeaderQuery. *)

StrideOpen ==
    /\ Len(headers) < query.amount
    /\ Len(headers) < SoftLimit
    /\ Len(headers) < MaxServe
    /\ lookups < 2 * MaxServe

Step == query.skip + 1

(* GetAncestor of a block with the given number: every block on the way is *)
(* checked on its own, for ReadCanonicalHash knows none of them.           *)
ReachesAncestor == budget >= Step

(* The last header was found; go to the next one of the request ...        *)
Advance(to, spent) ==
    /\ number' = to
    /\ ours' = TRUE
    /\ budget' = budget - spent
    /\ lookups' = lookups + 1
    /\ headers' = Append(headers, number)
    /\ UNCHANGED <<world, query, phase, left, segment>>

(* The first header by hash is looked up by the archiver, later ones and   *)
(* those by number come from the database if they are the genesis block.   *)
FoundAtStride == IF query.kind = "hash" /\ lookups = 0 THEN Found(number) ELSE HasHeader(number)

StrideByNumber ==
    /\ phase = "stride" /\ StrideOpen /\ query.kind = "number"
    /\ FoundAtStride
    /\ IF ~query.reverse THEN Advance(number + Step, 0)
       ELSE IF number >= Step THEN Advance(number - Step, 0)
       ELSE Reply(Append(headers, number))

StrideUp ==
    /\ phase = "stride" /\ StrideOpen /\ query.kind = "hash" /\ query.reverse
    /\ FoundAtStride
    /\ IF number >= Step /\ ReachesAncestor THEN Advance(number - Step, Step)
       ELSE Reply(Append(headers, number))

(* Towards the leaf the next header has to descend from this one.          *)
StrideDown ==
    /\ phase = "stride" /\ StrideOpen /\ query.kind = "hash" /\ ~query.reverse
    /\ FoundAtStride
    /\ IF Archived(number + Step) /\ ReachesAncestor /\ ours THEN Advance(number + Step, Step)
       ELSE Reply(Append(headers, number))

(* ... unless one of the lookups on the way there fails. *)
StrideCut ==
    /\ phase = "stride" /\ StrideOpen /\ query.kind = "hash"
    /\ Archived(number) \/ (number = 0 /\ lookups > 0)
    /\ misses < MaxMisses /\ misses' = misses + 1 /\ calm' = FALSE
    /\ Reply(Append(headers, number))

StrideMiss ==
    /\ phase = "stride" /\ StrideOpen
    /\ IF query.kind = "hash" /\ lookups = 0 THEN NotFound(number) ELSE NoHeader(number)
    /\ Reply(headers)

StrideFull ==
    /\ phase = "stride" /\ ~StrideOpen
    /\ Reply(headers)
    /\ UNCHANGED <<misses, calm>>

-----------------------------------------------------------------------------
(* ServiceGetBlockBodiesQuery: a body that is not found is left out. *)

Asked == query.hashes[lookups + 1].number

BodiesOpen ==
    /\ lookups < Len(query.hashes)
    /\ Len(headers) < SoftLimit /\ Len(headers) < MaxServe
    /\ lookups < 2 * MaxServe

Body ==
    /\ phase = "bodies" /\ BodiesOpen
    /\ Found(Asked)
    /\ headers' = Append(headers, Asked)
    /\ lookups' = lookups + 1
    /\ UNCHANGED <<world, query, phase, number, left, ours, budget, segment>>

NoBody ==
    /\ phase = "bodies" /\ BodiesOpen
    /\ NotFound(Asked)
    /\ lookups' = lookups + 1
    /\ UNCHANGED <<world, query, phase, number, left, ours, budget, segment, headers>>

BodiesDone ==
    /\ phase = "bodies" /\ ~BodiesOpen
    /\ Reply(headers)
    /\ UNCHANGED <<misses, calm>>

-----------------------------------------------------------------------------
Handler ==
    \/ ContiguousByNumber \/ HeaderBelow \/ NoHeaderBelow \/ SegmentDone
    \/ Origin \/ NoOrigin \/ Parent \/ NoParent \/ ParentsDone
    \/ StrideByNumber \/ StrideUp \/ StrideDown \/ StrideCut \/ StrideMiss \/ StrideFull
    \/ Body \/ NoBody \/ BodiesDone \/ Send

Next ==
    \/ SetCurrentHeader \/ Upload
    \/ \E q \in Request : Receive(q)
    \/ Handler

(* The handler goroutine runs on: every lookup returns (BlockService).     *)
Fairness == WF_vars(Handler)

Spec == Init /\ [][Next]_vars /\ Fairness
-----------------------------------------------------------------------------
(* Type invariant. *)
TypeOK ==
    /\ head \in 0 .. Top /\ bundled \in 0 .. head
    /\ query \in Request \cup {[kind |-> "none"]}
    /\ phase \in {"idle", "from", "down", "origin", "up", "stride", "bodies", "reply"}
    /\ number \in Int /\ left \in Nat /\ ours \in BOOLEAN
    /\ budget \in 0 .. NonCanonical /\ lookups \in Nat
    /\ segment \in Seq(0 .. Top) /\ headers \in Seq(0 .. Top)
    /\ misses \in 0 .. MaxMisses /\ calm \in BOOLEAN

Answered(kinds) == phase = "reply" /\ query.kind \in kinds

(* The blocks a header request names, in the order of the answer. *)
Wanted ==
    LET n == query.origin.number
        k == IF query.reverse /\ Count(query) > n \div Step THEN n \div Step + 1 ELSE Count(query)
    IN [i \in 1 .. k |-> IF query.reverse THEN n - (i - 1) * Step ELSE n + (i - 1) * Step]

Pieces(s) == UNION {{SubSeq(s, a, b) : b \in 0 .. Len(s)} : a \in 1 .. Len(s) + 1}

(* The subsequences of s, as increasing sequences of positions.            *)
Subsequences(s) ==
    {t \in UNION {[1 .. k -> 1 .. Len(s)] : k \in 0 .. Len(s)} :
        \A i, j \in DOMAIN t : i < j => t[i] < t[j]}

BodiesAt(t) == [i \in 1 .. Len(t) |-> query.hashes[t[i]].number]

(* Whatever lookups fail and however the head and the bundles move while   *)
(* it is collected, an answer holds blocks that were asked for, in the     *)
(* order asked for, no more than MaxServe of them, without a hole: it is   *)
(* the start of the run of blocks asked for, or, for a contiguous request  *)
(* by number, any piece of it (also after the origin, for the genesis      *)
(* hash).                                                                  *)
AnswerFollowsQuery ==
    /\ phase = "reply" => Len(headers) <= MaxServe
    /\ Answered({"number", "hash"}) =>
          \/ \E k \in 0 .. Len(Wanted) : headers = SubSeq(Wanted, 1, k)
          \/ /\ query.skip = 0
             /\ IF query.kind = "number" THEN headers \in Pieces(Wanted)
                ELSE /\ query.origin.number = 0 /\ ~query.reverse
                     /\ headers[1] = 0 /\ Tail(headers) \in Pieces(Wanted)
    /\ Answered({"bodies"}) =>
          \E t \in Subsequences(query.hashes) : headers = BodiesAt(t)

Smaller(j, k) == IF j < k THEN j ELSE k

Bundled == First .. bundled

(* All of s that is bundled. *)
AllBundled(s) ==
    /\ headers \in Pieces(s)
    /\ Range(headers) = Range(s) \cap Bundled

(* The longest start of s, up to k blocks, that is bundled or the genesis  *)
(* block.                                                                  *)
LongestStart(s, k) ==
    \E j \in 0 .. Smaller(Len(s), k) :
        /\ headers = SubSeq(s, 1, j)
        /\ \A i \in 1 .. j : s[i] \in {0} \cup Bundled
        /\ j < Smaller(Len(s), k) => s[j + 1] \notin {0} \cup Bundled

(* The first k of the bodies asked for that are bundled. *)
FirstBodies(k) ==
    \E t \in Subsequences(query.hashes) :
        /\ headers = BodiesAt(t) /\ Len(t) <= k
        /\ Range(headers) \subseteq Bundled
        /\ \A i \in 1 .. Smaller(Len(query.hashes), 2 * MaxServe) :
              query.hashes[i].number \in Bundled /\ i \notin Range(t) =>
                  Len(t) = k /\ t[k] < i

(* The answer is that of a full node with the blocks First .. bundled, and *)
(* the genesis block for what reads the database; with a gap up to k       *)
(* headers of it.                                                          *)
FullAnswer(k) ==
    IF query.kind = "bodies" THEN FirstBodies(Smaller(SoftLimit, MaxServe))
    ELSE IF query.kind = "hash" /\ query.origin.number \notin Bundled THEN headers = << >>
    ELSE IF query.skip = 0 THEN AllBundled(Wanted)
    ELSE LongestStart(Wanted, Smaller(SoftLimit, k))

(* When no lookup fails and nothing moves, a request is answered in full:  *)
(* by number in both directions and with any gap, by hash towards the      *)
(* genesis block, and with a gap as far as maxNonCanonical reaches.        *)
AnswerComplete ==
    calm /\ Answered({"number", "hash", "bodies"}) =>
        /\ query.kind # "hash" => FullAnswer(SoftLimit)
        /\ query.kind = "hash" /\ query.skip = 0 /\ query.reverse => FullAnswer(SoftLimit)
        /\ query.kind = "hash" /\ query.skip # 0 /\ (query.reverse \/ query.origin.ours) =>
              FullAnswer(1 + NonCanonical \div Step)

(* Every request is answered, however long the chain moves on: no loop of  *)
(* the handlers waits for a block that does not come.                      *)
RequestsAnswered == (phase # "idle") ~> (phase = "idle")

(* "return a best-effort response, containing the headers that we do have" *)
(* (headerchain.go): a forward request whose origin is archived is not     *)
(* answered with nothing.                                                  *)
BestEffort ==
    [][phase = "down" /\ phase' = "reply" /\ query.kind = "number" /\ misses' = 0
          /\ Archived(query.origin.number)
       => headers' # << >>]_vars

(* "we are tasked to deliver header by hash H, and onwards. However, if H  *)
(* is not canon, we will be unable to deliver any descendants" (handlers.  *)
(* go): of a canonical H the descendants are delivered.                    *)
DescendantsDelivered ==
    calm /\ Answered({"hash"}) /\ query.skip = 0 /\ query.origin.ours /\ ~query.reverse =>
        FullAnswer(SoftLimit)

(* "the request is for a contiguous segment of headers" (handlers.go): so  *)
(* is the answer.                                                          *)
SegmentContiguous ==
    Answered({"number", "hash"}) /\ query.skip = 0 =>
        \A i \in 1 .. Len(headers) - 1 : headers[i + 1] - headers[i] \in {-1, 1}

(* "maxNonCanonical points to a downwards counter limiting the number of   *)
(* blocks to be individually checked before we reach the canonical chain"  *)
(* (headerchain.go): requests that start on it are not cut short by it.    *)
CanonicalNotLimited ==
    calm /\ Answered({"hash"}) /\ query.skip # 0 /\ query.origin.ours => FullAnswer(SoftLimit)
=============================================================================
