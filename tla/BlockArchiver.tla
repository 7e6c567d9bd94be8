--------------------------- MODULE BlockArchiver ---------------------------
(***************************************************************************)
(* The block archiver service of core/blockarchiver: every block this peer *)
(* serves comes from it.  A miss in the caches downloads the whole bundle  *)
(* of blocks around the one asked for and caches it; RequestLock is meant  *)
(* to keep two goroutines from downloading one bundle.  The goroutines     *)
(* (one per remote peer's handler, plus the chain's own readers) interleave *)
(* at every remote call and every acquisition of a lock.                   *)
(*                                                                         *)
(* A block is its hash.  An LRU cache is the set of its blocks: a full one *)
(* gives up any old entry for a new one, since which entry is the oldest   *)
(* depends on reads that nobody controls.  hashCache, keyed by number, is  *)
(* the set of the blocks its values name.  A range is the identity of one  *)
(* *Range; its bounds are never read again.                                *)
(***************************************************************************)
EXTENDS Naturals, FiniteSets

CONSTANTS Caller,       \* goroutines that ask for blocks
          Block,        \* block hashes
          Number,       \* [Block -> Nat]
          Archived,     \* blocks in bundles: one chain
          From, To,     \* [Height -> Nat]: the bundle GetBundleName names
          Genesis,      \* the block the database has
          Missing,      \* the nil block
          Ranges,       \* identities of *Range values
          NoRange,      \* the nil *Range
          CacheSize,    \* capacity of each cache
          MaxFailures   \* bound: remote calls or conversions that fail

Height == {Number[b] : b \in Block}

ASSUME ArchiveAssumption ==
    /\ Number \in [Block -> Nat]
    /\ Archived \subseteq Block /\ IsFiniteSet(Archived)
    /\ \A b, c \in Archived : Number[b] = Number[c] => b = c
    /\ From \in [Height -> Height] /\ To \in [Height -> Nat]
    /\ \A n \in Height : From[n] <= n /\ n <= To[n]
    /\ \A n, m \in Height : m \in From[n] .. To[n] => From[m] = From[n] /\ To[m] = To[n]
    /\ Genesis \in Block /\ Missing \notin Block
    /\ NoRange \notin Ranges
    /\ CacheSize \in Nat \ {0}

VARIABLES
    pc,           \* [Caller -> where its call is]
    number,       \* [Caller -> the block number asked for]
    hash,         \* [Caller -> {the hash asked for}, or {} for a call by number]
    answer,       \* [Caller -> block the last call returned, until the next]
    waitsFor,     \* [Caller -> the range whose done channel it waits on]
    todo,         \* [Caller -> blocks of its bundle still to cache]
    found,        \* [Caller -> the block asked for, once met in the bundle]
    rangeMap,     \* [Height -> range that starts there, or NoRange]
    lookupMap,    \* [Height -> range that holds it, or NoRange]
    done,         \* [Ranges -> is its channel closed]
    bodyCache, headerCache, hashCache,
    failures      \* failed remote calls so far (bounded)

callVars == <<pc, number, hash, answer, waitsFor, todo, found>>
lockVars == <<rangeMap, lookupMap, done>>
cacheVars == <<bodyCache, headerCache, hashCache>>
vars == <<callVars, lockVars, cacheVars, failures>>

Init ==
    /\ pc = [p \in Caller |-> "idle"]
    /\ number = [p \in Caller |-> Number[Genesis]]
    /\ hash = [p \in Caller |-> {}]
    /\ answer = [p \in Caller |-> Missing]
    /\ waitsFor = [p \in Caller |-> NoRange]
    /\ todo = [p \in Caller |-> {}]
    /\ found = [p \in Caller |-> Missing]
    /\ rangeMap = [n \in Height |-> NoRange]
    /\ lookupMap = [n \in Height |-> NoRange]
    /\ done = [r \in Ranges |-> FALSE]
    /\ bodyCache = {} /\ headerCache = {} /\ hashCache = {}
    /\ failures = 0

-----------------------------------------------------------------------------
(* The caches. *)

(* lru.Cache.Add: the contents it can leave. *)
Added(cache, b) ==
    IF b \in cache THEN {cache}
    ELSE IF Cardinality(cache) < CacheSize THEN {cache \cup {b}}
    ELSE {(cache \ {old}) \cup {b} : old \in cache}

(* The block of number n the three caches agree on. *)
CachedAt(n) ==
    {b \in hashCache \cap bodyCache \cap headerCache : Number[b] = n}

(* The call returns a, and its local variables are gone.                   *)
Returns(p, a) ==
    /\ answer' = [answer EXCEPT ![p] = a]
    /\ pc' = [pc EXCEPT ![p] = "idle"]
    /\ waitsFor' = [waitsFor EXCEPT ![p] = NoRange]
    /\ todo' = [todo EXCEPT ![p] = {}]
    /\ found' = [found EXCEPT ![p] = Missing]
    /\ number' = [number EXCEPT ![p] = Number[Genesis]]
    /\ hash' = [hash EXCEPT ![p] = {}]

Goto(p, step) ==
    /\ pc' = [pc EXCEPT ![p] = step]
    /\ UNCHANGED <<number, hash, answer, waitsFor, todo, found>>

Fails == failures < MaxFailures /\ failures' = failures + 1

-----------------------------------------------------------------------------
(* GetBlockByNumber and GetBlockByHash.  The reads of the caches at the    *)
(* head of a call are one step.                                            *)

Asks(p, n, h, step) ==
    /\ pc[p] = "idle"
    /\ pc' = [pc EXCEPT ![p] = step]
    /\ number' = [number EXCEPT ![p] = n]
    /\ hash' = [hash EXCEPT ![p] = h]
    /\ answer' = [answer EXCEPT ![p] = Missing]
    /\ UNCHANGED <<waitsFor, todo, found, lockVars, cacheVars, failures>>

GetBlockByNumber(p, n) == Asks(p, n, {}, "number")

(* The number is known once the remote node has resolved the hash. *)
GetBlockByHash(p, b) == Asks(p, Number[b], {b}, "hash")

NumberHit(p) ==
    /\ pc[p] = "number"
    /\ \E b \in CachedAt(number[p]) : Returns(p, b)
    /\ UNCHANGED <<lockVars, cacheVars, failures>>

NumberMiss(p) ==
    /\ pc[p] = "number"
    /\ CachedAt(number[p]) = {}
    /\ Goto(p, "check")
    /\ UNCHANGED <<lockVars, cacheVars, failures>>

HashHit(p) ==
    /\ pc[p] = "hash"
    /\ \E b \in hash[p] \cap bodyCache \cap headerCache : Returns(p, b)
    /\ UNCHANGED <<lockVars, cacheVars, failures>>

(* client.GetBlockByHash: the remote node knows the block, canonical or    *)
(* not; only its number is used from here on ...                           *)
HashResolved(p) ==
    /\ pc[p] = "hash"
    /\ hash[p] \cap bodyCache \cap headerCache = {}
    /\ Goto(p, "check")
    /\ UNCHANGED <<lockVars, cacheVars, failures>>

(* ... or it does not, or the call fails. *)
HashUnknown(p) ==
    /\ pc[p] = "hash"
    /\ hash[p] \cap bodyCache \cap headerCache = {}
    /\ Fails
    /\ Returns(p, Missing)
    /\ UNCHANGED <<lockVars, cacheVars>>

-----------------------------------------------------------------------------
(* getBlockByNumber: IsWithinAnyRange, then GetRangeForNumber.             *)

NotWithinAnyRange(p) ==
    /\ pc[p] = "check"
    /\ lookupMap[number[p]] = NoRange
    /\ Goto(p, "name")
    /\ UNCHANGED <<lockVars, cacheVars, failures>>

IsWithinAnyRange(p) ==
    /\ pc[p] = "check"
    /\ lookupMap[number[p]] # NoRange
    /\ Goto(p, "range")
    /\ UNCHANGED <<lockVars, cacheVars, failures>>

GetRangeForNumber(p) ==
    /\ pc[p] = "range"
    /\ pc' = [pc EXCEPT ![p] = IF lookupMap[number[p]] = NoRange THEN "name" ELSE "wait"]
    /\ waitsFor' = [waitsFor EXCEPT ![p] = lookupMap[number[p]]]
    /\ UNCHANGED <<number, hash, answer, todo, found, lockVars, cacheVars, failures>>

(* done was closed: the caches are read again ... *)
WokenHit(p) ==
    /\ pc[p] = "wait" /\ done[waitsFor[p]]
    /\ \E b \in CachedAt(number[p]) : Returns(p, b)
    /\ UNCHANGED <<lockVars, cacheVars, failures>>

(* ... and the goroutine goes on to fetch the bundle if that is no use.    *)
WokenMiss(p) ==
    /\ pc[p] = "wait" /\ done[waitsFor[p]]
    /\ CachedAt(number[p]) = {}
    /\ pc' = [pc EXCEPT ![p] = "name"]
    /\ waitsFor' = [waitsFor EXCEPT ![p] = NoRange]
    /\ UNCHANGED <<number, hash, answer, todo, found, lockVars, cacheVars, failures>>

(* GetBlockTimeout: nothing but time decides when. *)
WaitTimeout(p) ==
    /\ pc[p] = "wait"
    /\ Returns(p, Missing)
    /\ UNCHANGED <<lockVars, cacheVars, failures>>

-----------------------------------------------------------------------------
(* The fetch. *)

GetBundleName(p) ==
    /\ pc[p] = "name"
    /\ Goto(p, "add")
    /\ UNCHANGED <<lockVars, cacheVars, failures>>

GetBundleNameFails(p) ==
    /\ pc[p] = "name"
    /\ Fails
    /\ Returns(p, Missing)
    /\ UNCHANGED <<lockVars, cacheVars>>

Bundle(n) == {m \in Height : From[n] <= m /\ m <= To[n]}

(* Ranges some goroutine or map still points to; the others are garbage.   *)
Referenced ==
    {rangeMap[n] : n \in Height} \cup {lookupMap[n] : n \in Height} \cup {waitsFor[p] : p \in Caller}

NewRange == CHOOSE r \in Ranges : r \notin Referenced

(* AddRange: a range already there is overwritten. *)
AddRange(p) ==
    /\ pc[p] = "add"
    /\ Ranges \ Referenced # {}
    /\ rangeMap' = [rangeMap EXCEPT ![From[number[p]]] = NewRange]
    /\ lookupMap' = [n \in Height |-> IF n \in Bundle(number[p]) THEN NewRange ELSE lookupMap[n]]
    /\ done' = [done EXCEPT ![NewRange] = FALSE]
    /\ Goto(p, "fetch")
    /\ UNCHANGED <<cacheVars, failures>>

GetBundleBlocks(p) ==
    /\ pc[p] = "fetch"
    /\ todo' = [todo EXCEPT ![p] = {b \in Archived : Number[b] \in Bundle(number[p])}]
    /\ pc' = [pc EXCEPT ![p] = "body"]
    /\ UNCHANGED <<number, hash, answer, waitsFor, found, lockVars, cacheVars, failures>>

FetchFailsMutant(p) ==
    /\ pc[p] \in {"fetch", "body"}
    /\ pc[p] = "body" => todo[p] # {}
    /\ Fails
    /\ Returns(p, Missing)
    /\ UNCHANGED <<lockVars, cacheVars>>

(* The download fails, or convertBlock does on the next block: what was    *)
(* cached stays cached, the call returns nothing.                          *)
FetchFails(p) ==
    /\ pc[p] \in {"fetch", "body"}
    /\ pc[p] = "body" => todo[p] # {}
    /\ Fails
    /\ found' = [found EXCEPT ![p] = Missing]
    /\ todo' = [todo EXCEPT ![p] = {}]
    /\ pc' = [pc EXCEPT ![p] = "remove"]
    /\ UNCHANGED <<number, hash, answer, waitsFor, lockVars, cacheVars>>

NextBlock(p) == CHOOSE b \in todo[p] : \A c \in todo[p] : Number[b] <= Number[c]

AddBody(p) ==
    /\ pc[p] = "body"
    /\ todo[p] # {}
    /\ bodyCache' \in Added(bodyCache, NextBlock(p))
    /\ Goto(p, "header")
    /\ UNCHANGED <<lockVars, headerCache, hashCache, failures>>

AddHeader(p) ==
    /\ pc[p] = "header"
    /\ headerCache' \in Added(headerCache, NextBlock(p))
    /\ Goto(p, "numbered")
    /\ UNCHANGED <<lockVars, bodyCache, hashCache, failures>>

AddHashMutant(p) ==
    /\ pc[p] = "numbered"
    /\ hashCache' \in Added(hashCache, NextBlock(p))
    /\ found' = [found EXCEPT ![p] = NextBlock(p)]
    /\ todo' = [todo EXCEPT ![p] = @ \ {NextBlock(p)}]
    /\ pc' = [pc EXCEPT ![p] = "body"]
    /\ UNCHANGED <<number, hash, answer, waitsFor, lockVars, bodyCache, headerCache, failures>>

AddHash(p) ==
    /\ pc[p] = "numbered"
    /\ hashCache' \in Added(hashCache, NextBlock(p))
    /\ found' = [found EXCEPT ![p] = IF Number[NextBlock(p)] = number[p] THEN NextBlock(p) ELSE @]
    /\ todo' = [todo EXCEPT ![p] = @ \ {NextBlock(p)}]
    /\ pc' = [pc EXCEPT ![p] = "body"]
    /\ UNCHANGED <<number, hash, answer, waitsFor, lockVars, bodyCache, headerCache, failures>>

BundleCached(p) ==
    /\ pc[p] = "body"
    /\ todo[p] = {}
    /\ Goto(p, "remove")
    /\ UNCHANGED <<lockVars, cacheVars, failures>>

RemoveRangeMutant(p) ==
    /\ pc[p] = "remove"
    /\ LET r == rangeMap[From[number[p]]]
       IN IF r = NoRange THEN UNCHANGED lockVars
          ELSE /\ lookupMap' = [n \in Height |->
                                  IF n \in Bundle(number[p]) THEN NoRange ELSE lookupMap[n]]
               /\ done' = [done EXCEPT ![r] = TRUE]
               /\ UNCHANGED rangeMap
    /\ Returns(p, found[p])
    /\ UNCHANGED <<cacheVars, failures>>

(* The deferred RemoveRange: whatever range is registered at the start of  *)
(* the bundle, not necessarily the one this goroutine added, is dropped    *)
(* and its channel closed.                                                 *)
RemoveRange(p) ==
    /\ pc[p] = "remove"
    /\ LET r == rangeMap[From[number[p]]]
       IN IF r = NoRange THEN UNCHANGED lockVars
          ELSE /\ rangeMap' = [rangeMap EXCEPT ![From[number[p]]] = NoRange]
               /\ lookupMap' = [n \in Height |->
                                  IF n \in Bundle(number[p]) THEN NoRange ELSE lookupMap[n]]
               /\ done' = [done EXCEPT ![r] = TRUE]
    /\ Returns(p, found[p])
    /\ UNCHANGED <<cacheVars, failures>>

(* HeaderChain.GetHeader of the genesis block, the one header that comes   *)
(* from the database: it goes into the shared headerCache.                 *)
GetGenesisHeader ==
    /\ headerCache' \in Added(headerCache, Genesis)
    /\ UNCHANGED <<callVars, lockVars, bodyCache, hashCache, failures>>

-----------------------------------------------------------------------------
Lookup(p) ==
    \/ NumberHit(p) \/ NumberMiss(p) \/ HashHit(p) \/ HashResolved(p) \/ HashUnknown(p)
    \/ NotWithinAnyRange(p) \/ IsWithinAnyRange(p) \/ GetRangeForNumber(p)
    \/ WokenHit(p) \/ WokenMiss(p) \/ WaitTimeout(p)

Fetch(p) ==
    \/ GetBundleName(p) \/ GetBundleNameFails(p) \/ AddRange(p)
    \/ GetBundleBlocks(p) \/ FetchFails(p)
    \/ AddBody(p) \/ AddHeader(p) \/ AddHash(p) \/ BundleCached(p) \/ RemoveRange(p)

Next ==
    \/ \E p \in Caller, n \in Height : GetBlockByNumber(p, n)
    \/ \E p \in Caller, b \in Block : GetBlockByHash(p, b)
    \/ \E p \in Caller : Lookup(p) \/ Fetch(p)
    \/ GetGenesisHeader

(* A goroutine inside a call keeps running: every remote call has a        *)
(* timeout (RPCTimeout), the wait has GetBlockTimeout, and the locks are   *)
(* held for a few map operations only.                                     *)
Fairness == \A p \in Caller : WF_vars(Lookup(p) \/ Fetch(p))

Spec == Init /\ [][Next]_vars /\ Fairness

-----------------------------------------------------------------------------
(* Type invariant: the caches and the locals of every call hold blocks of  *)
(* bundles; only headerCache may also hold the genesis header.             *)
TypeOK ==
    /\ pc \in [Caller -> {"idle", "number", "hash", "check", "range", "wait", "name", "add",
                         "fetch", "body", "header", "numbered", "remove"}]
    /\ number \in [Caller -> Height]
    /\ hash \in [Caller -> SUBSET Block]
    /\ answer \in [Caller -> Block \cup {Missing}]
    /\ waitsFor \in [Caller -> Ranges \cup {NoRange}]
    /\ todo \in [Caller -> SUBSET Archived]
    /\ found \in [Caller -> Archived \cup {Missing}]
    /\ rangeMap \in [Height -> Ranges \cup {NoRange}]
    /\ lookupMap \in [Height -> Ranges \cup {NoRange}]
    /\ done \in [Ranges -> BOOLEAN]
    /\ bodyCache \subseteq Archived /\ hashCache \subseteq Archived
    /\ headerCache \subseteq Archived \cup {Genesis}
    /\ failures \in Nat

(* The goroutine has added its range and not yet run its deferred          *)
(* RemoveRange.                                                            *)
Fetching(p) == pc[p] \in {"fetch", "body", "header", "numbered", "remove"}

(* However fetches of a bundle overlap and fail, RemoveRange never closes  *)
(* a channel that is closed (which would panic): a registered range is     *)
(* open.                                                                   *)
RegisteredRangesOpen ==
    \A n \in Height : rangeMap[n] # NoRange => ~done[rangeMap[n]]

(* No range outlives the fetches of its bundle: else each later request    *)
(* for one of its blocks would wait out GetBlockTimeout and fail, until    *)
(* the process ends.                                                       *)
NoRangeLeaks ==
    \A n \in Height : lookupMap[n] # NoRange =>
        \E p \in Caller : Fetching(p) /\ n \in Bundle(number[p])

(* rangeMap and lookupMap never disagree, although a second AddRange       *)
(* overwrites both and each RemoveRange deletes what another goroutine put *)
(* there.                                                                  *)
MapsAgree == \A n \in Height : lookupMap[n] = rangeMap[From[n]]

(* A woken waiter finds its block in the caches ("wait for a while and     *)
(* fetch from the cache") and does not download the bundle once more,      *)
(* unless a remote call failed or the caches are too small; also when the  *)
(* range it waits on was closed by another goroutine than the one that     *)
(* added it.                                                               *)
WaitersServedFromCache ==
    [][\A p \in Caller :
          pc[p] = "wait" /\ pc'[p] = "name" =>
             \/ failures > 0
             \/ Cardinality(Archived) >= CacheSize
             \/ ~\E b \in Archived : Number[b] = number[p]]_vars

(* A call is pending from its first step to its return.                    *)
Promise ==
    INSTANCE BlockService WITH pending <- [p \in Caller |-> IF pc[p] = "idle" THEN {} ELSE {number[p]}]

(* The service keeps its promise: every call of GetBlockByNumber and       *)
(* GetBlockByHash returns, with nothing or with the archived block of the  *)
(* number asked for.                                                       *)
ImplementsBlockService == Promise!Spec

(* The part of the promise that is about the answers: a call returns once, *)
(* and with nothing or the archived block of the number it asked for, by   *)
(* whichever of the paths through caches, waiting and fetching it went.    *)
AnswersAsPromised == Promise!Init /\ [][Promise!Next]_(Promise!vars)

(* "requestLock is a lock to avoid concurrent fetching of the same bundle  *)
(* of blocks" (service.go).                                                *)
BundleFetchedOnce ==
    \A p, q \in Caller :
        pc[p] = "fetch" /\ pc[q] = "fetch" /\ From[number[p]] = From[number[q]] => p = q

(* "done is a channel closed when the range is removed" (types.go): nobody *)
(* waits on an open channel of a range that is in no map any more.         *)
RemovedRangeDone ==
    \A p \in Caller :
        pc[p] = "wait" /\ (\A n \in Height : rangeMap[n] # waitsFor[p]) => done[waitsFor[p]]

(* "the specified block is always read and write simultaneously in         *)
(* bodyCache and headerCache" (service.go): whenever no goroutine is       *)
(* between the two Adds, they hold the same blocks.                        *)
BodyAndHeaderTogether ==
    (\A p \in Caller : pc[p] # "header") => bodyCache = headerCache

(* "GetBlockByHash returns the block by hash" (service.go).                *)
HashAnswered ==
    [][\A p \in Caller :
          hash[p] # {} /\ pc'[p] = "idle" => answer'[p] \in hash[p] \cup {Missing}]_vars
=============================================================================
