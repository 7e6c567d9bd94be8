------------------------ MODULE BlockArchiverProofs ------------------------
(***************************************************************************)
(* Proofs about the block archiver service, for any number of goroutines,  *)
(* blocks, bundles and failures and any cache size: the request lock never *)
(* leaks a range nor closes a channel twice, and every answer is what      *)
(* BlockService promises.                                                  *)
(***************************************************************************)
EXTENDS BlockArchiver, TLAPS, FiniteSetTheorems, NaturalsInduction, WellFoundedInduction

(* Only the first height of a bundle has an entry in rangeMap, and no two  *)
(* heights share one.                                                      *)
RangesStartBundles ==
    \A n \in Height : rangeMap[n] # NoRange =>
        /\ From[n] = n
        /\ \A m \in Height : rangeMap[m] = rangeMap[n] => m = n

(* The local state of the goroutines: a waiter has a range to wait on, the *)
(* loop over the bundle has a block in hand, and what a fetch has found    *)
(* has the number asked for.                                               *)
CallsConsistent ==
    \A p \in Caller :
        /\ pc[p] = "wait" => waitsFor[p] # NoRange
        /\ pc[p] \in {"header", "numbered"} => todo[p] # {}
        /\ found[p] # Missing => Fetching(p) /\ Number[found[p]] = number[p]
        /\ \A b \in hash[p] : Number[b] = number[p]

IInv ==
    /\ TypeOK
    /\ MapsAgree
    /\ RegisteredRangesOpen
    /\ NoRangeLeaks
    /\ RangesStartBundles
    /\ CallsConsistent

(* A step that ends no fetch.                                              *)
FetchesGoOn ==
    \A q \in Caller : Fetching(q) => Fetching(q)' /\ number'[q] = number[q]

-----------------------------------------------------------------------------
(* The loop over a bundle takes a block that is left in it.                *)
LEMMA NextBlockLeft ==
    ASSUME TypeOK, NEW p \in Caller, todo[p] # {}
    PROVE  NextBlock(p) \in todo[p] /\ NextBlock(p) \in Archived /\ NextBlock(p) \in Block
<1> DEFINE N == {Number[b] : b \in todo[p]}
           R == {ss \in Nat \X Nat : ss[1] < ss[2]}
<1>1. todo[p] \subseteq Archived /\ Archived \subseteq Block
  BY ArchiveAssumption DEF TypeOK
<1>2. N \subseteq Nat /\ N # {}
  BY <1>1, ArchiveAssumption
<1>3. IsWellFoundedOn(R, Nat)
  BY NatLessThanWellFounded DEF OpToRel
<1>4. \A x, y \in Nat : <<y, x>> \in R <=> y < x
  OBVIOUS
<1> HIDE DEF R
<1>5. PICK x \in N : \A y \in N : ~(<<y, x>> \in R)
  BY <1>2, <1>3, WFMin
<1>6. PICK b \in todo[p] : x = Number[b]
  OBVIOUS
<1>7. \A c \in todo[p] : Number[b] <= Number[c]
  <2> SUFFICES ASSUME NEW c \in todo[p] PROVE Number[b] <= Number[c]
    OBVIOUS
  <2>1. Number[c] \in N /\ Number[c] \in Nat /\ Number[b] \in Nat
    BY <1>1, ArchiveAssumption
  <2>2. ~(Number[c] < Number[b])
    BY <2>1, <1>4, <1>5, <1>6
  <2> QED
    BY <2>1, <2>2
<1> QED
  BY <1>1, <1>7 DEF NextBlock

(* What an LRU cache holds after an Add was there before, or was added.    *)
LEMMA AddedContents ==
    ASSUME NEW cache, NEW b, NEW next \in Added(cache, b)
    PROVE  next \subseteq cache \cup {b}
BY DEF Added

(* The height of a bundle's first block, and the heights it holds.         *)
LEMMA BundleFacts ==
    ASSUME NEW n \in Height
    PROVE  /\ From[n] \in Height /\ From[n] \in Bundle(n) /\ n \in Bundle(n)
           /\ From[From[n]] = From[n]
           /\ \A m \in Height : m \in Bundle(n) <=> From[m] = From[n]
<1>1. /\ n \in Nat /\ From[n] \in Height /\ From[n] \in Nat /\ To[n] \in Nat
      /\ From[n] <= n /\ n <= To[n]
  BY ArchiveAssumption DEF Height
<1>2. ASSUME NEW m \in Height, m \in Bundle(n) PROVE From[m] = From[n]
  <2>1. m \in Nat
    BY ArchiveAssumption DEF Height
  <2>2. m \in From[n] .. To[n]
    BY <1>1, <1>2, <2>1 DEF Bundle
  <2> QED
    BY <2>2, ArchiveAssumption
<1>3. From[n] \in Bundle(n) /\ n \in Bundle(n)
  BY <1>1 DEF Bundle
<1>4. From[From[n]] = From[n]
  BY <1>1, <1>2, <1>3
<1>5. ASSUME NEW m \in Height, From[m] = From[n] PROVE m \in Bundle(n)
  <2>1. /\ m \in Nat /\ From[m] \in Height /\ From[m] \in Nat /\ To[m] \in Nat
        /\ From[m] <= m /\ m <= To[m]
    BY ArchiveAssumption DEF Height
  <2>2. To[From[n]] = To[n] /\ To[From[m]] = To[m]
    <3>1. From[n] \in From[n] .. To[n] /\ From[m] \in From[m] .. To[m]
      BY <1>1, <2>1
    <3> QED
      BY <1>1, <2>1, <3>1, ArchiveAssumption
  <2> QED
    BY <1>1, <1>5, <2>1, <2>2 DEF Bundle
<1> QED
  BY <1>1, <1>2, <1>3, <1>4, <1>5

(* The empty caches and the idle goroutines satisfy the invariant.         *)
LEMMA InitHolds ==
    ASSUME Init
    PROVE  IInv
<1>1. Genesis \in Block /\ Number[Genesis] \in Height
  BY ArchiveAssumption DEF Height
<1>2. TypeOK
  BY <1>1 DEF Init, TypeOK
<1>3. MapsAgree
  BY ArchiveAssumption DEF Init, MapsAgree
<1>4. RegisteredRangesOpen /\ NoRangeLeaks /\ RangesStartBundles /\ CallsConsistent
  BY DEF Init, RegisteredRangesOpen, NoRangeLeaks, RangesStartBundles, CallsConsistent
<1> QED
  BY <1>2, <1>3, <1>4 DEF IInv

(* A goroutine that starts a call.                                         *)
LEMMA AskStep ==
    ASSUME IInv, NEW p \in Caller,
           \/ \E n \in Height : GetBlockByNumber(p, n)
           \/ \E b \in Block : GetBlockByHash(p, b)
    PROVE  TypeOK' /\ CallsConsistent' /\ FetchesGoOn /\ UNCHANGED lockVars
<1>1. PICK n \in Height, h \in SUBSET Block, step \in {"number", "hash"} :
         Asks(p, n, h, step) /\ \A b \in h : Number[b] = n
  <2>1. CASE \E n \in Height : GetBlockByNumber(p, n)
    BY <2>1 DEF GetBlockByNumber
  <2>2. CASE \E b \in Block : GetBlockByHash(p, b)
    <3>1. PICK b \in Block : GetBlockByHash(p, b)
      BY <2>2
    <3>2. Number[b] \in Height /\ {b} \in SUBSET Block
      BY DEF Height
    <3> QED
      BY <3>1, <3>2 DEF GetBlockByHash
  <2> QED
    BY <2>1, <2>2
<1>2. TypeOK'
  BY <1>1 DEF Asks, IInv, TypeOK, lockVars, cacheVars
<1>3. CallsConsistent'
  <2> SUFFICES ASSUME NEW q \in Caller
               PROVE /\ pc'[q] = "wait" => waitsFor'[q] # NoRange
                     /\ pc'[q] \in {"header", "numbered"} => todo'[q] # {}
                     /\ found'[q] # Missing => Fetching(q)' /\ Number[found'[q]] = number'[q]
                     /\ \A b \in hash'[q] : Number[b] = number'[q]
    BY DEF CallsConsistent
  <2>1. CASE q # p
    BY <1>1, <2>1 DEF Asks, IInv, TypeOK, CallsConsistent, Fetching
  <2>2. CASE q = p
    <3>1. found[p] = Missing
      BY <1>1 DEF Asks, IInv, CallsConsistent, Fetching
    <3> QED
      BY <1>1, <2>2, <3>1 DEF Asks, IInv, TypeOK
  <2> QED
    BY <2>1, <2>2
<1> QED
  BY <1>1, <1>2, <1>3 DEF Asks, IInv, TypeOK, Fetching, FetchesGoOn, lockVars

(* A call that is not fetching returns; its locals are reset.              *)
LEMMA ReturnStep ==
    ASSUME IInv, NEW p \in Caller, ~Fetching(p), NEW a \in Block \cup {Missing}, Returns(p, a),
           UNCHANGED <<lockVars, cacheVars>>, failures' \in Nat
    PROVE  TypeOK' /\ CallsConsistent' /\ FetchesGoOn /\ UNCHANGED lockVars
<1>1. Number[Genesis] \in Height /\ Missing \in Archived \cup {Missing}
  BY ArchiveAssumption DEF Height
<1>2. TypeOK'
  BY <1>1 DEF Returns, IInv, TypeOK, lockVars, cacheVars
<1>3. CallsConsistent'
  BY DEF Returns, IInv, TypeOK, CallsConsistent, Fetching
<1>4. FetchesGoOn
  BY DEF Returns, IInv, TypeOK, Fetching, FetchesGoOn
<1> QED
  BY <1>2, <1>3, <1>4

(* A step that only moves a goroutine on, to wait or to fetch.             *)
LEMMA LookupStep ==
    ASSUME IInv, NEW p \in Caller, Lookup(p)
    PROVE  TypeOK' /\ CallsConsistent' /\ FetchesGoOn /\ UNCHANGED lockVars
<1>0. number[p] \in Height
  BY DEF IInv, TypeOK
<1>1. CASE NumberHit(p) \/ WokenHit(p)
  <2>1. PICK b \in CachedAt(number[p]) : Returns(p, b)
    BY <1>1 DEF NumberHit, WokenHit
  <2>2. b \in Block /\ ~Fetching(p) /\ UNCHANGED <<lockVars, cacheVars>> /\ failures' \in Nat
    BY <1>1, ArchiveAssumption DEF NumberHit, WokenHit, CachedAt, IInv, TypeOK, Fetching
  <2> QED
    BY <2>1, <2>2, ReturnStep
<1>2. CASE HashHit(p)
  <2>1. PICK b \in hash[p] \cap bodyCache \cap headerCache : Returns(p, b)
    BY <1>2 DEF HashHit
  <2>2. b \in Block /\ ~Fetching(p) /\ UNCHANGED <<lockVars, cacheVars>> /\ failures' \in Nat
    BY <1>2, ArchiveAssumption DEF HashHit, IInv, TypeOK, Fetching
  <2> QED
    BY <2>1, <2>2, ReturnStep
<1>3. CASE HashUnknown(p) \/ WaitTimeout(p)
  <2>1. Returns(p, Missing)
    BY <1>3 DEF HashUnknown, WaitTimeout
  <2>2. ~Fetching(p) /\ UNCHANGED <<lockVars, cacheVars>>
    BY <1>3 DEF HashUnknown, WaitTimeout, Fetching
  <2>3. failures' \in Nat
    <3>1. failures \in Nat /\ (failures' = failures \/ failures' = failures + 1)
      BY <1>3 DEF HashUnknown, WaitTimeout, Fails, IInv, TypeOK
    <3> QED
      BY <3>1
  <2> QED
    BY <2>1, <2>2, <2>3, ReturnStep
<1>4. CASE NumberMiss(p) \/ HashResolved(p) \/ NotWithinAnyRange(p) \/ IsWithinAnyRange(p)
  <2>1. PICK step \in {"check", "name", "range"} :
           Goto(p, step) /\ ~Fetching(p) /\ UNCHANGED <<lockVars, cacheVars, failures>>
    BY <1>4 DEF NumberMiss, HashResolved, NotWithinAnyRange, IsWithinAnyRange, Fetching
  <2>2. TypeOK'
    BY <2>1 DEF Goto, IInv, TypeOK, lockVars, cacheVars
  <2>3. CallsConsistent' /\ FetchesGoOn
    BY <2>1 DEF Goto, IInv, TypeOK, CallsConsistent, Fetching, FetchesGoOn
  <2> QED
    BY <2>1, <2>2, <2>3
<1>5. CASE GetRangeForNumber(p)
  <2>1. TypeOK'
    BY <1>0, <1>5 DEF GetRangeForNumber, IInv, TypeOK, lockVars, cacheVars
  <2>2. CallsConsistent' /\ FetchesGoOn
    BY <1>5 DEF GetRangeForNumber, IInv, TypeOK, CallsConsistent, Fetching, FetchesGoOn
  <2> QED
    BY <1>5, <2>1, <2>2 DEF GetRangeForNumber
<1>6. CASE WokenMiss(p)
  <2>1. TypeOK'
    BY <1>6 DEF WokenMiss, IInv, TypeOK, lockVars, cacheVars
  <2>2. CallsConsistent' /\ FetchesGoOn
    BY <1>6 DEF WokenMiss, IInv, TypeOK, CallsConsistent, Fetching, FetchesGoOn
  <2> QED
    BY <1>6, <2>1, <2>2 DEF WokenMiss
<1> QED
  BY <1>1, <1>2, <1>3, <1>4, <1>5, <1>6 DEF Lookup

(* The steps of a fetch between AddRange and RemoveRange.                  *)
LEMMA FetchStep ==
    ASSUME IInv, NEW p \in Caller, Fetch(p), ~AddRange(p), ~RemoveRange(p)
    PROVE  TypeOK' /\ CallsConsistent' /\ FetchesGoOn /\ UNCHANGED lockVars
<1>0. number[p] \in Height
  BY DEF IInv, TypeOK
<1>1. CASE GetBundleNameFails(p)
  <2>1. Returns(p, Missing) /\ ~Fetching(p) /\ UNCHANGED <<lockVars, cacheVars>>
    BY <1>1 DEF GetBundleNameFails, Fetching
  <2>2. failures' \in Nat
    <3>1. failures \in Nat /\ failures' = failures + 1
      BY <1>1 DEF GetBundleNameFails, Fails, IInv, TypeOK
    <3> QED
      BY <3>1
  <2> QED
    BY <2>1, <2>2, ReturnStep
<1>2. CASE GetBundleName(p) \/ BundleCached(p)
  <2>1. PICK step \in {"add", "remove"} :
           /\ Goto(p, step) /\ (Fetching(p) => step = "remove")
           /\ UNCHANGED <<lockVars, cacheVars, failures>>
    BY <1>2 DEF GetBundleName, BundleCached, Fetching
  <2>2. TypeOK'
    BY <2>1 DEF Goto, IInv, TypeOK, lockVars, cacheVars
  <2>3. CallsConsistent' /\ FetchesGoOn
    BY <2>1 DEF Goto, IInv, TypeOK, CallsConsistent, Fetching, FetchesGoOn
  <2> QED
    BY <2>1, <2>2, <2>3
<1>3. CASE GetBundleBlocks(p)
  <2>1. TypeOK'
    BY <1>3 DEF GetBundleBlocks, IInv, TypeOK, lockVars, cacheVars
  <2>2. CallsConsistent' /\ FetchesGoOn
    BY <1>3 DEF GetBundleBlocks, IInv, TypeOK, CallsConsistent, Fetching, FetchesGoOn
  <2> QED
    BY <1>3, <2>1, <2>2 DEF GetBundleBlocks
<1>4. CASE FetchFails(p)
  <2>1. failures' \in Nat
    <3>1. failures \in Nat /\ failures' = failures + 1
      BY <1>4 DEF FetchFails, Fails, IInv, TypeOK
    <3> QED
      BY <3>1
  <2>2. TypeOK'
    BY <1>4, <2>1 DEF FetchFails, IInv, TypeOK, lockVars, cacheVars
  <2>3. CallsConsistent' /\ FetchesGoOn
    BY <1>4 DEF FetchFails, IInv, TypeOK, CallsConsistent, Fetching, FetchesGoOn
  <2> QED
    BY <1>4, <2>2, <2>3 DEF FetchFails
<1>5. CASE AddBody(p) \/ AddHeader(p)
  <2>1. todo[p] # {}
    BY <1>5 DEF AddBody, AddHeader, IInv, CallsConsistent
  <2>2. NextBlock(p) \in Archived
    BY <2>1, NextBlockLeft DEF IInv
  <2>3. bodyCache' \subseteq Archived /\ hashCache' \subseteq Archived
        /\ headerCache' \subseteq Archived \cup {Genesis}
    <3>1. CASE AddBody(p)
      <4>1. bodyCache' \in Added(bodyCache, NextBlock(p)) /\ UNCHANGED <<headerCache, hashCache>>
        BY <3>1 DEF AddBody
      <4>2. bodyCache' \subseteq bodyCache \cup {NextBlock(p)}
        BY <4>1, AddedContents
      <4> QED
        BY <2>2, <4>1, <4>2 DEF IInv, TypeOK
    <3>2. CASE AddHeader(p)
      <4>1. headerCache' \in Added(headerCache, NextBlock(p)) /\ UNCHANGED <<bodyCache, hashCache>>
        BY <3>2 DEF AddHeader
      <4>2. headerCache' \subseteq headerCache \cup {NextBlock(p)}
        BY <4>1, AddedContents
      <4> QED
        BY <2>2, <4>1, <4>2 DEF IInv, TypeOK
    <3> QED
      BY <1>5, <3>1, <3>2
  <2>4. PICK step \in {"header", "numbered"} :
           Goto(p, step) /\ Fetching(p) /\ UNCHANGED <<lockVars, failures>>
    BY <1>5 DEF AddBody, AddHeader, Fetching
  <2>5. TypeOK'
    BY <2>3, <2>4 DEF Goto, IInv, TypeOK, lockVars
  <2>6. CallsConsistent' /\ FetchesGoOn
    BY <2>1, <2>4 DEF Goto, IInv, TypeOK, CallsConsistent, Fetching, FetchesGoOn
  <2> QED
    BY <2>4, <2>5, <2>6
<1>6. CASE AddHash(p)
  <2>1. todo[p] # {}
    BY <1>6 DEF AddHash, IInv, CallsConsistent
  <2>2. NextBlock(p) \in Archived
    BY <2>1, NextBlockLeft DEF IInv
  <2>3. hashCache' \subseteq Archived
    <3>1. hashCache' \in Added(hashCache, NextBlock(p))
      BY <1>6 DEF AddHash
    <3>2. hashCache' \subseteq hashCache \cup {NextBlock(p)}
      BY <3>1, AddedContents
    <3> QED
      BY <2>2, <3>2 DEF IInv, TypeOK
  <2>4. TypeOK'
    BY <1>6, <2>2, <2>3 DEF AddHash, IInv, TypeOK, lockVars
  <2>5. CallsConsistent' /\ FetchesGoOn
    BY <1>6, <2>2 DEF AddHash, IInv, TypeOK, CallsConsistent, Fetching, FetchesGoOn
  <2> QED
    BY <1>6, <2>4, <2>5 DEF AddHash
<1> QED
  BY <1>1, <1>2, <1>3, <1>4, <1>5, <1>6 DEF Fetch

(* A step that leaves the maps alone and ends no fetch keeps the lock's    *)
(* invariants.                                                             *)
LEMMA LockKept ==
    ASSUME IInv, FetchesGoOn, UNCHANGED lockVars
    PROVE  MapsAgree' /\ RegisteredRangesOpen' /\ NoRangeLeaks' /\ RangesStartBundles'
<1>1. MapsAgree' /\ RegisteredRangesOpen' /\ RangesStartBundles'
  BY DEF IInv, lockVars, MapsAgree, RegisteredRangesOpen, RangesStartBundles
<1>2. NoRangeLeaks'
  <2> SUFFICES ASSUME NEW n \in Height, lookupMap'[n] # NoRange
               PROVE \E p \in Caller : Fetching(p)' /\ n \in Bundle(number'[p])
    BY DEF NoRangeLeaks, Bundle
  <2>1. PICK p \in Caller : Fetching(p) /\ n \in Bundle(number[p])
    BY DEF IInv, lockVars, NoRangeLeaks
  <2>2. Fetching(p)' /\ number'[p] = number[p]
    BY <2>1 DEF FetchesGoOn
  <2> QED
    BY <2>1, <2>2
<1> QED
  BY <1>1, <1>2

(* AddRange registers an open range for its bundle, in place of the one    *)
(* that may be there.                                                      *)
LEMMA AddRangeStep ==
    ASSUME IInv, NEW p \in Caller, AddRange(p)
    PROVE  IInv'
<1> DEFINE r == NewRange
           f == From[number[p]]
<1>0. number[p] \in Height /\ f \in Height /\ pc[p] = "add"
  BY BundleFacts DEF IInv, TypeOK, AddRange
<1>1. r \in Ranges /\ r \notin Referenced
  BY DEF AddRange, NewRange
<1>2. r # NoRange /\ (\A n \in Height : rangeMap[n] # r /\ lookupMap[n] # r)
  BY <1>1, ArchiveAssumption DEF Referenced
<1>3. /\ rangeMap' = [rangeMap EXCEPT ![f] = r]
      /\ lookupMap' = [n \in Height |-> IF n \in Bundle(number[p]) THEN r ELSE lookupMap[n]]
      /\ done' = [done EXCEPT ![r] = FALSE]
      /\ pc' = [pc EXCEPT ![p] = "fetch"]
      /\ UNCHANGED <<number, hash, answer, waitsFor, todo, found, cacheVars, failures>>
  BY DEF AddRange, Goto
<1> HIDE DEF r
<1>4. TypeOK'
  BY <1>0, <1>1, <1>3 DEF IInv, TypeOK, cacheVars
<1>5. CallsConsistent'
  BY <1>0, <1>3 DEF IInv, TypeOK, CallsConsistent, Fetching
<1>6. \A n \in Height : rangeMap'[n] = IF n = f THEN r ELSE rangeMap[n]
  BY <1>0, <1>3 DEF IInv, TypeOK
<1>7. \A n \in Height : lookupMap'[n] = IF From[n] = f THEN r ELSE lookupMap[n]
  <2>1. \A n \in Height : n \in Bundle(number[p]) <=> From[n] = f
    BY <1>0, BundleFacts
  <2> QED
    BY <1>3, <2>1
<1>8. MapsAgree'
  BY <1>0, <1>6, <1>7, BundleFacts DEF IInv, MapsAgree
<1>9. RegisteredRangesOpen'
  <2> SUFFICES ASSUME NEW n \in Height, rangeMap'[n] # NoRange PROVE ~done'[rangeMap'[n]]
    BY DEF RegisteredRangesOpen
  <2>1. ~done'[r]
    BY <1>1, <1>3 DEF IInv, TypeOK
  <2>2. CASE n = f
    BY <1>6, <2>1, <2>2
  <2>3. CASE n # f
    <3>1. rangeMap'[n] = rangeMap[n] /\ rangeMap[n] # r /\ rangeMap[n] \in Ranges
      BY <1>2, <1>6, <2>3 DEF IInv, TypeOK
    <3>2. done'[rangeMap[n]] = done[rangeMap[n]]
      BY <1>3, <3>1 DEF IInv, TypeOK
    <3> QED
      BY <3>1, <3>2, ArchiveAssumption DEF IInv, RegisteredRangesOpen
  <2> QED
    BY <2>2, <2>3
<1>10. RangesStartBundles'
  BY <1>0, <1>2, <1>6, BundleFacts DEF IInv, RangesStartBundles
<1>11. NoRangeLeaks'
  <2> SUFFICES ASSUME NEW n \in Height, lookupMap'[n] # NoRange
               PROVE \E q \in Caller : Fetching(q)' /\ n \in Bundle(number'[q])
    BY DEF NoRangeLeaks, Bundle
  <2>1. CASE From[n] = f
    <3>1. Fetching(p)' /\ number'[p] = number[p]
      BY <1>0, <1>3 DEF Fetching, IInv, TypeOK
    <3> QED
      BY <1>0, <2>1, <3>1, BundleFacts
  <2>2. CASE From[n] # f
    <3>1. lookupMap[n] # NoRange
      BY <1>7, <2>2
    <3>2. PICK q \in Caller : Fetching(q) /\ n \in Bundle(number[q])
      BY <3>1 DEF IInv, NoRangeLeaks
    <3>3. Fetching(q)' /\ number'[q] = number[q]
      BY <1>0, <1>3, <3>2 DEF Fetching, IInv, TypeOK
    <3> QED
      BY <3>2, <3>3
  <2> QED
    BY <2>1, <2>2
<1> QED
  BY <1>4, <1>5, <1>8, <1>9, <1>10, <1>11 DEF IInv

(* RemoveRange clears its bundle, whoever's range was registered; another  *)
(* bundle's range still has its fetch.                                     *)
LEMMA RemoveRangeStep ==
    ASSUME IInv, NEW p \in Caller, RemoveRange(p)
    PROVE  IInv'
<1> DEFINE f == From[number[p]]
           r == rangeMap[f]
<1>0. number[p] \in Height /\ f \in Height /\ pc[p] = "remove"
  BY BundleFacts DEF IInv, TypeOK, RemoveRange
<1>1. Returns(p, found[p]) /\ UNCHANGED <<cacheVars, failures>>
  BY DEF RemoveRange
<1>2. r \in Ranges \cup {NoRange} /\ Number[Genesis] \in Height
  BY <1>0, ArchiveAssumption DEF IInv, TypeOK, Height
<1>3. \A n \in Height : rangeMap'[n] = IF n = f THEN NoRange ELSE rangeMap[n]
  BY <1>0 DEF RemoveRange, IInv, TypeOK, lockVars
<1>4. \A n \in Height : lookupMap'[n] = IF From[n] = f THEN NoRange ELSE lookupMap[n]
  <2>1. CASE r = NoRange
    BY <1>0, <2>1 DEF RemoveRange, lockVars, IInv, MapsAgree
  <2>2. CASE r # NoRange
    BY <1>0, <2>2, BundleFacts DEF RemoveRange
  <2> QED
    BY <2>1, <2>2
<1>5. done' \in [Ranges -> BOOLEAN] /\ \A x \in Ranges : x # r => done'[x] = done[x]
  BY <1>2 DEF RemoveRange, IInv, TypeOK, lockVars
<1>6. TypeOK'
  <2>1. rangeMap' \in [Height -> Ranges \cup {NoRange}] /\ lookupMap' \in [Height -> Ranges \cup {NoRange}]
    BY <1>0 DEF RemoveRange, IInv, TypeOK, lockVars
  <2>2. found[p] \in Block \cup {Missing}
    BY ArchiveAssumption DEF IInv, TypeOK
  <2> QED
    BY <1>1, <1>2, <1>5, <2>1, <2>2 DEF Returns, IInv, TypeOK, cacheVars
<1>7. CallsConsistent'
  BY <1>1 DEF Returns, IInv, TypeOK, CallsConsistent, Fetching
<1>8. MapsAgree'
  BY <1>0, <1>3, <1>4, BundleFacts DEF IInv, MapsAgree
<1>9. RegisteredRangesOpen'
  <2> SUFFICES ASSUME NEW n \in Height, rangeMap'[n] # NoRange PROVE ~done'[rangeMap'[n]]
    BY DEF RegisteredRangesOpen
  <2>1. n # f /\ rangeMap'[n] = rangeMap[n] /\ rangeMap[n] \in Ranges
    BY <1>3 DEF IInv, TypeOK
  <2>2. rangeMap[n] # r
    BY <1>0, <2>1, ArchiveAssumption DEF IInv, RangesStartBundles
  <2> QED
    BY <1>5, <2>1, <2>2, ArchiveAssumption DEF IInv, RegisteredRangesOpen
<1>10. RangesStartBundles'
  BY <1>0, <1>3 DEF IInv, RangesStartBundles
<1>11. NoRangeLeaks'
  <2> SUFFICES ASSUME NEW n \in Height, lookupMap'[n] # NoRange
               PROVE \E q \in Caller : Fetching(q)' /\ n \in Bundle(number'[q])
    BY DEF NoRangeLeaks, Bundle
  <2>1. From[n] # f /\ lookupMap[n] # NoRange
    BY <1>4
  <2>2. PICK q \in Caller : Fetching(q) /\ n \in Bundle(number[q])
    BY <2>1 DEF IInv, NoRangeLeaks
  <2>3. q # p
    BY <1>0, <2>1, <2>2, BundleFacts
  <2>4. Fetching(q)' /\ number'[q] = number[q]
    BY <1>1, <2>2, <2>3 DEF Returns, Fetching, IInv, TypeOK
  <2> QED
    BY <2>2, <2>4
<1> QED
  BY <1>6, <1>7, <1>8, <1>9, <1>10, <1>11 DEF IInv

(* Every step of GetBlockByNumber, GetBlockByHash and getBundleBlocks      *)
(* keeps the invariant.                                                    *)
LEMMA StepHolds ==
    ASSUME IInv, [Next]_vars
    PROVE  IInv'
<1>1. ASSUME NEW p \in Caller, AddRange(p) PROVE IInv'
  BY <1>1, AddRangeStep
<1>2. ASSUME NEW p \in Caller, RemoveRange(p) PROVE IInv'
  BY <1>2, RemoveRangeStep
<1>3. ASSUME TypeOK', CallsConsistent', FetchesGoOn, UNCHANGED lockVars PROVE IInv'
  BY <1>3, LockKept DEF IInv
<1>4. ASSUME NEW p \in Caller, \E n \in Height : GetBlockByNumber(p, n) PROVE IInv'
  BY <1>3, <1>4, AskStep
<1>5. ASSUME NEW p \in Caller, \E b \in Block : GetBlockByHash(p, b) PROVE IInv'
  BY <1>3, <1>5, AskStep
<1>6. ASSUME NEW p \in Caller, Lookup(p) PROVE IInv'
  BY <1>3, <1>6, LookupStep
<1>7. ASSUME NEW p \in Caller, Fetch(p), ~AddRange(p), ~RemoveRange(p) PROVE IInv'
  BY <1>3, <1>7, FetchStep
<1>8. CASE GetGenesisHeader
  <2>1. headerCache' \subseteq headerCache \cup {Genesis}
    BY <1>8, AddedContents DEF GetGenesisHeader
  <2>2. TypeOK' /\ CallsConsistent' /\ FetchesGoOn /\ UNCHANGED lockVars
    BY <1>8, <2>1 DEF GetGenesisHeader, callVars, lockVars, IInv, TypeOK, CallsConsistent,
       FetchesGoOn, Fetching
  <2> QED
    BY <1>3, <2>2
<1>9. CASE UNCHANGED vars
  <2>1. TypeOK' /\ CallsConsistent' /\ FetchesGoOn /\ UNCHANGED lockVars
    BY <1>9 DEF vars, callVars, lockVars, cacheVars, IInv, TypeOK, CallsConsistent,
       FetchesGoOn, Fetching
  <2> QED
    BY <1>3, <2>1
<1> QED
  BY <1>1, <1>2, <1>4, <1>5, <1>6, <1>7, <1>8, <1>9 DEF Next

(* The inductive invariant holds in every reachable state.                 *)
THEOREM ArchiverInvariant == Spec => []IInv
<1>1. Init => IInv
  BY InitHolds
<1>2. IInv /\ [Next]_vars => IInv'
  BY StepHolds
<1> QED
  BY <1>1, <1>2, PTL DEF Spec

(* Type correctness of the calls, the request lock and the caches; the     *)
(* caches only ever hold blocks of the archived chain (and the genesis     *)
(* header).                                                                *)
THEOREM ArchiverTyped == Spec => []TypeOK
<1>1. IInv => TypeOK
  BY DEF IInv
<1> QED
  BY <1>1, ArchiverInvariant, PTL

(* RemoveRange never closes a closed channel, for any number of goroutines *)
(* fetching any bundles.                                                   *)
THEOREM NeverClosedTwice == Spec => []RegisteredRangesOpen
<1>1. IInv => RegisteredRangesOpen
  BY DEF IInv
<1> QED
  BY <1>1, ArchiverInvariant, PTL

(* A range is registered only while a fetch of its bundle is under way, on *)
(* whatever path the fetches end.                                          *)
THEOREM RangesReleased == Spec => []NoRangeLeaks
<1>1. IInv => NoRangeLeaks
  BY DEF IInv
<1> QED
  BY <1>1, ArchiverInvariant, PTL

(* lookupMap is rangeMap spread over the heights of each bundle.           *)
THEOREM LookupIsRangeMap == Spec => []MapsAgree
<1>1. IInv => MapsAgree
  BY DEF IInv
<1> QED
  BY <1>1, ArchiverInvariant, PTL

-----------------------------------------------------------------------------
(* The answers. *)

Pending == [p \in Caller |-> IF pc[p] = "idle" THEN {} ELSE {number[p]}]

(* A step that returns from a call with a block of the number asked for,   *)
(* or nothing, is a Return of the service.                                 *)
LEMMA ReturnRefines ==
    ASSUME IInv, NEW p \in Caller, pc[p] # "idle", NEW a, Returns(p, a),
           a = Missing \/ (a \in Archived /\ Number[a] = number[p])
    PROVE  Promise!Next
<1>1. Pending' = [Pending EXCEPT ![p] = {}]
  BY DEF Returns, Pending, IInv, TypeOK
<1>2. Pending[p] = {number[p]} /\ answer' = [answer EXCEPT ![p] = a]
  BY DEF Returns, Pending
<1>3. a \in {b \in Archived : Number[b] \in Pending[p]} \cup {Missing}
  BY <1>2
<1> QED
  BY <1>1, <1>2, <1>3 DEF Promise!Next, Promise!Return, Pending

(* A step inside a call, not returning from it, is invisible.              *)
LEMMA StepInsideCall ==
    ASSUME IInv, NEW p \in Caller, pc[p] # "idle", pc'[p] # "idle",
           pc' = [pc EXCEPT ![p] = pc'[p]], UNCHANGED <<number, answer>>
    PROVE  UNCHANGED Promise!vars
<1>1. Pending' = Pending
  BY DEF Pending, IInv, TypeOK
<1> QED
  BY <1>1 DEF Promise!vars, Pending

(* Looking into the caches and waiting for a range is answering, or no     *)
(* visible step.                                                           *)
LEMMA LookupRefines ==
    ASSUME IInv, NEW p \in Caller, Lookup(p)
    PROVE  Promise!Next \/ UNCHANGED Promise!vars
<1>1. CASE NumberHit(p) \/ WokenHit(p)
  <2>1. PICK b \in CachedAt(number[p]) : Returns(p, b)
    BY <1>1 DEF NumberHit, WokenHit
  <2>2. pc[p] # "idle" /\ b \in Archived /\ Number[b] = number[p]
    BY <1>1 DEF NumberHit, WokenHit, CachedAt, IInv, TypeOK
  <2> QED
    BY <2>1, <2>2, ReturnRefines
<1>2. CASE HashHit(p)
  <2>1. PICK b \in hash[p] \cap bodyCache \cap headerCache : Returns(p, b)
    BY <1>2 DEF HashHit
  <2>2. pc[p] # "idle" /\ b \in Archived /\ Number[b] = number[p]
    BY <1>2 DEF HashHit, IInv, TypeOK, CallsConsistent
  <2> QED
    BY <2>1, <2>2, ReturnRefines
<1>3. CASE HashUnknown(p) \/ WaitTimeout(p)
  <2>1. Returns(p, Missing) /\ pc[p] # "idle"
    BY <1>3 DEF HashUnknown, WaitTimeout
  <2> QED
    BY <2>1, ReturnRefines
<1>4. CASE NumberMiss(p) \/ HashResolved(p) \/ NotWithinAnyRange(p) \/ IsWithinAnyRange(p)
           \/ GetRangeForNumber(p) \/ WokenMiss(p)
  <2>1. pc = [q \in Caller |-> pc[q]] /\ pc[p] # "idle"
    BY <1>4 DEF NumberMiss, HashResolved, NotWithinAnyRange, IsWithinAnyRange,
       GetRangeForNumber, WokenMiss, IInv, TypeOK
  <2>2. \E step \in {"check", "name", "range", "wait"} : pc' = [pc EXCEPT ![p] = step]
    BY <1>4 DEF NumberMiss, HashResolved, NotWithinAnyRange, IsWithinAnyRange,
       GetRangeForNumber, WokenMiss, Goto
  <2>3. UNCHANGED <<number, answer>>
    BY <1>4 DEF NumberMiss, HashResolved, NotWithinAnyRange, IsWithinAnyRange,
       GetRangeForNumber, WokenMiss, Goto
  <2>4. pc'[p] # "idle" /\ pc' = [pc EXCEPT ![p] = pc'[p]]
    BY <2>1, <2>2
  <2> QED
    BY <2>1, <2>3, <2>4, StepInsideCall
<1> QED
  BY <1>1, <1>2, <1>3, <1>4 DEF Lookup

(* Fetching a bundle and filling the caches is answering, or no visible    *)
(* step.                                                                   *)
LEMMA FetchRefines ==
    ASSUME IInv, NEW p \in Caller, Fetch(p)
    PROVE  Promise!Next \/ UNCHANGED Promise!vars
<1>1. CASE GetBundleNameFails(p)
  <2>1. Returns(p, Missing) /\ pc[p] # "idle"
    BY <1>1 DEF GetBundleNameFails
  <2> QED
    BY <2>1, ReturnRefines
<1>2. CASE RemoveRange(p)
  <2>1. Returns(p, found[p]) /\ pc[p] # "idle"
    BY <1>2 DEF RemoveRange
  <2>2. found[p] = Missing \/ (found[p] \in Archived /\ Number[found[p]] = number[p])
    BY DEF IInv, TypeOK, CallsConsistent
  <2> QED
    BY <2>1, <2>2, ReturnRefines
<1>3. CASE GetBundleName(p) \/ AddRange(p) \/ GetBundleBlocks(p) \/ FetchFails(p)
           \/ AddBody(p) \/ AddHeader(p) \/ AddHash(p) \/ BundleCached(p)
  <2>1. pc = [q \in Caller |-> pc[q]] /\ pc[p] # "idle"
    BY <1>3 DEF GetBundleName, AddRange, GetBundleBlocks, FetchFails, AddBody, AddHeader,
       AddHash, BundleCached, IInv, TypeOK
  <2>2. \E step \in {"add", "fetch", "body", "remove", "header", "numbered"} :
           pc' = [pc EXCEPT ![p] = step]
    BY <1>3 DEF GetBundleName, AddRange, GetBundleBlocks, FetchFails, AddBody, AddHeader,
       AddHash, BundleCached, Goto
  <2>3. UNCHANGED <<number, answer>>
    BY <1>3 DEF GetBundleName, AddRange, GetBundleBlocks, FetchFails, AddBody, AddHeader,
       AddHash, BundleCached, Goto
  <2>4. pc'[p] # "idle" /\ pc' = [pc EXCEPT ![p] = pc'[p]]
    BY <2>1, <2>2
  <2> QED
    BY <2>1, <2>3, <2>4, StepInsideCall
<1> QED
  BY <1>1, <1>2, <1>3 DEF Fetch

(* A call of GetBlockByNumber or GetBlockByHash is a question of the       *)
(* promise.                                                                *)
LEMMA AskRefines ==
    ASSUME IInv, NEW p \in Caller,
           \/ \E n \in Height : GetBlockByNumber(p, n)
           \/ \E b \in Block : GetBlockByHash(p, b)
    PROVE  Promise!Next
<1>1. PICK b \in Block, h \in SUBSET Block, step \in {"number", "hash"} :
         Asks(p, Number[b], h, step)
  <2>1. CASE \E n \in Height : GetBlockByNumber(p, n)
    <3>1. PICK n \in Height : Asks(p, n, {}, "number")
      BY <2>1 DEF GetBlockByNumber
    <3>2. PICK b \in Block : n = Number[b]
      BY DEF Height
    <3> QED
      BY <3>1, <3>2
  <2>2. CASE \E b \in Block : GetBlockByHash(p, b)
    <3>1. PICK b \in Block : Asks(p, Number[b], {b}, "hash")
      BY <2>2 DEF GetBlockByHash
    <3>2. {b} \in SUBSET Block
      OBVIOUS
    <3> QED
      BY <3>1, <3>2
  <2> QED
    BY <2>1, <2>2
<1>2. Pending' = [Pending EXCEPT ![p] = {Number[b]}] /\ Pending[p] = {}
  BY <1>1 DEF Asks, Pending, IInv, TypeOK
<1>3. answer' = [answer EXCEPT ![p] = Missing]
  BY <1>1 DEF Asks
<1> QED
  BY <1>2, <1>3 DEF Promise!Next, Promise!Call, Pending

(* Whatever the interleaving, evictions and failures, the archiver's       *)
(* answers are those BlockService allows: the archived block of the number *)
(* asked for, or nothing.                                                  *)
THEOREM ArchiverAnswers == Spec => AnswersAsPromised
<1>1. Init => Promise!Init
  BY DEF Init, Promise!Init
<1>2. IInv /\ [Next]_vars => [Promise!Next]_(Promise!vars)
  <2> SUFFICES ASSUME IInv, [Next]_vars PROVE Promise!Next \/ UNCHANGED Promise!vars
    OBVIOUS
  <2>1. ASSUME NEW p \in Caller, Lookup(p) \/ Fetch(p)
        PROVE Promise!Next \/ UNCHANGED Promise!vars
    BY <2>1, LookupRefines, FetchRefines
  <2>2. ASSUME NEW p \in Caller,
               (\E n \in Height : GetBlockByNumber(p, n)) \/ (\E b \in Block : GetBlockByHash(p, b))
        PROVE Promise!Next
    BY <2>2, AskRefines
  <2>3. CASE GetGenesisHeader \/ UNCHANGED vars
    BY <2>3 DEF GetGenesisHeader, vars, callVars, Promise!vars
  <2> QED
    BY <2>1, <2>2, <2>3 DEF Next
<1> QED
  BY <1>1, <1>2, ArchiverInvariant, PTL DEF Spec, AnswersAsPromised

-----------------------------------------------------------------------------
(* The waiters. *)

Roomy == Cardinality(Archived) < CacheSize

Cached == bodyCache \cap headerCache \cap hashCache

(* The blocks of p's bundle that one of the caches lacks.                  *)
Left(p) == {b \in Archived : Number[b] \in Bundle(number[p])} \ Cached

(* What one goroutine knows while no remote call has failed: the blocks it *)
(* took off todo are cached, and a closed range it waits on means that the *)
(* whole bundle is.                                                        *)
Knows(p) ==
    /\ pc[p] = "header" => NextBlock(p) \in bodyCache
    /\ pc[p] = "numbered" => NextBlock(p) \in bodyCache /\ NextBlock(p) \in headerCache
    /\ pc[p] \in {"body", "header", "numbered", "remove"} => Left(p) \subseteq todo[p]
    /\ pc[p] = "remove" => todo[p] = {}
    /\ pc[p] = "wait" =>
          /\ \A n \in Height : rangeMap[n] = waitsFor[p] => n = From[number[p]]
          /\ done[waitsFor[p]] => Left(p) = {}

WaitInv == failures = 0 => \A p \in Caller : Knows(p)

CachesGrow ==
    /\ bodyCache \subseteq bodyCache' /\ headerCache \subseteq headerCache'
    /\ hashCache \subseteq hashCache'

(* A cache with room for the archived blocks and the genesis header evicts *)
(* nothing.                                                                *)
LEMMA RoomForAll ==
    ASSUME Roomy, NEW S, S \subseteq Archived \cup {Genesis}, NEW b \in Archived \cup {Genesis},
           NEW next \in Added(S, b)
    PROVE  next = S \cup {b}
<1> DEFINE All == Archived \cup {Genesis}
<1>1. IsFiniteSet(Archived) /\ Cardinality(Archived) \in Nat
  BY ArchiveAssumption, FS_CardinalityType
<1>2. IsFiniteSet(All) /\ Cardinality(All) <= Cardinality(Archived) + 1 /\ Cardinality(All) \in Nat
  <2>1. IsFiniteSet(All)
    BY <1>1, FS_AddElement
  <2>2. Cardinality(All) = Cardinality(Archived) \/ Cardinality(All) = Cardinality(Archived) + 1
    BY <1>1, FS_AddElement
  <2> QED
    BY <1>1, <2>1, <2>2
<1>3. CASE b \in S
  BY <1>3 DEF Added
<1>4. CASE b \notin S
  <2>1. IsFiniteSet(All \ {b}) /\ Cardinality(All \ {b}) = Cardinality(All) - 1
    BY <1>2, FS_RemoveElement
  <2>2. S \subseteq All \ {b}
    BY <1>4
  <2>3. Cardinality(S) \in Nat /\ Cardinality(S) <= Cardinality(All \ {b})
    BY <2>1, <2>2, FS_Subset, FS_CardinalityType
  <2>4. Cardinality(S) <= Cardinality(Archived)
    BY <1>1, <1>2, <2>1, <2>3
  <2>5. Cardinality(S) < CacheSize
    BY <1>1, <2>3, <2>4, ArchiveAssumption DEF Roomy
  <2> QED
    BY <1>4, <2>5 DEF Added
<1> QED
  BY <1>3, <1>4

(* A goroutine that does not move keeps what it knows.                     *)
LEMMA KnowsKept ==
    ASSUME NEW q \in Caller, Knows(q), CachesGrow, UNCHANGED lockVars,
           pc'[q] = pc[q], number'[q] = number[q], todo'[q] = todo[q], waitsFor'[q] = waitsFor[q]
    PROVE  Knows(q)'
<1>1. Left(q)' \subseteq Left(q)
  BY DEF Left, Cached, Bundle, CachesGrow
<1>2. NextBlock(q)' = NextBlock(q)
  BY DEF NextBlock
<1>3. rangeMap' = rangeMap /\ done' = done
  BY DEF lockVars
<1>4. /\ pc'[q] = "header" => NextBlock(q)' \in bodyCache'
      /\ pc'[q] = "numbered" => NextBlock(q)' \in bodyCache' /\ NextBlock(q)' \in headerCache'
  BY <1>2 DEF Knows, CachesGrow
<1>5. /\ pc'[q] \in {"body", "header", "numbered", "remove"} => Left(q)' \subseteq todo'[q]
      /\ pc'[q] = "remove" => todo'[q] = {}
  BY <1>1 DEF Knows
<1>6. pc'[q] = "wait" =>
          /\ \A n \in Height : rangeMap'[n] = waitsFor'[q] => n = From[number'[q]]
          /\ done'[waitsFor'[q]] => Left(q)' = {}
  BY <1>1, <1>3 DEF Knows
<1> QED
  BY <1>4, <1>5, <1>6 DEF Knows

(* A step of one goroutine that touches neither lock nor caches, and takes *)
(* it nowhere where it knows anything.                                     *)
LEMMA MovesOn ==
    ASSUME IInv, \A q \in Caller : Knows(q), NEW p \in Caller, UNCHANGED <<lockVars, cacheVars>>,
           pc'[p] \in {"idle", "number", "hash", "check", "range", "name", "add", "fetch"},
           \A q \in Caller \ {p} : /\ pc'[q] = pc[q] /\ number'[q] = number[q]
                                   /\ todo'[q] = todo[q] /\ waitsFor'[q] = waitsFor[q]
    PROVE  \A q \in Caller : Knows(q)'
<1> SUFFICES ASSUME NEW q \in Caller PROVE Knows(q)'
  OBVIOUS
<1>1. CASE q = p
  BY <1>1 DEF Knows
<1>2. CASE q # p
  <2>1. CachesGrow
    BY DEF CachesGrow, cacheVars
  <2> QED
    BY <1>2, <2>1, KnowsKept
<1> QED
  BY <1>1, <1>2

(* The steps of a lookup.                                                  *)
LEMMA LookupKnows ==
    ASSUME IInv, failures = 0, failures' = 0, \A q \in Caller : Knows(q), NEW p \in Caller, Lookup(p)
    PROVE  \A q \in Caller : Knows(q)'
<1>1. CASE NumberHit(p) \/ HashHit(p) \/ WokenHit(p) \/ WaitTimeout(p)
  <2>1. PICK a : Returns(p, a)
    BY <1>1 DEF NumberHit, HashHit, WokenHit, WaitTimeout
  <2>2. UNCHANGED <<lockVars, cacheVars>>
    BY <1>1 DEF NumberHit, HashHit, WokenHit, WaitTimeout
  <2>3. pc'[p] = "idle" /\ \A q \in Caller \ {p} : /\ pc'[q] = pc[q] /\ number'[q] = number[q]
                                                   /\ todo'[q] = todo[q] /\ waitsFor'[q] = waitsFor[q]
    BY <2>1 DEF Returns, IInv, TypeOK
  <2> QED
    BY <2>2, <2>3, MovesOn
<1>2. CASE HashUnknown(p)
  BY <1>2 DEF HashUnknown, Fails
<1>3. CASE NumberMiss(p) \/ HashResolved(p) \/ NotWithinAnyRange(p) \/ IsWithinAnyRange(p)
  <2>1. PICK step \in {"check", "name", "range"} : Goto(p, step) /\ UNCHANGED <<lockVars, cacheVars>>
    BY <1>3 DEF NumberMiss, HashResolved, NotWithinAnyRange, IsWithinAnyRange
  <2>2. pc'[p] = step /\ \A q \in Caller \ {p} : /\ pc'[q] = pc[q] /\ number'[q] = number[q]
                                                 /\ todo'[q] = todo[q] /\ waitsFor'[q] = waitsFor[q]
    BY <2>1 DEF Goto, IInv, TypeOK
  <2> QED
    BY <2>1, <2>2, MovesOn
<1>4. CASE WokenMiss(p)
  <2>1. pc'[p] = "name" /\ \A q \in Caller \ {p} : /\ pc'[q] = pc[q] /\ number'[q] = number[q]
                                                   /\ todo'[q] = todo[q] /\ waitsFor'[q] = waitsFor[q]
    BY <1>4 DEF WokenMiss, IInv, TypeOK
  <2> QED
    BY <1>4, <2>1, MovesOn DEF WokenMiss
<1>5. CASE GetRangeForNumber(p)
  <2>1. /\ pc'[p] \in {"name", "wait"} /\ waitsFor'[p] = lookupMap[number[p]] /\ number' = number
        /\ pc'[p] = "wait" => lookupMap[number[p]] # NoRange
        /\ UNCHANGED <<lockVars, cacheVars>>
    BY <1>5 DEF GetRangeForNumber, IInv, TypeOK
  <2>2. \A q \in Caller \ {p} : /\ pc'[q] = pc[q] /\ number'[q] = number[q]
                                /\ todo'[q] = todo[q] /\ waitsFor'[q] = waitsFor[q]
    BY <1>5 DEF GetRangeForNumber, IInv, TypeOK
  <2>3. CASE pc'[p] = "name"
    BY <2>1, <2>2, <2>3, MovesOn
  <2>4. CASE pc'[p] = "wait"
    <3>1. number[p] \in Height /\ From[number[p]] \in Height
      BY BundleFacts DEF IInv, TypeOK
    <3>2. waitsFor'[p] = rangeMap[From[number[p]]] /\ waitsFor'[p] # NoRange
      BY <2>1, <2>4, <3>1 DEF IInv, MapsAgree
    <3>3. \A n \in Height : rangeMap[n] = waitsFor'[p] => n = From[number[p]]
      BY <3>1, <3>2 DEF IInv, RangesStartBundles
    <3>4. ~done[waitsFor'[p]]
      BY <3>1, <3>2 DEF IInv, RegisteredRangesOpen
    <3>5. rangeMap' = rangeMap /\ done' = done
      BY <2>1 DEF lockVars
    <3>6. Knows(p)'
      BY <2>1, <2>4, <3>3, <3>4, <3>5 DEF Knows
    <3>7. \A q \in Caller \ {p} : Knows(q)'
      BY <2>1, <2>2, KnowsKept DEF CachesGrow, cacheVars
    <3> QED
      BY <3>6, <3>7
  <2> QED
    BY <2>1, <2>3, <2>4
<1> QED
  BY <1>1, <1>2, <1>3, <1>4, <1>5 DEF Lookup

(* The loop over the bundle fills the three caches, block by block.        *)
LEMMA LoopKnows ==
    ASSUME IInv, Roomy, \A q \in Caller : Knows(q), NEW p \in Caller,
           GetBundleBlocks(p) \/ AddBody(p) \/ AddHeader(p) \/ AddHash(p) \/ BundleCached(p)
    PROVE  \A q \in Caller : Knows(q)'
<1> DEFINE next == NextBlock(p)
<1>1. number' = number /\ UNCHANGED lockVars
  BY DEF GetBundleBlocks, AddBody, AddHeader, AddHash, BundleCached, Goto
<1>2. \A q \in Caller \ {p} : /\ pc'[q] = pc[q] /\ number'[q] = number[q]
                              /\ todo'[q] = todo[q] /\ waitsFor'[q] = waitsFor[q]
  BY DEF GetBundleBlocks, AddBody, AddHeader, AddHash, BundleCached, Goto, IInv, TypeOK
<1>3. CASE GetBundleBlocks(p)
  <2>1. pc'[p] = "body" /\ todo'[p] = {b \in Archived : Number[b] \in Bundle(number[p])}
    BY <1>3 DEF GetBundleBlocks, IInv, TypeOK
  <2>2. Left(p)' \subseteq todo'[p]
    BY <1>1, <2>1 DEF Left, Bundle
  <2>3. Knows(p)'
    BY <2>1, <2>2 DEF Knows
  <2>4. CachesGrow
    BY <1>3 DEF GetBundleBlocks, CachesGrow, cacheVars
  <2> QED
    BY <1>1, <1>2, <2>3, <2>4, KnowsKept
<1>4. CASE BundleCached(p)
  <2>1. pc[p] = "body" /\ pc'[p] = "remove" /\ todo'[p] = {} /\ todo[p] = {}
    BY <1>4 DEF BundleCached, Goto, IInv, TypeOK
  <2>2. UNCHANGED cacheVars
    BY <1>4 DEF BundleCached
  <2>3. Left(p)' = Left(p) /\ Left(p) \subseteq todo[p]
    BY <1>1, <2>1, <2>2 DEF Left, Bundle, Cached, cacheVars, Knows
  <2>4. Knows(p)'
    BY <2>1, <2>3 DEF Knows
  <2>5. CachesGrow
    BY <2>2 DEF CachesGrow, cacheVars
  <2> QED
    BY <1>1, <1>2, <2>4, <2>5, KnowsKept
<1>5. CASE AddBody(p) \/ AddHeader(p) \/ AddHash(p)
  <2>1. todo[p] # {}
    BY <1>5 DEF AddBody, AddHeader, AddHash, IInv, CallsConsistent
  <2>2. next \in todo[p] /\ next \in Archived
    BY <2>1, NextBlockLeft DEF IInv
  <2>3. /\ bodyCache \subseteq Archived \cup {Genesis}
        /\ headerCache \subseteq Archived \cup {Genesis}
        /\ hashCache \subseteq Archived \cup {Genesis}
    BY DEF IInv, TypeOK
  <2> HIDE DEF next
  <2>4. CASE AddBody(p)
    <3>1. bodyCache' = bodyCache \cup {next} /\ UNCHANGED <<headerCache, hashCache>>
      <4>1. bodyCache' \in Added(bodyCache, next) /\ UNCHANGED <<headerCache, hashCache>>
        BY <2>4 DEF AddBody, next
      <4> QED
        BY <2>2, <2>3, <4>1, RoomForAll
    <3>2. pc[p] = "body" /\ pc'[p] = "header" /\ todo' = todo
      BY <2>4 DEF AddBody, Goto, IInv, TypeOK
    <3>3. next = NextBlock(p)'
      BY <3>2 DEF next, NextBlock
    <3>4. CachesGrow
      BY <3>1 DEF CachesGrow
    <3>5. Left(p)' \subseteq todo'[p]
      BY <1>1, <3>2, <3>4 DEF Left, Cached, Bundle, CachesGrow, Knows
    <3>6. Knows(p)'
      BY <3>1, <3>2, <3>3, <3>5 DEF Knows
    <3> QED
      BY <1>1, <1>2, <3>4, <3>6, KnowsKept
  <2>5. CASE AddHeader(p)
    <3>1. headerCache' = headerCache \cup {next} /\ UNCHANGED <<bodyCache, hashCache>>
      <4>1. headerCache' \in Added(headerCache, next) /\ UNCHANGED <<bodyCache, hashCache>>
        BY <2>5 DEF AddHeader, next
      <4> QED
        BY <2>2, <2>3, <4>1, RoomForAll
    <3>2. pc[p] = "header" /\ pc'[p] = "numbered" /\ todo' = todo
      BY <2>5 DEF AddHeader, Goto, IInv, TypeOK
    <3>3. next = NextBlock(p)' /\ next \in bodyCache
      BY <3>2 DEF next, NextBlock, Knows
    <3>4. CachesGrow
      BY <3>1 DEF CachesGrow
    <3>5. Left(p)' \subseteq todo'[p]
      BY <1>1, <3>2, <3>4 DEF Left, Cached, Bundle, CachesGrow, Knows
    <3>6. Knows(p)'
      BY <3>1, <3>2, <3>3, <3>5 DEF Knows
    <3> QED
      BY <1>1, <1>2, <3>4, <3>6, KnowsKept
  <2>6. CASE AddHash(p)
    <3>1. hashCache' = hashCache \cup {next} /\ UNCHANGED <<bodyCache, headerCache>>
      <4>1. hashCache' \in Added(hashCache, next) /\ UNCHANGED <<bodyCache, headerCache>>
        BY <2>6 DEF AddHash, next
      <4> QED
        BY <2>2, <2>3, <4>1, RoomForAll
    <3>2. pc[p] = "numbered" /\ pc'[p] = "body" /\ todo'[p] = todo[p] \ {next}
      BY <2>6 DEF AddHash, IInv, TypeOK, next
    <3>3. next \in bodyCache /\ next \in headerCache
      BY <3>2 DEF next, Knows
    <3>4. CachesGrow
      BY <3>1 DEF CachesGrow
    <3>5. next \in Cached'
      BY <3>1, <3>3 DEF Cached
    <3>6. Left(p)' \subseteq Left(p) \ {next}
      BY <1>1, <3>4, <3>5 DEF Left, Cached, Bundle, CachesGrow
    <3>7. Left(p) \subseteq todo[p]
      BY <3>2 DEF Knows
    <3>8. Knows(p)'
      BY <3>2, <3>6, <3>7 DEF Knows
    <3> QED
      BY <1>1, <1>2, <3>4, <3>8, KnowsKept
  <2> QED
    BY <1>5, <2>4, <2>5, <2>6
<1> QED
  BY <1>3, <1>4, <1>5

(* AddRange registers a range nobody waits on.                             *)
LEMMA AddRangeKnows ==
    ASSUME IInv, \A q \in Caller : Knows(q), NEW p \in Caller, AddRange(p)
    PROVE  \A q \in Caller : Knows(q)'
<1> DEFINE r == NewRange
           f == From[number[p]]
<1>1. r \in Ranges /\ r \notin Referenced
  BY DEF AddRange, NewRange
<1>2. /\ rangeMap' = [rangeMap EXCEPT ![f] = r] /\ done' = [done EXCEPT ![r] = FALSE]
      /\ pc' = [pc EXCEPT ![p] = "fetch"]
      /\ UNCHANGED <<number, waitsFor, todo, cacheVars>>
  BY DEF AddRange, Goto
<1> HIDE DEF r
<1> SUFFICES ASSUME NEW q \in Caller PROVE Knows(q)'
  OBVIOUS
<1>3. CASE q = p
  BY <1>2, <1>3 DEF Knows, IInv, TypeOK
<1>4. CASE q # p
  <2>1. pc'[q] = pc[q]
    BY <1>2, <1>4 DEF IInv, TypeOK
  <2>2. Left(q)' = Left(q) /\ NextBlock(q)' = NextBlock(q)
    BY <1>2 DEF Left, Cached, Bundle, NextBlock, cacheVars
  <2>3. waitsFor[q] # r
    BY <1>1 DEF Referenced
  <2>4. \A n \in Height : rangeMap'[n] = waitsFor[q] => rangeMap[n] = waitsFor[q]
    BY <1>2, <2>3 DEF IInv, TypeOK
  <2>5. done'[waitsFor[q]] = done[waitsFor[q]]
    BY <1>2, <2>3 DEF IInv, TypeOK
  <2>6. UNCHANGED <<number, waitsFor, todo, bodyCache, headerCache>>
    BY <1>2 DEF cacheVars
  <2>7. Knows(q)
    OBVIOUS
  <2> QED
    BY <2>1, <2>2, <2>4, <2>5, <2>6, <2>7 DEF Knows
<1> QED
  BY <1>3, <1>4

(* RemoveRange closes the range of a bundle that is in the caches: the     *)
(* goroutines that wait on it want blocks of that bundle.                  *)
LEMMA RemoveRangeKnows ==
    ASSUME IInv, \A q \in Caller : Knows(q), NEW p \in Caller, RemoveRange(p)
    PROVE  \A q \in Caller : Knows(q)'
<1> DEFINE f == From[number[p]]
           r == rangeMap[f]
<1>0. number[p] \in Height /\ f \in Height /\ pc[p] = "remove" /\ r \in Ranges \cup {NoRange}
  BY BundleFacts DEF IInv, TypeOK, RemoveRange
<1>1. Returns(p, found[p]) /\ UNCHANGED cacheVars
  BY DEF RemoveRange
<1>2. Left(p) = {}
  BY <1>0 DEF Knows
<1>3. \A n \in Height : rangeMap'[n] = IF n = f THEN NoRange ELSE rangeMap[n]
  BY <1>0 DEF RemoveRange, IInv, TypeOK, lockVars
<1>4. \A x \in Ranges : x # r => done'[x] = done[x]
  BY <1>0 DEF RemoveRange, IInv, TypeOK, lockVars
<1> SUFFICES ASSUME NEW q \in Caller PROVE Knows(q)'
  OBVIOUS
<1>5. CASE q = p
  <2>1. pc'[p] = "idle"
    BY <1>1 DEF Returns, IInv, TypeOK
  <2> QED
    BY <1>5, <2>1 DEF Knows
<1>6. CASE q # p
  <2>1. /\ pc'[q] = pc[q] /\ number'[q] = number[q] /\ todo'[q] = todo[q]
        /\ waitsFor'[q] = waitsFor[q]
    BY <1>1, <1>6 DEF Returns, IInv, TypeOK
  <2>2. Left(q)' = Left(q) /\ NextBlock(q)' = NextBlock(q)
    BY <1>1, <2>1 DEF Left, Cached, Bundle, NextBlock, cacheVars
  <2>3. CASE pc[q] # "wait"
    BY <1>1, <2>1, <2>2, <2>3 DEF Knows, cacheVars
  <2>4. CASE pc[q] = "wait"
    <3>1. waitsFor[q] \in Ranges /\ number[q] \in Height
      BY <2>4 DEF IInv, TypeOK, CallsConsistent
    <3>2. \A n \in Height : rangeMap[n] = waitsFor[q] => n = From[number[q]]
      BY <2>4 DEF Knows
    <3>3. \A n \in Height : rangeMap'[n] = waitsFor[q] => n = From[number[q]]
      BY <1>3, <3>1, <3>2, ArchiveAssumption
    <3>4. CASE waitsFor[q] # r
      <4>1. done'[waitsFor[q]] = done[waitsFor[q]]
        BY <1>4, <3>1, <3>4
      <4> QED
        BY <2>1, <2>2, <2>4, <3>3, <4>1 DEF Knows
    <3>5. CASE waitsFor[q] = r
      <4>1. From[number[q]] = f
        BY <1>0, <3>2, <3>5
      <4>2. \A m \in Height : m \in Bundle(number[q]) <=> m \in Bundle(number[p])
        BY <1>0, <3>1, <4>1, BundleFacts
      <4>3. \A b \in Archived : Number[b] \in Height
        BY ArchiveAssumption DEF Height
      <4>4. Left(q) = {}
        BY <1>2, <4>2, <4>3 DEF Left
      <4> QED
        BY <2>1, <2>2, <2>4, <3>3, <4>4 DEF Knows
    <3> QED
      BY <3>4, <3>5
  <2> QED
    BY <2>3, <2>4
<1> QED
  BY <1>5, <1>6

(* While the caches have room and no request fails, every step keeps       *)
(* WaitInv.                                                                *)
LEMMA WaitStep ==
    ASSUME IInv, Roomy, WaitInv, [Next]_vars
    PROVE  WaitInv'
<1> SUFFICES ASSUME failures' = 0 PROVE \A q \in Caller : Knows(q)'
  BY DEF WaitInv
<1>0. failures \in Nat
  BY DEF IInv, TypeOK
<1>1. failures' = failures \/ failures' = failures + 1
  BY DEF Next, Lookup, Fetch, GetBlockByNumber, GetBlockByHash, Asks, NumberHit, NumberMiss, HashHit,
     HashResolved, HashUnknown, NotWithinAnyRange, IsWithinAnyRange, GetRangeForNumber, WokenHit,
     WokenMiss, WaitTimeout, GetBundleName, GetBundleNameFails, AddRange, GetBundleBlocks, FetchFails,
     AddBody, AddHeader, AddHash, BundleCached, RemoveRange, GetGenesisHeader, Fails, vars
<1>2. failures = 0
  BY <1>0, <1>1
<1>3. \A q \in Caller : Knows(q)
  BY <1>2 DEF WaitInv
<1>4. ASSUME NEW p \in Caller, \/ \E n \in Height : GetBlockByNumber(p, n)
                               \/ \E b \in Block : GetBlockByHash(p, b)
      PROVE \A q \in Caller : Knows(q)'
  <2>1. PICK step \in {"number", "hash"} : \E n, h : Asks(p, n, h, step)
    <3>1. CASE \E n \in Height : GetBlockByNumber(p, n)
      BY <3>1 DEF GetBlockByNumber
    <3>2. CASE \E b \in Block : GetBlockByHash(p, b)
      BY <3>2 DEF GetBlockByHash
    <3> QED
      BY <1>4, <3>1, <3>2
  <2>2. pc'[p] = step /\ \A q \in Caller \ {p} : /\ pc'[q] = pc[q] /\ number'[q] = number[q]
                                                 /\ todo'[q] = todo[q] /\ waitsFor'[q] = waitsFor[q]
    BY <2>1 DEF Asks, IInv, TypeOK
  <2>3. UNCHANGED <<lockVars, cacheVars>>
    BY <2>1 DEF Asks
  <2> QED
    BY <1>3, <2>2, <2>3, MovesOn
<1>5. ASSUME NEW p \in Caller, Lookup(p) PROVE \A q \in Caller : Knows(q)'
  BY <1>2, <1>3, <1>5, LookupKnows
<1>6. ASSUME NEW p \in Caller, Fetch(p) PROVE \A q \in Caller : Knows(q)'
  <2>1. CASE GetBundleNameFails(p) \/ FetchFails(p)
    BY <1>2, <2>1 DEF GetBundleNameFails, FetchFails, Fails
  <2>2. CASE GetBundleName(p)
    <3>1. pc'[p] = "add" /\ \A q \in Caller \ {p} : /\ pc'[q] = pc[q] /\ number'[q] = number[q]
                                                    /\ todo'[q] = todo[q] /\ waitsFor'[q] = waitsFor[q]
      BY <2>2 DEF GetBundleName, Goto, IInv, TypeOK
    <3> QED
      BY <1>3, <2>2, <3>1, MovesOn DEF GetBundleName
  <2>3. CASE AddRange(p) \/ RemoveRange(p)
    BY <1>3, <2>3, AddRangeKnows, RemoveRangeKnows
  <2>4. CASE GetBundleBlocks(p) \/ AddBody(p) \/ AddHeader(p) \/ AddHash(p) \/ BundleCached(p)
    BY <1>3, <2>4, LoopKnows
  <2> QED
    BY <1>6, <2>1, <2>2, <2>3, <2>4 DEF Fetch
<1>7. CASE GetGenesisHeader
  <2>1. headerCache' = headerCache \cup {Genesis} /\ UNCHANGED <<callVars, lockVars, bodyCache, hashCache>>
    <3>1. headerCache' \in Added(headerCache, Genesis) /\ headerCache \subseteq Archived \cup {Genesis}
      BY <1>7 DEF GetGenesisHeader, IInv, TypeOK
    <3> QED
      BY <1>7, <3>1, RoomForAll DEF GetGenesisHeader
  <2> QED
    BY <1>3, <2>1, KnowsKept DEF CachesGrow, callVars
<1>8. CASE UNCHANGED vars
  BY <1>3, <1>8, KnowsKept DEF CachesGrow, vars, callVars, cacheVars
<1> QED
  BY <1>4, <1>5, <1>6, <1>7, <1>8 DEF Next

(* A goroutine goes from waiting to fetching only through WokenMiss.       *)
LEMMA OnlyWokenMiss ==
    ASSUME IInv, [Next]_vars, NEW p \in Caller, pc[p] = "wait", pc'[p] = "name"
    PROVE  WokenMiss(p)
<1>1. ASSUME NEW q \in Caller, q # p, \/ \E n \in Height : GetBlockByNumber(q, n)
                                      \/ \E b \in Block : GetBlockByHash(q, b)
      PROVE pc'[p] = pc[p]
  BY <1>1 DEF GetBlockByNumber, GetBlockByHash, Asks, IInv, TypeOK
<1>2. ASSUME NEW q \in Caller, q # p, Lookup(q) PROVE pc'[p] = pc[p]
  BY <1>2 DEF Lookup, NumberHit, NumberMiss, HashHit, HashResolved, HashUnknown, NotWithinAnyRange,
     IsWithinAnyRange, GetRangeForNumber, WokenHit, WokenMiss, WaitTimeout, Returns, Goto, IInv, TypeOK
<1>3. ASSUME NEW q \in Caller, q # p, Fetch(q) PROVE pc'[p] = pc[p]
  BY <1>3 DEF Fetch, GetBundleName, GetBundleNameFails, AddRange, GetBundleBlocks, FetchFails,
     AddBody, AddHeader, AddHash, BundleCached, RemoveRange, Returns, Goto, IInv, TypeOK
<1>4. ~(\E n \in Height : GetBlockByNumber(p, n)) /\ ~(\E b \in Block : GetBlockByHash(p, b)) /\ ~Fetch(p)
  BY DEF GetBlockByNumber, GetBlockByHash, Asks, Fetch, GetBundleName, GetBundleNameFails, AddRange,
     GetBundleBlocks, FetchFails, AddBody, AddHeader, AddHash, BundleCached, RemoveRange
<1>5. ASSUME Lookup(p) PROVE WokenMiss(p)
  BY <1>5 DEF Lookup, NumberHit, NumberMiss, HashHit, HashResolved, HashUnknown, NotWithinAnyRange,
     IsWithinAnyRange, GetRangeForNumber, WokenHit, WaitTimeout, Returns, IInv, TypeOK
<1>6. ~GetGenesisHeader /\ ~UNCHANGED vars
  BY DEF GetGenesisHeader, vars, callVars
<1> QED
  BY <1>1, <1>2, <1>3, <1>4, <1>5, <1>6 DEF Next

(* For any goroutines, bundles and interleaving: with room in the caches   *)
(* and no failed call, a woken waiter is served from the caches and does   *)
(* not download the bundle again.                                          *)
THEOREM WaitersServed == Spec => WaitersServedFromCache
<1> DEFINE RoomyInv == Roomy => WaitInv
<1>1. Init => RoomyInv
  BY DEF Init, WaitInv, Knows
<1>2. IInv /\ RoomyInv /\ [Next]_vars => RoomyInv'
  BY WaitStep DEF Roomy
<1>3. IInv /\ RoomyInv /\ [Next]_vars =>
         [\A p \in Caller :
             pc[p] = "wait" /\ pc'[p] = "name" =>
                \/ failures > 0
                \/ Cardinality(Archived) >= CacheSize
                \/ ~\E b \in Archived : Number[b] = number[p]]_vars
  <2> SUFFICES ASSUME IInv, RoomyInv, [Next]_vars, NEW p \in Caller, pc[p] = "wait", pc'[p] = "name",
                      ~(failures > 0), ~(Cardinality(Archived) >= CacheSize),
                      NEW b \in Archived, Number[b] = number[p]
               PROVE FALSE
    OBVIOUS
  <2>1. WokenMiss(p)
    BY OnlyWokenMiss
  <2>2. failures = 0
    BY DEF IInv, TypeOK
  <2>3. Roomy
    BY ArchiveAssumption, FS_CardinalityType DEF Roomy
  <2>4. Left(p) = {}
    BY <2>1, <2>2, <2>3 DEF WaitInv, Knows, WokenMiss
  <2>5. Number[b] \in Bundle(number[p])
    BY BundleFacts DEF IInv, TypeOK
  <2>6. b \in CachedAt(number[p])
    BY <2>4, <2>5 DEF Left, Cached, CachedAt
  <2> QED
    BY <2>1, <2>6 DEF WokenMiss
<1> QED
  BY <1>1, <1>2, <1>3, ArchiverInvariant, PTL DEF Spec, WaitersServedFromCache
=============================================================================
