------------------------------ MODULE Freezer ------------------------------
(***************************************************************************)
(* The ancient store: freezer tables (a data file per maxFileSize bytes,   *)
(* an index and a metadata file each), the Freezer that keeps its tables   *)
(* in step, and the chain freezer's loop that moves blocks out of the      *)
(* key-value store into it.                                                *)
(*                                                                         *)
(* disk is what the process sees of its files, stable what has reached     *)
(* stable storage.  An operation that holds writeLock is a list of steps,  *)
(* todo; the machine may stop before any of them, and an unsynced file     *)
(* then survives as it was or with a prefix of what was written since.     *)
(* Items are one byte, named by their number and by the chain (era) they   *)
(* belong to; a torn item or index entry is one that was not written.      *)
(* Unlinked files may come back.                                           *)
(*                                                                         *)
(* With an addition table the freezer is the chain freezer (the table      *)
(* holds the blob sidecars); without one it is the state history freezer,  *)
(* and kv stands for the layers still in memory.                           *)
(***************************************************************************)
EXTENDS Integers, Sequences, SequencesExt, FiniteSets, FiniteSetsExt, Functions

CONSTANTS
    Table,            \* names of the tables
    Blob,             \* ChainFreezerBlobSidecarTable
    Cancun,           \* the first block with blob sidecars
    Offset,           \* Freezer.offset: the first block of this freezer
    maxFileSize, freezerBatchBufferLimit,
    MaxBlock,         \* bound: the last block of the chain
    MaxRewinds, MaxFaults

ASSUME FreezerAssumption ==
    /\ Blob \in Table /\ Cardinality(Table) > 1
    /\ {Offset, MaxBlock, MaxRewinds, MaxFaults, freezerBatchBufferLimit} \subseteq Nat
    /\ Offset < Cancun /\ Cancun \in Nat /\ maxFileSize \in Nat \ {0}

VARIABLES
    additionTables,   \* {Blob} for the chain freezer, {} for state histories
    disk, stable,     \* [Table -> [index, data, meta]]
    mem,              \* [Table -> the counters of freezerTable]
    batch,            \* [Table -> freezerTableBatch]
    todo,             \* what the operation under way has still to do
    status,           \* "closed", "open", or "broken": NewFreezer failed
    frozen, tail,     \* Freezer.frozen, Freezer.tail
    kv,               \* blocks in the key-value store
    height,           \* blocks Offset .. height - 1 are the chain
    era,              \* [block number -> the chain its block belongs to]
    faults            \* machine stops and callback errors so far

store == <<disk, stable>>
run == <<mem, batch, status, frozen, tail>>
chain == <<kv, height, era>>
vars == <<additionTables, store, run, todo, chain, faults>>

Block == Offset .. MaxBlock
Byte(n) == <<n, era[n]>>

NoMeta == -1
NoFiles == [index |-> <<>>, data |-> <<>>, meta |-> NoMeta]
NoMem == [items |-> 0, itemOffset |-> 0, itemHidden |-> 0, headId |-> 0, headBytes |-> 0]
NoBatch == [data |-> <<>>, index |-> <<>>, curItem |-> 0]

Init ==
    /\ additionTables \in {{}, {Blob}}
    /\ disk = [t \in Table |-> NoFiles] /\ stable = disk
    /\ mem = [t \in Table |-> NoMem] /\ batch = [t \in Table |-> NoBatch]
    /\ todo = <<>> /\ status = "closed"
    /\ frozen = Offset /\ tail = Offset
    /\ kv = Block /\ height = MaxBlock + 1 /\ era = [n \in Block |-> 0]
    /\ faults = 0

-----------------------------------------------------------------------------
(* The steps of an operation.                                              *)
Step(do, t, n) == [do |-> do, t |-> t, n |-> n, m |-> 0]
ForAll(order, Steps(_)) == FlattenSeq([i \in DOMAIN order |-> Steps(order[i])])

At(do) == todo # <<>> /\ Head(todo).do = do
Then(steps) == todo' = steps \o Tail(todo)
Abort(steps) == todo' = steps

index(t) == disk[t].index
tailId(t) == index(t)[1][1]
EmptyTable(t) == mem[t].items = 0
LastIndex(ix) == IF Len(ix) = 1 THEN <<ix[1][1], 0>> ELSE Last(ix)
Content(t, f) == IF f \in DOMAIN disk[t].data THEN disk[t].data[f] ELSE <<>>
WithFile(data, f, content) == [g \in DOMAIN data \cup {f} |-> IF g = f THEN content ELSE data[g]]
SetIndex(t, ix) == disk' = [disk EXCEPT ![t].index = ix]
SetFile(t, f, content) == disk' = [disk EXCEPT ![t].data = WithFile(@, f, content)]

(* File.Sync of the index or the metadata, and of data file f. *)
Sync(t, file) == stable' = [stable EXCEPT ![t][file] = disk'[t][file]]
SyncedData(t, f) ==
    IF f \in DOMAIN disk'[t].data THEN WithFile(stable[t].data, f, disk'[t].data[f]) ELSE stable[t].data
SyncFile(t, f) == stable' = [stable EXCEPT ![t].data = SyncedData(t, f)]

(* All three of them, with the head file f. *)
Synced(t, f) == [disk'[t] EXCEPT !.data = SyncedData(t, f)]
SyncAll(t, f) == stable' = [stable EXCEPT ![t] = Synced(t, f)]

-----------------------------------------------------------------------------
(* freezerTableBatch.commit: data first, then the index, each synced.      *)
CommitSteps(t) == << Step("writeData", t, 0), Step("syncData", t, 0),
                     Step("writeIndex", t, 0), Step("syncIndex", t, 0), Step("publish", t, 0) >>

WriteData ==
    /\ At("writeData")
    /\ LET t == Head(todo).t  h == mem[t].headId
       IN /\ SetFile(t, h, Content(t, h) \o batch[t].data)
          /\ Then(<<>>)
    /\ UNCHANGED <<additionTables, stable, run, chain, faults>>

SyncData ==
    /\ At("syncData")
    /\ UNCHANGED disk /\ SyncFile(Head(todo).t, mem[Head(todo).t].headId)
    /\ Then(<<>>)
    /\ UNCHANGED <<additionTables, run, chain, faults>>

WriteIndex ==
    /\ At("writeIndex")
    /\ LET t == Head(todo).t IN SetIndex(t, index(t) \o batch[t].index)
    /\ Then(<<>>)
    /\ UNCHANGED <<additionTables, stable, run, chain, faults>>

SyncIndex ==
    /\ At("syncIndex")
    /\ UNCHANGED disk /\ Sync(Head(todo).t, "index")
    /\ Then(<<>>)
    /\ UNCHANGED <<additionTables, run, chain, faults>>

Publish ==
    /\ At("publish")
    /\ LET t == Head(todo).t
       IN /\ mem' = [mem EXCEPT ![t].headBytes = @ + Len(batch[t].data),
                                ![t].items = batch[t].curItem - Offset]
          /\ batch' = [batch EXCEPT ![t].data = <<>>, ![t].index = <<>>]
    /\ Then(<<>>)
    /\ UNCHANGED <<additionTables, store, status, frozen, tail, chain, faults>>

AdvanceHead ==
    /\ At("advanceHead")
    /\ LET t == Head(todo).t  next == mem[t].headId + 1
       IN /\ SetFile(t, next, <<>>) /\ SyncFile(t, mem[t].headId)
          /\ mem' = [mem EXCEPT ![t].headId = next, ![t].headBytes = 0]
    /\ Then(<<>>)
    /\ UNCHANGED <<additionTables, batch, status, frozen, tail, chain, faults>>

-----------------------------------------------------------------------------
(* freezerTable.truncateHead, resetItems and newTable.                     *)
OpenSteps(t) == << Step("openTable", t, 0), Step("repairTable", t, 0) >>

ResetSteps(t, n) == << Step("removeFiles", t, 0), Step("resetMeta", t, n),
                       Step("removeIndex", t, 0), Step("newIndex", t, n) >> \o OpenSteps(t)

CutSteps(t, n) == << Step("cutIndex", t, n), Step("cutData", t, n) >>

(* Truncate the index and sync it. *)
CutIndex ==
    /\ At("cutIndex")
    /\ LET t == Head(todo).t
       IN SetIndex(t, SubSeq(index(t), 1, Head(todo).n - mem[t].itemOffset + 1)) /\ Sync(t, "index")
    /\ Then(<<>>)
    /\ UNCHANGED <<additionTables, run, chain, faults>>

(* Mutant: headBytes stays that of the old head. *)
CutDataMutant ==
    /\ At("cutData")
    /\ LET t == Head(todo).t
           expected == LastIndex(index(t))
           kept == Restrict(disk[t].data, {f \in DOMAIN disk[t].data : f <= expected[1] \/ f > mem[t].headId})
       IN /\ disk' = [disk EXCEPT ![t].data =
                         WithFile(kept, expected[1], SubSeq(Content(t, expected[1]), 1, expected[2]))]
          /\ SyncFile(t, expected[1])
          /\ mem' = [mem EXCEPT ![t].headId = expected[1], ![t].items = Head(todo).n]
    /\ Then(<<>>)
    /\ UNCHANGED <<additionTables, batch, status, frozen, tail, chain, faults>>

(* Drop the later files, truncate the new head, sync, set the counters. *)
CutData ==
    /\ At("cutData")
    /\ LET t == Head(todo).t
           expected == LastIndex(index(t))
           kept == Restrict(disk[t].data, {f \in DOMAIN disk[t].data : f <= expected[1] \/ f > mem[t].headId})
       IN /\ disk' = [disk EXCEPT ![t].data =
                         WithFile(kept, expected[1], SubSeq(Content(t, expected[1]), 1, expected[2]))]
          /\ SyncFile(t, expected[1])
          /\ mem' = [mem EXCEPT ![t].headId = expected[1], ![t].headBytes = expected[2],
                                ![t].items = Head(todo).n]
    /\ Then(<<>>)
    /\ UNCHANGED <<additionTables, batch, status, frozen, tail, chain, faults>>

RemoveFiles ==
    /\ At("removeFiles")
    /\ LET t == Head(todo).t
       IN disk' = [disk EXCEPT ![t].data =
                      Restrict(@, {f \in DOMAIN @ : f = 0 \/ f \notin tailId(t) .. mem[t].headId})]
    /\ Then(<<>>)
    /\ UNCHANGED <<additionTables, stable, run, chain, faults>>

ResetMeta ==
    /\ At("resetMeta")
    /\ LET t == Head(todo).t
       IN disk' = [disk EXCEPT ![t].meta = Head(todo).n] /\ Sync(t, "meta")
    /\ Then(<<>>)
    /\ UNCHANGED <<additionTables, run, chain, faults>>

RemoveIndex ==
    /\ At("removeIndex")
    /\ SetIndex(Head(todo).t, <<>>)
    /\ Then(<<>>)
    /\ UNCHANGED <<additionTables, stable, run, chain, faults>>

NewIndex ==
    /\ At("newIndex")
    /\ SetIndex(Head(todo).t, << <<0, Head(todo).n>> >>) /\ Sync(Head(todo).t, "index")
    /\ Then(<<>>)
    /\ UNCHANGED <<additionTables, run, chain, faults>>

(* newTable, and repair up to the loop: a new index gets its first entry,  *)
(* the metadata is loaded, the head file is opened or created.             *)
OpenTable ==
    /\ At("openTable")
    /\ LET t == Head(todo).t
           ix == IF index(t) = <<>> THEN << <<0, 0>> >> ELSE index(t)
           hidden == Max({disk[t].meta, ix[1][2]})
           head == LastIndex(ix)[1]
       IN /\ disk' = [disk EXCEPT ![t] = [index |-> ix, meta |-> hidden,
                                          data |-> WithFile(@.data, head, Content(t, head))]]
          /\ mem' = [mem EXCEPT ![t] = [NoMem EXCEPT !.itemOffset = ix[1][2], !.itemHidden = hidden]]
    /\ Then(<<>>)
    /\ UNCHANGED <<additionTables, stable, batch, status, frozen, tail, chain, faults>>

(* One round of repair's loop, or its end: both files are in step.         *)
RepairTable ==
    /\ At("repairTable")
    /\ LET t == Head(todo).t
           last == LastIndex(index(t))
           size == Len(Content(t, last[1]))
       IN \/ /\ last[2] < size
             /\ SetFile(t, last[1], SubSeq(Content(t, last[1]), 1, last[2]))
             /\ UNCHANGED <<todo, stable, run>>
          \/ /\ last[2] > size
             /\ SetIndex(t, Front(index(t)))
             /\ UNCHANGED <<todo, stable, run>>
          \/ /\ last[2] = size
             /\ SetFile(t, last[1], Content(t, last[1]))
             /\ SyncAll(t, last[1])
             /\ mem' = [mem EXCEPT ![t].items = mem[t].itemOffset + Len(index(t)) - 1,
                                   ![t].headId = last[1], ![t].headBytes = size]
             /\ UNCHANGED <<batch, frozen, tail>>
             /\ IF (tailId(t) .. last[1]) \subseteq DOMAIN disk'[t].data
                THEN Then(<<>>) /\ UNCHANGED status
                ELSE Abort(<<>>) /\ status' = "broken"
    /\ UNCHANGED <<additionTables, chain, faults>>

-----------------------------------------------------------------------------
(* freezerTable.truncateTail.                                              *)
EntryOf(t, i) == index(t)[i - mem[t].itemOffset + 2]

NewTailId(t, n) == IF mem[t].items = n THEN mem[t].headId ELSE EntryOf(t, n)[1]

(* The first of the items before n that share a file with the new tail.    *)
NewDeleted(t, n) ==
    Min({n} \cup {i \in mem[t].itemOffset .. n - 1 :
                     \A j \in i .. n - 1 : EntryOf(t, j)[1] = NewTailId(t, n)})

DropSteps(t, n) == << Step("syncMeta", t, 0), Step("replaceIndex", t, n) >>

TruncateTailOf ==
    /\ At("truncateTail")
    /\ LET t == Head(todo).t  n == Head(todo).n
       IN \/ /\ mem[t].itemHidden >= n
             /\ Then(<<>>) /\ UNCHANGED <<disk, run>>
          \/ /\ mem[t].itemHidden < n /\ mem[t].items < n
             /\ Abort(<<>>) /\ status' = "broken"
             /\ UNCHANGED <<disk, mem, batch, frozen, tail>>
          \/ /\ mem[t].itemHidden < n /\ mem[t].items >= n
             /\ mem' = [mem EXCEPT ![t].itemHidden = n]
             /\ disk' = [disk EXCEPT ![t].meta = n]
             /\ Then(IF NewTailId(t, n) = tailId(t) THEN <<>> ELSE DropSteps(t, n))
             /\ UNCHANGED <<batch, status, frozen, tail>>
    /\ UNCHANGED <<additionTables, stable, chain, faults>>

(* Mutant: the metadata is not synced before the index is replaced. *)
SyncMetaMutant ==
    /\ At("syncMeta")
    /\ Then(<<>>)
    /\ UNCHANGED <<additionTables, store, run, chain, faults>>

SyncMeta ==
    /\ At("syncMeta")
    /\ UNCHANGED disk /\ Sync(Head(todo).t, "meta")
    /\ Then(<<>>)
    /\ UNCHANGED <<additionTables, run, chain, faults>>

(* copyFrom renames the shortened index over the old one, which is synced; *)
(* then the files before the new tail go.                                  *)
ReplaceIndex ==
    /\ At("replaceIndex")
    /\ LET t == Head(todo).t
           deleted == NewDeleted(t, Head(todo).n)
           new == NewTailId(t, Head(todo).n)
       IN /\ SetIndex(t, << <<new, deleted>> >> \o
                         SubSeq(index(t), deleted - mem[t].itemOffset + 2, Len(index(t))))
          /\ Sync(t, "index")
          /\ mem' = [mem EXCEPT ![t].itemOffset = deleted]
          /\ Then(<< Step("dropFiles", t, tailId(t)) >>)
    /\ UNCHANGED <<additionTables, batch, status, frozen, tail, chain, faults>>

(* Mutant: the file of the new tail goes too. *)
DropFilesMutant ==
    /\ At("dropFiles")
    /\ LET t == Head(todo).t
       IN disk' = [disk EXCEPT ![t].data =
                      Restrict(@, {f \in DOMAIN @ : f \notin Head(todo).n .. tailId(t)})]
    /\ Then(<<>>)
    /\ UNCHANGED <<additionTables, stable, run, chain, faults>>

DropFiles ==
    /\ At("dropFiles")
    /\ LET t == Head(todo).t
       IN disk' = [disk EXCEPT ![t].data =
                      Restrict(@, {f \in DOMAIN @ : f \notin Head(todo).n .. tailId(t) - 1})]
    /\ Then(<<>>)
    /\ UNCHANGED <<additionTables, stable, run, chain, faults>>

-----------------------------------------------------------------------------
(* truncateHead and, unless the table was reset, truncateTail: what repair *)
(* and TruncateHead do with a table (TruncateHead with m = 0).             *)
Align ==
    /\ At("align")
    /\ LET t == Head(todo).t  n == Head(todo).n  m == Head(todo).m
           ThenTail(steps) == Then(steps \o << Step("truncateTail", t, m) >>)
       IN \/ /\ mem[t].items <= n
             /\ ThenTail(<<>>) /\ UNCHANGED status
          \/ /\ mem[t].items > n /\ n >= mem[t].itemHidden
             /\ ThenTail(CutSteps(t, n)) /\ UNCHANGED status
          \/ /\ mem[t].items > n /\ n < mem[t].itemHidden /\ t \in additionTables
             /\ Then(ResetSteps(t, n)) /\ UNCHANGED status
          \/ /\ mem[t].items > n /\ n < mem[t].itemHidden /\ t \notin additionTables
             /\ Abort(<<>>) /\ status' = "broken"
    /\ UNCHANGED <<additionTables, store, mem, batch, frozen, tail, chain, faults>>

(* Freezer.repair: the shortest table is everyone's head, the longest      *)
(* hidden tail everyone's tail.                                            *)
Aligned(t) == ~(t \in additionTables /\ EmptyTable(t))

Repair ==
    /\ At("repair")
    /\ \E order \in SetToSeqs(Table) :
          LET head == Min({mem[t].items : t \in {u \in Table : Aligned(u)}})
              hidden == Max({mem[t].itemHidden : t \in Table \ additionTables})
              AlignOne(t) == IF Aligned(t) THEN << [Step("align", t, head) EXCEPT !.m = hidden] >> ELSE <<>>
          IN Then(ForAll(order, AlignOne) \o << [Step("opened", Blob, head) EXCEPT !.m = hidden] >>)
    /\ UNCHANGED <<additionTables, store, run, chain, faults>>

ResetBatch(t) == [NoBatch EXCEPT !.curItem = mem[t].items + Offset]

Opened ==
    /\ At("opened")
    /\ status' = "open"
    /\ frozen' = Head(todo).n + Offset /\ tail' = Head(todo).m + Offset
    /\ batch' = [t \in Table |-> ResetBatch(t)]
    /\ Then(<<>>)
    /\ UNCHANGED <<additionTables, store, mem, chain, faults>>

NewFreezer ==
    /\ status = "closed" /\ todo = <<>>
    /\ \E order \in SetToSeqs(Table) : todo' = ForAll(order, OpenSteps) \o << Step("repair", Blob, 0) >>
    /\ UNCHANGED <<additionTables, store, run, chain, faults>>

-----------------------------------------------------------------------------
(* ModifyAncients: reset the batch, run freezeRange's callback for the     *)
(* blocks n .. m, compare the counts, commit every table.                  *)
HasItem(t, n) == t \notin additionTables \/ n >= Cancun

Modify ==
    /\ At("modify")
    /\ \E order \in SetToSeqs(Table) :
          LET first == Head(todo).n  last == Head(todo).m
              AppendBlock(n) == ForAll(SetToSeq({t \in Table : HasItem(t, n)}), LAMBDA t : << Step("append", t, n) >>)
              Appends == FlattenSeq([i \in 1 .. last - first + 1 |-> AppendBlock(first + i - 1)])
          IN Then(Appends \o << Step("check", Blob, 0) >> \o ForAll(order, CommitSteps)
                          \o << Step("frozen", Blob, last + 1) >>)
    /\ batch' = [t \in Table |-> ResetBatch(t)]
    /\ UNCHANGED <<additionTables, store, mem, status, frozen, tail, chain, faults>>

RollbackSteps == ForAll(SetToSeq(Table), LAMBDA t : << Step("rollback", t, frozen) >>)

(* Mutant: the callback's error is returned, nothing is undone. *)
RollbackMutant == todo' = <<>>

(* Mutant: after an error the loop goes on to wipe the blocks. *)
RollbackThenWipe == todo' = RollbackSteps \o SelectSeq(todo, LAMBDA s : s.do = "wipe")

(* The deferred function: an error takes every table back to prevItem.     *)
Rollback == Abort(RollbackSteps)

(* appendItem; a block that is not in the key-value store, or an item out  *)
(* of order, is an error.                                                  *)
Append1 ==
    /\ At("append")
    /\ LET t == Head(todo).t  n == Head(todo).n  b == batch[t]
           end == mem[t].headBytes + Len(b.data) + 1
           full == Len(b.data) + 1 > freezerBatchBufferLimit
       IN \/ /\ n \notin kv \/ b.curItem # n
             /\ Rollback /\ UNCHANGED batch
          \/ /\ n \in kv /\ b.curItem = n /\ end > maxFileSize
             /\ todo' = CommitSteps(t) \o << Step("advanceHead", t, 0) >> \o todo
             /\ UNCHANGED batch
          \/ /\ n \in kv /\ b.curItem = n /\ end <= maxFileSize
             /\ batch' = [batch EXCEPT ![t] = [data |-> Append(@.data, Byte(n)),
                                               index |-> Append(@.index, <<mem[t].headId, end>>),
                                               curItem |-> @.curItem + 1]]
             /\ Then(IF full THEN CommitSteps(t) ELSE <<>>)
    /\ UNCHANGED <<additionTables, store, mem, status, frozen, tail, chain, faults>>

(* The callback fails for a reason of its own. *)
CallbackError ==
    /\ At("append") /\ faults < MaxFaults
    /\ Rollback
    /\ faults' = faults + 1
    /\ UNCHANGED <<additionTables, store, run, chain>>

CheckCounts ==
    /\ At("check")
    /\ IF \A t, u \in Table : Aligned(t) /\ Aligned(u) => batch[t].curItem = batch[u].curItem
       THEN Then(<<>>) ELSE Rollback
    /\ UNCHANGED <<additionTables, store, run, chain, faults>>

SetFrozen ==
    /\ At("frozen")
    /\ frozen' = Head(todo).n
    /\ Then(<<>>)
    /\ UNCHANGED <<additionTables, store, mem, batch, status, tail, chain, faults>>

RollbackTable ==
    /\ At("rollback")
    /\ LET t == Head(todo).t  n == Head(todo).n
       IN Then(IF mem[t].items <= n \/ n < mem[t].itemHidden THEN <<>> ELSE CutSteps(t, n))
    /\ UNCHANGED <<additionTables, store, run, chain, faults>>

-----------------------------------------------------------------------------
Idle == status = "open" /\ todo = <<>>

(* One round of the chain freezer's loop for the blocks up to last:        *)
(* freezeRangeWithBlobs, Sync, the blocks leave the key-value store, and   *)
(* the oldest sidecars go.                                                 *)
Modification(first, last) ==
    IF first > last THEN <<>> ELSE << [Step("modify", Blob, first) EXCEPT !.m = last] >>

freeze(last) ==
    /\ Idle
    /\ last \in frozen .. height - 1
    /\ LET first == Max({frozen, Cancun})
           Wipe == ForAll(SetToSeq(Table), LAMBDA t : << Step("sync", t, 0) >>)
                   \o << [Step("wipe", Blob, frozen) EXCEPT !.m = last] >>
                   \o IF additionTables = {} THEN <<>> ELSE << Step("prune", Blob, 0) >>
       IN todo' = (IF last < Cancun \/ additionTables = {}
                   THEN Modification(frozen, last)
                   ELSE Modification(frozen, first - 1) \o << Step("resetEmpty", Blob, first) >>
                        \o Modification(first, last)) \o Wipe
    /\ UNCHANGED <<additionTables, store, run, chain, faults>>

(* Mutant: the empty table is not moved up to the first block with blobs. *)
ResetEmptyMutant ==
    /\ At("resetEmpty")
    /\ Then(<<>>)
    /\ UNCHANGED <<additionTables, store, run, chain, faults>>

(* ResetTable with onlyEmpty: Sync, resetItems and repair. *)
ResetEmpty ==
    /\ At("resetEmpty")
    /\ LET t == Head(todo).t
       IN IF EmptyTable(t)
          THEN Then(ForAll(SetToSeq(Table), LAMBDA u : << Step("sync", u, 0) >>)
                    \o ResetSteps(t, Head(todo).n - Offset) \o << Step("repair", t, 0) >>)
          ELSE Then(<<>>)
    /\ UNCHANGED <<additionTables, store, run, chain, faults>>

SyncTable ==
    /\ At("sync")
    /\ UNCHANGED disk /\ SyncAll(Head(todo).t, mem[Head(todo).t].headId)
    /\ Then(<<>>)
    /\ UNCHANGED <<additionTables, run, chain, faults>>

WipeBlocks ==
    /\ At("wipe")
    /\ kv' = kv \ ((Head(todo).n .. Head(todo).m) \ {0})
    /\ Then(<<>>)
    /\ UNCHANGED <<additionTables, store, run, height, era, faults>>

(* tryPruneBlobAncientTable: how many sidecars are kept is configured; an  *)
(* error of TruncateTableTail is logged.                                   *)
TruncateTableTail ==
    /\ At("prune")
    /\ \/ Then(<<>>)
       \/ \E n \in mem[Blob].itemHidden + 1 .. mem[Blob].items : Then(<< Step("truncateTail", Blob, n) >>)
    /\ UNCHANGED <<additionTables, store, run, chain, faults>>

(* SetHead rewinds the chain to the first n blocks: TruncateHead.          *)
Rewinds == Max({era[n] : n \in Block})

TruncateHead(n) ==
    /\ Idle /\ Rewinds < MaxRewinds
    /\ n \in tail .. frozen - 1 /\ n > 0
    /\ height' = Min({height, n})
    /\ \E order \in SetToSeqs(Table) :
          todo' = ForAll(order, LAMBDA t : << Step("align", t, n - Offset) >>)
                  \o << Step("rewound", Blob, n) >>
    /\ UNCHANGED <<additionTables, store, run, kv, era, faults>>

Rewound ==
    /\ At("rewound")
    /\ frozen' = Head(todo).n
    /\ kv' = {m \in kv : m < Head(todo).n}
    /\ era' = [m \in Block |-> IF m < Head(todo).n THEN era[m] ELSE Rewinds + 1]
    /\ Then(<<>>)
    /\ UNCHANGED <<additionTables, store, mem, batch, status, tail, height, faults>>

(* The chain grows again. *)
Import ==
    /\ Idle /\ height <= MaxBlock
    /\ height' = MaxBlock + 1
    /\ kv' = kv \cup frozen .. MaxBlock
    /\ UNCHANGED <<additionTables, store, run, todo, era, faults>>

(* TruncateTail: old state histories. *)
TruncateTail(n) ==
    /\ Idle /\ additionTables = {}
    /\ n \in tail + 1 .. frozen
    /\ \E order \in SetToSeqs(Table) :
          todo' = ForAll(order, LAMBDA t : << Step("truncateTail", t, n - Offset) >>) \o << Step("tail", Blob, n) >>
    /\ UNCHANGED <<additionTables, store, run, chain, faults>>

SetTail ==
    /\ At("tail")
    /\ tail' = Head(todo).n
    /\ Then(<<>>)
    /\ UNCHANGED <<additionTables, store, mem, batch, status, frozen, chain, faults>>

Close ==
    /\ Idle
    /\ UNCHANGED disk
    /\ stable' = [t \in Table |-> Synced(t, mem[t].headId)]
    /\ status' = "closed"
    /\ UNCHANGED <<additionTables, mem, batch, frozen, tail, todo, chain, faults>>

-----------------------------------------------------------------------------
(* What is left of a file that was old when last synced and is new now.    *)
Survivors(old, new) ==
    {old} \cup {SubSeq(new, 1, k) :
                   k \in Max({j \in 0 .. Min({Len(old), Len(new)}) : SubSeq(old, 1, j) = SubSeq(new, 1, j)})
                         .. Len(new)}

Gone == << <<-1, -1>> >>
FileSurvivors(old, new, f) ==
    IF f \in DOMAIN old /\ f \in DOMAIN new THEN Survivors(old[f], new[f])
    ELSE IF f \in DOMAIN old THEN {Gone, old[f]} ELSE {Gone} \cup Survivors(<<>>, new[f])

(* One choice for each member of left's domain. *)
OneOfEach(left) ==
    {g \in [DOMAIN left -> UNION Range(left)] : \A x \in DOMAIN left : g[x] \in left[x]}

DataSurvivors(old, new) ==
    IF old = new THEN {new}
    ELSE LET files == DOMAIN old \cup DOMAIN new
             left == [f \in files |-> FileSurvivors(old, new, f)]
         IN {Restrict(g, {f \in files : g[f] # Gone}) : g \in OneOfEach(left)}

TableSurvivors(t) ==
    [index : Survivors(stable[t].index, disk[t].index),
     data : DataSurvivors(stable[t].data, disk[t].data),
     meta : {stable[t].meta, disk[t].meta}]

(* The machine stops; what was not synced may be lost.                     *)
Crash ==
    /\ faults < MaxFaults
    /\ status # "broken" /\ (status = "open" \/ todo # <<>>)
    /\ disk' \in OneOfEach([t \in Table |-> TableSurvivors(t)])
    /\ stable' = disk'
    /\ mem' = [t \in Table |-> NoMem] /\ batch' = [t \in Table |-> NoBatch]
    /\ todo' = <<>> /\ status' = "closed"
    /\ faults' = faults + 1
    /\ UNCHANGED <<additionTables, frozen, tail, chain>>

Operation ==
    \/ WriteData \/ SyncData \/ WriteIndex \/ SyncIndex \/ Publish \/ AdvanceHead
    \/ CutIndex \/ CutData \/ RemoveFiles \/ ResetMeta \/ RemoveIndex \/ NewIndex
    \/ OpenTable \/ RepairTable \/ TruncateTailOf \/ SyncMeta \/ ReplaceIndex \/ DropFiles
    \/ Align \/ Repair \/ Opened
    \/ Modify \/ Append1 \/ CheckCounts \/ SetFrozen \/ RollbackTable
    \/ ResetEmpty \/ SyncTable \/ WipeBlocks \/ TruncateTableTail \/ Rewound \/ SetTail

Next ==
    \/ Operation \/ NewFreezer \/ Import
    \/ \E n \in Block : freeze(n) \/ TruncateHead(n)
    \/ \E n \in Offset .. MaxBlock + 1 : TruncateTail(n)
    \/ Close \/ CallbackError \/ Crash

Spec == Init /\ [][Next]_vars

(* An operation runs to its end, a stopped node is started again, and the  *)
(* chain and the freezer's timer get their turn between restarts.          *)
FairSpec ==
    /\ Spec
    /\ WF_vars(Operation) /\ WF_vars(NewFreezer)
    /\ SF_vars(Import) /\ SF_vars(freeze(MaxBlock))

-----------------------------------------------------------------------------
(* retrieveItems of one item: the bytes between its index entry and the    *)
(* one before, which stands for offset 0 of the item's file when it is the *)
(* first entry or belongs to an earlier file; nothing when a read fails.   *)
Retrieve(t, i) ==
    LET p == i - mem[t].itemOffset + 1
        end == index(t)[p + 1]
        start == IF p = 1 \/ index(t)[p][1] # end[1] THEN 0 ELSE index(t)[p][2]
    IN IF p \in 1 .. Len(index(t)) - 1 /\ end[2] <= Len(Content(t, end[1]))
       THEN SubSeq(Content(t, end[1]), start + 1, end[2])
       ELSE <<>>

(* The steps a table takes with its lock held, the first one excepted. *)
Locked(t) ==
    /\ todo # <<>> /\ Head(todo).t = t
    /\ Head(todo).do \in {"cutData", "syncMeta", "replaceIndex", "dropFiles", "resetMeta",
                          "removeIndex", "newIndex", "openTable", "repairTable"}

(* Whatever appends, truncations and machine stops came before, a reader   *)
(* that can take a table's lock finds every item between itemHidden and    *)
(* items, and finds the block of the present chain.                        *)
Readable ==
    status = "open" =>
        \A t \in Table : ~Locked(t) =>
            \A i \in mem[t].itemHidden .. mem[t].items - 1 : Retrieve(t, i) = << Byte(i + Offset) >>

(* No block of the chain is lost between the two stores: it is in the      *)
(* key-value store or frozen, also when the machine stopped between        *)
(* ModifyAncients, Sync and the wipe.                                      *)
NoBlockLost ==
    status = "open" => \A n \in Block : n < height => n \in kv \/ n < frozen

(* Between operations the tables end at the same item, an empty addition   *)
(* table excepted, and all but an addition table start at the same one:    *)
(* the next append is in order everywhere.                                 *)
TablesAligned ==
    Idle => \A t \in Table :
               /\ Aligned(t) => mem[t].items + Offset = frozen
               /\ t \notin additionTables => mem[t].itemHidden + Offset = tail

(* NewFreezer repairs whatever a machine stop leaves behind. *)
NeverBroken == status # "broken"

(* The metadata's VirtualTail "should never be lower than the actual tail" *)
(* when a table is opened.                                                 *)
VirtualTailCovers ==
    status = "closed" =>
        \A t \in Table \ additionTables :
            disk[t].index # <<>> /\ disk[t].meta # NoMeta => disk[t].meta >= disk[t].index[1][2]

(* freeze "moves ancient data from the fast database into the freezer":    *)
(* every block of the chain is frozen in the end.                          *)
FreezeProgress == []<>(frozen = MaxBlock + 1)
=============================================================================
