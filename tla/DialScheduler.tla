--------------------------- MODULE DialScheduler ---------------------------
(***************************************************************************)
(* The dial scheduler of the p2p server (p2p/dial.go): one goroutine, loop,*)
(* that owns the maps and handles one event at a time.  Before it waits    *)
(* for the next event it starts static dials while there are free slots,   *)
(* and it reads candidates of the discovery iterator only when slots are   *)
(* left over.                                                              *)
(*                                                                         *)
(* Here the events come from an arbitrary environment: any node may be     *)
(* reported as connected or gone, and a dial ends at any time.  P2PServer  *)
(* puts the real server in its place.  Time is left out: an entry of the   *)
(* dial history may expire at any moment, the oldest first.                *)
(***************************************************************************)
EXTENDS Integers, Sequences, FiniteSets

CONSTANTS
    Node,             \* nodes that may be dialed
    maxDialPeers, maxActiveDials

ASSUME DialAssumption ==
    IsFiniteSet(Node) /\ maxDialPeers \in Nat /\ maxActiveDials \in Nat

VARIABLES
    dialing,          \* [Node -> flag of the running task, "none" without one]
    dialed,           \* dialScheduler.peers
    dialPeers,
    static,           \* nodes with a static task
    staticPool,       \* sequence of nodes
    staticPoolIndex,  \* [Node -> index of its static task in the pool, 0: none]
    history,          \* sequence of nodes, the oldest dial first
    loop              \* "start": at the top; "select"; "expiring";
                      \* "draining", "done": stop was called

dialVars == <<dialing, dialed, dialPeers, static, staticPool, staticPoolIndex, history, loop>>

dynDialedConn == "dynDialedConn"
staticDialedConn == "staticDialedConn"
none == "none"

DialInit ==
    /\ dialing = [n \in Node |-> none]
    /\ dialed = {} /\ dialPeers = 0
    /\ static = {} /\ staticPool = <<>> /\ staticPoolIndex = [n \in Node |-> 0]
    /\ history = <<>> /\ loop = "start"

-----------------------------------------------------------------------------
Dialing == {n \in Node : dialing[n] # none}
Recent == {history[i] : i \in DOMAIN history}

(* Mutant: the running tasks are not subtracted. *)
freeDialSlotsMutant ==
    LET slots == (maxDialPeers - dialPeers) * 2
    IN IF slots > maxActiveDials THEN maxActiveDials ELSE slots

freeDialSlots ==
    LET slots == (maxDialPeers - dialPeers) * 2
    IN (IF slots > maxActiveDials THEN maxActiveDials ELSE slots) - Cardinality(Dialing)

(* The node is not being dialed, connected or recently dialed. *)
checkDial(n) == n \notin Dialing /\ n \notin dialed /\ n \notin Recent

addToStaticPool(n) ==
    /\ staticPool' = Append(staticPool, n)
    /\ staticPoolIndex' = [staticPoolIndex EXCEPT ![n] = Len(staticPool) + 1]

(* Moves n back into the pool if checkDial allows it after the step. *)
updateStaticPool(n) ==
    IF /\ n \in static /\ staticPoolIndex[n] = 0
       /\ n \notin Dialing' /\ n \notin dialed' /\ n \notin Recent'
    THEN addToStaticPool(n)
    ELSE UNCHANGED <<staticPool, staticPoolIndex>>

(* The last node of the pool takes the place of the one at idx. *)
removeFromStaticPool(idx) ==
    LET last == Len(staticPool)
        task == staticPool[idx]
        moved == staticPool[last]
    IN /\ staticPool' = [i \in 1 .. last - 1 |-> IF i = idx THEN moved ELSE staticPool[i]]
       /\ staticPoolIndex' = [n \in Node |->
             IF n = task THEN 0 ELSE IF n = moved THEN idx ELSE staticPoolIndex[n]]

startDial(n, flag) ==
    /\ history' = Append(history, n)
    /\ dialing' = [dialing EXCEPT ![n] = flag]

-----------------------------------------------------------------------------
(* One round of startStaticDials, and its end.                             *)
StartStaticDial(idx) ==
    /\ loop = "start" /\ freeDialSlots > 0 /\ idx \in DOMAIN staticPool
    /\ startDial(staticPool[idx], staticDialedConn)
    /\ removeFromStaticPool(idx)
    /\ UNCHANGED <<dialed, dialPeers, static, loop>>

StaticDialsStarted ==
    /\ loop = "start"
    /\ freeDialSlots <= 0 \/ staticPool = <<>>
    /\ loop' = "select"
    /\ UNCHANGED <<dialing, dialed, dialPeers, static, staticPool, staticPoolIndex, history>>

(* The cases of the select. *)
Event == loop = "select" /\ loop' = "start"

NodeIn(n) ==
    /\ Event
    /\ freeDialSlots > 0
    /\ IF checkDial(n) THEN startDial(n, dynDialedConn) ELSE UNCHANGED <<history, dialing>>
    /\ UNCHANGED <<dialed, dialPeers, static, staticPool, staticPoolIndex>>

TaskDone(n) ==
    /\ Event
    /\ dialing[n] # none
    /\ dialing' = [dialing EXCEPT ![n] = none]
    /\ UNCHANGED <<dialed, dialPeers, static, history>>
    /\ updateStaticPool(n)

PeerAdded(n, outbound) ==
    /\ Event
    /\ dialPeers' = IF outbound THEN dialPeers + 1 ELSE dialPeers
    /\ dialed' = dialed \cup {n}
    /\ IF n \in static /\ staticPoolIndex[n] > 0
       THEN removeFromStaticPool(staticPoolIndex[n])
       ELSE UNCHANGED <<staticPool, staticPoolIndex>>
    /\ UNCHANGED <<dialing, static, history>>

(* Mutant: the static task is not put back. *)
PeerRemovedMutant(n, outbound) ==
    /\ Event
    /\ dialPeers' = IF outbound THEN dialPeers - 1 ELSE dialPeers
    /\ dialed' = dialed \ {n}
    /\ UNCHANGED <<dialing, static, history, staticPool, staticPoolIndex>>

PeerRemoved(n, outbound) ==
    /\ Event
    /\ dialPeers' = IF outbound THEN dialPeers - 1 ELSE dialPeers
    /\ dialed' = dialed \ {n}
    /\ UNCHANGED <<dialing, static, history>>
    /\ updateStaticPool(n)

AddStatic(n) ==
    /\ Event
    /\ static' = static \cup {n}
    /\ IF n \notin static /\ checkDial(n)
       THEN addToStaticPool(n)
       ELSE UNCHANGED <<staticPool, staticPoolIndex>>
    /\ UNCHANGED <<dialing, dialed, dialPeers, history>>

RemoveStatic(n) ==
    /\ Event
    /\ static' = static \ {n}
    /\ IF n \in static /\ staticPoolIndex[n] > 0
       THEN removeFromStaticPool(staticPoolIndex[n])
       ELSE UNCHANGED <<staticPool, staticPoolIndex>>
    /\ UNCHANGED <<dialing, dialed, dialPeers, history>>

(* Mutant: expiry does not look at the static tasks. *)
ExpireHistoryMutant ==
    /\ loop \in {"select", "expiring"} /\ history # <<>>
    /\ history' = Tail(history)
    /\ loop' \in IF Len(history) > 1 THEN {"expiring", "start"} ELSE {"start"}
    /\ UNCHANGED <<dialing, dialed, dialPeers, static, staticPool, staticPoolIndex>>

(* The timer: one round of expire's loop, which may go on.                 *)
ExpireHistory ==
    /\ loop \in {"select", "expiring"} /\ history # <<>>
    /\ history' = Tail(history)
    /\ loop' \in IF Len(history) > 1 THEN {"expiring", "start"} ELSE {"start"}
    /\ UNCHANGED <<dialing, dialed, dialPeers, static>>
    /\ updateStaticPool(Head(history))

(* stop: the context is cancelled, and the running tasks are awaited.      *)
Cancel ==
    /\ loop = "select"
    /\ loop' = "draining"
    /\ UNCHANGED <<dialing, dialed, dialPeers, static, staticPool, staticPoolIndex, history>>

Drain(n) ==
    /\ loop = "draining" /\ dialing[n] # none
    /\ dialing' = [dialing EXCEPT ![n] = none]
    /\ UNCHANGED <<dialed, dialPeers, static, staticPool, staticPoolIndex, history, loop>>

Drained ==
    /\ loop = "draining" /\ Dialing = {}
    /\ loop' = "done"
    /\ UNCHANGED <<dialing, dialed, dialPeers, static, staticPool, staticPoolIndex, history>>

DialNext ==
    \/ \E idx \in DOMAIN staticPool : StartStaticDial(idx)
    \/ \E n \in Node : NodeIn(n) \/ TaskDone(n) \/ AddStatic(n) \/ RemoveStatic(n) \/ Drain(n)
    \/ \E n \in Node, outbound \in BOOLEAN : PeerAdded(n, outbound) \/ PeerRemoved(n, outbound)
    \/ ExpireHistory \/ StaticDialsStarted \/ Cancel \/ Drained

DialSpec == DialInit /\ [][DialNext]_dialVars

-----------------------------------------------------------------------------
(* The pool holds exactly the static nodes that may be dialed, each once   *)
(* and at the index its task remembers: no static node is forgotten when a *)
(* dial, a connection or a history entry ends, and none is dialed twice.   *)
StaticPoolExact ==
    /\ \A i \in DOMAIN staticPool : staticPoolIndex[staticPool[i]] = i
    /\ \A n \in Node : staticPoolIndex[n] # 0 =>
          staticPoolIndex[n] \in DOMAIN staticPool /\ staticPool[staticPoolIndex[n]] = n
    /\ loop # "draining" /\ loop # "done" =>
          \A n \in Node : staticPoolIndex[n] # 0 <=> n \in static /\ checkDial(n)

(* No more than maxActiveDials tasks run, whatever connects meanwhile and  *)
(* makes freeDialSlots negative.                                           *)
ActiveDialsBounded == Cardinality(Dialing) <= maxActiveDials
=============================================================================
