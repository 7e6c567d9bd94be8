------------------------ MODULE DialSchedulerProofs ------------------------
(***************************************************************************)
(* StaticPoolExact and ActiveDialsBounded for every set of nodes and every *)
(* limit, whatever the environment reports to the dial scheduler.          *)
(*                                                                         *)
(* StaticPoolExact is not inductive.  Starting a dial from the iterator    *)
(* would leave its node in the pool, were the pool not empty whenever the  *)
(* loop reads candidates (Served); and a node whose entry leaves the       *)
(* history may be dialed only because no second entry is left              *)
(* (HistoryDistinct).                                                      *)
(***************************************************************************)
EXTENDS DialScheduler, FiniteSetTheorems, TLAPS

DialTypeOK ==
    /\ dialing \in [Node -> {none, dynDialedConn, staticDialedConn}]
    /\ dialed \subseteq Node /\ dialPeers \in Int
    /\ static \subseteq Node /\ staticPool \in Seq(Node)
    /\ staticPoolIndex \in [Node -> Nat]
    /\ history \in Seq(Node)
    /\ loop \in {"start", "select", "expiring", "draining", "done"}

Running == loop # "draining" /\ loop # "done"

IndexExact ==
    /\ \A i \in DOMAIN staticPool : staticPoolIndex[staticPool[i]] = i
    /\ \A n \in Node : staticPoolIndex[n] # 0 =>
          staticPoolIndex[n] \in DOMAIN staticPool /\ staticPool[staticPoolIndex[n]] = n

PoolExact ==
    Running => \A n \in Node : staticPoolIndex[n] # 0 <=> n \in static /\ checkDial(n)

HistoryDistinct == \A i, j \in DOMAIN history : history[i] = history[j] => i = j

Served == loop = "select" => freeDialSlots <= 0 \/ staticPool = <<>>

IInv ==
    /\ DialTypeOK /\ IndexExact /\ PoolExact
    /\ HistoryDistinct /\ Served /\ ActiveDialsBounded

-----------------------------------------------------------------------------
(* removeFromStaticPool takes one node out and keeps every other index     *)
(* exact, although the last node moves.                                    *)
LEMMA RemoveFromPool ==
    ASSUME DialTypeOK, IndexExact, NEW idx \in DOMAIN staticPool, removeFromStaticPool(idx)
    PROVE  /\ staticPool' \in Seq(Node) /\ staticPoolIndex' \in [Node -> Nat]
           /\ IndexExact'
           /\ staticPoolIndex'[staticPool[idx]] = 0
           /\ \A n \in Node : n # staticPool[idx] => (staticPoolIndex'[n] # 0 <=> staticPoolIndex[n] # 0)
<1> DEFINE last == Len(staticPool)
<1>1. /\ last \in Nat /\ idx \in 1 .. last /\ DOMAIN staticPool = 1 .. last
      /\ \A i \in 1 .. last : staticPool[i] \in Node
  BY DEF DialTypeOK
<1>2. staticPool' = [i \in 1 .. last - 1 |-> IF i = idx THEN staticPool[last] ELSE staticPool[i]]
  BY DEF removeFromStaticPool
<1>3. staticPoolIndex' = [n \in Node |->
          IF n = staticPool[idx] THEN 0 ELSE IF n = staticPool[last] THEN idx ELSE staticPoolIndex[n]]
  BY DEF removeFromStaticPool
<1>4. \A i, j \in 1 .. last : staticPool[i] = staticPool[j] => i = j
  BY <1>1 DEF IndexExact
<1>5. last - 1 \in Nat /\ last \in 1 .. last
  BY <1>1
<1>6. staticPool' \in Seq(Node) /\ DOMAIN staticPool' = 1 .. last - 1
  BY <1>1, <1>2, <1>5
<1>7. staticPoolIndex' \in [Node -> Nat]
  BY <1>1, <1>3 DEF DialTypeOK
<1>8. \A i \in DOMAIN staticPool' : staticPoolIndex'[staticPool'[i]] = i
  <2> SUFFICES ASSUME NEW i \in 1 .. last - 1 PROVE staticPoolIndex'[staticPool'[i]] = i
    BY <1>6
  <2>1. i \in 1 .. last /\ i # last
    BY <1>5
  <2>2. CASE i = idx
    BY <2>1, <2>2, <1>1, <1>2, <1>3, <1>4, <1>5
  <2>3. CASE i # idx
    <3>1. staticPool'[i] = staticPool[i] /\ staticPool[i] \in Node
      BY <2>1, <2>3, <1>1, <1>2
    <3>2. staticPool[i] # staticPool[idx] /\ staticPool[i] # staticPool[last]
      BY <2>1, <2>3, <1>1, <1>4, <1>5
    <3>3. staticPoolIndex[staticPool[i]] = i
      BY <2>1, <1>1 DEF IndexExact
    <3>4. staticPoolIndex'[staticPool[i]] = staticPoolIndex[staticPool[i]]
      BY <3>1, <3>2, <1>3
    <3> QED
      BY <3>1, <3>3, <3>4
  <2> QED
    BY <2>2, <2>3
<1>9. ASSUME NEW n \in Node, staticPoolIndex'[n] # 0
      PROVE  staticPoolIndex'[n] \in DOMAIN staticPool' /\ staticPool'[staticPoolIndex'[n]] = n
  <2>1. n # staticPool[idx]
    BY <1>3, <1>9
  <2>2. CASE n = staticPool[last]
    <3>1. staticPoolIndex'[n] = idx /\ idx # last
      BY <2>1, <2>2, <1>3
    <3> QED
      BY <3>1, <2>2, <1>1, <1>2, <1>5, <1>6
  <2>3. CASE n # staticPool[last]
    <3>1. staticPoolIndex'[n] = staticPoolIndex[n]
      BY <2>1, <2>3, <1>3
    <3>2. staticPoolIndex[n] \in 1 .. last /\ staticPool[staticPoolIndex[n]] = n
      BY <3>1, <1>1, <1>9 DEF IndexExact
    <3>3. staticPoolIndex[n] \in 1 .. last - 1 /\ staticPoolIndex[n] # idx
      BY <3>2, <2>1, <2>3, <1>1
    <3> QED
      BY <3>1, <3>2, <3>3, <1>2, <1>6
  <2> QED
    BY <2>2, <2>3
<1>10. IndexExact'
  BY <1>8, <1>9 DEF IndexExact
<1>11. staticPoolIndex'[staticPool[idx]] = 0
  BY <1>1, <1>3
<1>12. \A n \in Node : n # staticPool[idx] => (staticPoolIndex'[n] # 0 <=> staticPoolIndex[n] # 0)
  BY <1>1, <1>3, <1>5 DEF IndexExact
<1> QED
  BY <1>6, <1>7, <1>10, <1>11, <1>12

(* addToStaticPool puts in one node that was not there.                    *)
LEMMA AddToPool ==
    ASSUME DialTypeOK, IndexExact, NEW n \in Node, staticPoolIndex[n] = 0, addToStaticPool(n)
    PROVE  /\ staticPool' \in Seq(Node) /\ staticPoolIndex' \in [Node -> Nat]
           /\ IndexExact'
           /\ staticPoolIndex'[n] # 0
           /\ \A m \in Node : m # n => staticPoolIndex'[m] = staticPoolIndex[m]
<1> DEFINE k == Len(staticPool) + 1
<1>1. /\ Len(staticPool) \in Nat /\ DOMAIN staticPool = 1 .. k - 1
      /\ staticPool' \in Seq(Node) /\ DOMAIN staticPool' = 1 .. k
      /\ \A i \in 1 .. k - 1 : staticPool'[i] = staticPool[i] /\ staticPool[i] \in Node
      /\ staticPool'[k] = n
  BY DEF DialTypeOK, addToStaticPool
<1>2. staticPoolIndex' = [staticPoolIndex EXCEPT ![n] = k]
  BY DEF addToStaticPool
<1>3. staticPoolIndex' \in [Node -> Nat] /\ staticPoolIndex'[n] = k /\ k # 0
      /\ \A m \in Node : m # n => staticPoolIndex'[m] = staticPoolIndex[m]
  BY <1>1, <1>2 DEF DialTypeOK
<1>4. ASSUME NEW i \in DOMAIN staticPool' PROVE staticPoolIndex'[staticPool'[i]] = i
  <2>1. CASE i = k
    BY <2>1, <1>1, <1>3
  <2>2. CASE i # k
    <3>1. i \in 1 .. k - 1
      BY <2>2, <1>1
    <3>2. staticPoolIndex[staticPool[i]] = i /\ staticPool[i] \in Node /\ i # 0
      BY <3>1, <1>1 DEF IndexExact
    <3>3. staticPool[i] # n
      BY <3>2
    <3> QED
      BY <3>1, <3>2, <3>3, <1>1, <1>3
  <2> QED
    BY <2>1, <2>2
<1>5. ASSUME NEW m \in Node, staticPoolIndex'[m] # 0
      PROVE  staticPoolIndex'[m] \in DOMAIN staticPool' /\ staticPool'[staticPoolIndex'[m]] = m
  <2>1. CASE m = n
    BY <2>1, <1>1, <1>3
  <2>2. CASE m # n
    <3>1. staticPoolIndex'[m] = staticPoolIndex[m]
      BY <2>2, <1>3
    <3>2. staticPoolIndex[m] \in 1 .. k - 1 /\ staticPool[staticPoolIndex[m]] = m
      BY <3>1, <1>1, <1>5 DEF IndexExact
    <3> QED
      BY <3>1, <3>2, <1>1
  <2> QED
    BY <2>1, <2>2
<1> QED
  BY <1>1, <1>3, <1>4, <1>5 DEF IndexExact

(* The running tasks are finitely many, ...                                *)
LEMMA DialingFinite ==
    ASSUME DialTypeOK
    PROVE  IsFiniteSet(Dialing) /\ Cardinality(Dialing) \in Nat
BY DialAssumption, FS_Subset, FS_CardinalityType DEF Dialing

(* ... one more after startDial ...                                        *)
LEMMA OneMoreDialing ==
    ASSUME DialTypeOK, NEW n \in Node, NEW flag \in {dynDialedConn, staticDialedConn},
           dialing' = [dialing EXCEPT ![n] = flag]
    PROVE  /\ dialing' \in [Node -> {none, dynDialedConn, staticDialedConn}]
           /\ Dialing' = Dialing \cup {n}
           /\ Cardinality(Dialing') <= Cardinality(Dialing) + 1
<1>1. dialing' \in [Node -> {none, dynDialedConn, staticDialedConn}] /\ Dialing' = Dialing \cup {n}
  BY DEF Dialing, DialTypeOK, none, dynDialedConn, staticDialedConn
<1>2. Cardinality(Dialing \cup {n}) <= Cardinality(Dialing) + 1
  <2>1. Cardinality(Dialing \cup {n}) = IF n \in Dialing THEN Cardinality(Dialing)
                                                       ELSE Cardinality(Dialing) + 1
    BY DialingFinite, FS_AddElement
  <2> QED
    BY <2>1, DialingFinite
<1> QED
  BY <1>1, <1>2

(* ... and one less when a task is done.                                   *)
LEMMA OneLessDialing ==
    ASSUME DialTypeOK, NEW n \in Node, dialing' = [dialing EXCEPT ![n] = none]
    PROVE  /\ dialing' \in [Node -> {none, dynDialedConn, staticDialedConn}]
           /\ Dialing' = Dialing \ {n}
           /\ Cardinality(Dialing') <= Cardinality(Dialing)
<1>1. dialing' \in [Node -> {none, dynDialedConn, staticDialedConn}] /\ Dialing' = Dialing \ {n}
  BY DEF Dialing, DialTypeOK
<1> QED
  BY <1>1, DialingFinite, FS_Subset

(* startDial appends a node to the history that was not in it.             *)
LEMMA StartDialHistory ==
    ASSUME DialTypeOK, HistoryDistinct, NEW n \in Node, n \notin Recent, history' = Append(history, n)
    PROVE  history' \in Seq(Node) /\ HistoryDistinct' /\ Recent' = Recent \cup {n}
<1> DEFINE k == Len(history) + 1
<1>1. /\ Len(history) \in Nat /\ DOMAIN history = 1 .. k - 1
      /\ history' \in Seq(Node) /\ DOMAIN history' = 1 .. k
      /\ \A i \in 1 .. k - 1 : history'[i] = history[i]
      /\ history'[k] = n
  BY DEF DialTypeOK
<1>2. \A i \in 1 .. k - 1 : history[i] # n
  BY <1>1 DEF Recent
<1>3. HistoryDistinct'
  <2> SUFFICES ASSUME NEW i \in 1 .. k, NEW j \in 1 .. k, history'[i] = history'[j] PROVE i = j
    BY <1>1 DEF HistoryDistinct
  <2>1. CASE i = k \/ j = k
    BY <2>1, <1>1, <1>2
  <2>2. CASE i # k /\ j # k
    BY <2>2, <1>1 DEF HistoryDistinct
  <2> QED
    BY <2>1, <2>2
<1>4. Recent' = Recent \cup {n}
  <2>1. 1 .. k = (1 .. k - 1) \cup {k}
    BY <1>1
  <2> QED
    BY <1>1, <2>1 DEF Recent
<1> QED
  BY <1>1, <1>3, <1>4

(* An entry that expires was the only one of its node.                     *)
LEMMA ExpireOldest ==
    ASSUME DialTypeOK, HistoryDistinct, history # <<>>, history' = Tail(history)
    PROVE  /\ history' \in Seq(Node) /\ HistoryDistinct' /\ Head(history) \in Node
           /\ Recent' = Recent \ {Head(history)}
<1> DEFINE k == Len(history)
<1>1. /\ k \in Nat \ {0} /\ DOMAIN history = 1 .. k
      /\ history' \in Seq(Node) /\ DOMAIN history' = 1 .. k - 1
      /\ \A i \in 1 .. k - 1 : history'[i] = history[i + 1]
      /\ Head(history) = history[1] /\ history[1] \in Node
  BY DEF DialTypeOK
<1>2. HistoryDistinct'
  <2> SUFFICES ASSUME NEW i \in 1 .. k - 1, NEW j \in 1 .. k - 1, history'[i] = history'[j] PROVE i = j
    BY <1>1 DEF HistoryDistinct
  <2>1. i + 1 \in 1 .. k /\ j + 1 \in 1 .. k /\ history[i + 1] = history[j + 1]
    BY <1>1
  <2>2. i + 1 = j + 1
    BY <2>1, <1>1 DEF HistoryDistinct
  <2> QED
    BY <2>2
<1>3. ASSUME NEW m \in Recent' PROVE m \in Recent /\ m # history[1]
  <2>1. PICK i \in 1 .. k - 1 : m = history[i + 1]
    BY <1>1, <1>3 DEF Recent
  <2>2. i + 1 \in 1 .. k /\ i + 1 # 1 /\ 1 \in 1 .. k
    BY <1>1
  <2> QED
    BY <2>1, <2>2, <1>1 DEF Recent, HistoryDistinct
<1>4. ASSUME NEW m \in Recent, m # history[1] PROVE m \in Recent'
  <2>1. PICK i \in 1 .. k : m = history[i]
    BY <1>1 DEF Recent
  <2>2. i - 1 \in 1 .. k - 1 /\ (i - 1) + 1 = i
    BY <2>1, <1>1, <1>4
  <2>3. m = history'[i - 1]
    BY <2>1, <2>2, <1>1
  <2> QED
    BY <2>2, <2>3, <1>1 DEF Recent
<1> QED
  BY <1>1, <1>2, <1>3, <1>4

-----------------------------------------------------------------------------
(* PoolExact after a step that may put n into the pool, take it out, or    *)
(* leave it, when n is the only node whose standing changed.               *)
LEMMA PoolFollows ==
    ASSUME DialTypeOK, IndexExact, NEW n \in Node,
           updateStaticPool(n), static' = static,
           Running, PoolExact, Running',
           checkDial(n) => checkDial(n)',
           \A m \in Node : m # n => (checkDial(m)' <=> checkDial(m))
    PROVE  /\ staticPool' \in Seq(Node) /\ staticPoolIndex' \in [Node -> Nat]
           /\ IndexExact' /\ PoolExact'
<1>1. CASE n \in static /\ staticPoolIndex[n] = 0 /\ checkDial(n)'
  <2>1. addToStaticPool(n)
    BY <1>1 DEF updateStaticPool, checkDial
  <2> QED
    BY <1>1, <2>1, AddToPool DEF PoolExact
<1>2. CASE ~(n \in static /\ staticPoolIndex[n] = 0 /\ checkDial(n)')
  <2>1. UNCHANGED <<staticPool, staticPoolIndex>>
    BY <1>2 DEF updateStaticPool, checkDial
  <2>2. IndexExact' /\ staticPool' \in Seq(Node) /\ staticPoolIndex' \in [Node -> Nat]
    BY <2>1 DEF IndexExact, DialTypeOK
  <2>3. PoolExact'
    BY <1>2, <2>1 DEF PoolExact
  <2> QED
    BY <2>2, <2>3
<1> QED
  BY <1>1, <1>2

(* A new dial scheduler satisfies the invariant.                           *)
LEMMA DialInitIInv == DialInit => IInv
<1> SUFFICES ASSUME DialInit PROVE IInv
  OBVIOUS
<1>1. DialTypeOK
  BY DEF DialInit, DialTypeOK
<1>2. Dialing = {} /\ Cardinality(Dialing) = 0
  BY FS_EmptySet DEF DialInit, Dialing
<1> QED
  BY <1>1, <1>2, DialAssumption
     DEF DialInit, IInv, IndexExact, PoolExact, HistoryDistinct, Served, ActiveDialsBounded

(* Every case of the scheduler's loop keeps the invariant.                 *)
LEMMA DialNextIInv == IInv /\ [DialNext]_dialVars => IInv'
<1> SUFFICES ASSUME IInv, [DialNext]_dialVars PROVE IInv'
  OBVIOUS
<1>0. /\ DialTypeOK /\ IndexExact /\ PoolExact /\ HistoryDistinct /\ Served
      /\ ActiveDialsBounded /\ Cardinality(Dialing) \in Nat
  BY DialingFinite DEF IInv
<1>f. freeDialSlots > 0 => Cardinality(Dialing) + 1 <= maxActiveDials
  BY <1>0, DialAssumption DEF freeDialSlots, DialTypeOK
<1>1. ASSUME NEW idx \in DOMAIN staticPool, StartStaticDial(idx) PROVE IInv'
  <2> DEFINE n == staticPool[idx]
  <2>1. n \in Node /\ staticPoolIndex[n] # 0 /\ Running
    BY <1>0, <1>1 DEF DialTypeOK, IndexExact, StartStaticDial, Running
  <2>2. checkDial(n)
    BY <2>1, <1>0 DEF PoolExact
  <2>3. /\ dialing' = [dialing EXCEPT ![n] = staticDialedConn] /\ history' = Append(history, n)
        /\ removeFromStaticPool(idx) /\ freeDialSlots > 0
        /\ UNCHANGED <<dialed, dialPeers, static, loop>> /\ loop = "start"
    BY <1>1 DEF StartStaticDial, startDial
  <2>4. /\ staticPool' \in Seq(Node) /\ staticPoolIndex' \in [Node -> Nat] /\ IndexExact'
        /\ staticPoolIndex'[n] = 0
        /\ \A m \in Node : m # n => (staticPoolIndex'[m] # 0 <=> staticPoolIndex[m] # 0)
    BY <1>0, <2>3, RemoveFromPool
  <2>5. /\ dialing' \in [Node -> {none, dynDialedConn, staticDialedConn}]
        /\ Dialing' = Dialing \cup {n} /\ Cardinality(Dialing') <= Cardinality(Dialing) + 1
    BY <1>0, <2>1, <2>3, OneMoreDialing
  <2>6. history' \in Seq(Node) /\ HistoryDistinct' /\ Recent' = Recent \cup {n}
    BY <1>0, <2>1, <2>2, <2>3, StartDialHistory DEF checkDial
  <2>7. ActiveDialsBounded'
    BY <2>3, <2>5, <1>f, <1>0, DialingFinite, DialAssumption, FS_Subset, FS_CardinalityType DEF ActiveDialsBounded, Dialing
  <2>8. DialTypeOK'
    BY <1>0, <2>3, <2>4, <2>5, <2>6 DEF DialTypeOK
  <2>9. PoolExact'
    BY <1>0, <2>1, <2>3, <2>4, <2>5, <2>6 DEF PoolExact, checkDial, Running
  <2> QED
    BY <2>3, <2>4, <2>6, <2>7, <2>8, <2>9 DEF IInv, Served
<1>2. ASSUME NEW n \in Node, NodeIn(n) PROVE IInv'
  <2>1. /\ loop = "select" /\ loop' = "start" /\ freeDialSlots > 0
        /\ UNCHANGED <<dialed, dialPeers, static, staticPool, staticPoolIndex>>
    BY <1>2 DEF NodeIn, Event
  <2>2. staticPool = <<>> /\ IndexExact'
    BY <1>0, <2>1, DialAssumption DEF Served, IndexExact, freeDialSlots, DialTypeOK
  <2>3. \A m \in Node : staticPoolIndex[m] = 0
    BY <1>0, <2>2 DEF IndexExact
  <2>4. CASE checkDial(n)
    <3>1. dialing' = [dialing EXCEPT ![n] = dynDialedConn] /\ history' = Append(history, n)
      BY <1>2, <2>4 DEF NodeIn, startDial
    <3>2. /\ dialing' \in [Node -> {none, dynDialedConn, staticDialedConn}]
          /\ Dialing' = Dialing \cup {n} /\ Cardinality(Dialing') <= Cardinality(Dialing) + 1
      BY <1>0, <3>1, OneMoreDialing
    <3>3. history' \in Seq(Node) /\ HistoryDistinct' /\ Recent' = Recent \cup {n}
      BY <1>0, <2>4, <3>1, StartDialHistory DEF checkDial
    <3>4. DialTypeOK'
      BY <1>0, <2>1, <3>2, <3>3 DEF DialTypeOK
    <3>5. ActiveDialsBounded'
      <4>1. Cardinality(Dialing') \in Nat
        BY <3>2, <3>4, DialingFinite, FS_AddElement, <1>0, FS_CardinalityType
      <4> QED
        BY <4>1, <2>1, <3>2, <1>f, <1>0, DialAssumption DEF ActiveDialsBounded
    <3>6. PoolExact'
      BY <1>0, <2>1, <2>3, <3>2, <3>3 DEF PoolExact, checkDial, Running
    <3> QED
      BY <2>1, <2>2, <3>3, <3>4, <3>5, <3>6 DEF IInv, Served
  <2>5. CASE ~checkDial(n)
    <3>1. UNCHANGED <<dialing, history>>
      BY <1>2, <2>5 DEF NodeIn
    <3> QED
      BY <1>0, <2>1, <2>2, <3>1 DEF IInv, DialTypeOK, PoolExact, Running, checkDial, Dialing,
             Recent, HistoryDistinct, Served, ActiveDialsBounded
  <2> QED
    BY <2>4, <2>5
<1>3. ASSUME NEW n \in Node, TaskDone(n) PROVE IInv'
  <2>1. /\ loop = "select" /\ loop' = "start" /\ dialing' = [dialing EXCEPT ![n] = none]
        /\ UNCHANGED <<dialed, dialPeers, static, history>> /\ updateStaticPool(n)
    BY <1>3 DEF TaskDone, Event
  <2>2. /\ dialing' \in [Node -> {none, dynDialedConn, staticDialedConn}]
        /\ Dialing' = Dialing \ {n} /\ Cardinality(Dialing') <= Cardinality(Dialing)
    BY <1>0, <2>1, OneLessDialing
  <2>3. /\ checkDial(n) => checkDial(n)'
        /\ \A m \in Node : m # n => (checkDial(m)' <=> checkDial(m))
    BY <2>1, <2>2 DEF checkDial, Recent
  <2>4. Running /\ Running'
    BY <2>1 DEF Running
  <2>5. /\ staticPool' \in Seq(Node) /\ staticPoolIndex' \in [Node -> Nat]
        /\ IndexExact' /\ PoolExact'
    BY <1>0, <2>1, <2>3, <2>4, PoolFollows
  <2>6. DialTypeOK'
    BY <1>0, <2>1, <2>2, <2>5 DEF DialTypeOK
  <2>7. ActiveDialsBounded'
    BY <1>0, <2>2, <2>6, DialAssumption, FS_Subset, FS_CardinalityType DEF ActiveDialsBounded, Dialing
  <2> QED
    BY <1>0, <2>1, <2>5, <2>6, <2>7 DEF IInv, HistoryDistinct, Served
<1>4. ASSUME NEW n \in Node, NEW outbound \in BOOLEAN, PeerAdded(n, outbound) PROVE IInv'
  <2>1. /\ loop = "select" /\ loop' = "start" /\ dialed' = dialed \cup {n} /\ dialPeers' \in Int
        /\ UNCHANGED <<dialing, static, history>>
    BY <1>0, <1>4 DEF PeerAdded, Event, DialTypeOK
  <2>2. Dialing' = Dialing /\ Recent' = Recent /\ Running /\ Running'
    BY <2>1 DEF Dialing, Recent, Running
  <2>3. CASE n \in static /\ staticPoolIndex[n] > 0
    <3>1. staticPoolIndex[n] \in DOMAIN staticPool /\ staticPool[staticPoolIndex[n]] = n
      BY <1>0, <2>3 DEF IndexExact
    <3>2. removeFromStaticPool(staticPoolIndex[n])
      BY <1>4, <2>3 DEF PeerAdded
    <3>3. /\ staticPool' \in Seq(Node) /\ staticPoolIndex' \in [Node -> Nat] /\ IndexExact'
          /\ staticPoolIndex'[n] = 0
          /\ \A m \in Node : m # n => (staticPoolIndex'[m] # 0 <=> staticPoolIndex[m] # 0)
      BY <1>0, <3>1, <3>2, RemoveFromPool
    <3> QED
      BY <1>0, <2>1, <2>2, <3>3 DEF IInv, DialTypeOK, PoolExact, checkDial, HistoryDistinct, Served,
             ActiveDialsBounded
  <2>4. CASE ~(n \in static /\ staticPoolIndex[n] > 0)
    <3>1. UNCHANGED <<staticPool, staticPoolIndex>>
      BY <1>4, <2>4 DEF PeerAdded
    <3>2. ~(n \in static /\ checkDial(n)) /\ staticPoolIndex[n] = 0
      BY <1>0, <2>2, <2>4 DEF PoolExact, DialTypeOK
    <3>3. PoolExact'
      BY <1>0, <2>1, <2>2, <3>1, <3>2 DEF PoolExact, checkDial
    <3> QED
      BY <1>0, <2>1, <2>2, <3>1, <3>3 DEF IInv, DialTypeOK, IndexExact, HistoryDistinct, Served,
             ActiveDialsBounded
  <2> QED
    BY <2>3, <2>4
<1>5. ASSUME NEW n \in Node, RemoveStatic(n) PROVE IInv'
  <2>1. /\ loop = "select" /\ loop' = "start" /\ static' = static \ {n}
        /\ UNCHANGED <<dialing, dialed, dialPeers, history>>
    BY <1>5 DEF RemoveStatic, Event
  <2>2. Dialing' = Dialing /\ Recent' = Recent /\ Running /\ Running'
    BY <2>1 DEF Dialing, Recent, Running
  <2>3. CASE n \in static /\ staticPoolIndex[n] > 0
    <3>1. staticPoolIndex[n] \in DOMAIN staticPool /\ staticPool[staticPoolIndex[n]] = n
      BY <1>0, <2>3 DEF IndexExact
    <3>2. removeFromStaticPool(staticPoolIndex[n])
      BY <1>5, <2>3 DEF RemoveStatic
    <3>3. /\ staticPool' \in Seq(Node) /\ staticPoolIndex' \in [Node -> Nat] /\ IndexExact'
          /\ staticPoolIndex'[n] = 0
          /\ \A m \in Node : m # n => (staticPoolIndex'[m] # 0 <=> staticPoolIndex[m] # 0)
      BY <1>0, <3>1, <3>2, RemoveFromPool
    <3> QED
      BY <1>0, <2>1, <2>2, <3>3 DEF IInv, DialTypeOK, PoolExact, checkDial, HistoryDistinct, Served,
             ActiveDialsBounded
  <2>4. CASE ~(n \in static /\ staticPoolIndex[n] > 0)
    <3>1. UNCHANGED <<staticPool, staticPoolIndex>>
      BY <1>5, <2>4 DEF RemoveStatic
    <3>2. ~(n \in static /\ checkDial(n)) /\ staticPoolIndex[n] = 0
      BY <1>0, <2>2, <2>4 DEF PoolExact, DialTypeOK
    <3>3. PoolExact'
      BY <1>0, <2>1, <2>2, <3>1, <3>2 DEF PoolExact, checkDial
    <3> QED
      BY <1>0, <2>1, <2>2, <3>1, <3>3 DEF IInv, DialTypeOK, IndexExact, HistoryDistinct, Served,
             ActiveDialsBounded
  <2> QED
    BY <2>3, <2>4
<1>6. ASSUME NEW n \in Node, NEW outbound \in BOOLEAN, PeerRemoved(n, outbound) PROVE IInv'
  <2>1. /\ loop = "select" /\ loop' = "start" /\ dialed' = dialed \ {n} /\ dialPeers' \in Int
        /\ UNCHANGED <<dialing, static, history>> /\ updateStaticPool(n)
    BY <1>0, <1>6 DEF PeerRemoved, Event, DialTypeOK
  <2>2. Dialing' = Dialing /\ Recent' = Recent /\ Running /\ Running'
    BY <2>1 DEF Dialing, Recent, Running
  <2>3. /\ checkDial(n) => checkDial(n)'
        /\ \A m \in Node : m # n => (checkDial(m)' <=> checkDial(m))
    BY <2>1, <2>2 DEF checkDial
  <2>4. /\ staticPool' \in Seq(Node) /\ staticPoolIndex' \in [Node -> Nat]
        /\ IndexExact' /\ PoolExact'
    BY <1>0, <2>1, <2>2, <2>3, PoolFollows
  <2> QED
    BY <1>0, <2>1, <2>2, <2>4 DEF IInv, DialTypeOK, HistoryDistinct, Served, ActiveDialsBounded
<1>7. ASSUME NEW n \in Node, AddStatic(n) PROVE IInv'
  <2>1. /\ loop = "select" /\ loop' = "start" /\ static' = static \cup {n}
        /\ UNCHANGED <<dialing, dialed, dialPeers, history>>
    BY <1>7 DEF AddStatic, Event
  <2>2. Dialing' = Dialing /\ Recent' = Recent /\ Running /\ Running'
    BY <2>1 DEF Dialing, Recent, Running
  <2>3. CASE n \notin static /\ checkDial(n)
    <3>1. addToStaticPool(n) /\ staticPoolIndex[n] = 0
      BY <1>0, <1>7, <2>2, <2>3 DEF AddStatic, PoolExact
    <3>2. /\ staticPool' \in Seq(Node) /\ staticPoolIndex' \in [Node -> Nat] /\ IndexExact'
          /\ staticPoolIndex'[n] # 0
          /\ \A m \in Node : m # n => staticPoolIndex'[m] = staticPoolIndex[m]
      BY <1>0, <3>1, AddToPool
    <3> QED
      BY <1>0, <2>1, <2>2, <2>3, <3>2 DEF IInv, DialTypeOK, PoolExact, checkDial, HistoryDistinct,
             Served, ActiveDialsBounded
  <2>4. CASE ~(n \notin static /\ checkDial(n))
    <3>1. UNCHANGED <<staticPool, staticPoolIndex>>
      BY <1>7, <2>4 DEF AddStatic
    <3>2. PoolExact'
      BY <1>0, <2>1, <2>2, <2>4, <3>1 DEF PoolExact, checkDial
    <3> QED
      BY <1>0, <2>1, <2>2, <3>1, <3>2 DEF IInv, DialTypeOK, IndexExact, HistoryDistinct, Served,
             ActiveDialsBounded
  <2> QED
    BY <2>3, <2>4
<1>8. CASE ExpireHistory
  <2> DEFINE n == Head(history)
  <2>1. /\ Running /\ Running' /\ loop' \in {"expiring", "start"} /\ history # <<>>
        /\ history' = Tail(history) /\ UNCHANGED <<dialing, dialed, dialPeers, static>>
        /\ updateStaticPool(n)
    BY <1>8 DEF ExpireHistory, Running
  <2>2. /\ history' \in Seq(Node) /\ HistoryDistinct' /\ n \in Node /\ Recent' = Recent \ {n}
    BY <1>0, <2>1, ExpireOldest
  <2>3. Dialing' = Dialing
    BY <2>1 DEF Dialing
  <2>4. ASSUME NEW h, h = n
        PROVE  /\ checkDial(h) => checkDial(h)'
               /\ \A m \in Node : m # h => (checkDial(m)' <=> checkDial(m))
    BY <2>1, <2>2, <2>3, <2>4 DEF checkDial
  <2>5. PICK h \in Node : h = n
    BY <2>2
  <2>6. /\ staticPool' \in Seq(Node) /\ staticPoolIndex' \in [Node -> Nat]
        /\ IndexExact' /\ PoolExact'
    <3>1. updateStaticPool(h)
      BY <2>1, <2>5
    <3> HIDE DEF n
    <3> QED
      BY <1>0, <2>1, <2>4, <2>5, <3>1, PoolFollows
  <2> QED
    BY <1>0, <2>1, <2>2, <2>3, <2>6 DEF IInv, DialTypeOK, Served, ActiveDialsBounded
<1>9. ASSUME NEW n \in Node, Drain(n) PROVE IInv'
  <2>1. /\ loop = "draining" /\ loop' = loop /\ dialing' = [dialing EXCEPT ![n] = none]
        /\ UNCHANGED <<dialed, dialPeers, static, staticPool, staticPoolIndex, history>>
    BY <1>9 DEF Drain
  <2>2. /\ dialing' \in [Node -> {none, dynDialedConn, staticDialedConn}]
        /\ Dialing' = Dialing \ {n} /\ Cardinality(Dialing') <= Cardinality(Dialing)
    BY <1>0, <2>1, OneLessDialing
  <2>3. DialTypeOK'
    BY <1>0, <2>1, <2>2 DEF DialTypeOK
  <2>4. ActiveDialsBounded'
    BY <1>0, <2>2, <2>3, DialAssumption, FS_Subset, FS_CardinalityType DEF ActiveDialsBounded, Dialing
  <2> QED
    BY <1>0, <2>1, <2>3, <2>4 DEF IInv, IndexExact, PoolExact, Running, HistoryDistinct, Served
<1>10. CASE StaticDialsStarted
  BY <1>0, <1>10 DEF StaticDialsStarted, IInv, DialTypeOK, IndexExact, PoolExact, Running, checkDial,
         Dialing, Recent, HistoryDistinct, Served, freeDialSlots, ActiveDialsBounded
<1>11. CASE Cancel \/ Drained
  <2>1. /\ loop' \in {"draining", "done"}
        /\ UNCHANGED <<dialing, dialed, dialPeers, static, staticPool, staticPoolIndex, history>>
    BY <1>11 DEF Cancel, Drained
  <2>2. Dialing' = Dialing
    BY <2>1 DEF Dialing
  <2> QED
    BY <1>0, <2>1, <2>2 DEF IInv, DialTypeOK, IndexExact, PoolExact, Running, HistoryDistinct, Served,
           ActiveDialsBounded
<1>12. CASE UNCHANGED dialVars
  BY <1>0, <1>12 DEF dialVars, IInv, DialTypeOK, IndexExact, PoolExact, Running, checkDial,
         Dialing, Recent, HistoryDistinct, Served, freeDialSlots, ActiveDialsBounded
<1> QED
  BY <1>1, <1>2, <1>3, <1>4, <1>5, <1>6, <1>7, <1>8, <1>9, <1>10, <1>11, <1>12 DEF DialNext

-----------------------------------------------------------------------------
(* The scheduler's pool holds exactly the static nodes that may be dialed, *)
(* each at the index its task remembers.                                   *)
THEOREM DialerStaticPoolExact == DialSpec => []StaticPoolExact
<1>1. IInv => StaticPoolExact
  BY DEF IInv, IndexExact, PoolExact, Running, StaticPoolExact
<1> QED
  BY <1>1, DialInitIInv, DialNextIInv, PTL DEF DialSpec

(* The scheduler never runs more than maxActiveDials tasks.                *)
THEOREM DialerActiveDialsBounded == DialSpec => []ActiveDialsBounded
<1>1. IInv => ActiveDialsBounded
  BY DEF IInv
<1> QED
  BY <1>1, DialInitIInv, DialNextIInv, PTL DEF DialSpec
=============================================================================
