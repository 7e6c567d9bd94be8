-------------------------- MODULE P2PServerProofs --------------------------
(***************************************************************************)
(* The server and the dial scheduler together, for every set of nodes,     *)
(* every limit and any number of calls: the server is one of the           *)
(* environments DialScheduler allows for, so what DialSchedulerProofs      *)
(* proves of the scheduler holds of the server; a node has one session;    *)
(* and the counters of both agree with the peers.                          *)
(*                                                                         *)
(* CountsExact speaks of the moments between two cases of the main loop.   *)
(* In a case that still has to tell the scheduler of a peer, the counters  *)
(* lag behind peers by that peer: CountsTold.                              *)
(***************************************************************************)
EXTENDS P2PServer, DialSchedulerProofs

SessionSteps == {none, "launched", "running", "closed"}

RemoverSteps == {"idle", "call", "op", "wait"}

MainSteps ==
    {"starting", "select", "peerAdded", "peerRemoved", "removeStatic", "disconnect",
     "spindown", "quitPeer", "drain", "stopDialing", "stopped"}

ServerTypeOK ==
    /\ session \in [Conn -> SessionSteps]
    /\ peers \in [Node -> Conn \cup {NoConn}]
    /\ inboundCount \in Int
    /\ main \in [do : MainSteps, c : Conn \cup Node \cup {NoConn}, left : SUBSET (Conn \cup Node)]
    /\ remover \in [pc : RemoverSteps, n : Node \cup {none}]

Removing(m) == m.do \in {"removeStatic", "disconnect"}

(* Where the main loop is, against the peers and RemovePeer. *)
MainConsistent ==
    /\ At("starting") => main.left \subseteq Node
    /\ At("peerAdded") => main.c \in Conn /\ peers[main.c[1]] = main.c
    /\ At("peerRemoved") => main.c \in Conn /\ peers[main.c[1]] = NoConn
    /\ Removing(main) => remover.pc = "op"
    /\ remover.pc # "idle" => remover.n \in Node

PeersNamed == \A n \in Node : peers[n] # NoConn => peers[n][1] = n

(* The connected nodes the dial scheduler and the counters know of, by the *)
(* direction of their connection: not yet the one that the main loop is    *)
(* about to add, and still the one that it is about to remove.             *)
Kind(dir) == {n \in Connected : peers[n][2] = dir}

Told(dir) ==
    IF At("peerAdded") THEN Kind(dir) \ {main.c[1]}
    ELSE IF At("peerRemoved") /\ main.c[2] = dir THEN Kind(dir) \cup {main.c[1]}
    ELSE Kind(dir)

Over == At("drain") \/ At("stopDialing") \/ At("stopped")

CountsTold ==
    ~Over =>
        /\ dialed = Told("in") \cup Told("out")
        /\ dialPeers = Cardinality(Told("out"))
        /\ inboundCount = Cardinality(Told("in"))

ServerInv ==
    /\ ServerTypeOK /\ MainConsistent /\ PeersNamed
    /\ OneSessionPerNode /\ CountsTold

-----------------------------------------------------------------------------
(* A connection is a node with a direction.                                *)
LEMMA ConnFacts ==
    ASSUME NEW c \in Conn
    PROVE  c # NoConn /\ c[1] \in Node /\ c[2] \in {"in", "out"} /\ c = <<c[1], c[2]>>
BY DEF Conn, NoConn

(* The main loop's next value is one of these when it is not about a peer. *)
Quiet(m) == m.do # "peerAdded" /\ m.do # "peerRemoved"

(* Every step but five leaves the peers and the counters alone, and neither *)
(* begins nor ends a session.                                              *)
Other ==
    /\ UNCHANGED <<peers, inboundCount, dialed, dialPeers>>
    /\ session' \in [Conn -> SessionSteps]
    /\ \A c \in Conn : session'[c] = none <=> session[c] = none
    /\ main' = main \/ (Quiet(main) /\ Quiet(main'))
    /\ Over => Over'

Launch(c) ==
    /\ At("select") /\ peers[c[1]] = NoConn
    /\ session' = [session EXCEPT ![c] = "launched"]
    /\ peers' = [peers EXCEPT ![c[1]] = c]
    /\ main' = Doing("peerAdded", c)
    /\ UNCHANGED <<inboundCount, dialed, dialPeers>>

(* The scheduler's own steps, and the static nodes it is given, leave the  *)
(* peers alone.                                                            *)
LEMMA DialKinds ==
    ASSUME ServerInv, Dial \/ HistoryTimer \/ CancelDials \/ (\E n \in Node : EndTask(n) \/ AddPeer(n)) \/ Start
    PROVE  Other
<1>1. UNCHANGED <<dialed, dialPeers>>
  BY DEF Dial, HistoryTimer, CancelDials, EndTask, AddPeer, Start, StartStaticDial, NodeIn, StaticDialsStarted,
     Drained, ExpireHistory, Cancel, TaskDone, Drain, AddStatic, dialVars
<1>2. UNCHANGED peerVars
  BY DEF Dial, HistoryTimer, CancelDials, EndTask, AddPeer, Start
<1>3. main' = main \/ (Quiet(main) /\ Quiet(main'))
  <2>1. CASE Start
    <3>1. At("starting") /\ (main' = Idle \/ \E n \in main.left : main' = [main EXCEPT !.left = @ \ {n}])
      BY <2>1 DEF Start
    <3> QED
      BY <3>1 DEF At, Quiet, Idle, ServerInv, ServerTypeOK
  <2>2. CASE ~Start
    BY <2>2 DEF Dial, HistoryTimer, CancelDials, EndTask, AddPeer
  <2> QED
    BY <2>1, <2>2
<1>4. Over => main' = main
  <2>1. CASE Start
    BY <2>1 DEF Start, At, Over
  <2>2. CASE ~Start
    BY <2>2 DEF Dial, HistoryTimer, CancelDials, EndTask, AddPeer
  <2> QED
    BY <2>1, <2>2
<1> QED
  BY <1>1, <1>2, <1>3, <1>4 DEF Other, Over, At, peerVars, ServerInv, ServerTypeOK

(* A peer's Add event and the end of its Peer.run leave the peers alone.   *)
LEMMA SessionKinds ==
    ASSUME ServerInv, NEW c \in Conn, AnnounceAdd(c) \/ RunEnds(c)
    PROVE  Other
<1>1. UNCHANGED <<peers, inboundCount, dialVars, main>>
  BY DEF AnnounceAdd, RunEnds
<1>2. session[c] # none /\ \E s \in SessionSteps \ {none} : session' = [session EXCEPT ![c] = s]
  BY DEF AnnounceAdd, RunEnds, SessionSteps, none
<1> QED
  BY <1>1, <1>2 DEF Other, Over, At, dialVars, ServerInv, ServerTypeOK

(* Peer.Disconnect ends Peer.run, not the session.                         *)
LEMMA DisconnectKinds ==
    ASSUME ServerInv, DisconnectPeer \/ QuitPeer
    PROVE  Other
<1>1. UNCHANGED <<peers, inboundCount, dialVars>>
  BY DEF DisconnectPeer, QuitPeer
<1>2. \/ session' = session
      \/ session[main.c] = "running" /\ session' = [session EXCEPT ![main.c] = "closed"]
  BY DEF DisconnectPeer, QuitPeer, Disconnected
<1>3. session' \in [Conn -> SessionSteps] /\ \A c \in Conn : session'[c] = none <=> session[c] = none
  BY <1>2 DEF SessionSteps, none, ServerInv, ServerTypeOK
<1>4. Quiet(main) /\ ~Over /\ (main' = Idle \/ main' = [main EXCEPT !.do = "spindown", !.c = NoConn])
  BY DEF DisconnectPeer, QuitPeer, At, Quiet, Over
<1>5. main'.do \in {"select", "spindown"}
  <2>1. CASE main' = Idle
    BY <2>1 DEF Idle
  <2>2. CASE main' = [main EXCEPT !.do = "spindown", !.c = NoConn]
    BY <2>2 DEF ServerInv, ServerTypeOK
  <2> QED
    BY <1>4, <2>1, <2>2
<1>6. Quiet(main')
  BY <1>5 DEF Quiet
<1> QED
  BY <1>1, <1>3, <1>4, <1>6 DEF Other, dialVars

(* A checkpoint launches the peer or leaves the peers alone.               *)
LEMMA CheckpointKinds ==
    ASSUME ServerInv, NEW c \in Conn, Setup(c)
    PROVE  Other \/ Launch(c)
<1>1. CASE SetupFails(c) \/ CheckpointPostHandshake(c)
  BY <1>1 DEF SetupFails, CheckpointPostHandshake, Other, Over, At, peerVars, dialVars, ServerInv, ServerTypeOK
<1>2. CASE CheckpointAddPeer(c)
  <2>1. CASE addPeerChecks(c)
    BY <1>2, <2>1 DEF CheckpointAddPeer, addPeerChecks, postHandshakeChecks, Launch, dialVars
  <2>2. CASE ~addPeerChecks(c)
    BY <1>2, <2>2 DEF CheckpointAddPeer, Other, Over, At, dialVars, ServerInv, ServerTypeOK
  <2> QED
    BY <2>1, <2>2
<1> QED
  BY <1>1, <1>2 DEF Setup

(* The API, accepted connections and the way down leave the peers alone.   *)
LEMMA CallKinds ==
    ASSUME ServerInv,
           \/ TakePeerOp \/ TellRemoveStatic \/ ReadEvent \/ Stop \/ Spindown \/ ResetDisconnected
           \/ NextPeer \/ StopDialing \/ Stopped
           \/ \E n \in Node : \/ Accept(n) \/ AnnounceDrop(n) \/ RemovePeer(n)
                              \/ SetTrusted(n, TRUE) \/ SetTrusted(n, FALSE)
    PROVE  Other
<1>1. UNCHANGED <<peers, session, inboundCount>>
  BY DEF TakePeerOp, TellRemoveStatic, ReadEvent, Stop, Spindown, ResetDisconnected, NextPeer, StopDialing,
     Stopped, Accept, AnnounceDrop, RemovePeer, SetTrusted, peerVars
<1>2. UNCHANGED <<dialed, dialPeers>>
  BY DEF TakePeerOp, TellRemoveStatic, ReadEvent, Stop, Spindown, ResetDisconnected, NextPeer, StopDialing,
     Stopped, Accept, AnnounceDrop, RemovePeer, SetTrusted, RemoveStatic, dialVars
<1>3. \/ main' = main
      \/ At("select") /\ main'.do \in {"removeStatic", "spindown"}
      \/ At("removeStatic") /\ main'.do \in {"select", "disconnect"}
      \/ At("spindown") /\ main'.do \in {"quitPeer", "drain"}
      \/ At("drain") /\ main'.do = "stopDialing"
      \/ At("stopDialing") /\ main'.do = "stopped"
  <2>1. CASE TakePeerOp \/ Spindown
    BY <2>1 DEF TakePeerOp, Spindown, Doing
  <2>2. CASE TellRemoveStatic
    BY <2>2 DEF TellRemoveStatic, Doing, Idle
  <2>3. CASE NextPeer
    BY <2>3 DEF NextPeer, Doing
  <2>4. CASE StopDialing \/ Stopped
    BY <2>4 DEF StopDialing, Stopped, Doing
  <2>5. CASE \/ ReadEvent \/ Stop \/ ResetDisconnected
             \/ \E n \in Node : \/ Accept(n) \/ AnnounceDrop(n) \/ RemovePeer(n)
                                \/ SetTrusted(n, TRUE) \/ SetTrusted(n, FALSE)
    BY <2>5 DEF ReadEvent, Stop, ResetDisconnected, Accept, AnnounceDrop, RemovePeer, SetTrusted
  <2> QED
    BY <2>1, <2>2, <2>3, <2>4, <2>5
<1>4. main' = main \/ (Quiet(main) /\ Quiet(main'))
  BY <1>3 DEF Quiet, At
<1>5. Over => Over'
  BY <1>3 DEF Over, At
<1> QED
  BY <1>1, <1>2, <1>4, <1>5 DEF Other, ServerInv, ServerTypeOK

(* What a step of the whole system is, to the peers and the counters.      *)
LEMMA StepKinds ==
    ASSUME ServerInv, [Next]_vars
    PROVE  \/ Other \/ TellPeerAdded \/ TellPeerRemoved
           \/ \E c \in Conn : Launch(c) \/ DelPeer(c) \/ DrainPeer(c)
<1>1. Managed \subseteq Node
  BY ServerAssumption
<1>2. CASE UNCHANGED vars
  BY <1>2 DEF vars, peerVars, dialVars, Other, Over, At, ServerInv, ServerTypeOK
<1>3. CASE Tell \/ Continue \/ Dial \/ HistoryTimer
  BY <1>3, DialKinds, DisconnectKinds, CallKinds DEF Tell, Continue
<1>4. CASE TakePeerOp \/ ReadEvent \/ Stop \/ Spindown \/ ResetDisconnected
  BY <1>4, CallKinds
<1>5. CASE \E n \in Node : EndTask(n) \/ Accept(n) \/ AnnounceDrop(n)
  BY <1>5, DialKinds, CallKinds
<1>6. CASE \E n \in Managed : AddPeer(n) \/ RemovePeer(n) \/ SetTrusted(n, TRUE) \/ SetTrusted(n, FALSE)
  BY <1>1, <1>6, DialKinds, CallKinds
<1>7. CASE \E c \in Conn : Setup(c) \/ AnnounceAdd(c) \/ RunEnds(c) \/ DelPeer(c) \/ DrainPeer(c)
  BY <1>7, CheckpointKinds, SessionKinds
<1> QED
  BY <1>2, <1>3, <1>4, <1>5, <1>6, <1>7 DEF Next

-----------------------------------------------------------------------------
(* A server that starts satisfies the invariant.                           *)
LEMMA ServerInit == Init => ServerInv
<1> SUFFICES ASSUME Init PROVE ServerInv
  OBVIOUS
<1>1. main.do = "starting" /\ main.c = NoConn /\ main.left \subseteq Node
  BY ServerAssumption DEF Init
<1>2. ServerTypeOK
  <2>1. main \in [do : MainSteps, c : Conn \cup Node \cup {NoConn}, left : SUBSET (Conn \cup Node)]
    BY ServerAssumption DEF Init, MainSteps
  <2>2. remover \in [pc : RemoverSteps, n : Node \cup {none}]
    BY DEF Init, RemoverSteps
  <2>3. /\ session \in [Conn -> SessionSteps] /\ peers \in [Node -> Conn \cup {NoConn}]
        /\ inboundCount \in Int
    BY DEF Init, SessionSteps
  <2> QED
    BY <2>1, <2>2, <2>3 DEF ServerTypeOK
<1>3. MainConsistent
  BY <1>1 DEF Init, MainConsistent, Removing, At
<1>4. PeersNamed /\ OneSessionPerNode
  BY ConnFacts DEF Init, PeersNamed, OneSessionPerNode
<1>5. Told("in") = {} /\ Told("out") = {}
  BY <1>1 DEF Init, Told, Kind, Connected, At
<1>6. CountsTold
  BY <1>5, FS_EmptySet DEF Init, DialInit, CountsTold
<1> QED
  BY <1>2, <1>3, <1>4, <1>6 DEF ServerInv

-----------------------------------------------------------------------------
(* What RemovePeer's caller does.                                          *)
RemoverMoves ==
    \/ UNCHANGED remover /\ (Removing(main') => Removing(main))
    \/ /\ remover.pc = "idle" /\ main' = main
       /\ \E n \in Node : remover' = [pc |-> "call", n |-> n]
    \/ /\ remover.pc = "call" /\ remover' = [remover EXCEPT !.pc = "op"]
    \/ /\ remover.pc = "call" /\ remover' = [remover EXCEPT !.pc = "idle"] /\ main' = main
    \/ /\ remover' = [remover EXCEPT !.pc = "idle"] /\ ~Removing(main')
    \/ /\ remover.pc # "idle" /\ remover' = [remover EXCEPT !.pc = "wait"] /\ ~Removing(main')
    \/ /\ remover.pc = "wait" /\ remover' = [remover EXCEPT !.pc = "idle"] /\ main' = main

(* RemovePeer's caller stays at one of its steps, with a node; it waits    *)
(* for the function that the main loop runs for it.                        *)
LEMMA RemoverStep ==
    ASSUME ServerInv, RemoverMoves
    PROVE  /\ remover' \in [pc : RemoverSteps, n : Node \cup {none}]
           /\ Removing(main') => remover'.pc = "op"
           /\ remover'.pc # "idle" => remover'.n \in Node
<1>1. remover \in [pc : RemoverSteps, n : Node \cup {none}]
  BY DEF ServerInv, ServerTypeOK
<1>2. (Removing(main) => remover.pc = "op") /\ (remover.pc # "idle" => remover.n \in Node)
  BY DEF ServerInv, MainConsistent
<1>3. CASE UNCHANGED remover /\ (Removing(main') => Removing(main))
  BY <1>1, <1>2, <1>3
<1>4. CASE /\ remover.pc = "idle" /\ main' = main
           /\ \E n \in Node : remover' = [pc |-> "call", n |-> n]
  BY <1>2, <1>4 DEF RemoverSteps
<1>5. ASSUME NEW pc \in {"op", "idle", "wait"}, remover' = [remover EXCEPT !.pc = pc],
             pc # "idle" => remover.pc # "idle",
             pc = "op" \/ ~Removing(main') \/ (main' = main /\ remover.pc # "op")
      PROVE  /\ remover' \in [pc : RemoverSteps, n : Node \cup {none}]
             /\ Removing(main') => remover'.pc = "op"
             /\ remover'.pc # "idle" => remover'.n \in Node
  <2>1. remover'.pc = pc /\ remover'.n = remover.n /\ remover' = [pc |-> remover'.pc, n |-> remover'.n]
    BY <1>1, <1>5
  <2>2. remover' \in [pc : RemoverSteps, n : Node \cup {none}]
    BY <1>1, <2>1 DEF RemoverSteps
  <2> QED
    BY <1>2, <1>5, <2>1, <2>2
<1> QED
  BY <1>3, <1>4, <1>5 DEF RemoverMoves

(* Every step moves RemovePeer and the main loop in one of those ways.     *)
LEMMA RemoverMoving ==
    ASSUME ServerInv, [Next]_vars
    PROVE  RemoverMoves
<1>1. CASE UNCHANGED <<main, remover>>
  BY <1>1 DEF RemoverMoves
<1>2. CASE \E n \in Managed : RemovePeer(n)
  BY <1>2, ServerAssumption DEF RemoverMoves, RemovePeer
<1>3. CASE TakePeerOp
  BY <1>3 DEF RemoverMoves, TakePeerOp
<1>4. CASE TellRemoveStatic
  BY <1>4 DEF RemoverMoves, TellRemoveStatic, Doing, Idle, Removing, At
<1>5. CASE DisconnectPeer
  BY <1>5 DEF RemoverMoves, DisconnectPeer, Idle, Removing, At, ServerInv, MainConsistent
<1>6. CASE ReadEvent
  BY <1>6 DEF RemoverMoves, ReadEvent
<1>7. CASE \/ Start \/ TellPeerAdded \/ TellPeerRemoved \/ NextPeer \/ QuitPeer \/ StopDialing \/ Stopped
           \/ Spindown \/ \E c \in Conn : CheckpointAddPeer(c) \/ DelPeer(c)
  <2>1. UNCHANGED remover
    BY <1>7 DEF Start, TellPeerAdded, TellPeerRemoved, NextPeer, QuitPeer, StopDialing, Stopped, Spindown,
       CheckpointAddPeer, DelPeer, callVars
  <2>2. CASE Start
    <3>1. At("starting") /\ (main' = Idle \/ \E n \in main.left : main' = [main EXCEPT !.left = @ \ {n}])
      BY <2>2 DEF Start
    <3>2. main'.do \in {"starting", "select"}
      BY <3>1 DEF Idle, At, ServerInv, ServerTypeOK
    <3> QED
      BY <2>1, <3>2 DEF RemoverMoves, Removing
  <2>3. CASE TellPeerAdded \/ TellPeerRemoved
    <3>1. main' = Idle
      BY <2>3 DEF TellPeerAdded, TellPeerRemoved
    <3>2. main'.do = "select"
      BY <3>1 DEF Idle
    <3> QED
      BY <2>1, <3>2 DEF RemoverMoves, Removing
  <2>4. CASE NextPeer \/ Spindown
    BY <2>1, <2>4 DEF NextPeer, Spindown, Doing, RemoverMoves, Removing
  <2>5. CASE QuitPeer
    <3>1. main' = [main EXCEPT !.do = "spindown", !.c = NoConn]
      BY <2>5 DEF QuitPeer
    <3>2. main'.do = "spindown"
      BY <3>1 DEF ServerInv, ServerTypeOK
    <3> QED
      BY <2>1, <3>2 DEF RemoverMoves, Removing
  <2>6. CASE StopDialing \/ Stopped
    BY <2>1, <2>6 DEF StopDialing, Stopped, Doing, RemoverMoves, Removing
  <2>7. CASE \E c \in Conn : CheckpointAddPeer(c) \/ DelPeer(c)
    <3>1. main' = main \/ \E c \in Conn : main' = Doing("peerAdded", c) \/ main' = Doing("peerRemoved", c)
      BY <2>7 DEF CheckpointAddPeer, DelPeer
    <3>2. main' = main \/ main'.do \in {"peerAdded", "peerRemoved"}
      BY <3>1 DEF Doing
    <3> QED
      BY <2>1, <3>2 DEF RemoverMoves, Removing
  <2> QED
    BY <1>7, <2>2, <2>3, <2>4, <2>5, <2>6, <2>7
<1>8. CASE \/ UNCHANGED vars \/ CancelDials \/ Dial \/ HistoryTimer \/ Stop \/ ResetDisconnected
           \/ \E n \in Node : EndTask(n) \/ Accept(n) \/ AnnounceDrop(n)
           \/ \E n \in Managed : AddPeer(n) \/ SetTrusted(n, TRUE) \/ SetTrusted(n, FALSE)
           \/ \E c \in Conn : \/ SetupFails(c) \/ CheckpointPostHandshake(c) \/ AnnounceAdd(c) \/ RunEnds(c)
                              \/ DrainPeer(c)
  <2>1. UNCHANGED <<main, remover>>
    BY <1>8 DEF vars, callVars, CancelDials, Dial, HistoryTimer, Stop, ResetDisconnected, EndTask, Accept,
       AnnounceDrop, AddPeer, SetTrusted, SetupFails, CheckpointPostHandshake, AnnounceAdd, RunEnds, DrainPeer, Send
  <2> QED
    BY <1>1, <2>1
<1> QED
  BY <1>2, <1>3, <1>4, <1>5, <1>6, <1>7, <1>8 DEF Next, Tell, Continue, Setup

MainRecords == [do : MainSteps, c : Conn \cup Node \cup {NoConn}, left : SUBSET (Conn \cup Node)]

(* A case of the main loop that is about a connection, and its parts.      *)
LEMMA DoingTyped ==
    ASSUME NEW do \in MainSteps, NEW c \in Conn \cup Node \cup {NoConn}
    PROVE  Doing(do, c) \in MainRecords /\ Doing(do, c).do = do /\ Doing(do, c).c = c
BY DEF Doing, MainRecords

(* The select of the main loop.                                            *)
LEMMA IdleTyped == Idle \in MainRecords /\ Idle.do = "select"
BY DEF Idle, MainRecords, MainSteps

(* The main loop stays at one of its steps; while it starts, it holds      *)
(* static nodes.                                                           *)
LEMMA MainStep ==
    ASSUME ServerInv, [Next]_vars
    PROVE  main' \in MainRecords /\ (main'.do = "starting" => main'.left \subseteq Node)
<1>0. /\ main \in MainRecords /\ peers \in [Node -> Conn \cup {NoConn}]
      /\ (main.do = "starting" => main.left \subseteq Node)
      /\ (Removing(main) => remover.n \in Node)
  BY DEF ServerInv, ServerTypeOK, MainConsistent, MainRecords, At
<1>1. CASE main' = main
  BY <1>0, <1>1
<1>2. CASE main' = Idle
  BY <1>2, IdleTyped
<1>3. CASE \E do \in MainSteps \ {"starting"}, c \in Conn \cup Node \cup {NoConn} : main' = Doing(do, c)
  BY <1>3, DoingTyped
<1>4. CASE Start
  <2>1. main.do = "starting" /\ (main' = Idle \/ \E n \in main.left : main' = [main EXCEPT !.left = @ \ {n}])
    BY <1>4 DEF Start, At
  <2>2. ASSUME NEW n \in main.left, main' = [main EXCEPT !.left = @ \ {n}]
        PROVE  main' \in MainRecords /\ main'.left \subseteq Node
    BY <1>0, <2>1, <2>2 DEF MainRecords
  <2> QED
    BY <1>2, <2>1, <2>2
<1>5. CASE Spindown \/ NextPeer \/ QuitPeer
  <2>1. CASE Spindown
    <3>1. main' = [do |-> "spindown", c |-> NoConn, left |-> {peers[n] : n \in Connected}]
      BY <2>1 DEF Spindown
    <3>2. {peers[n] : n \in Connected} \subseteq Conn
      BY <1>0 DEF Connected
    <3> QED
      BY <3>1, <3>2 DEF MainRecords, MainSteps
  <2>2. ASSUME NEW c \in main.left, main' = [do |-> "quitPeer", c |-> c, left |-> main.left \ {c}]
        PROVE  main' \in MainRecords /\ main'.do # "starting"
    BY <1>0, <2>2 DEF MainRecords, MainSteps
  <2>3. CASE NextPeer
    BY <1>3, <2>2, <2>3 DEF NextPeer, MainSteps
  <2>4. CASE QuitPeer
    <3>1. main' = [main EXCEPT !.do = "spindown", !.c = NoConn]
      BY <2>4 DEF QuitPeer
    <3> QED
      BY <1>0, <3>1 DEF MainRecords, MainSteps
  <2> QED
    BY <1>5, <2>1, <2>3, <2>4
<1>6. CASE TakePeerOp
  BY <1>1, <1>3, <1>6 DEF TakePeerOp, MainSteps
<1>7. CASE TellRemoveStatic
  <2>1. remover.n \in Node
    BY <1>0, <1>7 DEF TellRemoveStatic, At, Removing
  <2>2. peers[remover.n] \in Conn \cup {NoConn}
    BY <1>0, <2>1
  <2>3. main' = Idle \/ main' = Doing("disconnect", peers[remover.n])
    BY <1>7 DEF TellRemoveStatic
  <2> QED
    BY <1>2, <1>3, <2>2, <2>3 DEF MainSteps
<1>8. CASE TellPeerAdded \/ TellPeerRemoved \/ DisconnectPeer
  BY <1>2, <1>8 DEF TellPeerAdded, TellPeerRemoved, DisconnectPeer
<1>9. CASE StopDialing \/ Stopped \/ \E c \in Conn : CheckpointAddPeer(c) \/ DelPeer(c)
  <2>1. \/ main' = main
        \/ \E do \in MainSteps \ {"starting"}, c \in Conn \cup Node \cup {NoConn} : main' = Doing(do, c)
    BY <1>9 DEF StopDialing, Stopped, CheckpointAddPeer, DelPeer, MainSteps
  <2> QED
    BY <1>1, <1>3, <2>1
<1>10. CASE \/ UNCHANGED vars \/ CancelDials \/ Dial \/ HistoryTimer \/ Stop \/ ResetDisconnected \/ ReadEvent
            \/ \E n \in Node : EndTask(n) \/ Accept(n) \/ AnnounceDrop(n)
            \/ \E n \in Managed : AddPeer(n) \/ RemovePeer(n) \/ SetTrusted(n, TRUE) \/ SetTrusted(n, FALSE)
            \/ \E c \in Conn : \/ SetupFails(c) \/ CheckpointPostHandshake(c) \/ AnnounceAdd(c) \/ RunEnds(c)
                               \/ DrainPeer(c)
  <2>1. UNCHANGED main
    BY <1>10 DEF vars, CancelDials, Dial, HistoryTimer, Stop, ResetDisconnected, ReadEvent, EndTask, Accept,
       AnnounceDrop, AddPeer, RemovePeer, SetTrusted, SetupFails, CheckpointPostHandshake, AnnounceAdd, RunEnds,
       DrainPeer
  <2> QED
    BY <1>1, <2>1
<1> QED
  BY <1>4, <1>5, <1>6, <1>7, <1>8, <1>9, <1>10 DEF Next, Tell, Continue, Setup

-----------------------------------------------------------------------------
(* A peer that leaves is the registered one of its node.                   *)
LEMMA LeaveFacts ==
    ASSUME ServerInv, NEW c \in Conn, Leave(c)
    PROVE  /\ peers[c[1]] = c
           /\ session' = [session EXCEPT ![c] = none] /\ peers' = [peers EXCEPT ![c[1]] = NoConn]
<1>1. session[c] # none
  BY DEF Leave, none
<1> QED
  BY <1>1 DEF Leave, ServerInv, OneSessionPerNode

(* The sessions and the peers, by the kind of step.                        *)
LEMMA PeerStep ==
    ASSUME ServerInv, [Next]_vars
    PROVE  /\ session' \in [Conn -> SessionSteps] /\ peers' \in [Node -> Conn \cup {NoConn}]
           /\ PeersNamed' /\ OneSessionPerNode'
<1>0. /\ session \in [Conn -> SessionSteps] /\ peers \in [Node -> Conn \cup {NoConn}]
      /\ PeersNamed /\ OneSessionPerNode
  BY DEF ServerInv, ServerTypeOK
<1>1. CASE Other
  BY <1>0, <1>1 DEF Other, PeersNamed, OneSessionPerNode
<1>2. CASE UNCHANGED <<peers, session>>
  BY <1>0, <1>2 DEF PeersNamed, OneSessionPerNode
<1>3. ASSUME NEW c \in Conn, Launch(c)
      PROVE  /\ session' \in [Conn -> SessionSteps] /\ peers' \in [Node -> Conn \cup {NoConn}]
             /\ PeersNamed' /\ OneSessionPerNode'
  <2>1. /\ peers[c[1]] = NoConn /\ peers' = [peers EXCEPT ![c[1]] = c]
        /\ session' = [session EXCEPT ![c] = "launched"]
    BY <1>3 DEF Launch
  <2>2. session' \in [Conn -> SessionSteps] /\ peers' \in [Node -> Conn \cup {NoConn}]
    BY <1>0, <2>1, ConnFacts DEF SessionSteps
  <2>3. PeersNamed'
    BY <1>0, <2>1, ConnFacts DEF PeersNamed
  <2>4. ASSUME NEW d \in Conn, session'[d] # none
        PROVE  peers'[d[1]] = d
    <3>1. CASE d = c
      BY <1>0, <2>1, <3>1, ConnFacts
    <3>2. CASE d # c
      <4>1. session[d] # none
        BY <1>0, <2>1, <2>4, <3>2
      <4>2. peers[d[1]] = d /\ d # NoConn
        BY <1>0, <4>1, ConnFacts DEF OneSessionPerNode
      <4>3. d[1] # c[1]
        BY <2>1, <4>2
      <4> QED
        BY <1>0, <2>1, <4>2, <4>3, ConnFacts
    <3> QED
      BY <3>1, <3>2
  <2> QED
    BY <2>2, <2>3, <2>4 DEF OneSessionPerNode
<1>4. ASSUME NEW c \in Conn, Leave(c)
      PROVE  /\ session' \in [Conn -> SessionSteps] /\ peers' \in [Node -> Conn \cup {NoConn}]
             /\ PeersNamed' /\ OneSessionPerNode'
  <2>1. /\ peers[c[1]] = c /\ peers' = [peers EXCEPT ![c[1]] = NoConn]
        /\ session' = [session EXCEPT ![c] = none]
    BY <1>4, LeaveFacts
  <2>2. session' \in [Conn -> SessionSteps] /\ peers' \in [Node -> Conn \cup {NoConn}]
    BY <1>0, <2>1, ConnFacts DEF SessionSteps
  <2>3. PeersNamed'
    BY <1>0, <2>1, ConnFacts DEF PeersNamed
  <2>4. ASSUME NEW d \in Conn, session'[d] # none
        PROVE  peers'[d[1]] = d
    <3>1. d # c /\ session[d] # none
      BY <1>0, <2>1, <2>4
    <3>2. peers[d[1]] = d
      BY <1>0, <3>1 DEF OneSessionPerNode
    <3>3. d[1] # c[1]
      BY <2>1, <3>1, <3>2
    <3> QED
      BY <1>0, <2>1, <3>2, <3>3, ConnFacts
  <2> QED
    BY <2>2, <2>3, <2>4 DEF OneSessionPerNode
<1>5. CASE TellPeerAdded \/ TellPeerRemoved
  BY <1>2, <1>5 DEF TellPeerAdded, TellPeerRemoved
<1>6. CASE \E c \in Conn : DelPeer(c) \/ DrainPeer(c)
  BY <1>4, <1>6 DEF DelPeer, DrainPeer
<1> QED
  BY <1>1, <1>3, <1>5, <1>6, StepKinds

(* When the main loop is about to tell the dial scheduler of a peer, the   *)
(* peer is registered, or no longer.                                       *)
LEMMA TellingStep ==
    ASSUME ServerInv, [Next]_vars
    PROVE  /\ main'.do = "peerAdded" => main'.c \in Conn /\ peers'[main'.c[1]] = main'.c
           /\ main'.do = "peerRemoved" => main'.c \in Conn /\ peers'[main'.c[1]] = NoConn
<1>0. peers \in [Node -> Conn \cup {NoConn}]
  BY DEF ServerInv, ServerTypeOK
<1>1. CASE Other
  BY <1>1 DEF Other, Quiet, ServerInv, MainConsistent, At
<1>2. CASE TellPeerAdded \/ TellPeerRemoved
  <2>1. main' = Idle
    BY <1>2 DEF TellPeerAdded, TellPeerRemoved
  <2> QED
    BY <2>1, IdleTyped
<1>3. ASSUME NEW c \in Conn, Launch(c)
      PROVE  main'.do = "peerAdded" /\ main'.c = c /\ peers'[c[1]] = c
  <2>1. main' = Doing("peerAdded", c) /\ peers' = [peers EXCEPT ![c[1]] = c]
    BY <1>3 DEF Launch
  <2> QED
    BY <1>0, <2>1, DoingTyped, ConnFacts DEF MainSteps
<1>4. ASSUME NEW c \in Conn, DelPeer(c)
      PROVE  main'.do = "peerRemoved" /\ main'.c = c /\ peers'[c[1]] = NoConn
  <2>1. main' = Doing("peerRemoved", c) /\ peers' = [peers EXCEPT ![c[1]] = NoConn]
    BY <1>4, LeaveFacts DEF DelPeer
  <2> QED
    BY <1>0, <2>1, DoingTyped, ConnFacts DEF MainSteps
<1>5. CASE \E c \in Conn : DrainPeer(c)
  BY <1>5 DEF DrainPeer, At
<1> QED
  BY <1>1, <1>2, <1>3, <1>4, <1>5, StepKinds

-----------------------------------------------------------------------------
(* One more peer, or one less, in one of the two kinds.                    *)
LEMMA KindAdded ==
    ASSUME peers \in [Node -> Conn \cup {NoConn}], NEW c \in Conn, peers[c[1]] = NoConn,
           peers' = [peers EXCEPT ![c[1]] = c], NEW dir \in {"in", "out"}
    PROVE  /\ Kind(dir)' = (IF c[2] = dir THEN Kind(dir) \cup {c[1]} ELSE Kind(dir))
           /\ c[1] \notin Kind(dir)
BY ConnFacts DEF Kind, Connected

(* A peer that leaves is taken from its kind.                              *)
LEMMA KindRemoved ==
    ASSUME peers \in [Node -> Conn \cup {NoConn}], NEW c \in Conn, peers[c[1]] = c,
           peers' = [peers EXCEPT ![c[1]] = NoConn], NEW dir \in {"in", "out"}
    PROVE  /\ Kind(dir)' = Kind(dir) \ {c[1]}
           /\ c[1] \in Kind(dir) <=> c[2] = dir
BY ConnFacts DEF Kind, Connected

(* A registered connection counts for its own direction only.              *)
LEMMA KindOf ==
    ASSUME NEW c \in Conn, NEW dir \in {"in", "out"}
    PROVE  /\ peers[c[1]] = c => (c[1] \in Kind(dir) <=> c[2] = dir)
           /\ peers[c[1]] = NoConn => c[1] \notin Kind(dir)
BY ConnFacts DEF Kind, Connected

(* Both kinds are finite.                                                  *)
LEMMA KindFinite ==
    ASSUME NEW dir
    PROVE  IsFiniteSet(Kind(dir)) /\ Cardinality(Kind(dir)) \in Nat
<1>1. Kind(dir) \subseteq Node
  BY DEF Kind, Connected
<1> QED
  BY <1>1, DialAssumption, FS_Subset, FS_CardinalityType

(* Taking a node into a count, and out of it.                              *)
LEMMA CountOf ==
    ASSUME NEW S, IsFiniteSet(S), NEW x
    PROVE  /\ x \notin S => Cardinality(S \cup {x}) = Cardinality(S) + 1
           /\ x \in S => Cardinality(S \ {x}) = Cardinality(S) - 1
           /\ x \notin S => S \ {x} = S
BY FS_AddElement, FS_RemoveElement, FS_CardinalityType

(* Every step keeps the counters in agreement with the peers.              *)
LEMMA CountStep ==
    ASSUME ServerInv, [Next]_vars
    PROVE  CountsTold' /\ inboundCount' \in Int
<1>0. /\ peers \in [Node -> Conn \cup {NoConn}] /\ inboundCount \in Int /\ CountsTold
      /\ (main.do = "peerAdded" => main.c \in Conn /\ peers[main.c[1]] = main.c)
      /\ (main.do = "peerRemoved" => main.c \in Conn /\ peers[main.c[1]] = NoConn)
  BY DEF ServerInv, ServerTypeOK, MainConsistent, At
<1>1. CASE Other
  <2>1. UNCHANGED <<peers, inboundCount, dialed, dialPeers>> /\ (Over => Over')
    BY <1>1 DEF Other
  <2>2. Kind("in")' = Kind("in") /\ Kind("out")' = Kind("out")
    BY <2>1 DEF Kind, Connected
  <2>3. Told("in")' = Told("in") /\ Told("out")' = Told("out")
    BY <1>1, <2>2 DEF Other, Quiet, Told, At
  <2> QED
    BY <1>0, <2>1, <2>3 DEF CountsTold
<1>2. ASSUME NEW c \in Conn, Launch(c)
      PROVE  CountsTold' /\ inboundCount' \in Int
  <2>1. /\ main.do = "select" /\ peers[c[1]] = NoConn /\ peers' = [peers EXCEPT ![c[1]] = c]
        /\ main' = Doing("peerAdded", c) /\ UNCHANGED <<inboundCount, dialed, dialPeers>>
    BY <1>2 DEF Launch, At
  <2>2. main'.do = "peerAdded" /\ main'.c = c
    BY <2>1, DoingTyped DEF MainSteps
  <2>3. ASSUME NEW dir \in {"in", "out"}
        PROVE  Told(dir)' = Told(dir)
    <3>1. Told(dir)' = Kind(dir)' \ {c[1]} /\ Told(dir) = Kind(dir)
      BY <2>1, <2>2 DEF Told, At
    <3> QED
      BY <1>0, <2>1, <3>1, KindAdded
  <2> QED
    BY <1>0, <2>1, <2>3 DEF CountsTold, Over, At
<1>3. ASSUME NEW c \in Conn, DelPeer(c)
      PROVE  CountsTold' /\ inboundCount' \in Int
  <2>1. /\ main.do = "select" /\ peers[c[1]] = c /\ peers' = [peers EXCEPT ![c[1]] = NoConn]
        /\ main' = Doing("peerRemoved", c) /\ UNCHANGED <<inboundCount, dialed, dialPeers>>
    BY <1>3, LeaveFacts DEF DelPeer, At, dialVars
  <2>2. main'.do = "peerRemoved" /\ main'.c = c
    BY <2>1, DoingTyped DEF MainSteps
  <2>3. ASSUME NEW dir \in {"in", "out"}
        PROVE  Told(dir)' = Told(dir)
    <3>1. Told(dir)' = IF c[2] = dir THEN Kind(dir)' \cup {c[1]} ELSE Kind(dir)'
      BY <2>2 DEF Told, At
    <3>2. Told(dir) = Kind(dir)
      BY <2>1 DEF Told, At
    <3>3. Kind(dir)' = Kind(dir) \ {c[1]} /\ (c[1] \in Kind(dir) <=> c[2] = dir)
      BY <1>0, <2>1, KindRemoved
    <3> QED
      BY <3>1, <3>2, <3>3
  <2> QED
    BY <1>0, <2>1, <2>3 DEF CountsTold, Over, At
<1>4. CASE \E c \in Conn : DrainPeer(c)
  <2>1. At("drain") /\ main' = main /\ inboundCount' = inboundCount
    BY <1>4 DEF DrainPeer
  <2> QED
    BY <1>0, <2>1 DEF CountsTold, Over, At
<1>5. CASE TellPeerAdded
  <2> DEFINE c == main.c
  <2>1. main.do = "peerAdded" /\ c \in Conn /\ peers[c[1]] = c /\ main' = Idle /\ peers' = peers
    BY <1>0, <1>5 DEF TellPeerAdded, At
  <2>2. /\ dialed' = dialed \cup {c[1]}
        /\ dialPeers' = IF c[2] = "in" THEN dialPeers ELSE dialPeers + 1
        /\ inboundCount' = IF c[2] = "in" THEN inboundCount + 1 ELSE inboundCount
    BY <1>5 DEF TellPeerAdded, PeerAdded, Inbound
  <2>3. ASSUME NEW dir \in {"in", "out"}
        PROVE  /\ Told(dir)' = Kind(dir) /\ Told(dir) = Kind(dir) \ {c[1]}
               /\ c[1] \in Kind(dir) <=> c[2] = dir
    <3>1. Told(dir)' = Kind(dir)' /\ Told(dir) = Kind(dir) \ {c[1]}
      BY <2>1, IdleTyped DEF Told, At
    <3>2. Kind(dir)' = Kind(dir)
      BY <2>1 DEF Kind, Connected
    <3> QED
      BY <2>1, <3>1, <3>2, KindOf
  <2>4. ~Over
    BY <2>1 DEF Over, At
  <2>5. /\ dialed = Told("in") \cup Told("out")
        /\ dialPeers = Cardinality(Told("out")) /\ inboundCount = Cardinality(Told("in"))
    BY <1>0, <2>4 DEF CountsTold
  <2>6. c[2] \in {"in", "out"}
    BY <2>1, ConnFacts
  <2>7. dialed' = Told("in")' \cup Told("out")'
    BY <2>2, <2>3, <2>5, <2>6
  <2>8. dialPeers' = Cardinality(Told("out")')
    <3>1. CASE c[2] = "in"
      BY <2>2, <2>3, <2>5, <3>1, KindFinite, CountOf
    <3>2. CASE c[2] = "out"
      BY <2>2, <2>3, <2>5, <3>2, KindFinite, CountOf
    <3> QED
      BY <2>6, <3>1, <3>2
  <2>9. inboundCount' = Cardinality(Told("in")') /\ inboundCount' \in Int
    <3>1. CASE c[2] = "in"
      BY <1>0, <2>2, <2>3, <2>5, <3>1, KindFinite, CountOf
    <3>2. CASE c[2] = "out"
      BY <1>0, <2>2, <2>3, <2>5, <3>2, KindFinite, CountOf
    <3> QED
      BY <2>6, <3>1, <3>2
  <2> QED
    BY <2>7, <2>8, <2>9 DEF CountsTold
<1>6. CASE TellPeerRemoved
  <2> DEFINE c == main.c
  <2>1. main.do = "peerRemoved" /\ c \in Conn /\ peers[c[1]] = NoConn /\ main' = Idle /\ peers' = peers
    BY <1>0, <1>6 DEF TellPeerRemoved, At
  <2>2. /\ dialed' = dialed \ {c[1]}
        /\ dialPeers' = IF c[2] = "in" THEN dialPeers ELSE dialPeers - 1
        /\ inboundCount' = IF c[2] = "in" THEN inboundCount - 1 ELSE inboundCount
    BY <1>6 DEF TellPeerRemoved, PeerRemoved, Inbound
  <2>3. ASSUME NEW dir \in {"in", "out"}
        PROVE  /\ Told(dir)' = Kind(dir) /\ c[1] \notin Kind(dir)
               /\ Told(dir) = IF c[2] = dir THEN Kind(dir) \cup {c[1]} ELSE Kind(dir)
    <3>1. /\ Told(dir)' = Kind(dir)'
          /\ Told(dir) = IF c[2] = dir THEN Kind(dir) \cup {c[1]} ELSE Kind(dir)
      BY <2>1, IdleTyped DEF Told, At
    <3>2. Kind(dir)' = Kind(dir)
      BY <2>1 DEF Kind, Connected
    <3> QED
      BY <2>1, <3>1, <3>2, KindOf
  <2>4. ~Over
    BY <2>1 DEF Over, At
  <2>5. /\ dialed = Told("in") \cup Told("out")
        /\ dialPeers = Cardinality(Told("out")) /\ inboundCount = Cardinality(Told("in"))
    BY <1>0, <2>4 DEF CountsTold
  <2>6. c[2] \in {"in", "out"}
    BY <2>1, ConnFacts
  <2>7. dialed' = Told("in")' \cup Told("out")'
    BY <2>2, <2>3, <2>5, <2>6
  <2>8. dialPeers' = Cardinality(Told("out")')
    <3>1. CASE c[2] = "in"
      BY <2>2, <2>3, <2>5, <3>1, KindFinite, CountOf
    <3>2. CASE c[2] = "out"
      BY <2>2, <2>3, <2>5, <3>2, KindFinite, CountOf
    <3> QED
      BY <2>6, <3>1, <3>2
  <2>9. inboundCount' = Cardinality(Told("in")') /\ inboundCount' \in Int
    <3>1. CASE c[2] = "in"
      BY <1>0, <2>2, <2>3, <2>5, <3>1, KindFinite, CountOf
    <3>2. CASE c[2] = "out"
      BY <1>0, <2>2, <2>3, <2>5, <3>2, KindFinite, CountOf
    <3> QED
      BY <2>6, <3>1, <3>2
  <2> QED
    BY <2>7, <2>8, <2>9 DEF CountsTold
<1> QED
  BY <1>1, <1>2, <1>3, <1>4, <1>5, <1>6, StepKinds

-----------------------------------------------------------------------------
(* Every step of the server and the dial scheduler keeps the invariant.    *)
LEMMA ServerStep == ServerInv /\ [Next]_vars => ServerInv'
<1> SUFFICES ASSUME ServerInv, [Next]_vars PROVE ServerInv'
  OBVIOUS
<1>1. ServerTypeOK'
  BY MainStep, PeerStep, CountStep, RemoverStep, RemoverMoving DEF ServerTypeOK, MainRecords
<1>2. MainConsistent'
  BY MainStep, TellingStep, RemoverStep, RemoverMoving DEF MainConsistent, At, Removing
<1> QED
  BY <1>1, <1>2, PeerStep, CountStep DEF ServerInv

(* To the dial scheduler, every step of the server is one of its own.      *)
LEMMA DialStep ==
    ASSUME ServerInv, [Next]_vars
    PROVE  [DialNext]_dialVars
<1>0. /\ StaticNodes \subseteq Node /\ VerifyNodes \subseteq Node /\ Candidates \subseteq Node
      /\ Managed \subseteq Node
  BY ServerAssumption
<1>1. CASE TellPeerAdded \/ TellPeerRemoved
  <2>1. main.c \in Conn
    BY <1>1 DEF TellPeerAdded, TellPeerRemoved, ServerInv, MainConsistent
  <2>2. main.c[1] \in Node /\ (~Inbound(main.c)) \in BOOLEAN
    BY <2>1, ConnFacts DEF Inbound
  <2>3. PeerAdded(main.c[1], ~Inbound(main.c)) \/ PeerRemoved(main.c[1], ~Inbound(main.c))
    BY <1>1 DEF TellPeerAdded, TellPeerRemoved
  <2>4. \E n \in Node, outbound \in BOOLEAN : PeerAdded(n, outbound) \/ PeerRemoved(n, outbound)
    BY <2>2, <2>3, Zenon
  <2> QED
    BY <2>4 DEF DialNext
<1>2. CASE TellRemoveStatic
  <2>1. remover.n \in Node
    BY <1>2 DEF TellRemoveStatic, At, Removing, ServerInv, MainConsistent
  <2> QED
    BY <1>2, <2>1 DEF TellRemoveStatic, DialNext
<1>3. CASE Start
  BY <1>3 DEF Start, ServerInv, MainConsistent, DialNext
<1>4. CASE Dial
  BY <1>0, <1>4 DEF Dial, DialNext
<1>5. CASE HistoryTimer \/ CancelDials \/ \E n \in Node : EndTask(n)
  BY <1>5 DEF HistoryTimer, CancelDials, EndTask, DialNext
<1>6. CASE \E n \in Managed : AddPeer(n)
  BY <1>0, <1>6 DEF AddPeer, DialNext
<1>7. CASE \/ UNCHANGED vars \/ Continue \/ TakePeerOp \/ ReadEvent \/ Stop \/ Spindown \/ ResetDisconnected
           \/ \E n \in Node : Accept(n) \/ AnnounceDrop(n)
           \/ \E n \in Managed : RemovePeer(n) \/ SetTrusted(n, TRUE) \/ SetTrusted(n, FALSE)
           \/ \E c \in Conn : Setup(c) \/ AnnounceAdd(c) \/ RunEnds(c) \/ DelPeer(c) \/ DrainPeer(c)
  <2>1. UNCHANGED dialVars
    BY <1>7 DEF vars, Continue, DisconnectPeer, NextPeer, QuitPeer, StopDialing, Stopped, TakePeerOp, ReadEvent,
       Stop, Spindown, ResetDisconnected, Accept, AnnounceDrop, RemovePeer, SetTrusted, Setup, SetupFails,
       CheckpointPostHandshake, CheckpointAddPeer, AnnounceAdd, RunEnds, DelPeer, DrainPeer
  <2> QED
    BY <2>1
<1> QED
  BY <1>1, <1>2, <1>3, <1>4, <1>5, <1>6, <1>7 DEF Next, Tell

(* The invariant holds whatever run, runPeer, SetupConn, RemovePeer and    *)
(* the dial scheduler do.                                                  *)
THEOREM ServerInvariant == Spec => []ServerInv
BY ServerInit, ServerStep, PTL DEF Spec

(* The server is an environment the dial scheduler allows for: whatever    *)
(* run, runPeer, SetupConn and the API do, in any order, the scheduler     *)
(* inside the server behaves as the scheduler alone.                       *)
THEOREM ServerImplementsDialer == Spec => DialSpec
<1>1. Init => DialInit
  BY DEF Init
<1>2. ServerInv /\ [Next]_vars => [DialNext]_dialVars
  BY DialStep
<1> QED
  BY <1>1, <1>2, ServerInvariant, PTL DEF Spec, DialSpec

(* In the running server the static pool is exact, for every set of nodes: *)
(* no order of peerAdded, peerRemoved, addStatic, removeStatic, finished   *)
(* dials and expired history entries loses a static node.                  *)
THEOREM ServerStaticPoolExact == Spec => []StaticPoolExact
BY ServerImplementsDialer, DialerStaticPoolExact, PTL

(* In the running server no more than maxActiveDials tasks run.            *)
THEOREM ServerActiveDialsBounded == Spec => []ActiveDialsBounded
BY ServerImplementsDialer, DialerActiveDialsBounded, PTL

(* addPeerChecks on the main loop is enough: however the handshakes of a   *)
(* node's inbound and outbound connections interleave, it gets one session. *)
THEOREM ServerOneSession == Spec => []OneSessionPerNode
<1>1. ServerInv => OneSessionPerNode
  BY DEF ServerInv
<1> QED
  BY <1>1, ServerInvariant, PTL

(* The main loop's inboundCount and the dial scheduler's peers and         *)
(* dialPeers, updated at different moments by two goroutines, agree with   *)
(* the server's peers whenever the main loop is back at its select.        *)
THEOREM ServerCountsExact == Spec => []CountsExact
<1>1. ServerInv => CountsExact
  <2> SUFFICES ASSUME ServerInv, At("select") PROVE CountsExact
    BY DEF CountsExact
  <2>1. Told("in") = Kind("in") /\ Told("out") = Kind("out") /\ ~Over
    BY DEF Told, Over, At
  <2>2. /\ dialed = Kind("in") \cup Kind("out")
        /\ dialPeers = Cardinality(Kind("out")) /\ inboundCount = Cardinality(Kind("in"))
    BY <2>1 DEF ServerInv, CountsTold
  <2>3. \A n \in Connected : peers[n][2] \in {"in", "out"}
    BY ConnFacts DEF Connected, ServerInv, ServerTypeOK
  <2>4. /\ Kind("in") \cup Kind("out") = Connected
        /\ Kind("out") = {n \in Connected : ~Inbound(peers[n])}
        /\ Kind("in") = {n \in Connected : Inbound(peers[n])}
    BY <2>3 DEF Kind, Inbound
  <2> QED
    BY <2>2, <2>4 DEF CountsExact
<1> QED
  BY <1>1, ServerInvariant, PTL
=============================================================================
