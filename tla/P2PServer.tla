----------------------------- MODULE P2PServer -----------------------------
(***************************************************************************)
(* The p2p server (p2p/server.go): its main loop, the connections being    *)
(* set up, the peers' goroutines and RemovePeer's caller, together with    *)
(* the dial scheduler.                                                     *)
(*                                                                         *)
(* Channels are unbuffered, so a send and its receive are one step; a      *)
(* goroutine between two such steps is in a state of its own.  main is     *)
(* what the main loop is doing: "select", or the rest of a case that waits *)
(* for the dial scheduler or for a peer.  Outcomes of the network (dials,  *)
(* handshakes, disconnects of the other side) are left open.  A node has   *)
(* at most one inbound connection at a time; the throttle of inbound       *)
(* addresses only makes that rarer, and is left out.                       *)
(***************************************************************************)
EXTENDS DialScheduler

CONSTANTS
    MaxPeers, MaxPendingPeers,
    StaticNodes, VerifyNodes,
    Candidates,           \* nodes that the discovery iterator finds
    Visitors,             \* nodes that dial us
    Managed,              \* nodes that the API is called for
    MaxCalls              \* bound: API calls

ASSUME ServerAssumption ==
    /\ MaxPeers \in Nat /\ MaxPendingPeers \in Nat /\ MaxCalls \in Nat
    /\ StaticNodes \cup VerifyNodes \cup Candidates \cup Visitors \cup Managed \subseteq Node

VARIABLES
    setup,                \* [Conn -> where SetupConn, or the dial before it, is]
    trustedConn,          \* connections with the flag trustedConn
    peers,                \* [Node -> its connection, NoConn]
    session,              \* [Conn -> where runPeer is]
    requested,            \* sessions told to disconnect with DiscRequested
    drops,                \* nodes whose runPeer has still to send its Drop event
    inboundCount, trusted, disconnectEnodeSet,
    main, quit,
    slots,                \* free slots of listenLoop
    remover,              \* [pc, n]: the goroutine in RemovePeer
    subscribed, ch,       \* its subscription of peerFeed, and the channel
    calls

connVars == <<setup, trustedConn, slots>>
peerVars == <<peers, session, requested, drops, inboundCount>>
callVars == <<remover, subscribed, ch, calls>>
setVars == <<trusted, disconnectEnodeSet>>
vars == <<dialVars, connVars, peerVars, setVars, callVars, main, quit>>

Conn == Node \X {"in", "out"}
NoConn == <<>>
Inbound(c) == c[2] = "in"
Connected == {n \in Node : peers[n] # NoConn}
At(do) == main.do = do
Idle == [do |-> "select", c |-> NoConn, left |-> {}]
Doing(do, c) == [do |-> do, c |-> c, left |-> {}]

Init ==
    /\ DialInit
    /\ setup = [c \in Conn |-> none] /\ trustedConn = {} /\ slots = MaxPendingPeers
    /\ peers = [n \in Node |-> NoConn] /\ session = [c \in Conn |-> none]
    /\ requested = {} /\ drops = {} /\ inboundCount = 0
    /\ trusted = {} /\ disconnectEnodeSet = {}
    /\ main = [do |-> "starting", c |-> NoConn, left |-> StaticNodes \cup VerifyNodes]
    /\ quit = FALSE
    /\ remover = [pc |-> "idle", n |-> none] /\ subscribed = FALSE /\ ch = <<>> /\ calls = 0

(* Start: setupDialScheduler adds the static nodes, then the loop runs.    *)
Start ==
    /\ At("starting")
    /\ \/ \E n \in main.left : AddStatic(n) /\ main' = [main EXCEPT !.left = @ \ {n}]
       \/ main.left = {} /\ main' = Idle /\ UNCHANGED dialVars
    /\ UNCHANGED <<connVars, peerVars, setVars, callVars, quit>>

-----------------------------------------------------------------------------
(* Setting up a connection: dialTask.run, listenLoop and SetupConn.        *)
Move(c, pc) == setup' = [setup EXCEPT ![c] = pc] /\ UNCHANGED <<trustedConn, slots>>

(* Mutant: the slot of a refused connection is not given back. *)
ReturnMutant(c, accepted) ==
    /\ setup' = [setup EXCEPT ![c] = IF Inbound(c) THEN none ELSE "done"]
    /\ slots' = IF Inbound(c) /\ accepted THEN slots + 1 ELSE slots
    /\ trustedConn' = IF accepted THEN trustedConn ELSE trustedConn \ {c}

(* SetupConn returns: to the dial task, or to listenLoop's goroutine, which *)
(* gives the slot back.                                                    *)
Return(c, accepted) ==
    /\ setup' = [setup EXCEPT ![c] = IF Inbound(c) THEN none ELSE "done"]
    /\ slots' = IF Inbound(c) THEN slots + 1 ELSE slots
    /\ trustedConn' = IF accepted THEN trustedConn ELSE trustedConn \ {c}

(* With verify nodes SetupConn looks up the ID of the node it dialed; an   *)
(* inbound connection has none, and the panic ends the pool's task.        *)
Accept(n) ==
    /\ LET c == <<n, "in">>
       IN /\ n \in Visitors /\ ~quit /\ slots > 0
          /\ setup[c] = none /\ session[c] = none
          /\ setup' = [setup EXCEPT ![c] = IF VerifyNodes = {} THEN "enc" ELSE "panicked"]
          /\ slots' = slots - 1
    /\ UNCHANGED <<trustedConn, dialVars, peerVars, setVars, callVars, main, quit>>

(* The dial fails (of a static node: also the second one, after resolve),  *)
(* or a handshake; the protocols do not match, the name is filtered, or    *)
(* the server has stopped.                                                 *)
SetupFails(c) ==
    /\ setup[c] \in {"dial", "enc", "proto"}
    /\ Return(c, FALSE)
    /\ UNCHANGED <<dialVars, peerVars, setVars, callVars, main, quit>>

-----------------------------------------------------------------------------
(* The checkpoints, on the main loop.  The dial and the handshake before a *)
(* checkpoint have succeeded when the connection gets there.               *)
maxInboundConns == MaxPeers - maxDialPeers

postHandshakeChecks(c, isTrusted) ==
    /\ isTrusted \/ Cardinality(Connected) < MaxPeers
    /\ isTrusted \/ ~Inbound(c) \/ inboundCount < maxInboundConns
    /\ peers[c[1]] = NoConn

CheckpointPostHandshake(c) ==
    /\ At("select") /\ setup[c] \in {"dial", "enc"}
    /\ IF postHandshakeChecks(c, c[1] \in trusted)
       THEN /\ setup' = [setup EXCEPT ![c] = "proto"] /\ UNCHANGED slots
            /\ trustedConn' = IF c[1] \in trusted THEN trustedConn \cup {c} ELSE trustedConn
       ELSE Return(c, FALSE)
    /\ UNCHANGED <<dialVars, peerVars, setVars, callVars, main, quit>>

(* Mutant: the checks made after the first handshake are not repeated. *)
addPeerChecksMutant(c) == c[1] \notin disconnectEnodeSet

addPeerChecks(c) ==
    c[1] \notin disconnectEnodeSet /\ postHandshakeChecks(c, c \in trustedConn)

(* launchPeer; the dial scheduler is told before the connection goes on.   *)
CheckpointAddPeer(c) ==
    /\ At("select") /\ setup[c] = "proto"
    /\ IF addPeerChecks(c)
       THEN /\ session' = [session EXCEPT ![c] = "launched"]
            /\ peers' = [peers EXCEPT ![c[1]] = c]
            /\ main' = Doing("peerAdded", c)
            /\ Move(c, "cont")
       ELSE Return(c, FALSE) /\ UNCHANGED <<session, peers, main>>
    /\ UNCHANGED <<requested, drops, inboundCount, dialVars, setVars, callVars, quit>>

TellPeerAdded ==
    /\ At("peerAdded")
    /\ PeerAdded(main.c[1], ~Inbound(main.c))
    /\ inboundCount' = IF Inbound(main.c) THEN inboundCount + 1 ELSE inboundCount
    /\ Return(main.c, TRUE)
    /\ main' = Idle
    /\ UNCHANGED <<peers, session, requested, drops, setVars, callVars, quit>>

-----------------------------------------------------------------------------
(* runPeer.  Send of the event feed waits for room in the channel of a     *)
(* subscriber.                                                             *)
Send(event) ==
    /\ subscribed => ch = <<>>
    /\ ch' = IF subscribed THEN <<event>> ELSE ch
    /\ UNCHANGED <<remover, subscribed, calls>>

AnnounceAdd(c) ==
    /\ session[c] = "launched"
    /\ Send(<<"add", c[1]>>)
    /\ session' = [session EXCEPT ![c] = "running"]
    /\ UNCHANGED <<peers, requested, drops, inboundCount, dialVars, connVars, setVars, main, quit>>

(* Peer.run ends of itself: the other side, the network or a protocol.     *)
RunEnds(c) ==
    /\ session[c] = "running"
    /\ session' = [session EXCEPT ![c] = "closed"]
    /\ UNCHANGED <<peers, requested, drops, inboundCount, dialVars, connVars, setVars, callVars, main, quit>>

(* Its goroutines have returned.  Bound: one Drop event per node waits.    *)
Leave(c) ==
    /\ session[c] = "closed" /\ c[1] \notin drops
    /\ session' = [session EXCEPT ![c] = none]
    /\ peers' = [peers EXCEPT ![c[1]] = NoConn]
    /\ drops' = drops \cup {c[1]}
    /\ requested' = requested \ {c}
    /\ trustedConn' = trustedConn \ {c}

(* The case of delpeer. *)
DelPeer(c) ==
    /\ At("select") /\ Leave(c)
    /\ disconnectEnodeSet' = IF c \in requested THEN disconnectEnodeSet \cup {c[1]} ELSE disconnectEnodeSet
    /\ main' = Doing("peerRemoved", c)
    /\ UNCHANGED <<setup, slots, inboundCount, trusted, dialVars, callVars, quit>>

(* Mutant: only the dial scheduler counts down. *)
TellPeerRemovedMutant ==
    /\ At("peerRemoved")
    /\ PeerRemoved(main.c[1], ~Inbound(main.c))
    /\ main' = Idle
    /\ UNCHANGED <<inboundCount, peers, session, requested, drops, connVars, setVars, callVars, quit>>

TellPeerRemoved ==
    /\ At("peerRemoved")
    /\ PeerRemoved(main.c[1], ~Inbound(main.c))
    /\ inboundCount' = IF Inbound(main.c) THEN inboundCount - 1 ELSE inboundCount
    /\ main' = Idle
    /\ UNCHANGED <<peers, session, requested, drops, connVars, setVars, callVars, quit>>

AnnounceDrop(n) ==
    /\ n \in drops
    /\ Send(<<"drop", n>>)
    /\ drops' = drops \ {n}
    /\ UNCHANGED <<peers, session, requested, inboundCount, dialVars, connVars, setVars, main, quit>>

-----------------------------------------------------------------------------
(* The API.                                                                *)
Call == calls < MaxCalls /\ calls' = calls + 1 /\ ~At("starting")

AddPeer(n) ==
    /\ Call
    /\ AddStatic(n)
    /\ UNCHANGED <<remover, subscribed, ch, connVars, peerVars, setVars, main, quit>>

(* AddTrustedPeer and RemoveTrustedPeer, as the main loop handles them. *)
SetTrusted(n, yes) ==
    /\ Call /\ At("select")
    /\ trusted' = IF yes THEN trusted \cup {n} ELSE trusted \ {n}
    /\ trustedConn' = IF peers[n] = NoConn THEN trustedConn
                      ELSE IF yes THEN trustedConn \cup {peers[n]} ELSE trustedConn \ {peers[n]}
    /\ UNCHANGED <<disconnectEnodeSet, remover, subscribed, ch, setup, slots, dialVars, peerVars, main, quit>>

(* RemovePeer with the reserved ID. *)
ResetDisconnected ==
    /\ Call /\ At("select")
    /\ disconnectEnodeSet' = {}
    /\ UNCHANGED <<trusted, remover, subscribed, ch, connVars, dialVars, peerVars, main, quit>>

RemovePeer(n) ==
    /\ Call /\ remover.pc = "idle" /\ ~quit
    /\ remover' = [pc |-> "call", n |-> n]
    /\ UNCHANGED <<subscribed, ch, connVars, dialVars, peerVars, setVars, main, quit>>

(* doPeerOp: the function runs on the main loop, unless the server stops.  *)
TakePeerOp ==
    /\ remover.pc = "call"
    /\ \/ /\ At("select")
          /\ remover' = [remover EXCEPT !.pc = "op"]
          /\ main' = Doing("removeStatic", NoConn)
       \/ /\ quit
          /\ remover' = [remover EXCEPT !.pc = "idle"]
          /\ UNCHANGED main
    /\ UNCHANGED <<subscribed, ch, calls, connVars, dialVars, peerVars, setVars, quit>>

TellRemoveStatic ==
    /\ At("removeStatic")
    /\ RemoveStatic(remover.n)
    /\ IF peers[remover.n] = NoConn
       THEN /\ remover' = [remover EXCEPT !.pc = "idle"]
            /\ main' = Idle
            /\ UNCHANGED subscribed
       ELSE /\ subscribed' = TRUE
            /\ main' = Doing("disconnect", peers[remover.n])
            /\ UNCHANGED remover
    /\ UNCHANGED <<ch, calls, connVars, peerVars, setVars, quit>>

(* Peer.Disconnect: Peer.run takes the reason, or is over already.         *)
Disconnected(c, reason) ==
    \/ /\ session[c] = "running"
       /\ session' = [session EXCEPT ![c] = "closed"]
       /\ requested' = IF reason = "DiscRequested" THEN requested \cup {c} ELSE requested
    \/ /\ session[c] \in {"closed", none}
       /\ UNCHANGED <<session, requested>>

DisconnectPeer ==
    /\ At("disconnect")
    /\ Disconnected(main.c, "DiscRequested")
    /\ main' = Idle
    /\ remover' = [remover EXCEPT !.pc = "wait"]
    /\ UNCHANGED <<subscribed, ch, calls, peers, drops, inboundCount, connVars, dialVars, setVars, quit>>

(* RemovePeer reads events until the peer is gone, then unsubscribes. *)
ReadEvent ==
    /\ remover.pc = "wait" /\ ch # <<>>
    /\ ch' = <<>>
    /\ IF Head(ch) = <<"drop", remover.n>>
       THEN remover' = [remover EXCEPT !.pc = "idle"] /\ subscribed' = FALSE
       ELSE UNCHANGED <<remover, subscribed>>
    /\ UNCHANGED <<calls, connVars, dialVars, peerVars, setVars, main, quit>>

-----------------------------------------------------------------------------
(* Stop, and what the main loop does after it: disconnect the peers one by *)
(* one, wait for them, stop the dial scheduler.                            *)
Stop ==
    /\ ~At("starting")
    /\ ~quit /\ quit' = TRUE
    /\ UNCHANGED <<connVars, dialVars, peerVars, setVars, callVars, main>>

Spindown ==
    /\ At("select") /\ quit
    /\ main' = [do |-> "spindown", c |-> NoConn, left |-> {peers[n] : n \in Connected}]
    /\ UNCHANGED <<connVars, dialVars, peerVars, setVars, callVars, quit>>

NextPeer ==
    /\ At("spindown")
    /\ \/ \E c \in main.left : main' = [do |-> "quitPeer", c |-> c, left |-> main.left \ {c}]
       \/ main.left = {} /\ main' = Doing("drain", NoConn)
    /\ UNCHANGED <<connVars, dialVars, peerVars, setVars, callVars, quit>>

QuitPeer ==
    /\ At("quitPeer")
    /\ Disconnected(main.c, "DiscQuitting")
    /\ main' = [main EXCEPT !.do = "spindown", !.c = NoConn]
    /\ UNCHANGED <<peers, drops, inboundCount, connVars, dialVars, setVars, callVars, quit>>

DrainPeer(c) ==
    /\ At("drain") /\ Leave(c)
    /\ UNCHANGED <<setup, slots, inboundCount, setVars, dialVars, callVars, main, quit>>

StopDialing ==
    /\ At("drain") /\ Connected = {}
    /\ main' = Doing("stopDialing", NoConn)
    /\ UNCHANGED <<connVars, dialVars, peerVars, setVars, callVars, quit>>

Stopped ==
    /\ At("stopDialing") /\ loop = "done"
    /\ main' = Doing("stopped", NoConn)
    /\ UNCHANGED <<connVars, dialVars, peerVars, setVars, callVars, quit>>

-----------------------------------------------------------------------------
(* The dial scheduler's own steps, with the tasks it starts and ends.      *)
StartsTask(n) == setup' = [setup EXCEPT ![<<n, "out">>] = "dial"]

CancelDials ==
    /\ At("stopDialing") /\ Cancel
    /\ UNCHANGED <<connVars, peerVars, setVars, callVars, main, quit>>

Dial ==
    /\ \/ \E idx \in DOMAIN staticPool : StartStaticDial(idx) /\ StartsTask(staticPool[idx])
       \/ \E n \in Candidates : NodeIn(n) /\ IF checkDial(n) THEN StartsTask(n) ELSE UNCHANGED setup
       \/ StaticDialsStarted /\ UNCHANGED setup
       \/ Drained /\ UNCHANGED setup
    /\ UNCHANGED <<trustedConn, slots, peerVars, setVars, callVars, main, quit>>

HistoryTimer ==
    /\ ExpireHistory
    /\ UNCHANGED <<connVars, peerVars, setVars, callVars, main, quit>>

EndTask(n) ==
    /\ setup[<<n, "out">>] = "done"
    /\ TaskDone(n) \/ Drain(n)
    /\ Move(<<n, "out">>, none)
    /\ UNCHANGED <<peerVars, setVars, callVars, main, quit>>

(* The main loop hands something to the dial scheduler.                    *)
Tell == Start \/ TellPeerAdded \/ TellPeerRemoved \/ TellRemoveStatic \/ CancelDials

(* The main loop goes on with what it has begun. *)
Continue == DisconnectPeer \/ NextPeer \/ QuitPeer \/ StopDialing \/ Stopped

(* A connection leaves the state it is in. *)
Setup(c) == SetupFails(c) \/ CheckpointPostHandshake(c) \/ CheckpointAddPeer(c)

Next ==
    \/ Tell \/ Continue \/ Dial \/ HistoryTimer \/ TakePeerOp \/ ReadEvent
    \/ Stop \/ Spindown \/ ResetDisconnected
    \/ \E n \in Node : EndTask(n) \/ Accept(n) \/ AnnounceDrop(n)
    \/ \E n \in Managed : AddPeer(n) \/ RemovePeer(n) \/ SetTrusted(n, TRUE) \/ SetTrusted(n, FALSE)
    \/ \E c \in Conn : Setup(c) \/ AnnounceAdd(c) \/ RunEnds(c) \/ DelPeer(c) \/ DrainPeer(c)

Spec == Init /\ [][Next]_vars

(* Goroutines that can go on do; dials and handshakes have a timeout.  A   *)
(* select that is entered again and again takes a case that is ready each  *)
(* time: Go chooses among the ready cases at random.                       *)
FairSpec ==
    /\ Spec
    /\ WF_vars(Continue) /\ WF_vars(TakePeerOp) /\ WF_vars(ReadEvent)
    /\ WF_vars(Dial) /\ SF_vars(HistoryTimer) /\ SF_vars(Tell) /\ SF_vars(Spindown)
    /\ \A n \in Node : WF_vars(EndTask(n)) /\ WF_vars(AnnounceDrop(n))
    /\ \A c \in Conn : WF_vars(Setup(c)) /\ WF_vars(AnnounceAdd(c)) /\ WF_vars(DrainPeer(c))

-----------------------------------------------------------------------------
(* Between two cases of the main loop the server and the dial scheduler    *)
(* agree on who is connected, and the two counts that gate new dials and   *)
(* new inbound connections are exact.                                      *)
CountsExact ==
    At("select") =>
        /\ dialed = Connected
        /\ dialPeers = Cardinality({n \in Connected : ~Inbound(peers[n])})
        /\ inboundCount = Cardinality({n \in Connected : Inbound(peers[n])})

(* A node that dials us while we dial it gets one session: every session   *)
(* that is not over is the registered one of its node.                     *)
OneSessionPerNode == \A c \in Conn : session[c] # none => peers[c[1]] = c

(* The main loop waits in Disconnect for a peer whose Add event waits for  *)
(* room in the channel that RemovePeer reads after Disconnect.             *)
Stuck ==
    /\ At("disconnect") /\ session[main.c] = "launched"
    /\ subscribed /\ ch # <<>>

(* Stop ends, unless the main loop is stuck in RemovePeer: every peer and  *)
(* every pending connection is gone, the dial scheduler has stopped and    *)
(* the slots of listenLoop are back.                                       *)
StopTerminates == quit ~> (At("stopped") /\ slots = MaxPendingPeers) \/ Stuck

(* "The dialer attempts [to] keep these nodes connected at all times": a   *)
(* static node that is not connected is dialed again, unless all slots for *)
(* dials are taken.                                                        *)
StaticRedialed ==
    \A n \in Node :
        n \in static \ dialed ~> \/ n \in Dialing \cup dialed \/ n \notin static
                                 \/ freeDialSlots <= 0 \/ quit \/ Stuck

(* "This method blocks until all protocols have exited and the peer is     *)
(* removed": RemovePeer returns once the server stops, at the latest.      *)
RemovePeerReturns == quit /\ remover.pc # "idle" ~> remover.pc = "idle"
=============================================================================
