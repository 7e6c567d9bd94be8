------------------------------ MODULE PeerSet ------------------------------
(***************************************************************************)
(* The life of a connection on the eth and trust protocols: runEthPeer and *)
(* runTrustExtension of eth/handler.go over eth/peerset.go.  The two       *)
(* handlers of one connection are goroutines that find each other in the   *)
(* peer set; the handlers of all connections share its lock and the        *)
(* counters.                                                               *)
(*                                                                         *)
(* The lock is only ever held across a blocking operation by               *)
(* registerTrustExtension, while it sends to the waiting eth handler; all  *)
(* other critical sections are one step that needs the lock to be free.    *)
(***************************************************************************)
EXTENDS Naturals, FiniteSets

CONSTANTS Peer,           \* node ids
          Verify,         \* peers that run trust and are verify nodes
          Trusted,        \* peers exempt from the limits
          Ip,             \* [Peer -> address]
          MaxPeers, MaxPeersPerIP,
          MaxConns,       \* bound: connections per peer
          Nobody          \* the lock is free

ASSUME PeerAssumption ==
    /\ Verify \subseteq Peer /\ Trusted \subseteq Peer /\ Nobody \notin Peer
    /\ IsFiniteSet(Peer)
    /\ MaxPeers \in Nat \ {0} /\ MaxPeersPerIP \in Nat \ {0}
    /\ MaxConns \in Nat

VARIABLES
    conn,        \* [Peer -> connections made so far] (bounded)
    up,          \* peers whose connection is open
    eth, trust,  \* [Peer -> where the handler of the connection is]
    sender,      \* peer whose trust handler holds the lock, or Nobody
    trustWait,   \* peers with a channel in trustWait
    trustPend,   \* peers with an extension in trustPend
    peers,       \* the registered peers
    peersPerIP,  \* [address -> Nat]
    active,      \* the tracker's count of handlers
    crashed      \* the process is gone

setVars == <<sender, trustWait, trustPend, peers, peersPerIP>>
vars == <<conn, up, eth, trust, setVars, active, crashed>>

Address == {Ip[p] : p \in Peer}

Init ==
    /\ conn = [p \in Peer |-> 0] /\ up = {}
    /\ eth = [p \in Peer |-> "off"] /\ trust = [p \in Peer |-> "off"]
    /\ sender = Nobody /\ trustWait = {} /\ trustPend = {}
    /\ peers = {} /\ peersPerIP = [a \in Address |-> 0]
    /\ active = 0
    /\ crashed = FALSE

-----------------------------------------------------------------------------
(* The p2p server and the remote side. *)

(* One connection per node, at most MaxPeers of them but for trusted nodes *)
(* (postHandshakeChecks); a new one starts when the handlers of the last   *)
(* have returned (Peer.run waits for them).                                *)
Connect(p) ==
    /\ p \notin up /\ eth[p] = "off" /\ trust[p] = "off"
    /\ p \in Trusted \/ Cardinality({q \in Peer : q \in up \/ eth[q] # "off"}) < MaxPeers
    /\ conn[p] < MaxConns
    /\ conn' = [conn EXCEPT ![p] = @ + 1]
    /\ up' = up \cup {p}
    /\ eth' = [eth EXCEPT ![p] = "start"]
    /\ trust' = [trust EXCEPT ![p] = IF p \in Verify THEN "start" ELSE "off"]
    /\ UNCHANGED <<setVars, active, crashed>>

Disconnect(p) ==
    /\ p \in up
    /\ up' = up \ {p}
    /\ UNCHANGED <<conn, eth, trust, setVars, active, crashed>>

-----------------------------------------------------------------------------
(* runEthPeer. *)

EthGoto(p, step) == eth' = [eth EXCEPT ![p] = step] /\ UNCHANGED <<up, active>>

(* runEthPeer returns: decHandlers, and the connection is closed. *)
EthReturn(p) ==
    /\ eth' = [eth EXCEPT ![p] = "off"]
    /\ active' = active - 1
    /\ up' = up \ {p}

(* incHandlers; only verify nodes wait for their extension. *)
EthStart(p) ==
    /\ eth[p] = "start"
    /\ eth' = [eth EXCEPT ![p] = IF p \in Verify THEN "wait?" ELSE "handshake"]
    /\ active' = active + 1
    /\ UNCHANGED <<conn, up, trust, setVars, crashed>>

(* waitTrustExtension. *)
WaitTrustExtension(p) ==
    /\ eth[p] = "wait?" /\ sender = Nobody
    /\ IF p \in peers \cup trustWait
       THEN EthReturn(p) /\ UNCHANGED <<trustPend, trustWait>>
       ELSE IF p \in trustPend
       THEN trustPend' = trustPend \ {p} /\ EthGoto(p, "handshake") /\ UNCHANGED trustWait
       ELSE trustWait' = trustWait \cup {p} /\ EthGoto(p, "waiting") /\ UNCHANGED trustPend
    /\ UNCHANGED <<conn, trust, sender, peers, peersPerIP, crashed>>

(* The unbuffered channel: the send and the receive are one step, and the  *)
(* sender unlocks.                                                         *)
ExtensionArrives(p) ==
    /\ eth[p] = "waiting" /\ sender = p
    /\ EthGoto(p, "handshake")
    /\ trust' = [trust EXCEPT ![p] = "serving"]
    /\ sender' = Nobody
    /\ UNCHANGED <<conn, trustWait, trustPend, peers, peersPerIP, crashed>>

(* extensionWaitTimeout has passed: select takes that branch ... *)
WaitTimeout(p) ==
    /\ eth[p] = "waiting"
    /\ EthGoto(p, "timed out")
    /\ UNCHANGED <<conn, trust, setVars, crashed>>

TimedOutMutant(p) ==
    /\ eth[p] = "timed out" /\ sender = Nobody
    /\ EthReturn(p)
    /\ UNCHANGED <<conn, trust, setVars, crashed>>

(* ... which takes the lock to delete the channel. *)
TimedOut(p) ==
    /\ eth[p] = "timed out" /\ sender = Nobody
    /\ trustWait' = trustWait \ {p}
    /\ EthReturn(p)
    /\ UNCHANGED <<conn, trust, sender, trustPend, peers, peersPerIP, crashed>>

HandshakeMutant(p) ==
    /\ eth[p] = "handshake" /\ p \in up
    /\ EthGoto(p, "limit") \/ EthReturn(p)
    /\ UNCHANGED <<conn, trust, setVars, crashed>>

(* The handshake succeeds, or fails (also by its own timeout).             *)
Handshake(p) ==
    /\ eth[p] = "handshake"
    /\ \/ p \in up /\ EthGoto(p, "limit")
       \/ EthReturn(p)
    /\ UNCHANGED <<conn, trust, setVars, crashed>>

TooManyPeers(p) == p \notin Trusted /\ Cardinality(peers) >= MaxPeers

CheckMaxPeers(p) ==
    /\ eth[p] = "limit" /\ sender = Nobody
    /\ IF TooManyPeers(p) THEN EthReturn(p) ELSE EthGoto(p, "ip limit")
    /\ UNCHANGED <<conn, trust, setVars, crashed>>

CountIPMutant(p) ==
    /\ eth[p] = "ip limit"
    /\ IF p \notin Trusted /\ peersPerIP[Ip[p]] >= MaxPeersPerIP
       THEN EthReturn(p) /\ UNCHANGED peersPerIP
       ELSE /\ peersPerIP' = [peersPerIP EXCEPT ![Ip[p]] = @ + 1]
            /\ EthGoto(p, "register")
    /\ UNCHANGED <<conn, trust, sender, trustWait, trustPend, peers, crashed>>

CountIPOffByOne(p) ==
    /\ eth[p] = "ip limit"
    /\ IF p \in Trusted THEN EthGoto(p, "register") /\ UNCHANGED peersPerIP
       ELSE IF peersPerIP[Ip[p]] > MaxPeersPerIP
       THEN EthReturn(p) /\ UNCHANGED peersPerIP
       ELSE /\ peersPerIP' = [peersPerIP EXCEPT ![Ip[p]] = @ + 1]
            /\ EthGoto(p, "register")
    /\ UNCHANGED <<conn, trust, sender, trustWait, trustPend, peers, crashed>>

CountIP(p) ==
    /\ eth[p] = "ip limit"
    /\ IF p \in Trusted THEN EthGoto(p, "register") /\ UNCHANGED peersPerIP
       ELSE IF peersPerIP[Ip[p]] >= MaxPeersPerIP
       THEN EthReturn(p) /\ UNCHANGED peersPerIP
       ELSE /\ peersPerIP' = [peersPerIP EXCEPT ![Ip[p]] = @ + 1]
            /\ EthGoto(p, "register")
    /\ UNCHANGED <<conn, trust, sender, trustWait, trustPend, peers, crashed>>

RegisterPeer(p) ==
    /\ eth[p] = "register" /\ sender = Nobody
    /\ IF p \in peers THEN EthReturn(p) ELSE EthGoto(p, "serving")
    /\ peers' = peers \cup {p}
    /\ UNCHANGED <<conn, trust, sender, trustWait, trustPend, peersPerIP, crashed>>

(* The message loop ends: the connection is gone, or a message is one this *)
(* peer does not answer.                                                   *)
StopServing(p) ==
    /\ eth[p] = "serving"
    /\ EthGoto(p, "unregister")
    /\ UNCHANGED <<conn, trust, setVars, crashed>>

(* The deferred unregisterPeer. *)
UnregisterPeer(p) ==
    /\ eth[p] = "unregister" /\ sender = Nobody
    /\ peers' = peers \ {p}
    /\ EthGoto(p, "uncount")
    /\ UNCHANGED <<conn, trust, sender, trustWait, trustPend, peersPerIP, crashed>>

UncountIP(p) ==
    /\ eth[p] = "uncount"
    /\ peersPerIP' = IF p \in Trusted \/ peersPerIP[Ip[p]] = 0 THEN peersPerIP
                     ELSE [peersPerIP EXCEPT ![Ip[p]] = @ - 1]
    /\ EthReturn(p)
    /\ UNCHANGED <<conn, trust, sender, trustWait, trustPend, peers, crashed>>

-----------------------------------------------------------------------------
(* runTrustExtension. *)

TrustReturn(p) ==
    /\ trust' = [trust EXCEPT ![p] = "off"]
    /\ active' = active - 1
    /\ up' = up \ {p}

TrustStart(p) ==
    /\ trust[p] = "start"
    /\ trust' = [trust EXCEPT ![p] = "register"]
    /\ active' = active + 1
    /\ UNCHANGED <<conn, up, eth, setVars, crashed>>

RegisterTrustMutant(p) ==
    /\ trust[p] = "register" /\ sender = Nobody
    /\ IF p \in peers \cup trustPend
       THEN trust' = [trust EXCEPT ![p] = "off"] /\ up' = up \ {p} /\ UNCHANGED <<active, setVars>>
       ELSE /\ UNCHANGED <<up, active, peers, peersPerIP>>
            /\ IF p \in trustWait
               THEN /\ trustWait' = trustWait \ {p} /\ sender' = p
                    /\ trust' = [trust EXCEPT ![p] = "sending"]
                    /\ UNCHANGED trustPend
               ELSE /\ trustPend' = trustPend \cup {p}
                    /\ trust' = [trust EXCEPT ![p] = "serving"]
                    /\ UNCHANGED <<trustWait, sender>>
    /\ UNCHANGED <<conn, eth, crashed>>

(* registerTrustExtension. *)
RegisterTrust(p) ==
    /\ trust[p] = "register" /\ sender = Nobody
    /\ IF p \in peers \cup trustPend
       THEN TrustReturn(p) /\ UNCHANGED setVars
       ELSE /\ UNCHANGED <<up, active, peers, peersPerIP>>
            /\ IF p \in trustWait
               THEN /\ trustWait' = trustWait \ {p} /\ sender' = p
                    /\ trust' = [trust EXCEPT ![p] = "sending"]
                    /\ UNCHANGED trustPend
               ELSE /\ trustPend' = trustPend \cup {p}
                    /\ trust' = [trust EXCEPT ![p] = "serving"]
                    /\ UNCHANGED <<trustWait, sender>>
    /\ UNCHANGED <<conn, eth, crashed>>

StopTrust(p) ==
    /\ trust[p] = "serving"
    /\ TrustReturn(p)
    /\ UNCHANGED <<conn, eth, setVars, crashed>>

(* handler.Stop: txsSub is an interface nobody assigns in this client, and *)
(* its Unsubscribe, the first statement, is a call through nil.            *)
Stop ==
    /\ crashed' = TRUE
    /\ UNCHANGED <<conn, up, eth, trust, setVars, active>>

-----------------------------------------------------------------------------
EthStep(p) ==
    \/ EthStart(p) \/ WaitTrustExtension(p) \/ ExtensionArrives(p) \/ WaitTimeout(p) \/ TimedOut(p)
    \/ Handshake(p) \/ CheckMaxPeers(p) \/ CountIP(p) \/ RegisterPeer(p)
    \/ UnregisterPeer(p) \/ UncountIP(p)

TrustStep(p) == TrustStart(p) \/ RegisterTrust(p)

Next ==
    /\ ~crashed
    /\ \/ \E p \in Peer : Connect(p) \/ Disconnect(p) \/ EthStep(p) \/ TrustStep(p)
                          \/ StopServing(p) \/ StopTrust(p)
       \/ Stop

(* Goroutines keep running, and a message loop whose connection is gone    *)
(* ends (ReadMsg fails); one whose connection is open need not.            *)
Fairness ==
    \A p \in Peer :
        /\ WF_vars(~crashed /\ EthStep(p)) /\ WF_vars(~crashed /\ TrustStep(p))
        /\ WF_vars(~crashed /\ p \notin up /\ (StopServing(p) \/ StopTrust(p)))

Spec == Init /\ [][Next]_vars /\ Fairness

-----------------------------------------------------------------------------
(* Type invariant. *)
TypeOK ==
    /\ conn \in [Peer -> 0 .. MaxConns] /\ up \subseteq Peer
    /\ eth \in [Peer -> {"off", "start", "wait?", "waiting", "timed out", "handshake", "limit",
                        "ip limit", "register", "serving", "unregister", "uncount"}]
    /\ trust \in [Peer -> {"off", "start", "register", "sending", "serving"}]
    /\ sender \in Peer \cup {Nobody}
    /\ trustWait \subseteq Verify
    /\ trustPend \subseteq Verify
    /\ peers \subseteq Peer
    /\ peersPerIP \in [Address -> 0 .. MaxPeersPerIP]
    /\ active \in Nat
    /\ crashed \in BOOLEAN

(* The handlers that may be running between incHandlers and decHandlers.   *)
Running ==
    {<<"eth", p>> : p \in {q \in Peer : eth[q] \notin {"off", "start"}}}
    \cup {<<"trust", p>> : p \in {q \in Peer : trust[q] \notin {"off", "start"}}}

(* A peer that counts against its address is one whose session is between  *)
(* the limit check of runEthPeer and the end of unregisterPeer: no way out *)
(* of a session, of any peer, leaks or returns a slot twice.               *)
IPSlotsExact ==
    \A a \in Address :
        peersPerIP[a] = Cardinality({p \in Peer \ Trusted :
                            Ip[p] = a /\ eth[p] \in {"register", "serving", "unregister", "uncount"}})

(* Channels in trustWait belong to handlers that are still in              *)
(* waitTrustExtension: an old one would take the extension of the node's   *)
(* next connection, and its sender would hold the peer set's lock forever. *)
WaitChannelsOwned == \A p \in trustWait : eth[p] \in {"waiting", "timed out"}

(* The tracker counts exactly the handlers that will report to             *)
(* handlerDoneCh, whichever of their many returns they take: with one too  *)
(* many protoTracker could never finish.                                   *)
HandlersCounted == active = Cardinality(Running)

(* registerTrustExtension holds the lock for a waiter that wants the lock. *)
Stuck == \E p \in Peer : sender = p /\ eth[p] = "timed out"

(* A session whose connection is gone ends, and its peer can connect       *)
(* again, wherever the session was and whatever the other sessions do,     *)
(* unless the peer set's lock is stuck: there is no other deadlock.        *)
SessionsEnd == \A p \in Peer : (p \notin up) ~> (eth[p] = "off" \/ crashed \/ Stuck)

(* "registerTrustExtension unblocks an already connected `eth` peer        *)
(* waiting for its `trust` extension" (peerset.go): whoever it sends to is *)
(* waiting for it, and not for the lock it holds.                          *)
SenderUnblocksWaiter == \A p \in Peer : sender = p => eth[p] = "waiting"

(* "If `trust` already connected, retrieve the peer from the pending set"  *)
(* (peerset.go): an extension kept in trustPend has a handler behind it.   *)
PendingConnected == \A p \in trustPend : trust[p] = "serving"

(* "Stop implements node.Lifecycle, terminating all internal goroutines    *)
(* used by the Ethereum protocol" (backend.go): it does not take the       *)
(* process down.                                                           *)
StopTerminates == ~crashed
=============================================================================
