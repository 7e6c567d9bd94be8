--------------------------- MODULE PeerSetProofs ---------------------------
(***************************************************************************)
(* Proofs about PeerSet, for any number of peers, any limits and any mix   *)
(* of trusted and verify nodes: slots of addresses are neither leaked nor  *)
(* returned twice, no channel outlives the wait it was made for, and the   *)
(* tracker counts the running handlers exactly.                            *)
(***************************************************************************)
EXTENDS PeerSet, FiniteSetTheorems, TLAPS

Held == {"register", "serving", "unregister", "uncount"}

EthSteps ==
    {"off", "start", "wait?", "waiting", "timed out", "handshake", "limit", "ip limit"} \cup Held

Slots(a) == {p \in Peer \ Trusted : Ip[p] = a /\ eth[p] \in Held}

(* The registered peers are exactly those whose handler is in the message  *)
(* loop or about to unregister; a channel being sent on is no longer in    *)
(* trustWait.                                                              *)
SessionInv ==
    /\ eth \in [Peer -> EthSteps]
    /\ peers = {p \in Peer : eth[p] \in {"serving", "unregister"}}
    /\ sender \notin trustWait
    /\ trustWait \subseteq Peer
    /\ WaitChannelsOwned

(* The inductive invariant.  SessionInv is there because a second          *)
(* registration of a node is the one way a session could end with its slot *)
(* taken.                                                                  *)
IInv ==
    /\ SessionInv
    /\ peersPerIP \in [Address -> Nat]
    /\ IPSlotsExact

(* What a step may do to the sessions and the slots. *)
Keeps ==
    \E p \in Peer, s \in EthSteps :
        /\ eth' = [eth EXCEPT ![p] = s]
        /\ p \in Trusted \/ (s \in Held <=> eth[p] \in Held)
        /\ peersPerIP' = peersPerIP

Takes ==
    \E p \in Peer \ Trusted :
        /\ eth[p] = "ip limit" /\ eth' = [eth EXCEPT ![p] = "register"]
        /\ peersPerIP' = [peersPerIP EXCEPT ![Ip[p]] = @ + 1]

Frees ==
    \E p \in Peer \ Trusted :
        /\ eth[p] = "uncount" /\ eth' = [eth EXCEPT ![p] = "off"]
        /\ peersPerIP' = IF peersPerIP[Ip[p]] = 0 THEN peersPerIP
                         ELSE [peersPerIP EXCEPT ![Ip[p]] = @ - 1]

(* Every step of every handler is of one of these kinds: no return path    *)
(* between taking a slot and unregisterPeer skips giving it back.          *)
LEMMA StepKinds ==
    ASSUME IInv, [Next]_vars
    PROVE  Keeps \/ Takes \/ Frees \/ UNCHANGED <<eth, peersPerIP>>
<1> USE DEF EthSteps, Held, IInv, SessionInv
<1>1. CASE UNCHANGED vars
  BY <1>1 DEF vars, setVars
<1>2. CASE Stop
  BY <1>2 DEF Stop, setVars
<1>3. ASSUME NEW p \in Peer, Connect(p) \/ EthStart(p)
      PROVE  Keeps
  BY <1>3 DEF Connect, EthStart, Keeps, setVars
<1>4. ASSUME NEW p \in Peer, Disconnect(p) \/ TrustStep(p) \/ StopTrust(p)
      PROVE  UNCHANGED <<eth, peersPerIP>>
  BY <1>4 DEF Disconnect, TrustStep, TrustStart, RegisterTrust, StopTrust, setVars
<1>5. ASSUME NEW p \in Peer, WaitTrustExtension(p) \/ ExtensionArrives(p) \/ WaitTimeout(p) \/ TimedOut(p)
      PROVE  Keeps
  BY <1>5 DEF WaitTrustExtension, ExtensionArrives, WaitTimeout, TimedOut, EthReturn, EthGoto, Keeps, setVars
<1>6. ASSUME NEW p \in Peer, Handshake(p) \/ CheckMaxPeers(p)
      PROVE  Keeps
  BY <1>6 DEF Handshake, CheckMaxPeers, EthReturn, EthGoto, Keeps, setVars
<1>7. ASSUME NEW p \in Peer, CountIP(p)
      PROVE  Keeps \/ Takes
  <2>1. CASE p \in Trusted
    BY <1>7, <2>1 DEF CountIP, EthReturn, EthGoto, Keeps
  <2>2. CASE p \notin Trusted /\ peersPerIP[Ip[p]] >= MaxPeersPerIP
    BY <1>7, <2>2 DEF CountIP, EthReturn, EthGoto, Keeps
  <2>3. CASE p \notin Trusted /\ ~(peersPerIP[Ip[p]] >= MaxPeersPerIP)
    BY <1>7, <2>3 DEF CountIP, EthReturn, EthGoto, Takes
  <2> QED BY <2>1, <2>2, <2>3
<1>8. ASSUME NEW p \in Peer, RegisterPeer(p)
      PROVE  Keeps
  <2>1. p \notin peers
    BY <1>8 DEF RegisterPeer
  <2> QED BY <1>8, <2>1 DEF RegisterPeer, EthGoto, Keeps
<1>9. ASSUME NEW p \in Peer, StopServing(p) \/ UnregisterPeer(p)
      PROVE  Keeps
  BY <1>9 DEF StopServing, UnregisterPeer, EthGoto, Keeps, setVars
<1>10. ASSUME NEW p \in Peer, UncountIP(p)
       PROVE  Keeps \/ Frees
  <2>1. CASE p \in Trusted
    BY <1>10, <2>1 DEF UncountIP, EthReturn, Keeps
  <2>2. CASE p \notin Trusted
    BY <1>10, <2>2 DEF UncountIP, EthReturn, Frees
  <2> QED BY <2>1, <2>2
<1> QED
  BY <1>1, <1>2, <1>3, <1>4, <1>5, <1>6, <1>7, <1>8, <1>9, <1>10 DEF Next, EthStep

(* The slots counted for an address are finite.                            *)
LEMMA SlotsFinite ==
    ASSUME NEW a
    PROVE  IsFiniteSet(Slots(a)) /\ Cardinality(Slots(a)) \in Nat
<1>1. Slots(a) \in SUBSET Peer
  BY DEF Slots
<1>2. IsFiniteSet(Slots(a))
  BY <1>1, FS_Subset, PeerAssumption
<1> QED BY <1>2, FS_CardinalityType

(* The slots of an address follow the sessions that hold them. *)
LEMMA SlotsKept ==
    ASSUME IInv, [Next]_vars
    PROVE  peersPerIP' \in [Address -> Nat] /\ IPSlotsExact'
<1> DEFINE Exact(f) == \A a \in Address : f[a] = Cardinality(Slots(a))
<1>0. IPSlotsExact <=> Exact(peersPerIP)
  BY DEF IPSlotsExact, Slots, Held
<1>1. ASSUME peersPerIP' \in [Address -> Nat], \A a \in Address : peersPerIP'[a] = Cardinality(Slots(a)')
      PROVE  IPSlotsExact'
  BY <1>1 DEF IPSlotsExact, Slots, Held
<1>2. CASE Keeps \/ UNCHANGED <<eth, peersPerIP>>
  <2>1. \A a : Slots(a)' = Slots(a)
    BY <1>2 DEF Keeps, Slots, IInv, SessionInv
  <2>2. peersPerIP' = peersPerIP
    BY <1>2 DEF Keeps
  <2> QED BY <1>0, <1>1, <2>1, <2>2 DEF IInv
<1>3. CASE Takes
  <2>1. PICK p \in Peer \ Trusted :
          /\ eth[p] = "ip limit" /\ eth' = [eth EXCEPT ![p] = "register"]
          /\ peersPerIP' = [peersPerIP EXCEPT ![Ip[p]] = @ + 1]
    BY <1>3 DEF Takes
  <2>2. Ip[p] \in Address
    BY DEF Address
  <2>3. Slots(Ip[p])' = Slots(Ip[p]) \cup {p} /\ p \notin Slots(Ip[p])
    BY <2>1 DEF Slots, Held, IInv, SessionInv
  <2>4. \A a : a # Ip[p] => Slots(a)' = Slots(a)
    BY <2>1 DEF Slots, Held, IInv, SessionInv
  <2>5. Cardinality(Slots(Ip[p])') = Cardinality(Slots(Ip[p])) + 1
    BY <2>3, SlotsFinite, FS_AddElement
  <2>6. peersPerIP' \in [Address -> Nat]
    <3>1. peersPerIP \in [Address -> Nat]
      BY DEF IInv
    <3>2. peersPerIP[Ip[p]] + 1 \in Nat
      BY <2>2, <3>1
    <3> QED BY <2>1, <2>2, <3>1, <3>2
  <2>7. \A a \in Address : peersPerIP'[a] = Cardinality(Slots(a)')
    BY <1>0, <2>1, <2>2, <2>4, <2>5 DEF IInv
  <2> QED BY <1>1, <2>6, <2>7
<1>4. CASE Frees
  <2>1. PICK p \in Peer \ Trusted :
          /\ eth[p] = "uncount" /\ eth' = [eth EXCEPT ![p] = "off"]
          /\ peersPerIP' = IF peersPerIP[Ip[p]] = 0 THEN peersPerIP
                           ELSE [peersPerIP EXCEPT ![Ip[p]] = @ - 1]
    BY <1>4 DEF Frees
  <2>2. Ip[p] \in Address
    BY DEF Address
  <2>3. Slots(Ip[p])' = Slots(Ip[p]) \ {p} /\ p \in Slots(Ip[p])
    BY <2>1 DEF Slots, Held, IInv, SessionInv
  <2>4. \A a : a # Ip[p] => Slots(a)' = Slots(a)
    BY <2>1 DEF Slots, Held, IInv, SessionInv
  <2>5. Cardinality(Slots(Ip[p])') = Cardinality(Slots(Ip[p])) - 1
    BY <2>3, SlotsFinite, FS_RemoveElement
  <2>6. Cardinality(Slots(Ip[p])) # 0
    BY <2>3, SlotsFinite, FS_EmptySet
  <2>7. peersPerIP[Ip[p]] # 0 /\ peersPerIP[Ip[p]] \in Nat
    BY <1>0, <2>2, <2>6 DEF IInv
  <2>8. peersPerIP' \in [Address -> Nat]
    BY <2>1, <2>2, <2>7 DEF IInv
  <2>9. \A a \in Address : peersPerIP'[a] = Cardinality(Slots(a)')
    BY <1>0, <2>1, <2>2, <2>4, <2>5, <2>7 DEF IInv
  <2> QED BY <1>1, <2>8, <2>9
<1> QED BY <1>2, <1>3, <1>4, StepKinds

(* The rest of the invariant: sessions, registrations and channels. *)
LEMMA SessionsKept ==
    ASSUME SessionInv, [Next]_vars
    PROVE  SessionInv'
<1> USE PeerAssumption DEF EthSteps, Held, SessionInv, WaitChannelsOwned, setVars
<1>1. CASE UNCHANGED vars
  BY <1>1 DEF vars
<1>2. CASE Stop
  BY <1>2 DEF Stop
<1>3. ASSUME NEW p \in Peer, Connect(p) \/ EthStart(p)
      PROVE  SessionInv'
  BY <1>3 DEF Connect, EthStart
<1>4. ASSUME NEW p \in Peer, Disconnect(p) \/ TrustStart(p) \/ StopTrust(p)
      PROVE  SessionInv'
  BY <1>4 DEF Disconnect, TrustStart, StopTrust
<1>5. ASSUME NEW p \in Peer, RegisterTrust(p)
      PROVE  SessionInv'
  BY <1>5 DEF RegisterTrust, TrustReturn
<1>6. ASSUME NEW p \in Peer, WaitTrustExtension(p)
      PROVE  SessionInv'
  BY <1>6 DEF WaitTrustExtension, EthReturn, EthGoto
<1>7. ASSUME NEW p \in Peer, ExtensionArrives(p) \/ WaitTimeout(p) \/ TimedOut(p)
      PROVE  SessionInv'
  BY <1>7 DEF ExtensionArrives, WaitTimeout, TimedOut, EthReturn, EthGoto
<1>8. ASSUME NEW p \in Peer, Handshake(p) \/ CheckMaxPeers(p) \/ CountIP(p)
      PROVE  SessionInv'
  BY <1>8 DEF Handshake, CheckMaxPeers, CountIP, EthReturn, EthGoto
<1>9. ASSUME NEW p \in Peer, RegisterPeer(p)
      PROVE  SessionInv'
  <2>1. p \notin peers
    BY <1>9 DEF RegisterPeer
  <2> QED BY <1>9, <2>1 DEF RegisterPeer, EthGoto
<1>10. ASSUME NEW p \in Peer, StopServing(p) \/ UnregisterPeer(p) \/ UncountIP(p)
       PROVE  SessionInv'
  BY <1>10 DEF StopServing, UnregisterPeer, UncountIP, EthReturn, EthGoto
<1> QED
  BY <1>1, <1>2, <1>3, <1>4, <1>5, <1>6, <1>7, <1>8, <1>9, <1>10 DEF Next, EthStep, TrustStep

(* The empty peer set satisfies the invariant.                             *)
LEMMA InitIInv == Init => IInv
<1> SUFFICES ASSUME Init PROVE IInv
  OBVIOUS
<1>1. SessionInv
  BY PeerAssumption DEF Init, SessionInv, WaitChannelsOwned, EthSteps, Held
<1>2. \A a \in Address :
        {p \in Peer \ Trusted :
            Ip[p] = a /\ eth[p] \in {"register", "serving", "unregister", "uncount"}} = {}
  BY DEF Init
<1>3. IPSlotsExact
  BY <1>2, FS_EmptySet DEF Init, IPSlotsExact
<1> QED BY <1>1, <1>3 DEF Init, IInv

(* The invariant holds of every behaviour of the handlers. *)
THEOREM PeerSetInvariant == Spec => []IInv
<1>1. IInv /\ [Next]_vars => IInv'
  BY SessionsKept, SlotsKept DEF IInv
<1> QED BY InitIInv, <1>1, PTL DEF Spec

(* runEthPeer and unregisterPeer never leak the slot of an address nor     *)
(* return it twice, whatever way each of any number of sessions ends.      *)
THEOREM SlotsNeverLeak == Spec => []IPSlotsExact
<1>1. IInv => IPSlotsExact
  BY DEF IInv
<1> QED BY PeerSetInvariant, <1>1, PTL

(* No channel in trustWait outlives the waitTrustExtension that made it.   *)
THEOREM ChannelsNeverOutliveWait == Spec => []WaitChannelsOwned
<1>1. IInv => WaitChannelsOwned
  BY DEF IInv, SessionInv
<1> QED BY PeerSetInvariant, <1>1, PTL

-----------------------------------------------------------------------------
(* The tracker's count.                                                    *)
Out == {"off", "start"}

TrustSteps == Out \cup {"register", "sending", "serving"}

(* A handler that the peer set's lock is held for is past incHandlers.     *)
TrustInv ==
    /\ trust \in [Peer -> TrustSteps]
    /\ \A p \in Peer : sender = p => trust[p] = "sending"

HandlerInv == SessionInv /\ TrustInv /\ HandlersCounted

(* What a step may do to the handlers of a peer and to the count. *)
Moves(p, s, u) ==
    /\ p \in Peer /\ s \in EthSteps /\ u \in TrustSteps
    /\ eth' = [eth EXCEPT ![p] = s] /\ trust' = [trust EXCEPT ![p] = u]

EthSame(p, s) == s \in Out <=> eth[p] \in Out
TrustSame(p, u) == u \in Out <=> trust[p] \in Out

Uncounted ==
    \E p \in Peer, s \in EthSteps, u \in TrustSteps :
        Moves(p, s, u) /\ EthSame(p, s) /\ TrustSame(p, u) /\ active' = active

Begins ==
    \E p \in Peer, s \in EthSteps, u \in TrustSteps :
        /\ Moves(p, s, u) /\ active' = active + 1
        /\ \/ eth[p] \in Out /\ s \notin Out /\ TrustSame(p, u)
           \/ trust[p] \in Out /\ u \notin Out /\ EthSame(p, s)

Ends ==
    \E p \in Peer, s \in EthSteps, u \in TrustSteps :
        /\ Moves(p, s, u) /\ active' = active - 1
        /\ \/ eth[p] \notin Out /\ s \in Out /\ TrustSame(p, u)
           \/ trust[p] \notin Out /\ u \in Out /\ EthSame(p, s)

(* A step of the eth handler alone. *)
LEMMA EthMoves ==
    ASSUME SessionInv, TrustInv, NEW p \in Peer, NEW s \in EthSteps,
           eth' = [eth EXCEPT ![p] = s], trust' = trust
    PROVE  Moves(p, s, trust[p]) /\ TrustSame(p, trust[p])
BY DEF Moves, TrustSame, TrustInv

(* A step of the trust handler alone. *)
LEMMA TrustMoves ==
    ASSUME SessionInv, TrustInv, NEW p \in Peer, NEW u \in TrustSteps,
           trust' = [trust EXCEPT ![p] = u], eth' = eth
    PROVE  Moves(p, eth[p], u) /\ EthSame(p, eth[p])
BY DEF Moves, EthSame, SessionInv

(* EthGoto between two steps past incHandlers. *)
LEMMA EthGoes ==
    ASSUME SessionInv, TrustInv, NEW p \in Peer, NEW s \in EthSteps \ Out, eth[p] \notin Out,
           EthGoto(p, s), trust' = trust
    PROVE  Uncounted
<1>1. Moves(p, s, trust[p]) /\ TrustSame(p, trust[p]) /\ trust[p] \in TrustSteps
  BY EthMoves DEF EthGoto, TrustInv
<1> QED BY <1>1 DEF Uncounted, EthSame, EthGoto

(* EthReturn, from wherever the handler is. *)
LEMMA EthReturns ==
    ASSUME SessionInv, TrustInv, NEW p \in Peer, eth[p] \notin Out, EthReturn(p), trust' = trust
    PROVE  Ends
<1>0. "off" \in EthSteps /\ "off" \in Out
  BY DEF EthSteps, Out
<1>1. Moves(p, "off", trust[p]) /\ TrustSame(p, trust[p]) /\ trust[p] \in TrustSteps
  BY <1>0, EthMoves DEF EthReturn, TrustInv
<1> QED BY <1>0, <1>1 DEF Ends, EthReturn

(* TrustReturn, from wherever the handler is. *)
LEMMA TrustReturns ==
    ASSUME SessionInv, TrustInv, NEW p \in Peer, trust[p] \notin Out, TrustReturn(p), eth' = eth
    PROVE  Ends
<1>0. "off" \in TrustSteps /\ "off" \in Out
  BY DEF TrustSteps, Out
<1>1. Moves(p, eth[p], "off") /\ EthSame(p, eth[p]) /\ eth[p] \in EthSteps
  BY <1>0, TrustMoves DEF TrustReturn, SessionInv
<1> QED BY <1>0, <1>1 DEF Ends, TrustReturn

(* Every step begins one handler and counts it, ends one and uncounts it,  *)
(* or does neither: no return of the two handlers misses decHandlers.      *)
LEMMA HandlerSteps ==
    ASSUME SessionInv, TrustInv, [Next]_vars
    PROVE  Uncounted \/ Begins \/ Ends \/ UNCHANGED <<eth, trust, active>>
<1> USE DEF setVars
<1>0. /\ {"wait?", "waiting", "timed out", "handshake", "limit", "ip limit"} \subseteq EthSteps \ Out
      /\ {"register", "serving", "unregister", "uncount"} \subseteq EthSteps \ Out
      /\ {"register", "sending", "serving"} \subseteq TrustSteps \ Out
      /\ Out \subseteq EthSteps /\ Out \subseteq TrustSteps
      /\ "off" \in Out /\ "start" \in Out
  BY DEF EthSteps, Held, TrustSteps, Out
<1>1. CASE UNCHANGED vars
  BY <1>1 DEF vars
<1>2. CASE Stop
  BY <1>2 DEF Stop
<1>3. ASSUME NEW p \in Peer, Disconnect(p)
      PROVE  UNCHANGED <<eth, trust, active>>
  BY <1>3 DEF Disconnect
<1>4. ASSUME NEW p \in Peer, Connect(p)
      PROVE  Uncounted
  <2>1. PICK u \in Out : trust' = [trust EXCEPT ![p] = u]
    BY <1>0, <1>4 DEF Connect
  <2>2. Moves(p, "start", u)
    BY <1>0, <1>4, <2>1 DEF Connect, Moves
  <2>3. EthSame(p, "start") /\ TrustSame(p, u) /\ active' = active
    BY <1>0, <1>4 DEF Connect, EthSame, TrustSame
  <2> QED BY <1>0, <2>2, <2>3 DEF Uncounted
<1>5. ASSUME NEW p \in Peer, EthStart(p)
      PROVE  Begins
  <2>1. PICK s \in EthSteps \ Out : eth' = [eth EXCEPT ![p] = s]
    BY <1>0, <1>5 DEF EthStart
  <2>2. Moves(p, s, trust[p]) /\ TrustSame(p, trust[p]) /\ trust[p] \in TrustSteps
    BY <1>5, <2>1, EthMoves DEF EthStart, TrustInv
  <2>3. eth[p] \in Out /\ active' = active + 1
    BY <1>0, <1>5 DEF EthStart
  <2> QED BY <2>2, <2>3 DEF Begins
<1>6. ASSUME NEW p \in Peer, WaitTrustExtension(p)
      PROVE  Uncounted \/ Ends
  <2>1. eth[p] \notin Out /\ trust' = trust
    BY <1>0, <1>6 DEF WaitTrustExtension
  <2>2. EthReturn(p) \/ EthGoto(p, "handshake") \/ EthGoto(p, "waiting")
    BY <1>6 DEF WaitTrustExtension
  <2> QED BY <1>0, <2>1, <2>2, EthGoes, EthReturns
<1>7. ASSUME NEW p \in Peer, ExtensionArrives(p)
      PROVE  Uncounted
  <2>1. eth[p] \notin Out /\ trust[p] \notin Out
    BY <1>0, <1>7 DEF ExtensionArrives, TrustInv
  <2>2. Moves(p, "handshake", "serving") /\ active' = active
    BY <1>0, <1>7 DEF ExtensionArrives, EthGoto, Moves
  <2>3. EthSame(p, "handshake") /\ TrustSame(p, "serving")
    BY <1>0, <2>1 DEF EthSame, TrustSame
  <2> QED BY <1>0, <2>2, <2>3 DEF Uncounted
<1>8. ASSUME NEW p \in Peer, WaitTimeout(p) \/ StopServing(p) \/ UnregisterPeer(p)
      PROVE  Uncounted
  <2>1. eth[p] \notin Out /\ trust' = trust
    BY <1>0, <1>8 DEF WaitTimeout, StopServing, UnregisterPeer
  <2>2. EthGoto(p, "timed out") \/ EthGoto(p, "unregister") \/ EthGoto(p, "uncount")
    BY <1>8 DEF WaitTimeout, StopServing, UnregisterPeer
  <2> QED BY <1>0, <2>1, <2>2, EthGoes
<1>9. ASSUME NEW p \in Peer, TimedOut(p) \/ UncountIP(p)
      PROVE  Ends
  <2>1. eth[p] \notin Out /\ trust' = trust /\ EthReturn(p)
    BY <1>0, <1>9 DEF TimedOut, UncountIP
  <2> QED BY <2>1, EthReturns
<1>10. ASSUME NEW p \in Peer, Handshake(p) \/ CheckMaxPeers(p)
       PROVE  Uncounted \/ Ends
  <2>1. eth[p] \notin Out /\ trust' = trust
    BY <1>0, <1>10 DEF Handshake, CheckMaxPeers
  <2>2. EthReturn(p) \/ EthGoto(p, "limit") \/ EthGoto(p, "ip limit")
    BY <1>10 DEF Handshake, CheckMaxPeers
  <2> QED BY <1>0, <2>1, <2>2, EthGoes, EthReturns
<1>11. ASSUME NEW p \in Peer, CountIP(p) \/ RegisterPeer(p)
       PROVE  Uncounted \/ Ends
  <2>1. eth[p] \notin Out /\ trust' = trust
    BY <1>0, <1>11 DEF CountIP, RegisterPeer
  <2>2. EthReturn(p) \/ EthGoto(p, "register") \/ EthGoto(p, "serving")
    BY <1>11 DEF CountIP, RegisterPeer
  <2> QED BY <1>0, <2>1, <2>2, EthGoes, EthReturns
<1>12. ASSUME NEW p \in Peer, TrustStart(p)
       PROVE  Begins
  <2>1. Moves(p, eth[p], "register") /\ EthSame(p, eth[p]) /\ eth[p] \in EthSteps
    BY <1>0, <1>12, TrustMoves DEF TrustStart, SessionInv
  <2>2. trust[p] \in Out /\ active' = active + 1
    BY <1>0, <1>12 DEF TrustStart
  <2> QED BY <1>0, <2>1, <2>2 DEF Begins
<1>13. ASSUME NEW p \in Peer, RegisterTrust(p)
       PROVE  Uncounted \/ Ends
  <2>1. trust[p] \notin Out /\ eth' = eth
    BY <1>0, <1>13 DEF RegisterTrust
  <2>2. CASE TrustReturn(p)
    BY <2>1, <2>2, TrustReturns
  <2>3. ASSUME NEW u \in {"sending", "serving"}, trust' = [trust EXCEPT ![p] = u], active' = active
        PROVE  Uncounted
    <3>1. Moves(p, eth[p], u) /\ EthSame(p, eth[p]) /\ eth[p] \in EthSteps
      BY <1>0, <2>1, <2>3, TrustMoves DEF SessionInv
    <3>2. TrustSame(p, u) /\ u \in TrustSteps
      BY <1>0, <2>1 DEF TrustSame
    <3> QED BY <2>3, <3>1, <3>2 DEF Uncounted
  <2> QED BY <1>13, <2>2, <2>3 DEF RegisterTrust
<1>14. ASSUME NEW p \in Peer, StopTrust(p)
       PROVE  Ends
  BY <1>0, <1>14, TrustReturns DEF StopTrust
<1> QED
  BY <1>1, <1>2, <1>3, <1>4, <1>5, <1>6, <1>7, <1>8, <1>9, <1>10, <1>11, <1>12, <1>13, <1>14
     DEF Next, EthStep, TrustStep

(* Where the trust handlers are, and whom the lock is held for. *)
LEMMA TrustKept ==
    ASSUME SessionInv, TrustInv, [Next]_vars
    PROVE  TrustInv'
<1> USE PeerAssumption DEF TrustSteps, Out, TrustInv, setVars
<1>1. CASE UNCHANGED vars \/ Stop
  BY <1>1 DEF vars, Stop
<1>2. ASSUME NEW p \in Peer, Connect(p) \/ Disconnect(p) \/ TrustStart(p)
      PROVE  TrustInv'
  BY <1>2 DEF Connect, Disconnect, TrustStart
<1>3. ASSUME NEW p \in Peer, StopTrust(p)
      PROVE  TrustInv'
  BY <1>3 DEF StopTrust, TrustReturn
<1>4. ASSUME NEW p \in Peer, RegisterTrust(p)
      PROVE  TrustInv'
  BY <1>4 DEF RegisterTrust, TrustReturn
<1>5. ASSUME NEW p \in Peer, ExtensionArrives(p)
      PROVE  TrustInv'
  BY <1>5 DEF ExtensionArrives
<1>6. ASSUME NEW p \in Peer, EthStep(p) \/ StopServing(p), ~ExtensionArrives(p)
      PROVE  UNCHANGED <<trust, sender>>
  BY <1>6 DEF EthStep, EthStart, WaitTrustExtension, WaitTimeout, TimedOut, Handshake, CheckMaxPeers,
              CountIP, RegisterPeer, UnregisterPeer, UncountIP, StopServing
<1>7. CASE UNCHANGED <<trust, sender>>
  BY <1>7
<1> QED
  BY <1>1, <1>2, <1>3, <1>4, <1>5, <1>6, <1>7 DEF Next, TrustStep

(* The running handlers are finitely many.                                 *)
LEMMA RunningFinite == IsFiniteSet(Running) /\ Cardinality(Running) \in Nat
<1>1. IsFiniteSet({"eth", "trust"} \X Peer)
  <2>0. {"eth", "trust"} = {"eth"} \cup {"trust"}
    OBVIOUS
  <2>1. IsFiniteSet({"eth"})
    BY FS_Singleton
  <2>2. IsFiniteSet({"eth"} \cup {"trust"})
    BY <2>1, FS_AddElement, Zenon
  <2>3. IsFiniteSet({"eth", "trust"})
    BY <2>0, <2>2, Zenon
  <2> QED BY <2>3, FS_Product, PeerAssumption
<1>2. Running \in SUBSET ({"eth", "trust"} \X Peer)
  BY DEF Running
<1>3. IsFiniteSet(Running)
  BY <1>1, <1>2, FS_Subset
<1> QED BY <1>3, FS_CardinalityType

(* Which handlers run, one at a time. *)
LEMMA RunningMembers ==
    /\ \A p \in Peer : <<"eth", p>> \in Running <=> eth[p] \notin Out
    /\ \A p \in Peer : <<"trust", p>> \in Running <=> trust[p] \notin Out
    /\ \A h \in Running : \E p \in Peer : h = <<"eth", p>> \/ h = <<"trust", p>>
BY DEF Running, Out

(* The count follows the running handlers. *)
LEMMA CountKept ==
    ASSUME SessionInv, TrustInv, HandlersCounted, [Next]_vars
    PROVE  HandlersCounted'
<1>0. active = Cardinality(Running)
  BY DEF HandlersCounted
<1>1. SUFFICES active' = Cardinality(Running')
  BY DEF HandlersCounted
<1>2. eth \in [Peer -> EthSteps] /\ trust \in [Peer -> TrustSteps]
  BY DEF SessionInv, TrustInv
<1>3. CASE UNCHANGED <<eth, trust, active>>
  <2>1. Running' = Running
    BY <1>3 DEF Running
  <2> QED BY <1>0, <1>3, <2>1
<1>4. CASE Uncounted
  <2>1. PICK p \in Peer, s \in EthSteps, u \in TrustSteps :
          Moves(p, s, u) /\ EthSame(p, s) /\ TrustSame(p, u) /\ active' = active
    BY <1>4 DEF Uncounted
  <2>2. \A q \in Peer : (eth'[q] \in Out <=> eth[q] \in Out) /\ (trust'[q] \in Out <=> trust[q] \in Out)
    BY <1>2, <2>1 DEF Moves, EthSame, TrustSame
  <2>3. Running' = Running
    BY <2>2 DEF Running, Out
  <2> QED BY <1>0, <2>1, <2>3
<1>5. CASE Begins
  <2>1. PICK p \in Peer, s \in EthSteps, u \in TrustSteps :
          /\ Moves(p, s, u) /\ active' = active + 1
          /\ \/ eth[p] \in Out /\ s \notin Out /\ TrustSame(p, u)
             \/ trust[p] \in Out /\ u \notin Out /\ EthSame(p, s)
    BY <1>5 DEF Begins
  <2>2. \A q \in Peer : q # p => eth'[q] = eth[q] /\ trust'[q] = trust[q]
    BY <1>2, <2>1 DEF Moves
  <2>3. eth'[p] = s /\ trust'[p] = u
    BY <1>2, <2>1 DEF Moves
  <2>4. \E h : Running' = Running \cup {h} /\ h \notin Running
    <3>1. CASE eth[p] \in Out /\ s \notin Out /\ TrustSame(p, u)
      <4>1. Running' = Running \cup {<<"eth", p>>}
        BY <2>2, <2>3, <3>1 DEF Running, Out, TrustSame
      <4> QED BY <3>1, <4>1, RunningMembers
    <3>2. CASE trust[p] \in Out /\ u \notin Out /\ EthSame(p, s)
      <4>1. Running' = Running \cup {<<"trust", p>>}
        BY <2>2, <2>3, <3>2 DEF Running, Out, EthSame
      <4> QED BY <3>2, <4>1, RunningMembers
    <3> QED BY <2>1, <3>1, <3>2
  <2>5. Cardinality(Running') = Cardinality(Running) + 1
    BY <2>4, RunningFinite, FS_AddElement
  <2> QED BY <1>0, <2>1, <2>5
<1>6. CASE Ends
  <2>1. PICK p \in Peer, s \in EthSteps, u \in TrustSteps :
          /\ Moves(p, s, u) /\ active' = active - 1
          /\ \/ eth[p] \notin Out /\ s \in Out /\ TrustSame(p, u)
             \/ trust[p] \notin Out /\ u \in Out /\ EthSame(p, s)
    BY <1>6 DEF Ends
  <2>2. \A q \in Peer : q # p => eth'[q] = eth[q] /\ trust'[q] = trust[q]
    BY <1>2, <2>1 DEF Moves
  <2>3. eth'[p] = s /\ trust'[p] = u
    BY <1>2, <2>1 DEF Moves
  <2>4. \E h : Running' = Running \ {h} /\ h \in Running
    <3>1. CASE eth[p] \notin Out /\ s \in Out /\ TrustSame(p, u)
      <4>1. Running' = Running \ {<<"eth", p>>}
        BY <2>2, <2>3, <3>1 DEF Running, Out, TrustSame
      <4> QED BY <3>1, <4>1, RunningMembers
    <3>2. CASE trust[p] \notin Out /\ u \in Out /\ EthSame(p, s)
      <4>1. Running' = Running \ {<<"trust", p>>}
        BY <2>2, <2>3, <3>2 DEF Running, Out, EthSame
      <4> QED BY <3>2, <4>1, RunningMembers
    <3> QED BY <2>1, <3>1, <3>2
  <2>5. Cardinality(Running') = Cardinality(Running) - 1
    BY <2>4, RunningFinite, FS_RemoveElement
  <2> QED BY <1>0, <2>1, <2>5
<1> QED BY <1>3, <1>4, <1>5, <1>6, HandlerSteps

(* No handler runs in the initial state and none is counted. *)
LEMMA InitHandlerInv == Init => HandlerInv
<1> SUFFICES ASSUME Init PROVE HandlerInv
  OBVIOUS
<1>1. SessionInv
  BY InitIInv DEF IInv
<1>2. TrustInv
  BY PeerAssumption DEF Init, TrustInv, TrustSteps, Out
<1>3. Running = {}
  BY DEF Init, Running
<1>4. HandlersCounted
  BY <1>3, FS_EmptySet DEF Init, HandlersCounted
<1> QED BY <1>1, <1>2, <1>4 DEF HandlerInv

(* The tracker's count is exactly the number of handlers that have still   *)
(* to report to handlerDoneCh, whichever of the returns of runEthPeer and  *)
(* runTrustExtension each of any number of sessions takes.                 *)
THEOREM HandlersNeverMiscounted == Spec => []HandlersCounted
<1>1. HandlerInv /\ [Next]_vars => HandlerInv'
  BY SessionsKept, TrustKept, CountKept DEF HandlerInv
<1>2. HandlerInv => HandlersCounted
  BY DEF HandlerInv
<1> QED BY InitHandlerInv, <1>1, <1>2, PTL DEF Spec

-----------------------------------------------------------------------------
(* The limits.                                                             *)

(* Only verify nodes have a trust handler, or an eth handler that waits    *)
(* for one; no address has more slots than MaxPeersPerIP.                  *)
LimitInv ==
    /\ conn \in [Peer -> 0 .. MaxConns] /\ up \subseteq Peer
    /\ sender \in Peer \cup {Nobody} /\ crashed \in BOOLEAN
    /\ trustWait \subseteq Verify /\ trustPend \subseteq Verify
    /\ \A p \in Peer : eth[p] = "wait?" \/ trust[p] # "off" => p \in Verify
    /\ peersPerIP \in [Address -> 0 .. MaxPeersPerIP]

(* Every step keeps the limits: CountIP is the only one that takes a slot, *)
(* and checks first.                                                       *)
LEMMA LimitsKept ==
    ASSUME SessionInv, TrustInv, LimitInv, [Next]_vars
    PROVE  LimitInv'
<1> USE DEF LimitInv, setVars
<1>0. eth \in [Peer -> EthSteps] /\ trust \in [Peer -> TrustSteps]
  BY DEF SessionInv, TrustInv
<1>1. CASE UNCHANGED vars
  BY <1>1 DEF vars
<1>2. CASE Stop
  BY <1>2 DEF Stop
<1>3. ASSUME NEW p \in Peer, Connect(p)
      PROVE  LimitInv'
  <2>1. conn' \in [Peer -> 0 .. MaxConns]
    BY <1>3, PeerAssumption DEF Connect
  <2>2. \A q \in Peer : eth'[q] = "wait?" \/ trust'[q] # "off" => q \in Verify
    BY <1>0, <1>3 DEF Connect
  <2> QED BY <1>3, <2>1, <2>2 DEF Connect
<1>4. ASSUME NEW p \in Peer, Disconnect(p) \/ EthStart(p) \/ TrustStart(p) \/ StopTrust(p)
      PROVE  LimitInv'
  BY <1>0, <1>4 DEF Disconnect, EthStart, TrustStart, StopTrust, TrustReturn
<1>5. ASSUME NEW p \in Peer, WaitTrustExtension(p)
      PROVE  LimitInv'
  BY <1>0, <1>5 DEF WaitTrustExtension, EthReturn, EthGoto
<1>6. ASSUME NEW p \in Peer, ExtensionArrives(p)
      PROVE  LimitInv'
  <2>1. p \in Verify
    BY <1>6 DEF ExtensionArrives, TrustInv
  <2> QED BY <1>0, <1>6, <2>1 DEF ExtensionArrives, EthGoto
<1>7. ASSUME NEW p \in Peer, WaitTimeout(p) \/ TimedOut(p) \/ Handshake(p) \/ CheckMaxPeers(p)
      PROVE  LimitInv'
  BY <1>0, <1>7 DEF WaitTimeout, TimedOut, Handshake, CheckMaxPeers, EthReturn, EthGoto
<1>8. ASSUME NEW p \in Peer, RegisterPeer(p) \/ StopServing(p) \/ UnregisterPeer(p)
      PROVE  LimitInv'
  BY <1>0, <1>8 DEF RegisterPeer, StopServing, UnregisterPeer, EthReturn, EthGoto
<1>9. ASSUME NEW p \in Peer, CountIP(p) \/ UncountIP(p)
      PROVE  LimitInv'
  <2>1. Ip[p] \in Address /\ MaxPeersPerIP \in Nat
    BY PeerAssumption DEF Address
  <2>2. peersPerIP' \in [Address -> 0 .. MaxPeersPerIP]
    <3> DEFINE n == peersPerIP[Ip[p]]
    <3>1. n \in 0 .. MaxPeersPerIP
      BY <2>1
    <3>2. \/ peersPerIP' = peersPerIP
          \/ ~(n >= MaxPeersPerIP) /\ peersPerIP' = [peersPerIP EXCEPT ![Ip[p]] = n + 1]
          \/ n # 0 /\ peersPerIP' = [peersPerIP EXCEPT ![Ip[p]] = n - 1]
      BY <1>9 DEF CountIP, UncountIP
    <3> HIDE DEF n
    <3>3. (n >= MaxPeersPerIP \/ n + 1 \in 0 .. MaxPeersPerIP) /\ (n = 0 \/ n - 1 \in 0 .. MaxPeersPerIP)
      BY <2>1, <3>1
    <3> QED BY <2>1, <3>2, <3>3
  <2> QED BY <1>0, <1>9, <2>2 DEF CountIP, UncountIP, EthReturn, EthGoto
<1>10. ASSUME NEW p \in Peer, RegisterTrust(p)
       PROVE  LimitInv'
  BY <1>0, <1>10 DEF RegisterTrust, TrustReturn
<1> QED
  BY <1>1, <1>2, <1>3, <1>4, <1>5, <1>6, <1>7, <1>8, <1>9, <1>10 DEF Next, EthStep, TrustStep

(* The type invariant, with the two limits that are in it: no address has  *)
(* more than MaxPeersPerIP untrusted sessions past the check, and only     *)
(* verify nodes are ever in trustWait and trustPend.                       *)
THEOREM PeerSetTyped == Spec => []TypeOK
<1>1. Init => LimitInv
  <2> SUFFICES ASSUME Init PROVE LimitInv
    OBVIOUS
  <2>1. 0 \in 0 .. MaxConns /\ 0 \in 0 .. MaxPeersPerIP
    BY PeerAssumption
  <2>2. conn \in [Peer -> 0 .. MaxConns] /\ peersPerIP \in [Address -> 0 .. MaxPeersPerIP]
    BY <2>1 DEF Init
  <2> QED BY <2>2 DEF Init, LimitInv
<1>2. HandlerInv /\ LimitInv /\ [Next]_vars => HandlerInv' /\ LimitInv'
  BY SessionsKept, TrustKept, CountKept, LimitsKept DEF HandlerInv
<1>3. HandlerInv /\ LimitInv => TypeOK
  <2> SUFFICES ASSUME HandlerInv, LimitInv PROVE TypeOK
    OBVIOUS
  <2>1. active \in Nat
    BY RunningFinite DEF HandlerInv, HandlersCounted
  <2> QED BY <2>1 DEF HandlerInv, LimitInv, SessionInv, TrustInv, EthSteps, Held, TrustSteps, Out, TypeOK
<1> QED BY InitHandlerInv, <1>1, <1>2, <1>3, PTL DEF Spec
=============================================================================
