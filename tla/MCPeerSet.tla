----------------------------- MODULE MCPeerSet -----------------------------
(* Small instances of PeerSet. *)
EXTENDS PeerSet

CONSTANTS v, u, t  \* a verify node, an ordinary and a trusted peer

(* The first two share an address. *)
MCIp == [p \in Peer |-> IF p = t THEN 2 ELSE 1]
=============================================================================
