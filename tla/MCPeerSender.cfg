SPECIFICATION Spec
CONSTANTS
    v = v
    u = u
    t = t
    Peer = {v, u, t}
    Verify = {v}
    Trusted = {t}
    MaxPeers = 2
    MaxPeersPerIP = 1
    MaxConns = 2
    Nobody = Nobody
    Ip <- MCIp
INVARIANT SenderUnblocksWaiter
CHECK_DEADLOCK FALSE
