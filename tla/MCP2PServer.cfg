SPECIFICATION FairSpec
CONSTANTS
    a = a
    b = b
    Node = {a, b}
    maxDialPeers = 1
    maxActiveDials = 1
    MaxPeers = 2
    MaxPendingPeers = 1
    StaticNodes = {b}
    VerifyNodes = {}
    Candidates = {b}
    Visitors = {a}
    Managed = {a}
    MaxCalls = 1
INVARIANT CountsExact
INVARIANT OneSessionPerNode
INVARIANT StaticPoolExact
INVARIANT ActiveDialsBounded
CHECK_DEADLOCK FALSE
PROPERTY StopTerminates
PROPERTY StaticRedialed
