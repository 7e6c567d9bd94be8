SPECIFICATION Spec
CONSTANTS
    g = g a1 = a1 a2 = a2 a3 = a3 b2 = b2
    k1 = k1 k2 = k2 k3 = k3 k4 = k4
    Block <- MCBlock
    Genesis = g
    Parent <- MCParent
    Number <- MCNumber
    Justified <- MCJustified
    VoterKeys <- MCVoterKeys
    Archivable <- MCArchivable
    Envelope <- MCEnvelope
    MaxCur = 1
    MaxFuture = 1
    LowerLimit = 1
    UpperLimit = 1
    ChanSize = 1
    MaxWriteFailures = 1
INVARIANTS ReceivedIsStored PqMatchesBoxes  
PROPERTIES CurVoteKept 
CHECK_DEADLOCK FALSE
