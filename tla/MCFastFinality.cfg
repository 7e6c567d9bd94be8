SPECIFICATION Spec
CONSTANTS
    g = g
    a1 = a1
    a2 = a2
    a3 = a3
    b1 = b1
    b2 = b2
    b3 = b3
    b4 = b4
    v1 = v1
    v2 = v2
    v3 = v3
    v4 = v4
    Validator = {v1, v2, v3, v4}
    Faulty = {v4}
    Block <- MCBlock
    Genesis = g
    Parent <- MCParent
    Number <- MCNumber
    Ancestors <- MCAncestors
    TotalDifficulty <- MCTotalDifficulty
    maliciousVoteSlashScope = 2
    upperLimitOfVoteBlockNumber = 1
SYMMETRY MCHonestSymmetry
INVARIANTS FinalizedOnOneChain HeadKeepsReported
 
CHECK_DEADLOCK FALSE
