SPECIFICATION Spec
CONSTANTS
    Node = {n1}
    Fork = {0}
    MaxNumber = 5
    MaxSource = 2
    Header <- MCForks
    blocksNumberSinceMining = 0
    maxSizeOfRecentEntry = 4
    maliciousVoteSlashScope = 1
    upperLimitOfVoteBlockNumber = 1
    MaxLag = 1
    MaxFaults = 1
    MaxStops = 1
 
PROPERTY FollowsVoteRules
CHECK_DEADLOCK FALSE
