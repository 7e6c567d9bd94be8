SPECIFICATION FairSpec
CONSTANTS
    headers = headers
    blobs = blobs
    Table = {headers, blobs}
    Blob = blobs
    Cancun = 1
    Offset = 0
    maxFileSize = 2
    freezerBatchBufferLimit = 1
    MaxBlock = 2
    MaxRewinds = 1
    MaxFaults = 2
INVARIANT Readable
INVARIANT NoBlockLost
INVARIANT TablesAligned
INVARIANT NeverBroken
CHECK_DEADLOCK FALSE
INVARIANT VirtualTailCovers
 
