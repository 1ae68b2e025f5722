\* A print of one entry fits the buffer, prints of two and three do not.
SPECIFICATION FairSpec
CONSTANTS
    BufferSize = 6
    MaxEntries = 3
    MaxRequests = 4
INVARIANTS
    TypeOK
    RepliesMatchRequests
    SessionInv
PROPERTIES
    RequestsEnd
    ServesRequests
