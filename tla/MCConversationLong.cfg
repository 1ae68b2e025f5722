\* A print of one entry fits the buffer, prints of two and three do not.
SPECIFICATION Spec
CONSTANTS
    BufferSize = 6
    MaxEntries = 3
    MaxRequests = 4
INVARIANTS
    LongRepliesAreRead
