CONSTANTS
    a = a
    b = b
    Null = Null
    Contents = {a, b}
    Streams <- MCStreams
    MaxLost = 1
    MayCancel = TRUE
SPECIFICATION FairSpec
CHECK_DEADLOCK FALSE
INVARIANTS
    ChunksInOrder
    DriveIsTheStream
    EndsOnce
PROPERTIES
    StreamIsCompleted
