SPECIFICATION Spec
CONSTANTS
    MaxAttempts = 1
    MaxPackets = 1
    Packets <- MCPackets
    PageHeaderSize = 2
    SegmentSize = 2
    SegmentCounts = 4
    PageIndexes = 16
    IDHeaderSize = 1
    CommentHeaderSize = 1
INVARIANT CloseUpdatesLastPage
CHECK_DEADLOCK FALSE
