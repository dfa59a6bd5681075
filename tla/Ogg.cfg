SPECIFICATION Spec
CONSTANTS
    MaxAttempts = 2
    MaxPackets = 3
    Packets <- MCPackets
    PageHeaderSize = 2
    SegmentSize = 2
    SegmentCounts = 4
    PageIndexes = 16
    IDHeaderSize = 1
    CommentHeaderSize = 1
INVARIANTS TypeOK ServiceStream PagesReadable SoleRecording
CHECK_DEADLOCK FALSE
