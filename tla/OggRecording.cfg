SPECIFICATION Spec
CONSTANTS
    MaxAttempts = 2
    MaxPackets = 2
    Packets <- MCPackets
    PageHeaderSize = 2
    SegmentSize = 2
    SegmentCounts = 4
    PageIndexes = 16
    IDHeaderSize = 1
    CommentHeaderSize = 1
INVARIANT RecordingKeepsAudio
CHECK_DEADLOCK FALSE
