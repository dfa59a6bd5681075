SPECIFICATION Spec
CONSTANTS
    Configs <- MCConfigs
    AwsCodes <- MCAwsCodes
    AwsLanguages <- MCAwsLanguages
    Requests <- MCRequests
    MaxAttempts = 2
    MaxBody = 4
    DisableSilentPacket = FALSE
    Packets = 2
    MaxResults = 1
INVARIANT RetryAfterClientAudio
CHECK_DEADLOCK FALSE
