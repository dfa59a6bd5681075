SPECIFICATION Spec
CONSTANTS
    Configs <- MCConfigs
    AwsCodes <- MCAwsCodes
    AwsLanguages <- MCAwsLanguages
    Requests <- MCRequests
    MaxAttempts = 2
    MaxBody = 4
    DisableSilentPacket = TRUE
    Packets = 2
    MaxResults = 1
INVARIANTS AudioOnce CallAfterPacket
PROPERTY HandlerImplemented
CHECK_DEADLOCK FALSE
