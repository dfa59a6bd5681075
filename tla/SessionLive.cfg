SPECIFICATION FairSpec
CONSTANTS
    Configs <- MCConfigs
    AwsCodes <- MCAwsCodes
    AwsLanguages <- MCAwsLanguages
    Requests <- MCRequests
    MaxAttempts = 2
    MaxBody = 4
    DisableSilentPacket = TRUE
    Packets = 1
    MaxResults = 2
PROPERTIES AttemptsStop RequestEnds
CHECK_DEADLOCK FALSE
