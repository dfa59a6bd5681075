SPECIFICATION Spec
CONSTANTS
    Configs <- MCGcpRetry
    AwsCodes <- MCAwsCodes
    AwsLanguages <- MCAwsLanguages
    Requests <- MCRequests
    MaxAttempts = 4
    MaxBody = 2
INVARIANT EmptyAnswerIsTheClients
CHECK_DEADLOCK FALSE
