SPECIFICATION Spec
CONSTANTS
    Configs <- MCAwsRetry
    AwsCodes <- MCAwsCodes
    AwsLanguages <- MCAwsLanguages
    Requests <- MCRequests
    MaxAttempts = 4
    MaxBody = 2
INVARIANT RetriesWithinLimit
CHECK_DEADLOCK FALSE
