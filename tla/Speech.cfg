SPECIFICATION Spec
CONSTANTS
    Configs <- MCConfigs
    AwsCodes <- MCAwsCodes
    AwsLanguages <- MCAwsLanguages
    Requests <- MCRequests
    MaxAttempts = 4
    MaxBody = 4
INVARIANTS TypeOK HonestStatus RetryBudget BodyOrder ErrorEndsAwsStream
    OnlyReconnectsFailSilently
CHECK_DEADLOCK FALSE
