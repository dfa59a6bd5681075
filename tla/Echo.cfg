SPECIFICATION Spec
CONSTANTS
    Configs <- MCConfigs
    AwsCodes = {}
    AwsLanguages = {}
    Requests <- MCRequests
    MaxAttempts = 1
    MaxBody = 5
    Packets = 3
INVARIANTS EchoInOrder TestReportsBrokenInput
PROPERTIES HandlerImplemented EchoStops
CHECK_DEADLOCK FALSE
