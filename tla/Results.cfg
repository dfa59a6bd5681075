SPECIFICATION Spec
CONSTANTS
    Configs <- MCConfigs
    ServiceResults <- MCServiceResults
    Word = {1, 2, 3, 4, 5, 10}
    MaxResults = 2
INVARIANTS SentAsConfigured WeakWordsHidden
CHECK_DEADLOCK FALSE
