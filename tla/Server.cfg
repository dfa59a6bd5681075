SPECIFICATION Spec
CONSTANT MaxStreams = 2
INVARIANT ExitNamesFailure
PROPERTIES ExporterFailureExits APIFailureExits BlockedListenerEnds
CHECK_DEADLOCK FALSE
