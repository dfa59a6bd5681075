SPECIFICATION FairSpec
CONSTANTS
    AudioStreamingHeader = TRUE
    DisableSilentPacket = FALSE
    HeaderLength = 4
    MaxPayloadLength = 2
    Clients <- MCClients
    MaxSilent = 1
INVARIANTS AudioIntact NothingLost NoAudioAfterError
PROPERTIES DeframerImplemented CancelStopsAll EndReachesConsumer
CHECK_DEADLOCK FALSE
