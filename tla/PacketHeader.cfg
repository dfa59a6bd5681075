SPECIFICATION Spec
CONSTANTS
    HeaderLength <- MCHeaderLength
    MaxPayloadLength <- MCMaxPayloadLength
    Clients <- MCClients
INVARIANTS TypeOK FramesExact NothingWithheld LimitEnforced DeliversClientFrames
CHECK_DEADLOCK FALSE
