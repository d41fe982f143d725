SPECIFICATION FairSpec
CONSTANTS
    Streams = {1}
    UdpStreams = {}
    SESSION_QUEUE_CAPACITY = 1
    STREAM_QUEUE_CAPACITY = 1
    CloseWhenIdle = TRUE
    MaxUp = 0
    OutsideFinishes = TRUE
    MaxDown = 2
    MaxControl = 1
INVARIANTS
    PeerTypeOK
    ReadsWhatWasSent
PROPERTIES
    SessionEnds
