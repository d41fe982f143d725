SPECIFICATION TunnelSpec
CONSTANTS
    Streams = {1}
    UdpStreams = {}
    SESSION_QUEUE_CAPACITY = 1
    STREAM_QUEUE_CAPACITY = 1
    CloseWhenIdle = FALSE
    MaxUp = 2
    OutsideFinishes = FALSE
    MaxDown = 1
    MaxControl = 2
INVARIANTS
    ServerReadsWhatWasSent
PROPERTIES
    ServerKeepsProtocol
