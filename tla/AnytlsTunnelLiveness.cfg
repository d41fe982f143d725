SPECIFICATION FairTunnelSpec
CONSTANTS
    Streams = {1}
    UdpStreams = {}
    SESSION_QUEUE_CAPACITY = 1
    STREAM_QUEUE_CAPACITY = 1
    CloseWhenIdle = FALSE
    MaxUp = 1
    OutsideFinishes = FALSE
    MaxDown = 0
    MaxControl = 2
PROPERTIES
    TunnelEnds
