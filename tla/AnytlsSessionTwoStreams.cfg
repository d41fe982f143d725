SPECIFICATION Spec
CONSTANTS
    Streams = {1, 2}
    UdpStreams = {1}
    SESSION_QUEUE_CAPACITY = 2
    STREAM_QUEUE_CAPACITY = 1
    CloseWhenIdle = FALSE
    MaxUp = 1
    OutsideFinishes = FALSE
    MaxDown = 0
    MaxControl = 0
INVARIANTS
    NoStrandedStream
    WireOrder
