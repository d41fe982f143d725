SPECIFICATION FairSpec
CONSTANTS
    Sessions = {s1, s2}
    Targets = {t1}
    OverStream = FALSE
    MAX_ID = 3
    UDP_CONTEXT_ID_RECONNECT_MARGIN = 0
    UDP_RECEIVE_QUEUE_CAPACITY = 1
    WAITING_DATAGRAM_QUEUE_CAPACITY = 1
    MAX_WAITING_DATAGRAM_CONTEXTS = 1
    MaxSent = 1
    None = None
INVARIANTS
    RightReceiver
    BoundedWaiting
PROPERTIES
    ClosedIsReleased
