SPECIFICATION FairSpec
CONSTANTS
    Sessions = {s1}
    Targets = {t1}
    OverStream = TRUE
    MAX_ID = 2
    UDP_CONTEXT_ID_RECONNECT_MARGIN = 0
    UDP_RECEIVE_QUEUE_CAPACITY = 1
    WAITING_DATAGRAM_QUEUE_CAPACITY = 1
    MAX_WAITING_DATAGRAM_CONTEXTS = 1
    MaxSent = 3
    None = None
PROPERTIES
    StreamDelivers
