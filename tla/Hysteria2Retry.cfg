SPECIFICATION HySpec
CONSTANTS
    HyTcp = {"t1"}
    HyUdp = {}
    HyMaxConns = 2
    HyMaxChanges = 1
PROPERTIES
    HyRetried
CHECK_DEADLOCK FALSE
