SPECIFICATION MCSpec
CONSTANTS
    Streams = {1}
    UdpStreams = {1}
    SESSION_QUEUE_CAPACITY = 2
    STREAM_QUEUE_CAPACITY = 1
    MaxSend = 2
    MaxUp = 2
    MaxControl = 1
    SqTcp = {"t1", "t2"}
    SqUdp = {"u1"}
    SqStat = {"s1"}
    SqAuth = TRUE
    SqMaxConns = 2
    SqMaxChanges = 2
    SqChan = 1
    SqMixes <- MCMixes
    SiTag = "i1"
    SiConns = {"c1"}
    SiAddr <- MCAddr
    UsNames = {"u1", "u2", "u3"}
    UsPasswords = {"", "p2"}
    UsInbounds = {"i1", "i2"}
    UsVmess = {"i2"}
    UsUuids = {"u1", "u2"}
    UsConfig <- MCConfig
    UsAdmins = {"a1", "a2"}
    UsMaxOps = 2
    UsMaxSaves = 2
    UsMaxBoots = 1
    TrConns = {"c1", "c2", "c3"}
    TrDst <- MCDst
    TrApi = {"a1", "a2"}
    TrThreshold = 1
    PsKeys = {"k1", "k2"}
    PsReqs = {"r1", "r2", "r3"}
    PsMaxCrashes = 1
    CmReqs = {"a", "b"}
    CmPorts = {"p1", "p2"}
    CmMaxOps = 4
    CmMaxCores = 2
    FiLookups = {"l1", "l2", "l3"}
    FiDomain <- MCDomain
    FiHosts = 3
    FiMaxBoots = 1
    DhQueries = {"q1", "q2", "q3"}
    DhMaxConns = 2
    DhMaxIdle = 1
    SoRuleSets <- MCRuleSets
    SoRequests <- MCRequests
    SoModes = {"rule", "proxy"}
    SoPtr <- MCPtr
    SoCountry <- MCCountry
    SoNames <- MCNames
    VmJobs <- MCJobs
    VmIds = {1, 2}
    VmUsers = {1}
    VmTags = {0, 1}
    VmPadding = {0, 3}
    VmChunk = 3
    VmNonces = 2
    VmAhead = 4
    HwRequest = 2
    HwUp <- MCUp
    HwDown <- MCDown
    HwResponses <- MCResponses
    HwAhead = 3
    HwMaxMessage = 1
    HwMaxPadding = 2
    HwHeader = 2
    HwMax = 4
    HwPackets <- MCPackets
    HwIds = {1, 2}
    HwMaxEntries = 2
    HwMaxFragments = 3
    GdApi = {"a1"}
    GdInterval = 2
    GdMaxNow = 4
    GdMaxBoots = 3
    HwSizes = {0, 1, 2, 3, 4, 5}
INVARIANTS
    StreamProtocol
    SqCacheSound
    
    TrSound
    PsSound
    CmNoOrphan
    FiLeadsBack
    SoPicksRight
    VmDelivers
    HwFaithful
    GdSound
PROPERTIES
    DhPoolSound
CHECK_DEADLOCK FALSE
