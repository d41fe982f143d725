SPECIFICATION MCSpec
CONSTANTS
    Callers = {"c1", "c2", "c3"}
    MaxSessions = 3
    MaxChanges = 2
    Waiters = {"w1", "w2", "w3"}
    Setter = "setter"
    ZERO_RTT_REPLAY_LIMIT = 2
    MaxItems = 5
    MaxAttempts = 4
    RdStores = {"s1", "s2"}
    RdMaxCommits = 2
    RdMaxRuns = 2
    DnQueries = {"q1", "q2"}
    RuKeys = {"k", "d"}
    RuDns = {"d"}
    RuCap = 1
    RuMaxIn = 3
    RuMaxSess = 2
    RuMaxBack = 1
    SlN = 2
    SlCalls = {"c1", "c2"}
    SlTolerance = 1
    SlLatencies = {1, 3}
    SlBudgets <- MCBudgets
    DlConfigs <- MCDials
    DlCallers = {"c1", "c2"}
    DlFillers = {"f1", "f2"}
    DlMaxStreams = 2
    TjWrites <- MCWrites
    TjUsers = {1}
    TjPasswords = {1, 2}
    TjAhead = 9
    ScWaiters = {"w1", "w2"}
    ScClosers = {"c1", "c2"}
    CiPorts = {"socks5", "http", "mix"}
    CiUsers = {TRUE, FALSE}
    CiJobs <- MCClients
    CiFroms <- MCFroms
    CiTargets <- MCTargets
    CiMaxUdp = 2
    HyTcp = {"t1"}
    HyUdp = {"u1"}
    HyMaxConns = 2
    HyMaxChanges = 2
    S5Creds = {TRUE, FALSE}
    S5Addrs <- MCReplied
    S5Payload <- MCPayload
    S5MaxUdp = 2
INVARIANTS
    CiNamesRemote
CHECK_DEADLOCK FALSE
