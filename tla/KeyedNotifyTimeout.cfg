SPECIFICATION KnSpec
CONSTANTS
    Waiters = {"w1", "w2"}
    Setter = "setter"
INVARIANTS
    NoLostNotify
CHECK_DEADLOCK FALSE
