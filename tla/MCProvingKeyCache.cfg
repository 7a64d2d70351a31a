SPECIFICATION Spec
CONSTANTS
    MaxHeight = 0
    NoHeight = NoHeight
    Networks <- MCNetworks
    MAX_MONEY = 0
    Threads = {t1, t2, t3}
    Builds <- MCBuilds
    NoKey = NoKey
    MaxBuilds = 3
    MaxPanics = 1
INVARIANTS
    TypeOK
    ProofsMatchTheirBundle
PROPERTIES
    ImplementsKeyStore
    EveryCallReturns
CHECK_DEADLOCK FALSE
