SPECIFICATION Spec
CONSTANTS
    MaxHeight = 12
    NoHeight = NoHeight
    Networks <- MCNetworks
    MAX_MONEY = 2
    Nodes = {"a", "b"}
    NetworkOf <- MCNetworkOf
    Plans <- MCPlans
    Coinbases <- MCCoinbases
    HeaderStarts <- MCHeaderStarts
    CallHeights = {5, 6}
    MaxSigned = 2
    MaxMined = 1
    MaxTxs = 2
    COMMIT_FLAG = 4
    MaxU64 = 100
    MaxSignatures = 2
    MAX_HEADER_COUNT = 4
    MAX_HARDFORKS_PER_BLOCK = 1
    MAX_TERMINATED_FINALIZERS = 1
INVARIANTS
    BlocksAreRelayedUnchanged
    SignaturesFollowTheHeight
    EncodedHeadersAgree
CHECK_DEADLOCK FALSE
