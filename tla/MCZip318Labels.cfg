SPECIFICATION Spec
CONSTANTS
    MaxHeight = 26
    MaxU64 = 4999
    EXPIRY_MODULUS = 4
    EXPIRY_WINDOW = 8
    AnchorBucketInterval = 2
    MAX_RESIDUAL_VALUE = 10
    DENOM_CAP = 100
    PREP_TX_ACTIONS = 3
    Transactions <- MCTransactions
    MinedHeights = {3, 7, 22}
    ExpiryForm = "value"
    Targets = {1, 6, 21}
    Deviations = 2
INVARIANTS
    TypeOK
    CachedLabelStands
    ConformsUpToLookAlikes
    NoFalseNegatives
