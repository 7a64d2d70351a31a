SPECIFICATION MigrationSpec
CONSTANTS
    MaxHeight = 24
    MaxU64 = 4999
    EXPIRY_MODULUS = 4
    EXPIRY_WINDOW = 8
    AnchorBucketInterval = 2
    MAX_RESIDUAL_VALUE = 10
    DENOM_CAP = 500
    PREP_TX_ACTIONS = 3
    MaxDigits = 4
    Balances <- MCBalances
INVARIANTS
    CrossingsAreCanonical
    GreedyIsLargest
PROPERTIES
    EndsInDust
CHECK_DEADLOCK FALSE
