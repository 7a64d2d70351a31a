SPECIFICATION Spec
CONSTANTS
    MaxHeight = 12
    NoHeight = NoHeight
    Networks <- MCNetworks
    MAX_MONEY = 6
    Configs <- MCConfigs
    TargetHeights = {0, 1, 2, 6, 9, 10}
    ExpiryHeights = {0, 10}
    NoteValues = {1, 5}
    TransparentInputs <- MCInputs
    TransparentOutputs <- MCOutputs
    StakingPuts <- MCStakingPuts
    DEFAULT_TX_EXPIRY_DELTA = 4
    MARGINAL_FEE = 1
    GRACE_ACTIONS = 2
    P2PKH_STANDARD_INPUT_SIZE = 2
    P2PKH_STANDARD_OUTPUT_SIZE = 2
    FIXED_FEE = 3
    MaxItems = 4
INVARIANTS
    TypeOK
    BuiltTransactionSerialises
    WirePaysRequiredFee
    NothingAddedIsLost
    RoundTripsUnlessDummies
    PanicsExactlyWhen
    EntryPointsDifferOnlyInPanics
    CoinbaseIsWellFormed
PROPERTY
    FeeNeverFalls
CHECK_DEADLOCK FALSE
