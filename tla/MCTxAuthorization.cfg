SPECIFICATION Spec
CONSTANTS
    MaxHeight = 20
    NoHeight = NoHeight
    Networks <- MCNetworks
    MAX_MONEY = 12
    Paddings <- MCPaddings
    TargetHeights = {6, 10, 18}
    ExpiryHeights = {0}
    NoteValues = {1, 3}
    DEFAULT_TX_EXPIRY_DELTA = 4
    MARGINAL_FEE = 1
    GRACE_ACTIONS = 2
    MaxItems = 4
    Plans <- MCPlans
    Drafts <- MCDrafts
    Coins = {"c2", "c3"}
    Outputs = {"out"}
    Anchors = {"a1", "a2"}
    MaxInputs = 3
    MaxOutputs = 3
    MaxCosigs = 2
INVARIANTS
    TypeOK
    SignaturesStand
    PaysForItsBundles
PROPERTIES
    DeferredDataIsAuthorization
    CosignaturesNoticeTheirScope
CHECK_DEADLOCK FALSE
