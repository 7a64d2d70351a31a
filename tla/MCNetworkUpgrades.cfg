SPECIFICATION ClientSpec
CONSTANTS
    MaxHeight = 6
    NoHeight = NoHeight
    ZIP212_GRACE_PERIOD = 2
    Networks <- MCNetworks
    Steps = {1, 3}
INVARIANTS
    ClientTypeOK
    BranchOwnsItsHeights
PROPERTIES
    RulesNeverGoBack
    Zip212NeverRelaxes
