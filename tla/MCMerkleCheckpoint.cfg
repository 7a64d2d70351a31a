SPECIFICATION Spec
CONSTANTS
    DEPTH = 4
    MaxCrashes = 2
INVARIANTS
    CheckpointsResume
    FollowedNoteHasPath
CHECK_DEADLOCK FALSE
