SPECIFICATION FairSpec
CONSTANTS
    MaxBytes = 4
    MaxFiles = 2
    MaxCrashes = 1
    Window = 2
    MaxRecords = 1
    Known = TRUE
    Rotations = {"rename", "truncate", "reuse"}
INVARIANTS TypeOK NothingSkipped ReplayBounded
PROPERTIES LinesDelivered
