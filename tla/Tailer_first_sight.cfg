SPECIFICATION Spec
CONSTANTS
    MaxBytes = 3
    MaxFiles = 2
    MaxCrashes = 0
    Window = 2
    MaxRecords = 2
    Known = FALSE
    Rotations = {"rename"}
INVARIANTS NothingSkipped
