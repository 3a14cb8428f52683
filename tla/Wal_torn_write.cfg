SPECIFICATION Spec
CONSTANTS
    MaxBytes = 9
    SegmentMax = 9
    MaxSeg = 2
    Sizes = {2, 3}
    MaxRecords = 3
    Faults = {"write"}
INVARIANTS Durable
