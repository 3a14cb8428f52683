SPECIFICATION Spec
CONSTANTS
    MaxBytes = 9
    SegmentMax = 5
    MaxSeg = 3
    Sizes = {2, 3}
    MaxRecords = 3
    Faults = {"roll"}
INVARIANTS Durable
