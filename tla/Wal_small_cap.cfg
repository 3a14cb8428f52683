SPECIFICATION Spec
CONSTANTS
    MaxBytes = 5
    SegmentMax = 9
    MaxSeg = 3
    Sizes = {2, 3}
    MaxRecords = 3
    Faults = {}
PROPERTIES AppendKeepsItsRecord
