SPECIFICATION FairSpec
CONSTANTS
    MaxBytes = 5
    SegmentMax = 6
    MaxSeg = 2
    Sizes = {2, 3, 7}
    MaxRecords = 4
    Faults = {"roll"}
INVARIANTS TypeOK AtMostOneReplay DiskBounded
PROPERTIES OperationsReturn
