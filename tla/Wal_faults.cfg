SPECIFICATION Spec
CONSTANTS
    MaxBytes = 6
    SegmentMax = 4
    MaxSeg = 2
    Sizes = {2, 3, 7}
    MaxRecords = 4
    Faults = {"sync", "cursor", "remove", "rot"}
INVARIANTS Durable Deliverable Fifo
PROPERTIES CursorAdvances KeepsPromise AppendKeepsItsRecord
