SPECIFICATION FairSpec
CONSTANTS
    NumFiles = 1
    JournalLines = 1
    FileLines = 2
    MaxPoll = 2
    Retries = 0
    MaxDrain = 2
    Capacity = 2
    MaxFaults = 1
    MaxRestarts = 1
    MaxWire = 1
INVARIANTS TypeOK CheckpointCovered OrderKept OncePassStrict
PROPERTIES EverythingArrives
CHECK_DEADLOCK FALSE
