SPECIFICATION FairSpec
CONSTANTS
    MaxRecords = 3
    MaxRestarts = 1
INVARIANTS TypeOK NothingLost ReplayExplained
PROPERTIES FreshCursorTried RecordsSettled
