SPECIFICATION FairSpec
CONSTANTS
    MaxTicks = 2
    Retries = 1
    MaxDrain = 1
    Capacity = 1
    MaxPipes = 2
    Transports = {"direct", "relay"}
INVARIANTS TypeOK NoOvertaking NothingForgotten
PROPERTIES TickReturns BacklogDrains
