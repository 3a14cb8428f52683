SPECIFICATION FairSpec
CONSTANTS
    MaxStreams = 3
    InitialBackoff = 1
    MaxBackoff = 3
    Kinds = {"telemetry", "local", "bad", "silent"}
INVARIANTS TypeOK OneSession ServedInOrder
PROPERTIES StreamsSettled KeepsRegistering
