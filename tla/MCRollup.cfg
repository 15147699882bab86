SPECIFICATION RollupFairSpec
CONSTANTS
    Cards = {c1}
    Columns <- OneOfEach
    Runners = {r1, r2}
    MaxDay = 2
    MaxEvents = 2
    MaxCrashes = 1
INVARIANTS
    RollupTypeOK
    NeverOverstated
    DiffersOnlyByLate
PROPERTIES
    CatchesUp
CHECK_DEADLOCK FALSE
