SPECIFICATION RollupSpec
CONSTANTS
    Cards = {c1}
    Columns <- OfEachKind
    Runners = {r1}
    MaxDay = 2
    MaxEvents = 2
    MaxCrashes = 0
PROPERTIES
    FoldsTodaysEvents
CHECK_DEADLOCK FALSE
