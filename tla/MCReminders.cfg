SPECIFICATION Spec
CONSTANTS
    Appts = {a1}
    Runners = {r1, r2}
    Owners = {o1, o2}
    Starts = {3, 4, 5, 6}
    Lead = 4
    Width = 2
    Limit = 1
    MaxTime = 3
    MaxMails = 2
SYMMETRY Symmetry
INVARIANTS
    TypeOK
    OnceUnlessExcused
    NobodySkipped
PROPERTIES
    InGoodTime
CHECK_DEADLOCK FALSE
