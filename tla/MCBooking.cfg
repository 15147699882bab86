SPECIFICATION Spec
CONSTANTS
    Workers = {w1, w2}
    Appts = {a1, a2}
    Services = {s1}
    Durations = {1, 2}
    Hours <- TwoRules
    Closed = {"cancelled"}
SYMMETRY Symmetry
INVARIANTS
    TypeOK
    ClashIsLoose
    WithinHours
    LiveHasService
CHECK_DEADLOCK FALSE
