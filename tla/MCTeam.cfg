SPECIFICATION Spec
CONSTANTS
    Workers = {w1, w2}
    Users = {u1, u2, u3}
    Limits = {0, 2, 3}
SYMMETRY Symmetry
INVARIANTS
    TypeOK
    OneOwner
    SeatsBounded
