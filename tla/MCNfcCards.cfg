SPECIFICATION Spec
CONSTANTS
    u1 = u1
    u2 = u2
    o1 = o1
    VCardIds = {c1, c2}
    Users = {u1, u2}
    Orgs = {o1}
    Slugs = {s1, s2}
    Limits <- OneCard
    Roles <- U2MayJoin
    Tags = {n1}
    Workers = {w1, w2}
    Staff = {u1}
    Order <- BoughtByO1
SYMMETRY Symmetry
INVARIANTS
    TypeOK
    InUseIsLinked
    ChipOpensItsCard
    OverrunIsBounded
PROPERTIES
    TagMovesWithinReach
CHECK_DEADLOCK FALSE
