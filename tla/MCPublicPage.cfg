SPECIFICATION FairSpec
CONSTANTS
    Workers = {w1, w2, w3}
    Texts = {t1, t2}
    Contents = {c1, c2}
    TTL = 1
INVARIANTS
    TypeOK
    CleanPageIsCurrent
PROPERTY
    SettlesCurrent
CHECK_DEADLOCK FALSE
