SPECIFICATION Spec
CONSTANTS
    Tenants = {t1}
    Workers = {w1, w2}
    Charges = {c1, c2}
    c1 = c1
    Plans = {free, pro}
    FreePlan = free
    MaxSubs = 1
    MaxDay = 3
    TrialDays = 1
    PeriodDays = 1
    Via <- MpesaOnly
INVARIANT
    AnsweredIsBooked
CHECK_DEADLOCK FALSE
