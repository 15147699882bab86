SPECIFICATION FairSpec
CONSTANTS
    Tenants = {t1}
    Workers = {w1}
    Charges = {c1, c2}
    c1 = c1
    Plans = {free, pro}
    FreePlan = free
    MaxSubs = 2
    MaxDay = 3
    TrialDays = 1
    PeriodDays = 1
    Via <- StripeAndMpesa
PROPERTIES
    OverdueIsEnded
CHECK_DEADLOCK FALSE
