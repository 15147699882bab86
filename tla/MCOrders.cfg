SPECIFICATION Spec
CONSTANTS
    OrderIds = {o1, o2}
    Workers = {w1, w2}
    Charges = {c1, c2}
    c1 = c1
    Fulfilment = {shipped, cancelled}
    MaxReceipts = 2
    Via <- StripeAndSasaPay
SYMMETRY Symmetry
INVARIANTS
    TypeOK
    PlacedIsPayable
    PaidIffCollected
    TrackingAgrees
    PaidMeansCollected
PROPERTY
    KeepsTheLedger
CHECK_DEADLOCK FALSE
