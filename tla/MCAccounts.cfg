SPECIFICATION Spec
CONSTANTS
    Emails = {e1}
    Workers = {w1, w2}
    MaxPasswords = 3
    MaxLogins = 1
SYMMETRY Symmetry
INVARIANTS
    TypeOK
    LinkWorksOnce
    ChangesStick
PROPERTIES
    InvitedOpensByLink
CHECK_DEADLOCK FALSE
