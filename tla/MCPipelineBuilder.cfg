CONSTANTS
    Calls = {c1, c2}
    Types = {Order, Refund}
    None = None
    MaxSteps = 6
SPECIFICATION Spec
INVARIANTS
    TypeOK
    NullScopeHasBuilder
    AloneIsWhole
    RoundOnlyAfterRace
    MissingOnlyIfDisturbed
PROPERTIES
    AloneEnds
CHECK_DEADLOCK FALSE
