CONSTANTS
    MaxActivities = 3
    Channels = {c1, c2, c3, c4}
    NoChannel = NoChannel
    MaxChannelLoss = 3
    MaxCancels = 3
    MaxOutages = 2
    MaxStops = 1
    MaxTroubles = 3
    MayDispose = TRUE
    Spaced = TRUE
SPECIFICATION Spec
INVARIANTS
    TypeOK
    RestoredExactly
    NotDeaf
    StartedMeansConsuming
    DisposedOrAlive
PROPERTIES
    Settles
CHECK_DEADLOCK FALSE
