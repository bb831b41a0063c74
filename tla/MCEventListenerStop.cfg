CONSTANTS
    MaxActivities = 3
    Channels = {c1, c2, c3, c4}
    NoChannel = NoChannel
    MaxChannelLoss = 0
    MaxCancels = 0
    MaxOutages = 0
    MaxStops = 1
    MaxTroubles = 1
    MayDispose = FALSE
    Spaced = TRUE
SPECIFICATION SafetySpec
INVARIANTS
    StopCloses
CHECK_DEADLOCK FALSE
