CONSTANTS
    Configurations = {first, second}
    None = None
    MaxCalls = 4
    MaxAsks = 2
    MaxFailures = 2
SPECIFICATION Spec
INVARIANTS
    EveryListenerStarts
    ConnectionsAreOwned
    TransportIsComplete
    OneBus
CHECK_DEADLOCK FALSE
