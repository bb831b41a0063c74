CONSTANTS
    Messages = {m1, m2, m3}
    NoMessage = NoMessage
    HandlerMayThrow = TRUE
SPECIFICATION Spec
INVARIANTS
    TypeOK
    ItemsInOnePlace
    DispatcherCountExact
    WorkerBehindFlag
    WorkersBounded
PROPERTIES
    DeathIsFinal
    PromiseKept
    BusyWorkerDrains
    NextCallRescues
CHECK_DEADLOCK FALSE
