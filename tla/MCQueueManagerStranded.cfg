CONSTANTS
    Messages = {m1, m2}
    NoMessage = NoMessage
    HandlerMayThrow = FALSE
SPECIFICATION SafetySpec
INVARIANTS
    NothingStranded
CHECK_DEADLOCK FALSE
