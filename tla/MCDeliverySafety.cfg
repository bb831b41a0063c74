CONSTANTS
    g1 = g1  g2 = g2
    order = order  refund = refund
    Order = Order  Refund = Refund
    placed = placed  garbled = garbled  foreign = foreign  numbered = numbered
    Groups = {g1, g2}
    Messages = {placed, foreign}
    Names = {order, refund}
    Types = {Order, Refund}
    NoName = NoName
    NoGroup = NoGroup
    Own = {placed}
    NameOf <- MCNameOf
    HasId = {placed}
    TextOnly = {placed, foreign}
    Bound <- MCBound
    HandledBy <- AgreeingGroups
    Readable <- AgreeingReadable
    MaxLosses = 1
SPECIFICATION SafetySpec
INVARIANTS
    TypeOK
    GoodIsNeverTurnedAway
    ConfirmationReachable
    NoPoisonLoop
PROPERTIES
    KeptUntilGiven
CHECK_DEADLOCK FALSE
