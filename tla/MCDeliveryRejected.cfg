CONSTANTS
    g1 = g1  g2 = g2
    order = order  refund = refund
    Order = Order  Refund = Refund
    placed = placed  garbled = garbled  foreign = foreign  numbered = numbered
    Groups = {g1, g2}
    Messages = {placed, garbled, foreign}
    Names = {order, refund}
    Types = {Order, Refund}
    NoName = NoName
    NoGroup = NoGroup
    Own = {placed, garbled}
    NameOf <- MCNameOf
    HasId = {placed, garbled}
    TextOnly = {placed, garbled, foreign}
    Bound <- MCBound
    HandledBy <- AgreeingGroups
    Readable <- AgreeingReadable
    MaxLosses = 0
SPECIFICATION SafetySpec
INVARIANTS
    RejectedIsSettled
CHECK_DEADLOCK FALSE
