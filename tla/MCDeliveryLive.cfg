CONSTANTS
    g1 = g1  g2 = g2
    order = order  refund = refund
    Order = Order  Refund = Refund
    placed = placed  garbled = garbled  foreign = foreign  numbered = numbered
    Groups = {g1, g2}
    Messages = {placed, garbled, numbered}
    Names = {order, refund}
    Types = {Order, Refund}
    NoName = NoName
    NoGroup = NoGroup
    Own = {placed, garbled}
    NameOf <- MCNameOf
    HasId = {placed, garbled, numbered}
    TextOnly = {placed, garbled}
    Bound <- LiveBound
    HandledBy <- AgreeingGroups
    Readable <- AgreeingReadable
    MaxLosses = 1
SPECIFICATION Spec
PROPERTIES
    GoodIsProcessed
    PublishIsAnswered
CHECK_DEADLOCK FALSE
