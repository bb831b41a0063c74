CONSTANTS
    placed = placed  paid = paid  placedFault = placedFault
    Placed = Placed  Paid = Paid  PlacedFault = PlacedFault
    Messages = {placed, paid}
    Direct = {placedFault}
    NoMessage = NoMessage
    HandlerMayThrow = TRUE
    Exchanges = {Placed, Paid, PlacedFault}
    ExchangeOf <- MCExchangeOf
    Startup <- MCStartup
    MaxOutages = 1
SPECIFICATION ChannelSpec
INVARIANTS
    ChannelTypeOK
    TroubleHasCause
PROPERTIES
    ReachesListeners
CHECK_DEADLOCK FALSE
