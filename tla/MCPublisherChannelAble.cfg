CONSTANTS
    placed = placed  paid = paid  placedFault = placedFault
    Placed = Placed  Paid = Paid  PlacedFault = PlacedFault
    Messages = {placed, paid, placedFault}
    Direct = {}
    NoMessage = NoMessage
    HandlerMayThrow = TRUE
    Exchanges = {Placed, Paid, PlacedFault}
    ExchangeOf <- MCExchangeOf
    Startup <- MCStartup
    MaxOutages = 0
SPECIFICATION ChannelSafetySpec
INVARIANTS
    AbleToPublish
CHECK_DEADLOCK FALSE
