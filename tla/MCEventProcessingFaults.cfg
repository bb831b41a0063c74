CONSTANTS
    Payments = Payments  Shop = Shop  Reporting = Reporting  Order = Order
    Groups = {Payments, Shop, Reporting}
    Types = {Order}
    ProcessorsOf <- MCProcessorsOf
    AnyGroup = AnyGroup
    NoHeader = NoHeader
    MaxEvents = 1
    MaxThrows = 2
    BlankText = TRUE
SPECIFICATION Spec
INVARIANTS
    TypeOK
    OneFaultPerFailure
    ScopeOutlivesHandlers
    KindsKeptApart
PROPERTIES
    FaultIsHandled
CHECK_DEADLOCK FALSE
