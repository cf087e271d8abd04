SPECIFICATION Spec
CONSTANTS
    None = None
    o1 = o1 o2 = o2 p1 = p1 p2 = p2 s1 = s1 s2 = s2 k1 = k1
    Orders = {o1, o2}
    Payments = {p1, p2}
    Skus = {s1, s2}
    Items <- MCScarceItems
    InitialStock <- MCScarceStock
    DemoOrders = {}
    InjectableFaults = {}
    DeductRequests <- OwnItems
    RequestKeys = {k1}
    ReadCount = 2
    ReplenishLevel = 2
    Disruptions <- AllDisruptions
    MaxFailures = 2
    MaxOperatorCalls = 2
    MaxDisturbances = 3
SYMMETRY Symmetry
INVARIANTS
    TypeOK
    OrderLedgerAgrees
    StockConserved
    OnlyPaidIsDeducted
    PublishedIsOnStream
    NoLostPayment
    AckedDeliveriesCounted
    ConsumedIsDeducted
    EventDeductionIsRecorded
PROPERTIES
    DeductsExactlyOnce
CHECK_DEADLOCK FALSE
