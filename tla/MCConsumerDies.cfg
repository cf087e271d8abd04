SPECIFICATION FairSpec
CONSTANTS
    None = None
    o1 = o1 o2 = o2 p1 = p1 p2 = p2 s1 = s1 s2 = s2 k1 = k1
    Orders = {o1, o2}
    Payments = {p1, p2}
    Skus = {s1, s2}
    Items <- MCItems
    InitialStock <- MCStock
    DemoOrders = {}
    InjectableFaults = {}
    DeductRequests <- NoRequests
    RequestKeys = {}
    ReadCount = 2
    ReplenishLevel = 1
    Disruptions = {"consumer_redis"}
    MaxFailures = 1
    MaxOperatorCalls = 0
    MaxDisturbances = 1
PROPERTY OutstandingIsConsumed
CHECK_DEADLOCK FALSE
