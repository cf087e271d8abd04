SPECIFICATION Spec
CONSTANTS
    None = None
    o1 = o1 o2 = o2 p1 = p1 p2 = p2 s1 = s1 s2 = s2 k1 = k1
    Orders = {o1}
    Payments = {p1}
    Skus = {s1, s2}
    Items <- MCItems
    InitialStock <- MCStock
    DemoOrders = {o1}
    InjectableFaults <- AllFaults
    DeductRequests <- MCRequests
    RequestKeys = {k1}
    ReadCount = 2
    ReplenishLevel = 1
    Disruptions = {}
    MaxFailures = 0
    MaxOperatorCalls = 4
    MaxDisturbances = 4
CHECK_DEADLOCK FALSE
PROPERTY ReconcileRepairs
