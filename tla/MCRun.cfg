SPECIFICATION RunFairSpec
CONSTANTS
    None = None
    r1 = r1
    r2 = r2
    a1 = a1
    a2 = a2
    x1 = x1
    x2 = x2
    v1 = v1
    v2 = v2
    Runs = {r1}
    Workers = {w1, w2}
    Approvers = {a1, a2}
    Executors = {x1, x2}
    Evaluators = {}
    CallerKeys = {k1, k2}
    UsedKeys = {k2}
    RootCauses <- MCCauses
    Observations = {"dirty", "outbox"}
    MaxFailures = 1
INVARIANTS
    TypeOK
    EventsTellTheRun
    NoRepairOnConflict
    OneRepairPerRun
    RepairedIsDeducted
    HealthyIsConfirmed
    OneWorkerPerRun
PROPERTIES
    DeclaredTransitions
    InvestigationEnds
    RepairEnds
CHECK_DEADLOCK FALSE
