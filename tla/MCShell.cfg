SPECIFICATION Spec
CONSTANTS
    None = None
    r1 = r1
    r2 = r2
    a1 = a1
    a2 = a2
    x1 = x1
    x2 = x2
    v1 = v1
    v2 = v2
    Runs = {r1}
    Workers = {w1}
    Approvers = {a1}
    Executors = {x1}
    Evaluators = {v1}
    CallerKeys = {}
    UsedKeys = {}
    RootCauses <- MCCauses
    Observations = {"outbox"}
    MaxFailures = 0
INVARIANTS
    ShellIsNotWorked
CHECK_DEADLOCK FALSE
