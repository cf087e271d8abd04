SPECIFICATION Spec
CONSTANTS
    None = None
    r1 = r1
    r2 = r2
    a1 = a1
    a2 = a2
    x1 = x1
    x2 = x2
    v1 = v1
    v2 = v2
    Runs = {r1}
    Workers = {}
    Approvers = {a1, a2}
    Executors = {x1, x2}
    Evaluators = {v1, v2}
    CallerKeys = {k1}
    UsedKeys = {k1}
    RootCauses <- MCPosted
    Observations = {"other"}
    MaxFailures = 1
SYMMETRY RunSymmetry
INVARIANTS
    RepairHasAction
    DiagnosisHasEvidence
    OneCallPerKey
PROPERTIES
    FinishedStepsStay
CHECK_DEADLOCK FALSE
