SPECIFICATION Spec
CONSTANTS
    None = None
    run = run
    approve = approve
    Runner = run
    Approver = approve
    Calls <- MCCalls
    Writers <- MCWriters
    Parallel = 2
    Requests = {1, 2, 3, 4}
    Foreign = {4}
    Refused = {3}
    MaxCalls = 2
    MaxDuplicates = 1
    MinCalls = 1
    BatchLimit = 2
    MaxFailures = 1
INVARIANTS
    TypeOK
    BudgetIsKept
    EvidenceIsAccounted
    ExecutedIsAudited
    FeedSkipsOnlyOvertaken
PROPERTIES
    FeedCatchesUp
    CallsEnd
CHECK_DEADLOCK FALSE
