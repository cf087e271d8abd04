SPECIFICATION Spec
CONSTANTS
    None = None
    Replayed = {"INVENTORY_EVENT_NOT_CONSUMED", "INVENTORY_CONSUMER_FAILED", "INVENTORY_DEDUCTION_NOT_PERSISTED", "EVIDENCE_CONFLICT", "OUTBOX_PUBLISH_FAILED", None}
    MaxReads = 3
INVARIANTS
    TypeOK
    CauseWasTrue
    FaultIsDiagnosed
PROPERTY
    RetrySettlesDelivery
CHECK_DEADLOCK FALSE
