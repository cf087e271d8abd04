--------------------------- MODULE ObservedOrder ---------------------------
(***************************************************************************)
(* One order on its way from payment to deduction, as the read-only tools  *)
(* see it: the payment, the outbox row, the event on the stream, the       *)
(* deduction, and the log signals the services leave in                    *)
(* observability.signals.  A fault switch set before the payment is in     *)
(* force throughout; RetryEvent may lift it.                               *)
(*                                                                         *)
(* PaymentService and InventoryService model the same code with its        *)
(* crashes and races.  Here it is told for what can be observed of it.     *)
(***************************************************************************)
CONSTANTS
    None,     \* no fault
    Replayed  \* the faults whose orders an operator replays with RetryEvent

PublishFaults == {"OUTBOX_NOT_PUBLISHED", "OUTBOX_PUBLISH_FAILED"}

\* What RetryEvent clears.
ReplayFaults == {"INVENTORY_EVENT_NOT_CONSUMED", "INVENTORY_CONSUMER_FAILED",
                 "INVENTORY_DEDUCTION_NOT_PERSISTED"}

Faults == PublishFaults \cup ReplayFaults
              \cup {"OUTBOX_NOT_CREATED", "EVIDENCE_CONFLICT", "TOOL_TIMEOUT_OR_DIRTY_DATA"}

\* What a reader of a signal's status and message finds in it.
Signal == [service : {"payment", "inventory"}, says : SUBSET {"success", "failure"}]

VARIABLES
    injected,   \* the fault the order was given
    fault,      \* the switch in agent.demo_faults
    paid,       \* there is a SUCCESS payment
    outbox,     \* the outbox row: ABSENT, PENDING or PUBLISHED
    event,      \* on the stream and in the event index
    delivery,   \* the entry at the consumer: waiting, failing, conflicting, handled, acked
    deducted,   \* deductions and the consumed row, written together
    log,        \* the order's signals
    retry,      \* RetryEvent: not called, deducted and about to clear, done
    changed     \* whether a tool could tell a difference since the last reading

orderVars == <<injected, fault, paid, outbox, event, delivery, deducted, log, retry, changed>>

ASSUME FaultAssumption == None \notin Faults /\ Replayed \subseteq Faults \cup {None}

OrderInit ==
    /\ injected \in Faults \cup {None}
    /\ fault = injected
    /\ paid = FALSE
    /\ outbox = "ABSENT"
    /\ event = FALSE
    /\ delivery = "waiting"
    /\ deducted = FALSE
    /\ log = {}
    /\ retry = "none"
    /\ changed = TRUE

OrderTypeOK ==
    /\ injected \in Faults \cup {None}
    /\ fault \in {injected, None}
    /\ paid \in BOOLEAN
    /\ outbox \in {"ABSENT", "PENDING", "PUBLISHED"}
    /\ event \in BOOLEAN
    /\ delivery \in {"waiting", "failing", "conflicting", "handled", "acked"}
    /\ deducted \in BOOLEAN
    /\ log \subseteq Signal
    /\ retry \in {"none", "clearing", "done"}
    /\ changed \in BOOLEAN

Shows == changed' = TRUE

Logged(service, says) == [service |-> service, says |-> says]

DeductionLogged == Logged("inventory", {"success"})

FailureLogged == Logged("inventory", {"failure"})

\* Pay: payment, outbox row and signals in one transaction.
Pay ==
    /\ ~paid
    /\ paid' = TRUE
    /\ outbox' = IF fault = "OUTBOX_NOT_CREATED" THEN "ABSENT" ELSE "PENDING"
    /\ log' = {Logged("payment", IF fault = "OUTBOX_NOT_CREATED"
                                 THEN {"success", "failure"} ELSE {"success"})}
                  \cup {Logged("payment", {"failure"}) : f \in {fault} \cap PublishFaults}
    /\ Shows
    /\ UNCHANGED <<injected, fault, event, delivery, deducted, retry>>

\* PublishPending sends the event, which enters it in the index as well ...
Publish ==
    /\ outbox = "PENDING"
    /\ fault \notin PublishFaults
    /\ ~event
    /\ event' = TRUE
    /\ Shows
    /\ UNCHANGED <<injected, fault, paid, outbox, delivery, deducted, log, retry>>

\* ... and marks the row afterwards.
Mark ==
    /\ outbox = "PENDING"
    /\ event
    /\ outbox' = "PUBLISHED"
    /\ log' = log \cup {Logged("payment", {"success"})}
    /\ Shows
    /\ UNCHANGED <<injected, fault, paid, event, delivery, deducted, retry>>

\* What a consumer that reads the switch pretends.
Pretended(switch) ==
    CASE switch = "INVENTORY_CONSUMER_FAILED" -> {FailureLogged}
      [] switch = "INVENTORY_DEDUCTION_NOT_PERSISTED" -> {DeductionLogged}
      [] OTHER -> {}

\* consume finds a switch that makes it fail; a repetition tells nothing new ...
ConsumeFindsSwitch ==
    /\ event /\ delivery = "waiting"
    /\ ~(Pretended(fault) \subseteq log)
    /\ delivery' = "failing"
    /\ UNCHANGED <<injected, fault, paid, outbox, event, deducted, log, retry, changed>>

\* ... and logs what the switch pretends, although it may be lifted by now.
\* The entry stays pending.
ConsumeFails ==
    /\ event /\ delivery = "failing"
    /\ log' = log \cup Pretended(injected)
    /\ delivery' = "waiting"
    /\ Shows
    /\ UNCHANGED <<injected, fault, paid, outbox, event, deducted, retry>>

\* EVIDENCE_CONFLICT logs a success and then, in a statement of its own, a
\* rollback; and again with every delivery.
ConsumeConflicts ==
    /\ event /\ fault = "EVIDENCE_CONFLICT"
    /\ FailureLogged \notin log
    /\ \/ /\ delivery = "waiting"
          /\ log' = log \cup {DeductionLogged}
          /\ delivery' = "conflicting"
       \/ /\ delivery = "conflicting"
          /\ log' = log \cup {FailureLogged}
          /\ delivery' = "waiting"
    /\ Shows
    /\ UNCHANGED <<injected, fault, paid, outbox, event, deducted, retry>>

\* The deduction and its signal, unless the event is consumed already.
Deduct ==
    /\ deducted' = TRUE
    /\ log' = IF deducted THEN log ELSE log \cup {DeductionLogged}
    /\ changed' = (changed \/ ~deducted)

\* consume without such a switch.
ConsumeSucceeds ==
    /\ event /\ delivery = "waiting"
    /\ fault \notin ReplayFaults \cup {"EVIDENCE_CONFLICT"}
    /\ Deduct
    /\ delivery' = "handled"
    /\ UNCHANGED <<injected, fault, paid, outbox, event, retry>>

Acknowledge ==
    /\ delivery = "handled"
    /\ delivery' = "acked"
    /\ UNCHANGED <<injected, fault, paid, outbox, event, deducted, log, retry, changed>>

\* RetryEvent: consume past the switch, of the event in the outbox ...
RetryEvent ==
    /\ injected \in Replayed
    /\ outbox # "ABSENT"
    /\ retry = "none"
    /\ Deduct
    /\ retry' = "clearing"
    /\ UNCHANGED <<injected, fault, paid, outbox, event, delivery>>

\* Mutated form of RetryClears: one of its faults is forgotten.
RetryClearsSome ==
    /\ retry = "clearing"
    /\ fault' = IF fault \in ReplayFaults \ {"INVENTORY_CONSUMER_FAILED"} THEN None ELSE fault
    /\ retry' = "done"
    /\ UNCHANGED <<injected, paid, outbox, event, delivery, deducted, log, changed>>

\* ... and then, in a statement of its own, lift the switch.
RetryClears ==
    /\ retry = "clearing"
    /\ fault' = IF fault \in ReplayFaults THEN None ELSE fault
    /\ retry' = "done"
    /\ UNCHANGED <<injected, paid, outbox, event, delivery, deducted, log, changed>>

\* What the services do by themselves.
ServicesNext ==
    \/ Publish \/ Mark \/ ConsumeFindsSwitch \/ ConsumeFails \/ ConsumeConflicts \/ ConsumeSucceeds
    \/ Acknowledge \/ RetryClears

OrderNext == Pay \/ RetryEvent \/ ServicesNext
=============================================================================
