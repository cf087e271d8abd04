--------------------------- MODULE PipelineState ---------------------------
(***************************************************************************)
(* The state the order, payment and inventory services share: the four     *)
(* PostgreSQL schemas, the Redis stream with its consumer group, and the   *)
(* local state of the goroutines and handlers that are between two         *)
(* statements.  PaymentService, InventoryService and DemoFaults define the *)
(* steps; OrderPipeline composes them.                                     *)
(*                                                                         *)
(* An event id is "evt_" followed by the payment id, so an event and its   *)
(* payment are the same element of Payments.                               *)
(***************************************************************************)
EXTENDS Naturals, Sequences, FiniteSets

CONSTANTS
    Orders,            \* order ids
    Payments,          \* payment ids, and so event ids
    Skus,
    None,              \* no row, no value
    Items,             \* Items[o][s]: quantity of s in order o, 0 if not in it
    InitialStock,      \* InitialStock[s]: seeded stock row
    DemoOrders,        \* the orders whose id starts with O-DEMO-
    InjectableFaults,  \* the faults an operator may inject ({}: no demo)
    DeductRequests,    \* DeductRequests[o]: item maps passed to deduct-once
    RequestKeys,       \* idempotency keys passed to deduct-once
    ReadCount,         \* XREADGROUP / XAUTOCLAIM COUNT
    ReplenishLevel,    \* the fixture level demo resets raise stock to
    Disruptions,       \* kinds of failure that may happen
    MaxFailures,       \* bound on failures in a behaviour
    MaxOperatorCalls,  \* bound on operator calls in a behaviour
    MaxDisturbances    \* bound on failures and operator calls together

PublishFaults == {"OUTBOX_NOT_PUBLISHED", "OUTBOX_PUBLISH_FAILED"}

ReplayFaults == {"INVENTORY_EVENT_NOT_CONSUMED", "INVENTORY_CONSUMER_FAILED",
                 "INVENTORY_DEDUCTION_NOT_PERSISTED"}

ConsumerFaults == ReplayFaults \cup {"EVIDENCE_CONFLICT"}

FaultTypes == PublishFaults \cup ConsumerFaults
                \cup {"OUTBOX_NOT_CREATED", "TOOL_TIMEOUT_OR_DIRTY_DATA"}

DisruptionKinds == {"publisher", "retry_outbox", "consumer_db", "consumer_redis",
                    "retry_event", "inventory_crash", "payment_crash"}

Keys == Payments \cup RequestKeys

ASSUME NoneAssumption == None \notin Orders \cup Payments \cup RequestKeys \cup FaultTypes

ASSUME ItemsAssumption ==
    /\ Items \in [Orders -> [Skus -> Nat]]
    /\ \A o \in Orders : \E s \in Skus : Items[o][s] > 0

ASSUME StockAssumption ==
    /\ InitialStock \in [Skus -> Nat]
    /\ ReplenishLevel \in Nat

ASSUME RequestAssumption ==
    /\ \A o \in Orders : DeductRequests[o] \subseteq [Skus -> Nat]
    /\ \A o \in Orders : \A items \in DeductRequests[o] :
          \E s \in Skus : items[s] > 0
    /\ DemoOrders \subseteq Orders
    /\ InjectableFaults \subseteq FaultTypes

ASSUME BoundAssumption ==
    /\ ReadCount \in Nat \ {0}
    /\ MaxFailures \in Nat
    /\ MaxOperatorCalls \in Nat
    /\ MaxDisturbances \in Nat
    /\ Disruptions \subseteq DisruptionKinds

VARIABLES
    orderStatus,    \* orders.orders.status, "ABSENT" before the row exists
    orderVersion,   \* orders.orders.version
    history,        \* orders.state_history.to_status, in version order
    payments,       \* payments.payments: payment id -> its order, or None
    outbox,         \* payments.outbox_events: event id -> publish status
    stock,          \* inventory.stocks.available
    deducted,       \* inventory.deductions.quantity, 0 if there is no row
    deductionKey,   \* inventory.deductions.idempotency_key without ":sku"
    consumed,       \* inventory.consumed_events.delivery_count, 0 if no row
    faults,         \* agent.demo_faults: the enabled fault of an order
    stream,         \* the Redis stream: sequence of event ids
    lastDelivered,  \* the group's last delivered entry
    pel,            \* the group's pending entries (delivered, not acked)
    pubPc, pubBatch, pubEvent,           \* the outbox publisher
    retryOutboxPc,                       \* POST /outbox/{id}/retry, per event
    conPc, conBatch,                     \* the stream consumer
    retryEventPc,                        \* POST /inventory/events/{id}/redeliver
    deductPc, deductItems, deductKey,    \* POST /inventory/{id}/deduct-once
    injectFault, injectRestore,          \* open fault-injection transaction
    failures, operatorCalls              \* how much of the bounds is used

orderVars     == <<orderStatus, orderVersion, history>>
inventoryVars == <<stock, deducted, deductionKey, consumed>>
groupVars     == <<lastDelivered, pel>>
pubVars       == <<pubPc, pubBatch, pubEvent>>
conVars       == <<conPc, conBatch>>
deductVars    == <<deductPc, deductItems, deductKey>>
injectVars    == <<injectFault, injectRestore>>
boundVars     == <<failures, operatorCalls>>

vars == <<orderVars, payments, outbox, inventoryVars, faults, stream, groupVars,
          pubVars, retryOutboxPc, conVars, retryEventPc, deductVars, injectVars,
          boundVars>>

-----------------------------------------------------------------------------
OrderSkus(o) == {s \in Skus : Items[o][s] > 0}

NoItems == [s \in Skus |-> 0]

\* The order an event is about (aggregate_id in its payload).
EventOrder(e) == payments[e]

\* Entries the group has acknowledged.
Acked == (1 .. lastDelivered) \ pel

\* A stock row is locked by a fault injection that has updated it and has
\* not committed.
StockLocked(s) == \E o \in Orders : injectFault[o] # None /\ injectRestore[o][s] > 0

\* UPDATE agent.demo_faults SET enabled = false WHERE the fault is in kinds.
ClearFault(o, kinds) ==
    faults' = IF faults[o] \in kinds THEN [faults EXCEPT ![o] = None] ELSE faults

Disrupt(kind) ==
    /\ kind \in Disruptions
    /\ failures + operatorCalls < MaxDisturbances
    /\ failures < MaxFailures
    /\ failures' = failures + 1
    /\ UNCHANGED operatorCalls

OperatorCall ==
    /\ failures + operatorCalls < MaxDisturbances
    /\ operatorCalls < MaxOperatorCalls
    /\ operatorCalls' = operatorCalls + 1
    /\ UNCHANGED failures

-----------------------------------------------------------------------------
TypeOK ==
    /\ orderStatus \in [Orders -> {"ABSENT", "PENDING_PAYMENT", "PAID"}]
    /\ orderVersion \in [Orders -> Nat]
    /\ history \in [Orders -> Seq({"PENDING_PAYMENT", "PAID"})]
    /\ payments \in [Payments -> Orders \cup {None}]
    /\ outbox \in [Payments -> {"ABSENT", "PENDING", "PUBLISHED"}]
    /\ stock \in [Skus -> Nat]
    /\ deducted \in [Orders -> [Skus -> Nat]]
    /\ deductionKey \in [Orders -> [Skus -> Keys \cup {None}]]
    /\ consumed \in [Payments -> Nat]
    /\ faults \in [Orders -> FaultTypes \cup {None}]
    /\ stream \in Seq(Payments)
    /\ lastDelivered \in 0 .. Len(stream)
    /\ pel \subseteq 1 .. lastDelivered
    /\ pubPc \in {"idle", "check", "publish", "mark"}
    /\ pubBatch \subseteq Payments
    /\ pubEvent \in Payments \cup {None}
    /\ retryOutboxPc \in [Payments -> {"idle", "loaded", "cleared", "sent"}]
    /\ conPc \in {"down", "dead", "poll", "check", "commit", "ack"}
    /\ conBatch \subseteq 1 .. lastDelivered
    /\ retryEventPc \in [Payments -> {"idle", "loaded", "consumed"}]
    /\ deductPc \in [Orders -> {"idle", "cleared", "checked"}]
    /\ deductItems \in [Orders -> [Skus -> Nat]]
    /\ deductKey \in [Orders -> RequestKeys \cup {None}]
    /\ injectFault \in [Orders -> FaultTypes \cup {None}]
    /\ injectRestore \in [Orders -> [Skus -> Nat]]
    /\ failures \in 0 .. MaxFailures
    /\ operatorCalls \in 0 .. MaxOperatorCalls

\* Fresh databases: migrations applied, stock seeded, no order, empty stream.
Init ==
    /\ orderStatus = [o \in Orders |-> "ABSENT"]
    /\ orderVersion = [o \in Orders |-> 0]
    /\ history = [o \in Orders |-> <<>>]
    /\ payments = [p \in Payments |-> None]
    /\ outbox = [e \in Payments |-> "ABSENT"]
    /\ stock = InitialStock
    /\ deducted = [o \in Orders |-> NoItems]
    /\ deductionKey = [o \in Orders |-> [s \in Skus |-> None]]
    /\ consumed = [e \in Payments |-> 0]
    /\ faults = [o \in Orders |-> None]
    /\ stream = <<>>
    /\ lastDelivered = 0
    /\ pel = {}
    /\ pubPc = "idle" /\ pubBatch = {} /\ pubEvent = None
    /\ retryOutboxPc = [e \in Payments |-> "idle"]
    /\ conPc = "down" /\ conBatch = {}
    /\ retryEventPc = [e \in Payments |-> "idle"]
    /\ deductPc = [o \in Orders |-> "idle"]
    /\ deductItems = [o \in Orders |-> NoItems]
    /\ deductKey = [o \in Orders |-> None]
    /\ injectFault = [o \in Orders |-> None]
    /\ injectRestore = [o \in Orders |-> NoItems]
    /\ failures = 0 /\ operatorCalls = 0
=============================================================================
