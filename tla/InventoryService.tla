-------------------------- MODULE InventoryService --------------------------
(***************************************************************************)
(* internal/inventory and the consumer side of internal/eventbus: the      *)
(* stream consumer goroutine, the consume transaction it shares with       *)
(* RetryEvent, and deduct-once.                                            *)
(*                                                                         *)
(* consume is one step: an advisory lock on the event id and FOR UPDATE on *)
(* the stock rows serialize it against itself, deduct-once and the demo    *)
(* reset.  The fault check before it, and the statements after it, are     *)
(* steps of their own.                                                     *)
(***************************************************************************)
EXTENDS PipelineState

-----------------------------------------------------------------------------
(* The consume transaction                                                 *)

RowsFree(items) == \A s \in Skus : items[s] > 0 => ~StockLocked(s)

\* Mutated form, for the check that a property can fail: stock is
\* not checked.
CanDeductUnchecked(o, items, key) ==
    \A s \in Skus : items[s] > 0 =>
        /\ deducted[o][s] = 0
        /\ \A o2 \in Orders : deducted[o2][s] > 0 => deductionKey[o2][s] # key

\* Mutated form: (order, sku) is not unique.
CanDeductAgain(o, items, key) ==
    \A s \in Skus : items[s] > 0 =>
        /\ stock[s] >= items[s]
        /\ \A o2 \in Orders : deducted[o2][s] > 0 => deductionKey[o2][s] # key

\* Every row has the quantity, no (order, sku) row exists, and no other row
\* has the idempotency key: the check and the two unique constraints.
CanDeduct(o, items, key) ==
    \A s \in Skus : items[s] > 0 =>
        /\ stock[s] >= items[s]
        /\ deducted[o][s] = 0
        /\ \A o2 \in Orders : deducted[o2][s] > 0 => deductionKey[o2][s] # key

Deduct(o, items, key) ==
    /\ stock' = [s \in Skus |-> stock[s] - items[s]]
    /\ deducted' = [deducted EXCEPT ![o] = [s \in Skus |-> @[s] + items[s]]]
    /\ deductionKey' = [deductionKey EXCEPT ![o] =
                            [s \in Skus |-> IF items[s] > 0 THEN key ELSE @[s]]]

\* Mutated form: the event is recorded even if a sku was short, and the
\* skus there were are deducted.
ConsumeWhatThereIs(e) ==
    LET o == EventOrder(e)
        some == [s \in Skus |-> IF stock[s] >= Items[o][s] THEN Items[o][s] ELSE 0]
    IN  IF consumed[e] > 0
        THEN /\ consumed' = [consumed EXCEPT ![e] = @ + 1]
             /\ UNCHANGED <<stock, deducted, deductionKey>>
        ELSE /\ RowsFree(Items[o])
             /\ CanDeduct(o, some, e)
             /\ Deduct(o, some, e)
             /\ consumed' = [consumed EXCEPT ![e] = 1]

\* Mutated form: the deduction is committed without its consumed_events row.
ConsumeUnrecorded(e) ==
    IF consumed[e] > 0
    THEN /\ consumed' = [consumed EXCEPT ![e] = @ + 1]
         /\ UNCHANGED <<stock, deducted, deductionKey>>
    ELSE /\ RowsFree(Items[EventOrder(e)])
         /\ CanDeduct(EventOrder(e), Items[EventOrder(e)], e)
         /\ Deduct(EventOrder(e), Items[EventOrder(e)], e)
         /\ UNCHANGED consumed

\* A consumed event only counts the delivery; a fresh one deducts every item
\* of the order and records the event.
ConsumeEvent(e) ==
    IF consumed[e] > 0
    THEN /\ consumed' = [consumed EXCEPT ![e] = @ + 1]
         /\ UNCHANGED <<stock, deducted, deductionKey>>
    ELSE /\ RowsFree(Items[EventOrder(e)])
         /\ CanDeduct(EventOrder(e), Items[EventOrder(e)], e)
         /\ Deduct(EventOrder(e), Items[EventOrder(e)], e)
         /\ consumed' = [consumed EXCEPT ![e] = 1]

\* Mutated form: no transaction, the stock updates before the error stay.
RejectedKeepsStock(e) ==
    LET items == Items[EventOrder(e)]
    IN  /\ consumed[e] = 0
        /\ RowsFree(items)
        /\ ~CanDeduct(EventOrder(e), items, e)
        /\ stock' = [s \in Skus |-> IF stock[s] >= items[s] THEN stock[s] - items[s]
                                                            ELSE stock[s]]
        /\ UNCHANGED <<deducted, deductionKey, consumed>>

\* The transaction rolls back: too little stock or a unique constraint.
ConsumeRejected(e) ==
    /\ consumed[e] = 0
    /\ RowsFree(Items[EventOrder(e)])
    /\ ~CanDeduct(EventOrder(e), Items[EventOrder(e)], e)
    /\ UNCHANGED inventoryVars

-----------------------------------------------------------------------------
(* The consumer goroutine (Consumer.Run)                                   *)

\* Messages are processed in stream order.
Current(m) == m \in conBatch /\ \A k \in conBatch : m <= k

\* Done with message m, acknowledged or not.
ConsumerDone(m) ==
    /\ conBatch' = conBatch \ {m}
    /\ conPc' = IF conBatch = {m} THEN "poll" ELSE "check"

\* The goroutine starts: EnsureGroup succeeds, whether or not the group
\* exists; a new group starts at entry 0.
ConsumerStart ==
    /\ conPc = "down"
    /\ conPc' = "poll"
    /\ UNCHANGED <<orderVars, payments, outbox, inventoryVars, faults, stream,
                   groupVars, pubVars, retryOutboxPc, conBatch, retryEventPc,
                   deductVars, injectVars, boundVars>>

\* Mutated form: read with NOACK, so nothing becomes pending.
ReadNoAck ==
    LET last == IF Len(stream) < lastDelivered + ReadCount
                THEN Len(stream)
                ELSE lastDelivered + ReadCount
    IN  /\ conPc = "poll"
        /\ lastDelivered < Len(stream)
        /\ lastDelivered' = last
        /\ conBatch' = (lastDelivered + 1) .. last
        /\ conPc' = "check"
        /\ UNCHANGED <<orderVars, payments, outbox, inventoryVars, faults, stream, pel,
                       pubVars, retryOutboxPc, retryEventPc, deductVars, injectVars,
                       boundVars>>

\* XREADGROUP ">": up to ReadCount undelivered entries become pending.
ReadNew ==
    LET last == IF Len(stream) < lastDelivered + ReadCount
                THEN Len(stream)
                ELSE lastDelivered + ReadCount
    IN  /\ conPc = "poll"
        /\ lastDelivered < Len(stream)
        /\ lastDelivered' = last
        /\ pel' = pel \cup ((lastDelivered + 1) .. last)
        /\ conBatch' = (lastDelivered + 1) .. last
        /\ conPc' = "check"
        /\ UNCHANGED <<orderVars, payments, outbox, inventoryVars, faults, stream,
                       pubVars, retryOutboxPc, retryEventPc, deductVars, injectVars,
                       boundVars>>

\* XAUTOCLAIM, tried when there was nothing new: takes over pending entries
\* that have been idle for 30s. Time is left out, so any of them may be.
ClaimPending(batch) ==
    /\ conPc = "poll"
    /\ lastDelivered = Len(stream)
    /\ batch # {}
    /\ conBatch' = batch
    /\ conPc' = "check"
    /\ UNCHANGED <<orderVars, payments, outbox, inventoryVars, faults, stream,
                   groupVars, pubVars, retryOutboxPc, retryEventPc, deductVars,
                   injectVars, boundVars>>

Claimable == {batch \in SUBSET pel : Cardinality(batch) <= ReadCount}

\* The demo faults are read before the transaction; the message is skipped
\* and stays pending.
ConsumerCheck(m) ==
    /\ conPc = "check"
    /\ Current(m)
    /\ IF faults[EventOrder(stream[m])] \in ConsumerFaults
       THEN ConsumerDone(m)
       ELSE conPc' = "commit" /\ UNCHANGED conBatch
    /\ UNCHANGED <<orderVars, payments, outbox, inventoryVars, faults, stream,
                   groupVars, pubVars, retryOutboxPc, retryEventPc, deductVars,
                   injectVars, boundVars>>

\* Mutated form: a message is acknowledged even if its transaction failed.
AckAnyway(m) ==
    /\ conPc = "commit"
    /\ Current(m)
    /\ ConsumeEvent(stream[m]) \/ ConsumeRejected(stream[m])
    /\ conPc' = "ack"
    /\ UNCHANGED conBatch
    /\ UNCHANGED <<orderVars, payments, outbox, faults, stream, groupVars, pubVars,
                   retryOutboxPc, retryEventPc, deductVars, injectVars, boundVars>>

ConsumerCommit(m) ==
    /\ conPc = "commit"
    /\ Current(m)
    /\ \/ ConsumeEvent(stream[m]) /\ conPc' = "ack" /\ UNCHANGED conBatch
       \/ ConsumeRejected(stream[m]) /\ ConsumerDone(m)
    /\ UNCHANGED <<orderVars, payments, outbox, faults, stream, groupVars, pubVars,
                   retryOutboxPc, retryEventPc, deductVars, injectVars, boundVars>>

ConsumerAck(m) ==
    /\ conPc = "ack"
    /\ Current(m)
    /\ pel' = pel \ {m}
    /\ ConsumerDone(m)
    /\ UNCHANGED <<orderVars, payments, outbox, inventoryVars, faults, stream,
                   lastDelivered, pubVars, retryOutboxPc, retryEventPc, deductVars,
                   injectVars, boundVars>>

\* PostgreSQL fails: the message is skipped and stays pending. Before the
\* acknowledgement it is a commit whose answer was lost.
ConsumerSkips(m) ==
    /\ Disrupt("consumer_db")
    /\ conPc \in {"check", "commit", "ack"}
    /\ Current(m)
    /\ ConsumerDone(m)
    /\ UNCHANGED <<orderVars, payments, outbox, inventoryVars, faults, stream,
                   groupVars, pubVars, retryOutboxPc, retryEventPc, deductVars,
                   injectVars>>

\* A Redis error of EnsureGroup, a read or an acknowledgement ends Run, and
\* the service goes on without its consumer. In "check" it is a read or an
\* acknowledgement that was done and whose answer was lost.
ConsumerDies ==
    /\ Disrupt("consumer_redis")
    /\ conPc \in {"down", "poll", "check", "ack"}
    /\ conPc' = "dead" /\ conBatch' = {}
    /\ UNCHANGED <<orderVars, payments, outbox, inventoryVars, faults, stream,
                   groupVars, pubVars, retryOutboxPc, retryEventPc, deductVars,
                   injectVars>>

ConsumerStep ==
    \/ ReadNew
    \/ \E m \in conBatch : ConsumerCheck(m) \/ ConsumerCommit(m) \/ ConsumerAck(m)

-----------------------------------------------------------------------------
(* POST /inventory/events/{id}/redeliver (RetryEvent)                      *)

RetryEventLoad(e) ==
    /\ OperatorCall
    /\ retryEventPc[e] = "idle"
    /\ outbox[e] # "ABSENT"
    /\ retryEventPc' = [retryEventPc EXCEPT ![e] = "loaded"]
    /\ UNCHANGED <<orderVars, payments, outbox, inventoryVars, faults, stream,
                   groupVars, pubVars, retryOutboxPc, conVars, deductVars, injectVars>>

\* GET /inventory/{id}/reconcile (ReconcileOrder): RetryEvent of the order's
\* latest outbox row. An order has one payment, so at most one row.
Reconcile(o) == \E e \in Payments : payments[e] = o /\ RetryEventLoad(e)

\* consume with the demo faults bypassed.
RetryEventConsume(e) ==
    /\ retryEventPc[e] = "loaded"
    /\ \/ /\ ConsumeEvent(e)
          /\ retryEventPc' = [retryEventPc EXCEPT ![e] = "consumed"]
       \/ /\ ConsumeRejected(e)
          /\ retryEventPc' = [retryEventPc EXCEPT ![e] = "idle"]
    /\ UNCHANGED <<orderVars, payments, outbox, faults, stream, groupVars, pubVars,
                   retryOutboxPc, conVars, deductVars, injectVars, boundVars>>

RetryEventClear(e) ==
    /\ retryEventPc[e] = "consumed"
    /\ retryEventPc' = [retryEventPc EXCEPT ![e] = "idle"]
    /\ ClearFault(EventOrder(e), ReplayFaults)
    /\ UNCHANGED <<orderVars, payments, outbox, inventoryVars, stream, groupVars,
                   pubVars, retryOutboxPc, conVars, deductVars, injectVars, boundVars>>

RetryEventFails(e) ==
    /\ Disrupt("retry_event")
    /\ retryEventPc[e] # "idle"
    /\ retryEventPc' = [retryEventPc EXCEPT ![e] = "idle"]
    /\ UNCHANGED <<orderVars, payments, outbox, inventoryVars, faults, stream,
                   groupVars, pubVars, retryOutboxPc, conVars, deductVars, injectVars>>

-----------------------------------------------------------------------------
(* POST /inventory/{id}/deduct-once (DeductOnce)                           *)

\* The demo switch is cleared first, in a statement of its own.
DeductOnceStart(o) ==
    /\ OperatorCall
    /\ deductPc[o] = "idle"
    /\ \E items \in DeductRequests[o], key \in RequestKeys :
          /\ deductItems' = [deductItems EXCEPT ![o] = items]
          /\ deductKey' = [deductKey EXCEPT ![o] = key]
    /\ deductPc' = [deductPc EXCEPT ![o] = "cleared"]
    /\ ClearFault(o, {"INVENTORY_DEDUCTION_NOT_PERSISTED"})
    /\ UNCHANGED <<orderVars, payments, outbox, inventoryVars, stream, groupVars,
                   pubVars, retryOutboxPc, conVars, retryEventPc, injectVars>>

DeductOnceReturn(o) ==
    /\ deductPc' = [deductPc EXCEPT ![o] = "idle"]
    /\ deductItems' = [deductItems EXCEPT ![o] = NoItems]
    /\ deductKey' = [deductKey EXCEPT ![o] = None]

\* Mutated form: order and payment are not checked again.
DeductUnpaid(o) ==
    /\ deductPc[o] = "cleared"
    /\ IF deducted[o] = NoItems
       THEN /\ deductPc' = [deductPc EXCEPT ![o] = "checked"]
            /\ UNCHANGED <<deductItems, deductKey>>
       ELSE DeductOnceReturn(o)
    /\ UNCHANGED <<orderVars, payments, outbox, inventoryVars, faults, stream,
                   groupVars, pubVars, retryOutboxPc, conVars, retryEventPc,
                   injectVars, boundVars>>

\* Locks the order row, requires it PAID with a payment and counts its
\* deductions. The consume transaction takes no lock on the order row, so it
\* may commit before this one does.
DeductOnceCheck(o) ==
    /\ deductPc[o] = "cleared"
    /\ IF /\ orderStatus[o] = "PAID"
          /\ \E p \in Payments : payments[p] = o
          /\ deducted[o] = NoItems
       THEN /\ deductPc' = [deductPc EXCEPT ![o] = "checked"]
            /\ UNCHANGED <<deductItems, deductKey>>
       ELSE DeductOnceReturn(o)
    /\ UNCHANGED <<orderVars, payments, outbox, inventoryVars, faults, stream,
                   groupVars, pubVars, retryOutboxPc, conVars, retryEventPc,
                   injectVars, boundVars>>

DeductOnceCommit(o) ==
    /\ deductPc[o] = "checked"
    /\ RowsFree(deductItems[o])
    /\ IF CanDeduct(o, deductItems[o], deductKey[o])
       THEN Deduct(o, deductItems[o], deductKey[o])
       ELSE UNCHANGED <<stock, deducted, deductionKey>>
    /\ DeductOnceReturn(o)
    /\ UNCHANGED <<orderVars, payments, outbox, consumed, faults, stream, groupVars,
                   pubVars, retryOutboxPc, conVars, retryEventPc, injectVars,
                   boundVars>>

\* The inventory service stops; transactions and calls in progress are lost.
\* Compose restarts it (restart: unless-stopped), which is ConsumerStart.
InventoryCrash ==
    /\ Disrupt("inventory_crash")
    /\ conPc' = "down" /\ conBatch' = {}
    /\ retryEventPc' = [e \in Payments |-> "idle"]
    /\ deductPc' = [o \in Orders |-> "idle"]
    /\ deductItems' = [o \in Orders |-> NoItems]
    /\ deductKey' = [o \in Orders |-> None]
    /\ UNCHANGED <<orderVars, payments, outbox, inventoryVars, faults, stream,
                   groupVars, pubVars, retryOutboxPc, injectVars>>

InventoryNext ==
    \/ ConsumerStart
    \/ ConsumerStep
    \/ \E batch \in Claimable : ClaimPending(batch)
    \/ \E m \in conBatch : ConsumerSkips(m)
    \/ ConsumerDies
    \/ \E e \in Payments :
          \/ RetryEventLoad(e) \/ RetryEventConsume(e) \/ RetryEventClear(e)
          \/ RetryEventFails(e)
    \/ \E o \in Orders :
          \/ Reconcile(o)
          \/ DeductOnceStart(o) \/ DeductOnceCheck(o) \/ DeductOnceCommit(o)
    \/ InventoryCrash
=============================================================================
