--------------------------- MODULE PaymentService ---------------------------
(***************************************************************************)
(* internal/order and internal/payment: order creation, payment, the       *)
(* outbox publisher goroutine and the two outbox repair endpoints.         *)
(*                                                                         *)
(* A PostgreSQL transaction is one step: the transactions of these         *)
(* services that touch the same rows lock them first (FOR UPDATE, the row  *)
(* lock of an UPDATE, a unique index).  A handler that does several        *)
(* round trips (publish, then update) is one step per round trip.          *)
(***************************************************************************)
EXTENDS PipelineState

-----------------------------------------------------------------------------
(* Order and payment transactions                                          *)

\* order.Repository.Create: the row, its items and the first history entry.
CreateOrder(o) ==
    /\ orderStatus[o] = "ABSENT"
    /\ orderStatus' = [orderStatus EXCEPT ![o] = "PENDING_PAYMENT"]
    /\ orderVersion' = [orderVersion EXCEPT ![o] = 1]
    /\ history' = [history EXCEPT ![o] = <<"PENDING_PAYMENT">>]
    /\ UNCHANGED <<payments, outbox, inventoryVars, faults, stream, groupVars,
                   pubVars, retryOutboxPc, conVars, retryEventPc, deductVars,
                   injectVars, boundVars>>

\* Mutated form, for the check that a property can fail: no look
\* for an existing payment and no check of the order's status.
PayTwice(o, p) ==
    /\ orderStatus[o] # "ABSENT"
    /\ payments[p] = None
    /\ payments' = [payments EXCEPT ![p] = o]
    /\ orderStatus' = [orderStatus EXCEPT ![o] = "PAID"]
    /\ orderVersion' = [orderVersion EXCEPT ![o] = @ + 1]
    /\ history' = [history EXCEPT ![o] = Append(@, "PAID")]
    /\ outbox' = [outbox EXCEPT ![p] = "PENDING"]
    /\ UNCHANGED <<inventoryVars, faults, stream, groupVars, pubVars, retryOutboxPc,
                   conVars, retryEventPc, deductVars, injectVars, boundVars>>

\* Repository.Pay with the right amount and a payment id no row has. The
\* other outcomes (paid already: the existing payment is returned; wrong
\* amount, unknown order, id in use: an error) change nothing.
Pay(o, p) ==
    /\ orderStatus[o] = "PENDING_PAYMENT"
    /\ \A q \in Payments : payments[q] # o
    /\ payments[p] = None
    /\ payments' = [payments EXCEPT ![p] = o]
    /\ orderStatus' = [orderStatus EXCEPT ![o] = "PAID"]
    /\ orderVersion' = [orderVersion EXCEPT ![o] = @ + 1]
    /\ history' = [history EXCEPT ![o] = Append(@, "PAID")]
    /\ outbox' = IF faults[o] = "OUTBOX_NOT_CREATED"
                 THEN outbox
                 ELSE [outbox EXCEPT ![p] = "PENDING"]
    /\ UNCHANGED <<inventoryVars, faults, stream, groupVars, pubVars, retryOutboxPc,
                   conVars, retryEventPc, deductVars, injectVars, boundVars>>

-----------------------------------------------------------------------------
(* The publisher goroutine (publishOutbox, PublishPending)                 *)

\* The rest of PublishPending after event e is done with.
PublisherDone(e) ==
    /\ pubBatch' = pubBatch \ {e}
    /\ pubPc' = IF pubBatch = {e} THEN "idle" ELSE "check"
    /\ pubEvent' = None

\* Mutated form, for the check that a property can fail: a row
\* whose event was already published is not read again.
PendingUnsent == {e \in Payments : outbox[e] = "PENDING" /\ \A m \in 1 .. Len(stream) : stream[m] # e}

PendingOutbox == {e \in Payments : outbox[e] = "PENDING"}

\* A tick reads the pending rows.
PublisherPoll ==
    /\ pubPc = "idle"
    /\ PendingOutbox # {}
    /\ pubBatch' = PendingOutbox
    /\ pubPc' = "check"
    /\ UNCHANGED <<orderVars, payments, outbox, inventoryVars, faults, stream,
                   groupVars, pubEvent, retryOutboxPc, conVars, retryEventPc,
                   deductVars, injectVars, boundVars>>

\* Mutated form, for the check that a property can fail: the row
\* is marked before the event is published.
MarkBeforePublish(e) ==
    /\ pubPc = "check"
    /\ e \in pubBatch
    /\ pubEvent' = e
    /\ pubPc' = "mark"
    /\ UNCHANGED <<orderVars, payments, outbox, inventoryVars, faults, stream,
                   groupVars, pubBatch, retryOutboxPc, conVars, retryEventPc,
                   deductVars, injectVars, boundVars>>

\* The demo switch is read before the publish, in a statement of its own.
PublisherCheck(e) ==
    /\ pubPc = "check"
    /\ e \in pubBatch
    /\ IF faults[EventOrder(e)] \in PublishFaults
       THEN PublisherDone(e)
       ELSE /\ pubEvent' = e
            /\ pubPc' = "publish"
            /\ UNCHANGED pubBatch
    /\ UNCHANGED <<orderVars, payments, outbox, inventoryVars, faults, stream,
                   groupVars, retryOutboxPc, conVars, retryEventPc, deductVars,
                   injectVars, boundVars>>

PublisherSend ==
    /\ pubPc = "publish"
    /\ stream' = Append(stream, pubEvent)
    /\ pubPc' = "mark"
    /\ UNCHANGED <<orderVars, payments, outbox, inventoryVars, faults, groupVars,
                   pubBatch, pubEvent, retryOutboxPc, conVars, retryEventPc,
                   deductVars, injectVars, boundVars>>

\* UPDATE ... WHERE event_id = $1 AND publish_status = 'PENDING'.
PublisherMark ==
    /\ pubPc = "mark"
    /\ outbox' = IF outbox[pubEvent] = "PENDING"
                 THEN [outbox EXCEPT ![pubEvent] = "PUBLISHED"]
                 ELSE outbox
    /\ PublisherDone(pubEvent)
    /\ UNCHANGED <<orderVars, payments, inventoryVars, faults, stream, groupVars,
                   retryOutboxPc, conVars, retryEventPc, deductVars, injectVars,
                   boundVars>>

\* Any error of the check, the publish or the update abandons the batch.
\* After PublisherSend it is a publish or an update whose answer was lost.
PublisherFails ==
    /\ Disrupt("publisher")
    /\ pubPc # "idle"
    /\ pubPc' = "idle" /\ pubBatch' = {} /\ pubEvent' = None
    /\ UNCHANGED <<orderVars, payments, outbox, inventoryVars, faults, stream,
                   groupVars, retryOutboxPc, conVars, retryEventPc, deductVars,
                   injectVars>>

PublisherStep ==
    \/ PublisherPoll
    \/ \E e \in Payments : PublisherCheck(e)
    \/ PublisherSend
    \/ PublisherMark

-----------------------------------------------------------------------------
(* POST /outbox/{id}/retry (RetryOutbox): load, clear the demo switch,     *)
(* publish, mark                                                           *)

RetryOutboxLoad(e) ==
    /\ OperatorCall
    /\ retryOutboxPc[e] = "idle"
    /\ outbox[e] # "ABSENT"
    /\ retryOutboxPc' = [retryOutboxPc EXCEPT ![e] = "loaded"]
    /\ UNCHANGED <<orderVars, payments, outbox, inventoryVars, faults, stream,
                   groupVars, pubVars, conVars, retryEventPc, deductVars, injectVars>>

\* Mutated form, for the check that a property can fail: the retry
\* only clears the switch and marks the row.
RetryMarksOnly(e) ==
    /\ retryOutboxPc[e] = "loaded"
    /\ ClearFault(EventOrder(e), PublishFaults)
    /\ retryOutboxPc' = [retryOutboxPc EXCEPT ![e] = "sent"]
    /\ UNCHANGED <<orderVars, payments, outbox, inventoryVars, stream, groupVars,
                   pubVars, conVars, retryEventPc, deductVars, injectVars, boundVars>>

RetryOutboxClear(e) ==
    /\ retryOutboxPc[e] = "loaded"
    /\ ClearFault(EventOrder(e), PublishFaults)
    /\ retryOutboxPc' = [retryOutboxPc EXCEPT ![e] = "cleared"]
    /\ UNCHANGED <<orderVars, payments, outbox, inventoryVars, stream, groupVars,
                   pubVars, conVars, retryEventPc, deductVars, injectVars, boundVars>>

RetryOutboxSend(e) ==
    /\ retryOutboxPc[e] = "cleared"
    /\ stream' = Append(stream, e)
    /\ retryOutboxPc' = [retryOutboxPc EXCEPT ![e] = "sent"]
    /\ UNCHANGED <<orderVars, payments, outbox, inventoryVars, faults, groupVars,
                   pubVars, conVars, retryEventPc, deductVars, injectVars, boundVars>>

\* UPDATE ... WHERE event_id = $1: whatever the status; the row may be gone.
RetryOutboxMark(e) ==
    /\ retryOutboxPc[e] = "sent"
    /\ outbox' = IF outbox[e] # "ABSENT"
                 THEN [outbox EXCEPT ![e] = "PUBLISHED"]
                 ELSE outbox
    /\ retryOutboxPc' = [retryOutboxPc EXCEPT ![e] = "idle"]
    /\ UNCHANGED <<orderVars, payments, inventoryVars, faults, stream, groupVars,
                   pubVars, conVars, retryEventPc, deductVars, injectVars, boundVars>>

\* The error of the clearing statement is discarded: the call goes on.
RetryOutboxClearFails(e) ==
    /\ Disrupt("retry_outbox")
    /\ retryOutboxPc[e] = "loaded"
    /\ retryOutboxPc' = [retryOutboxPc EXCEPT ![e] = "cleared"]
    /\ UNCHANGED <<orderVars, payments, outbox, inventoryVars, faults, stream,
                   groupVars, pubVars, conVars, retryEventPc, deductVars, injectVars>>

\* Redis or PostgreSQL fails, or the client goes away: the call returns.
RetryOutboxFails(e) ==
    /\ Disrupt("retry_outbox")
    /\ retryOutboxPc[e] \in {"cleared", "sent"}
    /\ retryOutboxPc' = [retryOutboxPc EXCEPT ![e] = "idle"]
    /\ UNCHANGED <<orderVars, payments, outbox, inventoryVars, faults, stream,
                   groupVars, pubVars, conVars, retryEventPc, deductVars, injectVars>>

-----------------------------------------------------------------------------
\* POST /outbox/orders/{id}/rebuild (RebuildOutbox): one transaction.
RebuildOutbox(o) ==
    /\ OperatorCall
    /\ \E p \in Payments :
          /\ payments[p] = o
          /\ outbox' = IF outbox[p] = "ABSENT"
                       THEN [outbox EXCEPT ![p] = "PENDING"]
                       ELSE outbox
    /\ ClearFault(o, {"OUTBOX_NOT_CREATED"})
    /\ UNCHANGED <<orderVars, payments, inventoryVars, stream, groupVars, pubVars,
                   retryOutboxPc, conVars, retryEventPc, deductVars, injectVars>>

\* The payment service restarts: its goroutine and its calls are gone.
PaymentCrash ==
    /\ Disrupt("payment_crash")
    /\ pubPc' = "idle" /\ pubBatch' = {} /\ pubEvent' = None
    /\ retryOutboxPc' = [e \in Payments |-> "idle"]
    /\ UNCHANGED <<orderVars, payments, outbox, inventoryVars, faults, stream,
                   groupVars, conVars, retryEventPc, deductVars, injectVars>>

PaymentNext ==
    \/ \E o \in Orders : CreateOrder(o) \/ RebuildOutbox(o)
    \/ \E o \in Orders, p \in Payments : Pay(o, p)
    \/ PublisherStep
    \/ PublisherFails
    \/ \E e \in Payments :
          \/ RetryOutboxLoad(e) \/ RetryOutboxClear(e) \/ RetryOutboxSend(e)
          \/ RetryOutboxMark(e) \/ RetryOutboxClearFails(e) \/ RetryOutboxFails(e)
    \/ PaymentCrash
=============================================================================
