--------------------------- MODULE OrderPipeline ---------------------------
(***************************************************************************)
(* The business pipeline: order -> payment and outbox row -> Redis stream  *)
(* -> stock deduction, with the repair endpoints and fault injection.      *)
(***************************************************************************)
EXTENDS PaymentService, InventoryService, DemoFaults

Next ==
    \/ PaymentNext
    \/ InventoryNext
    \/ InjectNext

Spec == Init /\ [][Next]_vars

-----------------------------------------------------------------------------
(* Fairness                                                                *)

ClaimEvent(e) ==
    \E batch \in Claimable : (\E m \in batch : stream[m] = e) /\ ClaimPending(batch)

\* The 200 ms ticker and the consumer loop go on by themselves, Compose
\* restarts a stopped service, and an entry that stays pending is idle for
\* 30 s again and again while the consumer polls, so it is claimed.
Fairness ==
    /\ WF_vars(PublisherStep)
    /\ WF_vars(ConsumerStart)
    /\ WF_vars(ConsumerStep)
    /\ \A e \in Payments : SF_vars(ClaimEvent(e))

FairSpec == Spec /\ Fairness

-----------------------------------------------------------------------------
(* Safety                                                                  *)

\* The tables agree: an order is PAID exactly when it has a payment row, it
\* never has two, its version counts its history, and the history ends in
\* its status (order.Create and payment.Pay write these in one transaction).
OrderLedgerAgrees ==
    \A o \in Orders :
        /\ orderStatus[o] = "PAID" <=> \E p \in Payments : payments[p] = o
        /\ \A p, q \in Payments : payments[p] = o /\ payments[q] = o => p = q
        /\ orderVersion[o] = Len(history[o])
        /\ orderStatus[o] # "ABSENT" => history[o][orderVersion[o]] = orderStatus[o]

\* The units of s the deduction rows account for.
Units(s) == UNION {{o} \X (1 .. deducted[o][s]) : o \in Orders}

\* Stock is neither lost nor created: what left a stock row is exactly what
\* the deduction rows say, whatever is delivered twice, retried or crashes.
StockConserved == \A s \in Skus : stock[s] + Cardinality(Units(s)) = InitialStock[s]

\* Stock is deducted only for an order that was paid, and an event is on the
\* stream or consumed only if its payment was committed.
OnlyPaidIsDeducted ==
    /\ \A o \in Orders : deducted[o] # NoItems => orderStatus[o] = "PAID"
    /\ \A m \in 1 .. Len(stream) : payments[stream[m]] # None
    /\ \A e \in Payments : outbox[e] # "ABSENT" \/ consumed[e] > 0 => payments[e] # None

OnStream(e) == \E m \in 1 .. Len(stream) : stream[m] = e

\* An outbox row says PUBLISHED only if its event is on the stream: publish
\* comes before the update on both paths, also when the row is deleted,
\* rebuilt or put back to PENDING in between.
PublishedIsOnStream == \A e \in Payments : outbox[e] = "PUBLISHED" => OnStream(e)

\* Entry m is not acknowledged: not delivered yet, or pending.
Outstanding(m) == m > lastDelivered \/ m \in pel

\* A committed payment is never lost: its event waits in the outbox, or an
\* unacknowledged entry carries it, or it has been consumed.
NoLostPayment ==
    \A e \in Payments : payments[e] # None =>
        \/ outbox[e] = "PENDING"
        \/ \E m \in 1 .. Len(stream) : stream[m] = e /\ Outstanding(m)
        \/ consumed[e] > 0

AckedOf(e) == {m \in Acked : stream[m] = e}

\* The consumer acknowledges after it commits: every acknowledged entry is
\* one counted delivery of its event.
AckedDeliveriesCounted == \A e \in Payments : consumed[e] >= Cardinality(AckedOf(e))

DeductedBy(e) ==
    \A s \in OrderSkus(EventOrder(e)) :
        /\ deducted[EventOrder(e)][s] = Items[EventOrder(e)][s]
        /\ deductionKey[EventOrder(e)][s] = e

\* A consumed event has deducted every item of its order, in full, under its
\* own idempotency key: the consume transaction is all or nothing, and no
\* later delivery, retry or deduct-once changes the rows.
ConsumedIsDeducted == \A e \in Payments : consumed[e] > 0 => DeductedBy(e)

\* The other direction, also with fault injection: a deduction row written
\* for an event has its consumed_events row, and its whole order is deducted.
EventDeductionIsRecorded ==
    \A o \in Orders, s \in Skus, e \in Payments \ RequestKeys :
        deducted[o][s] > 0 /\ deductionKey[o][s] = e =>
            /\ payments[e] = o
            /\ consumed[e] > 0
            /\ DeductedBy(e)

\* A reconcile or redelivery that reports success leaves the order deducted
\* ("an actual state repair rather than a read").
RepairStep ==
    \A e \in Payments :
        retryEventPc[e] = "loaded" /\ retryEventPc'[e] = "consumed"
            => deducted'[EventOrder(e)] # NoItems

ReconcileRepairs == [][RepairStep]_vars

-----------------------------------------------------------------------------
(* Refinement                                                              *)

\* An order counts as deducted as soon as it has a deduction row.
Promise == INSTANCE ExactlyOnceDeduction
              WITH paid <- {o \in Orders : orderStatus[o] = "PAID"},
                   done <- {o \in Orders : deducted[o] # NoItems},
                   available <- stock

\* Without fault injection, and if deduct-once is called with the order's own
\* items, duplicated deliveries, retries, crashes and racing repairs are
\* stuttering steps: each order is deducted at most once, whole, after payment.
DeductsExactlyOnce == Promise!Spec

-----------------------------------------------------------------------------
(* Liveness                                                                *)

FullyDeducted(o) == \A s \in Skus : deducted[o][s] = Items[o][s]

\* A paid order is eventually deducted, across crashes, database errors and
\* lost publishes, as long as there is stock.
PaidIsDeducted == \A o \in Orders : orderStatus[o] = "PAID" ~> FullyDeducted(o)

\* A pending outbox row is eventually published.
PendingIsPublished == \A e \in Payments : outbox[e] = "PENDING" ~> outbox[e] = "PUBLISHED"

\* "Run processes new messages and the pending ones left from before a
\* restart, continuously" (inventory/consumer.go): an entry that is not
\* acknowledged is eventually consumed.
OutstandingIsConsumed ==
    \A e \in Payments :
        (\E m \in 1 .. Len(stream) : stream[m] = e /\ Outstanding(m)) ~> consumed[e] > 0
=============================================================================
