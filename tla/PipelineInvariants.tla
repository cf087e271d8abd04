------------------------- MODULE PipelineInvariants -------------------------
(***************************************************************************)
(* The inductive strengthenings the proofs about OrderPipeline need: what  *)
(* is known of an event a goroutine or a handler holds between two of its  *)
(* steps.                                                                  *)
(***************************************************************************)
EXTENDS OrderPipeline

-----------------------------------------------------------------------------
(* With or without fault injection                                         *)

\* The publisher holds an event exactly between its check and its update.
PublisherHoldsEvent == pubPc \in {"publish", "mark"} <=> pubEvent # None

\* Somebody holds event e: a table, the publisher or a handler.
Known(e) ==
    \/ outbox[e] # "ABSENT"
    \/ consumed[e] > 0
    \/ e \in pubBatch
    \/ e = pubEvent
    \/ retryOutboxPc[e] # "idle"
    \/ retryEventPc[e] # "idle"

EventsArePaid ==
    /\ \A e \in Payments : Known(e) => payments[e] # None
    /\ \A m \in 1 .. Len(stream) : payments[stream[m]] # None

\* deduct-once holds its idempotency key until it returns.
DeductHoldsKey == \A o \in Orders : deductPc[o] # "idle" => deductKey[o] # None

TypedInv == TypeOK /\ PublisherHoldsEvent /\ EventsArePaid /\ DeductHoldsKey

\* A handler that is about to mark an event PUBLISHED has sent it.
MarkedIsSent ==
    /\ pubPc = "mark" => OnStream(pubEvent)
    /\ \A e \in Payments : retryOutboxPc[e] = "sent" => OnStream(e)

PublishInv == TypedInv /\ PublishedIsOnStream /\ MarkedIsSent

\* deduct-once has seen the order paid before it deducts.
CheckedIsPaid == \A o \in Orders : deductPc[o] = "checked" => orderStatus[o] = "PAID"

DeductedIsPaid == \A o \in Orders : deducted[o] # NoItems => orderStatus[o] = "PAID"

PaidInv == TypedInv /\ OrderLedgerAgrees /\ DeductedIsPaid /\ CheckedIsPaid

DeductionInv == TypedInv /\ EventDeductionIsRecorded

-----------------------------------------------------------------------------
(* Without fault injection (InjectableFaults = {})                         *)

\* No switch is set and no injection is open.
NoFaults == \A o \in Orders : faults[o] = None /\ injectFault[o] = None

\* Every payment keeps its outbox row.
PaidHasRow == \A e \in Payments : payments[e] # None => outbox[e] # "ABSENT"

\* What is acknowledged, and what is about to be, has been consumed.
AckedIsConsumed == \A m \in Acked : consumed[stream[m]] > 0

CommittedIsConsumed ==
    conPc = "ack" => \A m \in conBatch : Current(m) => consumed[stream[m]] > 0

DeliveryInv ==
    PublishInv /\ NoFaults /\ PaidHasRow /\ AckedIsConsumed /\ CommittedIsConsumed

\* What the consumer works on is pending, and the entry it is about to
\* acknowledge has a delivery that no acknowledged entry accounts for.
BatchIsPending == conBatch \subseteq pel

CommitIsCounted ==
    conPc = "ack" =>
        \A m \in conBatch :
            Current(m) => consumed[stream[m]] > Cardinality(AckedOf(stream[m]))

CountedInv == AckedDeliveriesCounted /\ BatchIsPending /\ CommitIsCounted

OnceInv == TypedInv /\ NoFaults /\ ConsumedIsDeducted

-----------------------------------------------------------------------------
(* If deduct-once is also called with the order's own items only           *)

OwnItemsOnly == \A o \in Orders : DeductRequests[o] \subseteq {Items[o]}

WholeOrders ==
    /\ \A o \in Orders : deducted[o] \in {NoItems, Items[o]}
    /\ \A o \in Orders : deductPc[o] # "idle" => deductItems[o] = Items[o]

RefinementInv == PaidInv /\ NoFaults /\ WholeOrders
=============================================================================
