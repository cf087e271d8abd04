----------------------- MODULE EffectivelyOnceProofs -----------------------
(***************************************************************************)
(* What holds when no fault is injected: no committed payment is lost, a   *)
(* consumed event has deducted its whole order, stock is conserved and     *)
(* every acknowledged entry is a counted delivery.                         *)
(***************************************************************************)
EXTENDS PipelineProofs, FiniteSetTheorems

-----------------------------------------------------------------------------
(* No payment is lost                                                      *)

(* Without fault injection no step takes the outbox row of a committed payment
   away: PaidHasRow is inductive. *)
LEMMA RowStep ==
    ASSUME InjectableFaults = {}
    PROVE  TypedInv /\ NoFaults /\ PaidHasRow /\ [Next]_vars => NoFaults' /\ PaidHasRow'
<1> SUFFICES ASSUME InjectableFaults = {}, TypedInv, NoFaults, PaidHasRow, [Next]_vars
             PROVE  NoFaults' /\ PaidHasRow'
  OBVIOUS
<1> USE DEF TypedInv, TypeOK, NoFaults, PaidHasRow, orderVars, inventoryVars, groupVars,
            pubVars, conVars, deductVars, injectVars, boundVars
<1>1. ASSUME NEW o \in Orders, CreateOrder(o)
      PROVE  NoFaults' /\ PaidHasRow'
  BY <1>1 DEF CreateOrder
<1>2. ASSUME NEW o \in Orders, NEW p \in Payments, Pay(o, p)
      PROVE  NoFaults' /\ PaidHasRow'
  <2>1. faults[o] # "OUTBOX_NOT_CREATED"
    BY NoneAssumption DEF FaultTypes
  <2>2. outbox' = [outbox EXCEPT ![p] = "PENDING"]
    BY <1>2, <2>1 DEF Pay
  <2> QED
    BY <1>2, <2>2 DEF Pay
<1>3. ASSUME PublisherPoll
      PROVE  NoFaults' /\ PaidHasRow'
  BY <1>3 DEF PublisherPoll, PendingOutbox
<1>4. ASSUME NEW e \in Payments, PublisherCheck(e)
      PROVE  NoFaults' /\ PaidHasRow'
  BY <1>4 DEF PublisherCheck, PublisherDone
<1>5. ASSUME PublisherSend
      PROVE  NoFaults' /\ PaidHasRow'
  BY <1>5 DEF PublisherSend
<1>6. ASSUME PublisherMark
      PROVE  NoFaults' /\ PaidHasRow'
  BY <1>6 DEF PublisherMark, PublisherDone
<1>7. ASSUME PublisherFails
      PROVE  NoFaults' /\ PaidHasRow'
  BY <1>7 DEF PublisherFails
<1>8. ASSUME NEW e \in Payments, RetryOutboxLoad(e)
      PROVE  NoFaults' /\ PaidHasRow'
  BY <1>8 DEF RetryOutboxLoad
<1>9. ASSUME NEW e \in Payments, RetryOutboxClear(e)
      PROVE  NoFaults' /\ PaidHasRow'
  <2>1. faults' = faults \/ faults' = [faults EXCEPT ![EventOrder(e)] = None]
    BY <1>9 DEF RetryOutboxClear, ClearFault
  <2> QED
    BY <1>9, <2>1 DEF RetryOutboxClear
<1>10. ASSUME NEW e \in Payments, RetryOutboxSend(e)
       PROVE  NoFaults' /\ PaidHasRow'
  BY <1>10 DEF RetryOutboxSend
<1>11. ASSUME NEW e \in Payments, RetryOutboxMark(e)
       PROVE  NoFaults' /\ PaidHasRow'
  BY <1>11 DEF RetryOutboxMark
<1>12. ASSUME NEW e \in Payments, RetryOutboxClearFails(e)
       PROVE  NoFaults' /\ PaidHasRow'
  BY <1>12 DEF RetryOutboxClearFails
<1>13. ASSUME NEW e \in Payments, RetryOutboxFails(e)
       PROVE  NoFaults' /\ PaidHasRow'
  BY <1>13 DEF RetryOutboxFails
<1>14. ASSUME NEW o \in Orders, RebuildOutbox(o)
       PROVE  NoFaults' /\ PaidHasRow'
  <2>1. faults' = faults
    BY <1>14 DEF RebuildOutbox, ClearFault
  <2>2. \A e \in Payments : outbox[e] # "ABSENT" => outbox'[e] # "ABSENT"
    BY <1>14 DEF RebuildOutbox
  <2> QED
    BY <1>14, <2>1, <2>2 DEF RebuildOutbox
<1>15. ASSUME PaymentCrash
       PROVE  NoFaults' /\ PaidHasRow'
  BY <1>15 DEF PaymentCrash
<1>16. ASSUME ConsumerStart
       PROVE  NoFaults' /\ PaidHasRow'
  BY <1>16 DEF ConsumerStart
<1>17. ASSUME ReadNew
       PROVE  NoFaults' /\ PaidHasRow'
  BY <1>17 DEF ReadNew
<1>18. ASSUME NEW batch \in Claimable, ClaimPending(batch)
       PROVE  NoFaults' /\ PaidHasRow'
  BY <1>18 DEF ClaimPending
<1>19. ASSUME NEW m \in conBatch, ConsumerCheck(m)
       PROVE  NoFaults' /\ PaidHasRow'
  BY <1>19 DEF ConsumerCheck
<1>20. ASSUME NEW m \in conBatch, ConsumerCommit(m)
       PROVE  NoFaults' /\ PaidHasRow'
  BY <1>20 DEF ConsumerCommit
<1>21. ASSUME NEW m \in conBatch, ConsumerAck(m)
       PROVE  NoFaults' /\ PaidHasRow'
  BY <1>21 DEF ConsumerAck
<1>22. ASSUME NEW m \in conBatch, ConsumerSkips(m)
       PROVE  NoFaults' /\ PaidHasRow'
  BY <1>22 DEF ConsumerSkips
<1>23. ASSUME ConsumerDies
       PROVE  NoFaults' /\ PaidHasRow'
  BY <1>23 DEF ConsumerDies
<1>24. ASSUME NEW e \in Payments, RetryEventLoad(e)
       PROVE  NoFaults' /\ PaidHasRow'
  BY <1>24 DEF RetryEventLoad
<1>25. ASSUME NEW e \in Payments, RetryEventConsume(e)
       PROVE  NoFaults' /\ PaidHasRow'
  BY <1>25 DEF RetryEventConsume
<1>26. ASSUME NEW e \in Payments, RetryEventClear(e)
       PROVE  NoFaults' /\ PaidHasRow'
  <2>1. faults' = faults \/ faults' = [faults EXCEPT ![EventOrder(e)] = None]
    BY <1>26 DEF RetryEventClear, ClearFault
  <2> QED
    BY <1>26, <2>1 DEF RetryEventClear
<1>27. ASSUME NEW e \in Payments, RetryEventFails(e)
       PROVE  NoFaults' /\ PaidHasRow'
  BY <1>27 DEF RetryEventFails
<1>28. ASSUME NEW o \in Orders, DeductOnceStart(o)
       PROVE  NoFaults' /\ PaidHasRow'
  <2>1. faults' = faults \/ faults' = [faults EXCEPT ![o] = None]
    BY <1>28 DEF DeductOnceStart, ClearFault
  <2> QED
    BY <1>28, <2>1 DEF DeductOnceStart
<1>29. ASSUME NEW o \in Orders, DeductOnceCheck(o)
       PROVE  NoFaults' /\ PaidHasRow'
  BY <1>29 DEF DeductOnceCheck, DeductOnceReturn
<1>30. ASSUME NEW o \in Orders, DeductOnceCommit(o)
       PROVE  NoFaults' /\ PaidHasRow'
  BY <1>30 DEF DeductOnceCommit, DeductOnceReturn
<1>31. ASSUME InventoryCrash
       PROVE  NoFaults' /\ PaidHasRow'
  BY <1>31 DEF InventoryCrash
<1>32. ASSUME NEW o \in Orders, InjectNoIssue(o)
       PROVE  NoFaults' /\ PaidHasRow'
  BY <1>32 DEF InjectNoIssue
<1>33. ASSUME NEW o \in Orders, NEW f \in InjectableFaults, InjectStart(o, f)
       PROVE  NoFaults' /\ PaidHasRow'
  OBVIOUS
<1>34. ASSUME NEW o \in Orders, InjectFinish(o)
       PROVE  NoFaults' /\ PaidHasRow'
  BY <1>34 DEF InjectFinish
<1>35. ASSUME NEW o \in Orders, InjectAbort(o)
       PROVE  NoFaults' /\ PaidHasRow'
  BY <1>35 DEF InjectAbort
<1>36. CASE UNCHANGED vars
  BY <1>36 DEF vars
<1> QED
  BY <1>1, <1>2, <1>3, <1>4, <1>5, <1>6, <1>7, <1>8, <1>9, <1>10, <1>11,
     <1>12, <1>13, <1>14, <1>15, <1>16, <1>17, <1>18, <1>19, <1>20, <1>21,
     <1>22, <1>23, <1>24, <1>25, <1>26, <1>27, <1>28, <1>29, <1>30, <1>31,
     <1>32, <1>33, <1>34, <1>35, <1>36
  DEF Next, PaymentNext, PublisherStep, InventoryNext, ConsumerStep, Reconcile,
      InjectNext

(* After consume its event has a consumed_events row. *)
LEMMA ConsumeCounts ==
    ASSUME TypeOK, NEW e \in Payments, ConsumeEvent(e)
    PROVE  consumed'[e] > 0
BY DEF TypeOK, ConsumeEvent

\* The acknowledgement comes after the commit: whatever dies in between, an
\* acknowledged entry names a consumed event.
LEMMA DeliveryStep ==
    DeliveryInv /\ [Next]_vars => AckedIsConsumed' /\ CommittedIsConsumed'
<1> SUFFICES ASSUME DeliveryInv, [Next]_vars
             PROVE  AckedIsConsumed' /\ CommittedIsConsumed'
  OBVIOUS
<1> USE DEF DeliveryInv, PublishInv, TypedInv, TypeOK, NoFaults, AckedIsConsumed,
            CommittedIsConsumed, Acked, Current, orderVars, inventoryVars, groupVars,
            pubVars, conVars, deductVars, injectVars, boundVars
<1>1. ASSUME NEW o \in Orders, CreateOrder(o)
      PROVE  AckedIsConsumed' /\ CommittedIsConsumed'
  BY <1>1 DEF CreateOrder
<1>2. ASSUME NEW o \in Orders, NEW p \in Payments, Pay(o, p)
      PROVE  AckedIsConsumed' /\ CommittedIsConsumed'
  BY <1>2 DEF Pay
<1>3. ASSUME PublisherPoll
      PROVE  AckedIsConsumed' /\ CommittedIsConsumed'
  BY <1>3 DEF PublisherPoll, PendingOutbox
<1>4. ASSUME NEW e \in Payments, PublisherCheck(e)
      PROVE  AckedIsConsumed' /\ CommittedIsConsumed'
  BY <1>4 DEF PublisherCheck, PublisherDone
<1>5. ASSUME PublisherSend
      PROVE  AckedIsConsumed' /\ CommittedIsConsumed'
  <2>1. pubEvent \in Payments /\ stream' = Append(stream, pubEvent)
    BY <1>5 DEF PublisherSend, PublisherHoldsEvent
  <2>2. \A m \in 1 .. Len(stream) : stream'[m] = stream[m]
    BY <2>1, StreamAppended
  <2> QED
    BY <1>5, <2>2 DEF PublisherSend
<1>6. ASSUME PublisherMark
      PROVE  AckedIsConsumed' /\ CommittedIsConsumed'
  BY <1>6 DEF PublisherMark, PublisherDone
<1>7. ASSUME PublisherFails
      PROVE  AckedIsConsumed' /\ CommittedIsConsumed'
  BY <1>7 DEF PublisherFails
<1>8. ASSUME NEW e \in Payments, RetryOutboxLoad(e)
      PROVE  AckedIsConsumed' /\ CommittedIsConsumed'
  BY <1>8 DEF RetryOutboxLoad
<1>9. ASSUME NEW e \in Payments, RetryOutboxClear(e)
      PROVE  AckedIsConsumed' /\ CommittedIsConsumed'
  BY <1>9 DEF RetryOutboxClear
<1>10. ASSUME NEW e \in Payments, RetryOutboxSend(e)
       PROVE  AckedIsConsumed' /\ CommittedIsConsumed'
  <2>1. \A m \in 1 .. Len(stream) : stream'[m] = stream[m]
    BY <1>10, StreamAppended DEF RetryOutboxSend
  <2> QED
    BY <1>10, <2>1 DEF RetryOutboxSend
<1>11. ASSUME NEW e \in Payments, RetryOutboxMark(e)
       PROVE  AckedIsConsumed' /\ CommittedIsConsumed'
  BY <1>11 DEF RetryOutboxMark
<1>12. ASSUME NEW e \in Payments, RetryOutboxClearFails(e)
       PROVE  AckedIsConsumed' /\ CommittedIsConsumed'
  BY <1>12 DEF RetryOutboxClearFails
<1>13. ASSUME NEW e \in Payments, RetryOutboxFails(e)
       PROVE  AckedIsConsumed' /\ CommittedIsConsumed'
  BY <1>13 DEF RetryOutboxFails
<1>14. ASSUME NEW o \in Orders, RebuildOutbox(o)
       PROVE  AckedIsConsumed' /\ CommittedIsConsumed'
  BY <1>14 DEF RebuildOutbox
<1>15. ASSUME PaymentCrash
       PROVE  AckedIsConsumed' /\ CommittedIsConsumed'
  BY <1>15 DEF PaymentCrash
<1>16. ASSUME ConsumerStart
       PROVE  AckedIsConsumed' /\ CommittedIsConsumed'
  BY <1>16 DEF ConsumerStart
<1>17. ASSUME ReadNew
       PROVE  AckedIsConsumed' /\ CommittedIsConsumed'
  <2>1. lastDelivered' \in Nat /\ pel' = pel \cup ((lastDelivered + 1) .. lastDelivered')
    BY <1>17, BoundAssumption DEF ReadNew
  <2>2. Acked' \subseteq Acked
    BY <2>1
  <2> QED
    BY <1>17, <2>2 DEF ReadNew
<1>18. ASSUME NEW batch \in Claimable, ClaimPending(batch)
       PROVE  AckedIsConsumed' /\ CommittedIsConsumed'
  BY <1>18 DEF ClaimPending
<1>19. ASSUME NEW m \in conBatch, ConsumerCheck(m)
       PROVE  AckedIsConsumed' /\ CommittedIsConsumed'
  BY <1>19 DEF ConsumerCheck, ConsumerDone
<1>20. ASSUME NEW m \in conBatch, ConsumerCommit(m)
       PROVE  AckedIsConsumed' /\ CommittedIsConsumed'
  <2>1. stream[m] \in Payments /\ payments[stream[m]] # None
    BY DEF EventsArePaid
  <2>2. CASE ConsumeEvent(stream[m]) /\ conPc' = "ack" /\ UNCHANGED conBatch
    <3>1. consumed'[stream[m]] > 0
      BY <2>1, <2>2 DEF ConsumeEvent
    <3>2. \A e \in Payments : consumed[e] > 0 => consumed'[e] > 0
      BY <2>1, <2>2, <3>1, CommitCounts
    <3>3. \A k \in conBatch : Current(k) => k = m
      BY <1>20 DEF ConsumerCommit, Current
    <3>4. CommittedIsConsumed'
      BY <1>20, <2>2, <3>1, <3>3 DEF ConsumerCommit
    <3>5. AckedIsConsumed'
      BY <1>20, <3>2 DEF ConsumerCommit
    <3> QED
      BY <3>4, <3>5
  <2>3. CASE ConsumeRejected(stream[m]) /\ ConsumerDone(m)
    BY <1>20, <2>3 DEF ConsumerCommit, ConsumeRejected, ConsumerDone
  <2> QED
    BY <1>20, <2>2, <2>3 DEF ConsumerCommit
<1>21. ASSUME NEW m \in conBatch, ConsumerAck(m)
       PROVE  AckedIsConsumed' /\ CommittedIsConsumed'
  <2>1. consumed[stream[m]] > 0
    BY <1>21 DEF ConsumerAck
  <2>2. Acked' \subseteq Acked \cup {m}
    BY <1>21 DEF ConsumerAck
  <2> QED
    BY <1>21, <2>1, <2>2 DEF ConsumerAck, ConsumerDone
<1>22. ASSUME NEW m \in conBatch, ConsumerSkips(m)
       PROVE  AckedIsConsumed' /\ CommittedIsConsumed'
  BY <1>22 DEF ConsumerSkips, ConsumerDone
<1>23. ASSUME ConsumerDies
       PROVE  AckedIsConsumed' /\ CommittedIsConsumed'
  BY <1>23 DEF ConsumerDies
<1>24. ASSUME NEW e \in Payments, RetryEventLoad(e)
       PROVE  AckedIsConsumed' /\ CommittedIsConsumed'
  BY <1>24 DEF RetryEventLoad
<1>25. ASSUME NEW e \in Payments, RetryEventConsume(e)
       PROVE  AckedIsConsumed' /\ CommittedIsConsumed'
  <2>1. \A x \in Payments : consumed[x] > 0 => consumed'[x] > 0
    <3>1. CASE ConsumeEvent(e)
      BY <3>1, CommitCounts, ConsumeCounts
    <3>2. CASE ConsumeRejected(e)
      BY <3>2 DEF ConsumeRejected
    <3> QED
      BY <1>25, <3>1, <3>2 DEF RetryEventConsume
  <2> QED
    BY <1>25, <2>1 DEF RetryEventConsume, Current
<1>26. ASSUME NEW e \in Payments, RetryEventClear(e)
       PROVE  AckedIsConsumed' /\ CommittedIsConsumed'
  BY <1>26 DEF RetryEventClear
<1>27. ASSUME NEW e \in Payments, RetryEventFails(e)
       PROVE  AckedIsConsumed' /\ CommittedIsConsumed'
  BY <1>27 DEF RetryEventFails
<1>28. ASSUME NEW o \in Orders, DeductOnceStart(o)
       PROVE  AckedIsConsumed' /\ CommittedIsConsumed'
  BY <1>28 DEF DeductOnceStart
<1>29. ASSUME NEW o \in Orders, DeductOnceCheck(o)
       PROVE  AckedIsConsumed' /\ CommittedIsConsumed'
  BY <1>29 DEF DeductOnceCheck, DeductOnceReturn
<1>30. ASSUME NEW o \in Orders, DeductOnceCommit(o)
       PROVE  AckedIsConsumed' /\ CommittedIsConsumed'
  BY <1>30 DEF DeductOnceCommit, DeductOnceReturn
<1>31. ASSUME InventoryCrash
       PROVE  AckedIsConsumed' /\ CommittedIsConsumed'
  BY <1>31 DEF InventoryCrash
<1>32. ASSUME NEW o \in Orders, InjectNoIssue(o)
       PROVE  AckedIsConsumed' /\ CommittedIsConsumed'
  BY <1>32 DEF InjectNoIssue
<1>33. ASSUME NEW o \in Orders, NEW f \in InjectableFaults, InjectStart(o, f)
       PROVE  AckedIsConsumed' /\ CommittedIsConsumed'
  BY <1>33 DEF InjectStart
<1>34. ASSUME NEW o \in Orders, InjectFinish(o)
       PROVE  AckedIsConsumed' /\ CommittedIsConsumed'
  BY <1>34 DEF InjectFinish
<1>35. ASSUME NEW o \in Orders, InjectAbort(o)
       PROVE  AckedIsConsumed' /\ CommittedIsConsumed'
  BY <1>35 DEF InjectAbort
<1>36. CASE UNCHANGED vars
  BY <1>36 DEF vars
<1> QED
  BY <1>1, <1>2, <1>3, <1>4, <1>5, <1>6, <1>7, <1>8, <1>9, <1>10, <1>11,
     <1>12, <1>13, <1>14, <1>15, <1>16, <1>17, <1>18, <1>19, <1>20, <1>21,
     <1>22, <1>23, <1>24, <1>25, <1>26, <1>27, <1>28, <1>29, <1>30, <1>31,
     <1>32, <1>33, <1>34, <1>35, <1>36
  DEF Next, PaymentNext, PublisherStep, InventoryNext, ConsumerStep, Reconcile,
      InjectNext

(* DeliveryInv holds in every reachable state when no fault is injected. *)
THEOREM DeliveryInvariant ==
    ASSUME InjectableFaults = {}
    PROVE  Spec => []DeliveryInv
<1>1. Init => NoFaults /\ PaidHasRow /\ AckedIsConsumed /\ CommittedIsConsumed
  BY DEF Init, NoFaults, PaidHasRow, AckedIsConsumed, Acked, CommittedIsConsumed
<1>2. TypedInv /\ NoFaults /\ PaidHasRow /\ [Next]_vars => NoFaults' /\ PaidHasRow'
  BY RowStep
<1>3. PublishInv => TypedInv
  BY DEF PublishInv
<1> QED
  BY <1>1, <1>2, <1>3, DeliveryStep, PublishInvariant, PTL DEF Spec, DeliveryInv

\* A committed payment is never lost: its event waits in the outbox, is on
\* the stream and not acknowledged, or has been consumed.
THEOREM NoLostPaymentAlways ==
    ASSUME InjectableFaults = {}
    PROVE  Spec => []NoLostPayment
<1>1. DeliveryInv => NoLostPayment
  <2> SUFFICES ASSUME DeliveryInv, NEW e \in Payments, payments[e] # None,
                      outbox[e] # "PENDING", consumed[e] = 0
               PROVE  \E m \in 1 .. Len(stream) : stream[m] = e /\ Outstanding(m)
    BY DEF NoLostPayment, DeliveryInv, PublishInv, TypedInv, TypeOK
  <2> USE DEF DeliveryInv, PublishInv, TypedInv, TypeOK
  <2>1. outbox[e] = "PUBLISHED"
    BY DEF PaidHasRow
  <2>2. PICK m \in 1 .. Len(stream) : stream[m] = e
    BY <2>1 DEF PublishedIsOnStream, OnStream
  <2>3. m \notin Acked
    BY <2>2 DEF AckedIsConsumed
  <2> QED
    BY <2>2, <2>3 DEF Acked, Outstanding
<1> QED
  BY <1>1, DeliveryInvariant, PTL

-----------------------------------------------------------------------------
(* A consumed event has deducted its whole order                           *)

\* A step that changes no deduction row that exists.
RowsKept ==
    \A o \in Orders, s \in Skus : deducted[o][s] > 0 =>
        deducted'[o][s] = deducted[o][s] /\ deductionKey'[o][s] = deductionKey[o][s]

\* A deduction only adds rows: CanDeduct has refused the ones that exist.
LEMMA DeductKeeps ==
    ASSUME TypeOK, NEW o \in Orders, NEW items \in [Skus -> Nat], NEW key \in Keys,
           CanDeduct(o, items, key), Deduct(o, items, key)
    PROVE  /\ RowsKept
           /\ \A s \in Skus : items[s] > 0 =>
                 deducted'[o][s] = items[s] /\ deductionKey'[o][s] = key
           /\ \A x \in Orders, s \in Skus : deducted'[x][s] > 0 =>
                 deducted[x][s] > 0 \/ (x = o /\ items[s] > 0)
<1>1. \A x \in Orders, s \in Skus : x # o =>
         deducted'[x][s] = deducted[x][s] /\ deductionKey'[x][s] = deductionKey[x][s]
  BY DEF TypeOK, Deduct
<1>2. ASSUME NEW s \in Skus
      PROVE  /\ deducted'[o][s] = deducted[o][s] + items[s]
             /\ deductionKey'[o][s] = IF items[s] > 0 THEN key ELSE deductionKey[o][s]
             /\ deducted[o][s] \in Nat /\ items[s] \in Nat
             /\ items[s] > 0 => deducted[o][s] = 0
  BY DEF TypeOK, Deduct, CanDeduct
<1>3. RowsKept
  <2> SUFFICES ASSUME NEW x \in Orders, NEW s \in Skus, deducted[x][s] > 0
               PROVE  /\ deducted'[x][s] = deducted[x][s]
                      /\ deductionKey'[x][s] = deductionKey[x][s]
    BY DEF RowsKept
  <2>1. CASE x = o
    BY <1>2, <2>1
  <2>2. CASE x # o
    BY <1>1, <2>2
  <2> QED
    BY <2>1, <2>2
<1>4. ASSUME NEW s \in Skus, items[s] > 0
      PROVE  deducted'[o][s] = items[s] /\ deductionKey'[o][s] = key
  BY <1>2, <1>4
<1>5. ASSUME NEW x \in Orders, NEW s \in Skus, deducted'[x][s] > 0
      PROVE  deducted[x][s] > 0 \/ (x = o /\ items[s] > 0)
  <2>1. CASE x = o
    BY <1>2, <1>5, <2>1
  <2>2. CASE x # o
    BY <1>1, <1>5, <2>2
  <2> QED
    BY <2>1, <2>2
<1> QED
  BY <1>3, <1>4, <1>5

\* Rows that stay keep the event deducted.
LEMMA RowsStay ==
    ASSUME TypeOK, NEW e \in Payments, payments[e] # None, payments'[e] = payments[e],
           RowsKept, DeductedBy(e)
    PROVE  DeductedBy(e)'
<1> DEFINE o == payments[e]
<1>1. o \in Orders /\ o = EventOrder(e) /\ EventOrder(e)' = o
  BY DEF TypeOK, EventOrder
<1>2. \A s \in Skus : Items[o][s] > 0 =>
         deducted[o][s] = Items[o][s] /\ deductionKey[o][s] = e
  BY <1>1 DEF DeductedBy, OrderSkus
<1>3. \A s \in Skus : Items[o][s] > 0 =>
         deducted'[o][s] = Items[o][s] /\ deductionKey'[o][s] = e
  BY <1>1, <1>2 DEF RowsKept
<1> QED
  BY <1>1, <1>3 DEF DeductedBy, OrderSkus

\* The consume transaction is all or nothing: it keeps every row there is,
\* and a fresh event deducts its whole order.
LEMMA ConsumeKeeps ==
    ASSUME TypeOK, NEW e \in Payments, payments[e] # None, payments' = payments,
           ConsumeEvent(e)
    PROVE  /\ RowsKept
           /\ consumed[e] = 0 => DeductedBy(e)'
           /\ \A o \in Orders, s \in Skus : deducted'[o][s] > 0 =>
                 deducted[o][s] > 0 \/ (o = payments[e] /\ deductionKey'[o][s] = e)
<1> DEFINE o == payments[e]
<1>1. o \in Orders /\ o = EventOrder(e) /\ e \in Keys /\ Items[o] \in [Skus -> Nat]
  BY ItemsAssumption DEF TypeOK, EventOrder, Keys
<1>2. CASE consumed[e] > 0
  <2>1. UNCHANGED <<deducted, deductionKey>>
    BY <1>2 DEF ConsumeEvent
  <2> QED
    BY <1>2, <2>1 DEF RowsKept, TypeOK
<1>3. CASE ~(consumed[e] > 0)
  <2>1. CanDeduct(o, Items[o], e) /\ Deduct(o, Items[o], e)
    BY <1>1, <1>3 DEF ConsumeEvent
  <2>2. /\ RowsKept
        /\ \A s \in Skus : Items[o][s] > 0 =>
              deducted'[o][s] = Items[o][s] /\ deductionKey'[o][s] = e
        /\ \A x \in Orders, s \in Skus : deducted'[x][s] > 0 =>
              deducted[x][s] > 0 \/ (x = o /\ Items[o][s] > 0)
    BY <1>1, <2>1, DeductKeeps
  <2>3. EventOrder(e)' = o
    BY DEF EventOrder
  <2>4. DeductedBy(e)'
    BY <2>2, <2>3 DEF DeductedBy, OrderSkus
  <2> QED
    BY <2>2, <2>4
<1> QED
  BY <1>2, <1>3

\* deduct-once keeps every row there is, and new rows have its own key.
LEMMA OnceKeeps ==
    ASSUME TypedInv, NEW o \in Orders, DeductOnceCommit(o)
    PROVE  /\ RowsKept
           /\ \A x \in Orders, s \in Skus : deducted'[x][s] > 0 =>
                 deducted[x][s] > 0 \/ deductionKey'[x][s] \in RequestKeys
<1>1. /\ deductKey[o] \in RequestKeys /\ deductKey[o] \in Keys
      /\ deductItems[o] \in [Skus -> Nat]
  BY DEF DeductOnceCommit, TypedInv, TypeOK, DeductHoldsKey, Keys
<1>2. CASE Deduct(o, deductItems[o], deductKey[o])
           /\ CanDeduct(o, deductItems[o], deductKey[o])
  <2>1. /\ RowsKept
        /\ \A s \in Skus : deductItems[o][s] > 0 => deductionKey'[o][s] = deductKey[o]
        /\ \A x \in Orders, s \in Skus : deducted'[x][s] > 0 =>
              deducted[x][s] > 0 \/ (x = o /\ deductItems[o][s] > 0)
    BY <1>1, <1>2, DeductKeeps DEF TypedInv
  <2> QED
    BY <1>1, <2>1
<1>3. CASE UNCHANGED <<stock, deducted, deductionKey>>
  BY <1>3 DEF RowsKept
<1> QED
  BY <1>2, <1>3 DEF DeductOnceCommit

\* A step that changes neither the rows nor the order of a paid event.
LEMMA NothingDeducted ==
    ASSUME TypedInv, ConsumedIsDeducted, UNCHANGED <<deducted, deductionKey, consumed>>,
           \A e \in Payments : payments[e] # None => payments'[e] = payments[e]
    PROVE  ConsumedIsDeducted'
<1> SUFFICES ASSUME NEW e \in Payments, consumed'[e] > 0
             PROVE  DeductedBy(e)'
  BY DEF ConsumedIsDeducted
<1>1. payments[e] # None /\ DeductedBy(e)
  BY DEF TypedInv, EventsArePaid, Known, ConsumedIsDeducted
<1>2. RowsKept
  BY DEF RowsKept
<1> QED
  BY <1>1, <1>2, RowsStay DEF TypedInv

(* consume keeps ConsumedIsDeducted: it records an event only with its deductions. *)
LEMMA ConsumeKeepsWhole ==
    ASSUME TypedInv, ConsumedIsDeducted, NEW e \in Payments, payments[e] # None,
           payments' = payments, ConsumeEvent(e)
    PROVE  ConsumedIsDeducted'
<1> SUFFICES ASSUME NEW x \in Payments, consumed'[x] > 0
             PROVE  DeductedBy(x)'
  BY DEF ConsumedIsDeducted
<1>1. RowsKept /\ (consumed[e] = 0 => DeductedBy(e)')
  BY ConsumeKeeps DEF TypedInv
<1>2. CASE consumed[x] > 0
  BY <1>1, <1>2, RowsStay DEF ConsumedIsDeducted, TypedInv, EventsArePaid, Known
<1>3. CASE ~(consumed[x] > 0)
  <2>1. x = e
    BY <1>3, CommitCounts DEF TypedInv
  <2>2. consumed[e] = 0
    BY <1>3, <2>1 DEF TypedInv, TypeOK
  <2> QED
    BY <1>1, <2>1, <2>2
<1> QED
  BY <1>2, <1>3

(* Without fault injection a consumed event stays deducted under its own key:
   ConsumedIsDeducted is inductive with OnceInv. *)
LEMMA OnceStep == OnceInv /\ [Next]_vars => ConsumedIsDeducted'
<1> SUFFICES ASSUME TypedInv, NoFaults, ConsumedIsDeducted, [Next]_vars
             PROVE  ConsumedIsDeducted'
  BY DEF OnceInv
<1> USE DEF orderVars, inventoryVars, groupVars, pubVars, conVars, deductVars, injectVars,
            boundVars
<1>1. ASSUME NEW o \in Orders, CreateOrder(o)
      PROVE  ConsumedIsDeducted'
  BY <1>1, NothingDeducted DEF CreateOrder
<1>2. ASSUME NEW o \in Orders, NEW p \in Payments, Pay(o, p)
      PROVE  ConsumedIsDeducted'
  <2>1. \A e \in Payments : payments[e] # None => payments'[e] = payments[e]
    BY <1>2 DEF Pay, TypedInv, TypeOK
  <2> QED
    BY <1>2, <2>1, NothingDeducted DEF Pay
<1>3. ASSUME PublisherPoll
      PROVE  ConsumedIsDeducted'
  BY <1>3, NothingDeducted DEF PublisherPoll
<1>4. ASSUME NEW e \in Payments, PublisherCheck(e)
      PROVE  ConsumedIsDeducted'
  BY <1>4, NothingDeducted DEF PublisherCheck
<1>5. ASSUME PublisherSend
      PROVE  ConsumedIsDeducted'
  BY <1>5, NothingDeducted DEF PublisherSend
<1>6. ASSUME PublisherMark
      PROVE  ConsumedIsDeducted'
  BY <1>6, NothingDeducted DEF PublisherMark
<1>7. ASSUME PublisherFails
      PROVE  ConsumedIsDeducted'
  BY <1>7, NothingDeducted DEF PublisherFails
<1>8. ASSUME NEW e \in Payments, RetryOutboxLoad(e)
      PROVE  ConsumedIsDeducted'
  BY <1>8, NothingDeducted DEF RetryOutboxLoad
<1>9. ASSUME NEW e \in Payments, RetryOutboxClear(e)
      PROVE  ConsumedIsDeducted'
  BY <1>9, NothingDeducted DEF RetryOutboxClear
<1>10. ASSUME NEW e \in Payments, RetryOutboxSend(e)
       PROVE  ConsumedIsDeducted'
  BY <1>10, NothingDeducted DEF RetryOutboxSend
<1>11. ASSUME NEW e \in Payments, RetryOutboxMark(e)
       PROVE  ConsumedIsDeducted'
  BY <1>11, NothingDeducted DEF RetryOutboxMark
<1>12. ASSUME NEW e \in Payments, RetryOutboxClearFails(e)
       PROVE  ConsumedIsDeducted'
  BY <1>12, NothingDeducted DEF RetryOutboxClearFails
<1>13. ASSUME NEW e \in Payments, RetryOutboxFails(e)
       PROVE  ConsumedIsDeducted'
  BY <1>13, NothingDeducted DEF RetryOutboxFails
<1>14. ASSUME NEW o \in Orders, RebuildOutbox(o)
       PROVE  ConsumedIsDeducted'
  BY <1>14, NothingDeducted DEF RebuildOutbox
<1>15. ASSUME PaymentCrash
       PROVE  ConsumedIsDeducted'
  BY <1>15, NothingDeducted DEF PaymentCrash
<1>16. ASSUME ConsumerStart
       PROVE  ConsumedIsDeducted'
  BY <1>16, NothingDeducted DEF ConsumerStart
<1>17. ASSUME ReadNew
       PROVE  ConsumedIsDeducted'
  BY <1>17, NothingDeducted DEF ReadNew
<1>18. ASSUME NEW batch \in Claimable, ClaimPending(batch)
       PROVE  ConsumedIsDeducted'
  BY <1>18, NothingDeducted DEF ClaimPending
<1>19. ASSUME NEW m \in conBatch, ConsumerCheck(m)
       PROVE  ConsumedIsDeducted'
  BY <1>19, NothingDeducted DEF ConsumerCheck
<1>20. ASSUME NEW m \in conBatch, ConsumerCommit(m)
       PROVE  ConsumedIsDeducted'
  <2>1. stream[m] \in Payments /\ payments[stream[m]] # None /\ payments' = payments
    BY <1>20 DEF ConsumerCommit, TypedInv, TypeOK, EventsArePaid
  <2>2. CASE ConsumeEvent(stream[m])
    BY <2>1, <2>2, ConsumeKeepsWhole
  <2>3. CASE ConsumeRejected(stream[m])
    BY <2>1, <2>3, NothingDeducted DEF ConsumeRejected, inventoryVars
  <2> QED
    BY <1>20, <2>2, <2>3 DEF ConsumerCommit
<1>21. ASSUME NEW m \in conBatch, ConsumerAck(m)
       PROVE  ConsumedIsDeducted'
  BY <1>21, NothingDeducted DEF ConsumerAck
<1>22. ASSUME NEW m \in conBatch, ConsumerSkips(m)
       PROVE  ConsumedIsDeducted'
  BY <1>22, NothingDeducted DEF ConsumerSkips
<1>23. ASSUME ConsumerDies
       PROVE  ConsumedIsDeducted'
  BY <1>23, NothingDeducted DEF ConsumerDies
<1>24. ASSUME NEW e \in Payments, RetryEventLoad(e)
       PROVE  ConsumedIsDeducted'
  BY <1>24, NothingDeducted DEF RetryEventLoad
<1>25. ASSUME NEW e \in Payments, RetryEventConsume(e)
       PROVE  ConsumedIsDeducted'
  <2>1. e \in Payments /\ payments[e] # None /\ payments' = payments
    BY <1>25 DEF RetryEventConsume, TypedInv, EventsArePaid, Known
  <2>2. CASE ConsumeEvent(e)
    BY <2>1, <2>2, ConsumeKeepsWhole
  <2>3. CASE ConsumeRejected(e)
    BY <2>1, <2>3, NothingDeducted DEF ConsumeRejected, inventoryVars
  <2> QED
    BY <1>25, <2>2, <2>3 DEF RetryEventConsume
<1>26. ASSUME NEW e \in Payments, RetryEventClear(e)
       PROVE  ConsumedIsDeducted'
  BY <1>26, NothingDeducted DEF RetryEventClear
<1>27. ASSUME NEW e \in Payments, RetryEventFails(e)
       PROVE  ConsumedIsDeducted'
  BY <1>27, NothingDeducted DEF RetryEventFails
<1>28. ASSUME NEW o \in Orders, DeductOnceStart(o)
       PROVE  ConsumedIsDeducted'
  BY <1>28, NothingDeducted DEF DeductOnceStart
<1>29. ASSUME NEW o \in Orders, DeductOnceCheck(o)
       PROVE  ConsumedIsDeducted'
  BY <1>29, NothingDeducted DEF DeductOnceCheck
<1>30. ASSUME NEW o \in Orders, DeductOnceCommit(o)
       PROVE  ConsumedIsDeducted'
  <2>1. payments' = payments /\ consumed' = consumed /\ RowsKept
    BY <1>30, OnceKeeps DEF DeductOnceCommit
  <2>2. ASSUME NEW e \in Payments, consumed'[e] > 0 PROVE DeductedBy(e)'
    BY <2>1, <2>2, RowsStay DEF TypedInv, EventsArePaid, Known, ConsumedIsDeducted
  <2> QED
    BY <2>2 DEF ConsumedIsDeducted
<1>31. ASSUME InventoryCrash
       PROVE  ConsumedIsDeducted'
  BY <1>31, NothingDeducted DEF InventoryCrash
<1>32. ASSUME NEW o \in Orders, InjectNoIssue(o)
       PROVE  ConsumedIsDeducted'
  BY <1>32, NothingDeducted DEF InjectNoIssue
<1>33. ASSUME NEW o \in Orders, NEW f \in InjectableFaults, InjectStart(o, f)
       PROVE  ConsumedIsDeducted'
  BY <1>33, NothingDeducted DEF InjectStart
<1>34. ASSUME NEW o \in Orders, InjectFinish(o)
       PROVE  ConsumedIsDeducted'
  BY <1>34 DEF InjectFinish, NoFaults
<1>35. ASSUME NEW o \in Orders, InjectAbort(o)
       PROVE  ConsumedIsDeducted'
  BY <1>35, NothingDeducted DEF InjectAbort
<1>36. CASE UNCHANGED vars
  BY <1>36, NothingDeducted DEF vars
<1> QED
  BY <1>1, <1>2, <1>3, <1>4, <1>5, <1>6, <1>7, <1>8, <1>9, <1>10, <1>11,
     <1>12, <1>13, <1>14, <1>15, <1>16, <1>17, <1>18, <1>19, <1>20, <1>21,
     <1>22, <1>23, <1>24, <1>25, <1>26, <1>27, <1>28, <1>29, <1>30, <1>31,
     <1>32, <1>33, <1>34, <1>35, <1>36
  DEF Next, PaymentNext, PublisherStep, InventoryNext, ConsumerStep, Reconcile,
      InjectNext

\* A consumed event has deducted every item of its order, under its own key,
\* and stays so through every later delivery, retry, repair and crash.
THEOREM ConsumedIsDeductedAlways ==
    ASSUME InjectableFaults = {}
    PROVE  Spec => []ConsumedIsDeducted
<1>1. Init => ConsumedIsDeducted
  BY DEF Init, ConsumedIsDeducted
<1>2. DeliveryInv => TypedInv /\ NoFaults
  BY DEF DeliveryInv, PublishInv
<1>3. TypedInv /\ NoFaults /\ ConsumedIsDeducted /\ [Next]_vars => ConsumedIsDeducted'
  BY OnceStep DEF OnceInv
<1> QED
  BY <1>1, <1>2, <1>3, DeliveryInvariant, PTL DEF Spec

-----------------------------------------------------------------------------
(* An event's deduction rows have their consumed_events row                *)

\* A step that keeps the rows and the counts and adds no row of an event.
LEMMA RecordsStay ==
    ASSUME TypedInv, EventDeductionIsRecorded, RowsKept,
           \A e \in Payments : payments[e] # None => payments'[e] = payments[e],
           \A e \in Payments : consumed[e] > 0 => consumed'[e] > 0,
           \A x \in Orders, s \in Skus : deducted'[x][s] > 0 =>
              deducted[x][s] > 0 \/ deductionKey'[x][s] \in RequestKeys
    PROVE  EventDeductionIsRecorded'
<1> SUFFICES ASSUME NEW o \in Orders, NEW s \in Skus, NEW e \in Payments \ RequestKeys,
                    deducted'[o][s] > 0, deductionKey'[o][s] = e
             PROVE  payments'[e] = o /\ consumed'[e] > 0 /\ DeductedBy(e)'
  BY DEF EventDeductionIsRecorded
<1>1. deducted[o][s] > 0 /\ deductionKey[o][s] = e
  BY DEF RowsKept
<1>2. payments[e] = o /\ consumed[e] > 0 /\ DeductedBy(e)
  BY <1>1 DEF EventDeductionIsRecorded
<1>3. payments[e] # None
  BY <1>2, NoneAssumption
<1> QED
  BY <1>2, <1>3, RowsStay DEF TypedInv

(* A step that leaves the deductions, the consumed events and the committed
   payments alone keeps EventDeductionIsRecorded. *)
LEMMA NothingRecorded ==
    ASSUME TypedInv, EventDeductionIsRecorded,
           UNCHANGED <<deducted, deductionKey, consumed>>,
           \A e \in Payments : payments[e] # None => payments'[e] = payments[e]
    PROVE  EventDeductionIsRecorded'
BY RecordsStay DEF RowsKept

(* consume writes a deduction keyed by an event together with its consumed_events row. *)
LEMMA ConsumeRecords ==
    ASSUME TypedInv, EventDeductionIsRecorded, NEW e \in Payments, payments[e] # None,
           payments' = payments, ConsumeEvent(e)
    PROVE  EventDeductionIsRecorded'
<1> SUFFICES ASSUME NEW o \in Orders, NEW s \in Skus, NEW x \in Payments \ RequestKeys,
                    deducted'[o][s] > 0, deductionKey'[o][s] = x
             PROVE  payments'[x] = o /\ consumed'[x] > 0 /\ DeductedBy(x)'
  BY DEF EventDeductionIsRecorded
<1>1. /\ RowsKept
      /\ consumed[e] = 0 => DeductedBy(e)'
      /\ deducted[o][s] > 0 \/ (o = payments[e] /\ deductionKey'[o][s] = e)
  BY ConsumeKeeps DEF TypedInv
<1>2. CASE deducted[o][s] > 0
  <2>1. payments[x] = o /\ consumed[x] > 0 /\ DeductedBy(x)
    BY <1>1, <1>2 DEF RowsKept, EventDeductionIsRecorded
  <2>2. payments[x] # None
    BY <2>1, NoneAssumption
  <2>3. consumed'[x] > 0
    BY <2>1, CommitCounts, ConsumeCounts DEF TypedInv
  <2> QED
    BY <1>1, <2>1, <2>2, <2>3, RowsStay DEF TypedInv
<1>3. CASE ~(deducted[o][s] > 0)
  <2>1. o = payments[e] /\ x = e
    BY <1>1, <1>3
  <2>2. consumed[e] = 0
    BY <1>3 DEF ConsumeEvent, TypedInv, TypeOK
  <2> QED
    BY <1>1, <2>1, <2>2, ConsumeCounts DEF TypedInv
<1> QED
  BY <1>2, <1>3

(* EventDeductionIsRecorded is inductive with DeductionInv, whatever fault is injected. *)
LEMMA RecordedStep == DeductionInv /\ [Next]_vars => EventDeductionIsRecorded'
<1> SUFFICES ASSUME TypedInv, EventDeductionIsRecorded, [Next]_vars
             PROVE  EventDeductionIsRecorded'
  BY DEF DeductionInv
<1> USE DEF orderVars, inventoryVars, groupVars, pubVars, conVars, deductVars, injectVars,
            boundVars
<1>1. ASSUME NEW o \in Orders, CreateOrder(o)
      PROVE  EventDeductionIsRecorded'
  BY <1>1, NothingRecorded DEF CreateOrder
<1>2. ASSUME NEW o \in Orders, NEW p \in Payments, Pay(o, p)
      PROVE  EventDeductionIsRecorded'
  <2>1. \A e \in Payments : payments[e] # None => payments'[e] = payments[e]
    BY <1>2 DEF Pay, TypedInv, TypeOK
  <2> QED
    BY <1>2, <2>1, NothingRecorded DEF Pay
<1>3. ASSUME PublisherPoll
      PROVE  EventDeductionIsRecorded'
  BY <1>3, NothingRecorded DEF PublisherPoll
<1>4. ASSUME NEW e \in Payments, PublisherCheck(e)
      PROVE  EventDeductionIsRecorded'
  BY <1>4, NothingRecorded DEF PublisherCheck
<1>5. ASSUME PublisherSend
      PROVE  EventDeductionIsRecorded'
  BY <1>5, NothingRecorded DEF PublisherSend
<1>6. ASSUME PublisherMark
      PROVE  EventDeductionIsRecorded'
  BY <1>6, NothingRecorded DEF PublisherMark
<1>7. ASSUME PublisherFails
      PROVE  EventDeductionIsRecorded'
  BY <1>7, NothingRecorded DEF PublisherFails
<1>8. ASSUME NEW e \in Payments, RetryOutboxLoad(e)
      PROVE  EventDeductionIsRecorded'
  BY <1>8, NothingRecorded DEF RetryOutboxLoad
<1>9. ASSUME NEW e \in Payments, RetryOutboxClear(e)
      PROVE  EventDeductionIsRecorded'
  BY <1>9, NothingRecorded DEF RetryOutboxClear
<1>10. ASSUME NEW e \in Payments, RetryOutboxSend(e)
       PROVE  EventDeductionIsRecorded'
  BY <1>10, NothingRecorded DEF RetryOutboxSend
<1>11. ASSUME NEW e \in Payments, RetryOutboxMark(e)
       PROVE  EventDeductionIsRecorded'
  BY <1>11, NothingRecorded DEF RetryOutboxMark
<1>12. ASSUME NEW e \in Payments, RetryOutboxClearFails(e)
       PROVE  EventDeductionIsRecorded'
  BY <1>12, NothingRecorded DEF RetryOutboxClearFails
<1>13. ASSUME NEW e \in Payments, RetryOutboxFails(e)
       PROVE  EventDeductionIsRecorded'
  BY <1>13, NothingRecorded DEF RetryOutboxFails
<1>14. ASSUME NEW o \in Orders, RebuildOutbox(o)
       PROVE  EventDeductionIsRecorded'
  BY <1>14, NothingRecorded DEF RebuildOutbox
<1>15. ASSUME PaymentCrash
       PROVE  EventDeductionIsRecorded'
  BY <1>15, NothingRecorded DEF PaymentCrash
<1>16. ASSUME ConsumerStart
       PROVE  EventDeductionIsRecorded'
  BY <1>16, NothingRecorded DEF ConsumerStart
<1>17. ASSUME ReadNew
       PROVE  EventDeductionIsRecorded'
  BY <1>17, NothingRecorded DEF ReadNew
<1>18. ASSUME NEW batch \in Claimable, ClaimPending(batch)
       PROVE  EventDeductionIsRecorded'
  BY <1>18, NothingRecorded DEF ClaimPending
<1>19. ASSUME NEW m \in conBatch, ConsumerCheck(m)
       PROVE  EventDeductionIsRecorded'
  BY <1>19, NothingRecorded DEF ConsumerCheck
<1>20. ASSUME NEW m \in conBatch, ConsumerCommit(m)
       PROVE  EventDeductionIsRecorded'
  <2>1. stream[m] \in Payments /\ payments[stream[m]] # None /\ payments' = payments
    BY <1>20 DEF ConsumerCommit, TypedInv, TypeOK, EventsArePaid
  <2>2. CASE ConsumeEvent(stream[m])
    BY <2>1, <2>2, ConsumeRecords
  <2>3. CASE ConsumeRejected(stream[m])
    BY <2>1, <2>3, NothingRecorded DEF ConsumeRejected, inventoryVars
  <2> QED
    BY <1>20, <2>2, <2>3 DEF ConsumerCommit
<1>21. ASSUME NEW m \in conBatch, ConsumerAck(m)
       PROVE  EventDeductionIsRecorded'
  BY <1>21, NothingRecorded DEF ConsumerAck
<1>22. ASSUME NEW m \in conBatch, ConsumerSkips(m)
       PROVE  EventDeductionIsRecorded'
  BY <1>22, NothingRecorded DEF ConsumerSkips
<1>23. ASSUME ConsumerDies
       PROVE  EventDeductionIsRecorded'
  BY <1>23, NothingRecorded DEF ConsumerDies
<1>24. ASSUME NEW e \in Payments, RetryEventLoad(e)
       PROVE  EventDeductionIsRecorded'
  BY <1>24, NothingRecorded DEF RetryEventLoad
<1>25. ASSUME NEW e \in Payments, RetryEventConsume(e)
       PROVE  EventDeductionIsRecorded'
  <2>1. e \in Payments /\ payments[e] # None /\ payments' = payments
    BY <1>25 DEF RetryEventConsume, TypedInv, EventsArePaid, Known
  <2>2. CASE ConsumeEvent(e)
    BY <2>1, <2>2, ConsumeRecords
  <2>3. CASE ConsumeRejected(e)
    BY <2>1, <2>3, NothingRecorded DEF ConsumeRejected, inventoryVars
  <2> QED
    BY <1>25, <2>2, <2>3 DEF RetryEventConsume
<1>26. ASSUME NEW e \in Payments, RetryEventClear(e)
       PROVE  EventDeductionIsRecorded'
  BY <1>26, NothingRecorded DEF RetryEventClear
<1>27. ASSUME NEW e \in Payments, RetryEventFails(e)
       PROVE  EventDeductionIsRecorded'
  BY <1>27, NothingRecorded DEF RetryEventFails
<1>28. ASSUME NEW o \in Orders, DeductOnceStart(o)
       PROVE  EventDeductionIsRecorded'
  BY <1>28, NothingRecorded DEF DeductOnceStart
<1>29. ASSUME NEW o \in Orders, DeductOnceCheck(o)
       PROVE  EventDeductionIsRecorded'
  BY <1>29, NothingRecorded DEF DeductOnceCheck
<1>30. ASSUME NEW o \in Orders, DeductOnceCommit(o)
       PROVE  EventDeductionIsRecorded'
  <2>1. payments' = payments /\ consumed' = consumed
    BY <1>30 DEF DeductOnceCommit
  <2>2. /\ RowsKept
        /\ \A x \in Orders, s \in Skus : deducted'[x][s] > 0 =>
              deducted[x][s] > 0 \/ deductionKey'[x][s] \in RequestKeys
    BY <1>30, OnceKeeps
  <2> QED
    BY <2>1, <2>2, RecordsStay
<1>31. ASSUME InventoryCrash
       PROVE  EventDeductionIsRecorded'
  BY <1>31, NothingRecorded DEF InventoryCrash
<1>32. ASSUME NEW o \in Orders, InjectNoIssue(o)
       PROVE  EventDeductionIsRecorded'
  BY <1>32, NothingRecorded DEF InjectNoIssue
<1>33. ASSUME NEW o \in Orders, NEW f \in InjectableFaults, InjectStart(o, f)
       PROVE  EventDeductionIsRecorded'
  BY <1>33, NothingRecorded DEF InjectStart
<1>34. ASSUME NEW o \in Orders, InjectFinish(o)
       PROVE  EventDeductionIsRecorded'
  <2>1. CASE UNCHANGED inventoryVars
    BY <1>34, <2>1, NothingRecorded DEF InjectFinish
  <2>2. CASE ResetInventory(o)
    <3>1. payments' = payments
      BY <1>34 DEF InjectFinish
    <3>2. /\ \A s \in Skus : deducted'[o][s] = 0
          /\ \A x \in Orders : x # o =>
                deducted'[x] = deducted[x] /\ deductionKey'[x] = deductionKey[x]
      BY <2>2 DEF ResetInventory, NoItems, TypedInv, TypeOK
    <3>3. \A e \in Payments : payments[e] # o => consumed'[e] = consumed[e]
      BY <2>2 DEF ResetInventory
    <3> QED
      BY <3>1, <3>2, <3>3 DEF EventDeductionIsRecorded, DeductedBy, EventOrder
  <2> QED
    BY <1>34, <2>1, <2>2 DEF InjectFinish
<1>35. ASSUME NEW o \in Orders, InjectAbort(o)
       PROVE  EventDeductionIsRecorded'
  BY <1>35, NothingRecorded DEF InjectAbort
<1>36. CASE UNCHANGED vars
  BY <1>36, NothingRecorded DEF vars
<1> QED
  BY <1>1, <1>2, <1>3, <1>4, <1>5, <1>6, <1>7, <1>8, <1>9, <1>10, <1>11,
     <1>12, <1>13, <1>14, <1>15, <1>16, <1>17, <1>18, <1>19, <1>20, <1>21,
     <1>22, <1>23, <1>24, <1>25, <1>26, <1>27, <1>28, <1>29, <1>30, <1>31,
     <1>32, <1>33, <1>34, <1>35, <1>36
  DEF Next, PaymentNext, PublisherStep, InventoryNext, ConsumerStep, Reconcile,
      InjectNext

\* With any fault injected at any moment, a deduction row written for an
\* event has its consumed_events row and the rest of its order.
THEOREM EventDeductionIsRecordedAlways == Spec => []EventDeductionIsRecorded
<1>1. Init => EventDeductionIsRecorded
  BY DEF Init, EventDeductionIsRecorded, NoItems
<1>2. TypedInv /\ EventDeductionIsRecorded /\ [Next]_vars => EventDeductionIsRecorded'
  BY RecordedStep DEF DeductionInv
<1> QED
  BY <1>1, <1>2, TypedInvariant, PTL DEF Spec

-----------------------------------------------------------------------------
(* Stock is conserved                                                      *)

\* n units of an order are n pairs.
LEMMA UnitsOfOne ==
    ASSUME NEW o, NEW n \in Nat
    PROVE  IsFiniteSet({o} \X (1 .. n)) /\ Cardinality({o} \X (1 .. n)) = n
<1> DEFINE unit == [i \in 1 .. n |-> <<o, i>>]
<1>1. unit \in Bijection(1 .. n, {o} \X (1 .. n))
  <2>1. unit \in [1 .. n -> {o} \X (1 .. n)]
    OBVIOUS
  <2>2. \A i, j \in 1 .. n : unit[i] = unit[j] => i = j
    OBVIOUS
  <2>3. \A u \in {o} \X (1 .. n) : \E i \in 1 .. n : unit[i] = u
    OBVIOUS
  <2> QED
    BY <2>1, <2>2, <2>3 DEF Bijection, Injection, Surjection, IsInjective
<1>2. IsFiniteSet(1 .. n) /\ Cardinality(1 .. n) = n
  BY FS_Interval
<1> QED
  BY <1>1, <1>2, FS_Bijection DEF ExistsBijection

\* The books balance, in finite numbers.
Balanced == \A s \in Skus : IsFiniteSet(Units(s)) /\ stock[s] + Cardinality(Units(s)) = InitialStock[s]

\* A deduction takes from the stock what it adds to the rows.
LEMMA DeductBalances ==
    ASSUME TypeOK, Balanced, NEW o \in Orders, NEW items \in [Skus -> Nat], NEW key \in Keys,
           CanDeduct(o, items, key), Deduct(o, items, key)
    PROVE  Balanced'
<1> SUFFICES ASSUME NEW s \in Skus
             PROVE  /\ IsFiniteSet(Units(s)')
                    /\ stock'[s] + Cardinality(Units(s)') = InitialStock[s]
  BY DEF Balanced
<1> DEFINE new == {o} \X (1 .. items[s])
<1>1. /\ stock[s] \in Nat /\ items[s] \in Nat /\ deducted[o][s] \in Nat
      /\ stock'[s] = stock[s] - items[s]
      /\ deducted'[o][s] = deducted[o][s] + items[s]
      /\ items[s] > 0 => deducted[o][s] = 0
  BY DEF TypeOK, Deduct, CanDeduct
<1>2. \A x \in Orders : x # o => deducted'[x][s] = deducted[x][s]
  BY DEF TypeOK, Deduct
<1>3. Units(s)' = Units(s) \cup new
  <2>1. \A x \in Orders : \A i : i \in 1 .. deducted'[x][s] <=>
            i \in 1 .. deducted[x][s] \/ (x = o /\ i \in 1 .. items[s])
    BY <1>1, <1>2
  <2> QED
    BY <2>1 DEF Units
<1>4. Units(s) \cap new = {}
  BY <1>1 DEF Units
<1>5. IsFiniteSet(new) /\ Cardinality(new) = items[s]
  BY <1>1, UnitsOfOne
<1>6. /\ IsFiniteSet(Units(s)) /\ Cardinality(Units(s)) \in Nat
      /\ stock[s] + Cardinality(Units(s)) = InitialStock[s]
  BY FS_CardinalityType DEF Balanced
<1> HIDE DEF new
<1>7. /\ IsFiniteSet(Units(s) \cup new)
      /\ Cardinality(Units(s) \cup new) = Cardinality(Units(s)) + Cardinality(new)
  <2>1. /\ IsFiniteSet(Units(s) \cup new)
        /\ Cardinality(Units(s) \cup new) =
              Cardinality(Units(s)) + Cardinality(new) - Cardinality(Units(s) \cap new)
    BY <1>5, <1>6, FS_Union
  <2>2. Cardinality(Units(s) \cap new) = 0
    BY <1>4, FS_EmptySet
  <2> QED
    BY <1>1, <1>5, <1>6, <2>1, <2>2
<1>8. Cardinality(Units(s)') = Cardinality(Units(s)) + items[s]
  BY <1>3, <1>5, <1>7
<1>9. IsFiniteSet(Units(s)')
  BY <1>3, <1>7
<1>10. InitialStock[s] \in Nat
  BY StockAssumption
<1>11. stock'[s] + Cardinality(Units(s)') = InitialStock[s]
  BY <1>1, <1>6, <1>8, <1>10
<1> QED
  BY <1>9, <1>11

-----------------------------------------------------------------------------
(* Which steps touch the inventory                                         *)

\* The payment service writes no row of the inventory, and the stream only
\* grows.
LEMMA PaymentLeaves ==
    ASSUME TypedInv, PaymentNext
    PROVE  /\ UNCHANGED <<inventoryVars, groupVars, conVars>>
           /\ \A m \in 1 .. Len(stream) : stream'[m] = stream[m]
<1>1. UNCHANGED <<inventoryVars, groupVars, conVars>>
  BY DEF PaymentNext, CreateOrder, RebuildOutbox, Pay, PublisherStep, PublisherPoll,
         PublisherCheck, PublisherSend, PublisherMark, PublisherFails, RetryOutboxLoad,
         RetryOutboxClear, RetryOutboxSend, RetryOutboxMark, RetryOutboxClearFails,
         RetryOutboxFails, PaymentCrash
<1>2. stream' = stream \/ \E e \in Payments : stream' = Append(stream, e)
  <2>1. ASSUME PublisherSend
        PROVE  pubEvent \in Payments /\ stream' = Append(stream, pubEvent)
    BY <2>1 DEF PublisherSend, TypedInv, TypeOK, PublisherHoldsEvent
  <2>2. ASSUME NEW e \in Payments, RetryOutboxSend(e)
        PROVE  stream' = Append(stream, e)
    BY <2>2 DEF RetryOutboxSend
  <2> QED
    BY <2>1, <2>2
    DEF PaymentNext, CreateOrder, RebuildOutbox, Pay, PublisherStep, PublisherPoll,
        PublisherCheck, PublisherMark, PublisherFails, RetryOutboxLoad, RetryOutboxClear,
        RetryOutboxMark, RetryOutboxClearFails, RetryOutboxFails, PaymentCrash
<1>3. stream \in Seq(Payments)
  BY DEF TypedInv, TypeOK
<1> QED
  BY <1>1, <1>2, <1>3, StreamAppended

\* Without a fault to inject, injection never reaches its transaction.
LEMMA InjectLeaves ==
    ASSUME InjectableFaults = {}, NoFaults, InjectNext
    PROVE  UNCHANGED <<inventoryVars, groupVars, conVars, stream>>
BY DEF NoFaults, InjectNext, InjectNoIssue, InjectFinish, InjectAbort

-----------------------------------------------------------------------------
(* The stock a step takes is the stock its rows add                        *)

Deducts ==
    \E o \in Orders, items \in [Skus -> Nat], key \in Keys :
        CanDeduct(o, items, key) /\ Deduct(o, items, key)

LEMMA ConsumeDeducts ==
    ASSUME TypedInv, NEW e \in Payments, payments[e] # None, ConsumeEvent(e)
    PROVE  UNCHANGED <<stock, deducted>> \/ Deducts
<1>1. EventOrder(e) \in Orders /\ Items[EventOrder(e)] \in [Skus -> Nat] /\ e \in Keys
  BY ItemsAssumption DEF TypedInv, TypeOK, EventOrder, Keys
<1> QED
  BY <1>1 DEF ConsumeEvent, Deducts

LEMMA StockMoves ==
    ASSUME InjectableFaults = {}, TypedInv, NoFaults, [Next]_vars
    PROVE  UNCHANGED <<stock, deducted>> \/ Deducts
<1>1. CASE PaymentNext
  BY <1>1, PaymentLeaves DEF inventoryVars
<1>2. CASE InjectNext
  BY <1>2, InjectLeaves DEF inventoryVars
<1>3. ASSUME NEW m \in conBatch, ConsumerCommit(m)
      PROVE  UNCHANGED <<stock, deducted>> \/ Deducts
  <2>1. stream[m] \in Payments /\ payments[stream[m]] # None
    BY DEF TypedInv, TypeOK, EventsArePaid
  <2> QED
    BY <1>3, <2>1, ConsumeDeducts DEF ConsumerCommit, ConsumeRejected, inventoryVars
<1>4. ASSUME NEW e \in Payments, RetryEventConsume(e)
      PROVE  UNCHANGED <<stock, deducted>> \/ Deducts
  <2>1. payments[e] # None
    BY <1>4 DEF RetryEventConsume, TypedInv, EventsArePaid, Known
  <2> QED
    BY <1>4, <2>1, ConsumeDeducts DEF RetryEventConsume, ConsumeRejected, inventoryVars
<1>5. ASSUME NEW o \in Orders, DeductOnceCommit(o)
      PROVE  UNCHANGED <<stock, deducted>> \/ Deducts
  <2>1. deductItems[o] \in [Skus -> Nat] /\ deductKey[o] \in Keys
    BY <1>5 DEF DeductOnceCommit, TypedInv, TypeOK, DeductHoldsKey, Keys
  <2> QED
    BY <1>5, <2>1 DEF DeductOnceCommit, Deducts
<1>6. ASSUME InventoryNext,
             ~(\E m \in conBatch : ConsumerCommit(m)),
             ~(\E e \in Payments : RetryEventConsume(e)),
             ~(\E o \in Orders : DeductOnceCommit(o))
      PROVE  UNCHANGED inventoryVars
  BY <1>6 DEF InventoryNext, ConsumerStart, ConsumerStep, ReadNew, ConsumerCheck,
              ConsumerAck, ClaimPending, ConsumerSkips, ConsumerDies, RetryEventLoad,
              RetryEventClear, RetryEventFails, Reconcile, DeductOnceStart,
              DeductOnceCheck, InventoryCrash
<1>7. CASE UNCHANGED vars
  BY <1>7 DEF vars, inventoryVars
<1> QED
  BY <1>1, <1>2, <1>3, <1>4, <1>5, <1>6, <1>7 DEF Next, inventoryVars

LEMMA BalanceStep ==
    ASSUME InjectableFaults = {}
    PROVE  TypedInv /\ NoFaults /\ Balanced /\ [Next]_vars => Balanced'
<1> SUFFICES ASSUME TypedInv, NoFaults, Balanced, [Next]_vars
             PROVE  Balanced'
  OBVIOUS
<1>1. CASE UNCHANGED <<stock, deducted>>
  BY <1>1 DEF Balanced, Units
<1>2. CASE Deducts
  <2>1. PICK o \in Orders, items \in [Skus -> Nat], key \in Keys :
            CanDeduct(o, items, key) /\ Deduct(o, items, key)
    BY <1>2 DEF Deducts
  <2> QED
    BY <2>1, DeductBalances DEF TypedInv
<1> QED
  BY <1>1, <1>2, StockMoves

\* Stock is neither lost nor created, whatever is delivered twice, retried,
\* refused or interrupted: the rows say where every unit went.
THEOREM StockAlwaysConserved ==
    ASSUME InjectableFaults = {}
    PROVE  Spec => []StockConserved
<1>1. Init => Balanced
  <2> SUFFICES ASSUME Init, NEW s \in Skus
               PROVE  /\ IsFiniteSet(Units(s))
                      /\ stock[s] + Cardinality(Units(s)) = InitialStock[s]
    BY DEF Balanced
  <2>1. Units(s) = {}
    BY DEF Init, NoItems, Units
  <2>2. stock[s] = InitialStock[s] /\ InitialStock[s] \in Nat
    BY StockAssumption DEF Init
  <2> QED
    BY <2>1, <2>2, FS_EmptySet
<1>2. DeliveryInv => TypedInv /\ NoFaults
  BY DEF DeliveryInv, PublishInv
<1>3. TypedInv /\ NoFaults /\ Balanced /\ [Next]_vars => Balanced'
  BY BalanceStep
<1>4. Balanced => StockConserved
  BY DEF Balanced, StockConserved
<1> QED
  BY <1>1, <1>2, <1>3, <1>4, DeliveryInvariant, PTL DEF Spec

-----------------------------------------------------------------------------
(* Every acknowledged entry is one counted delivery                        *)

\* A step that takes back no delivery and acknowledges nothing.
AcksNothing ==
    /\ \A e \in Payments : consumed'[e] >= consumed[e]
    /\ \A m \in 1 .. lastDelivered : stream'[m] = stream[m]
    /\ Acked' \subseteq Acked
    /\ conBatch' \subseteq pel'
    /\ conPc' = "ack" => conPc = "ack" /\ conBatch' = conBatch

LEMMA AckedIsFinite ==
    ASSUME TypedInv, NEW e
    PROVE  IsFiniteSet(AckedOf(e)) /\ Cardinality(AckedOf(e)) \in Nat
<1>1. AckedOf(e) \in SUBSET (1 .. lastDelivered) /\ lastDelivered \in Nat
  BY DEF AckedOf, Acked, TypedInv, TypeOK
<1>2. IsFiniteSet(1 .. lastDelivered)
  BY <1>1, FS_Interval
<1> QED
  BY <1>1, <1>2, FS_Subset, FS_CardinalityType

LEMMA AckedOnlyShrinks ==
    ASSUME TypedInv, AcksNothing, NEW e
    PROVE  Cardinality(AckedOf(e)') \in Nat /\ Cardinality(AckedOf(e)') <= Cardinality(AckedOf(e))
<1>1. AckedOf(e)' \in SUBSET AckedOf(e)
  BY DEF AckedOf, Acked, AcksNothing
<1> QED
  BY <1>1, AckedIsFinite, FS_Subset, FS_CardinalityType

LEMMA CountKept ==
    ASSUME TypedInv, TypeOK', CountedInv, AcksNothing
    PROVE  CountedInv'
<1>1. ASSUME NEW e \in Payments
      PROVE  /\ consumed[e] \in Nat /\ consumed'[e] \in Nat /\ consumed'[e] >= consumed[e]
             /\ Cardinality(AckedOf(e)) \in Nat /\ Cardinality(AckedOf(e)') \in Nat
             /\ Cardinality(AckedOf(e)') <= Cardinality(AckedOf(e))
  BY AckedIsFinite, AckedOnlyShrinks DEF AcksNothing, TypedInv, TypeOK
<1>2. AckedDeliveriesCounted'
  <2> SUFFICES ASSUME NEW e \in Payments
               PROVE  consumed'[e] >= Cardinality(AckedOf(e)')
    BY DEF AckedDeliveriesCounted
  <2>1. consumed[e] >= Cardinality(AckedOf(e))
    BY DEF CountedInv, AckedDeliveriesCounted
  <2> QED
    BY <1>1, <2>1
<1>3. BatchIsPending'
  BY DEF AcksNothing, BatchIsPending
<1>4. CommitIsCounted'
  <2> SUFFICES ASSUME conPc' = "ack", NEW m \in conBatch', Current(m)'
               PROVE  (consumed[stream[m]] > Cardinality(AckedOf(stream[m])))'
    BY DEF CommitIsCounted
  <2>1. conPc = "ack" /\ conBatch' = conBatch
    BY DEF AcksNothing
  <2>2. m \in conBatch /\ Current(m)
    BY <2>1 DEF Current
  <2>3. PICK e \in Payments : stream[m] = e /\ stream'[m] = e
    <3>1. m \in 1 .. lastDelivered
      BY <2>2 DEF TypedInv, TypeOK
    <3>2. stream'[m] = stream[m]
      BY <3>1 DEF AcksNothing
    <3>3. stream[m] \in Payments
      BY <3>1 DEF TypedInv, TypeOK
    <3> QED
      BY <3>2, <3>3
  <2>4. consumed[e] > Cardinality(AckedOf(e))
    BY <2>1, <2>2, <2>3 DEF CountedInv, CommitIsCounted
  <2>5. consumed'[e] > Cardinality(AckedOf(e)')
    BY <1>1, <2>4
  <2> QED
    BY <2>3, <2>5
<1> QED
  BY <1>2, <1>3, <1>4 DEF CountedInv

\* A consume transaction counts one delivery of its event.
LEMMA ConsumeAddsOne ==
    ASSUME TypeOK, NEW e \in Payments, ConsumeEvent(e)
    PROVE  \A x \in Payments : consumed'[x] = IF x = e THEN consumed[x] + 1 ELSE consumed[x]
BY DEF TypeOK, ConsumeEvent

\* Between the commit and the acknowledgement the delivery is counted, and
\* its entry is not acknowledged.
LEMMA CommitStep ==
    ASSUME TypedInv, TypeOK', CountedInv, NEW m \in conBatch, ConsumerCommit(m)
    PROVE  CountedInv'
<1>1. /\ stream[m] \in Payments /\ stream' = stream /\ UNCHANGED groupVars
      /\ Current(m) /\ conBatch \subseteq pel
  BY DEF ConsumerCommit, TypedInv, TypeOK, CountedInv, BatchIsPending
<1>2. CASE ConsumeRejected(stream[m]) /\ ConsumerDone(m)
  <2>1. AcksNothing
    BY <1>1, <1>2 DEF AcksNothing, ConsumeRejected, ConsumerDone, inventoryVars, groupVars,
                      Acked, TypedInv, TypeOK
  <2> QED
    BY <2>1, CountKept
<1>3. CASE ConsumeEvent(stream[m]) /\ conPc' = "ack" /\ UNCHANGED conBatch
  <2>1. \A e \in Payments : AckedOf(e)' = AckedOf(e)
    BY <1>1 DEF AckedOf, Acked, groupVars
  <2>2. \A e \in Payments : consumed'[e] = IF e = stream[m] THEN consumed[e] + 1 ELSE consumed[e]
    BY <1>1, <1>3, ConsumeAddsOne DEF TypedInv
  <2>3. \A e \in Payments : /\ consumed[e] \in Nat /\ Cardinality(AckedOf(e)) \in Nat
                            /\ consumed[e] >= Cardinality(AckedOf(e))
    BY AckedIsFinite DEF TypedInv, TypeOK, CountedInv, AckedDeliveriesCounted
  <2>4. AckedDeliveriesCounted'
    <3> SUFFICES ASSUME NEW e \in Payments
                 PROVE  consumed'[e] >= Cardinality(AckedOf(e)')
      BY DEF AckedDeliveriesCounted
    <3> QED
      BY <2>1, <2>2, <2>3
  <2>5. consumed'[stream[m]] > Cardinality(AckedOf(stream[m]))
    BY <1>1, <2>2, <2>3
  <2>6. \A k \in conBatch : Current(k)' => k = m
    BY <1>1, <1>3 DEF Current, TypedInv, TypeOK
  <2>7. CommitIsCounted'
    BY <1>1, <1>3, <2>1, <2>5, <2>6 DEF CommitIsCounted
  <2>8. BatchIsPending'
    BY <1>1, <1>3 DEF BatchIsPending, groupVars
  <2> QED
    BY <2>4, <2>7, <2>8 DEF CountedInv
<1> QED
  BY <1>2, <1>3 DEF ConsumerCommit

\* The acknowledgement uses up what its commit counted.
LEMMA AckStep ==
    ASSUME TypedInv, TypeOK', CountedInv, NEW m \in conBatch, ConsumerAck(m)
    PROVE  CountedInv'
<1>1. /\ stream[m] \in Payments /\ m \in 1 .. lastDelivered
      /\ stream' = stream /\ consumed' = consumed /\ lastDelivered' = lastDelivered
      /\ pel' = pel \ {m} /\ conBatch' = conBatch \ {m} /\ conPc' # "ack"
      /\ consumed[stream[m]] > Cardinality(AckedOf(stream[m]))
  BY DEF ConsumerAck, ConsumerDone, TypedInv, TypeOK, CountedInv, CommitIsCounted, inventoryVars
<1>2. ASSUME NEW e \in Payments
      PROVE  consumed'[e] >= Cardinality(AckedOf(e)')
  <2>1. /\ consumed[e] \in Nat /\ IsFiniteSet(AckedOf(e)) /\ Cardinality(AckedOf(e)) \in Nat
        /\ consumed[e] >= Cardinality(AckedOf(e))
    BY AckedIsFinite DEF TypedInv, TypeOK, CountedInv, AckedDeliveriesCounted
  <2>2. CASE stream[m] = e
    <3>1. AckedOf(e)' = AckedOf(e) \cup {m}
      BY <1>1, <2>2 DEF AckedOf, Acked
    <3>2. Cardinality(AckedOf(e)') <= Cardinality(AckedOf(e)) + 1
      BY <2>1, <3>1, FS_AddElement
    <3>3. Cardinality(AckedOf(e)') \in Nat
      BY <2>1, <3>1, FS_AddElement, FS_CardinalityType
    <3> QED
      BY <1>1, <2>1, <2>2, <3>2, <3>3
  <2>3. CASE stream[m] # e
    <3>1. AckedOf(e)' = AckedOf(e)
      BY <1>1, <2>3 DEF AckedOf, Acked
    <3> QED
      BY <1>1, <2>1, <3>1
  <2> QED
    BY <2>2, <2>3
<1>3. AckedDeliveriesCounted'
  BY <1>2 DEF AckedDeliveriesCounted
<1> QED
  BY <1>1, <1>3 DEF CountedInv, BatchIsPending, CommitIsCounted

LEMMA CountedStep ==
    ASSUME InjectableFaults = {}
    PROVE  TypedInv /\ NoFaults /\ CountedInv /\ [Next]_vars => CountedInv'
<1> SUFFICES ASSUME TypedInv, NoFaults, CountedInv, [Next]_vars
             PROVE  CountedInv'
  OBVIOUS
<1>1. TypeOK'
  BY TypeStep
<1>2. /\ \A e \in Payments : consumed[e] \in Nat
      /\ lastDelivered \in 0 .. Len(stream) /\ Len(stream) \in Nat
      /\ pel \subseteq 1 .. lastDelivered /\ conBatch \subseteq pel
  BY DEF TypedInv, TypeOK, CountedInv, BatchIsPending
<1>3. CASE PaymentNext
  <2>1. /\ UNCHANGED <<consumed, lastDelivered, pel, conPc, conBatch>>
        /\ \A m \in 1 .. Len(stream) : stream'[m] = stream[m]
    BY <1>3, PaymentLeaves DEF inventoryVars, groupVars, conVars
  <2>2. AcksNothing
    BY <1>2, <2>1 DEF AcksNothing, Acked
  <2> QED
    BY <1>1, <2>2, CountKept
<1>4. CASE InjectNext
  <2>1. UNCHANGED <<consumed, stream, lastDelivered, pel, conPc, conBatch>>
    BY <1>4, InjectLeaves DEF inventoryVars, groupVars, conVars
  <2>2. AcksNothing
    BY <1>2, <2>1 DEF AcksNothing, Acked
  <2> QED
    BY <1>1, <2>2, CountKept
<1>5. ASSUME NEW m \in conBatch, ConsumerCommit(m)
      PROVE  CountedInv'
  BY <1>1, <1>5, CommitStep
<1>6. ASSUME NEW m \in conBatch, ConsumerAck(m)
      PROVE  CountedInv'
  BY <1>1, <1>6, AckStep
<1>7. CASE ReadNew
  <2>1. /\ lastDelivered' \in Nat /\ lastDelivered' >= lastDelivered
        /\ pel' = pel \cup ((lastDelivered + 1) .. lastDelivered')
        /\ conBatch' = (lastDelivered + 1) .. lastDelivered' /\ conPc' = "check"
        /\ stream' = stream /\ consumed' = consumed
    BY <1>2, <1>7, BoundAssumption DEF ReadNew, inventoryVars
  <2>2. AcksNothing
    BY <1>2, <2>1 DEF AcksNothing, Acked
  <2> QED
    BY <1>1, <2>2, CountKept
<1>8. ASSUME NEW batch \in Claimable, ClaimPending(batch)
      PROVE  CountedInv'
  <2>1. AcksNothing
    BY <1>2, <1>8 DEF AcksNothing, ClaimPending, Claimable, Acked, inventoryVars, groupVars
  <2> QED
    BY <1>1, <2>1, CountKept
<1>9. ASSUME NEW m \in conBatch, ConsumerCheck(m) \/ ConsumerSkips(m)
      PROVE  CountedInv'
  <2>1. UNCHANGED <<consumed, stream, lastDelivered, pel>>
    BY <1>9 DEF ConsumerCheck, ConsumerSkips, inventoryVars, groupVars
  <2>2. conBatch' \subseteq conBatch /\ conPc' # "ack"
    BY <1>9 DEF ConsumerCheck, ConsumerSkips, ConsumerDone
  <2>3. AcksNothing
    BY <1>2, <2>1, <2>2 DEF AcksNothing, Acked
  <2> QED
    BY <1>1, <2>3, CountKept
<1>10. CASE ConsumerStart \/ ConsumerDies \/ InventoryCrash
  <2>1. UNCHANGED <<consumed, stream, lastDelivered, pel>>
    BY <1>10 DEF ConsumerStart, ConsumerDies, InventoryCrash, inventoryVars, groupVars
  <2>2. conBatch' \subseteq conBatch /\ conPc' # "ack"
    BY <1>10 DEF ConsumerStart, ConsumerDies, InventoryCrash
  <2>3. AcksNothing
    BY <1>2, <2>1, <2>2 DEF AcksNothing, Acked
  <2> QED
    BY <1>1, <2>3, CountKept
<1>11. ASSUME NEW e \in Payments,
              \/ RetryEventLoad(e) \/ RetryEventConsume(e) \/ RetryEventClear(e)
              \/ RetryEventFails(e)
       PROVE  CountedInv'
  <2>1. UNCHANGED <<stream, groupVars, conVars>>
    BY <1>11 DEF RetryEventLoad, RetryEventConsume, RetryEventClear, RetryEventFails
  <2>2. \A x \in Payments : consumed'[x] >= consumed[x]
    <3>1. CASE ConsumeEvent(e)
      BY <1>2, <3>1, ConsumeAddsOne DEF TypedInv
    <3>2. CASE consumed' = consumed
      BY <1>2, <3>2
    <3> QED
      BY <1>11, <3>1, <3>2 DEF RetryEventLoad, RetryEventConsume, RetryEventClear,
                               RetryEventFails, ConsumeRejected, inventoryVars
  <2>3. AcksNothing
    BY <1>2, <2>1, <2>2 DEF AcksNothing, Acked, groupVars, conVars
  <2> QED
    BY <1>1, <2>3, CountKept
<1>12. ASSUME NEW o \in Orders,
              DeductOnceStart(o) \/ DeductOnceCheck(o) \/ DeductOnceCommit(o)
       PROVE  CountedInv'
  <2>1. UNCHANGED <<stream, groupVars, conVars, consumed>>
    BY <1>12 DEF DeductOnceStart, DeductOnceCheck, DeductOnceCommit, inventoryVars
  <2>2. AcksNothing
    BY <1>2, <2>1 DEF AcksNothing, Acked, groupVars, conVars
  <2> QED
    BY <1>1, <2>2, CountKept
<1>13. CASE UNCHANGED vars
  <2>1. AcksNothing
    BY <1>2, <1>13 DEF AcksNothing, Acked, vars, groupVars, conVars, inventoryVars
  <2> QED
    BY <1>1, <2>1, CountKept
<1> QED
  BY <1>3, <1>4, <1>5, <1>6, <1>7, <1>8, <1>9, <1>10, <1>11, <1>12, <1>13
  DEF Next, InventoryNext, ConsumerStep, Reconcile

\* The consumer acknowledges after it commits: however deliveries are repeated
\* and whatever dies between the two, every acknowledged entry is one counted
\* delivery of its event.
THEOREM AckedDeliveriesAlwaysCounted ==
    ASSUME InjectableFaults = {}
    PROVE  Spec => []AckedDeliveriesCounted
<1>1. Init => CountedInv
  <2> SUFFICES ASSUME Init
               PROVE  CountedInv
    OBVIOUS
  <2>1. \A e \in Payments : AckedOf(e) = {} /\ consumed[e] = 0
    BY DEF Init, AckedOf, Acked
  <2>2. AckedDeliveriesCounted
    BY <2>1, FS_EmptySet DEF AckedDeliveriesCounted
  <2>3. BatchIsPending /\ CommitIsCounted
    BY DEF Init, BatchIsPending, CommitIsCounted
  <2> QED
    BY <2>2, <2>3 DEF CountedInv
<1>2. DeliveryInv => TypedInv /\ NoFaults
  BY DEF DeliveryInv, PublishInv
<1>3. TypedInv /\ NoFaults /\ CountedInv /\ [Next]_vars => CountedInv'
  BY CountedStep
<1>4. CountedInv => AckedDeliveriesCounted
  BY DEF CountedInv
<1> QED
  BY <1>1, <1>2, <1>3, <1>4, DeliveryInvariant, PTL DEF Spec
=============================================================================
