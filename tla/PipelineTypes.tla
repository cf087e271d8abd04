--------------------------- MODULE PipelineTypes ---------------------------
(***************************************************************************)
(* Type correctness of OrderPipeline, for every value of the constants.    *)
(***************************************************************************)
EXTENDS PipelineInvariants, TLAPS

\* A publish appends one entry and leaves the others in place.
LEMMA StreamAppended ==
    ASSUME TypeOK, NEW e \in Payments, stream' = Append(stream, e)
    PROVE  /\ stream' \in Seq(Payments)
           /\ Len(stream) \in Nat
           /\ Len(stream') = Len(stream) + 1
           /\ \A m \in 1 .. Len(stream) : stream'[m] = stream[m]
           /\ stream'[Len(stream) + 1] = e
BY DEF TypeOK

\* What the deduction of an order writes is well typed: CanDeduct keeps every
\* stock row a natural number.
LEMMA DeductTypes ==
    ASSUME TypeOK, NEW o \in Orders, NEW items \in [Skus -> Nat],
           NEW key \in Keys, CanDeduct(o, items, key), Deduct(o, items, key)
    PROVE  /\ stock' \in [Skus -> Nat]
           /\ deducted' \in [Orders -> [Skus -> Nat]]
           /\ deductionKey' \in [Orders -> [Skus -> Keys \cup {None}]]
<1>1. ASSUME NEW s \in Skus PROVE stock[s] - items[s] \in Nat
  <2>1. stock[s] \in Nat /\ items[s] \in Nat
    BY DEF TypeOK
  <2>2. items[s] > 0 => stock[s] >= items[s]
    BY DEF CanDeduct
  <2> QED
    BY <2>1, <2>2
<1>2. stock' \in [Skus -> Nat]
  BY <1>1 DEF Deduct
<1>3. deducted' \in [Orders -> [Skus -> Nat]]
  BY DEF TypeOK, Deduct
<1>4. deductionKey' \in [Orders -> [Skus -> Keys \cup {None}]]
  BY DEF TypeOK, Deduct
<1> QED
  BY <1>2, <1>3, <1>4

\* The same for the consume transaction, whose event must be a paid one: its
\* payload names an order.
LEMMA ConsumeTypes ==
    ASSUME TypeOK, NEW e \in Payments, payments[e] # None, ConsumeEvent(e)
    PROVE  /\ stock' \in [Skus -> Nat]
           /\ deducted' \in [Orders -> [Skus -> Nat]]
           /\ deductionKey' \in [Orders -> [Skus -> Keys \cup {None}]]
           /\ consumed' \in [Payments -> Nat]
<1>1. EventOrder(e) \in Orders /\ e \in Keys
  BY DEF TypeOK, EventOrder, Keys
<1>2. Items[EventOrder(e)] \in [Skus -> Nat]
  BY <1>1, ItemsAssumption
<1>3. consumed' \in [Payments -> Nat]
  <2>1. \/ consumed' = [consumed EXCEPT ![e] = @ + 1]
        \/ consumed' = [consumed EXCEPT ![e] = 1]
    BY DEF ConsumeEvent
  <2>2. consumed \in [Payments -> Nat] /\ consumed[e] + 1 \in Nat
    BY DEF TypeOK
  <2> QED
    BY <2>1, <2>2
<1>4. CASE consumed[e] > 0
  BY <1>3, <1>4 DEF ConsumeEvent, TypeOK
<1>5. CASE ~(consumed[e] > 0)
  <2>1. /\ CanDeduct(EventOrder(e), Items[EventOrder(e)], e)
        /\ Deduct(EventOrder(e), Items[EventOrder(e)], e)
    BY <1>5 DEF ConsumeEvent
  <2> QED
    BY <1>1, <1>2, <1>3, <2>1, DeductTypes
<1> QED
  BY <1>4, <1>5

\* No step leaves the types, as long as every event somebody holds is paid.
LEMMA TypeStep == TypedInv /\ [Next]_vars => TypeOK'
<1> SUFFICES ASSUME TypedInv, [Next]_vars
             PROVE  TypeOK'
  OBVIOUS
<1> USE DEF TypedInv, TypeOK, orderVars, inventoryVars, groupVars, pubVars, conVars,
            deductVars, injectVars, boundVars
<1> USE BoundAssumption DEF Disrupt, OperatorCall
<1>1. ASSUME NEW o \in Orders, CreateOrder(o) PROVE TypeOK'
  BY <1>1 DEF CreateOrder
<1>2. ASSUME NEW o \in Orders, NEW p \in Payments, Pay(o, p) PROVE TypeOK'
  <2>1. history' \in [Orders -> Seq({"PENDING_PAYMENT", "PAID"})]
    BY <1>2 DEF Pay
  <2> QED
    BY <1>2, <2>1 DEF Pay
<1>3. ASSUME PublisherPoll PROVE TypeOK'
  BY <1>3 DEF PublisherPoll, PendingOutbox
<1>4. ASSUME NEW e \in Payments, PublisherCheck(e) PROVE TypeOK'
  BY <1>4 DEF PublisherCheck, PublisherDone
<1>5. ASSUME PublisherSend PROVE TypeOK'
  <2>1. pubEvent \in Payments /\ stream' = Append(stream, pubEvent)
    BY <1>5 DEF PublisherSend, PublisherHoldsEvent
  <2>2. stream' \in Seq(Payments) /\ lastDelivered \in 0 .. Len(stream')
    BY <2>1, StreamAppended
  <2> QED
    BY <1>5, <2>2 DEF PublisherSend
<1>6. ASSUME PublisherMark PROVE TypeOK'
  BY <1>6 DEF PublisherMark, PublisherDone
<1>7. ASSUME PublisherFails PROVE TypeOK'
  BY <1>7 DEF PublisherFails
<1>8. ASSUME NEW e \in Payments, RetryOutboxLoad(e) PROVE TypeOK'
  BY <1>8 DEF RetryOutboxLoad
<1>9. ASSUME NEW e \in Payments, RetryOutboxClear(e) PROVE TypeOK'
  BY <1>9 DEF RetryOutboxClear, ClearFault
<1>10. ASSUME NEW e \in Payments, RetryOutboxSend(e) PROVE TypeOK'
  <2>1. stream' \in Seq(Payments) /\ lastDelivered \in 0 .. Len(stream')
    BY <1>10, StreamAppended DEF RetryOutboxSend
  <2> QED
    BY <1>10, <2>1 DEF RetryOutboxSend
<1>11. ASSUME NEW e \in Payments, RetryOutboxMark(e) PROVE TypeOK'
  BY <1>11 DEF RetryOutboxMark
<1>12. ASSUME NEW e \in Payments, RetryOutboxClearFails(e) PROVE TypeOK'
  BY <1>12 DEF RetryOutboxClearFails
<1>36. ASSUME NEW e \in Payments, RetryOutboxFails(e) PROVE TypeOK'
  BY <1>36 DEF RetryOutboxFails
<1>13. ASSUME NEW o \in Orders, RebuildOutbox(o) PROVE TypeOK'
  <2>1. outbox' \in [Payments -> {"ABSENT", "PENDING", "PUBLISHED"}]
    BY <1>13 DEF RebuildOutbox
  <2>2. failures' \in 0 .. MaxFailures /\ operatorCalls' \in 0 .. MaxOperatorCalls
    BY <1>13 DEF RebuildOutbox
  <2> QED
    BY <1>13, <2>1, <2>2 DEF RebuildOutbox, ClearFault
<1>14. ASSUME PaymentCrash PROVE TypeOK'
  BY <1>14 DEF PaymentCrash
<1>15. ASSUME ConsumerStart PROVE TypeOK'
  BY <1>15 DEF ConsumerStart
<1>16. ASSUME ReadNew PROVE TypeOK'
  <2>1. /\ lastDelivered' \in Nat
        /\ lastDelivered < lastDelivered' /\ lastDelivered' <= Len(stream)
        /\ pel' = pel \cup ((lastDelivered + 1) .. lastDelivered')
        /\ conBatch' = (lastDelivered + 1) .. lastDelivered'
    BY <1>16 DEF ReadNew
  <2>2. lastDelivered' \in 0 .. Len(stream)
    BY <2>1
  <2>3. pel' \subseteq 1 .. lastDelivered' /\ conBatch' \subseteq 1 .. lastDelivered'
    BY <2>1
  <2> QED
    BY <1>16, <2>2, <2>3 DEF ReadNew
<1>17. ASSUME NEW batch \in Claimable, ClaimPending(batch) PROVE TypeOK'
  BY <1>17 DEF ClaimPending, Claimable
<1>18. ASSUME NEW m \in conBatch, ConsumerCheck(m) PROVE TypeOK'
  BY <1>18 DEF ConsumerCheck, ConsumerDone
<1>19. ASSUME NEW m \in conBatch, ConsumerCommit(m) PROVE TypeOK'
  <2>1. stream[m] \in Payments /\ payments[stream[m]] # None
    BY DEF EventsArePaid
  <2>2. CASE ConsumeEvent(stream[m]) /\ conPc' = "ack" /\ UNCHANGED conBatch
    <3>1. /\ stock' \in [Skus -> Nat]
          /\ deducted' \in [Orders -> [Skus -> Nat]]
          /\ deductionKey' \in [Orders -> [Skus -> Keys \cup {None}]]
          /\ consumed' \in [Payments -> Nat]
      BY <2>1, <2>2, ConsumeTypes DEF TypedInv
    <3> QED
      BY <1>19, <2>2, <3>1 DEF ConsumerCommit
  <2>3. CASE ConsumeRejected(stream[m]) /\ ConsumerDone(m)
    BY <1>19, <2>3 DEF ConsumerCommit, ConsumeRejected, ConsumerDone
  <2> QED
    BY <1>19, <2>2, <2>3 DEF ConsumerCommit
<1>20. ASSUME NEW m \in conBatch, ConsumerAck(m) PROVE TypeOK'
  BY <1>20 DEF ConsumerAck, ConsumerDone
<1>21. ASSUME NEW m \in conBatch, ConsumerSkips(m) PROVE TypeOK'
  BY <1>21 DEF ConsumerSkips, ConsumerDone
<1>22. ASSUME ConsumerDies PROVE TypeOK'
  BY <1>22 DEF ConsumerDies
<1>23. ASSUME NEW e \in Payments, RetryEventLoad(e) PROVE TypeOK'
  BY <1>23 DEF RetryEventLoad
<1>24. ASSUME NEW e \in Payments, RetryEventConsume(e) PROVE TypeOK'
  <2>0. \/ retryEventPc' = [retryEventPc EXCEPT ![e] = "consumed"]
        \/ retryEventPc' = [retryEventPc EXCEPT ![e] = "idle"]
    BY <1>24 DEF RetryEventConsume
  <2>1. payments[e] # None
    BY <1>24 DEF RetryEventConsume, EventsArePaid, Known
  <2>2. CASE ConsumeEvent(e)
    <3>1. /\ stock' \in [Skus -> Nat]
          /\ deducted' \in [Orders -> [Skus -> Nat]]
          /\ deductionKey' \in [Orders -> [Skus -> Keys \cup {None}]]
          /\ consumed' \in [Payments -> Nat]
      BY <2>1, <2>2, ConsumeTypes DEF TypedInv
    <3>2. retryEventPc' \in [Payments -> {"idle", "loaded", "consumed"}]
      BY <2>0
    <3> QED
      BY <1>24, <3>1, <3>2 DEF RetryEventConsume
  <2>3. CASE ConsumeRejected(e)
    <3>1. retryEventPc' \in [Payments -> {"idle", "loaded", "consumed"}]
      BY <2>0
    <3> QED
      BY <1>24, <2>3, <3>1 DEF RetryEventConsume, ConsumeRejected
  <2> QED
    BY <1>24, <2>2, <2>3 DEF RetryEventConsume
<1>25. ASSUME NEW e \in Payments, RetryEventClear(e) PROVE TypeOK'
  BY <1>25 DEF RetryEventClear, ClearFault
<1>26. ASSUME NEW e \in Payments, RetryEventFails(e) PROVE TypeOK'
  BY <1>26 DEF RetryEventFails
<1>27. ASSUME NEW o \in Orders, DeductOnceStart(o) PROVE TypeOK'
  <2>1. deductItems' \in [Orders -> [Skus -> Nat]]
    BY <1>27, RequestAssumption DEF DeductOnceStart
  <2>2. deductKey' \in [Orders -> RequestKeys \cup {None}]
    BY <1>27 DEF DeductOnceStart
  <2>3. faults' \in [Orders -> FaultTypes \cup {None}]
    BY <1>27 DEF DeductOnceStart, ClearFault
  <2> QED
    BY <1>27, <2>1, <2>2, <2>3 DEF DeductOnceStart
<1>28. ASSUME NEW o \in Orders, DeductOnceCheck(o) PROVE TypeOK'
  <2>1. NoItems \in [Skus -> Nat]
    BY DEF NoItems
  <2>2. CASE deductPc' = [deductPc EXCEPT ![o] = "checked"]
             /\ UNCHANGED <<deductItems, deductKey>>
    BY <1>28, <2>2 DEF DeductOnceCheck
  <2>3. CASE DeductOnceReturn(o)
    BY <1>28, <2>1, <2>3 DEF DeductOnceCheck, DeductOnceReturn
  <2> QED
    BY <1>28, <2>2, <2>3 DEF DeductOnceCheck
<1>29. ASSUME NEW o \in Orders, DeductOnceCommit(o) PROVE TypeOK'
  <2>1. /\ deductPc' \in [Orders -> {"idle", "cleared", "checked"}]
        /\ deductItems' \in [Orders -> [Skus -> Nat]]
        /\ deductKey' \in [Orders -> RequestKeys \cup {None}]
    BY <1>29 DEF DeductOnceCommit, DeductOnceReturn, NoItems
  <2>2. CASE CanDeduct(o, deductItems[o], deductKey[o])
    <3>1. deductKey[o] \in Keys
      BY <1>29, <2>2 DEF Keys, DeductOnceCommit, DeductHoldsKey
    <3>2. Deduct(o, deductItems[o], deductKey[o])
      BY <1>29, <2>2 DEF DeductOnceCommit
    <3>3. /\ stock' \in [Skus -> Nat]
          /\ deducted' \in [Orders -> [Skus -> Nat]]
          /\ deductionKey' \in [Orders -> [Skus -> Keys \cup {None}]]
      BY <2>2, <3>1, <3>2, DeductTypes
    <3> QED
      BY <1>29, <2>1, <3>3 DEF DeductOnceCommit
  <2>3. CASE ~CanDeduct(o, deductItems[o], deductKey[o])
    BY <1>29, <2>1, <2>3 DEF DeductOnceCommit
  <2> QED
    BY <2>2, <2>3
<1>30. ASSUME InventoryCrash PROVE TypeOK'
  BY <1>30 DEF InventoryCrash, NoItems
<1>31. ASSUME NEW o \in Orders, InjectNoIssue(o) PROVE TypeOK'
  BY <1>31 DEF InjectNoIssue
<1>32. ASSUME NEW o \in Orders, NEW f \in InjectableFaults, InjectStart(o, f)
       PROVE TypeOK'
  <2>1. injectFault' \in [Orders -> FaultTypes \cup {None}]
    BY <1>32, RequestAssumption DEF InjectStart
  <2>2. injectRestore' \in [Orders -> [Skus -> Nat]]
    BY <1>32 DEF InjectStart
  <2> QED
    BY <1>32, <2>1, <2>2 DEF InjectStart
<1>33. ASSUME NEW o \in Orders, InjectFinish(o) PROVE TypeOK'
  <2>1. /\ injectFault' \in [Orders -> FaultTypes \cup {None}]
        /\ injectRestore' \in [Orders -> [Skus -> Nat]]
        /\ faults' \in [Orders -> FaultTypes \cup {None}]
    BY <1>33 DEF InjectFinish, InjectReturn, NoItems
  <2>2. outbox' \in [Payments -> {"ABSENT", "PENDING", "PUBLISHED"}]
    BY <1>33 DEF InjectFinish, ResetOutbox
  <2>3. CASE injectFault[o] \in ResetFaults
    <3>1. \A s \in Skus : Replenished(o, s) \in Nat
      BY StockAssumption DEF Replenished
    <3>2. stock' \in [Skus -> Nat]
      BY <1>33, <2>3, <3>1 DEF InjectFinish, ResetInventory
    <3>0. ResetInventory(o)
      BY <1>33, <2>3 DEF InjectFinish
    <3>3. /\ deducted' \in [Orders -> [Skus -> Nat]]
          /\ deductionKey' \in [Orders -> [Skus -> Keys \cup {None}]]
      <4>1. NoItems \in [Skus -> Nat] /\ [s \in Skus |-> None] \in [Skus -> Keys \cup {None}]
        BY DEF NoItems
      <4> QED
        BY <3>0, <4>1 DEF ResetInventory
    <3>4. consumed' \in [Payments -> Nat]
      BY <3>0 DEF ResetInventory
    <3> QED
      BY <1>33, <2>1, <2>2, <3>2, <3>3, <3>4 DEF InjectFinish
  <2>4. CASE injectFault[o] \notin ResetFaults
    BY <1>33, <2>1, <2>2, <2>4 DEF InjectFinish
  <2> QED
    BY <2>3, <2>4
<1>34. ASSUME NEW o \in Orders, InjectAbort(o) PROVE TypeOK'
  BY <1>34 DEF InjectAbort, InjectReturn, NoItems
<1>35. CASE UNCHANGED vars
  BY <1>35 DEF vars
<1>99. QED
  BY <1>1, <1>2, <1>3, <1>4, <1>5, <1>6, <1>7, <1>8, <1>9, <1>10, <1>11, <1>12,
     <1>13, <1>14, <1>15, <1>16, <1>17, <1>18, <1>19, <1>20, <1>21, <1>22, <1>23,
     <1>24, <1>25, <1>26, <1>27, <1>28, <1>29, <1>30, <1>31, <1>32, <1>33, <1>34,
     <1>35, <1>36
  DEF Next, PaymentNext, PublisherStep, InventoryNext, ConsumerStep, Reconcile,
      InjectNext

\* A consume transaction counts a delivery of its own event and of no other.
LEMMA CommitCounts ==
    ASSUME TypeOK, NEW e \in Payments, ConsumeEvent(e)
    PROVE  \A x \in Payments : x # e => consumed'[x] = consumed[x]
BY DEF TypeOK, ConsumeEvent

\* Every event somebody comes to hold was already held, or was just paid:
\* no step invents one, and a payment is never deleted.
LEMMA HoldStep ==
    TypedInv /\ [Next]_vars => PublisherHoldsEvent' /\ EventsArePaid' /\ DeductHoldsKey'
<1> SUFFICES ASSUME TypedInv, [Next]_vars
             PROVE  PublisherHoldsEvent' /\ EventsArePaid' /\ DeductHoldsKey'
  OBVIOUS
<1> USE DEF TypedInv, TypeOK, PublisherHoldsEvent, EventsArePaid, Known, DeductHoldsKey,
            orderVars, inventoryVars, groupVars, pubVars, conVars, deductVars, injectVars,
            boundVars
<1>1. ASSUME NEW o \in Orders, CreateOrder(o)
      PROVE  PublisherHoldsEvent' /\ EventsArePaid' /\ DeductHoldsKey'
  BY <1>1 DEF CreateOrder
<1>2. ASSUME NEW o \in Orders, NEW p \in Payments, Pay(o, p)
      PROVE  PublisherHoldsEvent' /\ EventsArePaid' /\ DeductHoldsKey'
  BY <1>2 DEF Pay
<1>3. ASSUME PublisherPoll
      PROVE  PublisherHoldsEvent' /\ EventsArePaid' /\ DeductHoldsKey'
  BY <1>3 DEF PublisherPoll, PendingOutbox
<1>4. ASSUME NEW e \in Payments, PublisherCheck(e)
      PROVE  PublisherHoldsEvent' /\ EventsArePaid' /\ DeductHoldsKey'
  <2>1. e # None
    BY NoneAssumption
  <2>2. CASE pubEvent' = e /\ pubPc' = "publish" /\ UNCHANGED pubBatch
    BY <1>4, <2>1, <2>2 DEF PublisherCheck
  <2>3. CASE PublisherDone(e)
    BY <1>4, <2>3, NoneAssumption DEF PublisherCheck, PublisherDone
  <2> QED
    BY <1>4, <2>2, <2>3 DEF PublisherCheck
<1>5. ASSUME PublisherSend
      PROVE  PublisherHoldsEvent' /\ EventsArePaid' /\ DeductHoldsKey'
  BY <1>5 DEF PublisherSend
<1>6. ASSUME PublisherMark
      PROVE  PublisherHoldsEvent' /\ EventsArePaid' /\ DeductHoldsKey'
  <2>1. \A e \in Payments : outbox'[e] # "ABSENT" => outbox[e] # "ABSENT"
    BY <1>6 DEF PublisherMark
  <2>2. pubBatch' \subseteq pubBatch /\ pubEvent' = None /\ pubPc' \in {"idle", "check"}
    BY <1>6 DEF PublisherMark, PublisherDone
  <2> QED
    BY <1>6, <2>1, <2>2, NoneAssumption DEF PublisherMark
<1>7. ASSUME PublisherFails
      PROVE  PublisherHoldsEvent' /\ EventsArePaid' /\ DeductHoldsKey'
  BY <1>7, NoneAssumption DEF PublisherFails
<1>8. ASSUME NEW e \in Payments, RetryOutboxLoad(e)
      PROVE  PublisherHoldsEvent' /\ EventsArePaid' /\ DeductHoldsKey'
  BY <1>8 DEF RetryOutboxLoad
<1>9. ASSUME NEW e \in Payments, RetryOutboxClear(e)
      PROVE  PublisherHoldsEvent' /\ EventsArePaid' /\ DeductHoldsKey'
  BY <1>9 DEF RetryOutboxClear
<1>10. ASSUME NEW e \in Payments, RetryOutboxSend(e)
       PROVE  PublisherHoldsEvent' /\ EventsArePaid' /\ DeductHoldsKey'
  BY <1>10 DEF RetryOutboxSend
<1>11. ASSUME NEW e \in Payments, RetryOutboxMark(e)
       PROVE  PublisherHoldsEvent' /\ EventsArePaid' /\ DeductHoldsKey'
  BY <1>11 DEF RetryOutboxMark
<1>12. ASSUME NEW e \in Payments, RetryOutboxClearFails(e)
       PROVE  PublisherHoldsEvent' /\ EventsArePaid' /\ DeductHoldsKey'
  BY <1>12 DEF RetryOutboxClearFails
<1>13. ASSUME NEW e \in Payments, RetryOutboxFails(e)
       PROVE  PublisherHoldsEvent' /\ EventsArePaid' /\ DeductHoldsKey'
  BY <1>13 DEF RetryOutboxFails
<1>14. ASSUME NEW o \in Orders, RebuildOutbox(o)
       PROVE  PublisherHoldsEvent' /\ EventsArePaid' /\ DeductHoldsKey'
  <2>1. PICK p \in Payments :
          /\ payments[p] = o
          /\ outbox' = IF outbox[p] = "ABSENT"
                       THEN [outbox EXCEPT ![p] = "PENDING"]
                       ELSE outbox
    BY <1>14 DEF RebuildOutbox
  <2>2. o # None
    BY NoneAssumption
  <2>3. \A e \in Payments : outbox'[e] # "ABSENT" => outbox[e] # "ABSENT" \/ e = p
    BY <2>1
  <2> QED
    BY <1>14, <2>1, <2>2, <2>3 DEF RebuildOutbox
<1>15. ASSUME PaymentCrash
       PROVE  PublisherHoldsEvent' /\ EventsArePaid' /\ DeductHoldsKey'
  BY <1>15, NoneAssumption DEF PaymentCrash
<1>16. ASSUME ConsumerStart
       PROVE  PublisherHoldsEvent' /\ EventsArePaid' /\ DeductHoldsKey'
  BY <1>16 DEF ConsumerStart
<1>17. ASSUME ReadNew
       PROVE  PublisherHoldsEvent' /\ EventsArePaid' /\ DeductHoldsKey'
  BY <1>17 DEF ReadNew
<1>18. ASSUME NEW batch \in Claimable, ClaimPending(batch)
       PROVE  PublisherHoldsEvent' /\ EventsArePaid' /\ DeductHoldsKey'
  BY <1>18 DEF ClaimPending
<1>19. ASSUME NEW m \in conBatch, ConsumerCheck(m)
       PROVE  PublisherHoldsEvent' /\ EventsArePaid' /\ DeductHoldsKey'
  BY <1>19 DEF ConsumerCheck
<1>20. ASSUME NEW m \in conBatch, ConsumerCommit(m)
       PROVE  PublisherHoldsEvent' /\ EventsArePaid' /\ DeductHoldsKey'
  <2>1. stream[m] \in Payments /\ payments[stream[m]] # None
    OBVIOUS
  <2>2. \A e \in Payments : consumed'[e] > 0 => consumed[e] > 0 \/ e = stream[m]
    BY <1>20, <2>1, CommitCounts DEF ConsumerCommit, ConsumeRejected
  <2> QED
    BY <1>20, <2>1, <2>2 DEF ConsumerCommit
<1>21. ASSUME NEW m \in conBatch, ConsumerAck(m)
       PROVE  PublisherHoldsEvent' /\ EventsArePaid' /\ DeductHoldsKey'
  BY <1>21 DEF ConsumerAck
<1>22. ASSUME NEW m \in conBatch, ConsumerSkips(m)
       PROVE  PublisherHoldsEvent' /\ EventsArePaid' /\ DeductHoldsKey'
  BY <1>22 DEF ConsumerSkips
<1>23. ASSUME ConsumerDies
       PROVE  PublisherHoldsEvent' /\ EventsArePaid' /\ DeductHoldsKey'
  BY <1>23 DEF ConsumerDies
<1>24. ASSUME NEW e \in Payments, RetryEventLoad(e)
       PROVE  PublisherHoldsEvent' /\ EventsArePaid' /\ DeductHoldsKey'
  BY <1>24 DEF RetryEventLoad
<1>25. ASSUME NEW e \in Payments, RetryEventConsume(e)
       PROVE  PublisherHoldsEvent' /\ EventsArePaid' /\ DeductHoldsKey'
  <2>1. payments[e] # None
    BY <1>25 DEF RetryEventConsume
  <2>2. \A x \in Payments : consumed'[x] > 0 => consumed[x] > 0 \/ x = e
    BY <1>25, CommitCounts DEF RetryEventConsume, ConsumeRejected
  <2>3. \A x \in Payments : retryEventPc'[x] # "idle" => retryEventPc[x] # "idle"
    BY <1>25 DEF RetryEventConsume
  <2> QED
    BY <1>25, <2>1, <2>2, <2>3 DEF RetryEventConsume
<1>26. ASSUME NEW e \in Payments, RetryEventClear(e)
       PROVE  PublisherHoldsEvent' /\ EventsArePaid' /\ DeductHoldsKey'
  BY <1>26 DEF RetryEventClear
<1>27. ASSUME NEW e \in Payments, RetryEventFails(e)
       PROVE  PublisherHoldsEvent' /\ EventsArePaid' /\ DeductHoldsKey'
  BY <1>27 DEF RetryEventFails
<1>28. ASSUME NEW o \in Orders, DeductOnceStart(o)
       PROVE  PublisherHoldsEvent' /\ EventsArePaid' /\ DeductHoldsKey'
  <2>1. PICK key \in RequestKeys : deductKey' = [deductKey EXCEPT ![o] = key]
    BY <1>28 DEF DeductOnceStart
  <2>2. key # None
    BY NoneAssumption
  <2> QED
    BY <1>28, <2>1, <2>2 DEF DeductOnceStart
<1>29. ASSUME NEW o \in Orders, DeductOnceCheck(o)
       PROVE  PublisherHoldsEvent' /\ EventsArePaid' /\ DeductHoldsKey'
  BY <1>29 DEF DeductOnceCheck, DeductOnceReturn
<1>30. ASSUME NEW o \in Orders, DeductOnceCommit(o)
       PROVE  PublisherHoldsEvent' /\ EventsArePaid' /\ DeductHoldsKey'
  BY <1>30 DEF DeductOnceCommit, DeductOnceReturn
<1>31. ASSUME InventoryCrash
       PROVE  PublisherHoldsEvent' /\ EventsArePaid' /\ DeductHoldsKey'
  BY <1>31 DEF InventoryCrash
<1>32. ASSUME NEW o \in Orders, InjectNoIssue(o)
       PROVE  PublisherHoldsEvent' /\ EventsArePaid' /\ DeductHoldsKey'
  BY <1>32 DEF InjectNoIssue
<1>33. ASSUME NEW o \in Orders, NEW f \in InjectableFaults, InjectStart(o, f)
       PROVE  PublisherHoldsEvent' /\ EventsArePaid' /\ DeductHoldsKey'
  BY <1>33 DEF InjectStart
<1>34. ASSUME NEW o \in Orders, InjectFinish(o)
       PROVE  PublisherHoldsEvent' /\ EventsArePaid' /\ DeductHoldsKey'
  <2>1. \A e \in Payments : outbox'[e] # "ABSENT" => outbox[e] # "ABSENT"
    BY <1>34 DEF InjectFinish, ResetOutbox
  <2>2. \A e \in Payments : consumed'[e] > 0 => consumed[e] > 0
    <3>1. CASE ResetInventory(o)
      BY <3>1 DEF ResetInventory
    <3>2. CASE UNCHANGED inventoryVars
      BY <3>2
    <3> QED
      BY <1>34, <3>1, <3>2 DEF InjectFinish
  <2> QED
    BY <1>34, <2>1, <2>2 DEF InjectFinish
<1>35. ASSUME NEW o \in Orders, InjectAbort(o)
       PROVE  PublisherHoldsEvent' /\ EventsArePaid' /\ DeductHoldsKey'
  BY <1>35 DEF InjectAbort
<1>36. CASE UNCHANGED vars
  BY <1>36 DEF vars
<1> QED
  BY <1>1, <1>2, <1>3, <1>4, <1>5, <1>6, <1>7, <1>8, <1>9, <1>10, <1>11,
     <1>12, <1>13, <1>14, <1>15, <1>16, <1>17, <1>18, <1>19, <1>20, <1>21,
     <1>22, <1>23, <1>24, <1>25, <1>26, <1>27, <1>28, <1>29, <1>30, <1>31,
     <1>32, <1>33, <1>34, <1>35, <1>36
  DEF Next, PaymentNext, PublisherStep, InventoryNext, ConsumerStep, Reconcile,
      InjectNext

\* Types and held events, together inductive.
THEOREM TypedInvariant == Spec => []TypedInv
<1>1. Init => TypedInv
  <2> SUFFICES ASSUME Init PROVE TypedInv
    OBVIOUS
  <2>1. TypeOK
    BY StockAssumption, BoundAssumption DEF Init, TypeOK, NoItems
  <2>2. PublisherHoldsEvent /\ EventsArePaid /\ DeductHoldsKey
    BY NoneAssumption DEF Init, PublisherHoldsEvent, EventsArePaid, Known, DeductHoldsKey
  <2> QED
    BY <2>1, <2>2 DEF TypedInv
<1>2. TypedInv /\ [Next]_vars => TypedInv'
  BY TypeStep, HoldStep DEF TypedInv
<1> QED
  BY <1>1, <1>2, PTL DEF Spec

\* Every reachable state of the pipeline is well typed; in particular no
\* stock row goes negative and the group's cursor stays inside the stream.
THEOREM TypeCorrect == Spec => []TypeOK
<1>1. TypedInv => TypeOK
  BY DEF TypedInv
<1> QED
  BY <1>1, TypedInvariant, PTL
=============================================================================
