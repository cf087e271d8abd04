---------------------------- MODULE DemoFaults ----------------------------
(***************************************************************************)
(* internal/agentruntime InjectDemoFault: one READ COMMITTED transaction   *)
(* that rewinds a demo order and sets its fault switch.                    *)
(*                                                                         *)
(* It takes no lock on the order and none on the event, so it is two       *)
(* steps.  The first is restoreDemoStock, whose UPDATE reads the order's   *)
(* deductions and locks the stock rows it adds them to.  The second is the *)
(* rest and the commit; its statements see what committed in between.      *)
(***************************************************************************)
EXTENDS PipelineState

OutboxResetFaults == PublishFaults \cup {"OUTBOX_NOT_CREATED"}

ResetFaults == OutboxResetFaults \cup ConsumerFaults

\* FaultType NO_ISSUE: the switch is deleted and nothing else is touched.
InjectNoIssue(o) ==
    /\ OperatorCall
    /\ o \in DemoOrders
    /\ orderStatus[o] # "ABSENT"
    /\ faults[o] # None
    /\ faults' = [faults EXCEPT ![o] = None]
    /\ UNCHANGED <<orderVars, payments, outbox, inventoryVars, stream, groupVars,
                   pubVars, retryOutboxPc, conVars, retryEventPc, deductVars,
                   injectVars>>

\* Begin, the existence check and, for a fault that resets inventory,
\* restoreDemoStock: what it adds stays invisible until the commit.  One
\* injection of an order is under way at a time, which is a bound: the code
\* makes a second one wait only where it locks the same row.
InjectStart(o, f) ==
    /\ OperatorCall
    /\ o \in DemoOrders
    /\ orderStatus[o] # "ABSENT"
    /\ injectFault[o] = None
    /\ \A s \in Skus : deducted[o][s] > 0 => ~StockLocked(s)
    /\ injectFault' = [injectFault EXCEPT ![o] = f]
    /\ injectRestore' = IF f \in ResetFaults
                        THEN [injectRestore EXCEPT ![o] = deducted[o]]
                        ELSE injectRestore
    /\ UNCHANGED <<orderVars, payments, outbox, inventoryVars, faults, stream,
                   groupVars, pubVars, retryOutboxPc, conVars, retryEventPc,
                   deductVars>>

\* A stock row another injection has locked and not committed.
LockedByAnother(o, s) ==
    \E o2 \in Orders \ {o} : injectFault[o2] # None /\ injectRestore[o2][s] > 0

InjectReturn(o) ==
    /\ injectFault' = [injectFault EXCEPT ![o] = None]
    /\ injectRestore' = [injectRestore EXCEPT ![o] = NoItems]

Replenished(o, s) ==
    LET restored == stock[s] + injectRestore[o][s]
    IN  IF s \in OrderSkus(o) /\ restored < ReplenishLevel
        THEN ReplenishLevel
        ELSE restored

\* Mutated form: the deductions are not deleted.
ResetKeepsRows(o) ==
    /\ \A s \in OrderSkus(o) : ~LockedByAnother(o, s)
    /\ stock' = [s \in Skus |-> Replenished(o, s)]
    /\ consumed' = [e \in Payments |->
                       IF payments[e] = o /\ outbox[e] # "ABSENT" THEN 0 ELSE consumed[e]]
    /\ UNCHANGED <<deducted, deductionKey>>

\* resetDemoInventory after its first statement: replenish the order's stock
\* rows, delete its deductions, and forget the consumption of its events
\* that are still in the outbox.
ResetInventory(o) ==
    /\ \A s \in OrderSkus(o) : ~LockedByAnother(o, s)
    /\ stock' = [s \in Skus |-> Replenished(o, s)]
    /\ deducted' = [deducted EXCEPT ![o] = NoItems]
    /\ deductionKey' = [deductionKey EXCEPT ![o] = [s \in Skus |-> None]]
    /\ consumed' = [e \in Payments |->
                       IF payments[e] = o /\ outbox[e] # "ABSENT" THEN 0 ELSE consumed[e]]

\* OUTBOX_NOT_CREATED deletes the order's rows, the publish faults put them
\* back to PENDING, the others leave them alone.
ResetOutbox(o, f) ==
    outbox' = [e \in Payments |->
                  IF payments[e] # o \/ outbox[e] = "ABSENT" \/ f \notin OutboxResetFaults
                  THEN outbox[e]
                  ELSE IF f = "OUTBOX_NOT_CREATED" THEN "ABSENT" ELSE "PENDING"]

InjectFinish(o) ==
    /\ injectFault[o] # None
    /\ IF injectFault[o] \in ResetFaults
       THEN ResetInventory(o)
       ELSE UNCHANGED inventoryVars
    /\ ResetOutbox(o, injectFault[o])
    /\ faults' = [faults EXCEPT ![o] = injectFault[o]]
    /\ InjectReturn(o)
    /\ UNCHANGED <<orderVars, payments, stream, groupVars, pubVars, retryOutboxPc,
                   conVars, retryEventPc, deductVars, boundVars>>

\* The transaction rolls back: an error, a crash, a lost client, or the
\* victim of a deadlock between two injections.
InjectAbort(o) ==
    /\ injectFault[o] # None
    /\ InjectReturn(o)
    /\ UNCHANGED <<orderVars, payments, outbox, inventoryVars, faults, stream,
                   groupVars, pubVars, retryOutboxPc, conVars, retryEventPc,
                   deductVars, boundVars>>

InjectNext ==
    \E o \in Orders :
        \/ InjectNoIssue(o)
        \/ \E f \in InjectableFaults : InjectStart(o, f)
        \/ InjectFinish(o)
        \/ InjectAbort(o)
=============================================================================
