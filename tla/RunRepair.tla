----------------------------- MODULE RunRepair -----------------------------
(***************************************************************************)
(* The repair loop: approveRun decides on a diagnosed run, executeRun      *)
(* calls the remediation tool and verifies the order.  Each request reads  *)
(* the run once and then makes one database or tool call after the other;  *)
(* approvals, executions and a client's retries of both run side by side.  *)
(* A request the handler refuses before its first write changes nothing    *)
(* and is left out.                                                        *)
(***************************************************************************)
EXTENDS RunState

approveFrame == <<steps, evidence, executions, calls, verifications, inventory, shells,
                  worker, executor, evaluator>>

Approve(a, local) == approver' = [approver EXCEPT ![a] = local]

\* GetRun and the checks on it.
ApproverLoads(a) ==
    /\ approver[a].at = "idle"
    /\ \E r \in Runs :
          /\ status[r] = "EVIDENCE_COLLECTED"
          /\ diagnosis[r] # None
          /\ Approve(a, CopyOf(r, "evidence"))
    /\ UNCHANGED <<approveFrame, rowVars, approvals, failures>>

\* Mutated form of ApproverDecides: a healthy order's run is closed first and
\* its approval never recorded.
ApproverClosesHealthy(a) ==
    LET me == approver[a]
        next == IF Conflicting(evidence[me.run]) THEN "reject"
                ELSE IF me.cause = "NO_ISSUE" THEN "healthy"
                ELSE IF RepairAction(me.cause) # None THEN "policy" ELSE "done"
    IN /\ me.at = "evidence"
       /\ Approve(a, IF next = "done" THEN Done ELSE [me EXCEPT !.at = next])
       /\ UNCHANGED <<approveFrame, rowVars, approvals, failures>>

\* ListEvidence and what follows from it and from the diagnosis.
ApproverDecides(a) ==
    LET me == approver[a]
        next == IF Conflicting(evidence[me.run]) THEN "reject"
                ELSE IF me.cause = "NO_ISSUE" THEN "confirm"
                ELSE IF RepairAction(me.cause) # None THEN "policy" ELSE "done"
    IN /\ me.at = "evidence"
       /\ Approve(a, IF next = "done" THEN Done ELSE [me EXCEPT !.at = next])
       /\ UNCHANGED <<approveFrame, rowVars, approvals, failures>>

\* The status change at one point of approveRun, and where it leads; a
\* refused one ends the request.
ApproverTransits(a) ==
    LET me == approver[a]
        to == CASE me.at = "reject" -> "INCONCLUSIVE"
                [] me.at = "healthy" -> "NO_ANOMALY"
                [] me.at = "policy" -> "POLICY_CHECK"
                [] me.at = "request" -> "AWAITING_APPROVAL"
                [] OTHER -> "CANCELLED"
    IN /\ me.at \in {"reject", "healthy", "policy", "request"}
       /\ \/ /\ Transit(me, to)
             /\ Approve(a, CASE me.at = "policy" -> Moved(me, to, "request")
                             [] me.at = "request" -> Moved(me, to, "record")
                             [] OTHER -> Done)
          \/ ~Allowed(me, to) /\ Approve(a, Done) /\ UNCHANGED rowVars
       /\ UNCHANGED <<approveFrame, approvals, failures>>

\* SaveApprovalRecord: before the change to NO_ANOMALY, but after the one to
\* AWAITING_APPROVAL.
ApproverRecords(a) ==
    LET me == approver[a]
        type == IF me.at = "confirm" THEN "NO_ISSUE_CONFIRMATION" ELSE "REPAIR_APPROVAL"
    IN /\ me.at \in {"confirm", "record"}
       /\ approvals' = [approvals EXCEPT ![me.run][type] = @ + 1]
       /\ Approve(a, IF me.at = "confirm" THEN [me EXCEPT !.at = "healthy"] ELSE Done)
       /\ UNCHANGED <<approveFrame, rowVars, failures>>

\* A database error, or the client hangs up and its context is cancelled.
ApproverAbandons(a) ==
    /\ approver[a].at \notin {"idle", "done"}
    /\ Fails
    /\ Approve(a, Done)
    /\ UNCHANGED <<approveFrame, rowVars, approvals>>

ApproverProceeds(a) ==
    ApproverLoads(a) \/ ApproverDecides(a) \/ ApproverTransits(a) \/ ApproverRecords(a)

-----------------------------------------------------------------------------
executeFrame == <<steps, evidence, approvals, shells, worker, approver, evaluator>>

Execute(x, local) == executor' = [executor EXCEPT ![x] = local]

\* Retrying a publication or a delivery needs the event id an outbox
\* observation carries.
NeedsEvent(action) == action \in {"RETRY_OUTBOX_PUBLISH", "RETRY_INVENTORY_CONSUMER"}

\* GetRun, the checks, ListEvidence for the event id, and the key.
ExecutorLoads(x) ==
    /\ executor[x].at = "idle"
    /\ \E r \in Runs :
          LET action == RepairAction(diagnosis[r])
          IN /\ status[r] = "AWAITING_APPROVAL"
             /\ action # None
             /\ NeedsEvent(action) => "outbox" \in evidence[r]
             /\ \E k \in CallerKeys \cup {DefaultKey(r, action)} :
                   Execute(x, [CopyOf(r, "begin") EXCEPT !.key = k])
    /\ UNCHANGED <<executeFrame, rowVars, executions, calls, verifications, inventory,
                   failures>>

\* Transition to EXECUTING; refused when another request was first.
ExecutorBegins(x) ==
    LET me == executor[x]
    IN /\ me.at = "begin"
       /\ \/ /\ Transit(me, "EXECUTING")
             /\ Execute(x, Moved(me, "EXECUTING", "start"))
          \/ ~Allowed(me, "EXECUTING") /\ Execute(x, Done) /\ UNCHANGED rowVars
       /\ UNCHANGED <<executeFrame, executions, calls, verifications, inventory, failures>>

\* Mutated form of ExecutorStarts: ON CONFLICT DO UPDATE instead of an error.
ExecutorRestarts(x) ==
    LET me == executor[x]
    IN /\ me.at = "start"
       /\ executions' = [executions EXCEPT ![me.key] = [run |-> me.run, state |-> "STARTED"]]
       /\ Execute(x, [me EXCEPT !.at = "call"])
       /\ UNCHANGED <<executeFrame, rowVars, calls, verifications, inventory, failures>>

\* CreateRepairPlan and StartRepairExecution.  idempotency_key is UNIQUE: a
\* key that was used before ends the request, and the run stays EXECUTING.
ExecutorStarts(x) ==
    LET me == executor[x]
    IN /\ me.at = "start"
       /\ \/ /\ executions[me.key] = None
             /\ executions' = [executions EXCEPT ![me.key] = [run |-> me.run, state |-> "STARTED"]]
             /\ Execute(x, [me EXCEPT !.at = "call"])
          \/ /\ executions[me.key] # None
             /\ Execute(x, Done)
             /\ UNCHANGED executions
       /\ UNCHANGED <<executeFrame, rowVars, calls, verifications, inventory, failures>>

\* The tool call.  It may take effect and still be answered by a timeout or
\* an error, and it may fail without effect.  The order is deducted now or,
\* by the consumer, later.
ExecutorCalls(x) ==
    LET me == executor[x]
    IN /\ me.at = "call"
       /\ \E sent \in BOOLEAN, ok \in BOOLEAN :
             /\ ok => sent
             /\ calls' = IF sent THEN [calls EXCEPT ![me.key] = @ + 1] ELSE calls
             /\ Execute(x, [me EXCEPT !.at = "save",
                                      !.outcome = IF ok THEN "ok" ELSE "failed"])
       /\ UNCHANGED <<executeFrame, rowVars, executions, verifications, inventory, failures>>

\* FinishRepairExecution
ExecutorSaves(x) ==
    LET me == executor[x]
    IN /\ me.at = "save"
       /\ executions' = [executions EXCEPT ![me.key].state =
                            IF me.outcome = "ok" THEN "SUCCEEDED" ELSE "FAILED"]
       /\ Execute(x, [me EXCEPT !.at = IF me.outcome = "ok" THEN "verify" ELSE "fail"])
       /\ UNCHANGED <<executeFrame, rowVars, calls, verifications, inventory, failures>>

\* Mutated form of ExecutorTransits: the copy is not refreshed after VERIFYING,
\* so that no later change matches the row.
ExecutorTransitsStale(x) ==
    LET me == executor[x]
        to == CASE me.at = "verify" -> "VERIFYING"
                [] me.at = "fail" -> "EXECUTION_FAILED"
                [] me.at = "refuse" -> "VERIFICATION_FAILED"
                [] OTHER -> "REPAIRED"
    IN /\ me.at \in {"verify", "fail", "refuse", "repaired"}
       /\ Transit(me, to) \/ (~Allowed(me, to) /\ UNCHANGED rowVars)
       /\ Execute(x, IF me.at = "verify" THEN [me EXCEPT !.at = "wait"] ELSE Done)
       /\ UNCHANGED <<executeFrame, executions, calls, verifications, inventory, failures>>

\* The status changes whose errors executeRun ignores: to VERIFYING, to a
\* failure, to REPAIRED.  A refused one leaves the copy as it was.
ExecutorTransits(x) ==
    LET me == executor[x]
        to == CASE me.at = "verify" -> "VERIFYING"
                [] me.at = "fail" -> "EXECUTION_FAILED"
                [] me.at = "refuse" -> "VERIFICATION_FAILED"
                [] OTHER -> "REPAIRED"
    IN /\ me.at \in {"verify", "fail", "refuse", "repaired"}
       /\ \/ /\ Transit(me, to)
             /\ Execute(x, IF me.at = "verify" THEN Moved(me, to, "wait") ELSE Done)
          \/ /\ ~Allowed(me, to)
             /\ Execute(x, IF me.at = "verify" THEN [me EXCEPT !.at = "wait"] ELSE Done)
             /\ UNCHANGED rowVars
       /\ UNCHANGED <<executeFrame, executions, calls, verifications, inventory, failures>>

\* Mutated form of ExecutorWaits: the time is up and the assertions run anyway.
ExecutorGoesOn(x) ==
    /\ executor[x].at = "wait"
    /\ Execute(x, [executor[x] EXCEPT !.at = "assert"])
    /\ UNCHANGED <<executeFrame, rowVars, executions, calls, verifications, inventory,
                   failures>>

\* waitForInventoryRepair polls until the order is deducted or 8 s are over.
ExecutorWaits(x) ==
    LET me == executor[x]
    IN /\ me.at = "wait"
       /\ \/ inventory[me.run] /\ Execute(x, [me EXCEPT !.at = "assert"])
          \/ Execute(x, [me EXCEPT !.at = "refuse"])
       /\ UNCHANGED <<executeFrame, rowVars, executions, calls, verifications, inventory,
                      failures>>

\* The assertions and the verify agent, then SaveVerificationResult.
ExecutorAsserts(x) ==
    LET me == executor[x]
    IN /\ me.at = "assert"
       /\ \E passed \in BOOLEAN :
             /\ verifications' = [verifications EXCEPT ![me.run] =
                                     @ \cup {IF passed THEN "PASSED" ELSE "FAILED"}]
             /\ Execute(x, [me EXCEPT !.at = IF passed THEN "repaired" ELSE "refuse"])
       /\ UNCHANGED <<executeFrame, rowVars, executions, calls, inventory, failures>>

\* An ignored error: the handler goes on without the write.
ExecutorMisses(x) ==
    LET me == executor[x]
    IN /\ Fails
       /\ \/ /\ me.at = "save"
             /\ Execute(x, [me EXCEPT !.at = IF me.outcome = "ok" THEN "verify" ELSE "fail"])
          \/ /\ me.at = "verify"
             /\ Execute(x, [me EXCEPT !.at = "wait"])
          \/ /\ me.at = "assert"
             /\ \E to \in {"repaired", "refuse"} : Execute(x, [me EXCEPT !.at = to])
       /\ UNCHANGED <<executeFrame, rowVars, executions, calls, verifications, inventory>>

\* A returned error, or the client hangs up: every later call fails with the
\* cancelled context, so the run stays EXECUTING or VERIFYING.
ExecutorAbandons(x) ==
    /\ executor[x].at \notin {"idle", "done"}
    /\ Fails
    /\ Execute(x, Done)
    /\ UNCHANGED <<executeFrame, rowVars, executions, calls, verifications, inventory>>

ExecutorProceeds(x) ==
    \/ ExecutorLoads(x) \/ ExecutorBegins(x) \/ ExecutorStarts(x) \/ ExecutorCalls(x)
    \/ ExecutorSaves(x) \/ ExecutorTransits(x) \/ ExecutorWaits(x) \/ ExecutorAsserts(x)

\* The pipeline deducts the run's order, repaired or on its own.
InventoryDeducts(r) ==
    /\ ~inventory[r]
    /\ inventory' = [inventory EXCEPT ![r] = TRUE]
    /\ UNCHANGED <<executeFrame, rowVars, executions, calls, verifications, executor, failures>>

RepairNext ==
    \/ \E a \in Approvers : ApproverProceeds(a) \/ ApproverAbandons(a)
    \/ \E x \in Executors : ExecutorProceeds(x) \/ ExecutorMisses(x) \/ ExecutorAbandons(x)
    \/ \E r \in Runs : InventoryDeducts(r)
=============================================================================
