------------------------------ MODULE RunState ------------------------------
(***************************************************************************)
(* The state of the agent runtime: the agent schema's tables for an        *)
(* investigation run, and the local state of the goroutines and HTTP       *)
(* handlers that drive one.  RunWorker, RunRepair and RunEvaluation define *)
(* their steps; InvestigationRun composes them.                            *)
(*                                                                         *)
(* Every one of them works on a copy of the run row it once read or wrote. *)
(* An update names the copy's status and version in its WHERE clause and   *)
(* is refused when another has changed the row since.                      *)
(***************************************************************************)
EXTENDS Naturals, Sequences

CONSTANTS
    Runs,           \* run ids
    Workers,        \* goroutines in RunWorker: one per agent-runtime process
    Approvers,      \* POST .../approve requests, each made at most once
    Executors,      \* POST .../execute requests, each made at most once
    Evaluators,     \* POST .../evaluations requests, each made at most once
    CallerKeys,     \* idempotency keys callers choose themselves
    UsedKeys,       \* those of them that repairs of earlier runs were made with
    RootCauses,     \* the root causes models may answer
    Observations,   \* the signals collected evidence may carry
    None,           \* no row, no value
    MaxFailures     \* bound on errors, timeouts and crashes in a behaviour

RootCauseCatalog ==
    {"NO_ISSUE", "PAYMENT_EVENT_NOT_PUBLISHED", "PAYMENT_EVENT_NOT_CREATED",
     "EVENT_NOT_AVAILABLE_AFTER_PUBLISH", "INVENTORY_EVENT_NOT_CONSUMED",
     "INVENTORY_DEDUCTION_FAILED", "INVENTORY_DEDUCTION_NOT_PERSISTED",
     "INVENTORY_CONSUMER_UNAVAILABLE", "NO_CONFIRMED_ROOT_CAUSE"}

Statuses ==
    {"CREATED", "PLANNING", "INVESTIGATING", "KNOWLEDGE_LOOKUP", "DIAGNOSING",
     "CRITIC_REVIEW", "EVIDENCE_COLLECTED", "NO_ANOMALY", "POLICY_CHECK",
     "AWAITING_APPROVAL", "EXECUTING", "VERIFYING", "REPAIRED", "REJECTED",
     "EXECUTION_FAILED", "VERIFICATION_FAILED", "PLANNING_FAILED",
     "INVESTIGATION_FAILED", "INCONCLUSIVE", "CANCELLED"}

\* The transition table.  Statuses without a row are final.
Transitions ==
    ({"CREATED"} \X {"PLANNING", "CANCELLED"})
    \cup ({"PLANNING"} \X {"INVESTIGATING", "PLANNING_FAILED", "INCONCLUSIVE", "CANCELLED"})
    \cup ({"INVESTIGATING"} \X {"KNOWLEDGE_LOOKUP", "EVIDENCE_COLLECTED",
                                "INVESTIGATION_FAILED", "INCONCLUSIVE", "CANCELLED"})
    \cup ({"KNOWLEDGE_LOOKUP"} \X {"DIAGNOSING", "INCONCLUSIVE", "CANCELLED"})
    \cup ({"DIAGNOSING"} \X {"INVESTIGATING", "EVIDENCE_COLLECTED", "CRITIC_REVIEW",
                             "INCONCLUSIVE", "CANCELLED"})
    \cup ({"CRITIC_REVIEW"} \X {"EVIDENCE_COLLECTED", "NO_ANOMALY", "INCONCLUSIVE", "CANCELLED"})
    \cup ({"EVIDENCE_COLLECTED"} \X {"POLICY_CHECK", "NO_ANOMALY", "INCONCLUSIVE"})
    \cup ({"POLICY_CHECK"} \X {"AWAITING_APPROVAL", "REJECTED", "INCONCLUSIVE"})
    \cup ({"AWAITING_APPROVAL"} \X {"EXECUTING", "REJECTED", "CANCELLED"})
    \cup ({"EXECUTING"} \X {"VERIFYING", "EXECUTION_FAILED"})
    \cup ({"VERIFYING"} \X {"REPAIRED", "VERIFICATION_FAILED"})

Actions == {"REBUILD_OUTBOX_EVENT", "RETRY_OUTBOX_PUBLISH", "RETRY_INVENTORY_CONSUMER",
            "RECONCILE_INVENTORY_STATE"}

\* RepairActionForRootCause; None where it answers false.
RepairAction(cause) ==
    CASE cause = "PAYMENT_EVENT_NOT_CREATED" -> "REBUILD_OUTBOX_EVENT"
      [] cause = "PAYMENT_EVENT_NOT_PUBLISHED" -> "RETRY_OUTBOX_PUBLISH"
      [] cause \in {"INVENTORY_EVENT_NOT_CONSUMED", "INVENTORY_DEDUCTION_FAILED"}
            -> "RETRY_INVENTORY_CONSUMER"
      [] cause = "INVENTORY_DEDUCTION_NOT_PERSISTED" -> "RECONCILE_INVENTORY_STATE"
      [] OTHER -> None

\* What an item of evidence tells a decision: the inventory consumer succeeded
\* or failed, dirty data, an outbox row with its event id, or something else.
\* Evidence is a set: an item seen twice adds nothing.
Signals == {"success", "failure", "dirty", "outbox", "other"}

\* Mutated form of Conflicting: dirty data is not looked at.
ConflictingOutcomes(items) == {"success", "failure"} \subseteq items

\* evidenceRequiresInconclusive.
Conflicting(items) == "dirty" \in items \/ {"success", "failure"} \subseteq items

\* Mutated form of Supported: a root cause that cites nothing passes.
SupportedByNothing(cause, items) ==
    cause # "NO_CONFIRMED_ROOT_CAUSE" /\ \E cited \in SUBSET items : ~Conflicting(cited)

\* ValidateDiagnosisRootCause may find the cause supported: it cites known
\* evidence without a conflict in it.  What each cause requires of the cited
\* items is left open, so a supported cause may also be refused.
Supported(cause, items) ==
    /\ cause # "NO_CONFIRMED_ROOT_CAUSE"
    /\ \E cited \in SUBSET items : cited # {} /\ ~Conflicting(cited)

\* The key executeRun makes up when the caller sends none.
DefaultKey(r, action) == <<r, action>>

IdempotencyKeys == (Runs \X Actions) \cup CallerKeys

\* A row of repair_executions; None is a run of before, which is not modelled.
Execution == [run : Runs \cup {None}, state : {"STARTED", "SUCCEEDED", "FAILED"}]

EarlierExecution == [run |-> None, state |-> "SUCCEEDED"]

ASSUME RunNoneAssumption ==
    None \notin Runs \cup Statuses \cup RootCauseCatalog \cup Actions \cup CallerKeys
             \cup Execution

ASSUME RunBoundAssumption ==
    /\ RootCauses \subseteq RootCauseCatalog
    /\ UsedKeys \subseteq CallerKeys
    /\ Observations \subseteq Signals
    /\ MaxFailures \in Nat

VARIABLES
    status,        \* investigation_runs.status, None before the row exists
    version,       \* investigation_runs.version
    diagnosis,     \* the root cause in investigation_runs.final_summary
    events,        \* investigation_events: the statuses its run.* events announce
    steps,         \* agent_steps in sequence order
    evidence,      \* evidence_snapshots: the signals observed for the run
    approvals,     \* approval_records: how many of each type
    executions,    \* repair_executions by idempotency key
    calls,         \* mcp.tool_calls: calls of a remediation tool, by key
    verifications, \* verification_results: the statuses saved for the run
    inventory,     \* the run's order is deducted, as inventory's status says
    shells,        \* runs created by .../evaluations/single-agent/start
    worker,        \* per goroutine in RunWorker
    approver,      \* per approve request
    executor,      \* per execute request
    evaluator,     \* per evaluation request
    failures       \* errors, timeouts and crashes so far

rowVars == <<status, version, diagnosis, events>>
repairVars == <<approvals, executions, calls, verifications>>
runVars == <<status, version, diagnosis, events, steps, evidence, approvals, executions,
             calls, verifications, inventory, shells, worker, approver, executor,
             evaluator, failures>>

ApprovalTypes == {"NO_ISSUE_CONFIRMATION", "REPAIR_APPROVAL"}
Agents == {"PLANNER", "INVESTIGATOR", "KNOWLEDGE", "DIAGNOSIS"}
Outcomes == {"ok", "failed", "inconclusive", "error", "conflict", "unsupported"}

\* Where a goroutine or handler that is at work on a run can be.
Places ==
    {"start", "agent", "finish", "conclude", "evidence", "reject", "confirm", "healthy",
     "policy", "request", "record", "begin", "call", "save", "verify", "wait", "refuse",
     "assert", "repaired", "judge", "fail", "complete"}

\* Its local state: where it is, its copy of the run, and what it has found out.
Busy ==
    [at : Places,
     run : Runs, status : Statuses, version : Nat,
     agent : Agents, attempt : {0, 1}, step : Nat,
     outcome : Outcomes, cause : RootCauseCatalog \cup {None},
     key : IdempotencyKeys \cup {None}]

Idle == [at |-> "idle", run |-> None, status |-> None, version |-> 0,
         agent |-> "PLANNER", attempt |-> 0, step |-> 0, outcome |-> "ok",
         cause |-> None, key |-> None]

\* A request that was answered, a goroutine that returned.
Done == [Idle EXCEPT !.at = "done"]
Stopped == [Idle EXCEPT !.at = "stopped"]

Local == {Idle, Done, Stopped} \cup Busy

\* GetRun into a copy.
CopyOf(r, at) ==
    [Idle EXCEPT !.at = at, !.run = r, !.status = status[r], !.version = version[r],
                 !.cause = diagnosis[r]]

\* Mutated forms of Matches: no version, and no WHERE clause but the id.
MatchesStatus(copy) == status[copy.run] = copy.status
MatchesAnything(copy) == status[copy.run] # None

\* WHERE id = $1 AND status = $2 AND version = $3
Matches(copy) == status[copy.run] = copy.status /\ version[copy.run] = copy.version

\* Mutated form of Advance: the event is written in a later transaction.
AdvanceSilently(copy, to) ==
    /\ status' = [status EXCEPT ![copy.run] = to]
    /\ version' = [version EXCEPT ![copy.run] = @ + 1]
    /\ UNCHANGED events

\* The UPDATE and the event of transitionTx, Fail and CompleteStatus, which
\* share a transaction.
Advance(copy, to) ==
    /\ status' = [status EXCEPT ![copy.run] = to]
    /\ version' = [version EXCEPT ![copy.run] = @ + 1]
    /\ events' = [events EXCEPT ![copy.run] = Append(@, to)]

\* Mutated form of Allowed: Fail forgets ValidateTransition.
AllowedByTheRow(copy, to) == to \in Statuses /\ Matches(copy)

Allowed(copy, to) == <<copy.status, to>> \in Transitions /\ Matches(copy)

\* Transition and Fail: refused without a trace when the table does not have
\* the step or the row has changed.
Transit(copy, to) == Allowed(copy, to) /\ Advance(copy, to) /\ UNCHANGED diagnosis

\* The copy after a successful update.
Moved(copy, to, at) ==
    [copy EXCEPT !.status = to, !.version = @ + 1, !.at = at]

\* Mutated form of Started: the state a repair execution starts in.
StartedAsExecution(r, agent, by) ==
    Append(steps[r], [agent |-> agent, by |-> by, state |-> "STARTED"])

\* StartStep; by tells the runtime's own agents from an evaluation's.
Started(r, agent, by) ==
    Append(steps[r], [agent |-> agent, by |-> by, state |-> "RUNNING"])

\* Mutated form of FinishStep: without AND status = 'RUNNING'.
FinishAnyStep(r, i, state) == steps' = [steps EXCEPT ![r][i].state = state]

\* FinishStep: only a RUNNING step is finished.
FinishStep(r, i, state) ==
    steps' = IF steps[r][i].state = "RUNNING"
             THEN [steps EXCEPT ![r][i].state = state]
             ELSE steps

\* CreateRun.
InsertRun(r) ==
    /\ status[r] = None
    /\ status' = [status EXCEPT ![r] = "CREATED"]
    /\ version' = [version EXCEPT ![r] = 1]
    /\ events' = [events EXCEPT ![r] = <<"CREATED">>]
    /\ UNCHANGED diagnosis

Fails == failures < MaxFailures /\ failures' = failures + 1

Init ==
    /\ status = [r \in Runs |-> None]
    /\ version = [r \in Runs |-> 0]
    /\ diagnosis = [r \in Runs |-> None]
    /\ events = [r \in Runs |-> <<>>]
    /\ steps = [r \in Runs |-> <<>>]
    /\ evidence = [r \in Runs |-> {}]
    /\ approvals = [r \in Runs |-> [t \in ApprovalTypes |-> 0]]
    /\ executions = [k \in IdempotencyKeys |-> IF k \in UsedKeys THEN EarlierExecution ELSE None]
    /\ calls = [k \in IdempotencyKeys |-> IF k \in UsedKeys THEN 1 ELSE 0]
    /\ verifications = [r \in Runs |-> {}]
    /\ inventory = [r \in Runs |-> FALSE]
    /\ shells = {}
    /\ worker = [w \in Workers |-> Idle]
    /\ approver = [a \in Approvers |-> Idle]
    /\ executor = [x \in Executors |-> Idle]
    /\ evaluator = [v \in Evaluators |-> Idle]
    /\ failures = 0
=============================================================================
