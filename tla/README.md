# OrderGuard v2: models, checks and proofs

TLA+ specifications of OrderGuard, the TLC configurations that check them on small
instances, and TLAPS proofs of their main properties for every value of the constants.
`PROJECT.json` gives, for every definition, the source lines it models; for every property
that a passing run checks, a mutant of the code that breaks it.

Paths below are relative to `src/`.

## 1. The system

OrderGuard has two halves that meet at two points.

The **business pipeline** is three Go services over PostgreSQL and one Redis Stream: an order
is created, paid, announced through an outbox, and its items leave the stock. The **agent
runtime** is a fourth service: it investigates an order by running LLM agents over read-only
MCP tools, stores a diagnosis, and on approval calls a repair endpoint of the pipeline and
verifies the result. The two points are the repair endpoints (the runtime writes into the
pipeline) and fault injection (the runtime's demo endpoint edits the pipeline's tables).

| Component | State | Operations | Interacts by |
|---|---|---|---|
| Order service (`internal/order`) | `orders.orders`, `order_state_history` | Create | tables shared with payment |
| Payment service (`internal/payment`) | `payments.payments`, `outbox_events` | Pay; `PublishPending` every 200 ms; RetryOutbox; RebuildOutbox | one transaction for payment and outbox row; XADD |
| Event bus (`internal/eventbus`) | stream, cursor and pending list of the consumer group | XADD, XREADGROUP, XAUTOCLAIM (idle 30 s), XACK | Redis |
| Inventory service (`internal/inventory`) | `inventory.stock`, `deductions`, `consumed_events` | consumer loop; RetryEvent (also behind Reconcile); DeductOnce | stream, HTTP |
| Demo fault injection (`internal/agentruntime/repository.go`) | `agent.demo_faults`, and everybody's tables | InjectDemoFault; the switches read by publisher and consumer | SQL across schemas |
| Investigation run lifecycle (`internal/agentruntime`) | `investigation_runs` (optimistic lock), `agent_steps`, `investigation_events`, `evidence_snapshots`, `approval_records`, `repair_executions`, `verification_results` | createRun; RunWorker/Process; approveRun; executeRun; the single-agent evaluation endpoints | one row, many goroutines and handlers |
| Diagnosis validation | none | ValidateDiagnosisRootCause, evidenceRequiresInconclusive, RepairActionForRootCause | called by worker, approval, evaluation |
| Knowledge lookup | files, read only | CollectKnowledge | a step of its own |
| Tool guard | call budget per step | Authorize | called by concurrent tool calls |
| Event stream (SSE) | a cursor per client | replay by event id, poll, end | reads `investigation_events` |
| MCP server, client, audit | `mcp.tool_calls` | `tools/call` over HTTP, client timeout 5 s, tool timeout 3 s, audit 2 s | between runtime and tools |
| MCP tools | none | read the services' endpoints and tables; the repair tools call the repair endpoints | adapters |
| Telemetry | `observability.signals` | Record, RecordTx | read by the log and trace tools |
| Tracing, configuration, HTTP helpers, frontend, scripts, reconciliation stub | - | - | - |

### What is hard in it, and what makes each part correct

* **Pipeline.** The outbox row is updated after the publish, the entry acknowledged after the
  commit, so every crash duplicates something. The repair endpoints, the publisher, the
  consumer and DeductOnce race for the same order, with row and advisory locks that some of
  them take and others do not. Correct means: no payment is lost, no order is deducted twice,
  in part, or unpaid; an outbox row says PUBLISHED only of what is on the stream; stock and
  deductions always add up; and what was paid is eventually deducted.
* **Fault injection** rewrites other services' tables while they run. Correct means that what
  it leaves behind can still be repaired.
* **Run lifecycle.** The worker, approvals, executions (both repeated by impatient clients) and
  evaluations each read the run once and act on that copy through several calls; contexts
  expire, clients hang up, errors of `FinishStep` and of some transitions are ignored, the
  process dies. Correct means: the run follows its transition table and its event feed tells
  it; one worker drives it; conflicting evidence, a diagnosis without evidence, or one without
  a repair action never gets repaired; the tool is called once per key and one request repairs
  a run; REPAIRED and NO_ANOMALY mean what they say; and a run that nothing cuts off ends.
* **Tool calls.** The calls of one model message run side by side past a shared guard; each
  passes two writes, a server with a timeout of its own, and an audit that outlives the client.
  Correct means: the budget holds however they interleave; evidence, feed and audit agree; and
  every call ends.
* **Event stream.** Ids are drawn before the commit, batches are written blind, and the stream
  closes at an event that others follow. Correct means: the browser misses nothing but what was
  overtaken, repeats nothing, and gets to the end.
* **Diagnosis.** The evidence is read tool by tool while the order goes on. Correct means: what
  is confirmed was true of the order, and faults are told apart.

`PROJECT.json` lists the hazards, each at its line, with the properties aimed at it, or why
none is yet.

## 2. Modules

| Module | What it holds |
|---|---|
| `PipelineState` | tables, stream, local states of publisher, consumer and handlers; assumptions on the constants |
| `PaymentService` | Create, Pay, the publisher's poll / check / send / mark, RetryOutbox, RebuildOutbox, payment crash |
| `InventoryService` | read, claim, check, commit, ack of the consumer; RetryEvent, Reconcile, DeductOnce; consumer death, inventory crash |
| `DemoFaults` | InjectDemoFault in two parts, the reset of each table |
| `OrderPipeline` | the composition, fairness, properties, refinement mapping |
| `ExactlyOnceDeduction` | what the pipeline promises: pay, then deduct the whole order once |
| `PipelineInvariants` | the inductive strengthenings |
| `PipelineTypes` | proofs: types |
| `PipelineProofs` | proofs: what holds with every fault injected |
| `EffectivelyOnceProofs` | proofs: no payment lost, whole deductions, stock conserved, deliveries counted |
| `RefinementProofs` | proof of the refinement |
| `RunState` | the agent schema's tables, the transition table, the optimistic update, steps, local copies |
| `RunWorker` | createRun, ClaimCreated, and Process agent by agent |
| `RunRepair` | approveRun and executeRun, call by call |
| `RunEvaluation` | the two evaluation endpoints, CompleteStatus |
| `InvestigationRun` | the composition with process crashes, properties, fairness |
| `RunInvariants` | the inductive strengthenings: what is known of a run while somebody holds a copy |
| `RunTypes` | proofs: types, the event feed, one call per key |
| `RunProofs` | proofs: the other safety properties and the two action properties |
| `EventFeed` | `investigation_events` with open and committed rows, ListEvents, streamEvents, the browser |
| `ToolCalls` | InvokableRun past ToolGuard, MCP client, handleToolCall, audit, evidence |
| `InvestigatorStep` | the composition: Investigator.Run's loop, the run's last event, an approval; properties, fairness |
| `ToolCallProofs` | proofs: audit, evidence, budget, and what a browser is shown |
| `ObservedOrder` | one order from payment to deduction as the read-only tools see it, with its signals and RetryEvent |
| `EvidenceDiagnosis` | the tools' answers, readings, ValidateDiagnosisRootCause, and the properties of a diagnosis |
| `DiagnosisProofs` | proofs: types, what is confirmed was true, and every fault is diagnosed |
| `MCPipeline`, `MCRun`, `MCTools` | instances for TLC; they extend the invariants, so that a run can check those too |

An action is one database transaction or statement, one Redis call, or one tool call together
with the local code around it. What lies between two actions of one goroutine is where others
interleave.

### Pipeline: correspondence and abstractions

* An event id is made of its payment id, so both are one element of `Payments`. A stock row
  that does not exist and one with 0 behave alike (both refuse the deduction).
* `Pay`, `consume` and the two phases of DeductOnce are atomic because their transactions take
  row locks on what they read. DeductOnce is split at its existence check and its commit,
  because `consume` does not take the advisory lock it takes. The publisher's fault check, send
  and update are three steps (they are three calls), and so are the retry's load, send, update
  and clear. Injection is split after the stock reset: the later statements see what others
  committed in between (READ COMMITTED).
* The publisher's batch is handled in any order and is not cut at 100. XAUTOCLAIM's idle time is
  abstracted: any set of pending entries up to COUNT may be claimed once all delivered entries
  are behind the cursor. Attempt counters, amounts, telemetry and logs are left out.
* `ConsumerSkips` from the ack is an answer lost after a commit; `ConsumerDies` is a Redis error,
  after which `Consumer.Run` has returned while the service stays up. `InjectAbort` is a deadlock
  victim and needs no budget.

### Runtime: correspondence and abstractions

* Every goroutine and request has a local state `Busy`: the place in its handler and the copy of
  the run (`status`, `version`) the next `WHERE id AND status AND version` names. `Transit` is
  Transition and Fail (table first, then the row); `CompleteStatus` in an evaluation is `Matches`
  alone, because it consults no table.
* The worker repeats StartStep, agent, FinishStep, status change. Models answer freely: an agent
  may succeed, fail or be inconclusive, a diagnosis may name any root cause; `Conflicting` is the
  code's own check, `Supported` keeps what ValidateDiagnosisRootCause requires for every cause
  (a known cause that cites evidence of the run, without conflict) and leaves the cause-specific
  requirements open, so a supported cause may also be refused.
* `o.knowledge` is always set in `cmd/services/agent-runtime/main.go`, so the path of Process
  without it cannot run and is left out. SavePlan, repair plan rows, progress events and
  telemetry are written but no decision reads them.
* An expired context makes FinishStep and Fail fail too: the worker drops the run where it is
  (`WorkerAbandons`), and nothing takes it up again, since ClaimCreated looks at CREATED only.
  Errors the code discards (`_ = ...`) are `WorkerMissesFinish`, `WorkerMissesStart` and
  `ExecutorMisses`; returned errors and hang-ups are the `...Abandons`.
* Which CREATED run is the oldest is left open. Inventory is one Boolean per run that the
  pipeline sets; injection is not part of this model. A request refused before its first write
  changes nothing and is left out; each request is made at most once (`Approvers`, `Executors`
  and `Evaluators` bound how many).
* An idempotency key is the run's own (`DefaultKey`) or one the caller chose. `UsedKeys` are those
  of them that an earlier repair was made with: their row (`EarlierExecution`) is there from the
  start, so that one run shows what a key used for another does.
* What a diagnosis cites is abstracted to signals; "other" is evidence that says neither success
  nor failure. Evidence without any row is the empty set, which no diagnosis may cite.

### Tool calls and feed: correspondence and abstractions

* A write is two steps, the INSERT that draws an id and the commit that shows the row, because
  other writers commit in between. `Authorize` and the INSERT of `tool.call_started` are one
  action: the guard is local and its mutex is held for all of it.
* Tools of the registry are all read-only, so Authorize's first check lets every call pass.
  A request is a number for a tool name with its arguments; the calls of one message run side
  by side, so which of them carries which number does not matter and they are numbered in order.
* `Refused` requests are those findTool or validateArguments turns down. A handler that fails, one
  that times out and one whose context is cancelled with the client are all the envelope
  "failed". `GiveUp` is the client's timer or a broken connection; it may fire at any moment,
  also when the server has executed and audited the call.
* `Expire` is the run's deadline or the end of the process: calls fail where they are, and the
  last event with them. A guard is new for each investigator step, so one step is modelled. The
  events of the planner and of the agents after the investigator add nothing to the feed's
  behaviour and are left out; an approval's are kept because they follow `run.completed`.
* `frontend/src/api.ts:19` follows the feed with an EventSource that it does not close while the
  run is on screen: the browser itself reconnects after the stream ends or breaks, with the last
  id it was given.

### Diagnosis: correspondence and abstractions

* `ObservedOrder` tells the pipeline again for what a tool can observe: no crashes and no races,
  which `OrderPipeline` has, but the signals each step records. The switch is set before the
  payment, as in `createDemoOrder`; an injection during the investigation is left out. consume
  reads the switch and logs what it pretends in two statements, and RetryEvent, which may lift
  the switch, runs between them (`ConsumeFindsSwitch`, `ConsumeFails`).
* A signal is its service and whether observe would find one of its success or failure words in
  its status and message. A log reading is what observe makes of the set: nothing unless a signal
  of the inventory service is in it, otherwise the words of all of them. A keyword may leave out
  any of the signals. A payment that does not exist is a tool error and leaves no evidence.
* Readings happen one at a time between the order's steps. `at` ranks the moments at which the
  order differed and `of`, a history, is the order as it was then (`Moment`); `changed` lets
  readings of one and the same state share a rank.
* `HasHappened` is RootCauseCatalog read as a statement about the order: the meaning of each cause
  and that none of its exclusions is the case. `Supported` is the code's validation of the
  evidence. They are written from different functions, and neither is defined by the other:
  the validator never asks what `root_causes.go:25` excludes, for instance.
* observe keeps the last cited reading of a tool and the model cites in any order, so any cited
  reading may be the last: `Supported` holds if some order of the citations makes it valid.
  `Confirmed` adds the check of all of the run's evidence that Process makes first.
* What is at rest without the operator is where `FaultIsDiagnosed` compares the causes that can be
  confirmed with the fault, once with the status tools and the logs read, once with the trace as
  well. Every fault of `InjectDemoFault` is tried.

## 3. Runs

| Run | Configuration | Shows |
|---|---|---|
| `core` | 2 orders competing for 2 units, 2 payments, 2 skus, every failure kind, 2 failures, 2 operator calls, 3 of both together, deduct-once with the order's items | nothing lost, invented, deducted twice or in part; tables agree; the pipeline implements `ExactlyOnceDeduction` |
| `demo_faults` | every fault, injectable twice into one of two orders, no failures | what holds during injection |
| `recovery` | 2 failures of the restartable kinds, fair, no operator | paid orders are deducted, pending rows published |
| `investigation` | 1 run, 2 processes, 2 approvals, 2 executions, a fresh and a used key, 1 failure, fair | the run's safety and its end |
| `evaluation` | 1 run, no worker, 2 evaluations, 2 approvals, 2 executions with the run's own or a used key, 1 failure | what an evaluation cannot break; one tool call per key |
| `tool_calls` | 3 tool calls, 2 side by side, budget 2, 4 requests (one foreign, one refused), batches of 2, 1 failure, fair | budget, evidence, audit and feed agree; calls and browser get to the end |
| `diagnosis` | every fault and none, replayed or not where a replay matters, 3 readings of any tools, fair | what is accepted was true unless overtaken; faults are told apart; a replayed delivery settles |
| `reconcile_after_injection` | violation | a reconcile that succeeds and repairs nothing |
| `consumer_dies` | violation | the consumer ends at one Redis error |
| `execute_before_approval` | violation | a repair without an approval on record |
| `shell_run_claimed` | violation | the worker investigates an evaluation's shell run |
| `stale_cause` | violation | a root cause is accepted that was true at none of its readings |

**Why these bounds.** Two orders and payments are what a race over stock, a batch or a duplicate
needs; two skus make a partial deduction visible; two failures let a crash hit the recovery from
the first, two operator calls let one repair race another, and `MaxDisturbances` bounds both
together, so that a crash with a repair after it and one more of either kind are all reached. One
run suffices for the run's own properties, because a request touches one run and
runs share only the workers (two, so that claims race) and idempotency keys. A key meets another
execution in two ways: it was used before (`UsedKeys`), or `evaluation` has the run executed
twice, because an evaluation takes it back in between. Two requests of a kind are what an
optimistic lock must decide between. The signals are chosen so that a run can be clean,
conflicting, or with and without the event id; `evaluation` needs no more than evidence that says
nothing. It has no worker, whose part of `DiagnosisHasEvidence` and `FinishedStepsStay` is
covered by their theorems and not by a run.

Injections of one order run one after the other (`InjectStart`), a bound of the model and not a
guard of the code.

In `tool_calls` three calls are one more than the budget of 2, and a request may be repeated past
its limit of 1, by the same message or a later one. A batch of 2 is smaller than the events of one
call, so the feed is cut. A failure is an event, evidence, audit, server or connection that is
lost, or the run itself; two calls at once already give every order of draws and commits.

In `diagnosis` three readings are enough for every cause but NO_ISSUE, which takes three readings
and the logs that rule its exclusion out: for it `CauseWasTrue` is proved and not checked. An order
may be replayed (`Replayed`) if its fault is one RetryEvent clears, EVIDENCE_CONFLICT, which it
leaves on, one of the two that stop the publisher, which behave alike, or none; without an outbox
row there is nothing to replay, and dirty answers confirm nothing either way. The order's own
part has no bound, so for `FaultIsDiagnosed` and `RetrySettlesDelivery`, which do not depend on
the readings made, the run covers every case of these faults.

**Deadlock** is not checked: once everything is deducted, or every request made, the system
rests.

**Symmetry** permutes payments in `core` and `demo_faults`, and requests in
`evaluation`: they are interchangeable there and no liveness is checked. `DeductsExactlyOnce` is a
safety property, and its refinement mapping does not tell payments apart.

**Fairness.** Pipeline: weak for the publisher's ticker and the consumer's loop, which repeat by
themselves, and for the start of a stopped service (`restart: unless-stopped`,
`deployments/docker-compose.yml:4`); strong for the claim of an event's entry, because an entry
that stays pending becomes idle for 30 s over and over while the consumer polls. Runtime: weak
for a worker's next step (RunWorker loops) and for a started execute request, which the server
runs to its end. Tool calls: weak for a call's next step (a goroutine runs, the client's timer
fires), for a server that is not stopped (its handler and its audit have timeouts), for the poll
and for EventSource's reconnect. Diagnosis: weak for publisher, consumer and a replay in
progress. Approvals, evaluations, operator calls, injections, readings and failures are never
required to happen. `InvestigationEnds` and `RepairEnds` are conditional on no failure, because
of what `WorkerAbandons` describes. `RepairEnds` also excepts, by name, a run whose execution met a
used key (`RefusedForItsKey`): executeRun returns at `internal/agentruntime/http.go:316` without
any failure, having set EXECUTING before, and nothing takes the run back. `investigation` reaches
that case.

**Evaluations and the run's properties.** CompleteStatus moves a run from any status, final ones
included, back to EVIDENCE_COLLECTED or INCONCLUSIVE if nobody changed the row since it was
read. `NoRepairOnConflict`, `OneRepairPerRun` and `DeclaredTransitions` are therefore stated for
runs no evaluation wrote into; `RepairHasAction` and `DiagnosisHasEvidence` hold for all.

**What the properties leave out on purpose.** Some behaviours the models show are the code's and
no document speaks against them; the properties state what holds beside them.

* An event that commits after a larger id was shown is never shown to that reader
  (`internal/agentruntime/http.go:612`): `FeedSkipsOnlyOvertaken` and `FeedCatchesUp` except
  exactly the overtaken ones.
* A tool that succeeded may be audited and leave no evidence, because the client had given up or
  the write failed: `ExecutedIsAudited` and `EvidenceIsAccounted` are one-directional there.
* A repair refused for its key leaves its run EXECUTING for good (see above).
* A trace carries the payment's signals. With get_trace among the evidence, a failure of the
  consumer reads as conflicting (`phase4.go:408-416`, `phase4.go:133`), and INVENTORY_DEDUCTION_FAILED
  and INVENTORY_CONSUMER_UNAVAILABLE cannot be confirmed although the catalogue names the trace as
  supporting evidence of the latter (`root_causes.go:60`). The second half of `FaultIsDiagnosed`
  says exactly when this happens (`TraceConfuses`): nothing is confirmed then, and nothing wrong.
  `root_causes.go:60` names it beside logs and pending entries, so a run without a trace can
  still confirm the cause, and no document is contradicted outright.
* `scripts/demo_incidents.sh:85-87` expects NO_CONFIRMED_ROOT_CAUSE of an order whose logs show a
  success while the snapshot is NOT_DEDUCTED. The code accepts INVENTORY_DEDUCTION_NOT_PERSISTED of
  the same evidence, as the catalogue asks (`root_causes.go:52-55`), and line 89 of the script lists
  that as a fault of its own. `ToldBy` follows the code and the catalogue. What the script expects
  is one possible answer of a model, which Process accepts as well; no run checks it.
* An order whose failure a retry made good stays inconclusive as long as the logs are among the
  evidence.
* RetryEvent leaves EVIDENCE_CONFLICT on, so the entry of a replayed order is never acknowledged
  (`internal/inventory/postgres.go:41`): `RetrySettlesDelivery` excepts that fault.

### Disagreements found

1. `reconcile_after_injection`: `internal/inventory/postgres.go:47` calls reconcile "an actual
   state repair rather than a read"; after an injection that removed the deductions but not the
   consumed row it succeeds as a read.
2. `consumer_dies`: `internal/inventory/consumer.go:25` says Run processes messages
   continuously; it returns at the first Redis error and nothing starts it again.
3. `execute_before_approval`: `README.md:5` and `ORDERGUARD_MCP_AGENT_PLAN.md:334` require an
   approval; the run becomes executable before, and even without, its record.
4. `shell_run_claimed`: `internal/agentruntime/http.go:48` says the shell is created "without
   starting the multi-agent worker"; the worker claims every CREATED run.
5. `stale_cause`: `internal/agentruntime/root_causes.go:31` says PAYMENT_EVENT_NOT_CREATED cannot be
   chosen when an outbox record exists. The validation (`phase4.go:124-173`) compares no times, so an
   outbox read before the payment and a payment read after it are accepted as that cause while the
   record exists. The same property fails in other ways that need no counterexample of their own:
   outbox PUBLISHED and an older "event not found" are accepted as
   EVENT_NOT_AVAILABLE_AFTER_PUBLISH against `:37`; payment, PENDING and DEDUCTED, all true at once
   between the publisher's send and its update, as PAYMENT_EVENT_NOT_PUBLISHED against `:25`; and
   the exclusions of the others are checked against what is cited, so logs that are read but not
   cited do not stand in the way.

   `CauseWasTrue` says what holds beside this: an accepted cause was true at one of the cited
   readings unless a reading it rests on was overtaken before another cited one was made (not
   `Current`), or the citations leave an exclusion of the catalogue open (not `ExclusionRuledOut`).

## 4. Proofs

All theorems hold for any sets of orders, payments, skus, runs, processes and requests (infinite
ones included), any bounds, and rest only on the named assumptions of the modules:

* `PipelineState`: `NoneAssumption`, `ItemsAssumption`, `StockAssumption`, `RequestAssumption`,
  `BoundAssumption`;
* `RunState`: `RunNoneAssumption` (`None` is no id, status or row), `RunBoundAssumption` (the
  enumerated causes and signals are the code's);
* `EventFeed`: `FeedAssumption` (a batch has room for an event); `ToolCalls`: `ToolAssumption`
  (numbers for calls, requests and limits); `InvestigatorStep`: `StepAssumption` (run and approval
  write events of their own);
* `ObservedOrder`: `FaultAssumption` (`None` is no fault, and what is replayed is a fault or none);
  `EvidenceDiagnosis`: `ReadsAssumption` (a number of readings).

A theorem that needs a hypothesis beyond these says so in its statement. `MCPipeline` and `MCRun`
extend `PipelineInvariants` and `RunInvariants`, so naming one of the invariants below in a
configuration has TLC look at it on a small instance.

### Pipeline

* **Pipeline types** (`TypedInvariant`, `TypeCorrect`). Types alone are not inductive: an action
  looks up the order of the event a goroutine holds, so the event must belong to a committed
  payment. `EventsArePaid` says this of every table, batch and handler, `PublisherHoldsEvent`
  when the publisher holds one, `DeductHoldsKey` that DeductOnce has its key.
* **`PublishedIsOnStreamAlways`**, from `PublishInv`: whoever is about to write PUBLISHED has
  already sent (`MarkedIsSent`), and the stream only grows. It holds with any fault injected.
* **`OrderLedgerAlwaysAgrees`**, **`OnlyPaidIsDeductedAlways`**, from `PaidInv`: DeductOnce has
  seen the order paid (`CheckedIsPaid`) and an order stays paid.
* **`NoLostPaymentAlways`** without injection, from `DeliveryInv`: an entry is acknowledged, or
  about to be, only if its event is consumed.
* **`ConsumedIsDeductedAlways`** without injection and **`EventDeductionIsRecordedAlways`** with
  it: the consume transaction writes all rows of an order or none, under one key.
* **`StockAlwaysConserved`** without injection. The units deducted of a sku are the set `Units` of
  pairs of an order and a number, and a deduction adds as many pairs as it takes from the stock.
  The invariant `Balanced` also says that this set is finite, which is why `Orders` need not be.
  With injection it is false on purpose: the demo reset replenishes a sku that has run low.
* **`AckedDeliveriesAlwaysCounted`** without injection (the reset deletes the counter), from
  `CountedInv`. Between the commit and the ack the counter is one ahead of the acknowledged entries
  (`CommitIsCounted`), and the entry that is then acknowledged was not yet (`BatchIsPending`), so
  the ack uses up exactly that one. A consumer that dies in between leaves it ahead for good.
* **`PipelineDeductsExactlyOnce`**: every step of the pipeline is a step of `ExactlyOnceDeduction`
  or a stutter, from `RefinementInv` (a deduction is none or the whole order). Its two hypotheses,
  no injection and deduct-once called with the order's own items, are needed: either lets an
  order be deducted in part or deducted again.

### Runs

* **`EventsAlwaysTellTheRun`**: the row and its event feed, from `RowsAgree`; every update goes
  through `Advance` or `InsertRun`, and `Matches` makes the copy's status a real one.
* **`RunTypeCorrect`** and **`OneCallPerKeyAlways`**, from `RunInv`. The types of
  `repair_executions` need `CallsInv`: a request that has passed StartRepairExecution finds its
  row. `OneCallPerKey` needs the rest of it: a key in the hands of a request about to call has
  not been called with, and no two such requests hold the same key, because the second insert
  fails on the UNIQUE key. A crash drops requests and leaves rows, so a key is never free again.
* The other safety properties follow from `RunSafe`, the types and four invariants that every step
  preserves together. All of them say the same kind of thing: what a goroutine or request has read
  and decided still holds when it writes. That is so because its update names the version it read,
  and a version that still matches is the row that was read.
  * **`OneWorkerPerRunAlways`**, from `WorkerInv`: ClaimCreated takes CREATED rows only, and a held
    run never goes back there. An evaluation may complete the run under its worker; the mark it
    leaves (`Evaluated`) is set from its first step on (`HeldByEvaluator`).
  * **`DiagnosisAlwaysHasEvidence`**, from `DiagnosisInv`: the cause is judged several calls before
    it is written, and evidence is only added in between (`FoundedDiagnoses`).
  * **`NoRepairOnConflictAlways`**, **`RepairAlwaysHasAction`**, **`HealthyIsAlwaysConfirmed`**, from
    `ApprovalInv`. approveRun decides on a copy and acts on the row: the run it holds is `Settled`, so
    no worker can add evidence to it, and if the version still matches, the row has the diagnosis
    that was decided on (`HeldByApprover`). `PolicyOnConsistent` carries the decision to the repair.
  * **`OneRepairPerRunAlways`**, **`RepairedIsAlwaysDeducted`**, from `RepairInv`. Of the requests that
    race for AWAITING_APPROVAL one gets to start an execution, and a run with an execution on record
    does not come back there unless an evaluation takes it (`OneExecution`), whatever keys they carry.
* **`TransitionsAlwaysDeclared`** and **`FinishedStepsAlwaysStay`** are action properties, proved of a
  step from a state in which `RunSafe` holds. The first needs it where an evaluation takes a run
  back (`HeldByEvaluator`: it has left its mark by then); the second says that StartStep and
  FinishStep, whoever calls them, write new rows and running ones only.

### Tool calls and feed

* **`SpecExecutedIsAudited`**, from `ServerInv`, in which the two ends of a call agree: a client
  that has not sent has no server, and has an envelope only from one that has answered. Needed
  because either end goes on alone, the client after a timeout, the server after its client left.
* **`SpecEvidenceIsAccounted`**, from `ServerInv` and `FeedInv`. The property speaks of committed
  rows; `FeedInv` adds the open ones: while evidence is being saved its row is open, and no
  tool.call_completed has been inserted, so the row that will commit has the smaller id.
* **`SpecBudgetIsKept`**, from `BudgetInv`. What has reached a server is too little to count: an
  authorized call that has not been sent yet holds its place, so `Charged` takes it in, and a call
  enters `Charged` only in the step in which the guard counts it. Any number of calls run at once.
* **`SpecFeedSkipsOnlyOvertaken`** and **`SpecTypeOK`**, from `ReaderInv`: an open stream's cursor is
  the last id shown, what was shown ascends, and what was left out below it was not committed when
  a larger id was shown. A batch is described by rank, the n-th row being the one with n - 1 fresh
  rows before it, and not by recursion over the table; that the ranks of a finite set are filled
  from 1 on (`RankExists`) then needs no induction.

### Diagnosis

* **`CauseAlwaysWasTrue`** (with **`EvidenceTypeCorrect`**), for any number of readings. `EvidenceInv`
  gives the readings their `History`: they were made at n moments, each answers truly of the order
  at its own, and of two moments the later is `Onward` from the earlier (a payment, an event, a
  deduction and a signal never disappear, a published row stays so). `LastIsAmong`, which finite
  evidence has, names the last cited reading. At its moment the cause holds: what an older reading
  saw of a thing that stays still holds there; what may pass is still said there, or the evidence
  was not `Current`; and no exclusion had come true, because the log readings that rule it out are
  still the log. `Consistent` says that no signal comes before the payment and none of the
  consumer's is empty.
* `HeardWords` is about traces, which mix the services: a payment's signals always say success, so
  in a trace a failure comes with a success, and such evidence is a conflict. `ConsumerSaid`
  follows: without a conflict, a word the consumer is heard to say was said by a signal of its own.
* The property is about all that `Supported` accepts. What `Confirmed` adds, the check of evidence
  that is not cited, is a precaution that it does not need.
* **`FaultIsAlwaysDiagnosed`**, for any set of replayed faults, from `CourseInv`: how far each fault
  lets the order come, and what the consumer may have logged by then. `StatusReadSays` and
  `ConfirmedIsEvident` reduce reading the status tools and the logs to conditions on the order,
  `RestOfCourse` adds that nothing is left to do. For the trace, `SameWordsSameCauses` says that
  readings with the same words confirm the same causes, and `TraceConfirms` that a trace adds none
  to those of the status tools unless `TraceConfuses`, when it makes the evidence a conflict.
  `Settled` spells out that no guard of `ServicesNext` holds, because the prover does not know
  ENABLED; TLC finds the two the same in every reachable state.

### Model-checked only

Liveness (`PaidIsDeducted`, `PendingIsPublished`, `InvestigationEnds`, `RepairEnds`,
`FeedCatchesUp`, `CallsEnd`, `RetrySettlesDelivery`): proofs from fairness are out of the prover's
reach. Every other property of a passing run is stated by a theorem. The other way round,
`CauseWasTrue` for NO_ISSUE, and the worker's part of `DiagnosisHasEvidence` and
`FinishedStepsStay`, are proved and in no run.

## 5. Not modelled, and the plan

Not modelled: tracing, configuration, HTTP helpers, frontend, scripts and the reconciliation stub
(nothing in them decides what the models decide); prompts and the decoding of model answers;
`initialize`, `ping` and `tools/list` of the MCP server, which keep no state; the order, metric
and knowledge tools, whose answers no check looks at; DiagnoseFromEvidence, which nothing on the
production path calls.

Order of work, the most important behaviour first:

1. Pipeline with its abstract specification and proofs. *Done.*
2. Run lifecycle with worker, repair and evaluation, first proofs. *Done.*
3. Evidence and diagnosis of an order that goes on (`ObservedOrder`, `EvidenceDiagnosis`). *Done.*
4. The event stream (`EventFeed`). *Done.*
5. Tool calls with guard, server, audit and evidence (`ToolCalls`, `InvestigatorStep`), and the
   proofs about them. *Done.*
6. Proofs of all safety and action properties the runs check. *Done.*
7. The batch limit of 100 with rows that a fault holds back, and XAUTOCLAIM's fixed start.
8. The repair loop of runtime and pipeline together: a repair by key, the verification's reads of
   a moving order, REPAIRED against the pipeline's tables.
