----------------------------- MODULE RunWorker -----------------------------
(***************************************************************************)
(* The multi-agent investigation: createRun, and the goroutine in          *)
(* RunWorker that claims CREATED runs one after the other and takes each   *)
(* through Process.  Process repeats one pattern for every agent: StartStep,*)
(* the agent's work, FinishStep, and the status change its outcome calls   *)
(* for; each is a database call of its own.  The models' answers are free. *)
(***************************************************************************)
EXTENDS RunState

\* POST /investigations
CreateRun(r) ==
    /\ InsertRun(r)
    /\ UNCHANGED <<steps, evidence, repairVars, inventory, shells, worker, approver,
                   executor, evaluator, failures>>

workerFrame == <<repairVars, inventory, shells, approver, executor, evaluator>>

\* Mutated form of WorkerClaims: it also takes up PLANNING runs, meaning those
\* a crash left behind.
WorkerReclaims(w) ==
    /\ worker[w].at = "idle"
    /\ \E r \in Runs :
          LET copy == CopyOf(r, "start")
          IN \/ /\ status[r] = "CREATED"
                /\ Transit(copy, "PLANNING")
                /\ worker' = [worker EXCEPT ![w] = Moved(copy, "PLANNING", "start")]
             \/ /\ status[r] = "PLANNING"
                /\ worker' = [worker EXCEPT ![w] = copy]
                /\ UNCHANGED rowVars
    /\ UNCHANGED <<workerFrame, steps, evidence, failures>>

\* ClaimCreated.  The row locks of SKIP LOCKED make it one step; which of
\* several CREATED runs is the oldest is left open.
WorkerClaims(w) ==
    /\ worker[w].at = "idle"
    /\ \E r \in Runs :
          LET copy == CopyOf(r, "start")
          IN /\ status[r] = "CREATED"
             /\ Transit(copy, "PLANNING")
             /\ worker' = [worker EXCEPT ![w] = Moved(copy, "PLANNING", "start")]
    /\ UNCHANGED <<workerFrame, steps, evidence, failures>>

\* StartStep
WorkerStartsStep(w) ==
    LET me == worker[w]
    IN /\ me.at = "start"
       /\ steps' = [steps EXCEPT ![me.run] = Started(me.run, me.agent, "runtime")]
       /\ worker' = [worker EXCEPT ![w].at = "agent", ![w].step = Len(steps[me.run]) + 1]
       /\ UNCHANGED <<workerFrame, rowVars, evidence, failures>>

\* EinoMCPTool.InvokableRun saves what a tool call answers.
WorkerObserves(w) ==
    LET me == worker[w]
    IN /\ me.at = "agent"
       /\ me.agent = "INVESTIGATOR"
       /\ \E o \in Observations \ evidence[me.run] :
             evidence' = [evidence EXCEPT ![me.run] = @ \cup {o}]
       /\ UNCHANGED <<workerFrame, rowVars, steps, worker, failures>>

\* Whether the loop has a supplemental investigation left:
\* attempt < maxSupplementalInvestigations.
MaySupplement(copy) == copy.attempt < 1

\* What an agent may answer.  A supplemental investigation never ends in
\* INVESTIGATION_FAILED; an investigator's facts cite evidence of the run.
Answers(copy) ==
    CASE copy.agent = "INVESTIGATOR" ->
            {"failed", "inconclusive"} \cup (IF evidence[copy.run] # {} THEN {"ok"} ELSE {})
      [] OTHER -> {"ok", "failed"}

\* Planner.Run, Investigator.Run and CollectKnowledge return.  An answer of
\* the knowledge model that cannot be decoded, or planned, or looked up ends
\* the lookup without FinishStep.
WorkerAgentAnswers(w) ==
    LET me == worker[w]
    IN /\ me.at = "agent"
       /\ me.agent # "DIAGNOSIS"
       /\ \E outcome \in Answers(me) :
          \E at \in IF me.agent = "KNOWLEDGE" /\ outcome = "failed"
                    THEN {"finish", "conclude"} ELSE {"finish"} :
             worker' = [worker EXCEPT ![w].at = at, ![w].outcome = outcome]
       /\ UNCHANGED <<workerFrame, rowVars, steps, evidence, failures>>

\* RunDiagnosisAgent, ListEvidence and ValidateDiagnosisRootCause: the model
\* fails or names a root cause, and the evidence decides what becomes of it.
WorkerDiagnoses(w) ==
    LET me == worker[w]
        items == evidence[me.run]
    IN /\ me.at = "agent"
       /\ me.agent = "DIAGNOSIS"
       /\ \E cause \in RootCauses, outcome \in {"error", "conflict", "ok", "unsupported"} :
             /\ outcome # "error" => (outcome = "conflict" <=> Conflicting(items))
             /\ outcome = "ok" => Supported(cause, items)
             /\ worker' = [worker EXCEPT ![w].at = "finish", ![w].outcome = outcome,
                              ![w].cause = IF outcome = "ok" THEN cause ELSE None]
       /\ UNCHANGED <<workerFrame, rowVars, steps, evidence, failures>>

\* FinishStep
WorkerFinishesStep(w) ==
    LET me == worker[w]
    IN /\ me.at = "finish"
       /\ FinishStep(me.run, me.step, IF me.outcome = "ok" THEN "SUCCEEDED" ELSE "FAILED")
       /\ worker' = [worker EXCEPT ![w].at = "conclude"]
       /\ UNCHANGED <<workerFrame, rowVars, evidence, failures>>

\* Mutated form of NextStatus: a failed lookup fails the investigation, which
\* the transition table does not have.
NextStatusUndeclared(copy) ==
    CASE copy.agent = "PLANNER" ->
            IF copy.outcome = "ok" THEN "INVESTIGATING" ELSE "PLANNING_FAILED"
      [] copy.agent = "INVESTIGATOR" ->
            IF copy.outcome = "ok" THEN "KNOWLEDGE_LOOKUP" ELSE "INCONCLUSIVE"
      [] copy.agent = "KNOWLEDGE" ->
            IF copy.outcome = "ok" THEN "DIAGNOSING" ELSE "INVESTIGATION_FAILED"
      [] copy.agent = "DIAGNOSIS" ->
            IF copy.outcome = "ok" THEN "EVIDENCE_COLLECTED" ELSE "INCONCLUSIVE"

\* The status each outcome leads to.
NextStatus(copy) ==
    CASE copy.agent = "PLANNER" ->
            IF copy.outcome = "ok" THEN "INVESTIGATING" ELSE "PLANNING_FAILED"
      [] copy.agent = "INVESTIGATOR" ->
            IF copy.outcome = "ok" THEN "KNOWLEDGE_LOOKUP"
            ELSE IF copy.outcome = "failed" /\ MaySupplement(copy)
            THEN "INVESTIGATION_FAILED" ELSE "INCONCLUSIVE"
      [] copy.agent = "KNOWLEDGE" ->
            IF copy.outcome = "ok" THEN "DIAGNOSING" ELSE "INCONCLUSIVE"
      [] copy.agent = "DIAGNOSIS" ->
            IF copy.outcome = "ok" THEN "EVIDENCE_COLLECTED"
            ELSE IF copy.outcome = "unsupported" /\ MaySupplement(copy)
            THEN "INVESTIGATING" ELSE "INCONCLUSIVE"

NextAgent(to) ==
    CASE to = "INVESTIGATING" -> "INVESTIGATOR"
      [] to = "KNOWLEDGE_LOOKUP" -> "KNOWLEDGE"
      [] OTHER -> "DIAGNOSIS"

\* Transition, Fail or Complete, and on with the next agent or the next run.
\* An update that is refused ends Process.
WorkerConcludes(w) ==
    LET me == worker[w]
        to == NextStatus(me)
    IN /\ me.at = "conclude"
       /\ \/ /\ Allowed(me, to)
             /\ Advance(me, to)
             /\ diagnosis' = IF to = "EVIDENCE_COLLECTED"
                             THEN [diagnosis EXCEPT ![me.run] = me.cause] ELSE diagnosis
             /\ worker' = [worker EXCEPT ![w] =
                   IF to \in {"INVESTIGATING", "KNOWLEDGE_LOOKUP", "DIAGNOSING"}
                   THEN [Moved(me, to, "start") EXCEPT
                            !.agent = NextAgent(to), !.step = 0, !.outcome = "ok",
                            !.cause = None,
                            !.attempt = IF me.agent = "DIAGNOSIS" THEN 1 ELSE @]
                   ELSE Idle]
          \/ /\ ~Allowed(me, to)
             /\ worker' = [worker EXCEPT ![w] = Idle]
             /\ UNCHANGED rowVars
       /\ UNCHANGED <<workerFrame, steps, evidence, failures>>

\* The run's context expires, the process loses the database for a call whose
\* error Process returns, or the model provider and the database fail
\* together: after the deadline FinishStep and Fail fail as well, because they
\* use the same context.  The run stays where it is.
WorkerAbandons(w) ==
    /\ worker[w].at \notin {"idle", "stopped"}
    /\ Fails
    /\ worker' = [worker EXCEPT ![w] = Idle]
    /\ UNCHANGED <<workerFrame, rowVars, steps, evidence>>

\* An error of FinishStep that Process ignores: "_ = FinishStep(...)".
WorkerMissesFinish(w) ==
    LET me == worker[w]
    IN /\ me.at = "finish"
       /\ \/ me.agent = "KNOWLEDGE"
          \/ me.outcome \in {"failed", "inconclusive", "error", "conflict"}
       /\ Fails
       /\ worker' = [worker EXCEPT ![w].at = "conclude"]
       /\ UNCHANGED <<workerFrame, rowVars, steps, evidence>>

\* StartStep fails in CollectKnowledge: the lookup fails without a step.
WorkerMissesStart(w) ==
    /\ worker[w].at = "start"
    /\ worker[w].agent = "KNOWLEDGE"
    /\ Fails
    /\ worker' = [worker EXCEPT ![w].at = "conclude", ![w].outcome = "failed"]
    /\ UNCHANGED <<workerFrame, rowVars, steps, evidence>>

\* ClaimCreated returns an error: RunWorker returns it and main logs it.
WorkerStops(w) ==
    /\ worker[w].at = "idle"
    /\ Fails
    /\ worker' = [worker EXCEPT ![w] = Stopped]
    /\ UNCHANGED <<workerFrame, rowVars, steps, evidence>>

WorkerProceeds(w) ==
    \/ WorkerClaims(w)
    \/ WorkerStartsStep(w)
    \/ WorkerAgentAnswers(w)
    \/ WorkerDiagnoses(w)
    \/ WorkerFinishesStep(w)
    \/ WorkerConcludes(w)

WorkerNext ==
    \/ \E r \in Runs : CreateRun(r)
    \/ \E w \in Workers :
          \/ WorkerProceeds(w)
          \/ WorkerObserves(w)
          \/ WorkerAbandons(w)
          \/ WorkerMissesFinish(w)
          \/ WorkerMissesStart(w)
          \/ WorkerStops(w)
=============================================================================
