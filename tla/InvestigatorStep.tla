-------------------------- MODULE InvestigatorStep --------------------------
(***************************************************************************)
(* Investigator.Run: a ReAct loop in which the model asks for tools, the   *)
(* ToolsNode runs the calls of a message side by side and waits for all of *)
(* them, and the model goes on with their results or answers.  Around it   *)
(* the run's last event and a browser that follows the feed.               *)
(***************************************************************************)
EXTENDS ToolCalls

CONSTANTS
    Runner,     \* RunWorker, as a writer of events
    Approver,   \* approveRun, as a writer of events
    MinCalls    \* authorized calls a result must rest on: 4

ASSUME StepAssumption ==
    /\ {Runner, Approver} \subseteq Writers \ Calls
    /\ MinCalls \in Nat

VARIABLE phase

vars == <<phase, callVars, feedVars>>

Phases == {"generating", "calling", "failing", "succeeding", "closing", "ended",
           "approving", "approved", "expired"}

Active == {c \in Calls : at[c] \notin {"idle", "done", "failed"}}

Asked == {c \in Calls : at[c] # "idle"}

Init ==
    /\ phase = "generating"
    /\ CallInit
    /\ FeedInit

TypeOK == phase \in Phases /\ CallTypeOK /\ FeedTypeOK

\* The model asks for up to Parallel tools at once.  They run side by side, so
\* which of them is numbered first does not matter: it is the lower request.
Generate ==
    /\ phase = "generating"
    /\ \E batch \in SUBSET (Calls \ Asked) :
           /\ batch # {} /\ Cardinality(batch) <= Parallel
           /\ \A c \in batch, d \in Calls \ Asked : d < c => d \in batch
           /\ \E asks \in [batch -> Requests] :
                  /\ \A c, d \in batch : c < d => asks[c] <= asks[d]
                  /\ request' = [c \in Calls |-> IF c \in batch THEN asks[c] ELSE request[c]]
           /\ at' = [c \in Calls |-> IF c \in batch THEN "asked" ELSE at[c]]
    /\ phase' = "calling"
    /\ UNCHANGED <<total, seen, result, serverVars, evidence, feedVars>>

\* The ToolsNode has waited for all calls; the first error ends the loop.
BatchEnds ==
    /\ phase = "calling"
    /\ Active = {}
    /\ phase' = IF \E c \in Calls : at[c] = "failed" THEN "failing" ELSE "generating"
    /\ UNCHANGED <<callVars, feedVars>>

\* The model answers.  A result needs MinCalls authorized calls and facts
\* that name evidence of the run; the model may fail to give one.
Answer ==
    /\ phase = "generating"
    /\ \/ phase' = "failing"
       \/ total >= MinCalls /\ evidence # {} /\ phase' = "succeeding"
    /\ UNCHANGED <<callVars, feedVars>>

\* The run's last event: Fail's, or the one at the end of the agents that
\* follow, whose own events are left out.
CloseWrites ==
    /\ \/ phase = "failing" /\ Insert(Runner, "run.failed", FALSE)
       \/ phase = "succeeding" /\ Insert(Runner, "run.completed", TRUE)
    /\ phase' = "closing"
    /\ UNCHANGED <<callVars, readerVars, failures>>

CloseCommits ==
    /\ phase = "closing"
    /\ Conclude({Runner}, {Runner})
    /\ phase' = "ended"
    /\ UNCHANGED <<callVars, readerVars, failures>>

\* A completed run can be approved, whose events follow the last one.
ApprovalWrites ==
    /\ phase = "ended"
    /\ \E i \in Committed : events[i].type = "run.completed"
    /\ Insert(Approver, "approval.requested", FALSE)
    /\ phase' = "approving"
    /\ UNCHANGED <<callVars, readerVars, failures>>

ApprovalCommits ==
    /\ phase = "approving"
    /\ Conclude({Approver}, {Approver})
    /\ phase' = "approved"
    /\ UNCHANGED <<callVars, readerVars, failures>>

\* The run's context expires or the process dies: calls fail where they are,
\* with their writes, and the last event fails too.  An MCP server goes on
\* with what it has received.
Expire ==
    /\ phase \in {"generating", "calling", "failing", "succeeding", "closing"}
    /\ Fails
    /\ phase' = "expired"
    /\ at' = [c \in Calls |-> IF c \in Active THEN "failed" ELSE at[c]]
    /\ Conclude(Calls \cup {Runner}, {})
    /\ UNCHANGED <<guardVars, result, serverVars, evidence, readerVars>>

InvestigatorNext ==
    \/ Generate \/ BatchEnds \/ Answer \/ CloseWrites \/ CloseCommits
    \/ ApprovalWrites \/ ApprovalCommits \/ Expire

Next ==
    \/ InvestigatorNext
    \/ \E c \in Calls : (CallStep(c) \/ WriteFails(c) \/ ServerStep(c)) /\ UNCHANGED phase
    \/ ReaderNext /\ UNCHANGED <<phase, callVars>>

\* A goroutine goes on and a client's timer fires; an MCP server that is not
\* stopped answers; streamEvents polls and a browser reconnects.
Fairness ==
    /\ \A c \in Calls : /\ WF_vars(CallStep(c) /\ UNCHANGED phase)
                        /\ WF_vars((Refuse(c) \/ (\E o \in {"ok", "failed"} : Execute(c, o))
                                        \/ Audit(c)) /\ UNCHANGED phase)
    /\ WF_vars(Poll /\ UNCHANGED <<phase, callVars>>)
    /\ WF_vars(Connect /\ UNCHANGED <<phase, callVars>>)

Spec == Init /\ [][Next]_vars /\ Fairness

-----------------------------------------------------------------------------

\* What reached an MCP server, however the calls of a step interleave, is
\* within the guard's budget and its duplicate limit and about this order
\* (ToolGuard, tool_guard.go).
Reached == {c \in Calls : server[c] # "idle"}

BudgetIsKept ==
    /\ Cardinality(Reached) <= MaxCalls
    /\ \A r \in Requests :
           Cardinality({c \in Reached : request[c] = r}) <= IF r \in Foreign THEN 0
                                                            ELSE MaxDuplicates

\* The ids of the events of c of one type that readers can see.
EventsOf(c, type) == {i \in Committed : events[i].by = c /\ events[i].type = type}

\* The feed, the evidence and the audit agree on a call: a success is told
\* only with its evidence saved and told before, a failure only without, and
\* evidence rests on an execution that is audited as one unless the audit
\* was lost (InvokableRun, SaveEvidence and recordAudit).
EvidenceIsAccounted ==
    /\ \A c \in Calls : \A i \in EventsOf(c, "tool.call_completed") :
           /\ events[i].success <=> c \in evidence
           /\ events[i].success => \E j \in EventsOf(c, "evidence.created") : j < i
    /\ \A c \in evidence : envelope[c] = "ok" /\ audit[c] \in {"ok", "lost"}

\* An execution that ends is on record, also one whose caller has left: the
\* evidence may miss what a server did, the audit does not (recordAudit).
ExecutedIsAudited == \A c \in Calls : server[c] = "answered" => audit[c] # None

\* What a browser is shown is in the order of the ids and without repetition,
\* over any number of reconnects, and leaves out of the committed events only
\* those overtaken by a later id (streamEvents and ListEvents).
FeedSkipsOnlyOvertaken ==
    /\ \A j, k \in DOMAIN shown : j < k => shown[j] < shown[k]
    /\ \A i \in Committed :
           i < LastShown /\ i \notin overtaken => \E k \in DOMAIN shown : shown[k] = i

\* Every event of the run that is not overtaken is shown in the end, also
\* one that follows the event that ends the stream (streamEvents): again and
\* again the browser has all there is.
FeedCatchesUp ==
    []<>(\A i \in Committed : i \in overtaken \/ \E k \in DOMAIN shown : shown[k] = i)

\* Every tool call ends, whatever its server does (Client, InvokableRun).
CallsEnd == []<>(Active = {})
=============================================================================
