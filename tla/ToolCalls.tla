----------------------------- MODULE ToolCalls -----------------------------
(***************************************************************************)
(* The tool calls of one investigator step.  The model asks for several    *)
(* tools in one message; EinoMCPTool.InvokableRun runs for each of them in *)
(* a goroutine: past the ToolGuard they share, through the MCP client to   *)
(* an MCP server, which executes the tool, audits it and answers, and with *)
(* the answer into the evidence and the event feed.                        *)
(*                                                                         *)
(* An action is one database or network call together with the local code  *)
(* around it.  Tools are the registry's, so all of them are read-only and  *)
(* the guard's first check lets them pass.                                 *)
(***************************************************************************)
EXTENDS EventFeed

CONSTANTS
    Calls,          \* 1 .. n: tool calls in the order the model makes them
    Parallel,       \* bound on the tool calls of one message
    Requests,       \* numbers for tool names with their arguments
    Foreign,        \* requests whose order_id is not the investigation's
    Refused,        \* requests validateArguments or findTool turns down
    MaxCalls,       \* the guard's budget: 12
    MaxDuplicates,  \* how often one request may be made: 2
    None            \* nothing yet

ASSUME ToolAssumption ==
    /\ Requests \subseteq Nat /\ Foreign \subseteq Requests /\ Refused \subseteq Requests
    /\ None \notin Requests /\ None \notin {"ok", "failed", "error", "lost"}
    /\ Calls \subseteq Nat /\ Calls \subseteq Writers
    /\ Parallel \in Nat /\ MaxCalls \in Nat /\ MaxDuplicates \in Nat

VARIABLES
    total, seen,  \* ToolGuard.total and ToolGuard.seen
    request,      \* per call: what was asked for
    at,           \* per call: where InvokableRun is
    result,       \* per call: what the client returned
    server,       \* per call: where handleToolCall is
    envelope,     \* per call: how executeTool ended
    audit,        \* per call: the outcome in mcp.tool_calls, "lost" if refused
    evidence      \* evidence_snapshots: the calls with a row

guardVars == <<total, seen, request>>
serverVars == <<server, envelope, audit>>
callVars == <<guardVars, at, result, serverVars, evidence>>

Places == {"idle", "asked", "announcing", "send", "wait", "saving", "report", "reporting",
           "done", "failed"}

CallInit ==
    /\ total = 0
    /\ seen = [r \in Requests |-> 0]
    /\ request = [c \in Calls |-> None]
    /\ at = [c \in Calls |-> "idle"]
    /\ result = [c \in Calls |-> None]
    /\ server = [c \in Calls |-> "idle"]
    /\ envelope = [c \in Calls |-> None]
    /\ audit = [c \in Calls |-> None]
    /\ evidence = {}

CallTypeOK ==
    /\ total \in 0 .. MaxCalls
    /\ seen \in [Requests -> 0 .. MaxDuplicates]
    /\ request \in [Calls -> Requests \cup {None}]
    /\ at \in [Calls -> Places]
    /\ result \in [Calls -> {None, "ok", "failed", "error"}]
    /\ server \in [Calls -> {"idle", "received", "executed", "answered", "refused", "gone"}]
    /\ envelope \in [Calls -> {None, "ok", "failed"}]
    /\ audit \in [Calls -> {None, "ok", "failed", "lost"}]
    /\ evidence \subseteq Calls

Goes(c, place) == at' = [at EXCEPT ![c] = place]

\* Mutated form of Allowed: the duplicates are counted one too far.
AllowedOnceMore(r) == r \notin Foreign /\ total < MaxCalls /\ seen[r] <= MaxDuplicates

\* Mutated form of Allowed: the budget is not looked at.
AllowedWithoutBudget(r) == r \notin Foreign /\ seen[r] < MaxDuplicates

\* Authorize's conditions.
Allowed(r) == r \notin Foreign /\ total < MaxCalls /\ seen[r] < MaxDuplicates

\* ToolGuard.Authorize, under its mutex.  A denied call ends with an error
\* and leaves the budget as it is; an allowed one announces itself.
Authorize(c) ==
    /\ at[c] = "asked"
    /\ IF Allowed(request[c])
       THEN /\ total' = total + 1
            /\ seen' = [seen EXCEPT ![request[c]] = @ + 1]
            /\ Insert(c, "tool.call_started", FALSE)
            /\ Goes(c, "announcing")
       ELSE /\ Goes(c, "failed")
            /\ UNCHANGED <<total, seen, events, overtaken>>
    /\ UNCHANGED <<request, result, serverVars, evidence, readerVars, failures>>

\* Where a call is when its last write has ended, one way or the other.
AfterReport(c) == IF result[c] = "error" THEN "failed" ELSE "done"

\* An event is written, or the evidence snapshot together with its event.
WriteCommits(c) ==
    /\ \/ at[c] = "announcing" /\ Goes(c, "send") /\ UNCHANGED evidence
       \/ at[c] = "saving" /\ Goes(c, "report") /\ evidence' = evidence \cup {c}
       \/ at[c] = "reporting" /\ Goes(c, AfterReport(c)) /\ UNCHANGED evidence
    /\ Conclude({c}, {c})
    /\ UNCHANGED <<guardVars, result, serverVars, readerVars, failures>>

\* Mutated form of WriteFails: an evidence row that could not be written is
\* passed over like an event.
WriteFailureIgnored(c) ==
    /\ Fails
    /\ \/ at[c] = "announcing" /\ Goes(c, "send")
       \/ at[c] = "saving" /\ Goes(c, "report")
       \/ at[c] = "reporting" /\ Goes(c, AfterReport(c))
    /\ Conclude({c}, {})
    /\ UNCHANGED <<guardVars, result, serverVars, evidence, readerVars>>

\* The write fails.  An event is given up silently; SaveEvidence's error ends
\* the call at once, with no tool.call_completed.
WriteFails(c) ==
    /\ Fails
    /\ \/ at[c] = "announcing" /\ Goes(c, "send")
       \/ at[c] = "saving" /\ Goes(c, "failed")
       \/ at[c] = "reporting" /\ Goes(c, AfterReport(c))
    /\ Conclude({c}, {})
    /\ UNCHANGED <<guardVars, result, serverVars, evidence, readerVars>>

\* Client.call posts the request.
Send(c) ==
    /\ at[c] = "send"
    /\ Goes(c, "wait")
    /\ server' = [server EXCEPT ![c] = "received"]
    /\ UNCHANGED <<guardVars, result, envelope, audit, evidence, feedVars>>

\* The client returns: a successful envelope is saved as evidence, anything
\* else ends the call with success = false.
Returns(c, outcome) ==
    /\ result' = [result EXCEPT ![c] = outcome]
    /\ IF outcome = "ok"
       THEN Insert(c, "evidence.created", FALSE) /\ Goes(c, "saving")
       ELSE Insert(c, "tool.call_completed", FALSE) /\ Goes(c, "reporting")
    /\ UNCHANGED <<guardVars, serverVars, evidence, readerVars, failures>>

\* The answer arrives: a JSON-RPC error for a refused request, an envelope
\* for an executed one.
Receive(c) ==
    /\ at[c] = "wait"
    /\ \/ server[c] = "refused" /\ Returns(c, "error")
       \/ server[c] = "answered" /\ Returns(c, envelope[c])

\* The evidence is saved: tool.call_completed with success = true.
Report(c) ==
    /\ at[c] = "report"
    /\ Insert(c, "tool.call_completed", TRUE)
    /\ Goes(c, "reporting")
    /\ UNCHANGED <<guardVars, result, serverVars, evidence, readerVars, failures>>

\* Mutated form of GiveUp: the client waits as long as it takes.
WaitOn(c) == FALSE /\ UNCHANGED <<callVars, feedVars>>

\* The client's 5 seconds are over, or the connection fails, at any moment:
\* also when the server has executed and audited the call.
GiveUp(c) ==
    /\ at[c] = "wait"
    /\ Returns(c, "error")

CallStep(c) ==
    Authorize(c) \/ WriteCommits(c) \/ Send(c) \/ Receive(c) \/ GiveUp(c) \/ Report(c)

\* handleToolCall's checks.
Refuse(c) ==
    /\ server[c] = "received"
    /\ request[c] \in Refused
    /\ server' = [server EXCEPT ![c] = "refused"]
    /\ UNCHANGED <<guardVars, at, result, envelope, audit, evidence, feedVars>>

\* executeTool: the handler answers, or fails, or its time runs out, or the
\* client has left and its context is cancelled.
Execute(c, outcome) ==
    /\ server[c] = "received"
    /\ request[c] \notin Refused
    /\ server' = [server EXCEPT ![c] = "executed"]
    /\ envelope' = [envelope EXCEPT ![c] = outcome]
    /\ UNCHANGED <<guardVars, at, result, audit, evidence, feedVars>>

\* Mutated form of Audit: under the request's context, which ends with the
\* client.
AuditWhileAsked(c) ==
    /\ server[c] = "executed"
    /\ server' = [server EXCEPT ![c] = "answered"]
    /\ audit' = [audit EXCEPT ![c] = IF at[c] = "wait" THEN envelope[c] ELSE None]
    /\ UNCHANGED <<guardVars, at, result, envelope, evidence, feedVars>>

\* recordAudit, under a context of its own: the client may have left.
Audit(c) ==
    /\ server[c] = "executed"
    /\ server' = [server EXCEPT ![c] = "answered"]
    /\ audit' = [audit EXCEPT ![c] = envelope[c]]
    /\ UNCHANGED <<guardVars, at, result, envelope, evidence, feedVars>>

\* The audit cannot be written; the answer is sent all the same.
AuditFails(c) ==
    /\ server[c] = "executed"
    /\ Fails
    /\ server' = [server EXCEPT ![c] = "answered"]
    /\ audit' = [audit EXCEPT ![c] = "lost"]
    /\ UNCHANGED <<guardVars, at, result, envelope, evidence, events, readerVars,
                   overtaken>>

\* The MCP server stops with the call in hand.
ServerStops(c) ==
    /\ server[c] \in {"received", "executed"}
    /\ Fails
    /\ server' = [server EXCEPT ![c] = "gone"]
    /\ UNCHANGED <<guardVars, at, result, envelope, audit, evidence, events, readerVars,
                   overtaken>>

ServerStep(c) == Refuse(c) \/ (\E outcome \in {"ok", "failed"} : Execute(c, outcome))
                     \/ Audit(c) \/ AuditFails(c) \/ ServerStops(c)
=============================================================================
