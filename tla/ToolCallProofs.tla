--------------------------- MODULE ToolCallProofs ---------------------------
(***************************************************************************)
(* The tool calls of an investigator step for any number of them, any      *)
(* requests and any budget: the guard's budget is kept, the feed, the      *)
(* evidence and the audit agree, what was executed is on record, and a     *)
(* browser is shown the events in order and without a gap of its own.      *)
(***************************************************************************)
EXTENDS InvestigatorStep, FiniteSetTheorems, SequenceTheorems, TLAPS

Types == CallTypeOK /\ events \in Seq(Event)

\* The calls that have not reached a server.
Early == {"idle", "asked", "announcing", "send"}

\* The two ends of a call agree: the client has only what the server has given.
ServerInv ==
    \A c \in Calls :
        /\ at[c] \in Early => server[c] = "idle" /\ result[c] = None
        /\ server[c] \in {"executed", "answered"} => envelope[c] \in {"ok", "failed"}
        /\ server[c] = "answered" => audit[c] \in {envelope[c], "lost"}
        /\ result[c] = "ok" => server[c] = "answered" /\ envelope[c] = "ok"
        /\ at[c] \in {"saving", "report"} \/ c \in evidence => result[c] = "ok"
        /\ at[c] = "report" => c \in evidence
        /\ c \in evidence => at[c] \in {"report", "reporting", "done", "failed"}

-----------------------------------------------------------------------------
(* The table of events                                                     *)

\* An insert keeps the rows and adds one.
LEMMA InsertAppends ==
    ASSUME events \in Seq(Event), NEW w \in Writers, NEW type \in EventTypes,
           NEW success \in BOOLEAN, Insert(w, type, success)
    PROVE  /\ events' \in Seq(Event)
           /\ Len(events) \in Nat
           /\ DOMAIN events = 1 .. Len(events)
           /\ DOMAIN events' = 1 .. (Len(events) + 1)
           /\ \A i \in DOMAIN events : events'[i] = events[i]
           /\ events'[Len(events) + 1] =
                  [type |-> type, by |-> w, success |-> success, state |-> "open"]
<1>1. [type |-> type, by |-> w, success |-> success, state |-> "open"] \in Event
  BY DEF Event
<1> QED
  BY <1>1 DEF Insert

\* Ending transactions changes the state of their rows and nothing else.
LEMMA ConcludeEnds ==
    ASSUME events \in Seq(Event), NEW writers, NEW kept, Conclude(writers, kept)
    PROVE  /\ events' \in Seq(Event)
           /\ Len(events) \in Nat
           /\ DOMAIN events = 1 .. Len(events)
           /\ DOMAIN events' = DOMAIN events
           /\ \A i \in DOMAIN events :
                  /\ events'[i].type = events[i].type
                  /\ events'[i].by = events[i].by
                  /\ events'[i].success = events[i].success
                  /\ events'[i].state =
                         IF events[i].by \in writers /\ events[i].state = "open"
                         THEN IF events[i].by \in kept THEN "committed" ELSE "aborted"
                         ELSE events[i].state
<1> DEFINE ends == UNION {OpenOf(w) : w \in writers}
           row(i) == IF i \notin ends THEN events[i]
                     ELSE [events[i] EXCEPT
                              !.state = IF events[i].by \in kept THEN "committed" ELSE "aborted"]
<1>1. events' = [i \in DOMAIN events |-> row(i)]
  BY DEF Conclude
<1>2. Len(events) \in Nat /\ DOMAIN events = 1 .. Len(events)
  BY LenProperties
<1>3. \A i \in DOMAIN events : i \in ends <=> events[i].by \in writers /\ events[i].state = "open"
  BY DEF OpenOf
<1>4. \A i \in DOMAIN events : events[i] \in Event
  BY <1>2
<1>5. ASSUME NEW i \in DOMAIN events
      PROVE  /\ row(i) \in Event
             /\ row(i).type = events[i].type
             /\ row(i).by = events[i].by
             /\ row(i).success = events[i].success
             /\ row(i).state =
                    IF events[i].by \in writers /\ events[i].state = "open"
                    THEN IF events[i].by \in kept THEN "committed" ELSE "aborted"
                    ELSE events[i].state
  <2> HIDE DEF ends
  <2> QED
    BY <1>3, <1>4 DEF Event
<1> HIDE DEF row
<1>6. events' \in [1 .. Len(events) -> Event]
  BY <1>1, <1>2, <1>5
<1>7. events' \in Seq(Event)
  BY <1>2, <1>6, SeqDef
<1> QED
  BY <1>1, <1>2, <1>5, <1>7

-----------------------------------------------------------------------------
(* The calls and their servers                                             *)

\* An MCP server that refuses, executes, audits or stops keeps the agreement
\* of the two ends of a call, and writes no event.
LEMMA ServerStep_ServerInv ==
    ASSUME Types, ServerInv, NEW c \in Calls, ServerStep(c)
    PROVE  ServerInv' /\ CallTypeOK' /\ events' = events
<1> USE ToolAssumption DEF Types, CallTypeOK, ServerInv, Early, Places, feedVars, readerVars,
        guardVars
<1>1. ASSUME Refuse(c) PROVE ServerInv' /\ CallTypeOK' /\ events' = events
  BY <1>1 DEF Refuse
<1>2. ASSUME NEW o \in {"ok", "failed"}, Execute(c, o)
      PROVE ServerInv' /\ CallTypeOK' /\ events' = events
  BY <1>2 DEF Execute
<1>3. ASSUME Audit(c) PROVE ServerInv' /\ CallTypeOK' /\ events' = events
  BY <1>3 DEF Audit
<1>4. ASSUME AuditFails(c) PROVE ServerInv' /\ CallTypeOK' /\ events' = events
  BY <1>4 DEF AuditFails
<1>5. ASSUME ServerStops(c) PROVE ServerInv' /\ CallTypeOK' /\ events' = events
  BY <1>5 DEF ServerStops
<1> QED
  BY <1>1, <1>2, <1>3, <1>4, <1>5 DEF ServerStep

\* A call that comes back with what its server has given, or with an error,
\* keeps the agreement of its two ends.
LEMMA ReturnsTypes ==
    ASSUME Types, ServerInv, NEW c \in Calls, NEW o \in {"ok", "failed", "error"}, Returns(c, o),
           at[c] = "wait", o = "ok" => server[c] = "answered" /\ envelope[c] = "ok"
    PROVE  ServerInv' /\ CallTypeOK'
<1>1. /\ at' = [at EXCEPT ![c] = IF o = "ok" THEN "saving" ELSE "reporting"]
      /\ result' = [result EXCEPT ![c] = o]
      /\ UNCHANGED <<guardVars, serverVars, evidence>>
  BY DEF Returns, Goes
<1>2. CallTypeOK'
  BY <1>1 DEF Types, CallTypeOK, Places, serverVars, guardVars
<1>3. ServerInv'
  BY <1>1, ToolAssumption DEF Types, CallTypeOK, ServerInv, Early, Places, serverVars
<1> QED
  BY <1>2, <1>3

\* Every step of a call's goroutine, failed writes included, keeps the types
\* and the agreement of its two ends.
LEMMA CallStep_ServerInv ==
    ASSUME Types, ServerInv, NEW c \in Calls, CallStep(c) \/ WriteFails(c)
    PROVE  ServerInv' /\ CallTypeOK'
<1> USE ToolAssumption DEF Types, CallTypeOK, ServerInv, Early, Places, serverVars, guardVars,
        Goes
<1>1. ASSUME Authorize(c) PROVE ServerInv' /\ CallTypeOK'
  <2>1. CASE Allowed(request[c])
    <3>1. /\ total' = total + 1 /\ total < MaxCalls
          /\ seen' = [seen EXCEPT ![request[c]] = @ + 1] /\ seen[request[c]] < MaxDuplicates
          /\ at' = [at EXCEPT ![c] = "announcing"] /\ at[c] = "asked"
          /\ UNCHANGED <<request, result, serverVars, evidence>>
      BY <1>1, <2>1 DEF Authorize, Allowed
    <3>2. total' \in 0 .. MaxCalls
      BY <3>1
    <3>3. \A r \in Requests : (IF r = request[c] THEN seen[r] + 1 ELSE seen[r])
                                   \in 0 .. MaxDuplicates
      BY <3>1
    <3>4. seen' = [r \in Requests |-> IF r = request[c] THEN seen[r] + 1 ELSE seen[r]]
      BY <3>1
    <3>5. seen' \in [Requests -> 0 .. MaxDuplicates]
      BY <3>3, <3>4
    <3> QED
      BY <3>1, <3>2, <3>5
  <2>2. CASE ~Allowed(request[c])
    BY <1>1, <2>2 DEF Authorize
  <2> QED
    BY <2>1, <2>2
<1>2. ASSUME WriteCommits(c) PROVE ServerInv' /\ CallTypeOK'
  <2>1. PICK last \in {"failed", "done"} : AfterReport(c) = last
    BY DEF AfterReport
  <2>2. UNCHANGED <<guardVars, result, serverVars>>
    BY <1>2 DEF WriteCommits
  <2>3. \/ at[c] = "announcing" /\ at' = [at EXCEPT ![c] = "send"] /\ evidence' = evidence
        \/ at[c] = "saving" /\ at' = [at EXCEPT ![c] = "report"]
           /\ evidence' = evidence \cup {c}
        \/ at[c] = "reporting" /\ at' = [at EXCEPT ![c] = last]
           /\ evidence' = evidence
    BY <1>2, <2>1 DEF WriteCommits
  <2>4. CallTypeOK'
    <3>1. \E place \in Places : at' = [at EXCEPT ![c] = place]
      BY <2>1, <2>3
    <3>2. at' \in [Calls -> Places]
      BY <3>1
    <3>3. evidence' \subseteq Calls
      BY <2>3
    <3> QED
      BY <2>2, <3>2, <3>3
  <2>5. ServerInv'
    BY <2>1, <2>2, <2>3
  <2> QED
    BY <2>4, <2>5
<1>3. ASSUME WriteFails(c) PROVE ServerInv' /\ CallTypeOK'
  <2>1. PICK last \in {"failed", "done"} : AfterReport(c) = last
    BY DEF AfterReport
  <2>2. UNCHANGED <<guardVars, result, serverVars>>
    BY <1>3 DEF WriteFails
  <2>3. \/ at[c] = "announcing" /\ at' = [at EXCEPT ![c] = "send"] /\ evidence' = evidence
        \/ at[c] = "saving" /\ at' = [at EXCEPT ![c] = "failed"] /\ evidence' = evidence
        \/ at[c] = "reporting" /\ at' = [at EXCEPT ![c] = last]
           /\ evidence' = evidence
    BY <1>3, <2>1 DEF WriteFails
  <2>4. CallTypeOK'
    <3>1. \E place \in Places : at' = [at EXCEPT ![c] = place]
      BY <2>1, <2>3
    <3>2. at' \in [Calls -> Places]
      BY <3>1
    <3>3. evidence' \subseteq Calls
      BY <2>3
    <3> QED
      BY <2>2, <3>2, <3>3
  <2>5. ServerInv'
    BY <2>1, <2>2, <2>3
  <2> QED
    BY <2>4, <2>5
<1>4. ASSUME Send(c) PROVE ServerInv' /\ CallTypeOK'
  BY <1>4 DEF Send
<1>5. ASSUME Receive(c) PROVE ServerInv' /\ CallTypeOK'
  BY <1>5, ReturnsTypes DEF Receive
<1>6. ASSUME GiveUp(c) PROVE ServerInv' /\ CallTypeOK'
  BY <1>6, ReturnsTypes DEF GiveUp
<1>7. ASSUME Report(c) PROVE ServerInv' /\ CallTypeOK'
  BY <1>7 DEF Report
<1> QED
  BY <1>1, <1>2, <1>3, <1>4, <1>5, <1>6, <1>7 DEF CallStep

\* The loop around the calls keeps the types and the agreement of their two
\* ends: it starts calls that are idle, and fails calls that are on their way.
LEMMA Loop_ServerInv ==
    ASSUME Types, ServerInv, InvestigatorNext
    PROVE  ServerInv' /\ CallTypeOK'
<1> USE DEF Types, callVars, guardVars, serverVars
<1>1. ASSUME Generate PROVE ServerInv' /\ CallTypeOK'
  <2>0. PICK batch \in SUBSET (Calls \ Asked) : \E asks \in [batch -> Requests] :
            /\ request' = [c \in Calls |-> IF c \in batch THEN asks[c] ELSE request[c]]
            /\ at' = [c \in Calls |-> IF c \in batch THEN "asked" ELSE at[c]]
    BY <1>1 DEF Generate
  <2>1. PICK asks \in [batch -> Requests] :
            /\ request' = [c \in Calls |-> IF c \in batch THEN asks[c] ELSE request[c]]
            /\ at' = [c \in Calls |-> IF c \in batch THEN "asked" ELSE at[c]]
    BY <2>0
  <2>2. UNCHANGED <<total, seen, result, server, envelope, audit, evidence>>
    BY <1>1 DEF Generate
  <2>3. \A c \in batch : c \in Calls /\ at[c] = "idle"
    BY DEF Asked
  <2>4. CallTypeOK'
    BY <2>1, <2>2, <2>3 DEF CallTypeOK, Places
  <2>5. ServerInv'
    BY <2>1, <2>2, <2>3, <2>4, ToolAssumption DEF ServerInv, Early
  <2> QED
    BY <2>4, <2>5
<1>2. ASSUME Expire PROVE ServerInv' /\ CallTypeOK'
  <2>1. /\ at' = [c \in Calls |-> IF c \in Active THEN "failed" ELSE at[c]]
        /\ UNCHANGED <<total, seen, request, result, server, envelope, audit, evidence>>
    BY <1>2 DEF Expire
  <2>2. CallTypeOK'
    BY <2>1 DEF CallTypeOK, Places
  <2>3. ServerInv'
    BY <2>1, ToolAssumption DEF ServerInv, Early, CallTypeOK
  <2> QED
    BY <2>2, <2>3
<1>3. ASSUME UNCHANGED callVars PROVE ServerInv' /\ CallTypeOK'
  BY <1>3 DEF ServerInv, Early, CallTypeOK
<1>4. BatchEnds \/ Answer \/ CloseWrites \/ CloseCommits \/ ApprovalWrites \/ ApprovalCommits
          => UNCHANGED callVars
  BY DEF BatchEnds, Answer, CloseWrites, CloseCommits, ApprovalWrites, ApprovalCommits
<1> QED
  BY <1>1, <1>2, <1>3, <1>4 DEF InvestigatorNext

\* What a step does to the table of events: it adds the row of one writer, or
\* ends transactions, or leaves the table alone.
TableStep ==
    \/ \E w \in Writers, type \in EventTypes, success \in BOOLEAN : Insert(w, type, success)
    \/ \E writers \in SUBSET Writers, kept \in SUBSET Writers : Conclude(writers, kept)
    \/ UNCHANGED <<events, overtaken>>

\* Every step treats the table of events in one of these ways.
LEMMA NextIsTableStep ==
    ASSUME [Next]_vars
    PROVE  TableStep
<1> USE StepAssumption, ToolAssumption DEF TableStep, EventTypes
<1>1. ASSUME NEW c \in Calls, CallStep(c) \/ WriteFails(c) \/ ServerStep(c) PROVE TableStep
  <2>1. Authorize(c) => TableStep
    BY DEF Authorize
  <2>2. WriteCommits(c) \/ WriteFails(c) => TableStep
    BY DEF WriteCommits, WriteFails
  <2>3. Receive(c) \/ GiveUp(c) => TableStep
    BY DEF Receive, GiveUp, Returns
  <2>4. Report(c) => TableStep
    BY DEF Report
  <2>5. Send(c) \/ ServerStep(c) => UNCHANGED <<events, overtaken>>
    BY DEF Send, ServerStep, Refuse, Execute, Audit, AuditFails, ServerStops, feedVars
  <2> QED
    BY <1>1, <2>1, <2>2, <2>3, <2>4, <2>5 DEF CallStep
<1>2. ASSUME InvestigatorNext PROVE TableStep
  <2>1. Generate \/ BatchEnds \/ Answer => UNCHANGED <<events, overtaken>>
    BY DEF Generate, BatchEnds, Answer, feedVars
  <2>2. CloseWrites \/ ApprovalWrites => TableStep
    BY DEF CloseWrites, ApprovalWrites
  <2>3. CloseCommits \/ ApprovalCommits \/ Expire => TableStep
    BY DEF CloseCommits, ApprovalCommits, Expire
  <2> QED
    BY <1>2, <2>1, <2>2, <2>3 DEF InvestigatorNext
<1>3. ReaderNext \/ UNCHANGED vars => UNCHANGED <<events, overtaken>>
  BY DEF ReaderNext, Poll, PollBreaks, Connect, vars, feedVars
<1> QED
  BY <1>1, <1>2, <1>3 DEF Next

\* Types and ServerInv hold in every state.
LEMMA Next_ServerInv ==
    ASSUME Types, ServerInv, [Next]_vars
    PROVE  Types' /\ ServerInv'
<1>1. events' \in Seq(Event)
  BY NextIsTableStep, InsertAppends, ConcludeEnds DEF TableStep, Types
<1>2. ServerInv' /\ CallTypeOK'
  <2>1. ASSUME UNCHANGED callVars PROVE ServerInv' /\ CallTypeOK'
    BY <2>1 DEF Types, ServerInv, CallTypeOK, callVars, guardVars, serverVars
  <2>2. ReaderNext /\ UNCHANGED <<phase, callVars>> => UNCHANGED callVars
    OBVIOUS
  <2>3. UNCHANGED vars => UNCHANGED callVars
    BY DEF vars
  <2> QED
    BY <2>1, <2>2, <2>3, Loop_ServerInv, CallStep_ServerInv, ServerStep_ServerInv DEF Next
<1> QED
  BY <1>1, <1>2 DEF Types

\* Nothing is asked in the beginning.
LEMMA Init_ServerInv ==
    ASSUME Init
    PROVE  Types /\ ServerInv
<1>1. <<>> \in Seq(Event)
  OBVIOUS
<1> QED
  BY <1>1, ToolAssumption
  DEF Init, CallInit, FeedInit, Types, CallTypeOK, ServerInv, Early, Places

\* The types and the agreement of the two ends of every call hold throughout.
LEMMA SpecServerInv == Spec => [](Types /\ ServerInv)
<1>1. Init => Types /\ ServerInv
  BY Init_ServerInv
<1>2. Types /\ ServerInv /\ [Next]_vars => Types' /\ ServerInv'
  BY Next_ServerInv
<1> QED
  BY <1>1, <1>2, PTL DEF Spec

\* An execution that ends is on record, whether its caller has left or not.
THEOREM SpecExecutedIsAudited == Spec => []ExecutedIsAudited
<1>1. Types /\ ServerInv => ExecutedIsAudited
  BY ToolAssumption DEF Types, CallTypeOK, ServerInv, ExecutedIsAudited
<1> QED
  BY <1>1, SpecServerInv, PTL

-----------------------------------------------------------------------------
(* The feed and the evidence                                               *)

IsEventOf(i, c, type) == events[i].by = c /\ events[i].type = type

\* Where a call may have told that it is completed.
Late == {"reporting", "done", "failed"}

\* What the table says of a call: its tool.call_completed is among the last
\* things it does and tells whether there is evidence; the row of evidence
\* being saved is open; and that of saved evidence is committed and precedes
\* every tool.call_completed.
FeedOf(c) ==
    /\ \A i \in DOMAIN events : IsEventOf(i, c, "tool.call_completed") =>
           at[c] \in Late /\ (events[i].success <=> c \in evidence)
    /\ at[c] = "saving" => \E j \in DOMAIN events :
           IsEventOf(j, c, "evidence.created") /\ events[j].state = "open"
    /\ c \in evidence => \E j \in DOMAIN events :
           /\ IsEventOf(j, c, "evidence.created") /\ events[j].state = "committed"
           /\ \A i \in DOMAIN events : IsEventOf(i, c, "tool.call_completed") => j < i

FeedInv == \A c \in Calls : FeedOf(c)

\* The call keeps its evidence and does not go back.
GoesOn(c) ==
    /\ at[c] \in Late => at'[c] \in Late
    /\ c \in evidence' <=> c \in evidence

\* A row that is not the completion of the call.
LEMMA InsertOther ==
    ASSUME events \in Seq(Event), NEW c \in Calls, FeedOf(c), GoesOn(c),
           NEW w \in Writers, NEW type \in EventTypes, NEW success \in BOOLEAN,
           Insert(w, type, success),
           ~ (w = c /\ type = "tool.call_completed"),
           at'[c] = "saving" => at[c] = "saving" \/ (w = c /\ type = "evidence.created")
    PROVE  FeedOf(c)'
<1> DEFINE n == Len(events)
<1>1. /\ n \in Nat /\ DOMAIN events = 1 .. n /\ DOMAIN events' = 1 .. (n + 1)
      /\ \A i \in 1 .. n : events'[i] = events[i]
      /\ events'[n + 1].by = w /\ events'[n + 1].type = type /\ events'[n + 1].state = "open"
  <2>1. /\ n \in Nat /\ DOMAIN events = 1 .. n /\ DOMAIN events' = 1 .. (n + 1)
        /\ \A i \in DOMAIN events : events'[i] = events[i]
        /\ events'[n + 1] = [type |-> type, by |-> w, success |-> success, state |-> "open"]
    BY InsertAppends
  <2> QED
    BY <2>1
<1> HIDE DEF n
<1>2. \A i \in 1 .. n : i \in 1 .. (n + 1)
  BY <1>1
<1>3. \A i \in 1 .. (n + 1) : events'[i].by = c /\ events'[i].type = "tool.call_completed"
          => i \in 1 .. n
  BY <1>1
<1>4. n + 1 \in 1 .. (n + 1)
  BY <1>1
<1> QED
  BY <1>1, <1>2, <1>3, <1>4 DEF FeedOf, IsEventOf, GoesOn

\* The completion of the call, which follows its evidence.
LEMMA InsertCompletion ==
    ASSUME events \in Seq(Event), NEW c \in Calls, c \in Writers, FeedOf(c), GoesOn(c),
           NEW success \in BOOLEAN, Insert(c, "tool.call_completed", success),
           at'[c] = "reporting", success <=> c \in evidence
    PROVE  FeedOf(c)'
<1> DEFINE n == Len(events)
<1>0. "tool.call_completed" \in EventTypes
  BY DEF EventTypes
<1>1. /\ n \in Nat /\ DOMAIN events = 1 .. n /\ DOMAIN events' = 1 .. (n + 1)
      /\ \A i \in 1 .. n : events'[i] = events[i]
      /\ events'[n + 1].success = success
  <2>1. /\ n \in Nat /\ DOMAIN events = 1 .. n /\ DOMAIN events' = 1 .. (n + 1)
        /\ \A i \in DOMAIN events : events'[i] = events[i]
        /\ events'[n + 1] = [type |-> "tool.call_completed", by |-> c, success |-> success,
                             state |-> "open"]
    BY <1>0, InsertAppends
  <2> QED
    BY <2>1
<1> HIDE DEF n
<1>2. \A i \in 1 .. (n + 1) : i \in 1 .. n \/ i = n + 1
  BY <1>1
<1>3. \A i \in 1 .. n : i \in 1 .. (n + 1) /\ i < n + 1
  BY <1>1
<1> QED
  BY <1>1, <1>2, <1>3 DEF FeedOf, IsEventOf, GoesOn, Late

\* The transactions that end are not the call's, or it was not saving and
\* does not save.
LEMMA ConcludeOther ==
    ASSUME events \in Seq(Event), NEW c \in Calls, FeedOf(c), GoesOn(c),
           NEW writers, NEW kept, Conclude(writers, kept),
           at'[c] = "saving" => at[c] = "saving" /\ c \notin writers
    PROVE  FeedOf(c)'
<1>1. /\ DOMAIN events' = DOMAIN events
      /\ \A i \in DOMAIN events :
             /\ events'[i].type = events[i].type /\ events'[i].by = events[i].by
             /\ events'[i].success = events[i].success
             /\ events[i].state = "committed" => events'[i].state = "committed"
             /\ events[i].by \notin writers => events'[i].state = events[i].state
  BY ConcludeEnds
<1> QED
  BY <1>1 DEF FeedOf, IsEventOf, GoesOn

\* The call's evidence is committed, with its row.
LEMMA ConcludeSaved ==
    ASSUME events \in Seq(Event), NEW c \in Calls, FeedOf(c), Conclude({c}, {c}),
           at[c] = "saving", at'[c] = "report"
    PROVE  FeedOf(c)'
<1>1. /\ DOMAIN events' = DOMAIN events
      /\ \A i \in DOMAIN events :
             /\ events'[i].type = events[i].type /\ events'[i].by = events[i].by
             /\ events[i].by = c /\ events[i].state = "open" => events'[i].state = "committed"
  BY ConcludeEnds
<1>2. \A i \in DOMAIN events' : ~ (events'[i].by = c /\ events'[i].type = "tool.call_completed")
  BY <1>1 DEF FeedOf, IsEventOf, Late
<1>3. PICK j \in DOMAIN events :
          IsEventOf(j, c, "evidence.created") /\ events[j].state = "open"
  BY DEF FeedOf
<1> QED
  BY <1>1, <1>2, <1>3 DEF FeedOf, IsEventOf

\* The table stays as it is.
LEMMA SameEvents ==
    ASSUME NEW c \in Calls, FeedOf(c), GoesOn(c), events' = events,
           at'[c] = "saving" => at[c] = "saving"
    PROVE  FeedOf(c)'
BY DEF FeedOf, IsEventOf, GoesOn

\* A call that comes back: its evidence is being saved, or it is completed
\* without.
LEMMA ReturnsFeed ==
    ASSUME Types, ServerInv, FeedInv, NEW c \in Calls, at[c] = "wait",
           NEW o \in {"ok", "failed", "error"}, Returns(c, o)
    PROVE  FeedInv'
<1>1. /\ at' = [at EXCEPT ![c] = IF o = "ok" THEN "saving" ELSE "reporting"]
      /\ evidence' = evidence /\ at \in [Calls -> Places] /\ events \in Seq(Event)
  BY DEF Returns, Goes, Types, CallTypeOK
<1>2. c \in Writers /\ c \notin evidence
  BY ToolAssumption DEF ServerInv
<1>3. \A d \in Calls : GoesOn(d)
  BY <1>1 DEF GoesOn, Late
<1>4. ASSUME NEW d \in Calls PROVE FeedOf(d)'
  <2>0. FeedOf(d) /\ GoesOn(d)
    BY <1>3 DEF FeedInv
  <2>1. CASE o = "ok"
    <3>1. Insert(c, "evidence.created", FALSE) /\ "evidence.created" \in EventTypes
      BY <2>1 DEF Returns, EventTypes
    <3>2. at'[d] = "saving" => at[d] = "saving" \/ c = d
      BY <1>1
    <3> QED
      BY <1>1, <1>2, <2>0, <3>1, <3>2, InsertOther
  <2>2. CASE o # "ok"
    <3>1. Insert(c, "tool.call_completed", FALSE) /\ "tool.call_completed" \in EventTypes
      BY <2>2 DEF Returns, EventTypes
    <3>2. CASE d = c
      <4>1. at'[c] = "reporting"
        BY <1>1, <2>2
      <4> QED
        BY <1>1, <1>2, <2>0, <3>1, <3>2, <4>1, InsertCompletion
    <3>3. CASE d # c
      <4>1. at'[d] = at[d]
        BY <1>1, <3>3
      <4> QED
        BY <1>1, <1>2, <2>0, <3>1, <3>3, <4>1, InsertOther
    <3> QED
      BY <3>2, <3>3
  <2> QED
    BY <2>1, <2>2
<1> QED
  BY <1>4 DEF FeedInv

\* Every step of a call's goroutine, failed writes included, keeps what the
\* table says of all calls.
LEMMA CallStep_FeedInv ==
    ASSUME Types, ServerInv, FeedInv, NEW c \in Calls, CallStep(c) \/ WriteFails(c)
    PROVE  FeedInv'
<1>0. at \in [Calls -> Places] /\ events \in Seq(Event) /\ c \in Writers
  BY ToolAssumption DEF Types, CallTypeOK
<1>1. ASSUME Authorize(c) PROVE FeedInv'
  <2>0. at[c] = "asked" /\ evidence' = evidence
    BY <1>1 DEF Authorize
  <2>1. CASE Allowed(request[c])
    <3>1. /\ Insert(c, "tool.call_started", FALSE) /\ "tool.call_started" \in EventTypes
          /\ at' = [at EXCEPT ![c] = "announcing"]
      BY <1>1, <2>1 DEF Authorize, Goes, EventTypes
    <3>2. ASSUME NEW d \in Calls PROVE FeedOf(d)'
      <4>1. GoesOn(d) /\ (at'[d] = "saving" => at[d] = "saving")
        BY <1>0, <2>0, <3>1 DEF GoesOn, Late
      <4> QED
        BY <1>0, <3>1, <4>1, InsertOther DEF FeedInv
    <3> QED
      BY <3>2 DEF FeedInv
  <2>2. CASE ~Allowed(request[c])
    <3>1. at' = [at EXCEPT ![c] = "failed"] /\ events' = events
      BY <1>1, <2>2 DEF Authorize, Goes
    <3>2. ASSUME NEW d \in Calls PROVE FeedOf(d)'
      <4>1. GoesOn(d) /\ (at'[d] = "saving" => at[d] = "saving")
        BY <1>0, <2>0, <3>1 DEF GoesOn, Late
      <4> QED
        BY <3>1, <4>1, SameEvents DEF FeedInv
    <3> QED
      BY <3>2 DEF FeedInv
  <2> QED
    BY <2>1, <2>2
<1>2. ASSUME WriteCommits(c) \/ WriteFails(c) PROVE FeedInv'
  <2>0. PICK last \in {"failed", "done"} : AfterReport(c) = last
    BY DEF AfterReport
  <2>1. \/ /\ at[c] = "saving" /\ at' = [at EXCEPT ![c] = "report"]
           /\ evidence' = evidence \cup {c} /\ Conclude({c}, {c})
        \/ /\ \E next \in {"send", "failed", "done"} :
                  /\ at' = [at EXCEPT ![c] = next]
                  /\ next = "send" => at[c] = "announcing"
           /\ evidence' = evidence
           /\ Conclude({c}, {c}) \/ Conclude({c}, {})
    BY <1>2, <2>0 DEF WriteCommits, WriteFails, Goes
  <2>2. ASSUME NEW d \in Calls PROVE FeedOf(d)'
    <3>1. CASE at[c] = "saving" /\ at' = [at EXCEPT ![c] = "report"]
               /\ evidence' = evidence \cup {c} /\ Conclude({c}, {c})
      <4>1. CASE d = c
        <5>1. at'[c] = "report"
          BY <1>0, <3>1
        <5> QED
          BY <1>0, <3>1, <4>1, <5>1, ConcludeSaved DEF FeedInv
      <4>2. CASE d # c
        <5>1. GoesOn(d) /\ (at'[d] = "saving" => at[d] = "saving") /\ d \notin {c}
          BY <1>0, <3>1, <4>2 DEF GoesOn, Late
        <5> QED
          BY <1>0, <3>1, <5>1, ConcludeOther DEF FeedInv
      <4> QED
        BY <4>1, <4>2
    <3>2. ASSUME NEW next \in {"send", "failed", "done"}, at' = [at EXCEPT ![c] = next],
                 next = "send" => at[c] = "announcing",
                 evidence' = evidence, Conclude({c}, {c}) \/ Conclude({c}, {})
          PROVE  FeedOf(d)'
      <4>1. GoesOn(d) /\ (at'[d] = "saving" => at[d] = "saving" /\ d \notin {c})
        BY <1>0, <3>2 DEF GoesOn, Late
      <4> QED
        BY <1>0, <3>2, <4>1, ConcludeOther DEF FeedInv
    <3> QED
      BY <2>1, <3>1, <3>2
  <2> QED
    BY <2>2 DEF FeedInv
<1>3. ASSUME Send(c) PROVE FeedInv'
  <2>1. ASSUME NEW d \in Calls PROVE FeedOf(d)'
    <3>1. events' = events /\ GoesOn(d) /\ (at'[d] = "saving" => at[d] = "saving")
      BY <1>0, <1>3 DEF Send, Goes, GoesOn, Late, feedVars
    <3> QED
      BY <3>1, SameEvents DEF FeedInv
  <2> QED
    BY <2>1 DEF FeedInv
<1>4. ASSUME Receive(c) \/ GiveUp(c) PROVE FeedInv'
  <2>1. at[c] = "wait" /\ \E o \in {"ok", "failed", "error"} : Returns(c, o)
    BY <1>4 DEF Receive, GiveUp, ServerInv
  <2> QED
    BY <2>1, ReturnsFeed
<1>5. ASSUME Report(c) PROVE FeedInv'
  <2>1. /\ at[c] = "report" /\ at' = [at EXCEPT ![c] = "reporting"] /\ evidence' = evidence
        /\ Insert(c, "tool.call_completed", TRUE) /\ "tool.call_completed" \in EventTypes
    BY <1>5 DEF Report, Goes, EventTypes
  <2>2. c \in evidence
    BY <2>1 DEF ServerInv
  <2>3. ASSUME NEW d \in Calls PROVE FeedOf(d)'
    <3>1. GoesOn(d) /\ (at'[d] = "saving" => at[d] = "saving") /\ at'[c] = "reporting"
      BY <1>0, <2>1 DEF GoesOn, Late
    <3>2. CASE d = c
      BY <1>0, <2>1, <2>2, <3>1, <3>2, InsertCompletion DEF FeedInv
    <3>3. CASE d # c
      BY <1>0, <2>1, <3>1, <3>3, InsertOther DEF FeedInv
    <3> QED
      BY <3>2, <3>3
  <2> QED
    BY <2>3 DEF FeedInv
<1> QED
  BY <1>1, <1>2, <1>3, <1>4, <1>5 DEF CallStep

\* The loop, its run and an approval write rows of their own, and an expiry
\* ends transactions of calls that then save nothing.
LEMMA Loop_FeedInv ==
    ASSUME Types, ServerInv, FeedInv, InvestigatorNext
    PROVE  FeedInv'
<1>0. at \in [Calls -> Places] /\ events \in Seq(Event)
  BY DEF Types, CallTypeOK
<1> SUFFICES ASSUME NEW d \in Calls PROVE FeedOf(d)'
  BY DEF FeedInv
<1>1. FeedOf(d)
  BY DEF FeedInv
<1>2. ASSUME Generate PROVE FeedOf(d)'
  <2>1. PICK batch \in SUBSET (Calls \ Asked) :
            at' = [c \in Calls |-> IF c \in batch THEN "asked" ELSE at[c]]
    BY <1>2 DEF Generate
  <2>2. GoesOn(d) /\ (at'[d] = "saving" => at[d] = "saving")
    BY <1>0, <1>2, <2>1 DEF Generate, GoesOn, Late, Asked
  <2> QED
    BY <1>1, <1>2, <2>2, SameEvents DEF Generate, feedVars
<1>3. ASSUME BatchEnds \/ Answer PROVE FeedOf(d)'
  <2>1. events' = events /\ at' = at /\ evidence' = evidence
    BY <1>3 DEF BatchEnds, Answer, feedVars, callVars
  <2> QED
    BY <1>1, <2>1, SameEvents DEF GoesOn
<1>4. ASSUME CloseWrites \/ ApprovalWrites PROVE FeedOf(d)'
  <2>1. /\ at' = at /\ evidence' = evidence
        /\ \E w \in Writers \ Calls, type \in EventTypes, success \in BOOLEAN :
               Insert(w, type, success)
    BY <1>4, StepAssumption DEF CloseWrites, ApprovalWrites, callVars, EventTypes
  <2> QED
    BY <1>0, <1>1, <2>1, InsertOther DEF GoesOn
<1>5. ASSUME CloseCommits \/ ApprovalCommits PROVE FeedOf(d)'
  <2>1. /\ at' = at /\ evidence' = evidence
        /\ \E w \in Writers \ Calls : Conclude({w}, {w})
    BY <1>5, StepAssumption DEF CloseCommits, ApprovalCommits, callVars
  <2> QED
    BY <1>0, <1>1, <2>1, ConcludeOther DEF GoesOn
<1>6. ASSUME Expire PROVE FeedOf(d)'
  <2>1. /\ at' = [c \in Calls |-> IF c \in Active THEN "failed" ELSE at[c]]
        /\ evidence' = evidence /\ Conclude(Calls \cup {Runner}, {})
    BY <1>6 DEF Expire
  <2>2. GoesOn(d) /\ at'[d] # "saving"
    BY <1>0, <2>1 DEF GoesOn, Late, Active
  <2> QED
    BY <1>0, <1>1, <2>1, <2>2, ConcludeOther
<1> QED
  BY <1>2, <1>3, <1>4, <1>5, <1>6 DEF InvestigatorNext

\* Every step keeps what the table says of the calls.
LEMMA Next_FeedInv ==
    ASSUME Types, ServerInv, FeedInv, [Next]_vars
    PROVE  FeedInv'
<1>1. ASSUME events' = events, at' = at, evidence' = evidence PROVE FeedInv'
  BY <1>1, SameEvents DEF FeedInv, GoesOn
<1>2. ASSUME NEW c \in Calls, ServerStep(c) PROVE FeedInv'
  <2>1. events' = events /\ at' = at /\ evidence' = evidence
    BY <1>2 DEF ServerStep, Refuse, Execute, Audit, AuditFails, ServerStops, feedVars
  <2> QED
    BY <1>1, <2>1
<1>3. ASSUME (ReaderNext /\ UNCHANGED <<phase, callVars>>) \/ UNCHANGED vars PROVE FeedInv'
  <2>1. events' = events /\ at' = at /\ evidence' = evidence
    BY <1>3 DEF ReaderNext, Poll, PollBreaks, Connect, vars, callVars, feedVars
  <2> QED
    BY <1>1, <2>1
<1> QED
  BY <1>2, <1>3, CallStep_FeedInv, Loop_FeedInv DEF Next

\* A success is told only with evidence that was saved and told before, a
\* failure only without, and evidence rests on an execution audited as one
\* unless the audit was lost.
THEOREM SpecEvidenceIsAccounted == Spec => []EvidenceIsAccounted
<1>1. Init => FeedInv
  BY DEF Init, CallInit, FeedInit, FeedInv, FeedOf
<1>2. Types /\ ServerInv /\ FeedInv /\ [Next]_vars => FeedInv'
  BY Next_FeedInv
<1>3. ASSUME Types, ServerInv, FeedInv PROVE EvidenceIsAccounted
  <2>1. ASSUME NEW c \in Calls, NEW i \in EventsOf(c, "tool.call_completed")
        PROVE  /\ events[i].success <=> c \in evidence
               /\ events[i].success => \E j \in EventsOf(c, "evidence.created") : j < i
    <3>1. i \in DOMAIN events /\ IsEventOf(i, c, "tool.call_completed")
      BY DEF EventsOf, Committed, IsEventOf
    <3>2. FeedOf(c)
      BY <1>3 DEF FeedInv
    <3> QED
      BY <3>1, <3>2 DEF FeedOf, EventsOf, Committed, IsEventOf
  <2>2. ASSUME NEW c \in evidence PROVE envelope[c] = "ok" /\ audit[c] \in {"ok", "lost"}
    BY <1>3 DEF ServerInv, Types, CallTypeOK
  <2> QED
    BY <2>1, <2>2 DEF EvidenceIsAccounted
<1> QED
  BY <1>1, <1>2, <1>3, SpecServerInv, PTL DEF Spec

-----------------------------------------------------------------------------
(* The guard's budget                                                      *)

\* The calls the guard has let through that are on their way to a server, or
\* have reached one.
Charged == {c \in Calls : server[c] # "idle" \/ at[c] \in {"announcing", "send"}}

ChargedFor(r) == {c \in Charged : request[c] = r}

\* They are no more than the guard has counted, in total and per request.
BudgetInv ==
    /\ IsFiniteSet(Charged) /\ Cardinality(Charged) <= total
    /\ \A r \in Requests :
           /\ Cardinality(ChargedFor(r)) <= seen[r]
           /\ r \in Foreign => ChargedFor(r) = {}

\* A step that charges no further call and leaves the counts and the requests
\* of the charged ones.
LEMMA NoCharge ==
    ASSUME Types, BudgetInv, Charged' \subseteq Charged,
           \A c \in Charged : request'[c] = request[c], total' = total, seen' = seen
    PROVE  BudgetInv'
<1>1. IsFiniteSet(Charged') /\ Cardinality(Charged') <= Cardinality(Charged)
  BY FS_Subset DEF BudgetInv
<1>2. ASSUME NEW r \in Requests
      PROVE  /\ Cardinality(ChargedFor(r)') <= seen'[r]
             /\ r \in Foreign => ChargedFor(r)' = {}
  <2>1. ChargedFor(r)' \subseteq ChargedFor(r) /\ ChargedFor(r) \subseteq Charged
    BY DEF ChargedFor
  <2>2. IsFiniteSet(ChargedFor(r))
    BY <2>1, FS_Subset DEF BudgetInv
  <2>3. /\ IsFiniteSet(ChargedFor(r)')
        /\ Cardinality(ChargedFor(r)') <= Cardinality(ChargedFor(r))
    BY <2>1, <2>2, FS_Subset
  <2>4. Cardinality(ChargedFor(r)') \in Nat /\ Cardinality(ChargedFor(r)) \in Nat
        /\ seen[r] \in Nat
    BY <2>2, <2>3, FS_CardinalityType DEF Types, CallTypeOK
  <2> QED
    BY <2>1, <2>3, <2>4 DEF BudgetInv
<1>3. Cardinality(Charged') \in Nat /\ Cardinality(Charged) \in Nat /\ total \in Nat
  BY <1>1, FS_CardinalityType DEF BudgetInv, Types, CallTypeOK
<1> QED
  BY <1>1, <1>2, <1>3 DEF BudgetInv

\* An authorized call is charged once, and counted once.
LEMMA AuthorizeCharges ==
    ASSUME Types, ServerInv, BudgetInv, NEW c \in Calls, Authorize(c), Allowed(request[c])
    PROVE  BudgetInv'
<1>1. /\ at[c] = "asked" /\ at' = [at EXCEPT ![c] = "announcing"]
      /\ total' = total + 1 /\ seen' = [seen EXCEPT ![request[c]] = @ + 1]
      /\ request[c] \notin Foreign /\ UNCHANGED <<request, server>>
  BY DEF Authorize, Allowed, Goes, serverVars
<1>2. at \in [Calls -> Places] /\ c \notin Charged
  BY <1>1 DEF Types, CallTypeOK, ServerInv, Early, Charged
<1>3. Charged' = Charged \cup {c}
  BY <1>1, <1>2 DEF Charged
<1>4. /\ IsFiniteSet(Charged') /\ Cardinality(Charged') = Cardinality(Charged) + 1
      /\ Cardinality(Charged) \in Nat /\ total \in Nat
  BY <1>2, <1>3, FS_AddElement, FS_CardinalityType DEF BudgetInv, Types, CallTypeOK
<1>5. ASSUME NEW r \in Requests
      PROVE  /\ Cardinality(ChargedFor(r)') <= seen'[r]
             /\ r \in Foreign => ChargedFor(r)' = {}
  <2>1. ChargedFor(r) \subseteq Charged /\ c \notin ChargedFor(r)
    BY <1>2 DEF ChargedFor
  <2>2. IsFiniteSet(ChargedFor(r)) /\ Cardinality(ChargedFor(r)) \in Nat
    BY <2>1, FS_Subset, FS_CardinalityType DEF BudgetInv
  <2>3. seen \in [Requests -> 0 .. MaxDuplicates] /\ seen[r] \in Nat
    BY ToolAssumption DEF Types, CallTypeOK
  <2>4. CASE request[c] = r
    <3>1. ChargedFor(r)' = ChargedFor(r) \cup {c}
      BY <1>1, <1>3, <2>4 DEF ChargedFor
    <3>2. Cardinality(ChargedFor(r)') = Cardinality(ChargedFor(r)) + 1
      BY <2>1, <2>2, <3>1, FS_AddElement
    <3>3. seen'[r] = seen[r] + 1
      BY <1>1, <2>3, <2>4
    <3> QED
      BY <1>1, <2>2, <2>3, <2>4, <3>2, <3>3 DEF BudgetInv
  <2>5. CASE request[c] # r
    <3>1. ChargedFor(r)' = ChargedFor(r)
      BY <1>1, <1>3, <2>5 DEF ChargedFor
    <3>2. seen'[r] = seen[r]
      BY <1>1, <2>3, <2>5
    <3> QED
      BY <3>1, <3>2 DEF BudgetInv
  <2> QED
    BY <2>4, <2>5
<1> QED
  BY <1>1, <1>4, <1>5 DEF BudgetInv

\* Every step charges a call when the guard counts it, or none.
LEMMA Next_BudgetInv ==
    ASSUME Types, ServerInv, BudgetInv, [Next]_vars
    PROVE  BudgetInv'
<1>0. at \in [Calls -> Places] /\ server \in [Calls -> {"idle", "received", "executed",
                                                        "answered", "refused", "gone"}]
  BY DEF Types, CallTypeOK
<1>1. ASSUME NEW c \in Calls, Authorize(c) PROVE BudgetInv'
  <2>1. CASE Allowed(request[c])
    BY <1>1, <2>1, AuthorizeCharges
  <2>2. CASE ~Allowed(request[c])
    <3>1. /\ at' = [at EXCEPT ![c] = "failed"]
          /\ UNCHANGED <<total, seen, request, server>>
      BY <1>1, <2>2 DEF Authorize, Goes, serverVars
    <3> QED
      BY <1>0, <3>1, NoCharge DEF Charged
  <2> QED
    BY <2>1, <2>2
<1>2. ASSUME NEW c \in Calls, WriteCommits(c) \/ WriteFails(c) PROVE BudgetInv'
  <2>1. PICK last \in {"failed", "done"} : AfterReport(c) = last
    BY DEF AfterReport
  <2>2. /\ \E next \in {"send", "report", "failed", "done"} :
               /\ at' = [at EXCEPT ![c] = next]
               /\ next = "send" => at[c] = "announcing"
        /\ UNCHANGED <<total, seen, request, server>>
    BY <1>2, <2>1 DEF WriteCommits, WriteFails, Goes, guardVars, serverVars
  <2> QED
    BY <1>0, <2>2, NoCharge DEF Charged
<1>3. ASSUME NEW c \in Calls, Send(c) PROVE BudgetInv'
  <2>1. /\ at[c] = "send" /\ at' = [at EXCEPT ![c] = "wait"]
        /\ server' = [server EXCEPT ![c] = "received"]
        /\ UNCHANGED <<total, seen, request>>
    BY <1>3 DEF Send, Goes, guardVars
  <2> QED
    BY <1>0, <2>1, NoCharge DEF Charged
<1>4. ASSUME NEW c \in Calls, Receive(c) \/ GiveUp(c) \/ Report(c) PROVE BudgetInv'
  <2>1. /\ \E next \in {"saving", "reporting"} : at' = [at EXCEPT ![c] = next]
        /\ UNCHANGED <<total, seen, request, server>>
    BY <1>4 DEF Receive, GiveUp, Report, Returns, Goes, guardVars, serverVars
  <2> QED
    BY <1>0, <2>1, NoCharge DEF Charged
<1>5. ASSUME NEW c \in Calls, ServerStep(c) PROVE BudgetInv'
  <2>1. /\ \E next : server' = [server EXCEPT ![c] = next]
        /\ server[c] # "idle"
        /\ UNCHANGED <<total, seen, request, at>>
    BY <1>5 DEF ServerStep, Refuse, Execute, Audit, AuditFails, ServerStops, guardVars
  <2> QED
    BY <1>0, <2>1, NoCharge DEF Charged
<1>6. ASSUME Generate PROVE BudgetInv'
  <2>1. PICK batch \in SUBSET (Calls \ Asked) : \E asks \in [batch -> Requests] :
            /\ request' = [c \in Calls |-> IF c \in batch THEN asks[c] ELSE request[c]]
            /\ at' = [c \in Calls |-> IF c \in batch THEN "asked" ELSE at[c]]
    BY <1>6 DEF Generate
  <2>2. UNCHANGED <<total, seen, server>>
    BY <1>6 DEF Generate, serverVars
  <2>3. \A c \in batch : c \in Calls /\ at[c] = "idle" /\ server[c] = "idle"
    BY DEF Asked, ServerInv, Early
  <2>4. Charged' \subseteq Charged
    BY <1>0, <2>1, <2>2, <2>3 DEF Charged
  <2>5. \A c \in Charged : request'[c] = request[c]
    BY <1>0, <2>1, <2>3 DEF Charged
  <2> QED
    BY <2>2, <2>4, <2>5, NoCharge
<1>7. ASSUME Expire PROVE BudgetInv'
  <2>1. /\ at' = [c \in Calls |-> IF c \in Active THEN "failed" ELSE at[c]]
        /\ UNCHANGED <<total, seen, request, server>>
    BY <1>7 DEF Expire, guardVars, serverVars
  <2> QED
    BY <1>0, <2>1, NoCharge DEF Charged
<1>8. ASSUME UNCHANGED callVars PROVE BudgetInv'
  <2>1. UNCHANGED <<total, seen, request, at, server>>
    BY <1>8 DEF callVars, guardVars, serverVars
  <2> QED
    BY <2>1, NoCharge DEF Charged
<1>9. BatchEnds \/ Answer \/ CloseWrites \/ CloseCommits \/ ApprovalWrites \/ ApprovalCommits
          \/ (ReaderNext /\ UNCHANGED <<phase, callVars>>) \/ UNCHANGED vars
          => UNCHANGED callVars
  BY DEF BatchEnds, Answer, CloseWrites, CloseCommits, ApprovalWrites, ApprovalCommits, vars
<1> QED
  BY <1>1, <1>2, <1>3, <1>4, <1>5, <1>6, <1>7, <1>8, <1>9
  DEF Next, InvestigatorNext, CallStep

\* What reached an MCP server is within the guard's budget and its duplicate
\* limit and about this order, for any number of calls at once.
THEOREM SpecBudgetIsKept == Spec => []BudgetIsKept
<1>1. Init => BudgetInv
  <2> SUFFICES ASSUME Init PROVE BudgetInv
    OBVIOUS
  <2>2. Charged = {}
    BY DEF Init, CallInit, Charged
  <2>3. total = 0 /\ \A r \in Requests : seen[r] = 0 /\ ChargedFor(r) = {}
    BY <2>2 DEF Init, CallInit, ChargedFor
  <2> QED
    BY <2>2, <2>3, FS_EmptySet DEF BudgetInv
<1>2. Types /\ ServerInv /\ BudgetInv /\ [Next]_vars => BudgetInv'
  BY Next_BudgetInv
<1>3. ASSUME Types, BudgetInv PROVE BudgetIsKept
  <2>1. Reached \subseteq Charged
    BY DEF Reached, Charged
  <2>2. Cardinality(Reached) <= MaxCalls
    <3>1. IsFiniteSet(Reached) /\ Cardinality(Reached) <= Cardinality(Charged)
      BY <1>3, <2>1, FS_Subset DEF BudgetInv
    <3>2. Cardinality(Reached) \in Nat /\ Cardinality(Charged) \in Nat
      BY <1>3, <3>1, FS_CardinalityType DEF BudgetInv
    <3> QED
      BY <1>3, <3>1, <3>2, ToolAssumption DEF BudgetInv, Types, CallTypeOK
  <2>3. ASSUME NEW r \in Requests
        PROVE  Cardinality({c \in Reached : request[c] = r}) <= IF r \in Foreign THEN 0
                                                                ELSE MaxDuplicates
    <3> DEFINE reached == {c \in Reached : request[c] = r}
    <3>1. reached \subseteq ChargedFor(r) /\ ChargedFor(r) \subseteq Charged
      BY <2>1 DEF ChargedFor
    <3>2. IsFiniteSet(ChargedFor(r))
      BY <1>3, <3>1, FS_Subset DEF BudgetInv
    <3>3. IsFiniteSet(reached) /\ Cardinality(reached) <= Cardinality(ChargedFor(r))
      BY <3>1, <3>2, FS_Subset
    <3>4. /\ Cardinality(reached) \in Nat /\ Cardinality(ChargedFor(r)) \in Nat
          /\ seen[r] \in 0 .. MaxDuplicates
      BY <1>3, <3>2, <3>3, FS_CardinalityType DEF Types, CallTypeOK
    <3>5. CASE r \in Foreign
      <4>1. reached = {}
        BY <1>3, <3>1, <3>5 DEF BudgetInv
      <4> QED
        BY <3>5, <4>1, FS_EmptySet
    <3>6. CASE r \notin Foreign
      <4> HIDE DEF reached
      <4>1. Cardinality(reached) <= MaxDuplicates
        BY <1>3, <3>3, <3>4, ToolAssumption DEF BudgetInv
      <4> QED
        BY <3>6, <4>1 DEF reached
    <3> QED
      BY <3>5, <3>6
  <2> QED
    BY <2>2, <2>3 DEF BudgetIsKept
<1> QED
  BY <1>1, <1>2, <1>3, SpecServerInv, PTL DEF Spec

-----------------------------------------------------------------------------
(* The feed and its reader                                                 *)

\* The members of S that come before i.
Before(S, i) == {j \in S : j < i}

\* The later of two numbers has more before it.
LEMMA RankGrows ==
    ASSUME NEW S \in SUBSET Nat, IsFiniteSet(S), NEW i \in S, NEW j \in S, i < j
    PROVE  /\ Cardinality(Before(S, i)) \in Nat /\ Cardinality(Before(S, j)) \in Nat
           /\ Cardinality(Before(S, i)) < Cardinality(Before(S, j))
<1>0. i \in Nat /\ j \in Nat /\ \A k \in S : k \in Nat
  OBVIOUS
<1>1. Before(S, j) \in SUBSET S /\ Before(S, i) \in SUBSET Before(S, j)
  <2>1. \A k \in Before(S, i) : k \in S /\ k < j
    BY <1>0 DEF Before
  <2> QED
    BY <2>1 DEF Before
<1>2. i \in Before(S, j) /\ i \notin Before(S, i)
  BY DEF Before
<1>3. IsFiniteSet(Before(S, j))
  BY <1>1, FS_Subset
<1>4. /\ IsFiniteSet(Before(S, i))
      /\ Cardinality(Before(S, i)) <= Cardinality(Before(S, j))
      /\ Cardinality(Before(S, j)) = Cardinality(Before(S, i)) => Before(S, j) = Before(S, i)
  BY <1>1, <1>3, FS_Subset
<1>5. Cardinality(Before(S, i)) \in Nat /\ Cardinality(Before(S, j)) \in Nat
  BY <1>3, <1>4, FS_CardinalityType
<1> QED
  BY <1>2, <1>4, <1>5

\* In a set of n numbers each of 0 .. n - 1 is how many come before one of them.
LEMMA RankExists ==
    ASSUME NEW S \in SUBSET Nat, IsFiniteSet(S), NEW n \in Nat, n < Cardinality(S)
    PROVE  \E i \in S : Cardinality(Before(S, i)) = n
<1> DEFINE last == Cardinality(S) - 1
           rank == [i \in S |-> Cardinality(Before(S, i))]
<1>1. Cardinality(S) \in Nat /\ last \in Nat
  BY FS_CardinalityType
<1>2. ASSUME NEW i \in S PROVE rank[i] \in 0 .. last
  <2>1. Before(S, i) \in SUBSET S /\ i \notin Before(S, i)
    BY DEF Before
  <2>2. /\ IsFiniteSet(Before(S, i)) /\ Cardinality(Before(S, i)) <= Cardinality(S)
        /\ Cardinality(S) = Cardinality(Before(S, i)) => S = Before(S, i)
    BY <2>1, FS_Subset
  <2>3. Cardinality(Before(S, i)) \in Nat
    BY <2>2, FS_CardinalityType
  <2> QED
    BY <1>1, <2>1, <2>2, <2>3
<1>3. ASSUME NEW i \in S, NEW j \in S, rank[i] = rank[j] PROVE i = j
  <2>1. i \in Nat /\ j \in Nat
    OBVIOUS
  <2>2. ~(i < j) /\ ~(j < i)
    BY <1>3, RankGrows
  <2> QED
    BY <2>1, <2>2
<1>4. rank \in [S -> 0 .. last]
  BY <1>2
<1>5. rank \in Injection(S, 0 .. last)
  BY <1>3, <1>4 DEF Injection, IsInjective
<1>6. IsFiniteSet(0 .. last) /\ Cardinality(0 .. last) = Cardinality(S)
  BY <1>1, FS_Interval
<1>7. rank \in Surjection(S, 0 .. last)
  BY <1>5, <1>6, FS_Injection
<1>8. n \in 0 .. last
  BY <1>1
<1>9. \E i \in S : rank[i] = n
  <2> HIDE DEF rank
  <2> QED
    BY <1>7, <1>8 DEF Surjection
<1> QED
  BY <1>9

\* What a poll lists: fresh rows in the order of their ids, and with a row
\* every fresh row before it.
LEMMA BatchLists ==
    ASSUME events \in Seq(Event), afterID \in Nat
    PROVE  /\ Batch \in Seq(Fresh)
           /\ \A k, n \in DOMAIN Batch : k < n => Batch[k] < Batch[n]
           /\ \A n \in DOMAIN Batch, i \in Fresh :
                  i < Batch[n] => \E k \in DOMAIN Batch : k < n /\ Batch[k] = i
           /\ Fresh # {} => Batch # <<>>
<1> DEFINE all == Cardinality(Fresh)
           size == IF all > BatchLimit THEN BatchLimit ELSE all
<1>1. Len(events) \in Nat /\ DOMAIN events = 1 .. Len(events)
  BY LenProperties
<1>2. Fresh \in SUBSET (1 .. Len(events))
  BY <1>1 DEF Fresh, Committed
<1>3. IsFiniteSet(Fresh) /\ Fresh \in SUBSET Nat
  <2>1. IsFiniteSet(1 .. Len(events))
    BY <1>1, FS_Interval
  <2>2. IsFiniteSet(Fresh)
    BY <1>2, <2>1, FS_Subset
  <2> QED
    BY <1>2, <2>2
<1>4. \A i, j \in Fresh : i < j => Cardinality(Before(Fresh, i)) < Cardinality(Before(Fresh, j))
  BY <1>3, RankGrows
<1>5. all \in Nat /\ size \in Nat /\ size <= all /\ BatchLimit \in Nat /\ BatchLimit > 0
  BY <1>3, FS_CardinalityType, FeedAssumption
<1>6. Batch = [k \in 1 .. size |-> CHOOSE i \in Fresh : Cardinality(Before(Fresh, i)) = k - 1]
  BY DEF Batch, Before
<1> HIDE DEF size
<1>7. ASSUME NEW k \in 1 .. size
      PROVE  Batch[k] \in Fresh /\ Cardinality(Before(Fresh, Batch[k])) = k - 1
  <2>1. k - 1 \in Nat /\ k - 1 < all
    BY <1>5
  <2>2. \E i \in Fresh : Cardinality(Before(Fresh, i)) = k - 1
    BY <1>3, <2>1, RankExists
  <2> QED
    BY <1>6, <2>2
<1>8. DOMAIN Batch = 1 .. size
  BY <1>6
<1>9. Batch \in Seq(Fresh)
  BY <1>5, <1>6, <1>7, SeqDef
<1>10. \A i, j \in Fresh :
          /\ i \in Nat /\ j \in Nat
          /\ Cardinality(Before(Fresh, i)) = Cardinality(Before(Fresh, j)) => i = j
  <2> SUFFICES ASSUME NEW i \in Fresh, NEW j \in Fresh
               PROVE  /\ i \in Nat /\ j \in Nat
                      /\ Cardinality(Before(Fresh, i)) = Cardinality(Before(Fresh, j)) => i = j
    OBVIOUS
  <2>1. i \in Nat /\ j \in Nat
    BY <1>3
  <2>2. /\ i < j => Cardinality(Before(Fresh, i)) < Cardinality(Before(Fresh, j))
        /\ j < i => Cardinality(Before(Fresh, j)) < Cardinality(Before(Fresh, i))
    BY <1>4
  <2>3. Cardinality(Before(Fresh, i)) \in Nat
    <3>1. Before(Fresh, i) \in SUBSET Fresh
      BY DEF Before
    <3> QED
      BY <1>3, <3>1, FS_Subset, FS_CardinalityType
  <2> QED
    BY <2>1, <2>2, <2>3
<1>11. ASSUME NEW k \in DOMAIN Batch, NEW n \in DOMAIN Batch, k < n PROVE Batch[k] < Batch[n]
  <2>1. /\ k \in Nat /\ n \in Nat /\ Batch[k] \in Fresh /\ Batch[n] \in Fresh
        /\ Cardinality(Before(Fresh, Batch[k])) = k - 1
        /\ Cardinality(Before(Fresh, Batch[n])) = n - 1
    BY <1>5, <1>7, <1>8
  <2>2. Batch[k] \in Nat /\ Batch[n] \in Nat
    BY <1>3, <2>1
  <2>3. Batch[k] # Batch[n] /\ ~(Batch[n] < Batch[k])
    <3>1. k - 1 < n - 1 /\ k - 1 # n - 1
      BY <1>11, <2>1
    <3> QED
      BY <1>4, <2>1, <3>1
  <2> QED
    BY <2>2, <2>3
<1>12. ASSUME NEW n \in DOMAIN Batch, NEW i \in Fresh, i < Batch[n]
       PROVE  \E k \in DOMAIN Batch : k < n /\ Batch[k] = i
  <2>1. /\ n \in 1 .. size /\ Batch[n] \in Fresh
        /\ Cardinality(Before(Fresh, Batch[n])) = n - 1
    BY <1>7, <1>8
  <2>2. PICK r \in Nat : r = Cardinality(Before(Fresh, i)) /\ r < n - 1
    BY <1>3, <1>12, <2>1, RankGrows
  <2>3. r + 1 \in 1 .. size /\ r + 1 < n
    BY <1>5, <2>1, <2>2
  <2>4. /\ Batch[r + 1] \in Fresh
        /\ Cardinality(Before(Fresh, Batch[r + 1])) = Cardinality(Before(Fresh, i))
    BY <1>7, <2>2, <2>3
  <2>5. Batch[r + 1] = i
    BY <1>10, <2>4
  <2> QED
    BY <1>8, <2>3, <2>5
<1>13. Fresh # {} => Batch # <<>>
  <2> SUFFICES ASSUME Fresh # {} PROVE Batch # <<>>
    OBVIOUS
  <2>1. all # 0
    BY <1>3, FS_EmptySet
  <2>2. 1 \in 1 .. size
    BY <1>5, <2>1 DEF size
  <2>3. Len(Batch) = size /\ size # 0
    BY <1>5, <1>8, <1>9, <2>2
  <2> QED
    BY <2>3
<1> QED
  BY <1>9, <1>11, <1>12, <1>13

\* The browser was shown committed rows, in the order of their ids, and all
\* of those up to the last it was shown that were not overtaken.
Shown ==
    /\ overtaken \subseteq DOMAIN events
    /\ shown \in Seq(Committed)
    /\ FeedSkipsOnlyOvertaken

ReaderInv ==
    /\ connection \in {"open", "closed"}
    /\ afterID \in 0 .. Len(events)
    /\ connection = "open" => afterID = LastShown
    /\ Shown

\* A sequence of rows that are still committed.
LEMMA CommittedStay ==
    ASSUME events \in Seq(Event), TableStep
    PROVE  /\ Len(events) \in Nat /\ Len(events') \in Nat /\ Len(events') >= Len(events)
           /\ DOMAIN events = 1 .. Len(events) /\ DOMAIN events' = 1 .. Len(events')
           /\ Committed \subseteq Committed'
           /\ overtaken \subseteq overtaken'
           /\ overtaken \subseteq DOMAIN events => overtaken' \subseteq DOMAIN events'
           /\ \A i \in Committed' \ Committed : i < LastShown => i \in overtaken'
<1>1. ASSUME NEW w \in Writers, NEW type \in EventTypes, NEW success \in BOOLEAN,
             Insert(w, type, success)
      PROVE  /\ Len(events) \in Nat /\ Len(events') \in Nat /\ Len(events') >= Len(events)
             /\ DOMAIN events = 1 .. Len(events) /\ DOMAIN events' = 1 .. Len(events')
             /\ Committed' = Committed
             /\ overtaken' = overtaken
  <2>0. /\ events' \in Seq(Event) /\ Len(events) \in Nat
        /\ DOMAIN events = 1 .. Len(events) /\ DOMAIN events' = 1 .. (Len(events) + 1)
        /\ \A i \in DOMAIN events : events'[i] = events[i]
        /\ events'[Len(events) + 1] =
               [type |-> type, by |-> w, success |-> success, state |-> "open"]
    BY <1>1, InsertAppends
  <2>1. /\ events' \in Seq(Event) /\ Len(events) \in Nat
        /\ DOMAIN events = 1 .. Len(events) /\ DOMAIN events' = 1 .. (Len(events) + 1)
        /\ \A i \in DOMAIN events : events'[i] = events[i]
        /\ events'[Len(events) + 1].state = "open"
    BY <2>0
  <2>2. Len(events') \in Nat /\ DOMAIN events' = 1 .. Len(events')
    BY <2>1, LenProperties
  <2>3. Len(events') = Len(events) + 1
    BY <1>1, <2>1 DEF Insert
  <2>4. \A i \in DOMAIN events' : i \in DOMAIN events \/ i = Len(events) + 1
    BY <2>1
  <2>5. Committed' = Committed
    BY <2>1, <2>4 DEF Committed
  <2> QED
    BY <1>1, <2>1, <2>2, <2>3, <2>5 DEF Insert
<1>2. ASSUME NEW writers, NEW kept, Conclude(writers, kept)
      PROVE  /\ Len(events) \in Nat /\ DOMAIN events = 1 .. Len(events)
             /\ Len(events') = Len(events) /\ DOMAIN events' = DOMAIN events
             /\ Committed \subseteq Committed'
             /\ overtaken \subseteq overtaken'
             /\ overtaken \subseteq DOMAIN events => overtaken' \subseteq DOMAIN events
             /\ \A i \in Committed' \ Committed : i < LastShown => i \in overtaken'
  <2> DEFINE ends == UNION {OpenOf(w) : w \in writers}
  <2>1. /\ events' \in Seq(Event) /\ Len(events) \in Nat
        /\ DOMAIN events = 1 .. Len(events) /\ DOMAIN events' = DOMAIN events
        /\ \A i \in DOMAIN events :
               events'[i].state =
                   IF events[i].by \in writers /\ events[i].state = "open"
                   THEN IF events[i].by \in kept THEN "committed" ELSE "aborted"
                   ELSE events[i].state
    BY <1>2, ConcludeEnds
  <2>2. Len(events') = Len(events)
    <3>1. Len(events') \in Nat /\ DOMAIN events' = 1 .. Len(events')
      BY <2>1, LenProperties
    <3> QED
      BY <2>1, <3>1
  <2>3. overtaken' = overtaken \cup {i \in ends : events[i].by \in kept /\ i < LastShown}
    BY <1>2 DEF Conclude
  <2>4. ends \subseteq DOMAIN events
    BY DEF OpenOf
  <2>5. \A i \in DOMAIN events : events[i].by \in writers /\ events[i].state = "open" => i \in ends
    BY DEF OpenOf
  <2> HIDE DEF ends
  <2>6. Committed \subseteq Committed'
    BY <2>1 DEF Committed
  <2>7. ASSUME NEW i \in Committed' \ Committed, i < LastShown
        PROVE  i \in overtaken'
    <3>1. /\ i \in DOMAIN events /\ events'[i].state = "committed"
          /\ events[i].state # "committed"
      BY <2>1 DEF Committed
    <3>2. /\ events[i].by \in writers /\ events[i].state = "open"
          /\ events[i].by \in kept
      BY <2>1, <3>1
    <3> QED
      BY <2>3, <2>5, <2>7, <3>1, <3>2
  <2> QED
    BY <2>1, <2>2, <2>3, <2>4, <2>6, <2>7
<1>3. ASSUME UNCHANGED <<events, overtaken>>
      PROVE  Committed' = Committed /\ events' = events /\ overtaken' = overtaken
  BY <1>3 DEF Committed
<1>4. Len(events) \in Nat /\ DOMAIN events = 1 .. Len(events)
  BY LenProperties
<1> QED
  BY <1>1, <1>2, <1>3, <1>4 DEF TableStep

\* Writers of events leave the reader where it is: what they commit behind it
\* is overtaken.
LEMMA TableStepReaderInv ==
    ASSUME events \in Seq(Event), ReaderInv, TableStep, UNCHANGED readerVars
    PROVE  ReaderInv'
<1>1. connection' = connection /\ afterID' = afterID /\ shown' = shown
  BY DEF readerVars
<1>2. /\ Len(events) \in Nat /\ Len(events') \in Nat /\ Len(events') >= Len(events)
      /\ Committed \subseteq Committed' /\ overtaken \subseteq overtaken'
      /\ overtaken' \subseteq DOMAIN events'
      /\ \A i \in Committed' \ Committed : i < LastShown => i \in overtaken'
  BY CommittedStay DEF ReaderInv, Shown
<1>3. LastShown' = LastShown
  BY <1>1 DEF LastShown
<1>4. shown' \in Seq(Committed')
  <2>1. shown \in Seq(Committed) /\ Len(shown) \in Nat
    BY LenProperties DEF ReaderInv, Shown
  <2>2. DOMAIN shown = 1 .. Len(shown) /\ \A k \in 1 .. Len(shown) : shown[k] \in Committed'
    BY <1>2, <2>1
  <2>3. shown \in [1 .. Len(shown) -> Committed']
    BY <2>1, <2>2
  <2> QED
    BY <1>1, <2>1, <2>3, SeqDef
<1>5. FeedSkipsOnlyOvertaken'
  BY <1>1, <1>2, <1>3 DEF ReaderInv, Shown, FeedSkipsOnlyOvertaken
<1>6. afterID' \in 0 .. Len(events')
  BY <1>1, <1>2 DEF ReaderInv
<1> QED
  BY <1>1, <1>2, <1>3, <1>4, <1>5, <1>6 DEF ReaderInv, Shown

\* The browser receives the first n rows of a batch.
LEMMA ShowsMore ==
    ASSUME events \in Seq(Event), ReaderInv, connection = "open", NEW n \in 0 .. Len(Batch),
           shown' = shown \o SubSeq(Batch, 1, n), UNCHANGED <<events, overtaken>>
    PROVE  Shown' /\ LastShown' = IF n = 0 THEN LastShown ELSE Batch[n]
<1>1. /\ Batch \in Seq(Fresh) /\ shown \in Seq(Committed) /\ afterID \in Nat
      /\ Fresh \subseteq Committed /\ afterID = LastShown
      /\ Len(events) \in Nat /\ DOMAIN events = 1 .. Len(events)
  BY BatchLists, LenProperties DEF ReaderInv, Shown, Fresh
<1>0. afterID \in Nat /\ afterID = LastShown
  BY <1>1
<1>2. Len(Batch) \in Nat /\ Len(shown) \in Nat /\ n \in Nat /\ n <= Len(Batch)
  BY <1>1
<1>3. /\ SubSeq(Batch, 1, n) \in Seq(Fresh) /\ Len(SubSeq(Batch, 1, n)) = n
      /\ \A k \in 1 .. n : SubSeq(Batch, 1, n)[k] = Batch[k]
  BY <1>1, <1>2
<1>4. /\ shown' \in Seq(Committed) /\ Len(shown') = Len(shown) + n
      /\ \A k \in 1 .. Len(shown) : shown'[k] = shown[k]
      /\ \A k \in 1 .. n : shown'[Len(shown) + k] = Batch[k]
  BY <1>1, <1>2, <1>3
<1>5. DOMAIN Batch = 1 .. Len(Batch) /\ DOMAIN shown = 1 .. Len(shown)
      /\ DOMAIN shown' = 1 .. Len(shown')
  BY <1>1, <1>4
<1>6. LastShown' = IF n = 0 THEN LastShown ELSE Batch[n]
  <2>1. shown = <<>> <=> Len(shown) = 0
    BY <1>1
  <2>2. shown' = <<>> <=> Len(shown') = 0
    <3>1. shown' \in Seq(Committed)
      BY <1>4
    <3> QED
      BY <3>1
  <2>3. CASE n = 0
    <3>1. Len(shown') = Len(shown)
      BY <1>2, <1>4, <2>3
    <3>2. CASE Len(shown) = 0
      BY <2>1, <2>2, <2>3, <3>1, <3>2 DEF LastShown
    <3>3. CASE Len(shown) # 0
      <4>1. shown'[Len(shown)] = shown[Len(shown)]
        BY <1>2, <1>4, <3>3
      <4> QED
        BY <2>1, <2>2, <2>3, <3>1, <3>3, <4>1 DEF LastShown
    <3> QED
      BY <3>2, <3>3
  <2>4. CASE n # 0
    <3>1. n \in 1 .. n /\ Len(shown') = Len(shown) + n /\ Len(shown') # 0
      BY <1>2, <1>4, <2>4
    <3>2. shown'[Len(shown')] = Batch[n]
      BY <1>4, <3>1
    <3> QED
      BY <2>2, <2>4, <3>1, <3>2 DEF LastShown
  <2> QED
    BY <2>3, <2>4
<1>7. Committed' = Committed /\ overtaken' = overtaken /\ events' = events
  BY DEF Committed
<1>8. \A i \in Committed : i \in Nat /\ i > 0
  BY <1>1 DEF Committed
<1>9. \A k \in 1 .. Len(shown) : shown[k] \in Committed /\ shown[k] <= afterID
  <2> SUFFICES ASSUME NEW k \in 1 .. Len(shown)
               PROVE  shown[k] \in Committed /\ shown[k] <= afterID
    OBVIOUS
  <2>1. shown[k] \in Committed /\ shown[Len(shown)] \in Committed /\ shown # <<>>
    BY <1>1, <1>2
  <2>2. afterID = shown[Len(shown)]
    BY <1>0, <2>1 DEF LastShown
  <2>3. k = Len(shown) \/ (k < Len(shown) /\ k \in DOMAIN shown /\ Len(shown) \in DOMAIN shown)
    <3>1. k \in Nat /\ k >= 1 /\ k <= Len(shown) /\ Len(shown) >= 1
      BY <1>2
    <3>2. k = Len(shown) \/ k < Len(shown)
      BY <1>2, <3>1
    <3>3. Len(shown) \in 1 .. Len(shown)
      BY <1>2, <3>1
    <3> QED
      BY <1>5, <3>2, <3>3
  <2>4. k < Len(shown) => shown[k] < shown[Len(shown)]
    BY <1>2, <1>5, <2>3 DEF ReaderInv, Shown, FeedSkipsOnlyOvertaken
  <2> QED
    BY <1>8, <2>1, <2>2, <2>3, <2>4
<1>10. \A k \in 1 .. n : Batch[k] \in Fresh /\ Batch[k] \in Nat /\ Batch[k] > afterID
  BY <1>1, <1>2, <1>5, <1>8 DEF Fresh
<1>11. ASSUME NEW j \in DOMAIN shown', NEW k \in DOMAIN shown', j < k
       PROVE  shown'[j] < shown'[k]
  <2>1. j \in Nat /\ k \in Nat /\ k <= Len(shown) + n /\ j >= 1
    BY <1>2, <1>4, <1>5
  <2>2. CASE k <= Len(shown)
    <3>1. j \in DOMAIN shown /\ k \in DOMAIN shown /\ shown'[j] = shown[j] /\ shown'[k] = shown[k]
      BY <1>2, <1>4, <1>5, <1>11, <2>1, <2>2
    <3> QED
      BY <1>11, <3>1 DEF ReaderInv, Shown, FeedSkipsOnlyOvertaken
  <2>3. CASE k > Len(shown) /\ j <= Len(shown)
    <3>1. j \in 1 .. Len(shown) /\ k - Len(shown) \in 1 .. n /\ Len(shown) + (k - Len(shown)) = k
      BY <1>2, <2>1, <2>3
    <3>2. shown'[j] = shown[j] /\ shown'[k] = Batch[k - Len(shown)]
      BY <1>4, <3>1
    <3>3. shown[j] \in Nat /\ shown[j] <= afterID
      BY <1>8, <1>9, <3>1
    <3>4. Batch[k - Len(shown)] \in Nat /\ Batch[k - Len(shown)] > afterID
      BY <1>10, <3>1
    <3>5. shown[j] < Batch[k - Len(shown)]
      BY <1>0, <3>3, <3>4
    <3> QED
      BY <3>2, <3>5
  <2>4. CASE j > Len(shown)
    <3>1. /\ j - Len(shown) \in 1 .. n /\ k - Len(shown) \in 1 .. n
          /\ Len(shown) + (j - Len(shown)) = j /\ Len(shown) + (k - Len(shown)) = k
          /\ j - Len(shown) < k - Len(shown)
      BY <1>2, <1>11, <2>1, <2>4
    <3>2. shown'[j] = Batch[j - Len(shown)] /\ shown'[k] = Batch[k - Len(shown)]
      BY <1>4, <3>1
    <3>3. j - Len(shown) \in DOMAIN Batch /\ k - Len(shown) \in DOMAIN Batch
      BY <1>2, <1>5, <3>1
    <3> QED
      BY <1>1, <3>1, <3>2, <3>3, BatchLists
  <2> QED
    BY <1>2, <2>1, <2>2, <2>3, <2>4
<1>12. ASSUME NEW i \in Committed, i < LastShown', i \notin overtaken
       PROVE  \E k \in DOMAIN shown' : shown'[k] = i
  <2>1. \A k \in DOMAIN shown : k \in DOMAIN shown' /\ shown'[k] = shown[k]
    BY <1>2, <1>4, <1>5
  <2>2. CASE i < afterID
    <3>1. \E k \in DOMAIN shown : shown[k] = i
      BY <1>1, <1>12, <2>2 DEF ReaderInv, Shown, FeedSkipsOnlyOvertaken
    <3> QED
      BY <2>1, <3>1
  <2>3. CASE i = afterID
    <3>1. shown # <<>> /\ i = shown[Len(shown)]
      BY <1>1, <1>8, <2>3 DEF LastShown
    <3>2. Len(shown) \in DOMAIN shown
      BY <1>1, <1>2, <1>5, <3>1
    <3> QED
      BY <2>1, <3>1, <3>2
  <2>4. CASE i > afterID
    <3>1. n # 0
      BY <1>1, <1>6, <1>8, <1>12, <2>4
    <3>2. i \in Fresh /\ n \in DOMAIN Batch /\ i < Batch[n]
      BY <1>2, <1>5, <1>6, <1>12, <2>4, <3>1 DEF Fresh
    <3>3. PICK k \in DOMAIN Batch : k < n /\ Batch[k] = i
      BY <1>1, <3>2, BatchLists
    <3>4. k \in 1 .. n /\ Len(shown) + k \in DOMAIN shown'
      BY <1>2, <1>4, <1>5, <3>3
    <3>5. shown'[Len(shown) + k] = i
      BY <1>4, <3>3, <3>4
    <3> QED
      BY <3>4, <3>5
  <2> QED
    BY <1>0, <1>8, <2>2, <2>3, <2>4
<1>13. FeedSkipsOnlyOvertaken'
  BY <1>7, <1>11, <1>12 DEF FeedSkipsOnlyOvertaken
<1>14. overtaken' \subseteq DOMAIN events'
  BY <1>7 DEF ReaderInv, Shown
<1> QED
  BY <1>4, <1>6, <1>7, <1>13, <1>14 DEF Shown

\* A poll, one that breaks or a reconnect keeps what the browser was promised.
LEMMA ReaderStepReaderInv ==
    ASSUME events \in Seq(Event), ReaderInv, ReaderNext
    PROVE  ReaderInv'
<1>1. /\ Batch \in Seq(Fresh) /\ Fresh \subseteq Committed /\ Len(Batch) \in Nat
      /\ DOMAIN Batch = 1 .. Len(Batch)
      /\ Len(events) \in Nat /\ DOMAIN events = 1 .. Len(events)
      /\ Fresh # {} => Batch # <<>>
  BY BatchLists, LenProperties DEF ReaderInv, Fresh
<1>2. \A i \in Committed : i \in 0 .. Len(events)
  BY <1>1 DEF Committed
<1>3. \A k \in 1 .. Len(Batch) : Batch[k] \in Committed
  BY <1>1
<1>4. Fresh # {} => Len(Batch) # 0
  BY <1>1
<1>5. SubSeq(Batch, 1, Len(Batch)) = Batch
  BY <1>1
<1>6. CASE Poll
  <2>1. /\ connection = "open" /\ Fresh # {} /\ UNCHANGED <<events, overtaken>>
        /\ shown' = shown \o Batch
        /\ afterID' = shown'[Len(shown')] /\ connection' \in {"open", "closed"}
    BY <1>6 DEF Poll
  <2>2. Shown' /\ LastShown' = Batch[Len(Batch)]
    <3>1. shown' = shown \o SubSeq(Batch, 1, Len(Batch)) /\ Len(Batch) \in 0 .. Len(Batch)
      BY <1>1, <1>5, <2>1
    <3> QED
      BY <1>4, <2>1, <3>1, ShowsMore
  <2>3. shown' # <<>>
    <3>1. shown \in Seq(Committed) /\ Len(shown) \in Nat
      BY LenProperties DEF ReaderInv, Shown
    <3>2. Len(shown') = Len(shown) + Len(Batch)
      BY <1>1, <2>1, <3>1
    <3>3. Len(shown') # 0
      BY <1>1, <1>4, <2>1, <3>1, <3>2
    <3> QED
      BY <3>3
  <2>4. afterID' = LastShown'
    BY <2>1, <2>3 DEF LastShown
  <2>5. Len(Batch) \in 1 .. Len(Batch)
    BY <1>1, <1>4, <2>1
  <2>6. afterID' \in 0 .. Len(events')
    BY <1>2, <1>3, <2>1, <2>2, <2>4, <2>5
  <2> QED
    BY <2>1, <2>2, <2>4, <2>6 DEF ReaderInv
<1>7. CASE PollBreaks
  <2>1. PICK n \in 0 .. Len(Batch) : shown' = shown \o SubSeq(Batch, 1, n)
    BY <1>7 DEF PollBreaks
  <2>2. /\ connection = "open" /\ connection' = "closed" /\ UNCHANGED <<events, overtaken>>
        /\ afterID' = IF Fresh = {} THEN afterID ELSE Batch[Len(Batch)]
    BY <1>7 DEF PollBreaks
  <2>3. Shown'
    BY <2>1, <2>2, ShowsMore
  <2>4. afterID' \in 0 .. Len(events')
    <3>1. CASE Fresh = {}
      BY <2>2, <3>1 DEF ReaderInv
    <3>2. CASE Fresh # {}
      <4>1. Len(Batch) \in 1 .. Len(Batch)
        BY <1>1, <1>4, <3>2
      <4> QED
        BY <1>2, <1>3, <2>2, <3>2, <4>1
    <3> QED
      BY <3>1, <3>2
  <2> QED
    BY <2>2, <2>3, <2>4 DEF ReaderInv
<1>8. CASE Connect
  <2>1. connection' = "open" /\ afterID' = LastShown /\ UNCHANGED <<events, shown, overtaken>>
    BY <1>8 DEF Connect
  <2>2. LastShown' = LastShown /\ Committed' = Committed
    BY <2>1 DEF LastShown, Committed
  <2>3. Shown'
    BY <2>1, <2>2 DEF ReaderInv, Shown, FeedSkipsOnlyOvertaken
  <2>4. LastShown \in 0 .. Len(events)
    <3>1. CASE shown = <<>>
      BY <1>1, <3>1 DEF LastShown
    <3>2. CASE shown # <<>>
      <4>1. shown \in Seq(Committed) /\ Len(shown) \in 1 .. Len(shown)
        BY <3>2, LenProperties, EmptySeq DEF ReaderInv, Shown
      <4>2. shown[Len(shown)] \in Committed
        BY <4>1
      <4> QED
        BY <1>2, <3>2, <4>2 DEF LastShown
    <3> QED
      BY <3>1, <3>2
  <2> QED
    BY <2>1, <2>2, <2>3, <2>4 DEF ReaderInv
<1> QED
  BY <1>6, <1>7, <1>8 DEF ReaderNext

\* Only the reader moves the reader, and a failure is counted.
LEMMA NextIsFeedStep ==
    ASSUME [Next]_vars
    PROVE  /\ ReaderNext \/ UNCHANGED readerVars
           /\ Fails \/ failures' = failures
           /\ phase \in Phases => phase' \in Phases
<1>1. ASSUME NEW c \in Calls, CallStep(c) \/ WriteFails(c) \/ ServerStep(c)
      PROVE  UNCHANGED readerVars /\ (Fails \/ failures' = failures)
  <2>1. CallStep(c) => UNCHANGED readerVars /\ failures' = failures
    BY DEF CallStep, Authorize, WriteCommits, Send, Receive, GiveUp, Returns, Report,
           feedVars, readerVars
  <2>2. WriteFails(c) => UNCHANGED readerVars /\ Fails
    BY DEF WriteFails
  <2>3. ServerStep(c) => UNCHANGED readerVars /\ (Fails \/ failures' = failures)
    BY DEF ServerStep, Refuse, Execute, Audit, AuditFails, ServerStops, feedVars, readerVars
  <2> QED
    BY <1>1, <2>1, <2>2, <2>3
<1>2. ASSUME InvestigatorNext
      PROVE  UNCHANGED readerVars /\ (Fails \/ failures' = failures) /\ phase' \in Phases
  BY <1>2 DEF InvestigatorNext, Generate, BatchEnds, Answer, CloseWrites, CloseCommits,
              ApprovalWrites, ApprovalCommits, Expire, feedVars, readerVars, Phases
<1>3. ReaderNext => Fails \/ failures' = failures
  BY DEF ReaderNext, Poll, PollBreaks, Connect
<1>4. UNCHANGED vars => UNCHANGED readerVars /\ failures' = failures /\ phase' = phase
  BY DEF vars, feedVars, readerVars
<1> QED
  BY <1>1, <1>2, <1>3, <1>4 DEF Next

TypedFeed == phase \in Phases /\ failures \in 0 .. MaxFailures

\* What the browser was promised holds throughout.
LEMMA SpecReaderInv == Spec => [](Types /\ ReaderInv /\ TypedFeed)
<1>1. Init => ReaderInv /\ TypedFeed
  <2> SUFFICES ASSUME Init PROVE ReaderInv /\ TypedFeed
    OBVIOUS
  <2>1. /\ phase = "generating" /\ events = <<>> /\ connection = "closed" /\ afterID = 0
        /\ shown = <<>> /\ overtaken = {} /\ failures = 0
    BY DEF Init, FeedInit
  <2>2. Committed = {} /\ DOMAIN shown = {}
    BY <2>1 DEF Committed
  <2>3. FeedSkipsOnlyOvertaken
    BY <2>2 DEF FeedSkipsOnlyOvertaken
  <2>4. shown \in Seq(Committed) /\ Len(events) = 0
    BY <2>1
  <2>5. TypedFeed
    BY <2>1, FeedAssumption DEF TypedFeed, Phases
  <2> QED
    BY <2>1, <2>3, <2>4, <2>5 DEF ReaderInv, Shown
<1>2. Types /\ ReaderInv /\ TypedFeed /\ [Next]_vars => ReaderInv' /\ TypedFeed'
  <2> SUFFICES ASSUME Types, ReaderInv, TypedFeed, [Next]_vars
               PROVE  ReaderInv' /\ TypedFeed'
    OBVIOUS
  <2>1. TableStep /\ (ReaderNext \/ UNCHANGED readerVars)
    BY NextIsTableStep, NextIsFeedStep
  <2>2. ReaderInv'
    BY <2>1, TableStepReaderInv, ReaderStepReaderInv DEF Types
  <2>3. TypedFeed'
    BY NextIsFeedStep, FeedAssumption DEF TypedFeed, Fails
  <2> QED
    BY <2>2, <2>3
<1> QED
  BY <1>1, <1>2, SpecServerInv, PTL DEF Spec

\* What a browser is shown is in the order of the ids and without repetition,
\* over any number of polls, breaks and reconnects and with batches of any
\* size, and leaves out only events overtaken by a later id.
THEOREM SpecFeedSkipsOnlyOvertaken == Spec => []FeedSkipsOnlyOvertaken
<1>1. ReaderInv => FeedSkipsOnlyOvertaken
  BY DEF ReaderInv, Shown
<1> QED
  BY <1>1, SpecReaderInv, PTL

\* The states of the calls, the loop, the table and the reader stay in their
\* domains; in particular a browser is shown ids of the table only.
THEOREM SpecTypeOK == Spec => []TypeOK
<1>1. ASSUME Types, ReaderInv, TypedFeed PROVE TypeOK
  <2>1. Committed \subseteq DOMAIN events
    BY DEF Committed
  <2>2. shown \in Seq(DOMAIN events)
    <3>1. shown \in Seq(Committed) /\ Len(shown) \in Nat
      BY <1>1, LenProperties DEF ReaderInv, Shown
    <3>2. \A k \in 1 .. Len(shown) : shown[k] \in DOMAIN events
      BY <2>1, <3>1
    <3>3. shown \in [1 .. Len(shown) -> DOMAIN events]
      BY <3>1, <3>2
    <3> QED
      BY <3>1, <3>3, SeqDef
  <2>3. FeedTypeOK
    BY <1>1, <2>2 DEF FeedTypeOK, Types, ReaderInv, Shown, TypedFeed
  <2> QED
    BY <1>1, <2>3 DEF TypeOK, Types, TypedFeed
<1> QED
  BY <1>1, SpecReaderInv, PTL
=============================================================================
