----------------------------- MODULE EventFeed -----------------------------
(***************************************************************************)
(* The progress events of one run: agent.investigation_events and          *)
(* GET .../events, which replays them to a browser by event id.            *)
(*                                                                         *)
(* The id comes from the table's sequence when the row is inserted, and    *)
(* the row becomes visible when its transaction commits: writers that run  *)
(* side by side may commit in another order than their ids.                *)
(***************************************************************************)
EXTENDS Naturals, Sequences, FiniteSets

CONSTANTS
    Writers,      \* who inserts events; each inserts one at a time
    BatchLimit,   \* LIMIT of a poll: 100
    MaxFailures   \* bound on errors, timeouts and crashes in a behaviour

EventTypes ==
    {"tool.call_started", "evidence.created", "tool.call_completed", "run.completed",
     "run.failed", "approval.requested"}

ClosingTypes == {"run.completed", "run.failed"}

\* A row, by the id it is at in events.  success is the payload's field.
Event == [type : EventTypes, by : Writers, success : BOOLEAN,
          state : {"open", "committed", "aborted"}]

VARIABLES
    events,      \* investigation_events and what is not committed yet, by id
    connection,  \* the browser's request: "open" while streamEvents serves it
    afterID,     \* streamEvents: the last id it wrote
    shown,       \* the ids the browser was given, in that order
    overtaken,   \* history: ids committed after a larger one was shown
    failures     \* errors, timeouts and crashes so far

feedVars == <<events, connection, afterID, shown, overtaken, failures>>
readerVars == <<connection, afterID, shown>>

ASSUME FeedAssumption == BatchLimit \in Nat \ {0} /\ MaxFailures \in Nat

FeedInit ==
    /\ events = <<>>
    /\ connection = "closed"
    /\ afterID = 0
    /\ shown = <<>>
    /\ overtaken = {}
    /\ failures = 0

FeedTypeOK ==
    /\ events \in Seq(Event)
    /\ connection \in {"open", "closed"}
    /\ afterID \in 0 .. Len(events)
    /\ shown \in Seq(DOMAIN events)
    /\ overtaken \subseteq DOMAIN events
    /\ failures \in 0 .. MaxFailures

Fails == failures < MaxFailures /\ failures' = failures + 1

LastShown == IF shown = <<>> THEN 0 ELSE shown[Len(shown)]

OpenOf(w) == {i \in DOMAIN events : events[i].by = w /\ events[i].state = "open"}

Committed == {i \in DOMAIN events : events[i].state = "committed"}

\* appendEventTx: the INSERT takes the next id of the sequence.
Insert(w, type, success) ==
    /\ events' = Append(events, [type |-> type, by |-> w, success |-> success,
                                 state |-> "open"])
    /\ UNCHANGED overtaken

\* The transactions of a set of writers end, those of `kept` by a commit.
Conclude(writers, kept) ==
    LET ends == UNION {OpenOf(w) : w \in writers}
    IN  /\ events' = [i \in DOMAIN events |->
                         IF i \notin ends THEN events[i]
                         ELSE [events[i] EXCEPT
                                  !.state = IF events[i].by \in kept THEN "committed"
                                            ELSE "aborted"]]
        /\ overtaken' = overtaken \cup
                            {i \in ends : events[i].by \in kept /\ i < LastShown}

\* The committed rows after afterID.
Fresh == {i \in Committed : i > afterID}

\* Mutated form of Batch: the last rows instead of the first.
LatestBatch ==
    LET fresh == Fresh
        all == Cardinality(fresh)
        size == IF all > BatchLimit THEN BatchLimit ELSE all
    IN  [k \in 1 .. size |->
            CHOOSE i \in fresh : Cardinality({j \in fresh : j > i}) = size - k]

\* ListEvents: the first of them, in the order of their ids.
Batch ==
    LET fresh == Fresh
        all == Cardinality(fresh)
        size == IF all > BatchLimit THEN BatchLimit ELSE all
    IN  [k \in 1 .. size |->
            CHOOSE i \in fresh : Cardinality({j \in fresh : j < i}) = k - 1]

\* One round of streamEvents.  It looks only at the last event of the batch
\* to see that the run has ended.
Poll ==
    /\ connection = "open"
    /\ Fresh # {}
    /\ shown' = shown \o Batch
    /\ afterID' = shown'[Len(shown')]
    /\ connection' = IF events[afterID'].type \in ClosingTypes THEN "closed" ELSE "open"
    /\ UNCHANGED <<events, overtaken, failures>>

\* The connection breaks: errors of writing are ignored, so the batch counts
\* as written, and the browser has received some of it.
PollBreaks ==
    /\ connection = "open"
    /\ Fails
    /\ LET batch == Batch
       IN  /\ \E n \in 0 .. Len(batch) : shown' = shown \o SubSeq(batch, 1, n)
           /\ afterID' = IF Fresh = {} THEN afterID ELSE batch[Len(batch)]
    /\ connection' = "closed"
    /\ UNCHANGED <<events, overtaken>>

\* Mutated form of Connect: the stream goes on where the last one stopped.
ConnectWhereItStopped ==
    /\ connection = "closed"
    /\ connection' = "open"
    /\ UNCHANGED <<events, afterID, shown, overtaken, failures>>

\* The browser connects, and reconnects after a stream ended or broke.
Connect ==
    /\ connection = "closed"
    /\ connection' = "open"
    /\ afterID' = LastShown
    /\ UNCHANGED <<events, shown, overtaken, failures>>

ReaderNext == Poll \/ PollBreaks \/ Connect
=============================================================================
