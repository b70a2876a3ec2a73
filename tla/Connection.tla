----------------------------- MODULE Connection -----------------------------
(***************************************************************************)
(* A connection of workspaces/pool/src/connection.ts with its work queue,  *)
(* workspaces/pool/src/queue.ts: one libpq handle, which takes one query   *)
(* at a time, under callers who query, and destroy, at any time.           *)
(***************************************************************************)
EXTENDS Naturals, Sequences, FiniteSets

CONSTANTS
    Query,       \* queries that can be outstanding at once
    NoQuery      \* not a query

ASSUME QueryAssumption == NoQuery \notin Query

VARIABLES
    attempt,     \* connect(): "none", "pending" or "over"
    connected,   \* _pq.connected
    destroyed,   \* _destroyed
    announced,   \* number of "destroyed" events emitted
    queue,       \* _queue: the queries waiting for their turn
    ticking,     \* a _run() is scheduled with process.nextTick()
    stage,       \* what the queue is doing: "idle" means not _running
    current,     \* the query it is doing that for
    wire,        \* queries sent, with results not read yet
    outcome,     \* what the caller of each query has been told
    returning    \* settled, the "finally" block of query() not run yet

handleVars == <<connected, destroyed, announced>>
queueVars == <<queue, ticking, stage, current>>
queryVars == <<wire, outcome, returning>>
vars == <<attempt, handleVars, queueVars, queryVars>>

-----------------------------------------------------------------------------

\* No microtask is waiting: timers, sockets and libpq have their turn
Idle == ~ticking /\ stage \notin {"scheduled", "settled"} /\ returning = {}

\* _fail(), and the "error" listener of the constructor
Fail ==
    /\ connected' = FALSE
    /\ destroyed' = TRUE
    /\ wire' = {}
    /\ UNCHANGED announced

\* destroy().  The operators named Mutant... are plausible bugs: no specification
\* uses them.
MutantCloseAgain ==
    /\ connected' = FALSE /\ destroyed' = TRUE
    /\ announced' = announced + 1 /\ wire' = {}

Close ==
    IF destroyed
    THEN UNCHANGED <<handleVars, wire>>
    ELSE /\ connected' = FALSE
         /\ destroyed' = TRUE
         /\ announced' = announced + 1
         /\ wire' = {}

\* Queue._run(), when it is not running
MutantTakeLast ==
    IF queue = <<>>
    THEN /\ stage' = "idle" /\ current' = NoQuery
         /\ UNCHANGED queue
    ELSE /\ stage' = "scheduled" /\ current' = queue[Len(queue)]
         /\ queue' = SubSeq(queue, 1, Len(queue) - 1)

TakeNext ==
    IF queue = <<>>
    THEN /\ stage' = "idle" /\ current' = NoQuery
         /\ UNCHANGED queue
    ELSE /\ stage' = "scheduled" /\ current' = Head(queue)
         /\ queue' = Tail(queue)

\* The promise of the current query is settled
Settle(o) ==
    /\ outcome' = [outcome EXCEPT ![current] = o]
    /\ returning' = returning \cup {current}
    /\ stage' = "settled"
    /\ UNCHANGED <<attempt, queue, ticking, current>>

-----------------------------------------------------------------------------
(* connect() and destroy() *)

\* The pool calls connect() once on every connection it creates
Connect ==
    /\ attempt = "none" /\ ~connected /\ ~destroyed
    /\ attempt' = "pending"
    /\ UNCHANGED <<handleVars, queueVars, queryVars>>

\* libpq has connected or failed.  A connection destroyed meanwhile, or one that
\* cannot be used, is finished.
MutantOpenAnyway(ok) ==
    IF ok
    THEN connected' = TRUE /\ UNCHANGED destroyed
    ELSE connected' = FALSE /\ destroyed' = TRUE

OpenOrFinish(ok) ==
    IF ok /\ ~destroyed
    THEN connected' = TRUE /\ UNCHANGED destroyed
    ELSE connected' = FALSE /\ destroyed' = TRUE

ConnectEnds(ok) ==
    /\ Idle /\ attempt = "pending"
    /\ attempt' = "over"
    /\ OpenOrFinish(ok)
    /\ UNCHANGED <<announced, queueVars, queryVars>>

\* destroy(), by the pool or by a caller.  A query in flight stays so: nothing
\* happens any more on a handle that has been finished.
Destroy ==
    /\ ~destroyed
    /\ Close
    /\ UNCHANGED <<attempt, queueVars, outcome, returning>>

-----------------------------------------------------------------------------
(* query() and the queue *)

\* query(): enqueue() pushes the query and schedules _run()
MutantPushOnly(q) == queue' = Append(queue, q) /\ UNCHANGED ticking

Enqueue(q) == queue' = Append(queue, q) /\ ticking' = TRUE

Ask(q) ==
    /\ outcome[q] # "waiting" /\ q \notin returning
    /\ Enqueue(q)
    /\ outcome' = [outcome EXCEPT ![q] = "waiting"]
    /\ UNCHANGED <<attempt, handleVars, stage, current, wire, returning>>

\* The scheduled _run(): when one is running the others have nothing to do
MutantAlwaysTake == TakeNext
TakeIfIdle == IF stage = "idle" THEN TakeNext ELSE UNCHANGED <<queue, stage, current>>

Tick ==
    /\ ticking
    /\ ticking' = FALSE
    /\ TakeIfIdle
    /\ UNCHANGED <<attempt, handleVars, queryVars>>

\* The task asserts that the handle is connected
NotConnected ==
    /\ stage = "scheduled" /\ ~connected
    /\ Settle("rejected")
    /\ UNCHANGED <<handleVars, wire>>

SendFails ==
    /\ stage = "scheduled" /\ connected
    /\ Settle("rejected")
    /\ Fail

\* Sent, and flushed at once or not
Send ==
    /\ stage = "scheduled" /\ connected
    /\ wire' = wire \cup {current}
    /\ stage' \in {"flushing", "reading"}
    /\ UNCHANGED <<attempt, handleVars, queue, ticking, current, outcome, returning>>

\* flush() fails, right after sending or when the socket is writable
FlushFails ==
    /\ stage = "scheduled" \/ (Idle /\ stage = "flushing")
    /\ connected
    /\ Settle("rejected")
    /\ Fail

Flushed ==
    /\ Idle /\ stage = "flushing" /\ connected
    /\ stage' = "reading"
    /\ UNCHANGED <<attempt, handleVars, queue, ticking, current, queryVars>>

\* All results are in: an SQL error rejects the query and leaves the handle open
Read(o) ==
    /\ Idle /\ stage = "reading" /\ connected
    /\ Settle(o)
    /\ wire' = wire \ {current}
    /\ UNCHANGED handleVars

\* Input cannot be consumed, or a result has a status that is not expected
ReadFails ==
    /\ Idle /\ stage = "reading" /\ connected
    /\ Settle("rejected")
    /\ Fail

\* The "finally" block of query(): "Forget the connection if the query terminated it"
AfterQuery(q) ==
    /\ q \in returning
    /\ returning' = returning \ {q}
    /\ IF connected THEN UNCHANGED <<handleVars, wire>> ELSE Close
    /\ UNCHANGED <<attempt, queueVars, outcome>>

\* The "finally" of the queue: the next query, if there is one
MutantStop == stage' = "idle" /\ current' = NoQuery /\ UNCHANGED queue
RunAgain == TakeNext

Done ==
    /\ stage = "settled"
    /\ RunAgain
    /\ UNCHANGED <<attempt, handleVars, ticking, queryVars>>

-----------------------------------------------------------------------------

Init ==
    /\ attempt = "none"
    /\ connected = FALSE /\ destroyed = FALSE
    /\ announced = 0
    /\ queue = <<>> /\ ticking = FALSE
    /\ stage = "idle" /\ current = NoQuery
    /\ wire = {} /\ returning = {}
    /\ outcome = [q \in Query |-> "none"]

Microtask ==
    \/ Tick \/ NotConnected \/ SendFails \/ Send \/ Done
    \/ \E q \in Query : AfterQuery(q)

Answered == (\E o \in {"resolved", "rejected"} : Read(o)) \/ ReadFails

Next ==
    \/ Connect \/ (\E ok \in BOOLEAN : ConnectEnds(ok)) \/ Destroy
    \/ \E q \in Query : Ask(q)
    \/ Microtask \/ FlushFails \/ Flushed \/ Answered

Spec == Init /\ [][Next]_vars

\* Microtasks run; while the handle is connected the socket becomes writable and
\* the server answers.  Strong, as libpq's events wait for the microtasks.
Fairness ==
    /\ WF_vars(Tick) /\ WF_vars(Done) /\ WF_vars(NotConnected \/ SendFails \/ Send)
    /\ \A q \in Query : WF_vars(AfterQuery(q))
    /\ SF_vars(Flushed \/ FlushFails) /\ SF_vars(Answered)

FairSpec == Spec /\ Fairness

-----------------------------------------------------------------------------
(* Correctness *)

Outcomes == {"none", "waiting", "resolved", "rejected"}
Stages == {"idle", "scheduled", "flushing", "reading", "settled"}

TypeOK ==
    /\ attempt \in {"none", "pending", "over"}
    /\ connected \in BOOLEAN /\ destroyed \in BOOLEAN
    /\ announced \in {0, 1}
    /\ queue \in Seq(Query) /\ ticking \in BOOLEAN
    /\ stage \in Stages
    /\ current \in IF stage = "idle" THEN {NoQuery} ELSE Query
    /\ wire \subseteq Query /\ returning \subseteq Query
    /\ outcome \in [Query -> Outcomes]

\* libpq refuses a query while another is in flight, and the connection would be
\* lost: at most one is, and it is the one whose caller gets what is read.
OneInFlight ==
    /\ wire \subseteq {current}
    /\ stage \in {"flushing", "reading"} /\ connected => wire = {current}

\* A destroyed connection is closed, also one whose connect() succeeds later
ClosedForGood == destroyed => ~connected

\* Queued queries never wait for nothing
QueueAwake == queue # <<>> => ticking \/ stage # "idle"

\* destroy() was called with a query in flight
Abandoned == stage \in {"flushing", "reading"} /\ ~connected

\* Every query is settled, those behind one that breaks the connection included,
\* unless destroy() finishes the handle under a query.
QueriesSettle ==
    \A q \in Query : outcome[q] = "waiting" ~> outcome[q] # "waiting" \/ Abandoned

Life == IF connected THEN "open" ELSE IF destroyed THEN "closed" ELSE "new"

Outstanding ==
    (IF stage \in {"scheduled", "flushing", "reading"} THEN <<current>> ELSE <<>>) \o queue

Serial == INSTANCE SerialQueries WITH life <- Life, outstanding <- Outstanding

\* The connection keeps the promise of SerialQueries
SettlesInOrder == Serial!Spec

=============================================================================
