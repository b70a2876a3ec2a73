------------------------------- MODULE Server -------------------------------
(***************************************************************************)
(* The server of workspaces/server/src/server.ts: WebSocket sessions, each *)
(* with a connection of its own for as long as it lives, and HTTP          *)
(* requests, which borrow one for a single query.                          *)
(*                                                                         *)
(* Of the pool it keeps what ConnectionLending and the release handler     *)
(* tell clients: a connection in the available list is lent, and a         *)
(* released one goes back behind the queries still in its work queue.      *)
(***************************************************************************)
EXTENDS Naturals, Sequences, FiniteSets, Functions

CONSTANTS
    Conn,        \* connections that can exist at once
    Session,     \* WebSocket sessions that can exist at once
    Post,        \* HTTP queries that can be outstanding at once
    Check,       \* health checks that can be outstanding at once
    Message,     \* messages of a session that can be unanswered at once
    NoConn, Pool, Release,
    Events       \* what the environment may do, a subset of AllEvents

AllEvents == {"queryFails", "borrowTimeout", "sendFails", "socketError", "stop"}

Request == Post \cup Check
Client == Session \cup Request

ASSUME NamesAssumption ==
    /\ NoConn \notin Conn /\ Pool \notin Client /\ Release \notin Message
    /\ Session \cap Request = {} /\ Post \cap Check = {}

ASSUME EventsAssumption == Events \subseteq AllEvents

VARIABLES
    phase,       \* "up", "stopping", "stopped" or "crashed"
    socket,      \* the WebSocket of a session
    stage,       \* how far an HTTP request is
    promise,     \* of pool.acquire(): "none", "pending", "fulfilled", "failed"
    lent,        \* the connection it carries
    returned,    \* number of times the client has released it
    thens,       \* what is chained on the promise of a session
    waiting,     \* the messages of a session that have no answer yet
    available,   \* how many times a connection is in the pool's _available
    link,        \* "up", "broken", "evicted" or "stuck": evicted under a query
    work         \* the work queue of a connection

loanVars == <<promise, lent, returned>>
sessionVars == <<socket, thens, waiting>>
poolVars == <<available, link, work>>
vars == <<phase, stage, loanVars, sessionVars, poolVars>>

-----------------------------------------------------------------------------
(* Connections, as clients of the pool see them.  The operators named        *)
(* Mutant... are plausible bugs: no specification uses them.                 *)

Evicted(c) == link[c] \in {"evicted", "stuck"}

\* The client has the connection and the pool has not taken it back
Using(x, c) == lent[x] = c /\ returned[x] = 0 /\ ~Evicted(c)

\* _evict(), with q in the work queue: what is in flight on a handle that is
\* finished never ends
EvictLink(c, q) == [link EXCEPT ![c] = IF @ = "up" /\ q # <<>> THEN "stuck" ELSE "evicted"]

\* connection.query(), by a client or by the pool
Enqueue(c, job) == work' = [work EXCEPT ![c] = Append(@, job)]

\* pool.release(), with q in the work queue: the connection is recycled behind it,
\* or discarded when it is broken or when enough others are idle
Return(x, c, q) ==
    /\ returned' = [returned EXCEPT ![x] = @ + 1]
    /\ \/ /\ Evicted(c)
          /\ work' = [work EXCEPT ![c] = q] /\ UNCHANGED link
       \/ /\ link[c] = "up"
          /\ work' = [work EXCEPT ![c] = Append(q, <<Pool, Release>>)] /\ UNCHANGED link
       \/ /\ ~Evicted(c)
          /\ work' = [work EXCEPT ![c] = q] /\ link' = EvictLink(c, q)
    /\ UNCHANGED available

\* _available.splice(0, 1)
MutantPeek(c) == UNCHANGED available
Take(c) == available' = [available EXCEPT ![c] = @ - 1]

\* The pool lends a connection, or gives up: timeout, or the pool was stopped
Lend(x, c) ==
    /\ promise[x] = "pending"
    /\ available[c] > 0 /\ link[c] = "up"
    /\ Take(c)
    /\ promise' = [promise EXCEPT ![x] = "fulfilled"]
    /\ lent' = [lent EXCEPT ![x] = c]
    /\ UNCHANGED <<returned, link>>

Refuse(x) ==
    /\ promise[x] = "pending"
    /\ promise' = [promise EXCEPT ![x] = "failed"]
    /\ UNCHANGED <<lent, returned, poolVars>>

\* pool.acquire()
MutantKeepLent(x) ==
    /\ promise' = [promise EXCEPT ![x] = "pending"]
    /\ returned' = [returned EXCEPT ![x] = 0]
    /\ UNCHANGED lent

Acquire(x) ==
    /\ promise' = [promise EXCEPT ![x] = "pending"]
    /\ lent' = [lent EXCEPT ![x] = NoConn]
    /\ returned' = [returned EXCEPT ![x] = 0]

\* The borrow timer: it is disarmed when the connection is released
BorrowTimeout(c) ==
    /\ "borrowTimeout" \in Events
    /\ \E x \in Client : Using(x, c)
    /\ link' = EvictLink(c, work[c])
    /\ UNCHANGED <<phase, stage, loanVars, sessionVars, available, work>>

\* The create loop makes a new connection; its name is one nobody refers to
Create(c) ==
    /\ phase \in {"up", "stopping"}
    /\ Evicted(c)
    /\ \A x \in Client : lent[x] # c
    /\ \A job \in Range(work[c]) : link[c] = "stuck" \/ job[1] = Pool
    /\ link' = [link EXCEPT ![c] = "up"]
    /\ available' = [available EXCEPT ![c] = 1]
    /\ work' = [work EXCEPT ![c] = <<>>]
    /\ UNCHANGED <<phase, stage, loanVars, sessionVars>>

-----------------------------------------------------------------------------
(* WebSocket sessions *)

\* release(), and what a message does: both wait for the promise
MutantAheadOfQueries(s) == thens' = [thens EXCEPT ![s] = <<Release>> \o @]
MutantIfAcquired(s) ==
    thens' = [thens EXCEPT ![s] = IF promise[s] = "fulfilled" THEN Append(@, Release) ELSE @]
ThenRelease(s) == thens' = [thens EXCEPT ![s] = Append(@, Release)]

MutantDropEarly(s, m) ==
    thens' = [thens EXCEPT ![s] = IF promise[s] = "pending" THEN @ ELSE Append(@, m)]
ThenQuery(s, m) == thens' = [thens EXCEPT ![s] = Append(@, m)]

\* ws.close()
CloseSocket(s) == socket' = [socket EXCEPT ![s] = IF @ = "open" THEN "closing" ELSE @]

\* Nothing runs any more for the session that had this name
Gone(s) ==
    \/ socket[s] = "none"
    \/ /\ socket[s] = "closed" /\ promise[s] # "pending" /\ thens[s] = <<>>
       /\ \A c \in Conn : link[c] = "stuck" \/ \A job \in Range(work[c]) : job[1] # s

\* The handshake is done: acquire a connection for the session
Upgrade(s) ==
    /\ phase = "up" /\ Gone(s)
    /\ socket' = [socket EXCEPT ![s] = "open"]
    /\ Acquire(s)
    /\ thens' = [thens EXCEPT ![s] = <<>>]
    /\ waiting' = [waiting EXCEPT ![s] = {}]
    /\ UNCHANGED <<phase, stage, poolVars>>

SessionAcquires(s, c) ==
    /\ Lend(s, c)
    /\ UNCHANGED <<phase, stage, sessionVars, work>>

SessionRefused(s) ==
    /\ Refuse(s)
    /\ CloseSocket(s)
    /\ UNCHANGED <<phase, stage, thens, waiting>>

\* A message with a query; one that is not valid is answered at once, which changes
\* nothing here
Receive(s, m) ==
    /\ socket[s] \in {"open", "closing"} /\ m \notin waiting[s]
    /\ waiting' = [waiting EXCEPT ![s] = @ \cup {m}]
    /\ ThenQuery(s, m)
    /\ UNCHANGED <<phase, stage, loanVars, socket, poolVars>>

\* The promise is settled: the next callback chained on it runs.  With no
\* connection it does nothing, the socket is closing.
RunThen(s) ==
    /\ promise[s] \in {"fulfilled", "failed"} /\ thens[s] # <<>>
    /\ thens' = [thens EXCEPT ![s] = Tail(@)]
    /\ \/ promise[s] = "failed" /\ UNCHANGED <<returned, poolVars>>
       \/ /\ promise[s] = "fulfilled" /\ Head(thens[s]) = Release
          /\ Return(s, lent[s], work[lent[s]])
       \/ /\ promise[s] = "fulfilled" /\ Head(thens[s]) # Release
          /\ Enqueue(lent[s], <<s, Head(thens[s])>>)
          /\ UNCHANGED <<returned, available, link>>
    /\ UNCHANGED <<phase, stage, promise, lent, socket, waiting>>

\* "error" on the socket.  ws emits "close" after it, when the socket has closed.
SocketError(s) ==
    /\ "socketError" \in Events /\ socket[s] \in {"open", "closing"}
    /\ socket' = [socket EXCEPT ![s] = "failed"]
    /\ ThenRelease(s)
    /\ UNCHANGED <<phase, stage, loanVars, waiting, poolVars>>

\* "close" on the socket
SocketClosed(s) ==
    /\ socket[s] \in {"open", "closing", "failed"}
    /\ socket' = [socket EXCEPT ![s] = "closed"]
    /\ ThenRelease(s)
    /\ UNCHANGED <<phase, stage, loanVars, waiting, poolVars>>

-----------------------------------------------------------------------------
(* HTTP requests *)

\* A promise nobody handles is rejected: Node ends the process
Unhandled == phase' = "crashed"

Arrive(x) ==
    /\ phase = "up" /\ stage[x] \in {"none", "done"}
    /\ IF x \in Post
       THEN stage' = [stage EXCEPT ![x] = "reading"] /\ UNCHANGED loanVars
       ELSE stage' = [stage EXCEPT ![x] = "acquiring"] /\ Acquire(x)
    /\ UNCHANGED <<phase, sessionVars, poolVars>>

\* The body is in: a payload that is not valid is answered at once
BodyRead(x) ==
    /\ stage[x] = "reading"
    /\ \/ stage' = [stage EXCEPT ![x] = "done"] /\ UNCHANGED loanVars
       \/ stage' = [stage EXCEPT ![x] = "acquiring"] /\ phase # "stopped" /\ Acquire(x)
    /\ UNCHANGED <<phase, sessionVars, poolVars>>

\* The client has gone before the body was in
BodyFails(x) ==
    /\ stage[x] = "reading"
    /\ Unhandled
    /\ UNCHANGED <<stage, loanVars, sessionVars, poolVars>>

RequestAcquires(x, c) ==
    /\ Lend(x, c)
    /\ Enqueue(c, <<x, Release>>)
    /\ stage' = [stage EXCEPT ![x] = "querying"]
    /\ UNCHANGED <<phase, sessionVars>>

\* A query is answered with an error; a health check handles none
RequestRefused(x) ==
    /\ Refuse(x)
    /\ stage' = [stage EXCEPT ![x] = "done"]
    /\ IF x \in Post THEN UNCHANGED phase ELSE Unhandled
    /\ UNCHANGED sessionVars

-----------------------------------------------------------------------------
(* The work queue of a connection *)

\* A query may break the connection, which refuses the ones behind
Break(c) ==
    \/ UNCHANGED link
    \/ /\ "queryFails" \in Events /\ link[c] = "up"
       /\ link' = [link EXCEPT ![c] = "broken"]

\* An answer may fail to be sent
MutantReleaseToo(s) == CloseSocket(s) /\ ThenRelease(s)
OnSendError(s) == CloseSocket(s) /\ UNCHANGED thens

SendAnswer(s, m) ==
    /\ waiting' = [waiting EXCEPT ![s] = @ \ {m}]
    /\ \/ UNCHANGED <<socket, thens>>
       \/ "sendFails" \in Events /\ socket[s] = "open" /\ OnSendError(s)

SessionQueryEnds(c) ==
    /\ work[c] # <<>> /\ link[c] # "stuck" /\ Head(work[c])[1] \in Session
    /\ work' = [work EXCEPT ![c] = Tail(@)]
    /\ Break(c)
    /\ SendAnswer(Head(work[c])[1], Head(work[c])[2])
    /\ UNCHANGED <<phase, stage, loanVars, available>>

\* The "finally" of a request releases the connection; a health check whose query
\* has failed is answered by nobody.
RequestQueryEnds(c) ==
    /\ work[c] # <<>> /\ link[c] # "stuck" /\ Head(work[c])[1] \in Request
    /\ LET x == Head(work[c])[1]
       IN  /\ stage' = [stage EXCEPT ![x] = "done"]
           /\ Return(x, c, Tail(work[c]))
           /\ \/ UNCHANGED phase
              \/ "queryFails" \in Events /\ x \in Check /\ Unhandled
    /\ UNCHANGED <<promise, lent, sessionVars>>

\* _recycle() is done
RecycleEnds(c) ==
    /\ work[c] # <<>> /\ link[c] # "stuck" /\ Head(work[c])[1] = Pool
    /\ work' = [work EXCEPT ![c] = Tail(@)]
    /\ \/ link[c] = "up" /\ available' = [available EXCEPT ![c] = @ + 1] /\ UNCHANGED link
       \/ /\ link[c] # "up" \/ "queryFails" \in Events
          /\ link' = [link EXCEPT ![c] = "evicted"] /\ UNCHANGED available
    /\ UNCHANGED <<phase, stage, loanVars, sessionVars>>

-----------------------------------------------------------------------------
(* stop() *)

Stop ==
    /\ "stop" \in Events /\ phase = "up"
    /\ phase' = "stopping"
    /\ UNCHANGED <<stage, loanVars, sessionVars, poolVars>>

\* All sockets have closed: "close" of the HTTP server stops the pool
PoolStops ==
    /\ phase = "stopping" /\ \A s \in Session : socket[s] \in {"none", "closed"}
    /\ phase' = "stopped"
    /\ available' = [c \in Conn |-> 0]
    /\ link' = [c \in Conn |-> EvictLink(c, work[c])[c]]
    /\ UNCHANGED <<stage, loanVars, sessionVars, work>>

-----------------------------------------------------------------------------

Init ==
    /\ phase = "up"
    /\ socket = [s \in Session |-> "none"]
    /\ stage = [x \in Request |-> "none"]
    /\ promise = [x \in Client |-> "none"]
    /\ lent = [x \in Client |-> NoConn]
    /\ returned = [x \in Client |-> 0]
    /\ thens = [s \in Session |-> <<>>]
    /\ waiting = [s \in Session |-> {}]
    /\ available = [c \in Conn |-> 1]
    /\ link = [c \in Conn |-> "up"]
    /\ work = [c \in Conn |-> <<>>]

Acquisition(x) ==
    \/ x \in Session /\ ((\E c \in Conn : SessionAcquires(x, c)) \/ SessionRefused(x))
    \/ x \in Request /\ ((\E c \in Conn : RequestAcquires(x, c)) \/ RequestRefused(x))

JobEnds(c) == SessionQueryEnds(c) \/ RequestQueryEnds(c) \/ RecycleEnds(c)

Next ==
    /\ phase # "crashed"
    /\ \/ \E s \in Session :
             \/ Upgrade(s) \/ RunThen(s) \/ SocketError(s) \/ SocketClosed(s)
             \/ \E m \in Message : Receive(s, m)
       \/ \E x \in Request : Arrive(x) \/ BodyRead(x) \/ BodyFails(x)
       \/ \E x \in Client : Acquisition(x)
       \/ \E c \in Conn : JobEnds(c) \/ BorrowTimeout(c) \/ Create(c)
       \/ Stop \/ PoolStops

Spec == Init /\ [][Next]_vars

\* Microtasks run, an acquisition is settled (it has a timer), and the database
\* answers on handles that are not finished
Fairness ==
    /\ \A s \in Session : WF_vars(RunThen(s))
    /\ \A x \in Client : WF_vars(Acquisition(x))
    /\ \A c \in Conn : WF_vars(JobEnds(c))

FairSpec == Spec /\ Fairness

-----------------------------------------------------------------------------
(* Correctness *)

TypeOK ==
    /\ phase \in {"up", "stopping", "stopped", "crashed"}
    /\ socket \in [Session -> {"none", "open", "closing", "failed", "closed"}]
    /\ stage \in [Request -> {"none", "reading", "acquiring", "querying", "done"}]
    /\ promise \in [Client -> {"none", "pending", "fulfilled", "failed"}]
    /\ lent \in [Client -> Conn \cup {NoConn}]
    /\ \A x \in Client : promise[x] = "fulfilled" <=> lent[x] # NoConn
    /\ returned \in [Client -> Nat]
    /\ thens \in [Session -> Seq(Message \cup {Release})]
    /\ waiting \in [Session -> SUBSET Message]
    /\ available \in [Conn -> Nat]
    /\ link \in [Conn -> {"up", "broken", "evicted", "stuck"}]
    /\ work \in [Conn -> Seq((Client \cup {Pool}) \X (Message \cup {Release}))]

\* The pool puts a connection back each time it is released, so a client must
\* release what it was lent once, and nothing it was not lent.
ReleasedOnce ==
    \A x \in Client : returned[x] <= IF promise[x] = "fulfilled" THEN 1 ELSE 0

\* "Transactions can be safely executed" in a session: nobody else has its connection
Exclusive ==
    \A c \in Conn : \A x, y \in Client : Using(x, c) /\ Using(y, c) => x = y

\* No two clients ever have queries on the same connection, and none of theirs runs
\* after it was recycled: sessions that wait for their connection, send queries and
\* close at any time do not reach into the session that has it next.
Isolated ==
    \A c \in Conn : \A i \in DOMAIN work[c] :
        /\ work[c][i][1] = Pool => i = Len(work[c])
        /\ \A x \in Client : Using(x, c) => work[c][i][1] = x
        /\ available[c] = 0 \/ Evicted(c)

\* A session ends with its connection given back, also one that has closed before
\* the pool lent it any, and a request does whatever its query ends with.
GivenBack ==
    /\ \A s \in Session :
          socket[s] = "closed" ~> \/ promise[s] = "failed" \/ socket[s] # "closed"
                                 \/ returned[s] > 0 \/ phase = "crashed"
    /\ \A x \in Request :
          stage[x] = "acquiring" ~> \/ stage[x] = "done" \/ phase = "crashed"
                                   \/ (stage[x] = "querying" /\ link[lent[x]] = "stuck")

\* A message is answered while its socket is open, unless the pool has destroyed
\* the connection under a query.
MessagesAnswered ==
    \A s \in Session, m \in Message :
        m \in waiting[s] ~>
            \/ m \notin waiting[s] \/ socket[s] # "open" \/ phase = "crashed"
            \/ lent[s] # NoConn /\ Evicted(lent[s])

Loans == { xc \in Client \X Conn : Using(xc[1], xc[2]) }

Lending == INSTANCE ConnectionLending WITH
    Req <- Client, Capacity <- Cardinality(Conn), out <- Loans,
    request <- [x \in Client |-> IF promise[x] = "fulfilled" THEN "resolved"
                                 ELSE IF promise[x] = "failed" THEN "rejected"
                                 ELSE promise[x]]

\* The way the server uses it, a connection is lent to one client at a time
LentToOne == Lending!Spec

=============================================================================
