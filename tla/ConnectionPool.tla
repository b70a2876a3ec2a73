--------------------------- MODULE ConnectionPool ---------------------------
(***************************************************************************)
(* The connection pool of workspaces/pool/src/pool.ts.                     *)
(*                                                                         *)
(* The pool is one JavaScript object driven by one thread.  A handler runs *)
(* to completion, up to its next "await"; then another handler may run.    *)
(* What is concurrent are the handlers suspended at an "await": any number *)
(* of create loops, borrow loops and release handlers, each holding values *)
(* it read before it was suspended.  They are the state below:             *)
(*                                                                         *)
(*   createJobs, borrowJobs, queued   scheduled, not yet run (microtasks)  *)
(*   creating                         create loops awaiting connect()      *)
(*   sleeping                         create loops awaiting the retry timer*)
(*   validating                       borrow loops awaiting _validate()    *)
(*   recycling                        release handlers awaiting _recycle() *)
(*   running                          the loop that has the thread between *)
(*                                    two iterations with no "await"       *)
(*                                                                         *)
(* Microtasks run before any timer or network event (Idle); clients run at *)
(* any point where no handler has the thread (Free).                       *)
(***************************************************************************)
EXTENDS Naturals, Sequences, FiniteSets, Functions

CONSTANTS
    Conn,         \* connections that can exist at once
    Req,          \* acquisitions that can be outstanding at once
    NoConn,       \* not a connection
    MinSize,      \* _minimumPoolSize
    MaxSize,      \* _maximumPoolSize
    MaxIdle,      \* _maximumIdleConnections
    Releases,     \* the number of times a client calls release() on one loan
    Events        \* what the environment may do, a subset of AllEvents

AllEvents == { "createFails", "connectFails", "queryFails", "stop",
               "acquireTimeout", "borrowTimeout",
               "destroyBorrowed", "destroyIdle" }

\* The assertions of the constructor
ASSUME SizesAssumption ==
    /\ MinSize \in Nat /\ MaxSize \in Nat \ {0} /\ MaxIdle \in Nat
    /\ MinSize <= MaxSize /\ MinSize <= MaxIdle /\ MaxIdle <= MaxSize

ASSUME ConnAssumption == NoConn \notin Conn

ASSUME ClientAssumption == Releases \in Nat \ {0} /\ Events \subseteq AllEvents

VARIABLES
    phase,        \* "stopped", "starting" or "started" (_starting, _started)
    initial,      \* the connection start() has created and not adopted yet
    connections,  \* _connections: the adopted connections
    available,    \* _available
    borrowed,     \* the keys of _borrowed
    evicted,      \* _evicted
    borrowTimer,  \* connections with the timer stored in _borrowed armed
    strayTimer,   \* number of armed timers no longer stored in _borrowed
    link,         \* the life cycle of each connection
    pending,      \* _pending
    request,      \* the state of each ConnectionRequest
    createJobs, creating, sleeping,
    borrowJobs, validating,
    queued, recycling,
    running,
    loan,         \* the connection a client got, until it has forgotten it
    calls         \* number of times the client called release() on it

lifecycleVars == <<phase, initial>>
timerVars == <<borrowTimer, strayTimer>>
ownedVars == <<connections, borrowed, evicted, timerVars, link>>
poolVars == <<available, ownedVars>>
requestVars == <<pending, request>>
createVars == <<createJobs, creating, sleeping>>
borrowVars == <<borrowJobs, validating>>
releaseVars == <<queued, recycling>>
clientVars == <<loan, calls>>
taskVars == <<createVars, borrowVars, releaseVars, running>>
vars == <<lifecycleVars, poolVars, requestVars, taskVars, clientVars>>

-----------------------------------------------------------------------------
(* What a handler reads *)

Started == phase = "started"

Connected(c) == link[c] = "up"

Free == running = "none"

Idle == Free /\ createJobs = 0 /\ borrowJobs = 0 /\ \A c \in Conn : queued[c] = 0

\* A client has the connection and has not called release() yet
Holding(r) == loan[r] # NoConn /\ calls[r] = 0

OnLoan == { loan[r] : r \in { q \in Req : Holding(q) } }

\* Nothing refers to the object: its name can stand for a new one
Unreachable(c) ==
    /\ c \notin connections \cup creating \cup Range(available) \cup {initial}
    /\ \A r \in Req : loan[r] # c /\ <<r, c>> \notin validating
    /\ queued[c] = 0 /\ recycling[c] = 0

RequestUnreachable(r) ==
    /\ r \notin Range(pending) /\ \A c \in Conn : <<r, c>> \notin validating
    /\ request[r] # "pending" /\ ~Holding(r)

\* What is before the first occurrence of c: array.splice(array.indexOf(c))
Before(s, c) ==
    SubSeq(s, 1, Cardinality({ i \in DOMAIN s : \A j \in 1..i : s[j] # c }))

-----------------------------------------------------------------------------
(* What handlers do together.  The operators named Mutant... are plausible     *)
(* bugs: no specification uses them.                                         *)

\* connection.destroy() on some connections
MutantNotClosed(cs) == link
Closed(cs) == [c \in Conn |-> IF c \in cs THEN "down" ELSE link[c]]

\* _available.splice(0, 1)
MutantPeekAvailable == UNCHANGED available
TakeAvailable == available' = Tail(available)

\* _available.push()
MutantPutBackIfRoom(idle, c) == IF Len(idle) < MaxIdle THEN Append(idle, c) ELSE idle
PutBack(idle, c) == Append(idle, c)

\* _pending.unshift(), of a request that has not timed out
MutantForget(r) == UNCHANGED pending
Requeue(r) == pending' = IF request[r] = "pending" THEN <<r>> \o pending ELSE pending

\* clearTimeout(_borrowed.get(c))
MutantKeepTimer(c) == UNCHANGED borrowTimer
DisarmTimer(c) == borrowTimer' = borrowTimer \ {c}

\* _evict(): "idle" is the available array as the caller has left it.  A
\* connection the pool does not own is left alone.
Evict(c, idle) ==
    IF c \in connections
    THEN /\ connections' = connections \ {c}
         /\ available' = Before(idle, c)
         /\ borrowed' = borrowed \ {c}
         /\ evicted' = evicted \cup {c}
         /\ borrowTimer' = borrowTimer \ {c}
         /\ strayTimer' = [strayTimer EXCEPT ![c] = 0] \* firing, they do nothing
         /\ link' = Closed({c})
    ELSE /\ available' = idle
         /\ UNCHANGED <<ownedVars>>

\* _create(): a new connection, which starts connecting
Create(c) ==
    /\ Unreachable(c)
    /\ evicted' = evicted \ {c}
    /\ link' = [link EXCEPT ![c] = "connecting"]

\* _runCreateLoop() and _runBorrowLoop() schedule nothing in a stopped pool
MutantRunNothing == UNCHANGED createJobs
RunCreateLoop == createJobs' = IF Started THEN createJobs + 1 ELSE createJobs

MutantBorrowNothing == UNCHANGED borrowJobs
RunBorrowLoop == borrowJobs' = IF Started THEN borrowJobs + 1 ELSE borrowJobs

\* Reject every pending request of a set, as "reject" does
Rejected(rs) == [r \in Req |-> IF r \in rs /\ request[r] = "pending"
                               THEN "rejected" ELSE request[r]]

\* The synchronous part of release()
QueueRelease(c) ==
    queued' = IF c \in evicted THEN queued ELSE [queued EXCEPT ![c] = @ + 1]

-----------------------------------------------------------------------------
(* start() and stop() *)

\* start(): a connection is created, but not adopted, and connects
Start(c) ==
    /\ Free /\ phase = "stopped"
    /\ Create(c)
    /\ phase' = "starting"
    /\ initial' = c
    /\ UNCHANGED <<connections, available, borrowed, timerVars, requestVars,
                   taskVars, clientVars>>

\* The catch block of start(): the requests are rejected and stay in _pending
StartFailed ==
    /\ phase' = "stopped"
    /\ initial' = NoConn
    /\ request' = Rejected(Range(pending))
    /\ UNCHANGED <<connections, available, borrowed, evicted, timerVars,
                   pending, taskVars, clientVars>>

StartConnectFails ==
    /\ Idle /\ phase = "starting"
    /\ "connectFails" \in Events /\ link[initial] = "connecting"
    /\ link' = [link EXCEPT ![initial] = "down"]
    /\ StartFailed

StartConnects ==
    /\ Idle /\ phase = "starting" /\ link[initial] = "connecting"
    /\ link' = [link EXCEPT ![initial] = "up"]
    /\ UNCHANGED <<lifecycleVars, connections, available, borrowed, evicted,
                   timerVars, requestVars, taskVars, clientVars>>

\* The query fails, closing the connection or not: nothing else closes it
StartValidationFails ==
    /\ Idle /\ phase = "starting" /\ Connected(initial)
    /\ "queryFails" \in Events
    /\ \E l \in {"up", "down"} : link' = [link EXCEPT ![initial] = l]
    /\ StartFailed

StartSucceeds ==
    /\ Idle /\ phase = "starting" /\ Connected(initial)
    /\ phase' = "started"
    /\ initial' = NoConn
    /\ IF MaxIdle > 0
       THEN /\ connections' = connections \cup {initial}
            /\ available' = PutBack(available, initial)
            /\ UNCHANGED <<evicted, link>>
       ELSE /\ evicted' = evicted \cup {initial}
            /\ link' = Closed({initial})
            /\ UNCHANGED <<connections, available>>
    /\ IF pending # <<>>
       THEN borrowJobs' = borrowJobs + 1 /\ UNCHANGED createJobs
       ELSE createJobs' = createJobs + 1 /\ UNCHANGED borrowJobs
    /\ UNCHANGED <<borrowed, timerVars, requestVars, creating, sleeping,
                   validating, releaseVars, running, clientVars>>

\* stop(): every adopted connection is evicted by its "stopped" listener; the
\* rejected requests stay in _pending, and suspended handlers stay suspended
Stop ==
    /\ Free /\ Started /\ "stop" \in Events
    /\ phase' = "stopped"
    /\ request' = Rejected(Range(pending))
    /\ available' = <<>>
    /\ borrowed' = {}
    /\ connections' = {}
    /\ evicted' = evicted \cup connections
    /\ borrowTimer' = {}
    /\ strayTimer' = [c \in Conn |-> 0]
    /\ link' = Closed(connections)
    /\ UNCHANGED <<initial, pending, taskVars, clientVars>>

-----------------------------------------------------------------------------
(* _runCreateLoop() *)

\* An iteration of the loop starts: first of a new loop, or next of the one
\* that has the thread
MutantUnscheduledLoop ==
    \/ running = "create" /\ UNCHANGED createJobs
    \/ Free /\ createJobs' = createJobs - 1

CreateLoopHead ==
    \/ running = "create" /\ UNCHANGED createJobs
    \/ Free /\ createJobs > 0 /\ createJobs' = createJobs - 1

MutantNoMaximum ==
    \/ Len(available) > 0 /\ Cardinality(connections) >= MinSize
    \/ Len(pending) = 0 /\ Len(available) >= MaxIdle

EnoughConnections ==
    \/ Len(available) > 0 /\ Cardinality(connections) >= MinSize
    \/ Len(pending) = 0 /\ Len(available) >= MaxIdle
    \/ Cardinality(connections) >= MaxSize

CreateLoopEnds ==
    /\ CreateLoopHead
    /\ ~Started \/ EnoughConnections
    /\ running' = "none"
    /\ UNCHANGED <<lifecycleVars, poolVars, requestVars, creating, sleeping,
                   borrowVars, releaseVars, clientVars>>

\* _create() and _adopt(), suspended in connect()
CreateConnection(c) ==
    /\ CreateLoopHead
    /\ Started /\ ~EnoughConnections
    /\ Create(c)
    /\ connections' = connections \cup {c}
    /\ creating' = creating \cup {c}
    /\ running' = "none"
    /\ UNCHANGED <<lifecycleVars, available, borrowed, timerVars, requestVars,
                   sleeping, borrowVars, releaseVars, clientVars>>

\* _create() throws.  In the model it also does when all of Conn is in use, which
\* bounds the connections that exist at once, closed ones included.
CreateFails ==
    /\ CreateLoopHead
    /\ Started /\ ~EnoughConnections
    /\ "createFails" \in Events \/ \A c \in Conn : ~Unreachable(c)
    /\ sleeping' = TRUE
    /\ running' = "none"
    /\ UNCHANGED <<lifecycleVars, poolVars, requestVars, creating, borrowVars,
                   releaseVars, clientVars>>

\* connect() succeeds: it does only for a connection not destroyed meanwhile.
\* The loop goes on with its next iteration before anything else runs.
ConnectSucceeds(c) ==
    /\ Idle /\ c \in creating /\ link[c] = "connecting"
    /\ creating' = creating \ {c}
    /\ available' = PutBack(available, c)
    /\ link' = [link EXCEPT ![c] = "up"]
    /\ RunBorrowLoop
    /\ running' = "create"
    /\ UNCHANGED <<lifecycleVars, connections, borrowed, evicted, timerVars,
                   requestVars, createJobs, sleeping, validating, releaseVars,
                   clientVars>>

\* connect() throws: the server refused, or the connection was destroyed
ConnectFails(c) ==
    /\ Idle /\ c \in creating
    /\ "connectFails" \in Events \/ link[c] = "down"
    /\ creating' = creating \ {c}
    /\ Evict(c, available)
    /\ sleeping' = TRUE
    /\ UNCHANGED <<lifecycleVars, requestVars, createJobs, borrowVars,
                   releaseVars, running, clientVars>>

\* The retry timer of a loop fires; other loops may still be sleeping
RetryTimer ==
    /\ Idle /\ sleeping
    /\ sleeping' \in BOOLEAN
    /\ createJobs' = createJobs + 1
    /\ UNCHANGED <<lifecycleVars, poolVars, requestVars, creating, borrowVars,
                   releaseVars, running, clientVars>>

-----------------------------------------------------------------------------
(* _runBorrowLoop() *)

BorrowLoopHead ==
    \/ running = "borrow" /\ UNCHANGED borrowJobs
    \/ Free /\ borrowJobs > 0 /\ borrowJobs' = borrowJobs - 1

BorrowLoopEnds ==
    /\ BorrowLoopHead
    /\ ~Started \/ pending = <<>>
    /\ running' = "none"
    /\ UNCHANGED <<lifecycleVars, poolVars, requestVars, createVars, validating,
                   releaseVars, clientVars>>

\* No connection is available: a pending request goes back to the front, one
\* that has timed out is dropped, and the create loop is to run
NoneAvailable ==
    /\ BorrowLoopHead
    /\ Started /\ pending # <<>> /\ available = <<>>
    /\ pending' = IF request[Head(pending)] = "pending" THEN pending ELSE Tail(pending)
    /\ RunCreateLoop
    /\ running' = "none"
    /\ UNCHANGED <<lifecycleVars, poolVars, request, creating, sleeping,
                   validating, releaseVars, clientVars>>

\* The request has timed out: its connection goes back to the end of the array
SkipExpired ==
    /\ BorrowLoopHead
    /\ Started /\ pending # <<>> /\ available # <<>>
    /\ request[Head(pending)] # "pending"
    /\ pending' = Tail(pending)
    /\ IF Len(Tail(available)) >= MaxIdle
       THEN Evict(Head(available), Tail(available))
       ELSE /\ available' = PutBack(Tail(available), Head(available))
            /\ UNCHANGED <<ownedVars>>
    /\ running' = "borrow"
    /\ UNCHANGED <<lifecycleVars, request, createVars, validating, releaseVars,
                   clientVars>>

Validate ==
    /\ BorrowLoopHead
    /\ Started /\ pending # <<>> /\ available # <<>>
    /\ request[Head(pending)] = "pending"
    /\ pending' = Tail(pending)
    /\ TakeAvailable
    /\ validating' = validating \cup { <<Head(pending), Head(available)>> }
    /\ running' = "none"
    /\ UNCHANGED <<lifecycleVars, ownedVars, request, createVars, releaseVars,
                   clientVars>>

\* The loop resumes after _validate(); "ok" is what that returned
Validated(r, c, ok) ==
    /\ IF Connected(c) THEN Idle /\ (ok \/ "queryFails" \in Events) ELSE Free /\ ~ok
    /\ <<r, c>> \in validating
    /\ validating' = validating \ {<<r, c>>}

\* The pool has been stopped while validating
ValidatedStopped(r, c, ok) ==
    /\ Validated(r, c, ok)
    /\ ~Started
    /\ request' = Rejected({r})
    /\ UNCHANGED <<lifecycleVars, poolVars, pending, createVars, borrowJobs,
                   releaseVars, running, clientVars>>

ValidationFailed(r, c) ==
    /\ Validated(r, c, FALSE)
    /\ Started
    /\ Requeue(r)
    /\ Evict(c, available)
    /\ running' = "borrow"
    /\ UNCHANGED <<lifecycleVars, request, createVars, borrowJobs, releaseVars,
                   clientVars>>

\* The request has timed out while validating: release() the connection
ValidatedTooLate(r, c) ==
    /\ Validated(r, c, TRUE)
    /\ Started /\ request[r] # "pending"
    /\ QueueRelease(c)
    /\ running' = "borrow"
    /\ UNCHANGED <<lifecycleVars, poolVars, requestVars, createVars, borrowJobs,
                   recycling, clientVars>>

\* The connection is lent.  A timer already stored for it is lost, not cleared.
Lend(r, c) ==
    /\ Validated(r, c, TRUE)
    /\ Started /\ request[r] = "pending"
    /\ strayTimer' = [strayTimer EXCEPT ![c] = IF c \in borrowTimer THEN @ + 1 ELSE @]
    /\ borrowTimer' = borrowTimer \cup {c}
    /\ borrowed' = borrowed \cup {c}
    /\ request' = [request EXCEPT ![r] = "resolved"]
    /\ loan' = [loan EXCEPT ![r] = c]
    /\ running' = "borrow"
    /\ UNCHANGED <<lifecycleVars, connections, available, evicted, link,
                   pending, createVars, borrowJobs, releaseVars, calls>>

\* The timer of a loan fires: the connection is evicted, and no loop is run
BorrowTimeout(c) ==
    /\ Idle /\ "borrowTimeout" \in Events
    /\ c \in borrowTimer \/ strayTimer[c] > 0
    /\ Evict(c, available)
    /\ UNCHANGED <<lifecycleVars, requestVars, taskVars, clientVars>>

-----------------------------------------------------------------------------
(* acquire(), release() and the rest of what clients do *)

Acquire(r) ==
    /\ Free /\ phase # "stopped"
    /\ RequestUnreachable(r)
    /\ request' = [request EXCEPT ![r] = "pending"]
    /\ pending' = Append(pending, r)
    /\ loan' = [loan EXCEPT ![r] = NoConn]
    /\ calls' = [calls EXCEPT ![r] = 0]
    /\ RunBorrowLoop
    /\ UNCHANGED <<lifecycleVars, poolVars, createVars, validating, releaseVars,
                   running>>

\* The timer of a ConnectionRequest fires; the request stays where it is
AcquireTimeout(r) ==
    /\ Idle /\ "acquireTimeout" \in Events
    /\ request[r] = "pending"
    /\ request' = Rejected({r})
    /\ UNCHANGED <<lifecycleVars, poolVars, pending, taskVars, clientVars>>

Release(r) ==
    /\ Free
    /\ loan[r] # NoConn
    /\ QueueRelease(loan[r])
    /\ IF calls[r] + 1 < Releases
       THEN calls' = [calls EXCEPT ![r] = @ + 1] /\ UNCHANGED loan
       ELSE calls' = [calls EXCEPT ![r] = 0] /\ loan' = [loan EXCEPT ![r] = NoConn]
    /\ UNCHANGED <<lifecycleVars, poolVars, requestVars, createVars, borrowVars,
                   recycling, running>>

\* The handler that release() has scheduled
ReleaseHandler(c) ==
    /\ Free /\ queued[c] > 0
    /\ queued' = [queued EXCEPT ![c] = @ - 1]
    /\ IF ~Connected(c) \/ Len(available) >= MaxIdle
       THEN /\ Evict(c, available)
            /\ RunBorrowLoop
            /\ UNCHANGED recycling
       ELSE /\ DisarmTimer(c)
            /\ recycling' = [recycling EXCEPT ![c] = @ + 1]
            /\ UNCHANGED <<connections, available, borrowed, evicted,
                           strayTimer, link, borrowJobs>>
    /\ UNCHANGED <<lifecycleVars, requestVars, createVars, validating, running,
                   clientVars>>

\* The handler resumes after _recycle(), which fails on a closed connection
Recycled(c) ==
    /\ Idle /\ recycling[c] > 0 /\ Connected(c)
    /\ recycling' = [recycling EXCEPT ![c] = @ - 1]
    /\ borrowed' = borrowed \ {c}
    /\ available' = PutBack(available, c)
    /\ RunBorrowLoop
    /\ UNCHANGED <<lifecycleVars, connections, evicted, timerVars, link,
                   requestVars, createVars, validating, queued, running,
                   clientVars>>

RecycleFails(c) ==
    /\ Idle /\ recycling[c] > 0
    /\ "queryFails" \in Events \/ ~Connected(c)
    /\ recycling' = [recycling EXCEPT ![c] = @ - 1]
    /\ Evict(c, available)
    /\ RunBorrowLoop
    /\ UNCHANGED <<lifecycleVars, requestVars, createVars, validating, queued,
                   running, clientVars>>

\* A query of the client fails and finishes the connection: Connection emits
\* "error", never "destroyed", and the pool does not know
ClientQueryFails(r) ==
    /\ Idle /\ "queryFails" \in Events
    /\ Holding(r) /\ Connected(loan[r])
    /\ link' = [link EXCEPT ![loan[r]] = "down"]
    /\ UNCHANGED <<lifecycleVars, connections, available, borrowed, evicted,
                   timerVars, requestVars, taskVars, clientVars>>

\* connection.destroy() called by a client, or on an idle connection: the
\* "destroyed" event reaches the evictor
Destroy(c) ==
    /\ Free /\ Connected(c) /\ c \in connections
    /\ \/ "destroyBorrowed" \in Events /\ c \in OnLoan
       \/ "destroyIdle" \in Events /\ c \in Range(available)
    /\ Evict(c, available)
    /\ RunCreateLoop
    /\ UNCHANGED <<lifecycleVars, requestVars, creating, sleeping, borrowVars,
                   releaseVars, running, clientVars>>

-----------------------------------------------------------------------------

Init ==
    /\ phase = "stopped" /\ initial = NoConn
    /\ connections = {} /\ available = <<>> /\ borrowed = {} /\ evicted = {}
    /\ borrowTimer = {} /\ strayTimer = [c \in Conn |-> 0]
    /\ link = [c \in Conn |-> "none"]
    /\ pending = <<>> /\ request = [r \in Req |-> "none"]
    /\ createJobs = 0 /\ creating = {} /\ sleeping = FALSE
    /\ borrowJobs = 0 /\ validating = {}
    /\ queued = [c \in Conn |-> 0] /\ recycling = [c \in Conn |-> 0]
    /\ running = "none"
    /\ loan = [r \in Req |-> NoConn] /\ calls = [r \in Req |-> 0]

\* Handlers that run without waiting for anything outside the process
LoopStep ==
    \/ CreateLoopEnds \/ (\E c \in Conn : CreateConnection(c)) \/ CreateFails
    \/ BorrowLoopEnds \/ NoneAvailable \/ SkipExpired \/ Validate
    \/ \E c \in Conn : ReleaseHandler(c)

Next ==
    \/ \E c \in Conn : Start(c)
    \/ StartConnectFails \/ StartConnects \/ StartValidationFails \/ StartSucceeds
    \/ Stop
    \/ LoopStep
    \/ \E c \in Conn : ConnectSucceeds(c) \/ ConnectFails(c)
    \/ RetryTimer
    \/ \E r \in Req, c \in Conn :
          \/ \E ok \in BOOLEAN : ValidatedStopped(r, c, ok)
          \/ ValidationFailed(r, c) \/ ValidatedTooLate(r, c) \/ Lend(r, c)
    \/ \E c \in Conn : BorrowTimeout(c)
    \/ \E r \in Req : Acquire(r) \/ AcquireTimeout(r) \/ Release(r)
    \/ \E c \in Conn : Recycled(c) \/ RecycleFails(c)
    \/ \E r \in Req : ClientQueryFails(r)
    \/ \E c \in Conn : Destroy(c)

Spec == Init /\ [][Next]_vars

\* What libpq owes a handler waiting for an open connection
Answered(c) ==
    \/ ConnectSucceeds(c) \/ ConnectFails(c) \/ Recycled(c) \/ RecycleFails(c)
    \/ \E r \in Req : ValidationFailed(r, c) \/ ValidatedTooLate(r, c) \/ Lend(r, c)

\* Node runs every microtask and timer; libpq answers as long as the connection
\* is open (a query on one destroyed meanwhile may never settle); the server
\* does not fail for ever; clients give connections back.  The fairness is
\* strong because events wait, again and again, for microtasks to finish.
Fairness ==
    /\ WF_vars(LoopStep) /\ SF_vars(RetryTimer)
    /\ SF_vars(StartConnects \/ StartConnectFails \/ StartSucceeds \/ StartValidationFails)
    /\ \A c \in Conn : SF_vars(Connected(c) /\ Answered(c))
    /\ SF_vars(\E c \in Conn : ConnectSucceeds(c))
    /\ \A r \in Req : SF_vars(\E c \in Conn : Lend(r, c)) /\ SF_vars(Release(r))

FairSpec == Spec /\ Fairness

-----------------------------------------------------------------------------
(* Correctness *)

Links == {"none", "connecting", "up", "down"}
RequestStates == {"none", "pending", "resolved", "rejected"}

TypeOK ==
    /\ phase \in {"stopped", "starting", "started"}
    /\ initial \in IF phase = "starting" THEN Conn ELSE {NoConn}
    /\ connections \subseteq Conn /\ borrowed \subseteq Conn
    /\ evicted \subseteq Conn /\ borrowTimer \subseteq Conn
    /\ available \in Seq(Conn)
    /\ strayTimer \in [Conn -> Nat]
    /\ link \in [Conn -> Links]
    /\ pending \in Seq(Req)
    /\ request \in [Req -> RequestStates]
    /\ createJobs \in Nat /\ creating \subseteq Conn /\ sleeping \in BOOLEAN
    /\ borrowJobs \in Nat /\ validating \subseteq Req \X Conn
    /\ queued \in [Conn -> Nat] /\ recycling \in [Conn -> Nat]
    /\ running \in {"none", "create", "borrow"}
    /\ loan \in [Req -> Conn \cup {NoConn}] /\ calls \in [Req -> 0..(Releases - 1)]

\* The pool never owns more than maximumPoolSize connections, however many
\* create loops are suspended in connect(): the check and the adoption happen
\* with no "await" between them, and start() adopts into an empty pool.
PoolSizeBounded ==
    /\ Cardinality(connections) <= MaxSize
    /\ ~Started => connections = {}

\* The number of places an adopted connection is in: the idle array, a loop
\* connecting or validating it, a release in progress, a client holding it
Places(c) ==
    Cardinality({ i \in DOMAIN available : available[i] = c })
    + (IF c \in creating THEN 1 ELSE 0)
    + Cardinality({ v \in validating : v[2] = c })
    + queued[c] + recycling[c]
    + Cardinality({ r \in Req : Holding(r) /\ loan[r] = c })

\* A connection is never in two places: not lent to two clients, not idle or
\* being validated while a client holds it, not recycled twice at once.
OnePlaceAtMost == \A c \in connections : Places(c) <= 1

\* No connection is lost: one that counts against maximumPoolSize is idle, out,
\* or in the hands of a handler that will put it back or evict it.
NoOrphans == \A c \in connections : Places(c) >= 1

\* An evicted connection is closed and never comes back, from any handler that
\* held it while it was evicted; a stopped pool has nothing open but what
\* start() is trying, and nothing still connecting.
NoZombies ==
    /\ Range(available) \cup borrowed \cup borrowTimer \subseteq connections
    /\ \A c \in connections : c \notin evicted
    /\ \A c \in evicted : link[c] = "down"
    /\ \A c \in creating : link[c] = "connecting" => c \in connections
    /\ \A r \in Req : loan[r] # NoConn /\ Connected(loan[r]) => loan[r] \in connections

\* A borrow timer is armed exactly while a client has the connection: it never
\* fires on a connection back in the pool or lent to somebody else, and every
\* loan is watched.
TimersFollowLoans ==
    /\ \A c \in borrowTimer : c \in OnLoan \/ queued[c] > 0
    /\ \A c \in Conn : strayTimer[c] = 0
    /\ OnLoan \cap connections \subseteq borrowTimer

\* A pending request is in exactly one place: once in _pending, or in the hands
\* of one borrow loop.  Put back after a failed validation, rejected by stop(),
\* timed out, it is neither lost nor served twice.
RequestsAccounted ==
    \A r \in Req :
        LET waiting == Cardinality({ i \in DOMAIN pending : pending[i] = r })
                       + Cardinality({ v \in validating : v[1] = r })
        IN waiting <= 1 /\ (request[r] = "pending" => waiting = 1)

WorkInProgress ==
    \/ ~Idle \/ sleeping \/ creating # {} \/ validating # {}
    \/ \E c \in Conn : recycling[c] > 0

\* No lost wake-up: a request waits in a running pool only while some handler
\* is under way that will look at the queue again, or while clients have all
\* the connections the pool may own.
NoLostWakeUp ==
    Started /\ (\E r \in Range(pending) : request[r] = "pending")
        => WorkInProgress \/ Cardinality(OnLoan \cap connections) = MaxSize

\* Without the help of its acquire timer, every request is eventually settled
\* (the pool is not stopped and no borrow timer fires: see NoLostWakeUp).
RequestsSettle == \A r \in Req : request[r] = "pending" ~> request[r] # "pending"

\* The loans in force are those of connections the pool still owns
LoansInForce ==
    { <<r, loan[r]>> : r \in { q \in Req : Holding(q) /\ loan[q] \in connections } }

Lending == INSTANCE ConnectionLending WITH Capacity <- MaxSize, out <- LoansInForce

\* The pool keeps the promise of ConnectionLending
KeepsPromise == Lending!Spec

=============================================================================
