---------------------------- MODULE Transactions ----------------------------
(***************************************************************************)
(* Clients of workspaces/client/src/client.ts and their transactions, over *)
(* the provider of client-psql: a pool whose connections are recycled, and *)
(* used again, with whatever state their PostgreSQL session is in.         *)
(***************************************************************************)
EXTENDS Naturals, Sequences, FiniteSets

CONSTANTS
    User,        \* users of the client at once
    Conn,        \* connections of the pool
    NoConn,
    Calls,       \* queries of a user that can be outstanding at once
    Events       \* what may happen, a subset of AllEvents

\* "unnoticed": a transaction that has written nothing is left to the recycling
AllEvents == {"queryFails", "commitFails", "connectionBreaks", "borrowTimeout", "drop", "unnoticed"}

ASSUME TransactionsAssumption ==
    /\ NoConn \notin Conn /\ "pool" \notin User /\ Calls \in Nat \ {0} /\ Events \subseteq AllEvents

VARIABLES
    mode,     \* what a user is doing: see Modes
    conn,     \* its connection
    flag,     \* _transaction
    told,     \* what it knows of the last write it asked for
    stored,   \* what PostgreSQL has done with that write
    idle,     \* the connections in the pool's _available
    link,     \* "up", "broken", "evicted" or "stuck": evicted under a query
    work,     \* the work queue of a connection: pairs of a user and a statement
    tx        \* the transaction of its session: see Transaction

userVars == <<mode, conn, flag, told>>
sessionVars == <<stored, tx>>
poolVars == <<idle, link, work>>
vars == <<userVars, sessionVars, poolVars>>

\* "leaked": close() has failed, and released nothing; the pool still lends it
Modes == {"none", "query", "connect", "closing", "closed", "leaked"}

\* "begun" has no transaction id yet: PostgreSQL assigns one when it writes
Transaction == {"none", "begun", "writing", "failed"}

Queries == {"read", "write"}
Statements == Queries \cup {"begin", "commit", "rollback"}

-----------------------------------------------------------------------------
(* The provider and its pool.  The operators named Mutant... are plausible   *)
(* bugs: no specification uses them.                                         *)

JobsOf(x, c) == { i \in DOMAIN work[c] : work[c][i][1] = x }

\* The users that have a connection, or should not have it any more
Holders(c) == { x \in User : conn[x] = c /\ mode[x] \in {"query", "connect", "closing", "leaked"} }

\* provider.acquire().  A name stands for another user once nothing is left of the
\* one that had it.
Acquire(x, c) ==
    /\ mode[x] \in {"none", "closed"} /\ \A d \in Conn : JobsOf(x, d) = {}
    /\ c \in idle /\ link[c] = "up"
    /\ idle' = idle \ {c}
    /\ conn' = [conn EXCEPT ![x] = c]
    /\ flag' = [flag EXCEPT ![x] = FALSE]
    /\ told' = [told EXCEPT ![x] = "none"]
    /\ stored' = [stored EXCEPT ![x] = "none"]

\* provider.release(), with q in the work queue and the handle in state l: the
\* connection is recycled behind q, or evicted if it is broken
Release(c, q, l) ==
    /\ work' = [work EXCEPT ![c] = IF l = "up" THEN Append(q, <<"pool", "recycle">>) ELSE q]
    /\ link' = [link EXCEPT ![c] = IF l = "broken" THEN "evicted" ELSE l]

\* The transaction of a session ends
SettleWrites(c, fate) ==
    /\ tx' = [tx EXCEPT ![c] = "none"]
    /\ stored' = [x \in User |-> IF conn[x] = c /\ stored[x] = "pending" THEN fate ELSE stored[x]]

Commit(c) == SettleWrites(c, "committed")
Undo(c) == SettleWrites(c, "none")

\* The timer of the pool: it is disarmed when the connection is released
MutantDisarmedByClose(c) == \E x \in Holders(c) : mode[x] \in {"query", "connect"}
Armed(c) == Holders(c) # {}

BorrowTimeout(c) ==
    /\ "borrowTimeout" \in Events
    /\ link[c] \in {"up", "broken"} /\ Armed(c)
    /\ link' = [link EXCEPT ![c] = IF @ = "up" /\ work[c] # <<>> THEN "stuck" ELSE "evicted"]
    /\ Undo(c)
    /\ mode' = [x \in User |-> IF x \in Holders(c) /\ mode[x] = "leaked" THEN "closed" ELSE mode[x]]
    /\ UNCHANGED <<conn, flag, told, idle, work>>

\* The pool replaces a connection that nobody has, or that nothing happens to any
\* more: those who wait for its queries wait for ever.
Create(c) ==
    /\ link[c] = "stuck" \/ (link[c] = "evicted" /\ work[c] = <<>> /\ Holders(c) = {})
    /\ link' = [link EXCEPT ![c] = "up"]
    /\ work' = [work EXCEPT ![c] = <<>>]
    /\ idle' = idle \cup {c}
    /\ mode' = [x \in User |-> IF x \in Holders(c) THEN "closed" ELSE mode[x]]
    /\ UNCHANGED <<conn, flag, told, sessionVars>>

\* _recycle(): it asks whether the transaction has an id, which fails in a failed
\* transaction and may break the connection
MutantNoRollback(c) == UNCHANGED sessionVars
RollBack(c) == Undo(c)

MutantRegardless(c) == TRUE
Recyclable(c) == link[c] = "up" /\ tx[c] # "failed"

Recycle(c) ==
    /\ work[c] # <<>> /\ Head(work[c])[2] = "recycle" /\ link[c] # "stuck"
    /\ work' = [work EXCEPT ![c] = Tail(@)]
    /\ \/ /\ Recyclable(c)
          /\ idle' = idle \cup {c}
          /\ IF tx[c] = "writing" THEN RollBack(c) ELSE UNCHANGED sessionVars
          /\ UNCHANGED link
       \/ /\ ~Recyclable(c) \/ "connectionBreaks" \in Events
          /\ link' = [link EXCEPT ![c] = "evicted"]
          /\ Undo(c)
          /\ UNCHANGED idle
    /\ UNCHANGED userVars

-----------------------------------------------------------------------------
(* The client *)

Enqueue(c, x, s) == work' = [work EXCEPT ![c] = Append(@, <<x, s>>)]

\* client.query(): acquire, query, release
Query(x, c, s) ==
    /\ Acquire(x, c)
    /\ s \in Queries \/ (s = "begin" /\ "unnoticed" \in Events)
    /\ mode' = [mode EXCEPT ![x] = "query"]
    /\ Enqueue(c, x, s)
    /\ UNCHANGED <<link, tx>>

\* client.connect()
Connect(x, c) ==
    /\ Acquire(x, c)
    /\ mode' = [mode EXCEPT ![x] = "connect"]
    /\ UNCHANGED <<link, work, tx>>

\* Queries may be made without awaiting the ones before; begin(), commit() and
\* rollback() are awaited
MayCall(x, s) ==
    LET jobs == JobsOf(x, conn[x])
    IN  /\ mode[x] = "connect" /\ \A i \in jobs : work[conn[x]][i][2] \in Queries
        /\ IF s \in Queries THEN Cardinality(jobs) < Calls ELSE s = "close" \/ jobs = {}

\* query(), begin(), commit(), rollback(): begin() in a transaction does nothing
Call(x, s) ==
    /\ MayCall(x, s)
    /\ s = "begin" => ~flag[x]
    /\ Enqueue(conn[x], x, s)
    /\ UNCHANGED <<userVars, sessionVars, idle, link>>

\* close(), by the user or at the end of its block
Close(x) ==
    /\ MayCall(x, "close")
    /\ IF flag[x]
       THEN /\ mode' = [mode EXCEPT ![x] = "closing"]
            /\ Enqueue(conn[x], x, "close")
            /\ UNCHANGED link
       ELSE /\ mode' = [mode EXCEPT ![x] = "closed"]
            /\ Release(conn[x], work[conn[x]], link[conn[x]])
    /\ UNCHANGED <<conn, flag, told, sessionVars, idle>>

\* The user is behind a WebSocket that closes: the server releases the connection
Drop(x) ==
    /\ "drop" \in Events /\ mode[x] = "connect"
    /\ "unnoticed" \in Events \/ (JobsOf(x, conn[x]) = {} /\ tx[conn[x]] # "begun")
    /\ mode' = [mode EXCEPT ![x] = "closed"]
    /\ Release(conn[x], work[conn[x]], link[conn[x]])
    /\ UNCHANGED <<conn, flag, told, sessionVars, idle>>

-----------------------------------------------------------------------------
(* PostgreSQL *)

\* In a transaction that has failed only its end is accepted
Accepted(c, s) == tx[c] = "failed" => s \in {"commit", "rollback", "close"}

\* A statement is executed.  COMMIT rolls back a transaction that has failed.
Execute(c, x, s) ==
    \/ s = "begin" /\ tx' = [tx EXCEPT ![c] = IF @ = "none" THEN "begun" ELSE @] /\ UNCHANGED stored
    \/ s = "read" /\ UNCHANGED sessionVars
    \/ /\ s = "write" /\ tx[c] = "none"
       /\ stored' = [stored EXCEPT ![x] = "committed"] /\ UNCHANGED tx
    \/ /\ s = "write" /\ tx[c] # "none"
       /\ stored' = [stored EXCEPT ![x] = "pending"] /\ tx' = [tx EXCEPT ![c] = "writing"]
    \/ s = "commit" /\ tx[c] # "failed" /\ Commit(c)
    \/ s = "commit" /\ tx[c] = "failed" /\ Undo(c)
    \/ s \in {"rollback", "close"} /\ Undo(c)

\* A statement fails, and so does the transaction it is in.  A COMMIT that fails, for
\* a deferred constraint, ends it; ROLLBACK does not fail.
Fail(c, s) ==
    \/ /\ ~Accepted(c, s) \/ ("queryFails" \in Events /\ s \in {"begin", "read", "write"})
       /\ tx' = [tx EXCEPT ![c] = IF @ = "none" THEN "none" ELSE "failed"] /\ UNCHANGED stored
    \/ "commitFails" \in Events /\ s = "commit" /\ tx[c] = "writing" /\ Undo(c)

-----------------------------------------------------------------------------
(* The client resumes after the "await" of a query *)

\* _transaction
MutantForgetBegin(x, s) == flag[x] /\ s \notin {"commit", "rollback"}
MutantKeepFlag(x, s) == s = "begin" \/ flag[x]
FlagAfter(x, s) == s = "begin" \/ (flag[x] /\ s \notin {"commit", "rollback"})

\* A user counts on a write when it has resolved, or the COMMIT after it has; it gives
\* it up with rollback(), and cannot tell once a statement was rejected.
ToldAfter(x, s) ==
    CASE s = "write" -> IF flag[x] THEN "pending" ELSE "committed"
      [] s = "commit" /\ told[x] = "pending" -> "committed"
      [] s = "rollback" /\ told[x] = "pending" -> "none"
      [] OTHER -> told[x]

ToldRejected(x, s) == IF s = "write" \/ told[x] = "pending" THEN "unknown" ELSE told[x]

\* client.query() always releases the connection, close() if its ROLLBACK has resolved
Releases(x, s, ok) == mode[x] = "query" \/ (s = "close" /\ ok)

\* l: the state the query has left the handle in
Resume(c, x, s, ok, l) ==
    /\ flag' = [flag EXCEPT ![x] = IF ok /\ mode[x] = "connect" THEN FlagAfter(x, s) ELSE @]
    /\ told' = [told EXCEPT ![x] = IF ok THEN ToldAfter(x, s) ELSE ToldRejected(x, s)]
    /\ IF Releases(x, s, ok)
       THEN /\ mode' = [mode EXCEPT ![x] = "closed"]
            /\ Release(c, Tail(work[c]), l)
       ELSE /\ mode' = [mode EXCEPT ![x] = IF s # "close" THEN @
                                            ELSE IF l = "evicted" THEN "closed" ELSE "leaked"]
            /\ work' = [work EXCEPT ![c] = Tail(@)]
            /\ link' = [link EXCEPT ![c] = l]
    /\ UNCHANGED <<conn, idle>>

\* The query at the head of a work queue ends
Resolves(c, x, s) ==
    /\ link[c] = "up" /\ Accepted(c, s)
    /\ Execute(c, x, s)
    /\ Resume(c, x, s, TRUE, "up")

Rejects(c, x, s) ==
    /\ link[c] = "up"
    /\ Fail(c, s)
    /\ Resume(c, x, s, FALSE, "up")

\* It breaks before a statement is executed, or after
Breaks(c, x, s) ==
    /\ "connectionBreaks" \in Events /\ link[c] = "up"
    /\ \/ Undo(c)
       \/ s = "commit" /\ tx[c] = "writing" /\ Commit(c)
       \/ s = "write" /\ tx[c] = "none" /\ Execute(c, x, s)
    /\ Resume(c, x, s, FALSE, "broken")

NotConnected(c, x, s) ==
    /\ link[c] \in {"broken", "evicted"}
    /\ UNCHANGED sessionVars
    /\ Resume(c, x, s, FALSE, link[c])

QueryEnds(c) ==
    \E x \in User, s \in Statements \cup {"close"} :
        /\ work[c] # <<>> /\ Head(work[c]) = <<x, s>>
        /\ Resolves(c, x, s) \/ Rejects(c, x, s) \/ Breaks(c, x, s) \/ NotConnected(c, x, s)

-----------------------------------------------------------------------------

Init ==
    /\ mode = [x \in User |-> "none"]
    /\ conn = [x \in User |-> NoConn]
    /\ flag = [x \in User |-> FALSE]
    /\ told = [x \in User |-> "none"]
    /\ stored = [x \in User |-> "none"]
    /\ idle = Conn
    /\ link = [c \in Conn |-> "up"]
    /\ work = [c \in Conn |-> <<>>]
    /\ tx = [c \in Conn |-> "none"]

Next ==
    \/ \E x \in User, c \in Conn : Connect(x, c) \/ \E s \in Statements : Query(x, c, s)
    \/ \E x \in User : Close(x) \/ Drop(x) \/ \E s \in Statements : Call(x, s)
    \/ \E c \in Conn : QueryEnds(c) \/ Recycle(c) \/ BorrowTimeout(c) \/ Create(c)

Spec == Init /\ [][Next]_vars

\* PostgreSQL answers, and the timers of the pool fire
Fairness ==
    \A c \in Conn : WF_vars(QueryEnds(c)) /\ WF_vars(Recycle(c)) /\ WF_vars(BorrowTimeout(c))

FairSpec == Spec /\ Fairness

-----------------------------------------------------------------------------
(* Correctness *)

TypeOK ==
    /\ mode \in [User -> Modes] /\ conn \in [User -> Conn \cup {NoConn}]
    /\ flag \in [User -> BOOLEAN]
    /\ told \in [User -> {"none", "pending", "committed", "unknown"}]
    /\ stored \in [User -> {"none", "pending", "committed"}]
    /\ idle \subseteq { c \in Conn : link[c] = "up" }
    /\ link \in [Conn -> {"up", "broken", "evicted", "stuck"}]
    /\ work \in [Conn -> Seq((User \cup {"pool"}) \X (Statements \cup {"close", "recycle"}))]
    /\ tx \in [Conn -> Transaction]

\* "Recycle a connection rolling back any running transaction": nobody is lent a
\* connection in the transaction of somebody else
CleanHandover == \A c \in idle : tx[c] = "none"

\* A write a user was told of is in the database: it is not in a transaction that
\* somebody else began, and nobody rolls it back
NoLostWrite == \A x \in User : told[x] = "committed" => stored[x] = "committed"

\* What a user has written in a transaction is not committed before it says so, and
\* never once it has rolled back, whatever was rejected before
NothingUnasked == \A x \in User : told[x] \in {"none", "pending"} => stored[x] # "committed"

\* begin() returns "`false` if `begin()` was already called and a transaction was
\* already started": the transaction the client believes in is there
BelievedTransaction ==
    \A x \in User : flag[x] /\ mode[x] = "connect" /\ link[conn[x]] = "up" => tx[conn[x]] # "none"

\* A connection whose user has closed it, or only queried once, comes back or is
\* destroyed: when close() fails, by the timer of the pool.
GivenBack ==
    \A x \in User : mode[x] \in {"query", "closing", "leaked"} ~>
        mode[x] \notin {"query", "closing", "leaked"} \/ link[conn[x]] \in {"evicted", "stuck"}

=============================================================================
