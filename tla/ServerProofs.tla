------------------------------ MODULE ServerProofs ------------------------------
(***************************************************************************)
(* Theorems about Server, for any sessions, requests, connections and      *)
(* messages, and for all events but "socketError" (see Exclusive); and     *)
(* about ServerProcess, for any number of tokens and servers, any clocks   *)
(* of the clients, and any window and retention that satisfy               *)
(* TimeAssumption.                                                         *)
(***************************************************************************)
EXTENDS Server, ServerProcess, FiniteSetTheorems, TLAPS

Links == {"up", "broken", "evicted", "stuck"}
Job == (Client \cup {Pool}) \X (Message \cup {Release})

\* The client has not released what it was lent, evicted or not.
Has(x, c) == lent[x] = c /\ returned[x] = 0

\* A session releases with the last callback it chains, when its socket closes.
SessionInv(s) ==
    /\ socket[s] # "failed"
    /\ \A i \in DOMAIN thens[s] :
          thens[s][i] = Release => i = Len(thens[s]) /\ socket[s] = "closed"
    /\ returned[s] # 0 => /\ returned[s] = 1 /\ promise[s] = "fulfilled"
                          /\ thens[s] = <<>> /\ socket[s] = "closed"

RequestInv(x) == returned[x] # 0 => returned[x] = 1 /\ promise[x] = "fulfilled"

\* A connection is in the hands of one client, whose queries are alone in the work
\* queue, or on its way back, or available and then nothing is in line.  The query
\* of a request is the only one.
Queue(c) ==
    /\ \A i \in DOMAIN work[c] : work[c][i][1] = Pool => i = Len(work[c])
    /\ \A i \in DOMAIN work[c] : \A x \in Request : work[c][i][1] = x =>
          Len(work[c]) = 1 /\ Has(x, c) /\ stage[x] = "querying"
    /\ \A x \in Client : Has(x, c) =>
          /\ \A i \in DOMAIN work[c] : work[c][i][1] = x
          /\ available[c] = 0 \/ Evicted(c)
          /\ \A y \in Client : Has(y, c) => y = x
    /\ work[c] # <<>> => available[c] = 0 \/ Evicted(c)
    /\ available[c] \in {0, 1}

Inv ==
    /\ TypeOK
    /\ \A s \in Session : SessionInv(s)
    /\ \A x \in Request : RequestInv(x)
    /\ \A c \in Conn : Queue(c)

-----------------------------------------------------------------------------
(* Types.                                                                  *)

LEMMA InitInv == Init => Inv
<1> SUFFICES ASSUME Init PROVE Inv
  OBVIOUS
<1>1. TypeOK
  BY NamesAssumption DEF Init, TypeOK, Client
<1>2. \A s \in Session : SessionInv(s)
  BY DEF Init, SessionInv, Client
<1>3. \A x \in Request : RequestInv(x)
  BY DEF Init, RequestInv, Client
<1>4. \A c \in Conn : Queue(c)
  BY NamesAssumption DEF Init, Queue, Has
<1> QED BY <1>1, <1>2, <1>3, <1>4 DEF Inv

LEMMA QueueTypes ==
    ASSUME NEW q \in Seq(Job)
    PROVE  /\ q # <<>> => Head(q) \in Job /\ Tail(q) \in Seq(Job)
           /\ \A x \in Client, m \in Message \cup {Release} : Append(q, <<x, m>>) \in Seq(Job)
           /\ Append(q, <<Pool, Release>>) \in Seq(Job)
BY DEF Job

\* What pool.release() does to the types.
LEMMA ReturnTypes ==
    ASSUME TypeOK, NEW x \in Client, NEW c \in Conn, NEW q \in Seq(Job), Return(x, c, q)
    PROVE  /\ returned' \in [Client -> Nat] /\ available' = available
           /\ work' \in [Conn -> Seq(Job)] /\ link' \in [Conn -> Links]
<1>1. Append(q, <<Pool, Release>>) \in Seq(Job)
  BY QueueTypes
<1>2. work' \in {[work EXCEPT ![c] = q], [work EXCEPT ![c] = Append(q, <<Pool, Release>>)]}
  BY DEF Return
<1>3. work' \in [Conn -> Seq(Job)]
  BY <1>1, <1>2 DEF TypeOK, Job
<1>4. link' \in [Conn -> Links]
  BY DEF Return, TypeOK, Links, EvictLink
<1>5. returned' \in [Client -> Nat] /\ available' = available
  BY DEF Return, TypeOK
<1> QED BY <1>3, <1>4, <1>5

LEMMA SessionTypes ==
    ASSUME TypeOK, NEW s \in Session,
           \/ Upgrade(s) \/ SessionRefused(s) \/ SocketError(s) \/ SocketClosed(s)
           \/ \E m \in Message : Receive(s, m)
    PROVE  TypeOK'
<1> USE DEF TypeOK, loanVars, sessionVars, poolVars, Client
<1>1. CASE Upgrade(s)
  BY <1>1, NamesAssumption DEF Upgrade, Acquire
<1>2. CASE SessionRefused(s)
  BY <1>2 DEF SessionRefused, Refuse, CloseSocket
<1>3. CASE SocketError(s) \/ SocketClosed(s)
  <2>1. Append(thens[s], Release) \in Seq(Message \cup {Release})
    OBVIOUS
  <2>2. thens' \in [Session -> Seq(Message \cup {Release})]
    BY <1>3, <2>1 DEF SocketError, SocketClosed, ThenRelease
  <2> QED BY <1>3, <2>2 DEF SocketError, SocketClosed
<1>4. CASE \E m \in Message : Receive(s, m)
  BY <1>4 DEF Receive, ThenQuery
<1> QED BY <1>1, <1>2, <1>3, <1>4

LEMMA LendTypes ==
    ASSUME TypeOK, NEW x \in Client, NEW c \in Conn, Lend(x, c)
    PROVE  /\ promise' \in [Client -> {"none", "pending", "fulfilled", "failed"}]
           /\ lent' \in [Client -> Conn \cup {NoConn}]
           /\ \A y \in Client : promise'[y] = "fulfilled" <=> lent'[y] # NoConn
           /\ available' \in [Conn -> Nat]
           /\ UNCHANGED <<returned, link>>
BY NamesAssumption DEF TypeOK, Lend, Take

LEMMA RunThenTypes ==
    ASSUME TypeOK, NEW s \in Session, RunThen(s)
    PROVE  TypeOK'
<1> DEFINE c == lent[s]
<1>1. s \in Client /\ thens[s] \in Seq(Message \cup {Release}) /\ thens[s] # <<>>
  BY DEF TypeOK, RunThen, Client
<1>2. Head(thens[s]) \in Message \cup {Release} /\ Tail(thens[s]) \in Seq(Message \cup {Release})
  BY <1>1
<1>3. thens' \in [Session -> Seq(Message \cup {Release})]
  BY <1>2 DEF RunThen, TypeOK
<1>4. /\ returned' \in [Client -> Nat] /\ available' \in [Conn -> Nat]
      /\ work' \in [Conn -> Seq(Job)] /\ link' \in [Conn -> Links]
  <2>1. CASE promise[s] = "failed"
    BY <2>1 DEF RunThen, TypeOK, poolVars, Links, Job
  <2>2. CASE promise[s] = "fulfilled" /\ Head(thens[s]) = Release
    <3>1. c \in Conn /\ work[c] \in Seq(Job) /\ Return(s, c, work[c])
      BY <2>2, <1>1 DEF RunThen, TypeOK, Job
    <3> QED BY <3>1, <1>1, ReturnTypes DEF TypeOK
  <2>3. CASE promise[s] = "fulfilled" /\ Head(thens[s]) # Release
    <3>1. c \in Conn /\ work[c] \in Seq(Job)
      BY <2>3, <1>1 DEF TypeOK, Job
    <3>2. Append(work[c], <<s, Head(thens[s])>>) \in Seq(Job)
      BY <3>1, <1>1, <1>2, QueueTypes
    <3>3. work' = [work EXCEPT ![c] = Append(@, <<s, Head(thens[s])>>)]
          /\ UNCHANGED <<returned, available, link>>
      BY <2>3 DEF RunThen, Enqueue
    <3> QED BY <3>2, <3>3 DEF TypeOK, Links, Job
  <2> QED BY <2>1, <2>2, <2>3 DEF RunThen
<1> QED BY <1>3, <1>4 DEF RunThen, TypeOK, Links, Job

LEMMA RequestTypes ==
    ASSUME TypeOK, NEW x \in Request,
           Arrive(x) \/ BodyRead(x) \/ BodyFails(x) \/ RequestRefused(x)
    PROVE  TypeOK'
<1> USE DEF TypeOK, loanVars, sessionVars, poolVars, Client, Unhandled
<1>0. ASSUME Acquire(x)
      PROVE  /\ promise' \in [Client -> {"none", "pending", "fulfilled", "failed"}]
             /\ lent' \in [Client -> Conn \cup {NoConn}]
             /\ \A y \in Client : promise'[y] = "fulfilled" <=> lent'[y] # NoConn
             /\ returned' \in [Client -> Nat]
  BY <1>0 DEF Acquire
<1>1. CASE Arrive(x)
  <2>1. /\ UNCHANGED <<phase, sessionVars, poolVars>>
        /\ \E to \in {"reading", "acquiring"} : stage' = [stage EXCEPT ![x] = to]
        /\ Acquire(x) \/ UNCHANGED loanVars
    BY <1>1 DEF Arrive
  <2> QED BY <1>0, <2>1
<1>2. CASE BodyRead(x)
  <2>1. /\ UNCHANGED <<phase, sessionVars, poolVars>>
        /\ \E to \in {"done", "acquiring"} : stage' = [stage EXCEPT ![x] = to]
        /\ Acquire(x) \/ UNCHANGED loanVars
    BY <1>2 DEF BodyRead
  <2> QED BY <1>0, <2>1
<1>3. CASE BodyFails(x)
  BY <1>3 DEF BodyFails
<1>4. CASE RequestRefused(x)
  BY <1>4 DEF RequestRefused, Refuse
<1> QED BY <1>1, <1>2, <1>3, <1>4

LEMMA AcquiresTypes ==
    ASSUME TypeOK, NEW c \in Conn,
           \/ \E s \in Session : SessionAcquires(s, c)
           \/ \E x \in Request : RequestAcquires(x, c)
    PROVE  TypeOK'
<1>1. ASSUME NEW s \in Session, SessionAcquires(s, c) PROVE TypeOK'
  <2>1. s \in Client /\ Lend(s, c) /\ UNCHANGED <<phase, stage, sessionVars, work>>
    BY <1>1 DEF SessionAcquires, Client
  <2> QED BY <2>1, LendTypes DEF TypeOK, sessionVars
<1>2. ASSUME NEW x \in Request, RequestAcquires(x, c) PROVE TypeOK'
  <2>1. x \in Client /\ Lend(x, c) /\ UNCHANGED <<phase, sessionVars>>
    BY <1>2 DEF RequestAcquires, Client
  <2>2. work[c] \in Seq(Job)
    BY DEF TypeOK, Job
  <2>3. Append(work[c], <<x, Release>>) \in Seq(Job)
    BY <2>1, <2>2, QueueTypes
  <2>4. work' \in [Conn -> Seq(Job)] /\ stage' \in [Request -> {"none", "reading", "acquiring", "querying", "done"}]
    BY <1>2, <2>3 DEF RequestAcquires, Enqueue, TypeOK, Job
  <2> QED BY <2>1, <2>4, LendTypes DEF TypeOK, sessionVars, Job
<1> QED BY <1>1, <1>2

LEMMA JobTypes ==
    ASSUME TypeOK, NEW c \in Conn, JobEnds(c)
    PROVE  TypeOK'
<1>1. work[c] \in Seq(Job) /\ work[c] # <<>>
  BY DEF TypeOK, Job, JobEnds, SessionQueryEnds, RequestQueryEnds, RecycleEnds
<1>2. Head(work[c]) \in Job /\ Tail(work[c]) \in Seq(Job)
  BY <1>1, QueueTypes
<1>3. [work EXCEPT ![c] = Tail(@)] \in [Conn -> Seq(Job)]
  BY <1>2 DEF TypeOK, Job
<1>4. CASE SessionQueryEnds(c)
  <2>1. PICK s \in Session, m \in Message \cup {Release} : SendAnswer(s, m)
    BY <1>2, <1>4 DEF SessionQueryEnds, Job
  <2>2. /\ waiting' \in [Session -> SUBSET Message]
        /\ socket' \in [Session -> {"none", "open", "closing", "failed", "closed"}]
        /\ thens' = thens
    BY <2>1 DEF SendAnswer, OnSendError, CloseSocket, TypeOK
  <2>3. link' \in [Conn -> Links]
    BY <1>4 DEF SessionQueryEnds, Break, TypeOK, Links
  <2> QED BY <1>3, <1>4, <2>2, <2>3 DEF SessionQueryEnds, TypeOK, loanVars, Links, Job
<1>5. CASE RequestQueryEnds(c)
  <2>1. PICK x \in Request : /\ stage' = [stage EXCEPT ![x] = "done"]
                             /\ Return(x, c, Tail(work[c]))
                             /\ UNCHANGED phase \/ Unhandled
    BY <1>5 DEF RequestQueryEnds
  <2>2. x \in Client
    BY DEF Client
  <2>3. /\ returned' \in [Client -> Nat] /\ available' = available
        /\ work' \in [Conn -> Seq(Job)] /\ link' \in [Conn -> Links]
    BY <1>2, <2>1, <2>2, ReturnTypes
  <2> QED BY <1>5, <2>1, <2>3 DEF RequestQueryEnds, TypeOK, sessionVars, Links, Job, Unhandled
<1>6. CASE RecycleEnds(c)
  <2>1. work' \in [Conn -> Seq(Job)]
    BY <1>3, <1>6 DEF RecycleEnds
  <2>2. available' \in [Conn -> Nat] /\ link' \in [Conn -> Links]
    <3>1. CASE link[c] = "up" /\ available' = [available EXCEPT ![c] = @ + 1] /\ UNCHANGED link
      <4>1. available[c] + 1 \in Nat
        BY DEF TypeOK
      <4> QED BY <3>1, <4>1 DEF TypeOK, Links
    <3>2. CASE link' = [link EXCEPT ![c] = "evicted"] /\ UNCHANGED available
      BY <3>2 DEF TypeOK, Links
    <3> QED BY <1>6, <3>1, <3>2 DEF RecycleEnds
  <2> QED BY <1>6, <2>1, <2>2 DEF RecycleEnds, TypeOK, loanVars, sessionVars, Links, Job
<1> QED BY <1>4, <1>5, <1>6 DEF JobEnds

LEMMA PoolTypes ==
    ASSUME TypeOK, \/ Stop \/ PoolStops
                   \/ \E c \in Conn : BorrowTimeout(c) \/ Create(c)
    PROVE  TypeOK'
<1> USE DEF TypeOK, loanVars, sessionVars, poolVars
<1>1. CASE Stop
  BY <1>1 DEF Stop
<1>2. CASE PoolStops
  BY <1>2 DEF PoolStops, EvictLink
<1>3. ASSUME NEW c \in Conn, BorrowTimeout(c) PROVE TypeOK'
  BY <1>3 DEF BorrowTimeout, EvictLink
<1>4. ASSUME NEW c \in Conn, Create(c) PROVE TypeOK'
  BY <1>4 DEF Create
<1> QED BY <1>1, <1>2, <1>3, <1>4

\* Every step keeps the types, also those of sockets that fail.
LEMMA NextTypes == TypeOK /\ [Next]_vars => TypeOK'
<1> SUFFICES ASSUME TypeOK, [Next]_vars PROVE TypeOK'
  OBVIOUS
<1>1. CASE UNCHANGED vars
  BY <1>1 DEF vars, TypeOK, loanVars, sessionVars, poolVars
<1>2. CASE \E s \in Session : RunThen(s)
  BY <1>2, RunThenTypes
<1>3. CASE \E s \in Session :
              \/ Upgrade(s) \/ SessionRefused(s) \/ SocketError(s) \/ SocketClosed(s)
              \/ \E m \in Message : Receive(s, m)
  BY <1>3, SessionTypes
<1>4. CASE \E x \in Request :
              Arrive(x) \/ BodyRead(x) \/ BodyFails(x) \/ RequestRefused(x)
  BY <1>4, RequestTypes
<1>5. CASE \E c \in Conn : \/ \E s \in Session : SessionAcquires(s, c)
                           \/ \E x \in Request : RequestAcquires(x, c)
  BY <1>5, AcquiresTypes
<1>6. CASE \E c \in Conn : JobEnds(c)
  BY <1>6, JobTypes
<1>7. CASE Stop \/ PoolStops \/ \E c \in Conn : BorrowTimeout(c) \/ Create(c)
  BY <1>7, PoolTypes
<1> QED BY <1>1, <1>2, <1>3, <1>4, <1>5, <1>6, <1>7 DEF Next, Acquisition

-----------------------------------------------------------------------------
(* Sessions and requests release once.                                     *)

LEMMA Disjoint ==
    /\ Session \subseteq Client /\ Request \subseteq Client
    /\ Pool \notin Client /\ Release \notin Message
    /\ \A s \in Session : s \notin Request
    /\ \A c \in Conn : c # NoConn
BY NamesAssumption DEF Client

LEMMA SessionFrame ==
    ASSUME NEW s \in Session, SessionInv(s), socket'[s] = socket[s], thens'[s] = thens[s],
           returned'[s] = returned[s], returned[s] = 0 \/ promise'[s] = promise[s]
    PROVE  SessionInv(s)'
BY DEF SessionInv

\* Callbacks leave the head of the list one after the other.
LEMMA Tails ==
    ASSUME NEW S, NEW q \in Seq(S), q # <<>>
    PROVE  /\ Len(Tail(q)) = Len(q) - 1 /\ Len(q) \in Nat \ {0}
           /\ DOMAIN Tail(q) = 1 .. Len(q) - 1 /\ DOMAIN q = 1 .. Len(q)
           /\ \A i \in DOMAIN Tail(q) : i + 1 \in DOMAIN q /\ Tail(q)[i] = q[i + 1]
           /\ 1 \in DOMAIN q /\ Head(q) = q[1]
           /\ Len(q) = 1 => Tail(q) = <<>>
OBVIOUS

LEMMA Appends ==
    ASSUME NEW S, NEW q \in Seq(S), NEW e
    PROVE  /\ Len(Append(q, e)) = Len(q) + 1 /\ Len(q) \in Nat
           /\ DOMAIN Append(q, e) = 1 .. Len(q) + 1 /\ DOMAIN q = 1 .. Len(q)
           /\ \A i \in DOMAIN q : Append(q, e)[i] = q[i]
           /\ Append(q, e)[Len(q) + 1] = e
           /\ Append(q, e) # <<>>
OBVIOUS

LEMMA OwnSession ==
    ASSUME TypeOK, "socketError" \notin Events, NEW s \in Session, SessionInv(s),
           \/ Upgrade(s) \/ RunThen(s) \/ SocketError(s) \/ SocketClosed(s)
           \/ \E m \in Message : Receive(s, m)
           \/ SessionRefused(s) \/ \E c \in Conn : SessionAcquires(s, c)
    PROVE  SessionInv(s)'
<1> USE Disjoint DEF TypeOK
<1>1. CASE Upgrade(s)
  BY <1>1 DEF Upgrade, Acquire, SessionInv
<1>2. CASE RunThen(s)
  <2> DEFINE q == thens[s]
  <2>1. /\ q \in Seq(Message \cup {Release}) /\ q # <<>> /\ thens'[s] = Tail(q)
        /\ UNCHANGED <<promise, socket>> /\ returned[s] = 0 /\ socket[s] # "failed"
    BY <1>2 DEF RunThen, SessionInv
  <2>2. \A i \in DOMAIN Tail(q) :
            Tail(q)[i] = Release => i = Len(Tail(q)) /\ socket[s] = "closed"
    BY <2>1, Tails DEF SessionInv
  <2>3. CASE returned' = returned
    BY <2>1, <2>2, <2>3 DEF SessionInv
  <2>4. CASE returned' # returned
    <3>1. Head(q) = Release /\ promise[s] = "fulfilled" /\ returned'[s] = 1
      BY <1>2, <2>1, <2>4 DEF RunThen, Return
    <3>2. socket[s] = "closed" /\ Tail(q) = <<>>
      BY <2>1, <3>1, Tails DEF SessionInv
    <3> QED BY <2>1, <2>2, <3>1, <3>2 DEF SessionInv
  <2> QED BY <2>3, <2>4
<1>3. CASE SocketError(s)
  BY <1>3 DEF SocketError
<1>4. CASE SocketClosed(s)
  <2>1. /\ thens'[s] = Append(thens[s], Release) /\ socket'[s] = "closed"
        /\ socket[s] # "closed" /\ returned' = returned /\ returned[s] = 0
    BY <1>4 DEF SocketClosed, ThenRelease, SessionInv, loanVars
  <2>2. \A i \in DOMAIN thens[s] : thens[s][i] # Release
    BY <2>1 DEF SessionInv
  <2>3. \A i \in DOMAIN thens'[s] : thens'[s][i] = Release => i = Len(thens'[s])
    BY <2>1, <2>2, Appends
  <2> QED BY <2>1, <2>3 DEF SessionInv
<1>5. ASSUME NEW m \in Message, Receive(s, m) PROVE SessionInv(s)'
  <2>1. /\ thens'[s] = Append(thens[s], m) /\ UNCHANGED <<socket, returned>>
        /\ socket[s] # "closed" /\ returned[s] = 0 /\ m # Release /\ socket[s] # "failed"
    BY <1>5 DEF Receive, ThenQuery, SessionInv, loanVars
  <2>2. \A i \in DOMAIN thens[s] : thens[s][i] # Release
    BY <2>1 DEF SessionInv
  <2>3. \A i \in DOMAIN thens'[s] : thens'[s][i] # Release
    BY <2>1, <2>2, Appends
  <2> QED BY <2>1, <2>3 DEF SessionInv
<1>6. CASE SessionRefused(s)
  BY <1>6 DEF SessionRefused, Refuse, CloseSocket, SessionInv
<1>7. ASSUME NEW c \in Conn, SessionAcquires(s, c) PROVE SessionInv(s)'
  BY <1>7 DEF SessionAcquires, Lend, SessionInv, sessionVars
<1> QED BY <1>1, <1>2, <1>3, <1>4, <1>5, <1>6, <1>7

\* The others: what a client does to itself is not done to another.
LEMMA SessionStep ==
    ASSUME Inv, "socketError" \notin Events, [Next]_vars, NEW s \in Session
    PROVE  SessionInv(s)'
<1> USE Disjoint
<1>0. SessionInv(s) /\ TypeOK
  BY DEF Inv
<1>1. CASE UNCHANGED vars
  BY <1>0, <1>1, SessionFrame DEF vars, loanVars, sessionVars
<1>2. ASSUME NEW t \in Session, t # s,
             \/ Upgrade(t) \/ RunThen(t) \/ SocketError(t) \/ SocketClosed(t)
             \/ \E m \in Message : Receive(t, m)
             \/ SessionRefused(t) \/ \E c \in Conn : SessionAcquires(t, c)
      PROVE  SessionInv(s)'
  <2>1. /\ socket'[s] = socket[s] /\ thens'[s] = thens[s]
        /\ returned'[s] = returned[s] /\ promise'[s] = promise[s]
    <3> USE <1>0, <1>2 DEF TypeOK, loanVars, sessionVars
    <3>1. CASE Upgrade(t)
      BY <3>1 DEF Upgrade, Acquire
    <3>2. CASE RunThen(t)
      BY <3>2 DEF RunThen, Return
    <3>3. CASE SocketError(t) \/ SocketClosed(t)
      BY <3>3 DEF SocketError, SocketClosed, ThenRelease
    <3>4. CASE \E m \in Message : Receive(t, m)
      BY <3>4 DEF Receive, ThenQuery
    <3>5. CASE SessionRefused(t)
      BY <3>5 DEF SessionRefused, Refuse, CloseSocket
    <3>6. CASE \E c \in Conn : SessionAcquires(t, c)
      BY <3>6 DEF SessionAcquires, Lend
    <3> QED BY <1>2, <3>1, <3>2, <3>3, <3>4, <3>5, <3>6
  <2> QED BY <1>0, <2>1, SessionFrame
<1>3. ASSUME NEW x \in Request,
             \/ Arrive(x) \/ BodyRead(x) \/ BodyFails(x)
             \/ RequestRefused(x) \/ \E c \in Conn : RequestAcquires(x, c)
      PROVE  SessionInv(s)'
  <2>1. UNCHANGED sessionVars /\ x # s
    BY <1>3 DEF Arrive, BodyRead, BodyFails, RequestRefused, RequestAcquires
  <2>2. returned'[s] = returned[s] /\ promise'[s] = promise[s]
    BY <1>0, <1>3, <2>1 DEF Arrive, BodyRead, BodyFails, RequestRefused, RequestAcquires,
        Acquire, Refuse, Lend, TypeOK, loanVars
  <2> QED BY <1>0, <2>1, <2>2, SessionFrame DEF sessionVars
<1>4. ASSUME NEW c \in Conn, SessionQueryEnds(c) PROVE SessionInv(s)'
  <2>1. /\ UNCHANGED <<thens, returned, promise>>
        /\ socket'[s] = socket[s] \/ (socket[s] = "open" /\ socket'[s] = "closing")
    BY <1>0, <1>4 DEF SessionQueryEnds, SendAnswer, OnSendError, CloseSocket, TypeOK, loanVars
  <2> QED BY <1>0, <2>1 DEF SessionInv
<1>5. ASSUME NEW c \in Conn, RequestQueryEnds(c) PROVE SessionInv(s)'
  <2>1. UNCHANGED <<promise, socket, thens>> /\ returned'[s] = returned[s]
    BY <1>0, <1>5 DEF RequestQueryEnds, Return, TypeOK, sessionVars
  <2> QED BY <1>0, <2>1, SessionFrame
<1>6. ASSUME NEW c \in Conn, RecycleEnds(c) \/ BorrowTimeout(c) \/ Create(c) PROVE SessionInv(s)'
  BY <1>0, <1>6, SessionFrame DEF RecycleEnds, BorrowTimeout, Create, loanVars, sessionVars
<1>7. CASE Stop \/ PoolStops
  BY <1>0, <1>7, SessionFrame DEF Stop, PoolStops, loanVars, sessionVars
<1>8. ASSUME NEW t \in Session,
             \/ Upgrade(t) \/ RunThen(t) \/ SocketError(t) \/ SocketClosed(t)
             \/ \E m \in Message : Receive(t, m)
             \/ SessionRefused(t) \/ \E c \in Conn : SessionAcquires(t, c)
      PROVE  SessionInv(s)'
  BY <1>0, <1>2, <1>8, OwnSession
<1> QED BY <1>1, <1>3, <1>4, <1>5, <1>6, <1>7, <1>8 DEF Next, Acquisition, JobEnds

LEMMA RequestStep ==
    ASSUME Inv, [Next]_vars, NEW x \in Request
    PROVE  RequestInv(x)'
<1> USE Disjoint
<1>0. RequestInv(x) /\ TypeOK
  BY DEF Inv
<1>1. CASE UNCHANGED <<returned, promise>>
  BY <1>0, <1>1 DEF RequestInv
<1>2. ASSUME NEW t \in Session, Upgrade(t) \/ RunThen(t) \/ SessionRefused(t)
                                 \/ \E c \in Conn : SessionAcquires(t, c)
      PROVE  RequestInv(x)'
  <2>1. t # x /\ t \in Client
    OBVIOUS
  <2>2. returned'[x] = returned[x] /\ promise'[x] = promise[x]
    BY <1>0, <1>2, <2>1 DEF Upgrade, RunThen, SessionRefused, SessionAcquires, Acquire,
        Refuse, Lend, Return, TypeOK
  <2> QED BY <1>0, <2>2 DEF RequestInv
<1>3. ASSUME NEW y \in Request, Acquire(y) PROVE RequestInv(x)'
  BY <1>0, <1>3 DEF Acquire, RequestInv, TypeOK
<1>4. ASSUME NEW y \in Request, RequestRefused(y) \/ \E c \in Conn : RequestAcquires(y, c)
      PROVE  RequestInv(x)'
  BY <1>0, <1>4 DEF RequestRefused, RequestAcquires, Refuse, Lend, RequestInv, TypeOK
<1>5. ASSUME NEW c \in Conn, RequestQueryEnds(c) PROVE RequestInv(x)'
  <2> DEFINE y == Head(work[c])[1]
  <2>1. y \in Request /\ Return(y, c, Tail(work[c])) /\ promise' = promise
    BY <1>5 DEF RequestQueryEnds
  <2>2. Has(y, c)
    <3>1. work[c] \in Seq(Job) /\ work[c] # <<>>
      BY <1>0, <1>5 DEF RequestQueryEnds, TypeOK, Job
    <3>2. 1 \in DOMAIN work[c] /\ work[c][1][1] = y
      BY <3>1, Tails
    <3> QED BY <2>1, <3>2 DEF Inv, Queue
  <2>3. promise[y] = "fulfilled" /\ returned[y] = 0
    BY <1>0, <2>1, <2>2 DEF Has, TypeOK
  <2>4. returned' = [returned EXCEPT ![y] = @ + 1]
    BY <2>1 DEF Return
  <2> HIDE DEF y
  <2> QED BY <1>0, <2>1, <2>3, <2>4 DEF RequestInv, TypeOK
<1>6. CASE UNCHANGED vars
  BY <1>1, <1>6 DEF vars, loanVars
<1>7. ASSUME NEW y \in Request, Arrive(y) \/ BodyRead(y) \/ BodyFails(y) PROVE RequestInv(x)'
  BY <1>1, <1>3, <1>7 DEF Arrive, BodyRead, BodyFails, loanVars
<1>8. ASSUME NEW t \in Session, \/ SocketError(t) \/ SocketClosed(t)
                                 \/ \E m \in Message : Receive(t, m)
      PROVE  RequestInv(x)'
  BY <1>1, <1>8 DEF SocketError, SocketClosed, Receive, loanVars
<1>9. ASSUME NEW c \in Conn,
             SessionQueryEnds(c) \/ RecycleEnds(c) \/ BorrowTimeout(c) \/ Create(c)
      PROVE  RequestInv(x)'
  BY <1>1, <1>9 DEF SessionQueryEnds, RecycleEnds, BorrowTimeout, Create, loanVars
<1>10. CASE Stop \/ PoolStops
  BY <1>1, <1>10 DEF Stop, PoolStops, loanVars
<1> QED BY <1>2, <1>4, <1>5, <1>6, <1>7, <1>8, <1>9, <1>10 DEF Next, Acquisition, JobEnds

-----------------------------------------------------------------------------
(* Connections.                                                            *)

\* Nothing happens to a connection, or it is evicted.
LEMMA QueueFrame ==
    ASSUME NEW c \in Conn, Queue(c), work'[c] = work[c],
           \/ available'[c] = available[c] /\ (Evicted(c) => Evicted(c)')
           \/ available'[c] \in {0, 1} /\ Evicted(c)',
           \A x \in Client : Has(x, c)' => Has(x, c),
           \A x \in Request : Has(x, c) /\ stage[x] = "querying" =>
                                Has(x, c)' /\ stage'[x] = "querying"
    PROVE  Queue(c)'
BY DEF Queue

\* A client releases its connection, with q in the work queue.
LEMMA ReturnQueue ==
    ASSUME Inv, NEW x \in Client, NEW c \in Conn, NEW q \in Seq(Job), Has(x, c),
           \A i \in DOMAIN q : q[i][1] = x, x \in Request => q = <<>>,
           Return(x, c, q), lent' = lent,
           \A y \in Request : y # x => stage'[y] = stage[y],
           NEW d \in Conn
    PROVE  Queue(d)'
<1> USE Disjoint
<1>0. Queue(d) /\ Queue(c) /\ TypeOK
  BY DEF Inv
<1>1. \A y \in Client, e \in Conn : Has(y, e)' <=> Has(y, e) /\ y # x
  <2>1. returned'[x] # 0 /\ \A y \in Client : y # x => returned'[y] = returned[y]
    BY <1>0 DEF Return, TypeOK
  <2> QED BY <2>1 DEF Has
<1>2. CASE d # c
  <2>1. ~Has(x, d) /\ work'[d] = work[d] /\ link'[d] = link[d] /\ available' = available
    BY <1>0, <1>2 DEF Has, Return, TypeOK, EvictLink
  <2> QED BY <1>0, <1>1, <2>1, QueueFrame DEF Evicted
<1>3. CASE d = c
  <2>1. \A y \in Client : ~Has(y, c)'
    BY <1>0, <1>1 DEF Queue
  <2>2. work'[c] \in {q, Append(q, <<Pool, Release>>)}
    BY <1>0 DEF Return, TypeOK
  <2>3. available' = available /\ (available[c] = 0 \/ Evicted(c)')
    <3>1. available[c] = 0 \/ Evicted(c)
      BY <1>0 DEF Queue
    <3> QED BY <1>0, <3>1 DEF Return, Evicted, EvictLink, TypeOK
  <2>4. \A i \in DOMAIN q : q[i][1] # Pool /\ q[i][1] \notin Request
    OBVIOUS
  <2>5. \A i \in DOMAIN work'[c] : /\ work'[c][i][1] = Pool => i = Len(work'[c])
                                   /\ work'[c][i][1] \notin Request
    <3>1. CASE work'[c] = q
      BY <2>4, <3>1
    <3>2. CASE work'[c] = Append(q, <<Pool, Release>>)
      <4>1. \A i \in DOMAIN work'[c] :
                \/ i \in DOMAIN q /\ work'[c][i] = q[i]
                \/ i = Len(work'[c]) /\ work'[c][i] = <<Pool, Release>>
        BY <3>2, Appends
      <4> QED BY <2>4, <4>1
    <3> QED BY <2>2, <3>1, <3>2
  <2> QED BY <1>0, <1>3, <2>1, <2>3, <2>5 DEF Queue
<1> QED BY <1>2, <1>3

\* The pool lends a connection nobody has and nothing is in line for.
LEMMA LendQueue ==
    ASSUME Inv, NEW x \in Client, NEW c \in Conn, Lend(x, c)
    PROVE  /\ work[c] = <<>> /\ available'[c] = 0
           /\ \A y \in Client : Has(y, c)' <=> y = x
           /\ \A d \in Conn \ {c} : /\ available'[d] = available[d]
                                    /\ ~Has(x, d) /\ \A y \in Client : Has(y, d)' <=> Has(y, d)
<1> USE Disjoint
<1>0. TypeOK /\ Queue(c)
  BY DEF Inv
<1>1. promise[x] = "pending" /\ available[c] > 0 /\ ~Evicted(c)
  BY DEF Lend, Evicted
<1>2. available[c] = 1 /\ available'[c] = 0 /\ \A d \in Conn \ {c} : available'[d] = available[d]
  BY <1>0, <1>1 DEF Queue, Lend, Take, TypeOK
<1>3. lent[x] = NoConn /\ returned[x] = 0 /\ returned' = returned
  <2>1. returned[x] = 0
    BY <1>1 DEF Inv, SessionInv, RequestInv, Client
  <2> QED BY <1>0, <1>1, <2>1 DEF TypeOK, Lend
<1>4. lent' = [lent EXCEPT ![x] = c] /\ \A y \in Client : ~Has(y, c)
  BY <1>0, <1>1, <1>2 DEF Lend, Queue
<1>5. work[c] = <<>>
  BY <1>0, <1>1, <1>2 DEF Queue
<1> QED BY <1>0, <1>2, <1>3, <1>4, <1>5 DEF Has, TypeOK

LEMMA AcquireQueue ==
    ASSUME Inv, NEW c \in Conn, NEW d \in Conn,
           \/ \E s \in Session : SessionAcquires(s, c)
           \/ \E x \in Request : RequestAcquires(x, c)
    PROVE  Queue(d)'
<1> USE Disjoint
<1>0. Queue(d) /\ TypeOK
  BY DEF Inv
<1>1. ASSUME NEW s \in Session, SessionAcquires(s, c) PROVE Queue(d)'
  <2>1. Lend(s, c) /\ UNCHANGED <<stage, work, link>>
    BY <1>1 DEF SessionAcquires, Lend
  <2>2. CASE d = c
    BY <2>1, <2>2, LendQueue DEF Queue
  <2>3. CASE d # c
    BY <1>0, <2>1, <2>3, LendQueue, QueueFrame DEF Evicted
  <2> QED BY <2>2, <2>3
<1>2. ASSUME NEW x \in Request, RequestAcquires(x, c) PROVE Queue(d)'
  <2>1. /\ Lend(x, c) /\ work' = [work EXCEPT ![c] = Append(@, <<x, Release>>)]
        /\ stage' = [stage EXCEPT ![x] = "querying"] /\ link' = link
    BY <1>2 DEF RequestAcquires, Lend, Enqueue
  <2>2. CASE d = c
    <3>1. work'[c] = <<<<x, Release>>>> /\ stage'[x] = "querying"
      <4>1. work[c] = <<>>
        BY <2>1, LendQueue
      <4>2. work'[c] = Append(<<>>, <<x, Release>>)
        BY <1>0, <2>1, <4>1 DEF TypeOK
      <4>3. stage'[x] = "querying"
        BY <1>0, <2>1 DEF TypeOK
      <4> QED BY <4>2, <4>3
    <3>2. DOMAIN work'[c] = {1} /\ Len(work'[c]) = 1 /\ work'[c][1][1] = x
      BY <3>1
    <3>3. available'[c] = 0 /\ \A y \in Client : Has(y, c)' <=> y = x
      BY <2>1, LendQueue
    <3>4. Has(x, c)' /\ x # Pool
      BY <3>3
    <3> QED BY <2>2, <3>1, <3>2, <3>3, <3>4 DEF Queue
  <2>3. CASE d # c
    <3>1. work'[d] = work[d] /\ \A y \in Request : stage[y] = "querying" => stage'[y] = "querying"
      BY <1>0, <2>1, <2>3 DEF TypeOK
    <3> QED BY <1>0, <2>1, <2>3, <3>1, LendQueue, QueueFrame DEF Evicted
  <2> QED BY <2>2, <2>3
<1> QED BY <1>1, <1>2

LEMMA RunThenQueue ==
    ASSUME Inv, NEW s \in Session, RunThen(s), NEW d \in Conn
    PROVE  Queue(d)'
<1> USE Disjoint
<1>0. Queue(d) /\ TypeOK /\ s \in Client
  BY DEF Inv
<1>1. thens[s] # <<>> /\ returned[s] = 0 /\ UNCHANGED <<lent, stage>>
  BY DEF RunThen, Inv, SessionInv
<1>2. CASE promise[s] = "failed"
  BY <1>0, <1>1, <1>2, QueueFrame DEF RunThen, poolVars, Has, Evicted
<1>3. CASE promise[s] = "fulfilled"
  <2> DEFINE c == lent[s]
  <2>1. c \in Conn /\ Has(s, c) /\ work[c] \in Seq(Job) /\ Queue(c)
    BY <1>0, <1>1, <1>3 DEF Has, TypeOK, Job, Inv
  <2>2. \A i \in DOMAIN work[c] : work[c][i][1] = s
    BY <1>0, <2>1 DEF Queue
  <2>3. CASE Head(thens[s]) = Release
    <3>1. Return(s, c, work[c])
      BY <1>3, <2>3 DEF RunThen
    <3> QED BY <1>0, <1>1, <2>1, <2>2, <3>1, ReturnQueue
  <2>4. CASE Head(thens[s]) # Release
    <3>1. /\ work' = [work EXCEPT ![c] = Append(@, <<s, Head(thens[s])>>)]
          /\ UNCHANGED <<returned, available, link>>
      BY <1>3, <2>4 DEF RunThen, Enqueue
    <3>2. CASE d # c
      BY <1>0, <1>1, <3>1, <3>2, QueueFrame DEF TypeOK, Has, Evicted
    <3>3. CASE d = c
      <4>1. \A i \in DOMAIN work'[d] : work'[d][i][1] = s
        <5>1. work'[d] = Append(work[d], <<s, Head(thens[s])>>) /\ work[d] \in Seq(Job)
          BY <2>1, <3>1, <3>3 DEF TypeOK, Inv
        <5> QED BY <2>1, <2>2, <3>3, <5>1, Appends
      <4>2. /\ \A y \in Client : Has(y, d)' <=> Has(y, d)
            /\ available' = available /\ (Evicted(d)' <=> Evicted(d))
        BY <1>1, <3>1 DEF Has, Evicted
      <4>3. \A y \in Client : Has(y, d) => y = s
        BY <1>0, <2>1, <3>3 DEF Queue
      <4>4. (available[d] = 0 \/ Evicted(d)) /\ available[d] \in {0, 1}
        BY <1>0, <2>1, <3>3 DEF Queue
      <4>5. s # Pool /\ s \notin Request
        OBVIOUS
      <4> HIDE DEF c
      <4> QED BY <4>1, <4>2, <4>3, <4>4, <4>5 DEF Queue
    <3> QED BY <3>2, <3>3
  <2> QED BY <2>3, <2>4
<1> QED BY <1>2, <1>3 DEF RunThen

LEMMA JobQueue ==
    ASSUME Inv, NEW c \in Conn, JobEnds(c), NEW d \in Conn
    PROVE  Queue(d)'
<1> USE Disjoint
<1> DEFINE w == work[c]
<1>0. /\ Queue(d) /\ Queue(c) /\ TypeOK
      /\ w \in Seq(Job) /\ w # <<>> /\ Tail(w) \in Seq(Job)
  BY DEF Inv, TypeOK, Job, JobEnds, SessionQueryEnds, RequestQueryEnds, RecycleEnds
<1>1. /\ Len(w) \in Nat \ {0} /\ 1 \in DOMAIN w /\ Head(w) = w[1]
      /\ \A i \in DOMAIN Tail(w) : i + 1 \in DOMAIN w /\ Tail(w)[i] = w[i + 1] /\ i \in Nat
      /\ Len(Tail(w)) = Len(w) - 1 /\ (Len(w) = 1 => Tail(w) = <<>>)
      /\ \A i \in DOMAIN w : i \in 1 .. Len(w)
      /\ \A i \in DOMAIN Tail(w) : i \in 1 .. Len(w) - 1
  BY <1>0, Tails
<1>2. CASE SessionQueryEnds(c)
  <2>1. /\ work' = [work EXCEPT ![c] = Tail(@)] /\ UNCHANGED <<stage, lent, returned, available>>
        /\ \A e \in Conn : Evicted(e)' <=> Evicted(e)
    BY <1>0, <1>2 DEF SessionQueryEnds, Break, TypeOK, Evicted, loanVars
  <2>2. CASE d # c
    BY <1>0, <2>1, <2>2, QueueFrame DEF TypeOK, Has
  <2>3. CASE d = c
    <3>1. work'[c] = Tail(w) /\ \A y \in Client : Has(y, c)' <=> Has(y, c)
      BY <1>0, <2>1 DEF TypeOK, Has
    <3>2. \A i \in DOMAIN Tail(w) : Tail(w)[i][1] = Pool => i = Len(Tail(w))
      BY <1>0, <1>1 DEF Queue
    <3>3. \A i \in DOMAIN Tail(w) : Tail(w)[i][1] \notin Request
      BY <1>0, <1>1 DEF Queue
    <3>4. \A y \in Client : Has(y, c) => \A i \in DOMAIN Tail(w) : Tail(w)[i][1] = y
      BY <1>0, <1>1 DEF Queue
    <3>5. \A y \in Client : Has(y, c) => /\ available[c] = 0 \/ Evicted(c)
                                         /\ \A z \in Client : Has(z, c) => z = y
      BY <1>0 DEF Queue
    <3>6. (available[c] = 0 \/ Evicted(c)) /\ available[c] \in {0, 1}
      BY <1>0 DEF Queue
    <3> HIDE DEF w
    <3>7. (available'[c] = 0 \/ Evicted(c)') /\ available'[c] \in {0, 1}
      BY <2>1, <3>6
    <3>8. \A y \in Client : Has(y, c)' =>
            /\ \A i \in DOMAIN work'[c] : work'[c][i][1] = y
            /\ \A z \in Client : Has(z, c)' => z = y
      BY <3>1, <3>4, <3>5
    <3>9. /\ \A i \in DOMAIN work'[c] : work'[c][i][1] = Pool => i = Len(work'[c])
          /\ \A i \in DOMAIN work'[c] : work'[c][i][1] \notin Request
      BY <3>1, <3>2, <3>3
    <3> QED BY <2>3, <3>7, <3>8, <3>9 DEF Queue
  <2> QED BY <2>2, <2>3
<1>3. CASE RequestQueryEnds(c)
  <2> DEFINE x == Head(w)[1]
  <2>1. x \in Request /\ x \in Client /\ Return(x, c, Tail(w)) /\ lent' = lent
        /\ stage' = [stage EXCEPT ![x] = "done"]
    BY <1>3 DEF RequestQueryEnds
  <2>2. Len(w) = 1 /\ Has(x, c)
    BY <1>0, <1>1, <2>1 DEF Queue
  <2>3. Tail(w) = <<>>
    BY <1>1, <2>2
  <2>4. \A y \in Request : y # x => stage'[y] = stage[y]
    BY <1>0, <2>1 DEF TypeOK
  <2>5. \A i \in DOMAIN Tail(w) : Tail(w)[i][1] = x
    BY <2>3
  <2> HIDE DEF w, x
  <2> QED BY <1>0, <2>1, <2>2, <2>3, <2>4, <2>5, ReturnQueue
<1>4. CASE RecycleEnds(c)
  <2>1. /\ work' = [work EXCEPT ![c] = Tail(@)] /\ UNCHANGED <<stage, lent, returned>>
        /\ \/ link[c] = "up" /\ available' = [available EXCEPT ![c] = @ + 1] /\ UNCHANGED link
           \/ link' = [link EXCEPT ![c] = "evicted"] /\ UNCHANGED available
    BY <1>4 DEF RecycleEnds, loanVars
  <2>2. CASE d # c
    BY <1>0, <2>1, <2>2, QueueFrame DEF TypeOK, Has, Evicted
  <2>3. CASE d = c
    <3>1. w[1][1] = Pool
      BY <1>1, <1>4 DEF RecycleEnds
    <3>2. work'[c] = <<>>
      BY <1>0, <1>1, <2>1, <3>1 DEF Queue, TypeOK
    <3>3. \A y \in Client : ~Has(y, c)'
      BY <1>0, <1>1, <2>1, <3>1 DEF Queue, Has
    <3>4. available'[c] \in {0, 1}
      BY <1>0, <2>1 DEF Queue, Evicted, TypeOK
    <3> QED BY <2>3, <3>2, <3>3, <3>4 DEF Queue
  <2> QED BY <2>2, <2>3
<1> QED BY <1>2, <1>3, <1>4 DEF JobEnds

LEMMA PoolQueue ==
    ASSUME Inv, NEW d \in Conn,
           Stop \/ PoolStops \/ \E c \in Conn : BorrowTimeout(c) \/ Create(c)
    PROVE  Queue(d)'
<1>0. Queue(d) /\ TypeOK
  BY DEF Inv
<1>1. CASE Stop
  BY <1>0, <1>1, QueueFrame DEF Stop, loanVars, poolVars, Has, Evicted
<1>2. CASE PoolStops
  <2>1. available'[d] = 0 /\ Evicted(d)' /\ UNCHANGED <<stage, lent, returned, work>>
    BY <1>0, <1>2 DEF PoolStops, EvictLink, Evicted, TypeOK, loanVars
  <2> QED BY <1>0, <2>1, QueueFrame DEF Has
<1>3. ASSUME NEW c \in Conn, BorrowTimeout(c) PROVE Queue(d)'
  <2>1. UNCHANGED <<stage, lent, returned, work, available>> /\ (Evicted(d) => Evicted(d)')
    BY <1>0, <1>3 DEF BorrowTimeout, EvictLink, Evicted, TypeOK, loanVars
  <2> QED BY <1>0, <2>1, QueueFrame DEF Has
<1>4. ASSUME NEW c \in Conn, Create(c) PROVE Queue(d)'
  <2>1. /\ UNCHANGED <<stage, lent, returned>> /\ \A x \in Client : lent[x] # c
        /\ link' = [link EXCEPT ![c] = "up"] /\ available' = [available EXCEPT ![c] = 1]
        /\ work' = [work EXCEPT ![c] = <<>>]
    BY <1>4 DEF Create, loanVars
  <2>2. CASE d = c
    BY <1>0, <2>1, <2>2 DEF Queue, Has, TypeOK
  <2>3. CASE d # c
    BY <1>0, <2>1, <2>3, QueueFrame DEF Has, Evicted, TypeOK
  <2> QED BY <2>2, <2>3
<1> QED BY <1>1, <1>2, <1>3, <1>4

LEMMA QueueStep ==
    ASSUME Inv, [Next]_vars, NEW d \in Conn
    PROVE  Queue(d)'
<1> USE Disjoint
<1>0. Queue(d) /\ TypeOK
  BY DEF Inv
<1>1. CASE UNCHANGED <<lent, returned, stage, available, link, work>>
  BY <1>0, <1>1, QueueFrame DEF Has, Evicted
<1>2. ASSUME NEW s \in Session, Upgrade(s) PROVE Queue(d)'
  <2>1. /\ UNCHANGED <<stage, available, link, work>>
        /\ \A x \in Client : Has(x, d)' => Has(x, d)
        /\ \A x \in Request : Has(x, d) => Has(x, d)'
    BY <1>0, <1>2 DEF Upgrade, Acquire, poolVars, Has, TypeOK
  <2> QED BY <1>0, <2>1, QueueFrame DEF Evicted
<1>3. ASSUME NEW x \in Request, Arrive(x) \/ BodyRead(x) \/ RequestRefused(x) PROVE Queue(d)'
  <2>1. /\ UNCHANGED <<available, link, work>>
        /\ \A y \in Client : Has(y, d)' => Has(y, d)
    BY <1>0, <1>3 DEF Arrive, BodyRead, RequestRefused, Refuse, Acquire, poolVars, loanVars, Has, TypeOK
  <2>2. \A y \in Request : y # x => (Has(y, d) <=> Has(y, d)') /\ stage'[y] = stage[y]
    BY <1>0, <1>3 DEF Arrive, BodyRead, RequestRefused, Refuse, Acquire, poolVars, loanVars, Has, TypeOK
  <2>3. ~(Has(x, d) /\ stage[x] = "querying")
    BY <1>0, <1>3 DEF Arrive, BodyRead, RequestRefused, Refuse, Has, TypeOK
  <2> QED BY <1>0, <2>1, <2>2, <2>3, QueueFrame DEF Evicted
<1>4. CASE UNCHANGED vars
  BY <1>1, <1>4 DEF vars, loanVars, poolVars
<1>5. ASSUME NEW s \in Session,
             \/ SessionRefused(s) \/ SocketError(s) \/ SocketClosed(s)
             \/ \E m \in Message : Receive(s, m)
      PROVE  Queue(d)'
  BY <1>1, <1>5 DEF SessionRefused, Refuse, SocketError, SocketClosed, Receive, loanVars, poolVars
<1>6. ASSUME NEW x \in Request, BodyFails(x) PROVE Queue(d)'
  BY <1>1, <1>6 DEF BodyFails, loanVars, poolVars
<1> QED BY <1>2, <1>3, <1>4, <1>5, <1>6, RunThenQueue, AcquireQueue, JobQueue, PoolQueue
        DEF Next, Acquisition

-----------------------------------------------------------------------------
(* The theorems.                                                           *)

\* The types of the variables, for all events.
THEOREM ServerTypes == Spec => []TypeOK
<1>1. Init => TypeOK
  BY InitInv DEF Inv
<1> QED BY <1>1, NextTypes, PTL DEF Spec

LEMMA Invariance ==
    ASSUME "socketError" \notin Events
    PROVE  Spec => []Inv
<1>1. Inv /\ [Next]_vars => Inv'
  BY NextTypes, SessionStep, RequestStep, QueueStep DEF Inv
<1> QED BY <1>1, InitInv, PTL DEF Spec

\* As long as no socket fails, a client releases once what it was lent.
THEOREM ReleasesOnce ==
    ASSUME "socketError" \notin Events
    PROVE  Spec => []ReleasedOnce
<1>1. Inv => ReleasedOnce
  BY DEF Inv, SessionInv, RequestInv, ReleasedOnce, Client
<1> QED BY <1>1, Invariance, PTL

\* Then a connection has one user at a time, ...
THEOREM OneUser ==
    ASSUME "socketError" \notin Events
    PROVE  Spec => []Exclusive
<1>1. Inv => Exclusive
  BY DEF Inv, Queue, Has, Using, Exclusive
<1> QED BY <1>1, Invariance, PTL

\* ... and no two clients ever have queries in the line of the same connection.
THEOREM QueriesIsolated ==
    ASSUME "socketError" \notin Events
    PROVE  Spec => []Isolated
<1>1. ASSUME Inv PROVE Isolated
  <2> SUFFICES ASSUME NEW c \in Conn, NEW i \in DOMAIN work[c]
               PROVE  /\ work[c][i][1] = Pool => i = Len(work[c])
                      /\ \A x \in Client : Using(x, c) => work[c][i][1] = x
                      /\ available[c] = 0 \/ Evicted(c)
    BY DEF Isolated
  <2>1. Queue(c) /\ work[c] \in Seq(Job)
    BY <1>1 DEF Inv, TypeOK, Job
  <2>2. work[c] # <<>>
    OBVIOUS
  <2> QED BY <2>1, <2>2 DEF Queue, Using, Has
<1> QED BY <1>1, Invariance, PTL

-----------------------------------------------------------------------------
(***************************************************************************)
(* The server implements ConnectionLending, for any finite set of          *)
(* connections: the steps of Server map to those of the pool's promise, or *)
(* to nothing.                                                             *)
(***************************************************************************)

\* A session whose socket has closed has a release in its list until it has released.
SessionLife(s) ==
    /\ socket[s] = "none" => promise[s] = "none"
    /\ socket[s] = "closed" /\ returned[s] = 0 /\ promise[s] # "failed" =>
          \E i \in DOMAIN thens[s] : thens[s][i] = Release

\* A request that is over, or has not asked yet, is owed nothing and owes nothing.
RequestLife(x) ==
    stage[x] \in {"none", "reading", "done"} =>
        /\ promise[x] # "pending"
        /\ promise[x] = "fulfilled" => returned[x] # 0

Life == (\A s \in Session : SessionLife(s)) /\ (\A x \in Request : RequestLife(x))

-----------------------------------------------------------------------------
(* Life is invariant.                                                      *)

LEMMA InitLife == Init => Life
BY Disjoint DEF Init, Life, SessionLife, RequestLife

LEMMA SessionLifeFrame ==
    ASSUME NEW s \in Session, SessionLife(s), promise'[s] = promise[s],
           returned'[s] = returned[s], thens'[s] = thens[s],
           socket'[s] = socket[s] \/ socket'[s] \notin {"none", "closed"}
    PROVE  SessionLife(s)'
BY DEF SessionLife

LEMMA OwnSessionLife ==
    ASSUME TypeOK, NEW s \in Session, SessionLife(s),
           \/ Upgrade(s) \/ RunThen(s) \/ SocketError(s) \/ SocketClosed(s)
           \/ \E m \in Message : Receive(s, m)
           \/ SessionRefused(s) \/ \E c \in Conn : SessionAcquires(s, c)
    PROVE  SessionLife(s)'
<1> USE Disjoint DEF TypeOK
<1>1. CASE Upgrade(s)
  BY <1>1 DEF Upgrade, SessionLife
<1>2. CASE RunThen(s)
  <2> DEFINE q == thens[s]
  <2>1. /\ q \in Seq(Message \cup {Release}) /\ q # <<>> /\ thens'[s] = Tail(q)
        /\ UNCHANGED <<promise, socket>>
    BY <1>2 DEF RunThen
  <2>2. CASE Head(q) = Release /\ promise[s] = "fulfilled"
    <3>1. returned'[s] = returned[s] + 1 /\ returned[s] \in Nat
      BY <1>2, <2>2 DEF RunThen, Return
    <3>2. returned'[s] # 0
      BY <3>1
    <3> QED BY <2>1, <3>2 DEF SessionLife
  <2>3. CASE Head(q) # Release
    <3>1. ASSUME NEW i \in DOMAIN q, q[i] = Release
          PROVE  \E j \in DOMAIN Tail(q) : Tail(q)[j] = Release
      <4>1. i \in 2 .. Len(q) /\ Len(q) \in Nat
        BY <2>1, <2>3, <3>1, Tails
      <4>2. i - 1 \in DOMAIN Tail(q) /\ Tail(q)[i - 1] = q[i]
        BY <2>1, <4>1, Tails
      <4> QED BY <3>1, <4>2
    <3>2. returned' = returned
      BY <1>2, <2>3 DEF RunThen
    <3> QED BY <2>1, <3>1, <3>2 DEF SessionLife
  <2>4. CASE promise[s] = "failed"
    BY <2>1, <2>4 DEF SessionLife
  <2> QED BY <1>2, <2>2, <2>3, <2>4 DEF RunThen
<1>3. CASE SocketError(s)
  BY <1>3 DEF SocketError, SessionLife
<1>4. CASE SocketClosed(s)
  <2>1. thens'[s] = Append(thens[s], Release) /\ socket'[s] = "closed"
    BY <1>4 DEF SocketClosed, ThenRelease
  <2>2. thens[s] \in Seq(Message \cup {Release})
    OBVIOUS
  <2>3. Len(thens[s]) + 1 \in DOMAIN thens'[s] /\ thens'[s][Len(thens[s]) + 1] = Release
    BY <2>1, <2>2, Appends
  <2> QED BY <2>1, <2>3 DEF SessionLife
<1>5. CASE \E m \in Message : Receive(s, m)
  BY <1>5 DEF Receive, SessionLife
<1>6. CASE SessionRefused(s)
  BY <1>6 DEF SessionRefused, Refuse, CloseSocket, SessionLife
<1>7. CASE \E c \in Conn : SessionAcquires(s, c)
  BY <1>7 DEF SessionAcquires, Lend, SessionLife, sessionVars
<1> QED BY <1>1, <1>2, <1>3, <1>4, <1>5, <1>6, <1>7

LEMMA SessionLifeStep ==
    ASSUME Inv, Life, [Next]_vars, NEW s \in Session
    PROVE  SessionLife(s)'
<1> USE Disjoint
<1>0. SessionLife(s) /\ TypeOK
  BY DEF Inv, Life
<1>1. CASE UNCHANGED vars
  BY <1>0, <1>1, SessionLifeFrame DEF vars, loanVars, sessionVars
<1>2. ASSUME NEW t \in Session, t # s,
             \/ Upgrade(t) \/ RunThen(t) \/ SocketError(t) \/ SocketClosed(t)
             \/ \E m \in Message : Receive(t, m)
             \/ SessionRefused(t) \/ \E c \in Conn : SessionAcquires(t, c)
      PROVE  SessionLife(s)'
  <2>1. /\ socket'[s] = socket[s] /\ thens'[s] = thens[s]
        /\ returned'[s] = returned[s] /\ promise'[s] = promise[s]
    <3> USE <1>0, <1>2 DEF TypeOK, loanVars, sessionVars
    <3>1. CASE Upgrade(t)
      BY <3>1 DEF Upgrade, Acquire
    <3>2. CASE RunThen(t)
      BY <3>2 DEF RunThen, Return
    <3>3. CASE SocketError(t) \/ SocketClosed(t)
      BY <3>3 DEF SocketError, SocketClosed, ThenRelease
    <3>4. CASE \E m \in Message : Receive(t, m)
      BY <3>4 DEF Receive, ThenQuery
    <3>5. CASE SessionRefused(t)
      BY <3>5 DEF SessionRefused, Refuse, CloseSocket
    <3>6. CASE \E c \in Conn : SessionAcquires(t, c)
      BY <3>6 DEF SessionAcquires, Lend
    <3> QED BY <1>2, <3>1, <3>2, <3>3, <3>4, <3>5, <3>6
  <2> QED BY <1>0, <2>1, SessionLifeFrame
<1>3. ASSUME NEW x \in Request,
             \/ Arrive(x) \/ BodyRead(x) \/ BodyFails(x)
             \/ RequestRefused(x) \/ \E c \in Conn : RequestAcquires(x, c)
      PROVE  SessionLife(s)'
  <2>1. UNCHANGED sessionVars /\ x # s
    BY <1>3 DEF Arrive, BodyRead, BodyFails, RequestRefused, RequestAcquires
  <2>2. returned'[s] = returned[s] /\ promise'[s] = promise[s]
    BY <1>0, <1>3, <2>1 DEF Arrive, BodyRead, BodyFails, RequestRefused, RequestAcquires,
        Acquire, Refuse, Lend, TypeOK, loanVars
  <2> QED BY <1>0, <2>1, <2>2, SessionLifeFrame DEF sessionVars
<1>4. ASSUME NEW c \in Conn, SessionQueryEnds(c) PROVE SessionLife(s)'
  <2>1. /\ UNCHANGED <<thens, returned, promise>>
        /\ socket'[s] = socket[s] \/ socket'[s] = "closing"
    BY <1>0, <1>4 DEF SessionQueryEnds, SendAnswer, OnSendError, CloseSocket, TypeOK, loanVars
  <2> QED BY <1>0, <2>1, SessionLifeFrame
<1>5. ASSUME NEW c \in Conn, RequestQueryEnds(c) PROVE SessionLife(s)'
  <2>1. UNCHANGED <<promise, socket, thens>> /\ returned'[s] = returned[s]
    BY <1>0, <1>5 DEF RequestQueryEnds, Return, TypeOK, sessionVars
  <2> QED BY <1>0, <2>1, SessionLifeFrame
<1>6. ASSUME NEW c \in Conn, RecycleEnds(c) \/ BorrowTimeout(c) \/ Create(c) PROVE SessionLife(s)'
  BY <1>0, <1>6, SessionLifeFrame DEF RecycleEnds, BorrowTimeout, Create, loanVars, sessionVars
<1>7. CASE Stop \/ PoolStops
  BY <1>0, <1>7, SessionLifeFrame DEF Stop, PoolStops, loanVars, sessionVars
<1>8. ASSUME NEW t \in Session,
             \/ Upgrade(t) \/ RunThen(t) \/ SocketError(t) \/ SocketClosed(t)
             \/ \E m \in Message : Receive(t, m)
             \/ SessionRefused(t) \/ \E c \in Conn : SessionAcquires(t, c)
      PROVE  SessionLife(s)'
  BY <1>0, <1>2, <1>8, OwnSessionLife
<1> QED BY <1>1, <1>3, <1>4, <1>5, <1>6, <1>7, <1>8 DEF Next, Acquisition, JobEnds

LEMMA RequestLifeStep ==
    ASSUME Inv, Life, [Next]_vars, NEW x \in Request
    PROVE  RequestLife(x)'
<1> USE Disjoint
<1>0. RequestLife(x) /\ TypeOK
  BY DEF Inv, Life
<1>1. CASE /\ stage'[x] = stage[x] /\ promise'[x] = promise[x]
           /\ returned'[x] = returned[x]
  BY <1>0, <1>1 DEF RequestLife
<1>2. CASE UNCHANGED vars
  BY <1>1, <1>2 DEF vars, loanVars
<1>3. ASSUME NEW t \in Session,
             \/ Upgrade(t) \/ RunThen(t) \/ SocketError(t) \/ SocketClosed(t)
             \/ \E m \in Message : Receive(t, m)
             \/ SessionRefused(t) \/ \E c \in Conn : SessionAcquires(t, c)
      PROVE  RequestLife(x)'
  <2>1. t # x /\ t \in Client
    OBVIOUS
  <2>2. /\ stage'[x] = stage[x] /\ promise'[x] = promise[x]
        /\ returned'[x] = returned[x]
    <3>1. CASE Upgrade(t) \/ RunThen(t)
      BY <1>0, <2>1, <3>1 DEF Upgrade, RunThen, Acquire, Return, TypeOK
    <3>2. CASE SocketError(t) \/ SocketClosed(t) \/ \E m \in Message : Receive(t, m)
      BY <3>2 DEF SocketError, SocketClosed, Receive, loanVars
    <3>3. CASE SessionRefused(t) \/ \E c \in Conn : SessionAcquires(t, c)
      BY <1>0, <2>1, <3>3 DEF SessionRefused, SessionAcquires, Refuse, Lend, TypeOK
    <3> QED BY <1>3, <3>1, <3>2, <3>3
  <2> QED BY <1>1, <2>2
<1>4. ASSUME NEW y \in Request, y # x,
             \/ Arrive(y) \/ BodyRead(y) \/ BodyFails(y)
             \/ RequestRefused(y) \/ \E c \in Conn : RequestAcquires(y, c)
      PROVE  RequestLife(x)'
  <2>1. /\ stage'[x] = stage[x] /\ promise'[x] = promise[x]
        /\ returned'[x] = returned[x]
    BY <1>0, <1>4 DEF Arrive, BodyRead, BodyFails, RequestRefused, RequestAcquires,
        Acquire, Refuse, Lend, TypeOK, loanVars
  <2> QED BY <1>1, <2>1
<1>5. ASSUME \/ Arrive(x) \/ BodyRead(x) \/ BodyFails(x)
             \/ RequestRefused(x) \/ \E c \in Conn : RequestAcquires(x, c)
      PROVE  RequestLife(x)'
  BY <1>0, <1>5 DEF Arrive, BodyRead, BodyFails, RequestRefused, RequestAcquires,
      Acquire, Refuse, Lend, TypeOK, loanVars, RequestLife
<1>6. ASSUME NEW c \in Conn, RequestQueryEnds(c) PROVE RequestLife(x)'
  <2>1. PICK y \in Request : /\ y = Head(work[c])[1] /\ UNCHANGED promise
                             /\ stage' = [stage EXCEPT ![y] = "done"]
                             /\ returned' = [returned EXCEPT ![y] = @ + 1]
    BY <1>6 DEF RequestQueryEnds, Return
  <2>2. CASE y # x
    BY <1>0, <1>1, <2>1, <2>2 DEF TypeOK
  <2>3. CASE y = x
    <3>1. work[c] \in Seq(Job) /\ work[c] # <<>>
      BY <1>0, <1>6 DEF RequestQueryEnds, TypeOK, Job
    <3>2. 1 \in DOMAIN work[c] /\ work[c][1][1] = y
      BY <2>1, <3>1, Tails
    <3>3. stage[x] = "querying" /\ Has(x, c)
      BY <2>3, <3>2 DEF Inv, Queue
    <3>4. promise[x] = "fulfilled" /\ returned[x] \in Nat /\ returned'[x] = returned[x] + 1
      BY <1>0, <2>1, <2>3, <3>3 DEF Has, TypeOK
    <3>5. promise'[x] = "fulfilled" /\ returned'[x] # 0
      BY <2>1, <3>4
    <3> QED BY <3>5 DEF RequestLife
  <2> QED BY <2>2, <2>3
<1>7. ASSUME NEW c \in Conn,
             SessionQueryEnds(c) \/ RecycleEnds(c) \/ BorrowTimeout(c) \/ Create(c)
      PROVE  RequestLife(x)'
  BY <1>1, <1>7 DEF SessionQueryEnds, RecycleEnds, BorrowTimeout, Create, loanVars
<1>8. CASE Stop \/ PoolStops
  BY <1>1, <1>8 DEF Stop, PoolStops, loanVars
<1> QED BY <1>2, <1>3, <1>4, <1>5, <1>6, <1>7, <1>8 DEF Next, Acquisition, JobEnds

-----------------------------------------------------------------------------
(* The mapping.                                                            *)

Asked == [x \in Client |-> IF promise[x] = "fulfilled" THEN "resolved"
                           ELSE IF promise[x] = "failed" THEN "rejected"
                           ELSE promise[x]]

LendStep == [Lending!Next]_(Lending!vars)

LEMMA Mapped ==
    /\ Lending!vars = <<Asked, Loans>>
    /\ Lending!vars' = <<Asked', Loans'>>
BY DEF Lending!vars, Asked

\* Connections go back to the pool, or are evicted.
LEMMA LoansEnd ==
    ASSUME UNCHANGED promise, Loans' \subseteq Loans
    PROVE  LendStep
<1>1. Asked' = Asked
  BY DEF Asked
<1>2. PICK E \in SUBSET Loans : Loans' = Loans \ E
  <2>1. Loans \ Loans' \in SUBSET Loans /\ Loans' = Loans \ (Loans \ Loans')
    OBVIOUS
  <2> QED BY <2>1
<1>3. Lending!RefuseAndEnd({}, E)
  BY <1>1, <1>2 DEF Lending!RefuseAndEnd, Asked
<1>4. {} \in SUBSET Client
  OBVIOUS
<1> QED BY <1>3, <1>4 DEF LendStep, Lending!Next

\* The pool gives up.
LEMMA Refused ==
    ASSUME TypeOK, NEW x \in Client, Refuse(x)
    PROVE  LendStep
<1>1. Loans' = Loans
  BY DEF Refuse, Loans, Using, Evicted, poolVars
<1>2. Lending!RefuseAndEnd({x}, {})
  BY <1>1 DEF Lending!RefuseAndEnd, Refuse, TypeOK
<1> QED BY <1>2 DEF LendStep, Lending!Next

\* A client whose loan has ended acquires.
LEMMA Asks ==
    ASSUME TypeOK, NEW x \in Client, Acquire(x), UNCHANGED link, promise[x] # "pending",
           promise[x] = "fulfilled" => returned[x] # 0
    PROVE  LendStep
<1>1. \A c \in Conn : ~Using(x, c)
  BY Disjoint DEF Using, TypeOK
<1>2. \A y \in Client, c \in Conn : Using(y, c)' <=> Using(y, c)
  BY <1>1, Disjoint DEF Acquire, Using, Evicted, TypeOK
<1>3. Loans' = Loans
  BY <1>2 DEF Loans
<1>4. Lending!Ask(x)
  BY <1>1, <1>3 DEF Lending!Ask, Loans, Acquire, TypeOK
<1> QED BY <1>4 DEF LendStep, Lending!Next

\* No two loans are of the same connection, so a connection that can be lent leaves
\* room for it among those that exist.
LEMMA Room ==
    ASSUME IsFiniteSet(Conn), Inv, NEW c \in Conn, \A x \in Client : ~Using(x, c)
    PROVE  Cardinality(Loans) < Cardinality(Conn)
<1> DEFINE S == Conn \ {c}
<1> DEFINE f == [l \in Loans |-> l[2]]
<1>1. \A d \in Conn, x, y \in Client : Using(x, d) /\ Using(y, d) => x = y
  BY DEF Inv, Queue, Has, Using
<1>2. \A l \in Loans : l[1] \in Client /\ l[2] \in S /\ Using(l[1], l[2]) /\ l = <<l[1], l[2]>>
  BY DEF Loans
<1>3. \A l, m \in Loans : l[2] = m[2] => l = m
  <2> SUFFICES ASSUME NEW l \in Loans, NEW m \in Loans, l[2] = m[2] PROVE l = m
    OBVIOUS
  <2>1. l[1] = m[1]
    BY <1>1, <1>2
  <2> QED BY <1>2, <2>1
<1>4. f \in Injection(Loans, S)
  BY <1>2, <1>3 DEF Injection, IsInjective
<1>5. IsFiniteSet(S) /\ Cardinality(S) = Cardinality(Conn) - 1 /\ Cardinality(Conn) \in Nat
  BY FS_RemoveElement, FS_CardinalityType
<1>6. IsFiniteSet(Loans) /\ Cardinality(Loans) <= Cardinality(S) /\ Cardinality(Loans) \in Nat
  BY <1>4, <1>5, FS_Injection, FS_CardinalityType
<1> QED BY <1>5, <1>6

\* The pool lends.
LEMMA Granted ==
    ASSUME IsFiniteSet(Conn), Inv, NEW x \in Client, NEW c \in Conn, Lend(x, c)
    PROVE  LendStep
<1> USE Disjoint
<1>1. /\ \A y \in Client : ~Using(y, c)
      /\ promise[x] = "pending" /\ promise' = [promise EXCEPT ![x] = "fulfilled"]
      /\ lent' = [lent EXCEPT ![x] = c] /\ UNCHANGED <<returned, link>> /\ ~Evicted(c)
  BY DEF Lend, Inv, Queue, Has, Using, Evicted
<1>2. TypeOK /\ returned[x] = 0
  BY <1>1 DEF Inv, SessionInv, RequestInv, Client
<1>3. \A y \in Client, d \in Conn : Using(y, d)' <=> Using(y, d) \/ (y = x /\ d = c)
  BY <1>1, <1>2 DEF Using, Evicted, TypeOK
<1>4. Loans' = Loans \cup {<<x, c>>}
  BY <1>3 DEF Loans
<1>5. Asked[x] = "pending" /\ Asked' = [Asked EXCEPT ![x] = "resolved"]
  <2>1. promise \in [Client -> {"none", "pending", "fulfilled", "failed"}]
    BY <1>2 DEF TypeOK
  <2>2. Asked[x] = "pending"
    BY <1>1 DEF Asked
  <2>3. Asked'[x] = "resolved" /\ \A y \in Client : y # x => Asked'[y] = Asked[y]
    BY <1>1, <2>1 DEF Asked
  <2>4. DOMAIN Asked = Client /\ DOMAIN Asked' = Client
    BY DEF Asked
  <2>5. Asked = [y \in Client |-> Asked[y]] /\ Asked' = [y \in Client |-> Asked'[y]]
    BY DEF Asked
  <2> HIDE DEF Asked
  <2> QED BY <2>2, <2>3, <2>4, <2>5
<1>6. \A y \in Client : <<y, c>> \notin Loans
  BY <1>1 DEF Loans
<1>7. Lending!Cardinality(Loans) < Cardinality(Conn)
  <2>1. Lending!Cardinality(Loans) = Cardinality(Loans)
    BY DEF Lending!Cardinality, Cardinality
  <2> QED BY <1>1, <2>1, Room
<1>8. Lending!Grant(x, c)
  BY <1>4, <1>5, <1>6, <1>7 DEF Lending!Grant, Asked
<1> QED BY <1>8 DEF LendStep, Lending!Next

LEMMA FewerLoans ==
    ASSUME UNCHANGED <<promise, lent>>,
           \A x \in Client : returned[x] # 0 => returned'[x] # 0,
           \A x \in Client, c \in Conn : lent[x] = c /\ Evicted(c) => Evicted(c)'
    PROVE  LendStep
<1>1. Loans' \subseteq Loans
  BY DEF Loans, Using
<1> QED BY <1>1, LoansEnd

-----------------------------------------------------------------------------
(* Every step is a step of the promise.                                    *)

LEMMA NextLends ==
    ASSUME IsFiniteSet(Conn), Inv, Life, [Next]_vars
    PROVE  LendStep
<1> USE Disjoint
<1>0. TypeOK
  BY DEF Inv
<1>1. CASE UNCHANGED loanVars /\ \A c \in Conn : Evicted(c) => Evicted(c)'
  BY <1>1, FewerLoans DEF loanVars
<1>2. CASE UNCHANGED vars
  BY <1>1, <1>2 DEF vars, poolVars, Evicted
<1>3. ASSUME NEW s \in Session, Upgrade(s) PROVE LendStep
  <2>1. Acquire(s) /\ UNCHANGED link /\ Gone(s)
    BY <1>3 DEF Upgrade, poolVars
  <2>2. promise[s] # "pending" /\ (promise[s] = "fulfilled" => returned[s] # 0)
    BY <2>1 DEF Gone, Life, SessionLife
  <2> QED BY <1>0, <2>1, <2>2, Asks
<1>4. ASSUME NEW x \in Request, Arrive(x) \/ BodyRead(x) PROVE LendStep
  <2>1. stage[x] \in {"none", "reading", "done"} /\ UNCHANGED link
    BY <1>4 DEF Arrive, BodyRead, poolVars
  <2>2. promise[x] # "pending" /\ (promise[x] = "fulfilled" => returned[x] # 0)
    BY <2>1 DEF Life, RequestLife
  <2>3. CASE Acquire(x)
    BY <1>0, <2>1, <2>2, <2>3, Asks
  <2>4. CASE UNCHANGED loanVars
    BY <1>1, <2>1, <2>4 DEF Evicted
  <2> QED BY <1>4, <2>3, <2>4 DEF Arrive, BodyRead
<1>5. ASSUME NEW x \in Client, Acquisition(x) PROVE LendStep
  BY <1>0, <1>5, Refused, Granted DEF Acquisition, SessionAcquires, SessionRefused,
      RequestAcquires, RequestRefused
<1>6. ASSUME NEW s \in Session, RunThen(s) PROVE LendStep
  <2>1. /\ UNCHANGED <<promise, lent>> /\ \A c \in Conn : Evicted(c) => Evicted(c)'
        /\ returned' \in {returned, [returned EXCEPT ![s] = @ + 1]}
    BY <1>0, <1>6 DEF RunThen, Return, Enqueue, EvictLink, Evicted, poolVars, TypeOK
  <2>2. \A x \in Client : returned[x] # 0 => returned'[x] # 0
    BY <1>0, <2>1 DEF TypeOK
  <2> QED BY <2>1, <2>2, FewerLoans
<1>7. ASSUME NEW c \in Conn, RequestQueryEnds(c) PROVE LendStep
  <2>1. PICK x \in Request : Return(x, c, Tail(work[c])) /\ UNCHANGED <<promise, lent>>
    BY <1>7 DEF RequestQueryEnds
  <2>2. \A d \in Conn : Evicted(d) => Evicted(d)'
    BY <1>0, <2>1 DEF Return, EvictLink, Evicted, TypeOK
  <2>3. \A y \in Client : returned[y] # 0 => returned'[y] # 0
    BY <1>0, <2>1 DEF Return, TypeOK
  <2> QED BY <2>1, <2>2, <2>3, FewerLoans
<1>8. ASSUME NEW c \in Conn, SessionQueryEnds(c) \/ RecycleEnds(c) \/ BorrowTimeout(c)
      PROVE  LendStep
  <2>1. \A d \in Conn : Evicted(d) => Evicted(d)'
    BY <1>0, <1>8 DEF SessionQueryEnds, RecycleEnds, BorrowTimeout, Break, EvictLink, Evicted, TypeOK
  <2> QED BY <1>1, <1>8, <2>1 DEF SessionQueryEnds, RecycleEnds, BorrowTimeout
<1>9. ASSUME NEW c \in Conn, Create(c) PROVE LendStep
  <2>1. UNCHANGED loanVars /\ \A x \in Client : lent[x] # c
        /\ link' = [link EXCEPT ![c] = "up"]
    BY <1>9 DEF Create
  <2>2. \A x \in Client, d \in Conn : lent[x] = d /\ Evicted(d) => Evicted(d)'
    BY <1>0, <2>1 DEF Evicted, TypeOK
  <2> QED BY <2>1, <2>2, FewerLoans DEF loanVars
<1>10. CASE PoolStops
  BY <1>0, <1>1, <1>10 DEF PoolStops, EvictLink, Evicted, TypeOK
<1>11. ASSUME NEW s \in Session,
              SocketError(s) \/ SocketClosed(s) \/ \E m \in Message : Receive(s, m)
       PROVE  LendStep
  BY <1>1, <1>11 DEF SocketError, SocketClosed, Receive, poolVars, Evicted
<1>12. ASSUME NEW x \in Request, BodyFails(x) PROVE LendStep
  BY <1>1, <1>12 DEF BodyFails, poolVars, Evicted
<1>13. CASE Stop
  BY <1>1, <1>13 DEF Stop, poolVars, Evicted
<1> QED BY <1>2, <1>3, <1>4, <1>5, <1>6, <1>7, <1>8, <1>9, <1>10, <1>11, <1>12, <1>13
        DEF Next, JobEnds

LEMMA InitLends == Init => Lending!Init
<1> SUFFICES ASSUME Init PROVE Lending!Init
  OBVIOUS
<1>1. Loans = {}
  BY Disjoint DEF Init, Loans, Using
<1> QED BY <1>1 DEF Init, Lending!Init

\* As long as no socket fails, what the server does with its pool is what the pool
\* promises: a client asks once for each loan, and a connection is lent to one of them.
THEOREM ImplementsLending ==
    ASSUME IsFiniteSet(Conn), "socketError" \notin Events
    PROVE  Spec => LentToOne
<1>1. Init => Life
  BY InitLife
<1>2. Inv /\ Life /\ [Next]_vars => Life'
  BY SessionLifeStep, RequestLifeStep DEF Life
<1>3. Inv /\ Life /\ [Next]_vars => [Lending!Next]_(Lending!vars)
  BY NextLends DEF LendStep
<1> QED BY <1>1, <1>2, <1>3, Invariance, InitLends, PTL DEF Spec, LentToOne, Lending!Spec

-----------------------------------------------------------------------------
(* The process of the server, and the tokens it has accepted.              *)

States == {"starting", "listening", "closing"}

\* What happened to a token the running server has accepted: it is remembered,
\* until after its timestamp has left the window, or it has left it already.
Remembered(t) ==
    /\ accepted[t] \in {0, 1}
    /\ stamp[t] = -1 => accepted[t] = 0
    /\ accepted[t] = 1 => \/ tokens[t] # 0 /\ tokens[t] >= stamp[t] + Window - 1
                          \/ now >= stamp[t] + Window

\* The server of the moment is the only one there is: those before it closed,
\* those after it were not made.
Order ==
    /\ \A i \in Server : i < server => state[i] = "closed"
    /\ \A i \in Server : i > server => state[i] = "none"

Generations ==
    /\ Order
    /\ state[server] \in States \cup {"closed"}
    /\ Alive => state[server] \in States
    /\ then = "restart" => server < MaxServers

ProcessInv ==
    /\ ProcessTypeOK
    /\ \A t \in Token : Remembered(t)
    /\ Generations

-----------------------------------------------------------------------------
LEMMA ProcessInitInv == ProcessInit => ProcessInv
<1> SUFFICES ASSUME ProcessInit PROVE ProcessInv
  OBVIOUS
<1> USE TimeAssumption, BoundsAssumption
<1>1. server = 1 /\ 1 \in Server /\ state = [i \in Server |-> IF i = 1 THEN "listening" ELSE "none"]
  BY DEF ProcessInit, Server
<1>2. OneServer
  BY <1>1 DEF OneServer, Server
<1>3. ProcessTypeOK
  BY <1>1, <1>2 DEF ProcessInit, ProcessTypeOK, None
<1>4. \A t \in Token : Remembered(t)
  BY DEF ProcessInit, Remembered, None
<1>5. Generations
  BY <1>1 DEF ProcessInit, Generations, Order, Server, States
<1> QED BY <1>3, <1>4, <1>5 DEF ProcessInv

\* Generations leave room for one server only.
LEMMA OneOfThem ==
    ASSUME server \in Server, Order
    PROVE  OneServer
BY DEF Order, OneServer, Server

-----------------------------------------------------------------------------
(* The steps of the clients and of time.                                   *)

LEMMA TickInv == ProcessInv /\ Tick => ProcessInv'
<1> SUFFICES ASSUME ProcessInv, Tick PROVE ProcessInv'
  OBVIOUS
<1> USE TimeAssumption, BoundsAssumption
<1>1. ProcessTypeOK' /\ Generations'
  BY DEF ProcessInv, Tick, ProcessTypeOK, OneServer, Generations, Order, clients, process, Alive
<1>2. \A t \in Token : Remembered(t)'
  BY DEF ProcessInv, Tick, ProcessTypeOK, Remembered, clients
<1> QED BY <1>1, <1>2 DEF ProcessInv

LEMMA CreateTokenInv ==
    ASSUME ProcessInv, NEW u \in Token, CreateToken(u)
    PROVE  ProcessInv'
<1> USE TimeAssumption, BoundsAssumption
<1>1. PICK skew \in Skews : now + skew >= 0 /\ stamp' = [stamp EXCEPT ![u] = now + skew]
  BY DEF CreateToken
<1>2. now + skew \in Int
  BY DEF ProcessInv, ProcessTypeOK
<1>3. stamp' \in [Token -> Int]
  BY <1>1, <1>2 DEF ProcessInv, ProcessTypeOK
<1>4. ProcessTypeOK' /\ Generations'
  BY <1>3 DEF ProcessInv, CreateToken, ProcessTypeOK, OneServer, Generations, Order, process, Alive
<1>5. ASSUME NEW t \in Token PROVE Remembered(t)'
  <2>1. CASE t = u
    BY <2>1, <1>1, <1>2 DEF ProcessInv, ProcessTypeOK, CreateToken, Remembered
  <2>2. CASE t # u
    BY <2>2, <1>1 DEF ProcessInv, ProcessTypeOK, CreateToken, Remembered
  <2> QED BY <2>1, <2>2
<1> QED BY <1>4, <1>5 DEF ProcessInv

LEMMA PresentInv ==
    ASSUME ProcessInv, NEW u \in Token, Present(u)
    PROVE  ProcessInv'
<1> USE TimeAssumption, BoundsAssumption
<1>1. /\ now \in Nat /\ stamp \in [Token -> Int] /\ tokens \in [Token -> Nat]
      /\ accepted \in [Token -> Nat]
  BY DEF ProcessInv, ProcessTypeOK
<1>2. stamp[u] - now < Window /\ now - stamp[u] < Window
  BY <1>1 DEF Present, VerifyToken, Abs
\* A token that was accepted and forgotten has left the window.
<1>3. accepted[u] = 0
  BY <1>1, <1>2 DEF ProcessInv, Remembered, Present
<1>4. tokens' = [tokens EXCEPT ![u] = now + Retain] /\ now + Retain \in Nat \ {0}
  BY <1>1 DEF Present, Expiry
<1>5. accepted' = [accepted EXCEPT ![u] = 1]
  BY <1>1, <1>3 DEF Present
<1>6. ProcessTypeOK' /\ Generations'
  <2>1. tokens' \in [Token -> Nat] /\ accepted' \in [Token -> Nat] /\ sessions' \subseteq Token
    BY <1>1, <1>4, <1>5 DEF Present, ProcessInv, ProcessTypeOK
  <2> QED BY <2>1 DEF ProcessInv, Present, ProcessTypeOK, OneServer, Generations, Order, process, Alive
<1>7. ASSUME NEW t \in Token PROVE Remembered(t)'
  <2>1. CASE t = u
    <3>1. /\ accepted'[t] = 1 /\ tokens'[t] = now + Retain /\ stamp' = stamp /\ now' = now
          /\ stamp[t] # -1
      BY <2>1, <1>1, <1>4, <1>5 DEF Present
    <3> QED BY <3>1, <2>1, <1>1, <1>2 DEF Remembered
  <2>2. CASE t # u
    BY <2>2, <1>1, <1>4, <1>5 DEF ProcessInv, Present, Remembered
  <2> QED BY <2>1, <2>2
<1> QED BY <1>6, <1>7 DEF ProcessInv

LEMMA WipeInv == ProcessInv /\ Wipe => ProcessInv'
<1> SUFFICES ASSUME ProcessInv, Wipe PROVE ProcessInv'
  OBVIOUS
<1> USE TimeAssumption, BoundsAssumption
<1>1. /\ now \in Nat /\ stamp \in [Token -> Int] /\ tokens \in [Token -> Nat]
      /\ accepted \in [Token -> Nat]
  BY DEF ProcessInv, ProcessTypeOK
<1>2. tokens' = [t \in Token |-> IF tokens[t] < now THEN 0 ELSE tokens[t]]
  BY DEF Wipe
<1>3. tokens' \in [Token -> Nat]
  BY <1>1, <1>2
<1>4. ProcessTypeOK' /\ Generations'
  BY <1>3 DEF ProcessInv, Wipe, ProcessTypeOK, OneServer, Generations, Order, process, Alive
<1>5. ASSUME NEW t \in Token PROVE Remembered(t)'
  BY <1>1, <1>2 DEF ProcessInv, Wipe, Remembered
<1> QED BY <1>4, <1>5 DEF ProcessInv

LEMMA LeaveInv ==
    ASSUME ProcessInv, NEW u \in Token, Leave(u)
    PROVE  ProcessInv'
BY DEF ProcessInv, Leave, ProcessTypeOK, OneServer, Generations, Order, process, Alive, Remembered

-----------------------------------------------------------------------------
(* The steps of the process.                                               *)

LEMMA EditInv == ProcessInv /\ Edit => ProcessInv'
BY BoundsAssumption DEF ProcessInv, Edit, ProcessTypeOK, OneServer, Generations, Order, clients, Alive, Remembered

\* stop() closes the server that listens, or ends the process.
LEMMA StopInv ==
    ASSUME ProcessInv, Alive, NEW after \in {"restart", "exit"}, StopServer(after),
           UNCHANGED <<now, stamp, tokens, accepted, server, disk>>,
           options' \in (0 .. MaxEdits) \ Invalid,
           after = "restart" => server < MaxServers
    PROVE  ProcessInv'
<1>1. \A t \in Token : Remembered(t)'
  BY DEF ProcessInv, Remembered
<1>2. server \in Server /\ state \in [Server -> States \cup {"none", "closed"}]
  BY DEF ProcessInv, ProcessTypeOK, States
<1>3. CASE state[server] = "listening" /\ state' = [state EXCEPT ![server] = "closing"]
           /\ then' = after /\ UNCHANGED <<exit, sessions>>
  <2>1. Order' /\ state'[server'] \in States
    BY <1>2, <1>3 DEF ProcessInv, Generations, Order, States, Server
  <2>2. OneServer'
    BY <2>1, <1>2 DEF Order, OneServer, Server
  <2>3. ProcessTypeOK'
    BY <2>2, <1>2, <1>3 DEF ProcessInv, ProcessTypeOK
  <2> QED BY <1>1, <1>3, <2>1, <2>3 DEF ProcessInv, Generations
<1>4. CASE exit' = 1 /\ sessions' = {} /\ UNCHANGED <<state, then>>
  BY <1>1, <1>4 DEF ProcessInv, ProcessTypeOK, OneServer, Generations, Order, Alive
<1> QED BY <1>3, <1>4 DEF StopServer

LEMMA HangupInv == ProcessInv /\ Hangup => ProcessInv'
<1> SUFFICES ASSUME ProcessInv, Hangup PROVE ProcessInv'
  OBVIOUS
<1>1. options' \in (0 .. MaxEdits) \ Invalid
  BY BoundsAssumption DEF Hangup, ReadConfigs, ProcessInv, ProcessTypeOK
<1> QED BY <1>1, StopInv DEF Hangup

LEMMA InterruptInv == ProcessInv /\ Interrupt => ProcessInv'
<1> SUFFICES ASSUME ProcessInv, Interrupt PROVE ProcessInv'
  OBVIOUS
<1>1. options' \in (0 .. MaxEdits) \ Invalid
  <2>1. options' = options
    BY DEF Interrupt
  <2>2. options \in (0 .. MaxEdits) \ Invalid
    BY DEF ProcessInv, ProcessTypeOK
  <2> QED BY <2>1, <2>2
<1> QED BY <1>1, StopInv DEF Interrupt

LEMMA ClosedInv == ProcessInv /\ Closed => ProcessInv'
<1> SUFFICES ASSUME ProcessInv, Closed PROVE ProcessInv'
  OBVIOUS
<1> USE BoundsAssumption
<1>1. /\ server \in Server /\ state \in [Server -> States \cup {"none", "closed"}]
      /\ Order
  BY DEF ProcessInv, ProcessTypeOK, States, Generations
<1>2. CASE then = "exit" /\ exit' = 0 /\ state' = [state EXCEPT ![server] = "closed"]
           /\ UNCHANGED <<server, tokens, accepted>>
  <2>1. Order' /\ state'[server'] = "closed" /\ server' \in Server
    BY <1>1, <1>2 DEF Order, Server
  <2>2. OneServer'
    BY <2>1 DEF Order, OneServer, Server
  <2>3. ProcessTypeOK' /\ \A t \in Token : Remembered(t)'
    BY <2>2, <1>1, <1>2 DEF ProcessInv, Closed, ProcessTypeOK, Remembered
  <2>4. Generations'
    BY <2>1, <1>2 DEF Generations, Alive, Closed
  <2> QED BY <2>3, <2>4 DEF ProcessInv
<1>3. CASE /\ then = "restart" /\ server' = server + 1
           /\ state' = [state EXCEPT ![server] = "closed", ![server + 1] = "starting"]
           /\ tokens' = None /\ accepted' = None /\ UNCHANGED exit
  <2>1. server < MaxServers
    BY <1>3 DEF ProcessInv, Generations
  <2>2. server + 1 \in Server /\ server + 1 # server
    BY <1>1, <2>1 DEF Server
  <2>3. Order' /\ state'[server'] = "starting"
    BY <1>1, <1>3, <2>2 DEF Order, Server
  <2>4. state' \in [Server -> States \cup {"none", "closed"}]
    BY <1>1, <1>3, <2>2 DEF States
  <2>5. OneServer'
    <3>1. server' \in Server
      BY <2>2, <1>3
    <3> QED BY <2>3, <3>1 DEF Order, OneServer, Server
  <2>6. None \in [Token -> Nat]
    BY DEF None
  <2>7. ProcessTypeOK'
    BY <2>2, <2>4, <2>5, <2>6, <1>3 DEF ProcessInv, Closed, ProcessTypeOK, States
  <2>8. \A t \in Token : Remembered(t)'
    BY <1>3 DEF Remembered, None
  <2> QED BY <2>3, <2>7, <2>8 DEF ProcessInv, Generations, States, Closed
<1> QED BY <1>2, <1>3 DEF Closed

LEMMA StartedInv == ProcessInv /\ (Started \/ StartFails) => ProcessInv'
<1> SUFFICES ASSUME ProcessInv, Started \/ StartFails PROVE ProcessInv'
  OBVIOUS
<1>1. server \in Server /\ state \in [Server -> States \cup {"none", "closed"}]
  BY DEF ProcessInv, ProcessTypeOK, States
<1>2. \A t \in Token : Remembered(t)'
  BY DEF ProcessInv, Remembered, Started, StartFails, clients
<1>3. CASE Started
  <2>1. Order' /\ state'[server'] = "listening"
    BY <1>1, <1>3 DEF ProcessInv, Generations, Order, Server, Started
  <2>2. OneServer'
    BY <2>1, <1>1, <1>3 DEF Order, OneServer, Server, Started
  <2>3. ProcessTypeOK'
    BY <2>2, <1>1, <1>3 DEF ProcessInv, ProcessTypeOK, Started, clients
  <2> QED BY <1>2, <1>3, <2>1, <2>3 DEF ProcessInv, Generations, States, Started
<1>4. CASE StartFails
  BY <1>2, <1>4 DEF ProcessInv, ProcessTypeOK, OneServer, Generations, Order, StartFails, Alive, clients
<1> QED BY <1>3, <1>4

-----------------------------------------------------------------------------
LEMMA ProcessNextInv == ProcessInv /\ [ProcessNext]_ProcessVars => ProcessInv'
<1> SUFFICES ASSUME ProcessInv, [ProcessNext]_ProcessVars PROVE ProcessInv'
  OBVIOUS
<1>1. CASE UNCHANGED ProcessVars
  BY <1>1 DEF ProcessInv, ProcessVars, ProcessTypeOK, OneServer, Generations, Order, Remembered, Alive
<1>2. CASE Tick \/ Wipe \/ Edit
  BY <1>2, TickInv, WipeInv, EditInv
<1>3. CASE Hangup \/ Interrupt \/ Closed \/ Started \/ StartFails
  BY <1>3, HangupInv, InterruptInv, ClosedInv, StartedInv
<1>4. ASSUME NEW t \in Token, CreateToken(t) \/ Present(t) \/ Leave(t) PROVE ProcessInv'
  BY <1>4, CreateTokenInv, PresentInv, LeaveInv
<1> QED BY <1>1, <1>2, <1>3, <1>4 DEF ProcessNext

LEMMA ProcessInvariance == ProcessSpec => []ProcessInv
BY ProcessInitInv, ProcessNextInv, PTL DEF ProcessSpec

\* The state of the process is well formed: one server at a time has the port,
\* stop() is awaited only while its server closes, and a configuration that was
\* refused is never used.
THEOREM ProcessTypes == ProcessSpec => []ProcessTypeOK
<1>1. ProcessInv => ProcessTypeOK
  BY DEF ProcessInv
<1> QED BY <1>1, ProcessInvariance, PTL

\* A running server accepts a token at most once, however the clocks of the
\* clients are off, because it remembers it for as long as it would accept it:
\* the retention is at least twice the window, less two ticks.
THEOREM TokensAcceptedOnce == ProcessSpec => []AcceptedOnce
<1>1. ProcessInv => AcceptedOnce
  BY DEF ProcessInv, Remembered, AcceptedOnce
<1> QED BY <1>1, ProcessInvariance, PTL
=============================================================================
