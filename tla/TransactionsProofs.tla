-------------------------- MODULE TransactionsProofs --------------------------
(***************************************************************************)
(* Theorems about Transactions, for any users, connections and calls, and  *)
(* all events but "unnoticed": a transaction that has written nothing when *)
(* its connection is recycled, which is handed over open.                  *)
(***************************************************************************)
EXTENDS Transactions, TLAPS

Job == (User \cup {"pool"}) \X (Statements \cup {"close", "recycle"})

\* A job that a user has in line, by what the user is doing: one that has closed, or
\* only queries, is in no transaction; what is awaited is alone in line, and nothing
\* comes after close().
Fits(x, c, i) ==
    /\ conn[x] = c
    /\ \/ /\ mode[x] \in {"query", "closed"} /\ work[c][i][2] \in Queries
          /\ ~flag[x]
       \/ /\ mode[x] = "connect"
          /\ \/ work[c][i][2] \in Queries
             \/ /\ work[c][i][2] \in {"begin", "commit", "rollback"} /\ Len(work[c]) = 1
                /\ work[c][i][2] = "begin" => ~flag[x]
       \/ /\ mode[x] = "closing"
          /\ \/ work[c][i][2] \in Queries
             \/ work[c][i][2] = "close" /\ i = Len(work[c])

\* The line of a connection: jobs of one user, the one that has it if there is one;
\* then its recycling.
Line(c) ==
    /\ \A i \in DOMAIN work[c] :
          \/ work[c][i] = <<"pool", "recycle">> /\ i = Len(work[c])
          \/ work[c][i][1] \in User /\ Fits(work[c][i][1], c, i)
    /\ \A i, j \in DOMAIN work[c] :
          work[c][i][1] \in User /\ work[c][j][1] \in User => work[c][i][1] = work[c][j][1]
    /\ \A x \in Holders(c) : /\ \A i \in DOMAIN work[c] : work[c][i][1] = x
                             /\ \A y \in Holders(c) : y = x
    /\ c \in idle => work[c] = <<>> /\ Holders(c) = {}

\* A session in a transaction belongs to a user that knows it, or only waits to be
\* recycled and has written.
Known(c) == tx[c] # "none" =>
    /\ link[c] = "up"
    /\ \/ \E x \in Holders(c) : mode[x] \in {"connect", "closing"} /\ flag[x]
       \/ /\ Holders(c) = {} /\ tx[c] \in {"writing", "failed"}
          /\ work[c] = <<<<"pool", "recycle">>>>

\* What a user has written in a transaction is in that of its own session.
Written(x) ==
    /\ told[x] = "committed" => stored[x] = "committed"
    /\ told[x] = "none" => stored[x] # "pending"
    /\ stored[x] = "pending" => /\ tx[conn[x]] \in {"writing", "failed"}
                                /\ x \in Holders(conn[x]) \/ Holders(conn[x]) = {}
    /\ told[x] = "pending" /\ mode[x] = "connect" /\ link[conn[x]] = "up" =>
          stored[x] \in {"pending", "committed"} /\ tx[conn[x]] # "failed"

\* A user that is doing something, or has written, has a connection, or had it.
Placed(x) ==
    \/ conn[x] \in Conn
    \/ mode[x] = "none" /\ told[x] = "none" /\ stored[x] = "none"

Inv ==
    /\ TypeOK
    /\ \A c \in Conn : Line(c) /\ Known(c)
    /\ \A x \in User : Placed(x) /\ Written(x)

\* With no COMMIT that fails, the user's belief is the session's state, and what it
\* has not committed is not.
Believes(x) ==
    /\ flag[x] /\ mode[x] \in {"connect", "closing"} /\ link[conn[x]] = "up" => tx[conn[x]] # "none"
    /\ told[x] \in {"none", "pending"} => stored[x] # "committed"
Belief == \A x \in User : Believes(x)

-----------------------------------------------------------------------------
(* Queues.                                                                 *)

LEMMA Names == "pool" \notin User /\ NoConn \notin Conn
BY TransactionsAssumption

LEMMA Tails ==
    ASSUME NEW S, NEW q \in Seq(S), q # <<>>
    PROVE  /\ Len(Tail(q)) = Len(q) - 1 /\ Len(q) \in Nat \ {0} /\ Tail(q) \in Seq(S)
           /\ DOMAIN Tail(q) = 1 .. Len(q) - 1 /\ DOMAIN q = 1 .. Len(q)
           /\ \A i \in DOMAIN Tail(q) : i + 1 \in DOMAIN q /\ Tail(q)[i] = q[i + 1]
           /\ 1 \in DOMAIN q /\ Head(q) = q[1]
           /\ Len(q) = 1 => Tail(q) = <<>>
OBVIOUS

LEMMA Appends ==
    ASSUME NEW S, NEW q \in Seq(S), NEW e \in S
    PROVE  /\ Len(Append(q, e)) = Len(q) + 1 /\ Len(q) \in Nat /\ Append(q, e) \in Seq(S)
           /\ DOMAIN Append(q, e) = 1 .. Len(q) + 1 /\ DOMAIN q = 1 .. Len(q)
           /\ \A i \in DOMAIN q : Append(q, e)[i] = q[i]
           /\ Append(q, e)[Len(q) + 1] = e
           /\ Append(q, e) # <<>>
           /\ q = <<>> => Append(q, e) = <<e>>
<1>1. q = <<>> => Append(q, e) = <<e>>
  OBVIOUS
<1> QED BY <1>1

LEMMA Single ==
    ASSUME NEW S, NEW q \in Seq(S), Len(q) = 1
    PROVE  q = <<q[1]>>
OBVIOUS

LEMMA Jobs ==
    /\ <<"pool", "recycle">> \in Job
    /\ \A x \in User, s \in Statements \cup {"close"} : <<x, s>> \in Job
BY DEF Job

-----------------------------------------------------------------------------
(* The line of a connection, when nothing happens to it ...                *)

LEMMA LineFrame ==
    ASSUME NEW d \in Conn, Line(d), work'[d] = work[d], d \in idle' => d \in idle,
           \A y \in User :
              \/ conn'[y] = conn[y] /\ mode'[y] = mode[y] /\ flag'[y] = flag[y]
              \/ y \notin Holders(d)' /\ \A i \in DOMAIN work[d] : work[d][i][1] # y
    PROVE  Line(d)'
<1>1. \A y \in User : y \in Holders(d)' => y \in Holders(d)
  BY DEF Holders
<1>2. ASSUME NEW i \in DOMAIN work[d], NEW x \in User, work[d][i][1] = x, Fits(x, d, i)
      PROVE  Fits(x, d, i)'
  BY <1>2 DEF Fits
<1>3. Holders(d) \subseteq User /\ Holders(d)' \subseteq User
  BY DEF Holders
<1> QED BY <1>1, <1>2, <1>3 DEF Line

\* ... when its user has one more job in line ...
LEMMA LineMore ==
    ASSUME TypeOK, NEW c \in Conn, Line(c), NEW x \in Holders(c),
           NEW s \in Statements \cup {"close"},
           work' = [work EXCEPT ![c] = Append(@, <<x, s>>)],
           UNCHANGED <<conn, flag, idle>>,
           \A y \in User : y # x => mode'[y] = mode[y],
           \A i \in DOMAIN work[c] : work[c][i][2] \in Queries,
           \/ mode'[x] = "connect" /\ s \in Queries
           \/ /\ mode'[x] = "connect" /\ s \in {"begin", "commit", "rollback"}
              /\ work[c] = <<>> /\ (s = "begin" => ~flag[x])
           \/ mode'[x] = "closing" /\ s = "close"
    PROVE  Line(c)'
<1> USE Names
<1>1. x \in User /\ conn[x] = c /\ work[c] \in Seq(Job) /\ <<x, s>> \in Job
  BY Jobs DEF Holders, TypeOK, Job
<1>2. work'[c] = Append(work[c], <<x, s>>)
  BY DEF TypeOK
<1>3. \A i \in DOMAIN work'[c] :
          \/ i \in DOMAIN work[c] /\ work'[c][i] = work[c][i]
          \/ i = Len(work'[c]) /\ work'[c][i] = <<x, s>>
  BY <1>1, <1>2, Appends
<1>4. \A i \in DOMAIN work'[c] : work'[c][i][1] = x
  BY <1>3 DEF Line
<1>5. Holders(c)' = {x}
  <2>1. x \in Holders(c)'
    BY <1>1 DEF Holders
  <2>2. \A y \in User : y \in Holders(c)' => y = x
    BY DEF Holders, Line
  <2> QED BY <2>1, <2>2 DEF Holders
<1>6. \A i \in DOMAIN work'[c] : Fits(x, c, i)'
  <2>1. \A i \in DOMAIN work'[c] : work'[c][i][2] \in Queries \/ (i = Len(work'[c]) /\ work'[c][i][2] = s)
    BY <1>3
  <2>2. work[c] = <<>> => Len(work'[c]) = 1
    BY <1>1, <1>2, Appends
  <2> QED BY <1>1, <2>1, <2>2 DEF Fits
<1>7. c \notin idle'
  BY DEF Line
<1> QED BY <1>1, <1>4, <1>5, <1>6, <1>7 DEF Line

\* ... and when its user releases it, with q in line.
LEMMA LineReleased ==
    ASSUME TypeOK, NEW c \in Conn, Line(c), NEW x \in Holders(c), NEW l,
           NEW q \in Seq(Job), Release(c, q, l), UNCHANGED <<conn, idle>>,
           \A y \in User : y # x => mode'[y] = mode[y],
           mode'[x] = "closed",
           \A i \in DOMAIN q : q[i][1] = x /\ q[i][2] \in Queries /\ ~flag'[x]
    PROVE  Line(c)' /\ Holders(c)' = {}
<1> USE Names
<1>1. x \in User /\ conn[x] = c
  BY DEF Holders
<1>2. Holders(c)' = {}
  BY DEF Holders, Line
<1>3. work'[c] = q \/ work'[c] = Append(q, <<"pool", "recycle">>)
  BY DEF Release, TypeOK
<1>4. \A i \in DOMAIN work'[c] :
          \/ work'[c][i] = <<"pool", "recycle">> /\ i = Len(work'[c])
          \/ work'[c][i][1] = x /\ work'[c][i][2] \in Queries /\ ~flag'[x]
  <2>1. CASE work'[c] = q
    BY <2>1
  <2>2. CASE work'[c] = Append(q, <<"pool", "recycle">>)
    <3>1. \A i \in DOMAIN work'[c] :
              \/ i \in DOMAIN q /\ work'[c][i] = q[i]
              \/ i = Len(work'[c]) /\ work'[c][i] = <<"pool", "recycle">>
      BY <2>2, Jobs, Appends
    <3> QED BY <3>1
  <2> QED BY <1>3, <2>1, <2>2
<1>5. \A i \in DOMAIN work'[c] :
          \/ work'[c][i] = <<"pool", "recycle">> /\ i = Len(work'[c])
          \/ work'[c][i][1] = x /\ Fits(x, c, i)'
  BY <1>1, <1>4 DEF Fits
<1>6. c \notin idle'
  BY DEF Line
<1>7. \A i \in DOMAIN work'[c] : work'[c][i][1] \in User => work'[c][i][1] = x
  BY <1>5
<1> QED BY <1>1, <1>2, <1>5, <1>6, <1>7 DEF Line

\* When the first job is done.
LEMMA LineNext ==
    ASSUME TypeOK, NEW c \in Conn, Line(c), work[c] # <<>>, c \notin idle',
           work' = [work EXCEPT ![c] = Tail(@)], UNCHANGED conn,
           \A y \in User : y \in Holders(c)' => y \in Holders(c),
           NEW x \in User, work[c][1][1] = x,
           Tail(work[c]) = <<>> \/ (mode'[x] = mode[x] /\ flag'[x] = flag[x])
    PROVE  Line(c)'
<1> DEFINE q == work[c]
<1>1. q \in Seq(Job) /\ work'[c] = Tail(q) /\ Holders(c)' \subseteq User
  BY DEF TypeOK, Job, Holders
<1>2. /\ Len(Tail(q)) = Len(q) - 1 /\ Len(q) \in Nat /\ 1 \in DOMAIN q
      /\ \A i \in DOMAIN Tail(q) : /\ i + 1 \in DOMAIN q /\ Tail(q)[i] = q[i + 1]
                                   /\ i \in 1 .. Len(q) - 1
  BY <1>1, Tails
<1>3. ASSUME NEW i \in DOMAIN Tail(q)
      PROVE  \/ Tail(q)[i] = <<"pool", "recycle">> /\ i = Len(Tail(q))
             \/ Tail(q)[i][1] = x /\ Fits(x, c, i)'
  <2>1. CASE q[i + 1] = <<"pool", "recycle">> /\ i + 1 = Len(q)
    BY <1>2, <2>1
  <2>2. CASE q[i + 1][1] \in User /\ Fits(q[i + 1][1], c, i + 1)
    <3>1. q[i + 1][1] = x
      BY <1>2, <2>2 DEF Line
    <3>2. Len(q) # 1 /\ (i + 1 = Len(q) => i = Len(Tail(q))) /\ Tail(q) # <<>>
      BY <1>2
    <3>3. Fits(x, c, i)'
      <4>1. work'[c][i][2] = work[c][i + 1][2] /\ Len(work'[c]) = Len(Tail(q))
        BY <1>1, <1>2
      <4>2. Fits(x, c, i + 1) /\ mode'[x] = mode[x] /\ flag'[x] = flag[x] /\ conn' = conn
        BY <2>2, <3>1, <3>2
      <4>3. Len(work[c]) # 1 /\ (i + 1 = Len(work[c]) => i = Len(work'[c]))
        BY <3>2, <4>1
      <4> QED BY <4>1, <4>2, <4>3 DEF Fits
    <3> QED BY <1>2, <3>1, <3>3
  <2> QED BY <1>2, <2>1, <2>2 DEF Line
<1>4. \A y \in Holders(c)' : /\ \A i \in DOMAIN Tail(q) : Tail(q)[i][1] = y
                             /\ \A z \in Holders(c)' : z = y
  BY <1>1, <1>2 DEF Line
<1>5. /\ \A i \in DOMAIN work'[c] :
            \/ work'[c][i] = <<"pool", "recycle">> /\ i = Len(work'[c])
            \/ work'[c][i][1] = x /\ Fits(x, c, i)'
      /\ \A y \in Holders(c)' : /\ \A i \in DOMAIN work'[c] : work'[c][i][1] = y
                                /\ \A z \in Holders(c)' : z = y
  BY <1>1, <1>3, <1>4
<1>6. \A i \in DOMAIN work'[c] : work'[c][i][1] \in User => work'[c][i][1] = x
  BY <1>5, Names
<1> HIDE DEF q
<1> QED BY <1>5, <1>6 DEF Line

-----------------------------------------------------------------------------
(* The session of a connection.                                            *)

LEMMA KnownFrame ==
    ASSUME NEW d \in Conn, Known(d), tx'[d] = tx[d], link'[d] = link[d],
           work'[d] = work[d], Holders(d)' = Holders(d),
           \A y \in Holders(d) : mode'[y] = mode[y] /\ flag'[y] = flag[y]
    PROVE  Known(d)'
BY DEF Known

\* A user whose jobs are first in the line of a session in a transaction has it.
LEMMA KnownUser ==
    ASSUME NEW c \in Conn, Line(c), Known(c), NEW x \in User, 1 \in DOMAIN work[c],
           work[c][1][1] = x, tx[c] # "none"
    PROVE  /\ Holders(c) = {x} /\ mode[x] \in {"connect", "closing"} /\ flag[x]
           /\ link[c] = "up"
<1> USE Names
<1>1. work[c] # <<<<"pool", "recycle">>>>
  OBVIOUS
<1>2. PICK z \in Holders(c) : mode[z] \in {"connect", "closing"} /\ flag[z]
  BY <1>1 DEF Known
<1>3. z = x /\ \A y \in Holders(c) : y = z
  BY <1>2 DEF Line
<1> QED BY <1>2, <1>3 DEF Known

\* A user that has a connection and believes in no transaction is in none.
LEMMA NotKnown ==
    ASSUME NEW c \in Conn, Line(c), Known(c), NEW x \in Holders(c), ~flag[x]
    PROVE  tx[c] = "none"
BY DEF Known, Line

\* Steps about one connection change nothing for others.
LEMMA OtherConn ==
    ASSUME TypeOK, NEW c \in Conn, NEW d \in Conn, d # c, Line(d), Known(d), UNCHANGED conn,
           work'[d] = work[d], tx'[d] = tx[d], link'[d] = link[d], d \in idle' => d \in idle,
           \A y \in User : conn[y] # c => mode'[y] = mode[y] /\ flag'[y] = flag[y]
    PROVE  Line(d)' /\ Known(d)'
<1> USE Names
<1>1. \A y \in User : conn[y] = c => /\ y \notin Holders(d)' /\ y \notin Holders(d)
                                     /\ \A i \in DOMAIN work[d] : work[d][i][1] # y
  BY DEF Holders, Line, Fits
<1>2. Holders(d)' = Holders(d)
  BY DEF Holders
<1>3. Line(d)'
  BY <1>1, LineFrame
<1>4. \A y \in Holders(d) : y \in User /\ conn[y] # c
  BY DEF Holders
<1>5. Known(d)'
  BY <1>2, <1>4, KnownFrame
<1> QED BY <1>3, <1>5

-----------------------------------------------------------------------------
(* Writes.                                                                 *)

LEMMA WrittenFrame ==
    ASSUME NEW y \in User, Written(y), UNCHANGED conn,
           told'[y] = told[y], stored'[y] = stored[y],
           mode'[y] = mode[y] \/ mode'[y] # "connect",
           conn[y] \in Conn \/ (told[y] = "none" /\ stored[y] = "none"),
           conn[y] \in Conn => /\ tx'[conn[y]] = tx[conn[y]]
                               /\ link'[conn[y]] = "up" => link[conn[y]] = "up"
                               /\ stored[y] = "pending" => \/ y \in Holders(conn[y])'
                                                           \/ Holders(conn[y])' = {}
    PROVE  Written(y)'
BY DEF Written

\* A transaction ends, and nothing is pending in its session.
LEMMA Settled ==
    ASSUME TypeOK, NEW c \in Conn, NEW fate \in {"committed", "none"}, SettleWrites(c, fate)
    PROVE  /\ tx'[c] = "none" /\ \A d \in Conn : d # c => tx'[d] = tx[d]
           /\ \A y \in User : /\ conn[y] # c => stored'[y] = stored[y]
                              /\ stored[y] # "pending" => stored'[y] = stored[y]
                              /\ conn[y] = c => stored'[y] # "pending"
                              /\ conn[y] = c /\ stored[y] = "pending" => stored'[y] = fate
BY DEF SettleWrites, TypeOK

LEMMA WrittenUndone ==
    ASSUME TypeOK, NEW c \in Conn, Undo(c), NEW y \in User, Written(y), UNCHANGED <<conn, told>>,
           conn[y] \in Conn \/ (told[y] = "none" /\ stored[y] = "none"),
           \A d \in Conn : d # c => link'[d] = link[d],
           \A d \in Conn : d # c => Holders(d)' = Holders(d),
           \A z \in User : mode'[z] = mode[z] \/ mode'[z] = "closed",
           conn[y] = c => mode'[y] # "connect" \/ link'[c] # "up"
    PROVE  Written(y)'
<1>1. /\ tx'[c] = "none" /\ \A d \in Conn : d # c => tx'[d] = tx[d]
      /\ conn[y] # c => stored'[y] = stored[y]
      /\ stored[y] # "pending" => stored'[y] = stored[y]
      /\ conn[y] = c => stored'[y] # "pending"
  BY Settled DEF Undo
<1>2. CASE conn[y] = c
  BY <1>1, <1>2 DEF Written
<1>3. CASE conn[y] # c
  BY <1>1, <1>3 DEF Written
<1> QED BY <1>2, <1>3

-----------------------------------------------------------------------------
(* The steps of users.                                                     *)

LEMMA AcquireStep ==
    ASSUME Inv, "unnoticed" \notin Events, NEW x \in User, NEW c \in Conn,
           Connect(x, c) \/ \E s \in Statements : Query(x, c, s)
    PROVE  /\ \A d \in Conn : Line(d)' /\ Known(d)'
           /\ \A y \in User : Written(y)'
<1> USE Names
<1>0. TypeOK /\ Line(c) /\ Known(c)
  BY DEF Inv
<1>1. /\ mode[x] \in {"none", "closed"} /\ \A d \in Conn : JobsOf(x, d) = {}
      /\ c \in idle /\ idle' = idle \ {c} /\ conn' = [conn EXCEPT ![x] = c]
      /\ flag' = [flag EXCEPT ![x] = FALSE] /\ told' = [told EXCEPT ![x] = "none"]
      /\ stored' = [stored EXCEPT ![x] = "none"] /\ UNCHANGED <<tx, link>>
      /\ mode' \in {[mode EXCEPT ![x] = "query"], [mode EXCEPT ![x] = "connect"]}
      /\ \A d \in Conn : d # c => work'[d] = work[d]
  BY <1>0 DEF Connect, Query, Acquire, Enqueue, TypeOK
<1>2. work[c] = <<>> /\ Holders(c) = {} /\ tx[c] = "none"
  BY <1>1, <1>0 DEF Line, Known
<1>3. \A d \in Conn : d # c => Holders(d)' = Holders(d) /\ x \notin Holders(d)
  BY <1>0, <1>1 DEF Holders, TypeOK
<1>4. Holders(c)' = {x}
  BY <1>0, <1>1, <1>2 DEF Holders, TypeOK
<1>5. ASSUME NEW d \in Conn, d # c PROVE Line(d)' /\ Known(d)'
  <2>1. Line(d) /\ Known(d) /\ \A i \in DOMAIN work[d] : work[d][i][1] # x
    BY <1>1 DEF Inv, JobsOf
  <2>2. \A y \in User : y # x => conn'[y] = conn[y] /\ mode'[y] = mode[y] /\ flag'[y] = flag[y]
    BY <1>0, <1>1 DEF TypeOK
  <2>3. x \notin Holders(d)' /\ (d \in idle' => d \in idle) /\ work'[d] = work[d]
    BY <1>1, <1>3, <1>5
  <2>4. Line(d)'
    BY <2>1, <2>2, <2>3, LineFrame
  <2>5. \A y \in Holders(d) : y \in User /\ y # x
    BY <1>3, <1>5 DEF Holders
  <2>6. Known(d)'
    BY <1>1, <1>3, <1>5, <2>1, <2>2, <2>3, <2>5, KnownFrame
  <2> QED BY <2>4, <2>6
<1>6. Line(c)' /\ Known(c)'
  <2>1. Known(c)'
    BY <1>1, <1>2 DEF Known
  <2>2. CASE Connect(x, c)
    <3>1. work'[c] = <<>> /\ c \notin idle'
      BY <1>1, <1>2, <2>2 DEF Connect
    <3> QED BY <1>4, <2>1, <3>1 DEF Line
  <2>3. ASSUME NEW s \in Statements, Query(x, c, s) PROVE Line(c)'
    <3>1. work'[c] = Append(<<>>, <<x, s>>) /\ s \in Queries /\ mode' = [mode EXCEPT ![x] = "query"]
      BY <1>0, <1>2, <2>3 DEF Query, Enqueue, TypeOK
    <3>2. work'[c] = <<<<x, s>>>>
      BY <3>1
    <3>3. DOMAIN work'[c] = {1} /\ work'[c][1][1] = x /\ work'[c][1][2] = s
      BY <3>2
    <3>4. mode'[x] = "query" /\ conn'[x] = c /\ ~flag'[x] /\ c \notin idle'
      BY <1>0, <1>1, <3>1 DEF TypeOK
    <3>5. Fits(x, c, 1)'
      BY <3>1, <3>3, <3>4 DEF Fits
    <3> QED BY <1>4, <3>3, <3>4, <3>5 DEF Line
  <2> QED BY <2>1, <2>2, <2>3
<1>7. ASSUME NEW y \in User PROVE Written(y)'
  <2>1. CASE y = x
    <3>1. told'[y] = "none" /\ stored'[y] = "none"
      BY <1>0, <1>1, <2>1 DEF TypeOK
    <3> QED BY <3>1 DEF Written
  <2>2. CASE y # x
    <3>1. /\ told'[y] = told[y] /\ stored'[y] = stored[y] /\ conn'[y] = conn[y]
          /\ mode'[y] = mode[y] /\ Written(y) /\ Placed(y)
      BY <1>0, <1>1, <2>2 DEF TypeOK, Inv, Placed
    <3>2. CASE conn[y] = c
      BY <1>1, <1>2, <3>1, <3>2 DEF Written, Holders
    <3>3. CASE conn[y] # c /\ conn[y] \in Conn
      <4>1. Holders(conn[y])' = {z \in User : conn'[z] = conn[y] /\ mode'[z] \in {"query", "connect", "closing", "leaked"}}
        BY <3>1 DEF Holders
      <4>2. \A z \in User : z # x => conn'[z] = conn[z] /\ mode'[z] = mode[z]
        BY <1>0, <1>1 DEF TypeOK
      <4>3. conn'[x] = c /\ x \notin Holders(conn[y])
        BY <1>0, <1>1, <1>3, <3>3 DEF TypeOK
      <4>4. Holders(conn[y])' = Holders(conn[y])
        BY <3>3, <4>1, <4>2, <4>3 DEF Holders
      <4> QED BY <1>1, <3>1, <3>3, <4>4 DEF Written
    <3>4. CASE told[y] = "none" /\ stored[y] = "none"
      BY <3>1, <3>4 DEF Written
    <3> QED BY <3>1, <3>2, <3>3, <3>4 DEF Placed
  <2> QED BY <2>1, <2>2
<1> QED BY <1>5, <1>6, <1>7

\* What a user may do leaves its queries in line alone.
LEMMA Alone ==
    ASSUME Inv, NEW x \in User, NEW s, MayCall(x, s), NEW c \in Conn, conn[x] = c
    PROVE  /\ x \in Holders(c) /\ \A i \in DOMAIN work[c] : work[c][i][1] = x
           /\ \A i \in DOMAIN work[c] : work[c][i][2] \in Queries
           /\ s \notin Queries \cup {"close"} => work[c] = <<>>
<1>1. x \in Holders(c) /\ Line(c) /\ work[c] \in Seq(Job)
  BY DEF Holders, MayCall, Inv, TypeOK, Job
<1>2. \A i \in DOMAIN work[c] : work[c][i][1] = x
  BY <1>1 DEF Line
<1>3. JobsOf(x, c) = DOMAIN work[c]
  BY <1>2 DEF JobsOf
<1>4. work[c] # <<>> => 1 \in DOMAIN work[c]
  BY <1>1, Tails
<1> QED BY <1>1, <1>2, <1>3, <1>4 DEF MayCall

LEMMA HolderPlaced ==
    ASSUME Inv, NEW x \in User, mode[x] # "none"
    PROVE  conn[x] \in Conn
BY DEF Inv, Placed

LEMMA CallStep ==
    ASSUME Inv, NEW x \in User, NEW s \in Statements, Call(x, s)
    PROVE  /\ \A d \in Conn : Line(d)' /\ Known(d)'
           /\ \A y \in User : Written(y)'
<1> USE Names
<1>1. mode[x] = "connect" /\ MayCall(x, s) /\ UNCHANGED <<userVars, sessionVars, idle, link>>
  BY DEF Call, MayCall
<1>2. PICK c \in Conn : conn[x] = c
  BY <1>1, HolderPlaced
<1>3. TypeOK /\ Line(c) /\ Known(c)
  BY DEF Inv
<1>4. work' = [work EXCEPT ![c] = Append(@, <<x, s>>)]
  BY <1>2 DEF Call, Enqueue
<1>5. \A d \in Conn : Holders(d)' = Holders(d)
  BY <1>1 DEF Holders, userVars
<1>6. Line(c)'
  <2>1. s = "begin" => ~flag[x]
    BY DEF Call
  <2>2. UNCHANGED <<conn, flag, idle, mode>> /\ mode'[x] = "connect"
    BY <1>1 DEF userVars
  <2>3. /\ x \in Holders(c) /\ \A i \in DOMAIN work[c] : work[c][i][2] \in Queries
        /\ s \notin Queries \cup {"close"} => work[c] = <<>>
    BY <1>1, <1>2, Alone
  <2>4. s \in Queries \/ (s \in {"begin", "commit", "rollback"} /\ s \notin Queries \cup {"close"})
    BY DEF Statements, Queries
  <2>5. s \in Statements \cup {"close"}
    OBVIOUS
  <2> QED BY <1>3, <1>4, <2>1, <2>2, <2>3, <2>4, <2>5, LineMore
<1>7. Known(c)'
  <2>1. Holders(c) # {}
    BY <1>1, <1>2, Alone
  <2> QED BY <1>1, <1>3, <1>5, <2>1 DEF Known, userVars, sessionVars
<1>8. ASSUME NEW d \in Conn, d # c PROVE Line(d)' /\ Known(d)'
  <2>1. Line(d) /\ Known(d) /\ work'[d] = work[d]
    BY <1>3, <1>4, <1>8 DEF Inv, TypeOK
  <2> QED BY <1>1, <1>3, <1>8, <2>1, OtherConn DEF userVars, sessionVars
<1>9. ASSUME NEW y \in User PROVE Written(y)'
  <2>1. Written(y) /\ Placed(y)
    BY DEF Inv, Placed
  <2>2. stored[y] = "pending" => y \in Holders(conn[y]) \/ Holders(conn[y]) = {}
    BY <2>1 DEF Written
  <2>3. UNCHANGED <<conn, mode, told, stored, tx, link>>
    BY <1>1 DEF userVars, sessionVars
  <2>4. Holders(conn[y])' = Holders(conn[y])
    BY <2>3 DEF Holders
  <2>5. y \in Holders(conn[y])' \/ Holders(conn[y])' = {} \/ stored[y] # "pending"
    BY <2>2, <2>4
  <2> QED BY <2>1, <2>3, <2>5, WrittenFrame DEF Placed
<1> QED BY <1>6, <1>7, <1>8, <1>9

\* A user that releases its connection with q in line.
LEMMA ReleaseStep ==
    ASSUME Inv, NEW c \in Conn, NEW x \in Holders(c), Release(c, work[c], link[c]),
           mode' = [mode EXCEPT ![x] = "closed"], UNCHANGED <<conn, flag, told, stored, tx, idle>>,
           \A i \in DOMAIN work[c] : work[c][i][1] = x /\ work[c][i][2] \in Queries /\ ~flag[x],
           tx[c] = "none" \/ (work[c] = <<>> /\ tx[c] # "begun")
    PROVE  /\ \A d \in Conn : Line(d)' /\ Known(d)'
           /\ \A y \in User : Written(y)'
<1> USE Names
<1>1. TypeOK /\ Line(c) /\ Known(c) /\ x \in User /\ conn[x] = c /\ work[c] \in Seq(Job)
  BY DEF Inv, TypeOK, Job, Holders
<1>2. mode'[x] = "closed" /\ \A y \in User : y # x => mode'[y] = mode[y]
  BY <1>1 DEF TypeOK
<1>3. Line(c)' /\ Holders(c)' = {}
  BY <1>1, <1>2, LineReleased
<1>4. \A d \in Conn : d # c => work'[d] = work[d] /\ link'[d] = link[d]
  BY <1>1 DEF Release, TypeOK
<1>5. Known(c)'
  <2>1. CASE tx[c] = "none"
    BY <2>1 DEF Known
  <2>2. CASE tx[c] # "none"
    <3>1. link[c] = "up" /\ work[c] = <<>> /\ tx[c] \in {"writing", "failed"}
      BY <1>1, <2>2 DEF Known, TypeOK, Transaction
    <3>2. link'[c] = "up" /\ work'[c] = Append(<<>>, <<"pool", "recycle">>)
      BY <1>1, <3>1 DEF Release, TypeOK
    <3>3. work'[c] = <<<<"pool", "recycle">>>>
      BY <3>2
    <3> QED BY <1>3, <3>1, <3>2, <3>3 DEF Known
  <2> QED BY <2>1, <2>2
<1>6. ASSUME NEW d \in Conn, d # c PROVE Line(d)' /\ Known(d)'
  <2>1. Line(d) /\ Known(d)
    BY DEF Inv
  <2>2. \A y \in User : conn[y] # c => y # x
    BY <1>1
  <2> QED BY <1>1, <1>2, <1>4, <1>6, <2>1, <2>2, OtherConn
<1>7. ASSUME NEW y \in User PROVE Written(y)'
  <2>1. Written(y) /\ Placed(y)
    BY DEF Inv
  <2>2. ASSUME conn[y] \in Conn, stored[y] = "pending"
        PROVE  y \in Holders(conn[y])' \/ Holders(conn[y])' = {}
    <3>1. CASE conn[y] = c
      BY <1>3, <3>1
    <3>2. CASE conn[y] # c
      BY <1>1, <1>2, <2>1, <2>2, <3>2 DEF Written, Holders
    <3> QED BY <3>1, <3>2
  <2>3. conn[y] \in Conn => (link'[conn[y]] = "up" => link[conn[y]] = "up")
    BY <1>1 DEF Release, TypeOK
  <2>4. mode'[y] = mode[y] \/ mode'[y] # "connect"
    BY <1>2
  <2> QED BY <2>1, <2>2, <2>3, <2>4, WrittenFrame DEF Placed
<1> QED BY <1>3, <1>5, <1>6, <1>7

LEMMA CloseStep ==
    ASSUME Inv, NEW x \in User, Close(x)
    PROVE  /\ \A d \in Conn : Line(d)' /\ Known(d)'
           /\ \A y \in User : Written(y)'
<1> USE Names
<1>1. mode[x] = "connect" /\ MayCall(x, "close") /\ UNCHANGED <<conn, flag, told, sessionVars, idle>>
  BY DEF Close, MayCall
<1>2. PICK c \in Conn : conn[x] = c
  BY <1>1, HolderPlaced
<1>3. TypeOK /\ Line(c) /\ Known(c)
  BY DEF Inv
<1>4. /\ x \in Holders(c) /\ \A i \in DOMAIN work[c] : work[c][i][1] = x
      /\ \A i \in DOMAIN work[c] : work[c][i][2] \in Queries
  BY <1>1, <1>2, Alone
<1>5. CASE ~flag[x]
  <2>1. Release(c, work[c], link[c]) /\ mode' = [mode EXCEPT ![x] = "closed"]
    BY <1>2, <1>5 DEF Close
  <2>2. tx[c] = "none"
    BY <1>3, <1>4, <1>5, NotKnown
  <2> QED BY <1>1, <1>4, <1>5, <2>1, <2>2, ReleaseStep DEF sessionVars
<1>6. CASE flag[x]
  <2>1. /\ mode' = [mode EXCEPT ![x] = "closing"] /\ UNCHANGED <<link, conn, flag, told, stored, tx, idle>>
        /\ work' = [work EXCEPT ![c] = Append(@, <<x, "close">>)]
    BY <1>1, <1>2, <1>6 DEF Close, Enqueue, sessionVars
  <2>2. mode'[x] = "closing" /\ \A y \in User : y # x => mode'[y] = mode[y]
    BY <1>3, <2>1 DEF TypeOK
  <2>3. \A d \in Conn : Holders(d)' = Holders(d)
    BY <1>1, <2>1, <2>2 DEF Holders
  <2>4. Line(c)'
    BY <1>3, <1>4, <2>1, <2>2, LineMore
  <2>5. Known(c)'
    BY <1>3, <1>4, <1>6, <2>1, <2>2, <2>3 DEF Known
  <2>6. ASSUME NEW d \in Conn, d # c PROVE Line(d)' /\ Known(d)'
    <3>1. Line(d) /\ Known(d) /\ work'[d] = work[d]
      BY <1>3, <2>1, <2>6 DEF Inv, TypeOK
    <3>2. \A y \in User : conn[y] # c => y # x
      BY <1>2
    <3> QED BY <1>3, <2>1, <2>2, <2>6, <3>1, <3>2, OtherConn
  <2>7. ASSUME NEW y \in User PROVE Written(y)'
    <3>1. Written(y) /\ Placed(y)
      BY DEF Inv
    <3>2. Holders(conn[y])' = Holders(conn[y])
      BY <1>1, <2>1, <2>2 DEF Holders
    <3>3. y \in Holders(conn[y])' \/ Holders(conn[y])' = {} \/ stored[y] # "pending"
      BY <3>1, <3>2 DEF Written
    <3> QED BY <2>1, <2>2, <3>1, <3>3, WrittenFrame DEF Placed
  <2> QED BY <2>4, <2>5, <2>6, <2>7
<1> QED BY <1>5, <1>6

LEMMA DropStep ==
    ASSUME Inv, "unnoticed" \notin Events, NEW x \in User, Drop(x)
    PROVE  /\ \A d \in Conn : Line(d)' /\ Known(d)'
           /\ \A y \in User : Written(y)'
<1>1. mode[x] = "connect"
  BY DEF Drop
<1>2. PICK c \in Conn : conn[x] = c
  BY <1>1, HolderPlaced
<1>3. /\ JobsOf(x, c) = {} /\ tx[c] # "begun" /\ Release(c, work[c], link[c])
      /\ mode' = [mode EXCEPT ![x] = "closed"] /\ UNCHANGED <<conn, flag, told, stored, tx, idle>>
  BY <1>2 DEF Drop, sessionVars
<1>4. x \in Holders(c) /\ Line(c) /\ work[c] \in Seq(Job)
  BY <1>1, <1>2 DEF Holders, Inv, TypeOK, Job
<1>5. work[c] = <<>>
  <2>1. \A i \in DOMAIN work[c] : i \in JobsOf(x, c)
    BY <1>4 DEF Line, JobsOf
  <2>2. work[c] # <<>> => 1 \in DOMAIN work[c]
    BY <1>4, Tails
  <2> QED BY <1>3, <2>1, <2>2
<1>6. \A i \in DOMAIN work[c] : FALSE
  BY <1>5
<1> QED BY <1>3, <1>4, <1>5, <1>6, ReleaseStep

-----------------------------------------------------------------------------
(* The steps of the pool.                                                  *)

\* What is recycled is alone in line, and nobody has it.
LEMMA RecycledAlone ==
    ASSUME Inv, NEW c \in Conn, Recycle(c)
    PROVE  /\ work[c] = <<<<"pool", "recycle">>>> /\ work'[c] = <<>> /\ Holders(c) = {}
           /\ \A d \in Conn : d # c => work'[d] = work[d]
<1> USE Names
<1>1. Line(c) /\ work[c] \in Seq(Job) /\ work[c] # <<>> /\ Head(work[c])[2] = "recycle"
  BY DEF Inv, TypeOK, Job, Recycle
<1>2. 1 \in DOMAIN work[c] /\ work[c][1][2] = "recycle"
  BY <1>1, Tails
<1>3. ~Fits(work[c][1][1], c, 1)
  BY <1>2 DEF Fits, Queries
<1>4. work[c][1] = <<"pool", "recycle">> /\ Len(work[c]) = 1
  BY <1>1, <1>2, <1>3 DEF Line
<1>5. work[c] = <<<<"pool", "recycle">>>> /\ Tail(work[c]) = <<>>
  <2>1. work[c] = <<work[c][1]>>
    BY <1>1, <1>4, Single
  <2> QED BY <1>1, <1>4, <2>1, Tails
<1>6. Holders(c) = {}
  BY <1>1, <1>2, <1>4 DEF Line, Holders
<1>7. work' = [work EXCEPT ![c] = Tail(@)] /\ work \in [Conn -> Seq(Job)]
  BY DEF Recycle, Inv, TypeOK, Job
<1> QED BY <1>5, <1>6, <1>7

LEMMA RecycleStep ==
    ASSUME Inv, NEW c \in Conn, Recycle(c)
    PROVE  /\ \A d \in Conn : Line(d)' /\ Known(d)'
           /\ \A y \in User : Written(y)'
<1> USE Names
<1>0. TypeOK /\ Line(c) /\ Known(c)
  BY DEF Inv
<1>1. UNCHANGED <<mode, conn, flag, told>> /\ idle' \subseteq idle \cup {c}
      /\ \A d \in Conn : d # c => link'[d] = link[d]
  BY <1>0 DEF Recycle, userVars, TypeOK
<1>2. \A d \in Conn : Holders(d)' = Holders(d)
  BY <1>1 DEF Holders
<1>3. Undo(c) \/ (UNCHANGED <<stored, tx>> /\ tx[c] = "none" /\ link' = link)
  <2>1. tx[c] # "begun"
    BY <1>0, RecycledAlone DEF Known
  <2>2. Recyclable(c) /\ tx[c] # "writing" => tx[c] = "none"
    BY <1>0, <2>1 DEF Recyclable, TypeOK, Transaction
  <2> QED BY <2>2 DEF Recycle, RollBack, sessionVars
<1>4. tx'[c] = "none" /\ \A d \in Conn : d # c => tx'[d] = tx[d]
  BY <1>0, <1>3, Settled DEF Undo
<1>5. Line(c)' /\ Known(c)'
  BY <1>2, <1>4, RecycledAlone DEF Line, Known
<1>6. ASSUME NEW d \in Conn, d # c PROVE Line(d)' /\ Known(d)'
  <2>1. Line(d) /\ Known(d) /\ work'[d] = work[d]
    BY <1>6, RecycledAlone DEF Inv
  <2> QED BY <1>0, <1>1, <1>4, <1>6, <2>1, OtherConn
<1>7. ASSUME NEW y \in User PROVE Written(y)'
  <2>1. Written(y) /\ Placed(y)
    BY DEF Inv
  <2>2. CASE Undo(c)
    <3>1. conn[y] = c => mode'[y] # "connect"
      BY <1>1, RecycledAlone DEF Holders
    <3> QED BY <1>0, <1>1, <1>2, <2>1, <2>2, <3>1, WrittenUndone DEF Placed
  <2>3. CASE UNCHANGED <<stored, tx>> /\ link' = link
    <3>1. Holders(conn[y])' = Holders(conn[y])
      BY <1>1 DEF Holders
    <3>2. y \in Holders(conn[y])' \/ Holders(conn[y])' = {} \/ stored[y] # "pending"
      BY <2>1, <3>1 DEF Written
    <3> QED BY <1>1, <2>1, <2>3, <3>2, WrittenFrame DEF Placed
  <2> QED BY <1>3, <2>2, <2>3
<1> QED BY <1>5, <1>6, <1>7

LEMMA BorrowTimeoutStep ==
    ASSUME Inv, NEW c \in Conn, BorrowTimeout(c)
    PROVE  /\ \A d \in Conn : Line(d)' /\ Known(d)'
           /\ \A y \in User : Written(y)'
<1>0. TypeOK /\ Line(c) /\ Known(c)
  BY DEF Inv
<1>1. /\ Undo(c) /\ UNCHANGED <<conn, flag, told, idle, work>>
      /\ mode' = [x \in User |-> IF x \in Holders(c) /\ mode[x] = "leaked" THEN "closed" ELSE mode[x]]
  BY DEF BorrowTimeout
<1>2. link'[c] # "up" /\ \A d \in Conn : d # c => link'[d] = link[d]
  BY <1>0 DEF BorrowTimeout, TypeOK
<1>3. \A y \in User : \/ mode'[y] = mode[y]
                      \/ y \in Holders(c) /\ mode[y] = "leaked" /\ mode'[y] = "closed"
  BY <1>1
<1>4. tx'[c] = "none" /\ \A d \in Conn : d # c => tx'[d] = tx[d]
  BY <1>0, <1>1, Settled DEF Undo
<1>5. Known(c)'
  BY <1>4 DEF Known
<1>6. Line(c)'
  <2>1. ASSUME NEW y \in Holders(c), mode[y] = "leaked"
        PROVE  \A i \in DOMAIN work[c] : work[c][i][1] # y
    BY <1>0, <2>1, Names DEF Line, Fits, Holders
  <2>2. ASSUME NEW y \in User, mode'[y] = "closed" PROVE y \notin Holders(c)'
    BY <2>2 DEF Holders
  <2> QED BY <1>0, <1>1, <1>3, <2>1, <2>2, LineFrame
<1>7. ASSUME NEW d \in Conn, d # c PROVE Line(d)' /\ Known(d)'
  <2>1. Line(d) /\ Known(d)
    BY DEF Inv
  <2>2. \A y \in User : conn[y] # c => mode'[y] = mode[y]
    BY <1>3 DEF Holders
  <2> QED BY <1>0, <1>1, <1>2, <1>4, <1>7, <2>1, <2>2, OtherConn
<1>8. ASSUME NEW y \in User PROVE Written(y)'
  <2>1. Written(y) /\ Placed(y)
    BY DEF Inv
  <2>2. \A d \in Conn : d # c => Holders(d)' = Holders(d)
    BY <1>1, <1>3 DEF Holders
  <2>3. \A z \in User : mode'[z] = mode[z] \/ mode'[z] = "closed"
    BY <1>3
  <2> QED BY <1>0, <1>1, <1>2, <2>1, <2>2, <2>3, WrittenUndone DEF Placed
<1> QED BY <1>5, <1>6, <1>7, <1>8

LEMMA CreateStep ==
    ASSUME Inv, NEW c \in Conn, Create(c)
    PROVE  /\ \A d \in Conn : Line(d)' /\ Known(d)'
           /\ \A y \in User : Written(y)'
<1> USE Names
<1>0. TypeOK /\ Line(c) /\ Known(c)
  BY DEF Inv
<1>1. /\ link[c] # "up" /\ UNCHANGED <<conn, flag, told, stored, tx>>
      /\ mode' = [x \in User |-> IF x \in Holders(c) THEN "closed" ELSE mode[x]]
      /\ work'[c] = <<>> /\ idle' = idle \cup {c}
      /\ \A d \in Conn : d # c => work'[d] = work[d] /\ link'[d] = link[d]
  BY <1>0 DEF Create, sessionVars, TypeOK
<1>2. tx[c] = "none"
  BY <1>0, <1>1 DEF Known
<1>3. Holders(c)' = {}
  BY <1>1 DEF Holders
<1>4. Line(c)' /\ Known(c)'
  BY <1>1, <1>2, <1>3 DEF Line, Known
<1>5. \A y \in User : mode'[y] = mode[y] \/ (conn[y] = c /\ mode'[y] = "closed")
  BY <1>1 DEF Holders
<1>6. ASSUME NEW d \in Conn, d # c PROVE Line(d)' /\ Known(d)'
  <2>1. Line(d) /\ Known(d)
    BY DEF Inv
  <2>2. \A y \in User : conn[y] # c => mode'[y] = mode[y] /\ flag'[y] = flag[y]
    BY <1>1, <1>5
  <2>3. d \in idle' => d \in idle
    BY <1>1, <1>6
  <2> QED BY <1>0, <1>1, <1>6, <2>1, <2>2, <2>3, OtherConn
<1>7. ASSUME NEW y \in User PROVE Written(y)'
  <2>1. Written(y) /\ Placed(y)
    BY DEF Inv
  <2>2. CASE conn[y] = c
    <3>1. stored[y] # "pending" /\ mode'[y] # "connect"
      BY <1>2, <1>1, <2>1, <2>2 DEF Written, Holders
    <3> QED BY <1>1, <2>1, <3>1 DEF Written
  <2>3. CASE conn[y] # c
    <3>1. Holders(conn[y])' = Holders(conn[y])
      BY <1>1, <1>5, <2>3 DEF Holders
    <3>2. y \in Holders(conn[y])' \/ Holders(conn[y])' = {} \/ stored[y] # "pending"
      BY <2>1, <3>1 DEF Written
    <3> QED BY <1>1, <1>5, <2>1, <2>3, <3>2, WrittenFrame DEF Placed
  <2> QED BY <2>2, <2>3
<1> QED BY <1>4, <1>6, <1>7

-----------------------------------------------------------------------------
(* The query at the head of a line ends.                                   *)

Heads(c, x, s) == work[c] # <<>> /\ Head(work[c]) = <<x, s>>

LEMMA HeadJob ==
    ASSUME Inv, NEW c \in Conn, NEW x \in User, NEW s \in Statements \cup {"close"}, Heads(c, x, s)
    PROVE  /\ 1 \in DOMAIN work[c] /\ work[c][1][1] = x /\ work[c][1][2] = s
           /\ conn[x] = c /\ c \notin idle /\ work[c] \in Seq(Job)
           /\ \A y \in Holders(c) : y = x
           /\ \/ mode[x] \in {"query", "closed"} /\ s \in Queries /\ ~flag[x]
              \/ mode[x] = "connect" /\ s \in Queries
              \/ /\ mode[x] = "connect" /\ s \in {"begin", "commit", "rollback"}
                 /\ (s = "begin" => ~flag[x]) /\ Tail(work[c]) = <<>>
              \/ mode[x] = "closing" /\ s \in Queries
              \/ mode[x] = "closing" /\ s = "close" /\ Tail(work[c]) = <<>>
<1> USE Names
<1>1. Line(c) /\ work[c] \in Seq(Job) /\ work[c] # <<>>
  BY DEF Inv, TypeOK, Job, Heads
<1>2. 1 \in DOMAIN work[c] /\ work[c][1][1] = x /\ work[c][1][2] = s
  BY <1>1, Tails DEF Heads
<1>3. Fits(x, c, 1)
  BY <1>2 DEF Inv, Line
<1>4. Len(work[c]) = 1 => Tail(work[c]) = <<>>
  BY <1>1, Tails
<1>5. c \notin idle /\ \A y \in Holders(c) : y = x
  BY <1>1, <1>2 DEF Line
<1>6. conn[x] = c
  BY <1>3 DEF Fits
<1>7. \/ mode[x] \in {"query", "closed"} /\ s \in Queries /\ ~flag[x]
      \/ mode[x] = "connect" /\ s \in Queries
      \/ /\ mode[x] = "connect" /\ s \in {"begin", "commit", "rollback"}
         /\ (s = "begin" => ~flag[x]) /\ Tail(work[c]) = <<>>
      \/ mode[x] = "closing" /\ s \in Queries
      \/ mode[x] = "closing" /\ s = "close" /\ Tail(work[c]) = <<>>
  BY <1>2, <1>3, <1>4 DEF Fits
<1> QED BY <1>1, <1>2, <1>5, <1>6, <1>7

\* What the client does when it resumes: it still has the connection, or not.
Stays(x, s) == s # "close" /\ mode[x] # "query"

LEMMA Resumed ==
    ASSUME Inv, NEW c \in Conn, NEW x \in User, NEW s \in Statements \cup {"close"},
           Heads(c, x, s), NEW ok \in BOOLEAN, NEW l, Resume(c, x, s, ok, l)
    PROVE  /\ UNCHANGED <<conn, idle>> /\ Line(c)'
           /\ \A d \in Conn : d # c => work'[d] = work[d] /\ link'[d] = link[d]
           /\ \A y \in User : y # x => mode'[y] = mode[y] /\ flag'[y] = flag[y] /\ told'[y] = told[y]
           /\ told'[x] = IF ok THEN ToldAfter(x, s) ELSE ToldRejected(x, s)
           /\ flag'[x] = IF ok /\ mode[x] = "connect" THEN FlagAfter(x, s) ELSE flag[x]
           /\ IF Stays(x, s) THEN mode'[x] = mode[x] /\ link'[c] = l
                             ELSE mode'[x] \in {"closed", "leaked"}
           /\ link'[c] = "up" => l = "up"
<1> USE Names
<1>0. TypeOK /\ Line(c)
  BY DEF Inv
<1>1. /\ UNCHANGED <<conn, idle>>
      /\ flag' = [flag EXCEPT ![x] = IF ok /\ mode[x] = "connect" THEN FlagAfter(x, s) ELSE @]
      /\ told' = [told EXCEPT ![x] = IF ok THEN ToldAfter(x, s) ELSE ToldRejected(x, s)]
  BY DEF Resume
<1>2. /\ \A y \in User : y # x => flag'[y] = flag[y] /\ told'[y] = told[y]
      /\ flag'[x] = IF ok /\ mode[x] = "connect" THEN FlagAfter(x, s) ELSE flag[x]
      /\ told'[x] = IF ok THEN ToldAfter(x, s) ELSE ToldRejected(x, s)
  BY <1>0, <1>1 DEF TypeOK
<1>3. CASE Releases(x, s, ok)
  <2>1. mode' = [mode EXCEPT ![x] = "closed"] /\ Release(c, Tail(work[c]), l) /\ ~Stays(x, s)
    BY <1>3 DEF Resume, Releases, Stays
  <2>2. mode'[x] = "closed" /\ \A y \in User : y # x => mode'[y] = mode[y]
    BY <1>0, <2>1 DEF TypeOK
  <2>3. /\ \A d \in Conn : d # c => work'[d] = work[d] /\ link'[d] = link[d]
        /\ link'[c] = "up" => l = "up"
    BY <1>0, <2>1 DEF Release, TypeOK
  <2>4. x \in Holders(c)
    BY <1>3, HeadJob DEF Holders, Releases, Queries
  <2>5. Tail(work[c]) \in Seq(Job)
    BY HeadJob, Tails DEF Heads
  <2>6. \A i \in DOMAIN Tail(work[c]) :
            Tail(work[c])[i][1] = x /\ Tail(work[c])[i][2] \in Queries /\ ~flag'[x]
    <3>1. CASE Tail(work[c]) = <<>>
      BY <3>1
    <3>2. CASE Tail(work[c]) # <<>>
      <4>1. mode[x] = "query" /\ ~flag'[x]
        BY <1>2, <1>3, <3>2, HeadJob DEF Releases, Queries
      <4>2. \A i \in DOMAIN work[c] : work[c][i][1] = x
        BY <1>0, <2>4 DEF Line
      <4>3. \A i \in DOMAIN work[c] : Fits(x, c, i)
        BY <1>0, <4>2 DEF Line
      <4>4. \A i \in DOMAIN Tail(work[c]) : \E j \in DOMAIN work[c] : Tail(work[c])[i] = work[c][j]
        BY HeadJob, Tails DEF Heads
      <4> QED BY <4>1, <4>2, <4>3, <4>4 DEF Fits
    <3> QED BY <3>1, <3>2
  <2>7. Line(c)'
    BY <1>0, <1>1, <2>1, <2>2, <2>4, <2>5, <2>6, LineReleased
  <2> QED BY <1>1, <1>2, <2>1, <2>2, <2>3, <2>7
<1>4. CASE ~Releases(x, s, ok)
  <2>1. /\ mode' = [mode EXCEPT ![x] = IF s # "close" THEN @
                                        ELSE IF l = "evicted" THEN "closed" ELSE "leaked"]
        /\ work' = [work EXCEPT ![c] = Tail(@)] /\ link' = [link EXCEPT ![c] = l]
    BY <1>4 DEF Resume
  <2>2. /\ \A y \in User : y # x => mode'[y] = mode[y]
        /\ s # "close" => mode'[x] = mode[x]
        /\ s = "close" => mode'[x] \in {"closed", "leaked"}
    BY <1>0, <2>1 DEF TypeOK
  <2>3. /\ link'[c] = l
        /\ \A d \in Conn : d # c => work'[d] = work[d] /\ link'[d] = link[d]
    BY <1>0, <2>1 DEF TypeOK
  <2>4. s # "close" <=> Stays(x, s)
    BY <1>4 DEF Releases, Stays
  <2>5. \A y \in User : y \in Holders(c)' => y \in Holders(c)
    <3>1. s = "close" => x \in Holders(c)
      BY HeadJob DEF Holders, Queries
    <3> QED BY <1>1, <2>2, <3>1 DEF Holders
  <2>6. Tail(work[c]) = <<>> \/ (mode'[x] = mode[x] /\ flag'[x] = flag[x])
    <3>1. Tail(work[c]) # <<>> => s \in Queries
      BY HeadJob
    <3>2. s \in Queries => FlagAfter(x, s) = flag[x] /\ s # "close"
      BY <1>0 DEF FlagAfter, Queries, TypeOK
    <3>3. s \in Queries => flag'[x] = flag[x]
      BY <1>2, <3>2
    <3> QED BY <2>2, <3>1, <3>2, <3>3
  <2>7. Line(c)'
    <3>1. work[c] # <<>> /\ c \notin idle' /\ work[c][1][1] = x
      BY <1>1, HeadJob DEF Heads
    <3> QED BY <1>0, <1>1, <2>1, <2>5, <2>6, <3>1, LineNext
  <2> QED BY <1>1, <1>2, <2>2, <2>3, <2>4, <2>7
<1> QED BY <1>3, <1>4

\* What PostgreSQL does to a session and to the writes pending in it.
LEMMA SessionEnds ==
    ASSUME Inv, NEW c \in Conn, NEW x \in User, NEW s \in Statements \cup {"close"},
           Heads(c, x, s), Undo(c) \/ Commit(c) \/ Execute(c, x, s) \/ Fail(c, s)
    PROVE  /\ \A d \in Conn : d # c => tx'[d] = tx[d]
           /\ \A y \in User : y # x => stored'[y] = stored[y]
<1>0. TypeOK /\ Line(c) /\ Known(c)
  BY DEF Inv
<1>1. CASE Undo(c) \/ Commit(c)
  <2>1. /\ \A d \in Conn : d # c => tx'[d] = tx[d]
        /\ \A y \in User : /\ conn[y] # c => stored'[y] = stored[y]
                           /\ stored[y] # "pending" => stored'[y] = stored[y]
    BY <1>0, <1>1, Settled DEF Undo, Commit
  <2>2. ASSUME NEW y \in User, y # x, stored[y] = "pending", conn[y] = c PROVE FALSE
    <3>1. tx[c] # "none" /\ (y \in Holders(c) \/ Holders(c) = {})
      BY <2>2 DEF Inv, Written
    <3>2. Holders(c) = {x}
      BY <1>0, <3>1, HeadJob, KnownUser
    <3> QED BY <2>2, <3>1, <3>2
  <2> QED BY <2>1, <2>2
<1>2. CASE ~(Undo(c) \/ Commit(c))
  <2>1. /\ \E t : tx' = tx \/ tx' = [tx EXCEPT ![c] = t]
        /\ \E t : stored' = stored \/ stored' = [stored EXCEPT ![x] = t]
    BY <1>2 DEF Execute, Fail, sessionVars
  <2> QED BY <1>0, <2>1 DEF TypeOK
<1> QED BY <1>1, <1>2

\* The effect on the session, by outcome.
LEMMA Outcome ==
    ASSUME Inv, NEW c \in Conn, NEW x \in User, NEW s \in Statements \cup {"close"}, Heads(c, x, s),
           \/ Resolves(c, x, s) \/ Rejects(c, x, s) \/ Breaks(c, x, s) \/ NotConnected(c, x, s)
    PROVE  \E ok \in BOOLEAN, l \in {"up", "broken", "evicted"} :
              /\ Resume(c, x, s, ok, l)
              /\ \/ ok /\ l = "up" /\ link[c] = "up" /\ Accepted(c, s) /\ Execute(c, x, s)
                 \/ ~ok /\ l = "up" /\ link[c] = "up" /\ Fail(c, s)
                 \/ /\ ~ok /\ l = "broken"
                    /\ \/ Undo(c) \/ Commit(c)
                       \/ s = "write" /\ tx[c] = "none" /\ Execute(c, x, s)
                 \/ ~ok /\ l = link[c] /\ link[c] # "up" /\ UNCHANGED sessionVars
<1>1. CASE Resolves(c, x, s)
  BY <1>1 DEF Resolves
<1>2. CASE Rejects(c, x, s)
  BY <1>2 DEF Rejects
<1>3. CASE Breaks(c, x, s)
  BY <1>3 DEF Breaks
<1>4. CASE NotConnected(c, x, s)
  BY <1>4 DEF NotConnected
<1> QED BY <1>1, <1>2, <1>3, <1>4

\* Statements one by one: what they do to a session whose transaction the user knows.
LEMMA Executed ==
    ASSUME Inv, NEW c \in Conn, NEW x \in User, NEW s \in Statements \cup {"close"},
           Heads(c, x, s), Accepted(c, s), Execute(c, x, s)
    PROVE  \/ s = "begin" /\ tx[c] = "none" /\ tx'[c] = "begun" /\ UNCHANGED stored
           \/ s = "read" /\ tx'[c] = tx[c] /\ UNCHANGED stored
           \/ s = "write" /\ tx[c] = "none" /\ tx'[c] = "none" /\ stored'[x] = "committed"
           \/ /\ s = "write" /\ tx[c] # "none" /\ flag[x] /\ tx'[c] = "writing"
              /\ stored'[x] = "pending"
           \/ s = "commit" /\ tx[c] # "failed" /\ Commit(c)
           \/ s = "commit" /\ tx[c] = "failed" /\ Undo(c)
           \/ s \in {"rollback", "close"} /\ Undo(c)
<1>0. TypeOK /\ Line(c) /\ Known(c)
  BY DEF Inv
<1>1. tx[c] # "none" => flag[x]
  BY <1>0, HeadJob, KnownUser
<1>2. s = "begin" => ~flag[x]
  BY HeadJob DEF Queries
<1> QED BY <1>0, <1>1, <1>2 DEF Execute, TypeOK, sessionVars

LEMMA QueryEndsKnown ==
    ASSUME Inv, NEW c \in Conn, NEW x \in User, NEW s \in Statements \cup {"close"}, Heads(c, x, s),
           NEW ok \in BOOLEAN, NEW l, Resume(c, x, s, ok, l),
           \/ ok /\ l = "up" /\ link[c] = "up" /\ Accepted(c, s) /\ Execute(c, x, s)
           \/ ~ok /\ l = "up" /\ link[c] = "up" /\ Fail(c, s)
           \/ /\ ~ok /\ l = "broken"
              /\ \/ Undo(c) \/ Commit(c)
                 \/ s = "write" /\ tx[c] = "none" /\ Execute(c, x, s)
           \/ ~ok /\ l = link[c] /\ link[c] # "up" /\ UNCHANGED sessionVars
    PROVE  Known(c)'
<1>0. TypeOK /\ Line(c) /\ Known(c)
  BY DEF Inv
<1>1. Undo(c) \/ Commit(c) => tx'[c] = "none"
  BY <1>0, Settled DEF Undo, Commit
<1>2. CASE tx'[c] = "none"
  BY <1>2 DEF Known
\* The user that is in the transaction still is.
<1>3. ASSUME mode[x] \in {"connect", "closing"}, s # "close", l = "up", flag'[x] PROVE Known(c)'
  <2>1. /\ mode'[x] = mode[x] /\ link'[c] = "up" /\ conn'[x] = c
    BY <1>3, Resumed, HeadJob DEF Stays
  <2>2. x \in Holders(c)'
    BY <1>3, <2>1 DEF Holders
  <2> QED BY <1>3, <2>1, <2>2 DEF Known
<1>4. tx[c] # "none" => mode[x] \in {"connect", "closing"} /\ flag[x] /\ link[c] = "up"
  BY <1>0, HeadJob, KnownUser
<1>5. CASE ok /\ l = "up" /\ Accepted(c, s) /\ Execute(c, x, s) /\ tx'[c] # "none"
  <2>1. s \in {"begin", "read", "write"} /\ (s = "begin" \/ tx[c] # "none")
    BY <1>1, <1>5, Executed
  <2>2. CASE s = "begin"
    <3>1. mode[x] = "connect"
      BY <2>2, HeadJob DEF Queries
    <3>2. flag'[x]
      BY <1>5, <2>2, <3>1, Resumed DEF FlagAfter
    <3> QED BY <1>3, <1>5, <2>2, <3>1, <3>2
  <2>3. CASE s # "begin"
    <3>1. mode[x] \in {"connect", "closing"} /\ flag[x]
      BY <1>4, <2>1, <2>3
    <3>2. FlagAfter(x, s)
      BY <2>1, <3>1 DEF FlagAfter
    <3>3. flag'[x]
      BY <3>1, <3>2, Resumed
    <3> QED BY <1>3, <1>5, <2>1, <3>1, <3>3
  <2> QED BY <2>2, <2>3
<1>6. CASE ~ok /\ l = "up" /\ Fail(c, s) /\ tx'[c] # "none"
  <2>1. s # "close" /\ tx[c] # "none"
    BY <1>0, <1>1, <1>6 DEF Fail, Accepted, TypeOK
  <2>2. flag'[x] /\ mode[x] \in {"connect", "closing"}
    BY <1>4, <1>6, <2>1, Resumed
  <2> QED BY <1>3, <1>6, <2>1, <2>2
<1>7. CASE l = "broken" /\ s = "write" /\ tx[c] = "none" /\ Execute(c, x, s)
  BY <1>2, <1>7, <1>0 DEF Execute
<1>8. CASE ~ok /\ link[c] # "up" /\ UNCHANGED sessionVars
  BY <1>2, <1>4, <1>8 DEF sessionVars
<1> QED BY <1>1, <1>2, <1>5, <1>6, <1>7, <1>8

\* What the user is told of its writes.
LEMMA QueryEndsWritten ==
    ASSUME Inv, NEW c \in Conn, NEW x \in User, NEW s \in Statements \cup {"close"}, Heads(c, x, s),
           NEW ok \in BOOLEAN, NEW l, Resume(c, x, s, ok, l),
           \/ ok /\ l = "up" /\ link[c] = "up" /\ Accepted(c, s) /\ Execute(c, x, s)
           \/ ~ok /\ l = "up" /\ link[c] = "up" /\ Fail(c, s)
           \/ /\ ~ok /\ l = "broken"
              /\ \/ Undo(c) \/ Commit(c)
                 \/ s = "write" /\ tx[c] = "none" /\ Execute(c, x, s)
           \/ ~ok /\ l = link[c] /\ link[c] # "up" /\ UNCHANGED sessionVars
    PROVE  Written(x)'
<1>0. TypeOK /\ Line(c) /\ Known(c) /\ Written(x)
  BY DEF Inv
<1>1. Undo(c) \/ Commit(c) =>
          /\ tx'[c] = "none" /\ stored'[x] # "pending"
          /\ stored[x] # "pending" => stored'[x] = stored[x]
          /\ Commit(c) /\ stored[x] = "pending" => stored'[x] = "committed"
  BY <1>0, HeadJob, Settled DEF Undo, Commit
<1>2. conn[x] = c /\ conn'[x] = c
  BY HeadJob, Resumed
<1> DEFINE After == IF ok THEN ToldAfter(x, s) ELSE ToldRejected(x, s)
<1>9. told'[x] = After
  BY Resumed
\* A write that stays pending does so in the transaction of its user.
<1>3. ASSUME tx[c] # "none", s # "close" PROVE x \in Holders(c)'
  <2>1. mode[x] \in {"connect", "closing"}
    BY <1>0, <1>3, HeadJob, KnownUser
  <2>2. mode'[x] = mode[x]
    BY <1>3, <2>1, Resumed DEF Stays
  <2> QED BY <1>2, <2>1, <2>2 DEF Holders
<1>4. /\ stored[x] = "pending" => tx[c] \in {"writing", "failed"}
      /\ told[x] = "committed" => stored[x] = "committed"
      /\ told[x] = "none" => stored[x] # "pending"
      /\ told[x] = "pending" /\ mode[x] = "connect" /\ link[c] = "up" =>
            stored[x] \in {"pending", "committed"} /\ tx[c] # "failed"
  BY <1>0, <1>2 DEF Written
<1>5. mode'[x] = "connect" => mode[x] = "connect"
  BY Resumed
<1>6. SUFFICES
          /\ told'[x] = "committed" => stored'[x] = "committed"
          /\ told'[x] = "none" => stored'[x] # "pending"
          /\ stored'[x] = "pending" => tx'[c] \in {"writing", "failed"} /\ x \in Holders(c)'
          /\ told'[x] = "pending" /\ mode'[x] = "connect" /\ link'[c] = "up" =>
                stored'[x] \in {"pending", "committed"} /\ tx'[c] # "failed"
  BY <1>2, <1>6 DEF Written
<1>7. CASE ok /\ l = "up" /\ link[c] = "up" /\ Accepted(c, s) /\ Execute(c, x, s)
  <2>1. told'[x] = ToldAfter(x, s)
    BY <1>7, <1>9
  <2>2. CASE s = "begin" /\ tx[c] = "none" /\ tx'[c] = "begun" /\ UNCHANGED stored
    <3>1. told'[x] = told[x]
      BY <2>1, <2>2 DEF ToldAfter
    <3> QED BY <1>4, <1>5, <1>7, <2>2, <3>1
  <2>3. CASE s = "read" /\ tx'[c] = tx[c] /\ UNCHANGED stored
    <3>1. told'[x] = told[x]
      BY <2>1, <2>3 DEF ToldAfter
    <3> QED BY <1>3, <1>4, <1>5, <1>7, <2>3, <3>1
  <2>4. CASE s = "write" /\ tx'[c] = "none" /\ stored'[x] = "committed"
    <3>1. told'[x] \in {"pending", "committed"}
      BY <2>1, <2>4 DEF ToldAfter
    <3> QED BY <2>4, <3>1
  <2>5. CASE s = "write" /\ tx[c] # "none" /\ flag[x] /\ tx'[c] = "writing" /\ stored'[x] = "pending"
    <3>1. told'[x] = "pending"
      BY <2>1, <2>5 DEF ToldAfter
    <3> QED BY <1>3, <2>5, <3>1
  <2>6. CASE s = "commit" /\ (Commit(c) \/ (tx[c] = "failed" /\ Undo(c)))
    <3>1. mode[x] = "connect"
      BY <2>6, HeadJob DEF Queries
    <3>2. told'[x] = IF told[x] = "pending" THEN "committed" ELSE told[x]
      BY <2>1, <2>6 DEF ToldAfter
    <3> QED BY <1>1, <1>4, <1>7, <2>6, <3>1, <3>2
  <2>7. CASE s = "rollback" /\ Undo(c)
    <3>1. told'[x] = IF told[x] = "pending" THEN "none" ELSE told[x]
      BY <2>1, <2>7 DEF ToldAfter
    <3> QED BY <1>1, <1>4, <2>7, <3>1
  <2>8. CASE s = "close" /\ Undo(c)
    <3>1. told'[x] = told[x] /\ mode'[x] # "connect"
      BY <2>1, <2>8, Resumed DEF ToldAfter, Stays
    <3> QED BY <1>1, <1>4, <2>8, <3>1
  <2> QED BY <1>7, <2>2, <2>3, <2>4, <2>5, <2>6, <2>7, <2>8, Executed
<1>8. CASE ~ok
  <2>1. told'[x] = ToldRejected(x, s)
    BY <1>8, <1>9
  <2>2. /\ told'[x] = "committed" => told[x] = "committed" /\ s # "write"
        /\ told'[x] = "none" => told[x] = "none" /\ s # "write"
        /\ told'[x] # "pending"
    BY <2>1 DEF ToldRejected
  <2>3. CASE Undo(c) \/ Commit(c)
    BY <1>1, <1>4, <2>2, <2>3
  <2>4. CASE s = "write" /\ tx[c] = "none" /\ Execute(c, x, s)
    <3>1. stored'[x] = "committed"
      BY <1>0, <2>4 DEF Execute, TypeOK
    <3> QED BY <2>2, <2>4, <3>1
  <2>5. CASE link[c] # "up" /\ UNCHANGED sessionVars
    <3>1. stored[x] # "pending"
      BY <1>0, <1>4, <2>5 DEF Known
    <3> QED BY <1>4, <2>2, <2>5, <3>1 DEF sessionVars
  <2>6. CASE Fail(c, s) /\ ~Undo(c)
    <3>1. /\ UNCHANGED stored /\ tx' = [tx EXCEPT ![c] = IF @ = "none" THEN "none" ELSE "failed"]
          /\ s # "close" \/ tx[c] = "none"
      BY <1>0, <2>6 DEF Fail, Accepted, TypeOK
    <3>2. tx[c] # "none" => tx'[c] = "failed"
      BY <1>0, <3>1 DEF TypeOK
    <3> QED BY <1>3, <1>4, <2>2, <3>1, <3>2
  <2> QED BY <1>8, <2>3, <2>4, <2>5, <2>6
<1> QED BY <1>7, <1>8

LEMMA QueryEndsStep ==
    ASSUME Inv, NEW c \in Conn, QueryEnds(c)
    PROVE  /\ \A d \in Conn : Line(d)' /\ Known(d)'
           /\ \A y \in User : Written(y)'
<1>0. TypeOK /\ Line(c) /\ Known(c)
  BY DEF Inv
<1>1. PICK x \in User, s \in Statements \cup {"close"} :
          /\ Heads(c, x, s)
          /\ \/ Resolves(c, x, s) \/ Rejects(c, x, s) \/ Breaks(c, x, s) \/ NotConnected(c, x, s)
  BY DEF QueryEnds, Heads
<1>2. PICK ok \in BOOLEAN, l \in {"up", "broken", "evicted"} :
          /\ Resume(c, x, s, ok, l)
          /\ \/ ok /\ l = "up" /\ link[c] = "up" /\ Accepted(c, s) /\ Execute(c, x, s)
             \/ ~ok /\ l = "up" /\ link[c] = "up" /\ Fail(c, s)
             \/ /\ ~ok /\ l = "broken"
                /\ \/ Undo(c) \/ Commit(c)
                   \/ s = "write" /\ tx[c] = "none" /\ Execute(c, x, s)
             \/ ~ok /\ l = link[c] /\ link[c] # "up" /\ UNCHANGED sessionVars
  BY <1>1, Outcome
<1>3. Line(c)' /\ Known(c)' /\ Written(x)'
  BY <1>1, <1>2, Resumed, QueryEndsKnown, QueryEndsWritten
<1>4. /\ \A d \in Conn : d # c => tx'[d] = tx[d]
      /\ \A y \in User : y # x => stored'[y] = stored[y]
  <2>1. CASE UNCHANGED sessionVars
    BY <2>1 DEF sessionVars
  <2>2. CASE Undo(c) \/ Commit(c) \/ Execute(c, x, s) \/ Fail(c, s)
    BY <1>1, <2>2, SessionEnds
  <2> QED BY <1>2, <2>1, <2>2
<1>5. /\ UNCHANGED <<conn, idle>>
      /\ \A d \in Conn : d # c => work'[d] = work[d] /\ link'[d] = link[d]
      /\ \A y \in User : y # x => mode'[y] = mode[y] /\ flag'[y] = flag[y] /\ told'[y] = told[y]
  BY <1>1, <1>2, Resumed
<1>6. conn[x] = c /\ \A y \in Holders(c) : y = x
  BY <1>1, HeadJob
<1>7. ASSUME NEW d \in Conn, d # c PROVE Line(d)' /\ Known(d)'
  <2>1. Line(d) /\ Known(d)
    BY DEF Inv
  <2>2. \A y \in User : conn[y] # c => y # x
    BY <1>6
  <2> QED BY <1>0, <1>4, <1>5, <1>7, <2>1, <2>2, OtherConn
<1>8. ASSUME NEW y \in User, y # x PROVE Written(y)'
  <2>1. Written(y) /\ Placed(y)
    BY DEF Inv
  <2>2. CASE conn[y] = c
    <3>1. y \notin Holders(c)
      BY <1>6, <1>8
    <3>2. mode'[y] # "connect"
      BY <1>5, <1>8, <2>2, <3>1 DEF Holders
    <3>3. stored[y] # "pending"
      <4>1. tx[c] # "none" => Holders(c) = {x}
        BY <1>0, <1>1, HeadJob, KnownUser
      <4> QED BY <2>1, <2>2, <3>1, <4>1 DEF Written
    <3> QED BY <1>4, <1>5, <1>8, <2>1, <3>2, <3>3 DEF Written
  <2>3. CASE conn[y] # c
    <3>1. Holders(conn[y])' = Holders(conn[y])
      BY <1>5, <1>6, <2>3 DEF Holders
    <3>2. y \in Holders(conn[y])' \/ Holders(conn[y])' = {} \/ stored[y] # "pending"
      BY <2>1, <3>1 DEF Written
    <3> QED BY <1>4, <1>5, <1>8, <2>1, <2>3, <3>2, WrittenFrame DEF Placed
  <2> QED BY <2>2, <2>3
<1> QED BY <1>3, <1>7, <1>8

-----------------------------------------------------------------------------
(* Types.                                                                  *)

\* What is in the pool is up, as long as it is not the connection of the step.
LEMMA IdleUp ==
    ASSUME TypeOK, NEW c \in Conn, idle' \subseteq idle, c \notin idle', link' \in [Conn -> {"up", "broken", "evicted", "stuck"}],
           \A d \in Conn : d # c => link'[d] = link[d]
    PROVE  idle' \subseteq { d \in Conn : link'[d] = "up" }
BY DEF TypeOK

LEMMA ReleaseTypes ==
    ASSUME TypeOK, NEW c \in Conn, NEW q \in Seq(Job), NEW l \in {"up", "broken", "evicted", "stuck"},
           Release(c, q, l)
    PROVE  /\ work' \in [Conn -> Seq(Job)] /\ link' \in [Conn -> {"up", "broken", "evicted", "stuck"}]
           /\ \A d \in Conn : d # c => link'[d] = link[d]
<1>1. Append(q, <<"pool", "recycle">>) \in Seq(Job)
  BY Jobs, Appends
<1>2. (IF l = "up" THEN Append(q, <<"pool", "recycle">>) ELSE q) \in Seq(Job)
  BY <1>1
<1>3. (IF l = "broken" THEN "evicted" ELSE l) \in {"up", "broken", "evicted", "stuck"}
  OBVIOUS
<1> QED BY <1>2, <1>3 DEF Release, TypeOK, Job

LEMMA SessionTypes ==
    ASSUME TypeOK, NEW c \in Conn, NEW x \in User, NEW s,
           Undo(c) \/ Commit(c) \/ Execute(c, x, s) \/ Fail(c, s) \/ UNCHANGED sessionVars
    PROVE  /\ tx' \in [Conn -> Transaction]
           /\ stored' \in [User -> {"none", "pending", "committed"}]
<1>1. ASSUME NEW fate \in {"committed", "none"}, SettleWrites(c, fate)
      PROVE  /\ tx' \in [Conn -> Transaction]
             /\ stored' \in [User -> {"none", "pending", "committed"}]
  BY <1>1 DEF SettleWrites, TypeOK, Transaction
<1>2. CASE UNCHANGED sessionVars
  BY <1>2 DEF sessionVars, TypeOK
<1>3. CASE UNCHANGED tx /\ stored' = [stored EXCEPT ![x] = "committed"]
  BY <1>3 DEF TypeOK
<1>4. CASE UNCHANGED stored /\ tx' = [tx EXCEPT ![c] = IF @ = "none" THEN "begun" ELSE @]
  BY <1>4 DEF TypeOK, Transaction
<1>5. CASE UNCHANGED stored /\ tx' = [tx EXCEPT ![c] = IF @ = "none" THEN "none" ELSE "failed"]
  BY <1>5 DEF TypeOK, Transaction
<1>6. CASE stored' = [stored EXCEPT ![x] = "pending"] /\ tx' = [tx EXCEPT ![c] = "writing"]
  BY <1>6 DEF TypeOK, Transaction
<1> QED BY <1>1, <1>2, <1>3, <1>4, <1>5, <1>6 DEF Execute, Fail, Undo, Commit

LEMMA AcquireTypes ==
    ASSUME Inv, NEW x \in User, NEW c \in Conn, Connect(x, c) \/ \E s \in Statements : Query(x, c, s)
    PROVE  TypeOK'
<1>1. TypeOK /\ Acquire(x, c) /\ UNCHANGED <<link, tx>>
  BY DEF Inv, Connect, Query
<1>2. mode' \in {[mode EXCEPT ![x] = "query"], [mode EXCEPT ![x] = "connect"]}
  BY DEF Connect, Query
<1>3. work' \in [Conn -> Seq(Job)]
  <2>1. CASE Connect(x, c)
    BY <1>1, <2>1 DEF Connect, TypeOK, Job
  <2>2. ASSUME NEW s \in Statements, Query(x, c, s) PROVE work' \in [Conn -> Seq(Job)]
    <3>1. Append(work[c], <<x, s>>) \in Seq(Job)
      BY <1>1, Jobs, Appends DEF TypeOK, Job
    <3> QED BY <1>1, <2>2, <3>1 DEF Query, Enqueue, TypeOK, Job
  <2> QED BY <2>1, <2>2
<1>4. mode' \in [User -> Modes]
  BY <1>1, <1>2 DEF TypeOK, Modes
<1> QED BY <1>1, <1>3, <1>4 DEF Acquire, TypeOK, Job

LEMMA CallTypes ==
    ASSUME Inv, NEW x \in User, NEW s \in Statements \cup {"close"},
           Enqueue(conn[x], x, s), mode[x] = "connect"
    PROVE  work' \in [Conn -> Seq(Job)]
<1>1. conn[x] \in Conn /\ work \in [Conn -> Seq(Job)]
  BY HolderPlaced DEF Inv, TypeOK, Job
<1>2. Append(work[conn[x]], <<x, s>>) \in Seq(Job)
  BY <1>1, Jobs, Appends
<1> QED BY <1>1, <1>2 DEF Enqueue

LEMMA LeaveTypes ==
    ASSUME Inv, NEW x \in User, mode[x] = "connect", Release(conn[x], work[conn[x]], link[conn[x]]),
           mode' = [mode EXCEPT ![x] = "closed"], UNCHANGED <<conn, flag, told, sessionVars, idle>>
    PROVE  TypeOK'
<1>1. TypeOK /\ conn[x] \in Conn
  BY HolderPlaced DEF Inv
<1>2. conn[x] \notin idle
  BY <1>1 DEF Inv, Line, Holders
<1>3. /\ work[conn[x]] \in Seq(Job) /\ link[conn[x]] \in {"up", "broken", "evicted", "stuck"}
  BY <1>1 DEF TypeOK, Job
<1>4. /\ work' \in [Conn -> Seq(Job)] /\ link' \in [Conn -> {"up", "broken", "evicted", "stuck"}]
      /\ \A d \in Conn : d # conn[x] => link'[d] = link[d]
  BY <1>1, <1>3, ReleaseTypes
<1>5. idle' \subseteq { d \in Conn : link'[d] = "up" }
  BY <1>1, <1>2, <1>4, IdleUp
<1>6. mode' \in [User -> Modes]
  BY <1>1 DEF TypeOK, Modes
<1> QED BY <1>1, <1>4, <1>5, <1>6 DEF TypeOK, sessionVars, Job

LEMMA QueryEndsTypes ==
    ASSUME Inv, NEW c \in Conn, QueryEnds(c)
    PROVE  TypeOK'
<1>0. TypeOK
  BY DEF Inv
<1>1. PICK x \in User, s \in Statements \cup {"close"} :
          /\ Heads(c, x, s)
          /\ \/ Resolves(c, x, s) \/ Rejects(c, x, s) \/ Breaks(c, x, s) \/ NotConnected(c, x, s)
  BY DEF QueryEnds, Heads
<1>2. PICK ok \in BOOLEAN, l \in {"up", "broken", "evicted"} :
          /\ Resume(c, x, s, ok, l)
          /\ Undo(c) \/ Commit(c) \/ Execute(c, x, s) \/ Fail(c, s) \/ UNCHANGED sessionVars
  BY <1>1, Outcome
<1>3. /\ tx' \in [Conn -> Transaction]
      /\ stored' \in [User -> {"none", "pending", "committed"}]
  BY <1>0, <1>2, SessionTypes
<1>4. c \notin idle /\ work[c] \in Seq(Job) /\ Tail(work[c]) \in Seq(Job)
  BY <1>1, HeadJob, Tails DEF Heads
<1>5. flag' \in [User -> BOOLEAN]
  <2>1. (IF ok /\ mode[x] = "connect" THEN FlagAfter(x, s) ELSE flag[x]) \in BOOLEAN
    BY <1>0 DEF FlagAfter, TypeOK
  <2> QED BY <1>0, <1>2, <2>1 DEF Resume, TypeOK
<1>6. told' \in [User -> {"none", "pending", "committed", "unknown"}]
  <2>1. ToldAfter(x, s) \in {"none", "pending", "committed", "unknown"}
    BY <1>0 DEF ToldAfter, TypeOK
  <2>2. ToldRejected(x, s) \in {"none", "pending", "committed", "unknown"}
    BY <1>0 DEF ToldRejected, TypeOK
  <2> QED BY <1>0, <1>2, <2>1, <2>2 DEF Resume, TypeOK
<1>7. CASE Releases(x, s, ok)
  <2>1. mode' = [mode EXCEPT ![x] = "closed"] /\ Release(c, Tail(work[c]), l) /\ UNCHANGED <<conn, idle>>
    BY <1>2, <1>7 DEF Resume
  <2>2. /\ work' \in [Conn -> Seq(Job)] /\ link' \in [Conn -> {"up", "broken", "evicted", "stuck"}]
        /\ \A d \in Conn : d # c => link'[d] = link[d]
    BY <1>0, <1>2, <1>4, <2>1, ReleaseTypes
  <2>3. idle' \subseteq { d \in Conn : link'[d] = "up" }
    BY <1>0, <1>4, <2>1, <2>2, IdleUp
  <2>4. mode' \in [User -> Modes]
    BY <1>0, <2>1 DEF TypeOK, Modes
  <2> QED BY <1>0, <1>3, <1>5, <1>6, <2>1, <2>2, <2>3, <2>4 DEF TypeOK, Job
<1>8. CASE ~Releases(x, s, ok)
  <2>1. /\ work' = [work EXCEPT ![c] = Tail(@)] /\ link' = [link EXCEPT ![c] = l]
        /\ mode' = [mode EXCEPT ![x] = IF s # "close" THEN @
                                       ELSE IF l = "evicted" THEN "closed" ELSE "leaked"]
        /\ UNCHANGED <<conn, idle>>
    BY <1>2, <1>8 DEF Resume
  <2>2. work' \in [Conn -> Seq(Job)]
    BY <1>0, <1>4, <2>1 DEF TypeOK, Job
  <2>3. /\ link' \in [Conn -> {"up", "broken", "evicted", "stuck"}]
        /\ \A d \in Conn : d # c => link'[d] = link[d]
    BY <1>0, <1>2, <2>1 DEF TypeOK
  <2>4. idle' \subseteq { d \in Conn : link'[d] = "up" }
    BY <1>0, <1>4, <2>1, <2>3, IdleUp
  <2>5. mode' \in [User -> Modes]
    BY <1>0, <2>1 DEF TypeOK, Modes
  <2> QED BY <1>0, <1>3, <1>5, <1>6, <2>1, <2>2, <2>3, <2>4, <2>5 DEF TypeOK, Job
<1> QED BY <1>7, <1>8

LEMMA NextTypes ==
    ASSUME Inv, [Next]_vars
    PROVE  TypeOK'
<1>0. TypeOK
  BY DEF Inv
<1>1. ASSUME NEW x \in User, NEW c \in Conn, Connect(x, c) \/ \E s \in Statements : Query(x, c, s)
      PROVE  TypeOK'
  BY <1>1, AcquireTypes
<1>2. ASSUME NEW x \in User, NEW s \in Statements, Call(x, s) PROVE TypeOK'
  <2>1. mode[x] = "connect" /\ Enqueue(conn[x], x, s) /\ UNCHANGED <<userVars, sessionVars, idle, link>>
    BY <1>2 DEF Call, MayCall
  <2>2. work' \in [Conn -> Seq(Job)]
    BY <2>1, CallTypes
  <2> QED BY <1>0, <2>1, <2>2 DEF TypeOK, userVars, sessionVars, Job
<1>3. ASSUME NEW x \in User, Close(x) PROVE TypeOK'
  <2>1. mode[x] = "connect" /\ UNCHANGED <<conn, flag, told, sessionVars, idle>>
    BY <1>3 DEF Close, MayCall
  <2>2. CASE flag[x]
    <3>1. Enqueue(conn[x], x, "close") /\ mode' = [mode EXCEPT ![x] = "closing"] /\ UNCHANGED link
      BY <1>3, <2>2 DEF Close
    <3>2. work' \in [Conn -> Seq(Job)]
      BY <2>1, <3>1, CallTypes
    <3>3. mode' \in [User -> Modes]
      BY <1>0, <3>1 DEF TypeOK, Modes
    <3> QED BY <1>0, <2>1, <3>1, <3>2, <3>3 DEF TypeOK, sessionVars, Job
  <2>3. CASE ~flag[x]
    BY <1>3, <2>1, <2>3, LeaveTypes DEF Close
  <2> QED BY <2>2, <2>3
<1>4. ASSUME NEW x \in User, Drop(x) PROVE TypeOK'
  BY <1>4, LeaveTypes DEF Drop
<1>5. ASSUME NEW c \in Conn, QueryEnds(c) PROVE TypeOK'
  BY <1>5, QueryEndsTypes
<1>6. ASSUME NEW c \in Conn, Recycle(c) PROVE TypeOK'
  <2>1. Undo(c) \/ UNCHANGED sessionVars
    BY <1>6 DEF Recycle, RollBack
  <2>2. /\ tx' \in [Conn -> Transaction]
        /\ stored' \in [User -> {"none", "pending", "committed"}]
    <3>1. CASE Undo(c)
      BY <1>0, <3>1 DEF Undo, SettleWrites, TypeOK, Transaction
    <3>2. CASE UNCHANGED sessionVars
      BY <1>0, <3>2 DEF sessionVars, TypeOK
    <3> QED BY <2>1, <3>1, <3>2
  <2>3. work' \in [Conn -> Seq(Job)]
    <3>1. Tail(work[c]) \in Seq(Job) /\ work \in [Conn -> Seq(Job)]
      BY <1>0, <1>6, Tails DEF Recycle, TypeOK, Job
    <3> QED BY <1>6, <3>1 DEF Recycle
  <2>4. c \notin idle
    BY <1>6 DEF Recycle, Inv, Line
  <2>5. link' \in [Conn -> {"up", "broken", "evicted", "stuck"}] /\ idle' \subseteq { d \in Conn : link'[d] = "up" }
    <3>1. CASE Recyclable(c) /\ idle' = idle \cup {c} /\ UNCHANGED link
      BY <1>0, <3>1 DEF TypeOK, Recyclable
    <3>2. CASE link' = [link EXCEPT ![c] = "evicted"] /\ UNCHANGED idle
      BY <1>0, <2>4, <3>2 DEF TypeOK
    <3> QED BY <1>6, <3>1, <3>2 DEF Recycle
  <2>6. UNCHANGED userVars
    BY <1>6 DEF Recycle
  <2> QED BY <1>0, <2>2, <2>3, <2>5, <2>6 DEF TypeOK, userVars, Job
<1>7. ASSUME NEW c \in Conn, BorrowTimeout(c) PROVE TypeOK'
  <2>1. /\ Undo(c) /\ UNCHANGED <<conn, flag, told, idle, work>> /\ Holders(c) # {}
        /\ link' = [link EXCEPT ![c] = IF @ = "up" /\ work[c] # <<>> THEN "stuck" ELSE "evicted"]
        /\ mode' = [x \in User |-> IF x \in Holders(c) /\ mode[x] = "leaked" THEN "closed" ELSE mode[x]]
    BY <1>7 DEF BorrowTimeout, Armed
  <2>2. c \notin idle
    BY <2>1 DEF Inv, Line
  <2>3. link' \in [Conn -> {"up", "broken", "evicted", "stuck"}] /\ idle' \subseteq { d \in Conn : link'[d] = "up" }
    BY <1>0, <2>1, <2>2 DEF TypeOK
  <2>4. mode' \in [User -> Modes]
    BY <1>0, <2>1 DEF TypeOK, Modes
  <2>5. /\ tx' \in [Conn -> Transaction]
        /\ stored' \in [User -> {"none", "pending", "committed"}]
    BY <1>0, <2>1 DEF Undo, SettleWrites, TypeOK, Transaction
  <2> QED BY <1>0, <2>1, <2>3, <2>4, <2>5 DEF TypeOK
<1>8. ASSUME NEW c \in Conn, Create(c) PROVE TypeOK'
  <2>1. /\ link' = [link EXCEPT ![c] = "up"] /\ work' = [work EXCEPT ![c] = <<>>] /\ idle' = idle \cup {c}
        /\ mode' = [x \in User |-> IF x \in Holders(c) THEN "closed" ELSE mode[x]]
        /\ UNCHANGED <<conn, flag, told, sessionVars>>
    BY <1>8 DEF Create
  <2>2. mode' \in [User -> Modes]
    BY <1>0, <2>1 DEF TypeOK, Modes
  <2>3. work' \in [Conn -> Seq(Job)]
    <3>1. <<>> \in Seq(Job)
      OBVIOUS
    <3> QED BY <1>0, <2>1, <3>1 DEF TypeOK, Job
  <2>4. link' \in [Conn -> {"up", "broken", "evicted", "stuck"}] /\ idle' \subseteq { d \in Conn : link'[d] = "up" }
    BY <1>0, <2>1 DEF TypeOK
  <2> QED BY <1>0, <2>1, <2>2, <2>3, <2>4 DEF TypeOK, sessionVars, Job
<1>9. CASE UNCHANGED vars
  BY <1>0, <1>9 DEF TypeOK, vars, userVars, sessionVars, poolVars
<1> QED BY <1>1, <1>2, <1>3, <1>4, <1>5, <1>6, <1>7, <1>8, <1>9 DEF Next

-----------------------------------------------------------------------------
(* The invariant.                                                          *)

LEMMA InitInv == Init => Inv
<1> SUFFICES ASSUME Init PROVE Inv
  OBVIOUS
<1>1. \A c \in Conn : work[c] = <<>> /\ Holders(c) = {} /\ tx[c] = "none"
  BY DEF Init, Holders
<1>2. TypeOK
  <2>1. <<>> \in Seq(Job)
    OBVIOUS
  <2> QED BY <2>1 DEF Init, TypeOK, Modes, Transaction, Job
<1>3. \A c \in Conn : Line(c) /\ Known(c)
  BY <1>1 DEF Line, Known
<1>4. \A x \in User : Placed(x) /\ Written(x)
  BY DEF Init, Placed, Written
<1> QED BY <1>2, <1>3, <1>4 DEF Inv

\* A user keeps the connection it had, or gets one.
LEMMA NextPlaced ==
    ASSUME Inv, [Next]_vars, NEW y \in User
    PROVE  Placed(y)'
<1>0. TypeOK /\ Placed(y)
  BY DEF Inv
<1>1. ASSUME NEW x \in User, NEW c \in Conn, Connect(x, c) \/ \E s \in Statements : Query(x, c, s)
      PROVE  Placed(y)'
  <2>1. /\ conn' = [conn EXCEPT ![x] = c] /\ told' = [told EXCEPT ![x] = "none"]
        /\ stored' = [stored EXCEPT ![x] = "none"]
        /\ mode' \in {[mode EXCEPT ![x] = "query"], [mode EXCEPT ![x] = "connect"]}
    BY <1>1 DEF Connect, Query, Acquire
  <2> QED BY <1>0, <2>1 DEF Placed, TypeOK
<1>2. CASE UNCHANGED conn /\ conn[y] \in Conn
  BY <1>2 DEF Placed
<1>3. ASSUME mode[y] = "none", conn[y] \notin Conn, told[y] = "none", stored[y] = "none",
             UNCHANGED conn, mode'[y] = mode[y], told'[y] = told[y], stored'[y] = stored[y]
      PROVE  Placed(y)'
  BY <1>3 DEF Placed
<1>4. ASSUME NEW x \in User, Close(x) \/ Drop(x) \/ \E s \in Statements : Call(x, s)
      PROVE  Placed(y)'
  <2>1. mode[x] = "connect" /\ UNCHANGED <<conn, told, stored>>
    BY <1>4 DEF Close, Drop, Call, MayCall, userVars, sessionVars
  <2>2. y # x => mode'[y] = mode[y]
    BY <1>0, <1>4 DEF Close, Drop, Call, userVars, TypeOK
  <2> QED BY <1>0, <1>2, <1>3, <2>1, <2>2 DEF Placed
<1>5. ASSUME NEW c \in Conn, QueryEnds(c) PROVE Placed(y)'
  <2>1. PICK x \in User, s \in Statements \cup {"close"} :
            /\ Heads(c, x, s)
            /\ \/ Resolves(c, x, s) \/ Rejects(c, x, s) \/ Breaks(c, x, s) \/ NotConnected(c, x, s)
    BY <1>5 DEF QueryEnds, Heads
  <2>2. PICK ok \in BOOLEAN, l \in {"up", "broken", "evicted"} :
            /\ Resume(c, x, s, ok, l)
            /\ Undo(c) \/ Commit(c) \/ Execute(c, x, s) \/ Fail(c, s) \/ UNCHANGED sessionVars
    BY <2>1, Outcome
  <2>3. /\ UNCHANGED conn /\ conn[x] = c
        /\ y # x => mode'[y] = mode[y] /\ told'[y] = told[y]
    BY <2>1, <2>2, Resumed, HeadJob
  <2>4. y # x => stored'[y] = stored[y]
    BY <2>1, <2>2, SessionEnds DEF sessionVars
  <2> QED BY <1>0, <1>2, <1>3, <2>3, <2>4 DEF Placed
<1>6. ASSUME NEW c \in Conn, Recycle(c) \/ BorrowTimeout(c) \/ Create(c) PROVE Placed(y)'
  <2>1. UNCHANGED <<conn, told>> /\ (mode[y] = "none" => mode'[y] = mode[y])
    BY <1>6 DEF Recycle, BorrowTimeout, Create, Holders, userVars
  <2>2. stored[y] # "pending" => stored'[y] = stored[y]
    BY <1>6 DEF Recycle, RollBack, BorrowTimeout, Create, Undo, SettleWrites, sessionVars
  <2> QED BY <1>0, <1>2, <1>3, <2>1, <2>2 DEF Placed
<1>7. CASE UNCHANGED vars
  BY <1>0, <1>7 DEF Placed, vars, userVars, sessionVars
<1> QED BY <1>1, <1>4, <1>5, <1>6, <1>7 DEF Next

LEMMA NextInv ==
    ASSUME Inv, "unnoticed" \notin Events, [Next]_vars
    PROVE  Inv'
<1>1. TypeOK'
  BY NextTypes
<1>2. \A x \in User : Placed(x)'
  BY NextPlaced
<1>3. /\ \A c \in Conn : Line(c)' /\ Known(c)'
      /\ \A x \in User : Written(x)'
  <2>1. CASE UNCHANGED vars
    <3>1. \A d \in Conn : (Line(d) <=> Line(d)') /\ (Known(d) <=> Known(d)')
      BY <2>1 DEF vars, userVars, sessionVars, poolVars, Line, Known, Fits, Holders
    <3>2. \A y \in User : Written(y) <=> Written(y)'
      BY <2>1 DEF vars, userVars, sessionVars, poolVars, Written, Holders
    <3> QED BY <3>1, <3>2 DEF Inv
  <2> QED BY <2>1, AcquireStep, CallStep, CloseStep, DropStep, QueryEndsStep, RecycleStep,
             BorrowTimeoutStep, CreateStep DEF Next
<1> QED BY <1>1, <1>2, <1>3 DEF Inv

LEMMA Invariance ==
    ASSUME "unnoticed" \notin Events
    PROVE  Spec => []Inv
<1>1. Inv /\ [Next]_vars => Inv'
  BY NextInv
<1> QED BY InitInv, <1>1, PTL DEF Spec

-----------------------------------------------------------------------------
(* What a user believes.                                                   *)

LEMMA BelievesFrame ==
    ASSUME NEW y \in User, Believes(y), UNCHANGED conn, flag'[y] = flag[y], told'[y] = told[y],
           (stored[y] = "pending" /\ stored'[y] = "none") \/ stored'[y] = stored[y],
           mode'[y] \in {"connect", "closing"} =>
               /\ mode[y] \in {"connect", "closing"}
               /\ link'[conn[y]] = "up" => link[conn[y]] = "up" /\ tx'[conn[y]] = tx[conn[y]]
    PROVE  Believes(y)'
BY DEF Believes

LEMMA QueryEndsBelief ==
    ASSUME Inv, "commitFails" \notin Events, NEW c \in Conn, NEW x \in User, Believes(x),
           NEW s \in Statements \cup {"close"}, Heads(c, x, s),
           NEW ok \in BOOLEAN, NEW l, Resume(c, x, s, ok, l),
           \/ ok /\ l = "up" /\ link[c] = "up" /\ Accepted(c, s) /\ Execute(c, x, s)
           \/ ~ok /\ l = "up" /\ link[c] = "up" /\ Fail(c, s)
           \/ /\ ~ok /\ l = "broken"
              /\ \/ Undo(c) \/ Commit(c)
                 \/ s = "write" /\ tx[c] = "none" /\ Execute(c, x, s)
           \/ ~ok /\ l = link[c] /\ link[c] # "up" /\ UNCHANGED sessionVars
    PROVE  Believes(x)'
<1>0. TypeOK
  BY DEF Inv
<1>1. (Undo(c) \/ Commit(c)) /\ stored[x] # "pending" => stored'[x] = stored[x]
  BY <1>0, Settled DEF Undo, Commit
<1>2. Undo(c) /\ stored[x] # "committed" => stored'[x] # "committed"
  BY DEF Undo, SettleWrites
<1>3. conn[x] = c /\ conn'[x] = c
  BY HeadJob, Resumed
<1>4. /\ told[x] \in {"none", "pending"} => stored[x] # "committed"
      /\ told[x] = "none" => stored[x] # "pending"
      /\ flag[x] /\ mode[x] \in {"connect", "closing"} /\ link[c] = "up" => tx[c] # "none"
  BY <1>3 DEF Believes, Inv, Written
<1>5. mode'[x] \in {"connect", "closing"} => mode'[x] = mode[x] /\ s # "close"
  BY Resumed DEF Stays
<1> DEFINE After == IF ok THEN ToldAfter(x, s) ELSE ToldRejected(x, s)
           Flag == IF ok /\ mode[x] = "connect" THEN FlagAfter(x, s) ELSE flag[x]
<1>6. told'[x] = After /\ flag'[x] = Flag /\ (link'[c] = "up" => l = "up")
  BY Resumed
<1>7. SUFFICES
          /\ flag'[x] /\ mode'[x] \in {"connect", "closing"} /\ link'[c] = "up" => tx'[c] # "none"
          /\ told'[x] \in {"none", "pending"} => stored'[x] # "committed"
  BY <1>3, <1>7 DEF Believes
<1>8. CASE ok /\ l = "up" /\ link[c] = "up" /\ Accepted(c, s) /\ Execute(c, x, s)
  <2>1. /\ told'[x] = ToldAfter(x, s)
        /\ flag'[x] = IF mode[x] = "connect" THEN FlagAfter(x, s) ELSE flag[x]
    BY <1>6, <1>8
  <2>2. CASE s = "begin" /\ tx[c] = "none" /\ tx'[c] = "begun" /\ UNCHANGED stored
    <3>1. told'[x] = told[x]
      BY <2>1, <2>2 DEF ToldAfter
    <3> QED BY <1>4, <2>2, <3>1
  <2>3. CASE s = "read" /\ tx'[c] = tx[c] /\ UNCHANGED stored
    <3>1. told'[x] = told[x]
      BY <2>1, <2>3 DEF ToldAfter
    <3>2. flag'[x] = flag[x]
      BY <1>0, <2>1, <2>3 DEF FlagAfter, TypeOK
    <3> QED BY <1>4, <1>5, <1>8, <2>3, <3>1, <3>2
  <2>4. CASE s = "write" /\ tx[c] = "none" /\ tx'[c] = "none" /\ stored'[x] = "committed"
    <3>1. ~flag[x]
      BY <1>4, <1>8, <2>4, HeadJob
    <3>2. told'[x] = "committed" /\ ~flag'[x]
      BY <2>1, <2>4, <3>1 DEF ToldAfter, FlagAfter
    <3> QED BY <3>2
  <2>5. CASE s = "write" /\ tx[c] # "none" /\ flag[x] /\ tx'[c] = "writing" /\ stored'[x] = "pending"
    BY <2>5
  <2>6. CASE s = "commit" /\ (Commit(c) \/ Undo(c))
    <3>1. mode[x] = "connect"
      BY <2>6, HeadJob DEF Queries
    <3>2. /\ told'[x] = IF told[x] = "pending" THEN "committed" ELSE told[x]
          /\ ~flag'[x]
      BY <2>1, <2>6, <3>1 DEF ToldAfter, FlagAfter
    <3> QED BY <1>1, <1>4, <2>6, <3>2
  <2>7. CASE s = "rollback" /\ Undo(c)
    <3>1. mode[x] = "connect"
      BY <2>7, HeadJob DEF Queries
    <3>2. /\ told'[x] = IF told[x] = "pending" THEN "none" ELSE told[x]
          /\ ~flag'[x]
      BY <2>1, <2>7, <3>1 DEF ToldAfter, FlagAfter
    <3> QED BY <1>2, <1>4, <2>7, <3>2
  <2>8. CASE s = "close" /\ Undo(c)
    <3>1. told'[x] = told[x]
      BY <2>1, <2>8 DEF ToldAfter
    <3> QED BY <1>2, <1>4, <1>5, <2>8, <3>1
  <2> QED BY <1>8, <2>2, <2>3, <2>4, <2>5, <2>6, <2>7, <2>8, Executed
<1>9. CASE ~ok
  <2>1. told'[x] = ToldRejected(x, s) /\ flag'[x] = flag[x]
    BY <1>6, <1>9
  <2>2. told'[x] \in {"none", "pending"} => told[x] = "none" /\ s # "write"
    BY <2>1 DEF ToldRejected
  <2>3. CASE Undo(c) \/ Commit(c)
    <3>1. told'[x] \in {"none", "pending"} => stored'[x] # "committed"
      BY <1>1, <1>4, <2>2, <2>3
    <3>2. CASE l # "up"
      BY <1>6, <3>1, <3>2
    <3>3. CASE link[c] = "up" /\ Fail(c, s)
      <4>1. tx' = [tx EXCEPT ![c] = IF @ = "none" THEN "none" ELSE "failed"]
        BY <3>3 DEF Fail
      <4>2. tx[c] # "none" => tx'[c] # "none"
        BY <1>0, <4>1 DEF TypeOK
      <4> QED BY <1>4, <1>5, <2>1, <3>1, <3>3, <4>2
    <3> QED BY <1>9, <3>2, <3>3
  <2>4. CASE s = "write" /\ l = "broken"
    BY <1>6, <2>2, <2>4
  <2>5. CASE l # "up" /\ UNCHANGED sessionVars
    BY <1>4, <1>6, <2>2, <2>5 DEF sessionVars
  <2>6. CASE l = "up" /\ link[c] = "up" /\ Fail(c, s)
    <3>1. UNCHANGED stored /\ tx' = [tx EXCEPT ![c] = IF @ = "none" THEN "none" ELSE "failed"]
      BY <2>6 DEF Fail
    <3>2. tx[c] # "none" => tx'[c] # "none"
      BY <1>0, <3>1 DEF TypeOK
    <3> QED BY <1>4, <1>5, <2>1, <2>2, <2>6, <3>1, <3>2
  <2> QED BY <1>9, <2>3, <2>4, <2>5, <2>6
<1> QED BY <1>8, <1>9

LEMMA NextBelief ==
    ASSUME Inv, Belief, "commitFails" \notin Events, [Next]_vars
    PROVE  Belief'
<1> SUFFICES ASSUME NEW y \in User PROVE Believes(y)'
  BY DEF Belief
<1>0. TypeOK /\ Believes(y)
  BY DEF Inv, Belief
<1>1. ASSUME NEW x \in User, NEW c \in Conn, Connect(x, c) \/ \E s \in Statements : Query(x, c, s)
      PROVE  Believes(y)'
  <2>1. /\ conn' = [conn EXCEPT ![x] = c] /\ UNCHANGED <<tx, link>>
        /\ flag' = [flag EXCEPT ![x] = FALSE] /\ told' = [told EXCEPT ![x] = "none"]
        /\ stored' = [stored EXCEPT ![x] = "none"]
        /\ mode' \in {[mode EXCEPT ![x] = "query"], [mode EXCEPT ![x] = "connect"]}
    BY <1>1 DEF Connect, Query, Acquire
  <2>2. CASE y = x
    <3>1. ~flag'[y] /\ stored'[y] = "none"
      BY <1>0, <2>1, <2>2 DEF TypeOK
    <3> QED BY <3>1 DEF Believes
  <2>3. CASE y # x
    <3>1. /\ conn'[y] = conn[y] /\ flag'[y] = flag[y] /\ told'[y] = told[y] /\ stored'[y] = stored[y]
          /\ mode'[y] = mode[y]
      BY <1>0, <2>1, <2>3 DEF TypeOK
    <3> QED BY <1>0, <2>1, <3>1 DEF Believes
  <2> QED BY <2>2, <2>3
<1>2. ASSUME NEW x \in User, Close(x) \/ Drop(x) \/ \E s \in Statements : Call(x, s)
      PROVE  Believes(y)'
  <2>1. mode[x] = "connect" /\ UNCHANGED <<conn, flag, told, stored, tx>>
    BY <1>2 DEF Close, Drop, Call, MayCall, userVars, sessionVars
  <2>2. conn[x] \in Conn
    BY <2>1, HolderPlaced
  <2>3. mode'[y] \in {"connect", "closing"} => mode[y] \in {"connect", "closing"}
    BY <1>0, <1>2, <2>1 DEF Close, Drop, Call, userVars, TypeOK
  <2>4. \A d \in Conn : link'[d] = "up" => link[d] = "up"
    BY <1>0, <1>2, <2>2 DEF Close, Drop, Call, Release, TypeOK
  <2>5. mode[y] \in {"connect", "closing"} => conn[y] \in Conn
    BY HolderPlaced
  <2> QED BY <1>0, <2>1, <2>3, <2>4, <2>5, BelievesFrame
<1>3. ASSUME NEW c \in Conn, QueryEnds(c) PROVE Believes(y)'
  <2>1. PICK x \in User, s \in Statements \cup {"close"} :
            /\ Heads(c, x, s)
            /\ \/ Resolves(c, x, s) \/ Rejects(c, x, s) \/ Breaks(c, x, s) \/ NotConnected(c, x, s)
    BY <1>3 DEF QueryEnds, Heads
  <2>2. PICK ok \in BOOLEAN, l \in {"up", "broken", "evicted"} :
            /\ Resume(c, x, s, ok, l)
            /\ \/ ok /\ l = "up" /\ link[c] = "up" /\ Accepted(c, s) /\ Execute(c, x, s)
               \/ ~ok /\ l = "up" /\ link[c] = "up" /\ Fail(c, s)
               \/ /\ ~ok /\ l = "broken"
                  /\ \/ Undo(c) \/ Commit(c)
                     \/ s = "write" /\ tx[c] = "none" /\ Execute(c, x, s)
               \/ ~ok /\ l = link[c] /\ link[c] # "up" /\ UNCHANGED sessionVars
    BY <2>1, Outcome
  <2>3. CASE y = x
    BY <1>0, <2>1, <2>2, <2>3, QueryEndsBelief
  <2>4. CASE y # x
    <3>1. /\ UNCHANGED conn /\ mode'[y] = mode[y] /\ flag'[y] = flag[y] /\ told'[y] = told[y]
          /\ \A d \in Conn : d # c => link'[d] = link[d]
      BY <2>1, <2>2, <2>4, Resumed
    <3>2. stored'[y] = stored[y] /\ \A d \in Conn : d # c => tx'[d] = tx[d]
      BY <2>1, <2>2, <2>4, SessionEnds DEF sessionVars
    <3>3. mode[y] \in {"connect", "closing"} => conn[y] \in Conn /\ conn[y] # c
      BY <2>1, <2>4, HeadJob, HolderPlaced DEF Holders
    <3> QED BY <1>0, <3>1, <3>2, <3>3, BelievesFrame
  <2> QED BY <2>3, <2>4
<1>4. ASSUME NEW c \in Conn, Recycle(c) PROVE Believes(y)'
  <2>1. UNCHANGED userVars /\ (Undo(c) \/ UNCHANGED sessionVars) /\ \A d \in Conn : d # c => link'[d] = link[d]
    BY <1>0, <1>4 DEF Recycle, RollBack, TypeOK
  <2>2. /\ (stored[y] = "pending" /\ stored'[y] = "none") \/ stored'[y] = stored[y]
        /\ \A d \in Conn : d # c => tx'[d] = tx[d]
    BY <1>0, <2>1 DEF Undo, SettleWrites, TypeOK, sessionVars
  <2>3. mode[y] \in {"connect", "closing"} => conn[y] \in Conn /\ conn[y] # c
    BY <1>4, RecycledAlone, HolderPlaced DEF Holders
  <2> QED BY <1>0, <2>1, <2>2, <2>3, BelievesFrame DEF userVars
<1>5. ASSUME NEW c \in Conn, BorrowTimeout(c) PROVE Believes(y)'
  <2>1. /\ Undo(c) /\ UNCHANGED <<conn, flag, told>>
        /\ link'[c] # "up" /\ \A d \in Conn : d # c => link'[d] = link[d]
        /\ mode' = [x \in User |-> IF x \in Holders(c) /\ mode[x] = "leaked" THEN "closed" ELSE mode[x]]
    BY <1>0, <1>5 DEF BorrowTimeout, TypeOK
  <2>2. /\ (stored[y] = "pending" /\ stored'[y] = "none") \/ stored'[y] = stored[y]
        /\ \A d \in Conn : d # c => tx'[d] = tx[d]
    BY <1>0, <2>1 DEF Undo, SettleWrites, TypeOK
  <2>3. mode'[y] \in {"connect", "closing"} => mode[y] = mode'[y] /\ conn[y] \in Conn
    BY <2>1, HolderPlaced
  <2> QED BY <1>0, <2>1, <2>2, <2>3, BelievesFrame
<1>6. ASSUME NEW c \in Conn, Create(c) PROVE Believes(y)'
  <2>1. /\ UNCHANGED <<conn, flag, told, stored, tx>>
        /\ mode' = [x \in User |-> IF x \in Holders(c) THEN "closed" ELSE mode[x]]
        /\ \A d \in Conn : d # c => link'[d] = link[d]
    BY <1>0, <1>6 DEF Create, TypeOK, sessionVars
  <2>2. mode'[y] \in {"connect", "closing"} => /\ mode[y] = mode'[y] /\ conn[y] \in Conn
                                               /\ conn[y] # c
    BY <2>1, HolderPlaced DEF Holders
  <2> QED BY <1>0, <2>1, <2>2, BelievesFrame
<1>7. CASE UNCHANGED vars
  BY <1>0, <1>7 DEF Believes, vars, userVars, sessionVars, poolVars
<1> QED BY <1>1, <1>2, <1>3, <1>4, <1>5, <1>6, <1>7 DEF Next

LEMMA InitBelief == Init => Belief
BY DEF Init, Belief, Believes

-----------------------------------------------------------------------------
(* Theorems.                                                               *)

\* The types hold whatever happens but an unnoticed transaction: what is in
\* _available is connected (pool.ts), and a user is in one of its modes.
THEOREM TransactionTypes ==
    ASSUME "unnoticed" \notin Events
    PROVE  Spec => []TypeOK
<1>1. Inv => TypeOK
  BY DEF Inv
<1> QED BY <1>1, Invariance, PTL

\* Nobody is lent a connection in the transaction of somebody else: _recycle() of
\* client-psql has ended it, or the connection is not in the pool (CleanHandover).
THEOREM HandsOverClean ==
    ASSUME "unnoticed" \notin Events
    PROVE  Spec => []CleanHandover
<1>1. Inv => CleanHandover
  <2> SUFFICES ASSUME Inv, NEW c \in idle PROVE tx[c] = "none"
    BY DEF CleanHandover
  <2>1. c \in Conn /\ Line(c) /\ Known(c)
    BY DEF Inv, TypeOK
  <2> QED BY <2>1 DEF Line, Known
<1> QED BY <1>1, Invariance, PTL

\* A write whose query, or whose commit(), has resolved is in the database: no
\* recycling, break or transaction of another user takes it back (NoLostWrite).
THEOREM KeepsWrites ==
    ASSUME "unnoticed" \notin Events
    PROVE  Spec => []NoLostWrite
<1>1. Inv => NoLostWrite
  BY DEF Inv, Written, NoLostWrite
<1> QED BY <1>1, Invariance, PTL

LEMMA Beliefs ==
    ASSUME "unnoticed" \notin Events, "commitFails" \notin Events
    PROVE  Spec => []Belief
<1>1. Inv /\ Belief /\ [Next]_vars => Belief'
  BY NextBelief
<1> QED BY InitBelief, Invariance, <1>1, PTL DEF Spec

\* With COMMITs that do not fail, what a user has not committed is not in the
\* database, and never is once it has rolled back (NothingUnasked).
THEOREM CommitsWhenAsked ==
    ASSUME "unnoticed" \notin Events, "commitFails" \notin Events
    PROVE  Spec => []NothingUnasked
<1>1. Belief => NothingUnasked
  BY DEF Belief, Believes, NothingUnasked
<1> QED BY <1>1, Beliefs, PTL

\* With COMMITs that do not fail, the transaction that _transaction stands for is
\* there, as long as the connection is up (BelievedTransaction).
THEOREM BelievesRightly ==
    ASSUME "unnoticed" \notin Events, "commitFails" \notin Events
    PROVE  Spec => []BelievedTransaction
<1>1. Belief => BelievedTransaction
  BY DEF Belief, Believes, BelievedTransaction
<1> QED BY <1>1, Beliefs, PTL

=============================================================================
