-------------------------- MODULE WebSocketClientProofs ------------------------
(***************************************************************************)
(* Theorems about WebSocketClient, for any connections of both kinds, any  *)
(* queries and any events.                                                 *)
(***************************************************************************)
EXTENDS WebSocketClient, TLAPS

\* What travels belongs to the connection it travels on, and an answer says what
\* the server did.
Travels ==
    \A c \in Conn :
        /\ \A q \in wire[c] : via[q] = c /\ result[q] = "none"
        /\ \A a \in answers[c] : via[a.id] = c /\ result[a.id] = a.status

\* A registered request waits, or was never sent.
Waits ==
    \A c \in Conn : \A q \in requests[c] :
        \/ outcome[q] = "pending"
        \/ outcome[q] = "rejected" /\ result[q] = "none" /\ q \notin wire[c]

\* A query nobody has asked is nowhere.
Fresh == \A q \in Query :
    outcome[q] = "idle" => via[q] = "nowhere" /\ result[q] = "none"

Inv == TypeOK /\ Travels /\ Waits /\ Fresh /\ Correlated

-----------------------------------------------------------------------------
LEMMA InitInv == Init => Inv
BY ConnAssumption DEF Init, Inv, TypeOK, Registered, Travels, Waits, Fresh, Correlated, Live, Status

\* A socket begins to close, and nothing else changes.
LEMMA ClosingTypes ==
    ASSUME TypeOK, NEW C \in SUBSET Conn, socket' = Closing(C)
    PROVE  /\ socket' \in [Conn -> {"none", "token", "connecting", "open", "closing", "closed"}]
           /\ \A c \in Conn : Live(c)' = Live(c)
           /\ \A c \in Conn : socket'[c] = "open" => socket[c] = "open" /\ c \notin C
BY DEF TypeOK, Closing, Live

\* The steps of a socket that touch no query.
LEMMA SocketInv ==
    ASSUME Inv, NEW c \in Conn,
           Acquire(c) \/ CreateSocket(c) \/ OpenFails(c) \/ Opened(c)
    PROVE  Inv'
<1>1. UNCHANGED <<platform, process, error, requests, wire, answers, via, outcome, result>>
  BY DEF Acquire, CreateSocket, OpenFails, Opened, Unused, Running
<1>2. TypeOK'
  BY <1>1 DEF Inv, TypeOK, Registered, Acquire, CreateSocket, OpenFails, Opened, Unused, Live
<1>3. Travels' /\ Waits' /\ Fresh' /\ Correlated'
  BY <1>1 DEF Inv, Travels, Waits, Fresh, Correlated
<1> QED BY <1>2, <1>3 DEF Inv

LEMMA ProviderInv ==
    ASSUME Inv, Destroy \/ \E c \in Conn : Release(c)
    PROVE  Inv'
<1>1. PICK C \in SUBSET Conn : /\ C \subseteq connections
                               /\ socket' = Closing(C) /\ connections' = connections \ C
  <2>1. CASE Destroy
    BY <2>1 DEF Destroy, Inv, TypeOK
  <2>2. CASE \E c \in Conn : Release(c)
    BY <2>2 DEF Release, Inv, TypeOK
  <2> QED BY <2>1, <2>2
<1>2. UNCHANGED <<platform, process, error, requests, wire, answers, via, outcome, result>>
  BY DEF Destroy, Release, Running
<1>3. TypeOK'
  BY <1>1, <1>2, ClosingTypes DEF Inv, TypeOK, Registered
<1>4. Travels' /\ Waits' /\ Fresh' /\ Correlated'
  BY <1>2 DEF Inv, Travels, Waits, Fresh, Correlated
<1> QED BY <1>3, <1>4 DEF Inv

-----------------------------------------------------------------------------
LEMMA AskInv ==
    ASSUME Inv, NEW c \in Conn, NEW q \in Query, Ask(c, q)
    PROVE  Inv'
<1>1. /\ outcome[q] = "idle" /\ via[q] = "nowhere" /\ result[q] = "none"
      /\ via' = [via EXCEPT ![q] = c]
      /\ \A d \in Conn : via[q] # d
      /\ UNCHANGED <<platform, process, socket, connections, error, answers, result>>
  BY ConnAssumption DEF Ask, Running, Inv, Fresh
<1>2. /\ via' \in [Query -> Conn \cup {"http", "nowhere"}]
      /\ \A d \in Conn : q \notin requests[d] /\ q \notin wire[d] /\ \A a \in answers[d] : a.id # q
  BY <1>1 DEF Inv, TypeOK, Travels
<1>3. CASE c \in error
  <2>1. outcome' = [outcome EXCEPT ![q] = "rejected"] /\ UNCHANGED <<requests, wire>>
    BY <1>3 DEF Ask
  <2>2. TypeOK'
    BY <1>1, <1>2, <2>1 DEF Inv, TypeOK, Registered, Live
  <2>3. Travels' /\ Waits' /\ Fresh'
    BY <1>1, <1>2, <2>1 DEF Inv, TypeOK, Travels, Waits, Fresh
  <2>4. Correlated'
    BY <1>1, <1>2, <1>3, <2>1 DEF Inv, TypeOK, Correlated
  <2> QED BY <2>2, <2>3, <2>4 DEF Inv
<1>4. CASE c \notin error
  <2>1. /\ requests' = [requests EXCEPT ![c] = @ \cup {q}]
        /\ wire' \in {wire, [wire EXCEPT ![c] = @ \cup {q}]}
        /\ \/ outcome' = [outcome EXCEPT ![q] = "pending"]
           \/ outcome' = [outcome EXCEPT ![q] = "rejected"] /\ wire' = wire
        /\ Live(c)
    BY <1>4 DEF Ask, Inv, TypeOK
  <2>2. TypeOK'
    BY <1>1, <1>2, <1>4, <2>1 DEF Inv, TypeOK, Registered, Live
  <2>3. Travels'
    BY <1>1, <1>2, <2>1 DEF Inv, TypeOK, Travels
  <2>4. Waits' /\ Fresh'
    BY <1>1, <1>2, <2>1 DEF Inv, TypeOK, Waits, Fresh
  <2>5. Correlated'
    BY <1>1, <1>2, <2>1 DEF Inv, TypeOK, Correlated
  <2> QED BY <2>2, <2>3, <2>4, <2>5 DEF Inv
<1> QED BY <1>3, <1>4

\* An answer settles the query it belongs to, or closes the socket.
LEMMA MessageInv ==
    ASSUME Inv, NEW c \in Conn, Message(c)
    PROVE  Inv'
<1>1. PICK a \in answers[c] :
        /\ answers' = [answers EXCEPT ![c] = @ \ {a}]
        /\ Placed(c, a) \/ Misplaced(c, a)
        /\ UNCHANGED <<platform, process, connections, error, wire, via, result>>
  BY DEF Message, Running
<1>2. /\ a.id \in Query /\ a.status \in Status /\ via[a.id] = c /\ result[a.id] = a.status
      /\ answers' \in [Conn -> SUBSET [id : Query, status : Status]]
      /\ \A d \in Conn : answers'[d] \subseteq answers[d]
  BY <1>1 DEF Inv, TypeOK, Travels
<1>3. CASE Placed(c, a)
  <2>1. /\ a.id \in requests[c] /\ socket' = socket /\ a.status # "none"
        /\ requests' = [requests EXCEPT ![c] = @ \ {a.id}]
    BY <1>2, <1>3 DEF Placed, Status
  <2>2. outcome[a.id] = "pending"
    BY <1>2, <2>1 DEF Inv, Waits
  <2>3. outcome' = [outcome EXCEPT ![a.id] = IF a.status = "ok" THEN "resolved" ELSE "rejected"]
    <3> DEFINE how == IF a.status = "ok" THEN "resolved" ELSE "rejected"
    <3>1. outcome \in [Query -> {"idle", "pending", "resolved", "rejected"}]
      BY DEF Inv, TypeOK
    <3> HIDE DEF how
    <3>2. outcome' = [q \in Query |->
                        IF q \in {a.id} /\ outcome[q] = "pending" THEN how ELSE outcome[q]]
      BY <1>3 DEF Placed, Settle, how
    <3>3. outcome' = [outcome EXCEPT ![a.id] = how]
      BY <1>2, <2>2, <3>1, <3>2
    <3> QED BY <3>3 DEF how
  <2>4. a.status \in {"ok", "failed"}
    BY <1>3 DEF Placed
  <2>5. TypeOK'
    BY <1>1, <1>2, <2>1, <2>3 DEF Inv, TypeOK, Registered, Live
  <2>6. Travels' /\ Fresh'
    BY <1>1, <1>2, <2>2, <2>3 DEF Inv, TypeOK, Travels, Fresh
  <2>7. Waits'
    BY <1>1, <1>2, <2>1, <2>3 DEF Inv, TypeOK, Waits
  <2>8. Correlated'
    BY <1>1, <1>2, <2>1, <2>2, <2>3, <2>4 DEF Inv, TypeOK, Correlated
  <2> QED BY <2>5, <2>6, <2>7, <2>8 DEF Inv
<1>4. CASE Misplaced(c, a)
  <2>1. UNCHANGED <<requests, outcome>> /\ (socket' = socket \/ socket' = Closing({c}))
    BY <1>4 DEF Misplaced
  <2>2. TypeOK'
    <3>1. CASE socket' = socket
      BY <1>1, <1>2, <2>1, <3>1 DEF Inv, TypeOK, Registered, Live
    <3>2. CASE socket' = Closing({c})
      <4>1. /\ socket' \in [Conn -> {"none", "token", "connecting", "open", "closing", "closed"}]
            /\ \A d \in Conn : Live(d)' = Live(d)
            /\ \A d \in Conn : socket'[d] = "open" => socket[d] = "open"
        BY <3>2, ClosingTypes, {c} \in SUBSET Conn DEF Inv
      <4>2. Registered'
        BY <1>1, <4>1 DEF Inv, TypeOK, Registered
      <4>3. \A d \in Conn : \A q \in requests'[d] : via'[q] = d /\ Live(d)' /\ d \notin error'
        BY <1>1, <2>1, <4>1 DEF Inv, TypeOK
      <4> QED BY <1>1, <1>2, <2>1, <4>1, <4>2, <4>3 DEF Inv, TypeOK
    <3> QED BY <2>1, <3>1, <3>2
  <2>3. Travels' /\ Waits' /\ Fresh' /\ Correlated'
    BY <1>1, <1>2, <2>1 DEF Inv, Travels, Waits, Fresh, Correlated
  <2> QED BY <2>2, <2>3 DEF Inv
<1> QED BY <1>1, <1>3, <1>4

\* An error, or the end of a socket, settles every request of its connection.
LEMMA BrokenInv ==
    ASSUME Inv, NEW c \in Conn, ErrorEvent(c) \/ CloseEvent(c)
    PROVE  Inv'
<1>1. /\ error' = error \cup {c}
      /\ requests' = [requests EXCEPT ![c] = {}]
      /\ outcome' = [q \in Query |->
            IF q \in requests[c] /\ outcome[q] = "pending" THEN "rejected" ELSE outcome[q]]
      /\ wire' \in [Conn -> SUBSET Query]
      /\ answers' \in [Conn -> SUBSET [id : Query, status : Status]]
      /\ \A d \in Conn : wire'[d] \subseteq wire[d] /\ answers'[d] \subseteq answers[d]
      /\ UNCHANGED <<platform, process, connections, via, result>>
  BY DEF ErrorEvent, CloseEvent, Running, Settle, Inv, TypeOK
<1>2. /\ socket' \in [Conn -> {"none", "token", "connecting", "open", "closing", "closed"}]
      /\ \A d \in Conn \ {c} : Live(d)' = Live(d)
      /\ \A d \in Conn : socket'[d] = "open" => socket[d] = "open"
  <2>1. CASE ErrorEvent(c)
    BY <2>1, ClosingTypes DEF ErrorEvent, Inv
  <2>2. CASE CloseEvent(c)
    BY <2>2 DEF CloseEvent, Inv, TypeOK, Live
  <2> QED BY <2>1, <2>2
<1>3. TypeOK'
  <2>1. \A d \in Conn : requests'[d] = IF d = c THEN {} ELSE requests[d]
    BY <1>1 DEF Inv, TypeOK
  <2>2. outcome' \in [Query -> {"idle", "pending", "resolved", "rejected"}]
    BY <1>1 DEF Inv, TypeOK
  <2>3. \A d \in Conn : \A q \in requests'[d] : via'[q] = d /\ Live(d)' /\ d \notin error'
    BY <1>1, <1>2, <2>1 DEF Inv, TypeOK
  <2>4. Registered' /\ error' \subseteq Conn /\ requests' \in [Conn -> SUBSET Query]
    BY <1>1, <1>2 DEF Inv, TypeOK, Registered
  <2> QED BY <1>1, <1>2, <2>2, <2>3, <2>4 DEF Inv, TypeOK
<1>4. Travels' /\ Fresh'
  BY <1>1 DEF Inv, TypeOK, Travels, Fresh
<1>5. Waits'
  <2> SUFFICES ASSUME NEW d \in Conn, NEW q \in requests'[d]
               PROVE  \/ outcome'[q] = "pending"
                      \/ outcome'[q] = "rejected" /\ result'[q] = "none" /\ q \notin wire'[d]
    BY DEF Waits
  <2>1. d # c /\ q \in requests[d] /\ via[q] = d /\ q \in Query
    BY <1>1 DEF Inv, TypeOK
  <2>2. q \notin requests[c]
    BY <2>1 DEF Inv, TypeOK
  <2> QED BY <1>1, <2>1, <2>2 DEF Inv, Waits
<1>6. Correlated'
  <2> SUFFICES ASSUME NEW q \in Query PROVE
            /\ outcome'[q] = "resolved" => result'[q] = "ok"
            /\ outcome'[q] = "rejected" =>
                  \/ result'[q] = "failed"
                  \/ /\ via'[q] = "http"
                     /\ \/ result'[q] = "odd"
                        \/ May("drop") /\ (platform' = "whatwg" \/ result'[q] \in Status)
                  \/ via'[q] \in Conn /\ (via'[q] \in error' \/ q \in requests'[via'[q]])
    BY DEF Correlated
  <2>1. CASE via[q] = c
    BY <1>1, <2>1 DEF Inv, TypeOK, Correlated
  <2>2. CASE via[q] # c
    <3>1. q \notin requests[c] /\ outcome'[q] = outcome[q]
      BY <1>1, <2>2 DEF Inv, TypeOK
    <3> QED BY <1>1, <2>2, <3>1 DEF Inv, TypeOK, Correlated
  <2> QED BY <2>1, <2>2
<1> QED BY <1>3, <1>4, <1>5, <1>6 DEF Inv

-----------------------------------------------------------------------------
LEMMA ServeInv ==
    ASSUME Inv, NEW c \in Conn, Serve(c)
    PROVE  Inv'
<1>1. PICK q \in wire[c], s \in Status \cup {"stuck"} :
        /\ wire' = [wire EXCEPT ![c] = @ \ {q}]
        /\ result' = [result EXCEPT ![q] = s]
        /\ answers' = [answers EXCEPT ![c] =
                         IF s = "stuck" THEN @ ELSE @ \cup {[id |-> q, status |-> s]}]
        /\ UNCHANGED <<platform, process, socket, connections, error, requests, via, outcome>>
  BY DEF Serve, Served, Running
<1>2. q \in Query /\ via[q] = c /\ result[q] = "none" /\ \A d \in Conn \ {c} : q \notin wire[d]
  BY <1>1 DEF Inv, TypeOK, Travels
<1>3. \A d \in Conn : \A a \in answers[d] : a.id \in Query /\ a.id # q
  BY <1>2 DEF Inv, TypeOK, Travels, Status
<1>4. /\ answers' \in [Conn -> SUBSET [id : Query, status : Status]]
      /\ \A d \in Conn : \A a \in answers'[d] :
            a \in answers[d] \/ (d = c /\ a.id = q /\ a.status = s)
  BY <1>1, <1>2 DEF Inv, TypeOK
<1>5. TypeOK'
  BY <1>1, <1>2, <1>4 DEF Inv, TypeOK, Registered, Live
<1>6. Travels'
  BY <1>1, <1>2, <1>3, <1>4 DEF Inv, TypeOK, Travels
<1>7. Waits' /\ Fresh'
  BY <1>1, <1>2, ConnAssumption DEF Inv, TypeOK, Waits, Fresh
<1>8. Correlated'
  BY <1>1, <1>2, ConnAssumption DEF Inv, TypeOK, Correlated
<1> QED BY <1>5, <1>6, <1>7, <1>8 DEF Inv

LEMMA HttpInv ==
    ASSUME Inv, NEW q \in Query, Post(q) \/ PostAnswered(q) \/ ServePost(q)
    PROVE  Inv'
<1>1. UNCHANGED <<platform, process, socket, connections, error, requests, wire, answers>>
  BY DEF Post, PostAnswered, ServePost, Running
<1>2. \A d \in Conn : /\ q \notin requests[d] /\ q \notin wire[d]
                      /\ \A a \in answers[d] : a.id # q
  BY ConnAssumption DEF Inv, TypeOK, Travels, Fresh, Post, PostAnswered, ServePost
<1>3. CASE Post(q)
  BY <1>1, <1>2, <1>3 DEF Post, Inv, TypeOK, Registered, Live, Travels, Waits, Fresh, Correlated
<1>4. CASE PostAnswered(q)
  <2>1. \E end \in {"resolved", "rejected"} :
            /\ outcome' = [outcome EXCEPT ![q] = end]
            /\ end = "resolved" => result[q] = "ok"
            /\ end = "rejected" =>
                  \/ result[q] \in {"failed", "odd"}
                  \/ May("drop") /\ (platform = "whatwg" \/ result[q] \in Status)
    BY <1>4 DEF PostAnswered, Settle, Status, Inv, TypeOK
  <2>2. via[q] = "http" /\ UNCHANGED <<via, result>>
    BY <1>4 DEF PostAnswered
  <2> QED BY <1>1, <1>2, <2>1, <2>2 DEF Inv, TypeOK, Registered, Live, Travels, Waits, Fresh, Correlated
<1>5. CASE ServePost(q)
  <2>1. PICK s \in Status \cup {"stuck"} : result' = [result EXCEPT ![q] = s]
    BY <1>5 DEF ServePost, Served
  <2>2. via[q] = "http" /\ result[q] = "none" /\ UNCHANGED <<via, outcome>>
    BY <1>5 DEF ServePost
  <2>3. outcome[q] = "rejected" => May("drop") /\ platform = "whatwg"
    BY <2>2, ConnAssumption DEF Inv, Correlated, Status
  <2> QED BY <1>1, <1>2, <2>1, <2>2, <2>3 DEF Inv, TypeOK, Registered, Live, Travels, Waits, Fresh, Correlated
<1> QED BY <1>3, <1>4, <1>5

\* The process ends, and nothing else changes.
LEMMA EndedInv ==
    ASSUME Inv, NEW q \in Query, PostBreaks(q)
    PROVE  Inv'
BY DEF PostBreaks, Inv, TypeOK, Registered, Live, Travels, Waits, Fresh, Correlated

LEMMA NextInv == Inv /\ [Next]_vars => Inv'
<1> SUFFICES ASSUME Inv, [Next]_vars PROVE Inv'
  OBVIOUS
<1>1. CASE UNCHANGED vars
  BY <1>1 DEF vars, Inv, TypeOK, Registered, Live, Travels, Waits, Fresh, Correlated
<1>2. ASSUME NEW c \in Conn,
             Acquire(c) \/ CreateSocket(c) \/ OpenFails(c) \/ Opened(c) PROVE Inv'
  BY <1>2, SocketInv
<1>3. ASSUME NEW c \in Conn, Release(c) PROVE Inv'
  BY <1>3, ProviderInv
<1>4. CASE Destroy
  BY <1>4, ProviderInv
<1>5. ASSUME NEW c \in Conn, Message(c) PROVE Inv'
  BY <1>5, MessageInv
<1>6. ASSUME NEW c \in Conn, Serve(c) PROVE Inv'
  BY <1>6, ServeInv
<1>7. ASSUME NEW c \in Conn, ErrorEvent(c) \/ CloseEvent(c) PROVE Inv'
  BY <1>7, BrokenInv
<1>8. ASSUME NEW c \in Conn, NEW q \in Query, Ask(c, q) PROVE Inv'
  BY <1>8, AskInv
<1>9. ASSUME NEW q \in Query, Post(q) \/ PostAnswered(q) \/ ServePost(q) PROVE Inv'
  BY <1>9, HttpInv
<1>10. ASSUME NEW q \in Query, PostBreaks(q) PROVE Inv'
  BY <1>10, EndedInv
<1> QED BY <1>10, <1>1, <1>2, <1>3, <1>4, <1>5, <1>6, <1>7, <1>8, <1>9 DEF Next

LEMMA Invariance == Spec => []Inv
BY InitInv, NextInv, PTL DEF Spec

\* Open sockets are known to their provider, and connections keep the requests
\* asked on them until they settle.
THEOREM SocketTypes == Spec => []TypeOK
<1>1. Inv => TypeOK
  BY DEF Inv
<1> QED BY <1>1, Invariance, PTL

\* A query is told its own answer, or that its connection broke.
THEOREM OwnAnswer == Spec => []Correlated
<1>1. Inv => Correlated
  BY DEF Inv
<1> QED BY <1>1, Invariance, PTL
=============================================================================
