--------------------------- MODULE WebSocketClient ---------------------------
(***************************************************************************)
(* The remote providers: client/src/websocket.ts, with what                *)
(* client-node/src/index.ts and client-whatwg/src/index.ts add to it.      *)
(* Queries travel over the WebSocket of an acquired connection, where      *)
(* answers come back by id and in any order, or one by one over HTTP.      *)
(*                                                                         *)
(* A socket that opens is wrapped into a connection by microtasks, before  *)
(* any other event: Opened is one action.  The id of a request is the      *)
(* query itself (both providers draw random UUIDs).                        *)
(*                                                                         *)
(* A process loads one of the providers, as both register the protocols    *)
(* http and https.  That of client-node uses the WebSockets of undici,     *)
(* which are those of the WHATWG API, and the requests of node:http; that  *)
(* of client-whatwg uses fetch(), and WebSockets of any implementation.    *)
(***************************************************************************)
CONSTANTS Conn,     \* connections, each with its WebSocket
          Query,    \* the queries users ask, each once
          Whatwg,   \* client-whatwg: sockets of that API, others are of "ws"
          Events    \* what the environment may do

ASSUME ConnAssumption == Whatwg \subseteq Conn /\ {"http", "nowhere"} \cap Conn = {}

VARIABLES platform,     \* the provider that is loaded, "node" or "whatwg"
          process,      \* "running" or "ended"
          socket,       \* readyState, "token" while the token is computed
          connections,  \* WebSocketProvider._connections
          error,        \* the connections whose _error is set
          requests,     \* WebSocketConnectionImpl._requests, by connection
          wire,         \* requests on their way to the server
          answers,      \* responses on their way back
          via,          \* the connection a query was asked on, or "http"
          outcome,      \* the promise of a query
          result        \* what the server did with a query

vars == <<platform, process, socket, connections, error, requests, wire, answers,
          via, outcome, result>>

Status == {"ok", "failed", "odd"}   \* 200, 400 and anything else
May(event) == event \in Events
Live(c) == socket[c] \in {"open", "closing"}
Standard(c) == platform = "node" \/ c \in Whatwg

-----------------------------------------------------------------------------
Init ==
    /\ platform \in {"node", "whatwg"}
    /\ process = "running"
    /\ socket = [c \in Conn |-> "none"]
    /\ connections = {}
    /\ error = {}
    /\ requests = [c \in Conn |-> {}]
    /\ wire = [c \in Conn |-> {}]
    /\ answers = [c \in Conn |-> {}]
    /\ via = [q \in Query |-> "nowhere"]
    /\ outcome = [q \in Query |-> "idle"]
    /\ result = [q \in Query |-> "none"]

\* A promise settles once: what comes later is ignored.
Settle(Q, how) ==
    outcome' = [q \in Query |->
        IF q \in Q /\ outcome[q] = "pending" THEN how ELSE outcome[q]]

\* All that happens after the process has ended is of no concern.
Running == process = "running" /\ UNCHANGED <<platform, process>>

\* WebSocketConnectionImpl.close() on each of C; nothing if already closing.
Closing(C) == [c \in Conn |->
    IF c \in C /\ socket[c] = "open" THEN "closing" ELSE socket[c]]

Unused == UNCHANGED <<connections, error, requests, wire, answers, via,
                      outcome, result>>

-----------------------------------------------------------------------------
(* The provider: acquire(), release(), destroy().                          *)

\* acquire() awaits _getWebSocket(), which awaits its token.
Acquire(c) ==
    /\ Running
    /\ socket[c] = "none"
    /\ socket' = [socket EXCEPT ![c] = "token"]
    /\ Unused

\* The token is there: the socket is created and _connectWebSocket() listens.
CreateSocket(c) ==
    /\ Running
    /\ socket[c] = "token"
    /\ socket' = [socket EXCEPT ![c] = "connecting"]
    /\ Unused

\* "error" or "close" before "open": acquire() rejects, nothing is registered.
OpenFails(c) ==
    /\ Running
    /\ May("openFails")
    /\ socket[c] = "connecting"
    /\ socket' = [socket EXCEPT ![c] = "closed"]
    /\ Unused

\* "open": the connection attaches its listeners, acquire() registers it.
MutantUnregistered(c) ==
    /\ Running
    /\ socket[c] = "connecting"
    /\ socket' = [socket EXCEPT ![c] = "open"]
    /\ Unused
Opened(c) ==
    /\ Running
    /\ socket[c] = "connecting"
    /\ socket' = [socket EXCEPT ![c] = "open"]
    /\ connections' = connections \cup {c}
    /\ UNCHANGED <<error, requests, wire, answers, via, outcome, result>>

Release(c) ==
    /\ Running
    /\ c \in connections
    /\ connections' = connections \ {c}
    /\ socket' = Closing({c})
    /\ UNCHANGED <<error, requests, wire, answers, via, outcome, result>>

Destroy ==
    /\ Running
    /\ May("destroy")
    /\ connections # {}
    /\ connections' = {}
    /\ socket' = Closing(connections)
    /\ UNCHANGED <<error, requests, wire, answers, via, outcome, result>>

-----------------------------------------------------------------------------
(* The connection: query() and the listeners of its socket.                *)

\* query(): refused once _error is set; else registered, then sent.  A socket
\* that is closing drops what it is given; if send() throws the caller is told
\* and the request stays registered.
Ask(c, q) ==
    /\ Running
    /\ Live(c) \/ c \in error
    /\ outcome[q] = "idle"
    /\ via' = [via EXCEPT ![q] = c]
    /\ \/ /\ c \in error
          /\ outcome' = [outcome EXCEPT ![q] = "rejected"]
          /\ UNCHANGED <<requests, wire>>
       \/ /\ c \notin error
          /\ requests' = [requests EXCEPT ![c] = @ \cup {q}]
          /\ \/ /\ outcome' = [outcome EXCEPT ![q] = "pending"]
                /\ wire' = [wire EXCEPT ![c] =
                              IF socket[c] = "open" THEN @ \cup {q} ELSE @]
             \/ /\ May("sendThrows")
                /\ outcome' = [outcome EXCEPT ![q] = "rejected"]
                /\ UNCHANGED wire
    /\ UNCHANGED <<socket, connections, error, answers, result>>

\* The "message" listener.  An answer it cannot place closes the socket with
\* code 1003, which the WHATWG API refuses: nothing happens then.
MutantFirstRequest(c, a) ==
    /\ a.status \in {"ok", "failed"}
    /\ requests[c] # {}
    /\ LET q == CHOOSE q \in requests[c] : TRUE
       IN  /\ requests' = [requests EXCEPT ![c] = @ \ {q}]
           /\ Settle({q}, IF a.status = "ok" THEN "resolved" ELSE "rejected")
    /\ UNCHANGED socket
Placed(c, a) ==
    /\ a.id \in requests[c]
    /\ a.status \in {"ok", "failed"}
    /\ requests' = [requests EXCEPT ![c] = @ \ {a.id}]
    /\ Settle({a.id}, IF a.status = "ok" THEN "resolved" ELSE "rejected")
    /\ UNCHANGED socket

Misplaced(c, a) ==
    /\ a.id \notin requests[c] \/ a.status = "odd"
    /\ socket' = IF Standard(c) THEN socket ELSE Closing({c})
    /\ UNCHANGED <<requests, outcome>>

Message(c) ==
    \E a \in answers[c] :
        /\ Running
        /\ socket[c] = "open" \/ (socket[c] = "closing" /\ ~Standard(c))
        /\ answers' = [answers EXCEPT ![c] = @ \ {a}]
        /\ Placed(c, a) \/ Misplaced(c, a)
        /\ UNCHANGED <<connections, error, wire, via, result>>

\* The "error" listener: reject everything, then close.
ErrorEvent(c) ==
    /\ Running
    /\ May("error")
    /\ Live(c) /\ c \notin error
    /\ error' = error \cup {c}
    /\ requests' = [requests EXCEPT ![c] = {}]
    /\ Settle(requests[c], "rejected")
    /\ socket' = Closing({c})
    /\ UNCHANGED <<connections, wire, answers, via, result>>

\* The "close" listener, after our close() or the server's; what was on the
\* wire is lost.
MutantForgetPending(c) ==
    /\ Running
    /\ socket[c] = "closing" \/ (socket[c] = "open" /\ May("drop"))
    /\ socket' = [socket EXCEPT ![c] = "closed"]
    /\ error' = error \cup {c}
    /\ wire' = [wire EXCEPT ![c] = {}]
    /\ answers' = [answers EXCEPT ![c] = {}]
    /\ requests' = [requests EXCEPT ![c] = {}]
    /\ UNCHANGED <<connections, via, outcome, result>>
CloseEvent(c) ==
    /\ Running
    /\ socket[c] = "closing" \/ (socket[c] = "open" /\ May("drop"))
    /\ socket' = [socket EXCEPT ![c] = "closed"]
    /\ error' = error \cup {c}
    /\ requests' = [requests EXCEPT ![c] = {}]
    /\ Settle(requests[c], "rejected")
    /\ wire' = [wire EXCEPT ![c] = {}]
    /\ answers' = [answers EXCEPT ![c] = {}]
    /\ UNCHANGED <<connections, via, result>>

-----------------------------------------------------------------------------
(* Queries over HTTP, and the server.                                      *)

Post(q) ==
    /\ Running
    /\ outcome[q] = "idle"
    /\ via' = [via EXCEPT ![q] = "http"]
    /\ outcome' = [outcome EXCEPT ![q] = "pending"]
    /\ UNCHANGED <<socket, connections, error, requests, wire, answers, result>>

\* Only a response of the query's own id and with status 200 resolves it.  When
\* the exchange breaks, fetch() rejects, and so does a response that has begun.
PostAnswered(q) ==
    /\ Running
    /\ via[q] = "http" /\ outcome[q] = "pending"
    /\ \/ /\ result[q] \in Status
          /\ Settle({q}, IF result[q] = "ok" THEN "resolved" ELSE "rejected")
       \/ /\ May("drop") /\ (platform = "whatwg" \/ result[q] \in Status)
          /\ Settle({q}, "rejected")
    /\ UNCHANGED <<socket, connections, error, requests, wire, answers, via,
                   result>>

\* Before a response it is the request of node:http that emits "error" (refused,
\* reset), to which nobody listens: an uncaught exception, which ends the process.
\* The promise of the query never settles, nor does any other one.
PostBreaks(q) ==
    /\ May("drop") /\ platform = "node" /\ process = "running"
    /\ via[q] = "http" /\ outcome[q] = "pending"
    /\ process' = "ended"
    /\ UNCHANGED <<platform, socket, connections, error, requests, wire, answers,
                   via, outcome, result>>

\* A query is "stuck" when the pool of the server evicts its connection under it:
\* neither this query nor those queued behind it are ever answered.
Served(q, s) ==
    /\ s \in {"odd", "stuck"} => May(s)
    /\ result' = [result EXCEPT ![q] = s]

ServePost(q) ==
    /\ Running
    /\ via[q] = "http" /\ result[q] = "none"
    /\ \E s \in Status \cup {"stuck"} : Served(q, s)
    /\ UNCHANGED <<socket, connections, error, requests, wire, answers, via,
                   outcome>>

\* Requests are answered in any order: those refused overtake those queued.
Serve(c) ==
    \E q \in wire[c], s \in Status \cup {"stuck"} :
        /\ Running
        /\ Live(c)
        /\ wire' = [wire EXCEPT ![c] = @ \ {q}]
        /\ Served(q, s)
        /\ answers' = [answers EXCEPT ![c] =
                          IF s = "stuck" THEN @ ELSE @ \cup {[id |-> q, status |-> s]}]
        /\ UNCHANGED <<socket, connections, error, requests, via, outcome>>

Next ==
    \/ \E c \in Conn : \/ Acquire(c) \/ CreateSocket(c) \/ OpenFails(c)
                       \/ Opened(c) \/ Release(c) \/ Message(c) \/ Serve(c)
                       \/ ErrorEvent(c) \/ CloseEvent(c)
                       \/ \E q \in Query : Ask(c, q)
    \/ \E q \in Query : Post(q) \/ PostAnswered(q) \/ PostBreaks(q) \/ ServePost(q)
    \/ Destroy

Spec == Init /\ [][Next]_vars

\* The server deals with what it receives (MessagesAnswered of Server), messages
\* are delivered and a socket that is closing ends up closed (both implementations
\* time it out).
FairSpec ==
    /\ Spec
    /\ \A c \in Conn : /\ WF_vars(Serve(c))
                       /\ WF_vars(Message(c))
                       /\ WF_vars(socket[c] = "closing" /\ CloseEvent(c))
    /\ \A q \in Query : /\ WF_vars(ServePost(q))
                        /\ WF_vars(PostAnswered(q))

-----------------------------------------------------------------------------
(* Properties.                                                             *)

\* An open socket is known to its provider: release() or destroy() will close
\* it, even when it opened while destroy() was running.
Registered == \A c \in Conn : socket[c] = "open" => c \in connections

\* The types of the variables; a connection keeps requests only as long as its
\* socket has not closed, and only those asked on it, and every open socket is
\* registered.  Only node:http ends the process.
TypeOK ==
    /\ platform \in {"node", "whatwg"}
    /\ process \in {"running", "ended"}
    /\ process = "ended" => platform = "node"
    /\ Registered
    /\ socket \in [Conn -> {"none", "token", "connecting", "open", "closing",
                            "closed"}]
    /\ connections \subseteq Conn /\ error \subseteq Conn
    /\ requests \in [Conn -> SUBSET Query] /\ wire \in [Conn -> SUBSET Query]
    /\ answers \in [Conn -> SUBSET [id : Query, status : Status]]
    /\ \A c \in Conn : \A q \in requests[c] :
        via[q] = c /\ Live(c) /\ c \notin error
    /\ via \in [Query -> Conn \cup {"http", "nowhere"}]
    /\ outcome \in [Query -> {"idle", "pending", "resolved", "rejected"}]
    /\ result \in [Query -> Status \cup {"none", "stuck"}]

\* A query resolves only with the success of that very query, and is told that
\* it failed only when it did, when its connection broke or could not send it (it
\* then stays among the requests), or when its HTTP exchange broke and somebody
\* listens to that: the correlation by id of the "message" listener, however
\* answers overtake each other or follow an error that cleared the map.
Correlated ==
    \A q \in Query :
        /\ outcome[q] = "resolved" => result[q] = "ok"
        /\ outcome[q] = "rejected" =>
              \/ result[q] = "failed"
              \/ /\ via[q] = "http"
                 /\ \/ result[q] = "odd"
                    \/ May("drop") /\ (platform = "whatwg" \/ result[q] \in Status)
              \/ via[q] \in Conn /\ (via[q] \in error \/ q \in requests[via[q]])

\* A query is settled whatever happens to its socket: answered, or rejected by
\* the "close" or "error" listener.  Three exceptions: node:http had an exchange
\* break before the response and the process has ended; the server has evicted
\* the connection under the query; or the answer is of neither status 200 nor 400,
\* on a socket of the WHATWG API, which cannot be closed with code 1003.
QueriesSettle ==
    \A q \in Query :
        outcome[q] = "pending" ~>
            \/ outcome[q] # "pending"
            \/ process = "ended"
            \/ result[q] = "stuck"
            \/ result[q] = "odd" /\ via[q] \in Conn /\ Standard(via[q])
=============================================================================
