-------------------------- MODULE ConnectionLending --------------------------
(***************************************************************************)
(* What the pool promises to those who acquire connections, with nothing   *)
(* of how it finds one: a request is settled once, a connection is lent to *)
(* one request at a time, and at most Capacity of them are out.            *)
(***************************************************************************)
EXTENDS Naturals, FiniteSets

CONSTANTS Conn, Req, Capacity

VARIABLES
    request,   \* "none", "pending", "resolved" or "rejected"
    out        \* the loans in force: pairs of a request and its connection

vars == <<request, out>>

Init == request = [r \in Req |-> "none"] /\ out = {}

\* A request is made, once the loan of an earlier one of that name has ended
Ask(r) ==
    /\ request[r] # "pending"
    /\ \A c \in Conn : <<r, c>> \notin out
    /\ request' = [request EXCEPT ![r] = "pending"]
    /\ UNCHANGED out

Grant(r, c) ==
    /\ request[r] = "pending"
    /\ \A q \in Req : <<q, c>> \notin out
    /\ Cardinality(out) < Capacity
    /\ request' = [request EXCEPT ![r] = "resolved"]
    /\ out' = out \cup {<<r, c>>}

\* The pool gives up on some pending requests and takes back some connections:
\* their holders have returned them, have kept them too long, or are cut off
RefuseAndEnd(refused, ended) ==
    /\ \A r \in refused : request[r] = "pending"
    /\ request' = [r \in Req |-> IF r \in refused THEN "rejected" ELSE request[r]]
    /\ out' = out \ ended

Next ==
    \/ \E r \in Req : Ask(r)
    \/ \E r \in Req, c \in Conn : Grant(r, c)
    \/ \E refused \in SUBSET Req, ended \in SUBSET out : RefuseAndEnd(refused, ended)

Spec == Init /\ [][Next]_vars

=============================================================================
