---------------------------- MODULE SerialQueries ----------------------------
(***************************************************************************)
(* What a connection promises to those who query it: queries are settled   *)
(* in the order they were made, each once, with an answer only while the   *)
(* connection is open; a connection that has closed never opens again.     *)
(***************************************************************************)
EXTENDS Sequences

CONSTANT Query

VARIABLES
    life,          \* "new", "open" or "closed"
    outstanding,   \* the queries not settled yet, in the order they were made
    outcome        \* "none", "waiting", "resolved" or "rejected"

vars == <<life, outstanding, outcome>>

Init ==
    /\ life = "new" /\ outstanding = <<>>
    /\ outcome = [q \in Query |-> "none"]

Ask(q) ==
    /\ outcome[q] # "waiting"
    /\ outstanding' = Append(outstanding, q)
    /\ outcome' = [outcome EXCEPT ![q] = "waiting"]
    /\ UNCHANGED life

Answer ==
    /\ life = "open" /\ outstanding # <<>>
    /\ outcome' = [outcome EXCEPT ![Head(outstanding)] = "resolved"]
    /\ outstanding' = Tail(outstanding)
    /\ UNCHANGED life

\* A query may fail alone, or close the connection
Refuse ==
    /\ outstanding # <<>>
    /\ outcome' = [outcome EXCEPT ![Head(outstanding)] = "rejected"]
    /\ outstanding' = Tail(outstanding)
    /\ life' \in {life, "closed"}

Open == life = "new" /\ life' = "open" /\ UNCHANGED <<outstanding, outcome>>

Close == life' = "closed" /\ UNCHANGED <<outstanding, outcome>>

Next == (\E q \in Query : Ask(q)) \/ Answer \/ Refuse \/ Open \/ Close

Spec == Init /\ [][Next]_vars

=============================================================================
