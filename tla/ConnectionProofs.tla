-------------------------- MODULE ConnectionProofs --------------------------
(***************************************************************************)
(* Theorems about Connection, for any number of queries.                   *)
(***************************************************************************)
EXTENDS Connection, SequenceTheorems, TLAPS

\* What the handlers rely on: "destroyed" is emitted by the call that destroys,
\* a handle is connected by connect() only, queries are sent after that, and nothing
\* is on the wire but while a query is being sent or read.
Inv ==
    /\ TypeOK
    /\ announced = 1 => destroyed
    /\ connected \/ stage \in {"flushing", "reading"} => attempt = "over"
    /\ wire \subseteq {current}
    /\ stage \notin {"flushing", "reading"} => wire = {}
    /\ stage \in {"flushing", "reading"} /\ connected => wire = {current}
    /\ ClosedForGood
    /\ QueueAwake

-----------------------------------------------------------------------------
(* Sequences *)

LEMMA Pieces ==
    ASSUME NEW S, NEW s \in Seq(S)
    PROVE  /\ <<>> \o s = s
           /\ \A e \in S : Append(s, e) \in Seq(S) /\ Append(s, e) # <<>>
           /\ \A e \in S : /\ <<e>> \o s # <<>> /\ <<e>> \o s \in Seq(S)
                           /\ Head(<<e>> \o s) = e /\ Tail(<<e>> \o s) = s
           /\ \A d, e \in S : Append(<<d>> \o s, e) = <<d>> \o Append(s, e)
           /\ s # <<>> => /\ Head(s) \in S /\ Tail(s) \in Seq(S)
                          /\ <<Head(s)>> \o Tail(s) = s
<1>1. <<>> \o s = s
  OBVIOUS
<1>2. \A e \in S : Append(s, e) \in Seq(S) /\ Append(s, e) # <<>>
  BY AppendProperties
<1>3. ASSUME NEW e \in S
      PROVE  /\ <<e>> \o s # <<>> /\ <<e>> \o s \in Seq(S)
             /\ Head(<<e>> \o s) = e /\ Tail(<<e>> \o s) = s
  OBVIOUS
<1>4. ASSUME NEW d \in S, NEW e \in S
      PROVE  Append(<<d>> \o s, e) = <<d>> \o Append(s, e)
  OBVIOUS
<1>5. ASSUME s # <<>>
      PROVE  /\ Head(s) \in S /\ Tail(s) \in Seq(S)
             /\ <<Head(s)>> \o Tail(s) = s
  BY <1>5, HeadTailProperties
<1> QED BY <1>1, <1>2, <1>3, <1>4, <1>5

-----------------------------------------------------------------------------
(* The invariant *)

LEMMA InitInv == Init => Inv
<1> SUFFICES ASSUME Init PROVE Inv
  OBVIOUS
<1>1. queue \in Seq(Query) /\ outcome \in [Query -> Outcomes]
  BY DEF Init, Outcomes
<1>2. TypeOK
  BY <1>1 DEF Init, TypeOK, Stages
<1>3. ClosedForGood /\ QueueAwake
  BY DEF Init, ClosedForGood, QueueAwake
<1> QED BY <1>2, <1>3 DEF Init, Inv

\* The three ways a handler changes the handle or the queue
LEMMA FailEffect ==
    ASSUME Inv, Fail
    PROVE  ~connected' /\ destroyed' /\ wire' = {} /\ announced' = announced
BY DEF Fail

LEMMA CloseEffect ==
    ASSUME Inv, Close
    PROVE  /\ ~connected' /\ destroyed' /\ wire' \subseteq wire
           /\ connected => wire' = {}
           /\ announced' \in {0, 1}
           /\ connected' \in BOOLEAN /\ destroyed' \in BOOLEAN
<1>1. CASE destroyed
  BY <1>1 DEF Close, Inv, TypeOK, handleVars, ClosedForGood
<1>2. CASE ~destroyed
  <2>1. announced = 0
    BY <1>2 DEF Inv, TypeOK
  <2>2. announced' = announced + 1
    BY <1>2 DEF Close
  <2>3. ~connected' /\ destroyed' /\ wire' = {}
    BY <1>2 DEF Close
  <2>4. connected' \in BOOLEAN /\ destroyed' \in BOOLEAN
    BY <1>2 DEF Close
  <2> QED BY <2>1, <2>2, <2>3, <2>4
<1> QED BY <1>1, <1>2

LEMMA TakeEffect ==
    ASSUME queue \in Seq(Query), TakeNext
    PROVE  /\ queue' \in Seq(Query) /\ stage' \in {"idle", "scheduled"}
           /\ current' \in IF stage' = "idle" THEN {NoQuery} ELSE Query
           /\ stage' = "idle" => queue = <<>> /\ queue' = <<>>
           /\ stage' = "scheduled" => queue = <<current'>> \o queue'
<1>1. CASE queue = <<>>
  BY <1>1 DEF TakeNext
<1>2. CASE queue # <<>>
  <2>1. stage' = "scheduled" /\ current' = Head(queue) /\ queue' = Tail(queue)
    BY <1>2 DEF TakeNext
  <2>2. /\ Head(queue) \in Query /\ Tail(queue) \in Seq(Query)
        /\ <<Head(queue)>> \o Tail(queue) = queue
    BY <1>2, Pieces
  <2> QED BY <2>1, <2>2
<1> QED BY <1>1, <1>2

LEMMA NextInv == Inv /\ [Next]_vars => Inv'
<1> SUFFICES ASSUME Inv, [Next]_vars PROVE Inv'
  OBVIOUS
<1> USE DEF handleVars, queueVars, queryVars
<1>0. /\ TypeOK /\ queue \in Seq(Query)
      /\ stage # "idle" => current \in Query
  BY DEF Inv, TypeOK
<1>1. ASSUME Connect PROVE Inv'
  BY <1>1 DEF Connect, Inv, TypeOK, ClosedForGood, QueueAwake
<1>2. ASSUME NEW ok \in BOOLEAN, ConnectEnds(ok) PROVE Inv'
  <2>1. ~connected
    BY <1>2 DEF ConnectEnds, Inv
  <2>2. /\ connected' \in BOOLEAN /\ destroyed' \in BOOLEAN
        /\ destroyed => destroyed'
        /\ destroyed' => ~connected'
    BY <1>0, <1>2 DEF ConnectEnds, OpenOrFinish, TypeOK
  <2>3. stage \notin {"flushing", "reading"}
    BY <1>2 DEF ConnectEnds, Inv
  <2> QED BY <1>2, <2>1, <2>2, <2>3 DEF ConnectEnds, Inv, TypeOK, ClosedForGood, QueueAwake
<1>3. ASSUME Destroy PROVE Inv'
  BY <1>3, CloseEffect DEF Destroy, Inv, TypeOK, ClosedForGood, QueueAwake
<1>4. ASSUME NEW q \in Query, Ask(q) PROVE Inv'
  <2>1. queue' \in Seq(Query) /\ ticking' = TRUE
    BY <1>0, <1>4, Pieces DEF Ask, Enqueue
  <2>2. outcome' \in [Query -> Outcomes]
    BY <1>0, <1>4 DEF Ask, TypeOK, Outcomes
  <2> QED BY <1>4, <2>1, <2>2 DEF Ask, Inv, TypeOK, ClosedForGood, QueueAwake
<1>5. ASSUME Tick PROVE Inv'
  <2>1. CASE stage = "idle"
    BY <1>0, <1>5, <2>1, TakeEffect DEF Tick, TakeIfIdle, Inv, TypeOK, Stages, ClosedForGood, QueueAwake
  <2>2. CASE stage # "idle"
    BY <1>5, <2>2 DEF Tick, TakeIfIdle, Inv, TypeOK, ClosedForGood, QueueAwake
  <2> QED BY <2>1, <2>2
<1>6. ASSUME NotConnected PROVE Inv'
  <2>1. outcome' \in [Query -> Outcomes] /\ returning' \subseteq Query
    BY <1>0, <1>6 DEF NotConnected, Settle, TypeOK, Outcomes
  <2> QED BY <1>6, <2>1 DEF NotConnected, Settle, Inv, TypeOK, Stages, ClosedForGood, QueueAwake
<1>7. ASSUME SendFails \/ FlushFails \/ ReadFails PROVE Inv'
  <2>1. Settle("rejected") /\ Fail /\ stage # "idle"
    BY <1>7 DEF SendFails, FlushFails, ReadFails
  <2>2. outcome' \in [Query -> Outcomes] /\ returning' \subseteq Query
    BY <1>0, <2>1 DEF Settle, TypeOK, Outcomes
  <2>3. ~connected' /\ destroyed' /\ wire' = {} /\ announced' = announced
    BY <2>1, FailEffect
  <2>4. connected' \in BOOLEAN /\ destroyed' \in BOOLEAN
    BY <2>1 DEF Fail
  <2> QED BY <2>1, <2>2, <2>3, <2>4 DEF Settle, Inv, TypeOK, Stages, ClosedForGood, QueueAwake
<1>8. ASSUME Send PROVE Inv'
  BY <1>0, <1>8 DEF Send, Inv, TypeOK, Stages, ClosedForGood, QueueAwake
<1>9. ASSUME Flushed PROVE Inv'
  BY <1>9 DEF Flushed, Inv, TypeOK, Stages, ClosedForGood, QueueAwake
<1>10. ASSUME NEW o \in {"resolved", "rejected"}, Read(o) PROVE Inv'
  <2>1. outcome' \in [Query -> Outcomes] /\ returning' \subseteq Query
    BY <1>0, <1>10 DEF Read, Settle, TypeOK, Outcomes
  <2> QED BY <1>0, <1>10, <2>1 DEF Read, Settle, Inv, TypeOK, Stages, ClosedForGood, QueueAwake
<1>11. ASSUME NEW q \in Query, AfterQuery(q) PROVE Inv'
  <2>1. CASE connected
    BY <1>11, <2>1 DEF AfterQuery, Inv, TypeOK, ClosedForGood, QueueAwake
  <2>2. CASE ~connected
    BY <1>11, <2>2, CloseEffect DEF AfterQuery, Inv, TypeOK, ClosedForGood, QueueAwake
  <2> QED BY <2>1, <2>2
<1>12. ASSUME Done PROVE Inv'
  BY <1>0, <1>12, TakeEffect DEF Done, RunAgain, Inv, TypeOK, Stages, ClosedForGood, QueueAwake
<1>13. CASE UNCHANGED vars
  BY <1>13 DEF vars, Inv, TypeOK, ClosedForGood, QueueAwake
<1> QED
  BY <1>1, <1>2, <1>3, <1>4, <1>5, <1>6, <1>7, <1>8, <1>9, <1>10, <1>11, <1>12, <1>13
     DEF Next, Microtask, Answered

LEMMA Invariance == Spec => []Inv
<1>1. Inv /\ [Next]_vars => Inv'
  BY NextInv
<1> QED BY InitInv, <1>1, PTL DEF Spec

\* At most one query is on the wire, and it is the one whose caller is told what
\* is read: no answer ever goes to another query.
THEOREM AtMostOneInFlight == Spec => []OneInFlight
<1>1. Inv => OneInFlight
  BY DEF Inv, OneInFlight
<1> QED BY Invariance, <1>1, PTL

\* A destroyed connection is closed, and its connect() does not open it again.
THEOREM StaysClosed == Spec => []ClosedForGood
<1>1. Inv => ClosedForGood
  BY DEF Inv
<1> QED BY Invariance, <1>1, PTL

\* Queued queries always have a _run() to come, or one under way.
THEOREM QueueRuns == Spec => []QueueAwake
<1>1. Inv => QueueAwake
  BY DEF Inv
<1> QED BY Invariance, <1>1, PTL

\* The state of the connection is well formed, and "destroyed" is emitted at most once.
THEOREM ConnectionTypes == Spec => []TypeOK
<1>1. Inv => TypeOK
  BY DEF Inv
<1> QED BY Invariance, <1>1, PTL

-----------------------------------------------------------------------------
(* The promise of SerialQueries *)

LEMMA NextServes == Inv /\ [Next]_vars => [Serial!Next]_(Serial!vars)
<1> SUFFICES ASSUME Inv, [Next]_vars PROVE [Serial!Next]_(Serial!vars)
  OBVIOUS
<1> USE DEF handleVars, queueVars, queryVars
<1>0. /\ queue \in Seq(Query)
      /\ stage # "idle" => current \in Query
      /\ connected \in BOOLEAN /\ destroyed \in BOOLEAN
      /\ ClosedForGood /\ outcome \in [Query -> Outcomes]
  BY DEF Inv, TypeOK
\* What is settled is the oldest query outstanding
<1>a. ASSUME NEW o, Settle(o), stage \in {"scheduled", "flushing", "reading"}
      PROVE  /\ Outstanding # <<>> /\ Outstanding' = Tail(Outstanding)
             /\ outcome' = [outcome EXCEPT ![Head(Outstanding)] = o]
  <2>1. Outstanding = <<current>> \o queue /\ current \in Query
    BY <1>0, <1>a DEF Outstanding
  <2>2. Outstanding' = <<>> \o queue
    BY <1>a DEF Outstanding, Settle
  <2> QED BY <1>0, <1>a, <2>1, <2>2, Pieces DEF Settle
\* Taking the next query does not change what is outstanding
<1>b. ASSUME TakeNext, stage \in {"idle", "settled"} PROVE Outstanding' = Outstanding
  <2>1. Outstanding = queue
    BY <1>0, <1>b, Pieces DEF Outstanding
  <2>2. Outstanding' = queue
    BY <1>0, <1>b, TakeEffect, Pieces DEF Outstanding
  <2> QED BY <2>1, <2>2
<1>c. ASSUME Close, UNCHANGED <<queue, stage, current, outcome>> PROVE Serial!Close
  BY <1>c, CloseEffect DEF Serial!Close, Life, Outstanding
<1>1. ASSUME Connect PROVE UNCHANGED Serial!vars
  BY <1>1 DEF Connect, Serial!vars, Life, Outstanding
<1>2. ASSUME NEW ok \in BOOLEAN, ConnectEnds(ok) PROVE Serial!Open \/ Serial!Close
  <2>1. ~connected
    BY <1>2 DEF ConnectEnds, Inv
  <2>2. UNCHANGED <<Outstanding, outcome>>
    BY <1>2 DEF ConnectEnds, Outstanding
  <2>3. (Life = "new" /\ Life' = "open") \/ Life' = "closed"
    BY <1>0, <1>2, <2>1 DEF ConnectEnds, OpenOrFinish, Life
  <2> QED BY <2>2, <2>3 DEF Serial!Open, Serial!Close
<1>3. ASSUME Destroy PROVE Serial!Close
  BY <1>3, <1>c DEF Destroy
<1>4. ASSUME NEW q \in Query, Ask(q) PROVE Serial!Ask(q)
  <2>1. Outstanding' = Append(Outstanding, q)
    BY <1>0, <1>4, Pieces DEF Ask, Enqueue, Outstanding
  <2> QED BY <1>4, <2>1 DEF Ask, Serial!Ask, Life
<1>5. ASSUME Tick PROVE UNCHANGED Serial!vars
  <2>1. Outstanding' = Outstanding
    <3>1. CASE stage = "idle"
      BY <1>5, <3>1, <1>b DEF Tick, TakeIfIdle
    <3>2. CASE stage # "idle"
      BY <1>5, <3>2 DEF Tick, TakeIfIdle, Outstanding
    <3> QED BY <3>1, <3>2
  <2> QED BY <1>5, <2>1 DEF Tick, Serial!vars, Life
<1>6. ASSUME NotConnected PROVE Serial!Refuse
  <2>1. Settle("rejected") /\ stage = "scheduled" /\ Life' = Life
    BY <1>6 DEF NotConnected, Life
  <2> QED BY <2>1, <1>a DEF Serial!Refuse
<1>7. ASSUME SendFails \/ FlushFails \/ ReadFails PROVE Serial!Refuse
  <2>1. Settle("rejected") /\ Fail /\ stage \in {"scheduled", "flushing", "reading"}
    BY <1>7 DEF SendFails, FlushFails, ReadFails
  <2>2. Life' = "closed"
    BY <2>1 DEF Fail, Life
  <2> QED BY <2>1, <2>2, <1>a DEF Serial!Refuse
<1>8. ASSUME Send \/ Flushed PROVE UNCHANGED Serial!vars
  BY <1>8 DEF Send, Flushed, Serial!vars, Life, Outstanding
<1>9. ASSUME NEW o \in {"resolved", "rejected"}, Read(o) PROVE Serial!Answer \/ Serial!Refuse
  <2>1. Settle(o) /\ stage = "reading" /\ Life = "open" /\ Life' = Life
    BY <1>9 DEF Read, Life
  <2> QED BY <2>1, <1>a DEF Serial!Refuse, Serial!Answer
<1>10. ASSUME NEW q \in Query, AfterQuery(q) PROVE Serial!Close \/ UNCHANGED Serial!vars
  <2>1. CASE connected
    BY <1>10, <2>1 DEF AfterQuery, Serial!vars, Life, Outstanding
  <2>2. CASE ~connected
    BY <1>10, <2>2, <1>c DEF AfterQuery
  <2> QED BY <2>1, <2>2
<1>11. ASSUME Done PROVE UNCHANGED Serial!vars
  <2>1. Outstanding' = Outstanding
    BY <1>11, <1>b DEF Done, RunAgain
  <2> QED BY <1>11, <2>1 DEF Done, Serial!vars, Life
<1>12. CASE UNCHANGED vars
  BY <1>12 DEF vars, Serial!vars, Life, Outstanding
<1> QED
  BY <1>1, <1>2, <1>3, <1>4, <1>5, <1>6, <1>7, <1>8, <1>9, <1>10, <1>11, <1>12
     DEF Next, Microtask, Answered, Serial!Next

\* A connection settles queries in the order they were made, each once, with an
\* answer only while it is open, and never opens again once closed.
THEOREM KeepsOrder == Spec => SettlesInOrder
<1>1. Init => Serial!Init
  BY DEF Init, Serial!Init, Life, Outstanding
<1>2. Inv /\ [Next]_vars => [Serial!Next]_(Serial!vars)
  BY NextServes
<1> QED BY Invariance, <1>1, <1>2, PTL DEF Spec, SettlesInOrder, Serial!Spec

=============================================================================
