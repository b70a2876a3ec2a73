------------------------ MODULE ConnectionPoolProofs ------------------------
(***************************************************************************)
(* Theorems about ConnectionPool, for any sizes and any number of          *)
(* connections and requests.  What assumes more says it: that clients      *)
(* release once, or that the environment leaves an event out.              *)
(***************************************************************************)
EXTENDS ConnectionPool, FiniteSetTheorems, SequenceTheorems, TLAPS

-----------------------------------------------------------------------------
(* What splice(indexOf(c)) leaves *)

\* What is before the first occurrence of an element is a sequence of what was
\* there, without that element
LEMMA BeforeProperties ==
    ASSUME NEW S, NEW s \in Seq(S), NEW c
    PROVE  /\ Before(s, c) \in Seq(S)
           /\ Range(Before(s, c)) \subseteq Range(s) \ {c}
<1> DEFINE keep == { i \in DOMAIN s : \A j \in 1..i : s[j] # c }
           k == Cardinality(keep)
<1>1. Len(s) \in Nat /\ DOMAIN s = 1..Len(s) /\ keep \subseteq 1..Len(s)
  BY LenProperties
<1>2. IsFiniteSet(1..Len(s)) /\ Cardinality(1..Len(s)) = Len(s)
  BY <1>1, FS_Interval
<1>3. k \in Nat /\ k <= Len(s)
  BY <1>1, <1>2, FS_Subset, FS_CardinalityType
<1>4. ASSUME NEW i \in 1..k PROVE s[i] # c
  <2>1. SUFFICES ASSUME i \notin keep PROVE FALSE
    BY <1>1, <1>3
  <2>2. keep \subseteq 1..(i - 1)
    BY <2>1, <1>1, <1>3
  <2>3. IsFiniteSet(1..(i - 1)) /\ Cardinality(1..(i - 1)) = i - 1
    <3> HIDE DEF k
    <3>1. i \in Int /\ i >= 1 /\ i - 1 \in Int
      BY <1>3
    <3>2. Cardinality(1..(i - 1)) = IF 1 > i - 1 THEN 0 ELSE (i - 1) - 1 + 1
      BY <3>1, FS_Interval
    <3> QED BY <3>1, <3>2, FS_Interval
  <2>4. k <= i - 1
    BY <2>2, <2>3, FS_Subset
  <2> QED BY <2>4, <1>3
<1>5. Before(s, c) = SubSeq(s, 1, k)
  BY DEF Before
<1>6. /\ SubSeq(s, 1, k) \in Seq(S)
      /\ Len(SubSeq(s, 1, k)) = k
      /\ \A i \in 1..k : SubSeq(s, 1, k)[i] = s[i]
  <2> HIDE DEF k
  <2> QED BY <1>1, <1>3, SubSeqProperties
<1>7. ASSUME NEW x \in Range(SubSeq(s, 1, k)) PROVE x \in Range(s) \ {c}
  <2> HIDE DEF k, keep
  <2>1. PICK i \in 1..k : x = s[i]
    BY <1>3, <1>6, LenProperties DEF Range
  <2> QED BY <2>1, <1>1, <1>3, <1>4 DEF Range
<1> QED BY <1>5, <1>6, <1>7

-----------------------------------------------------------------------------
(* What _evict() does to the pool, whoever calls it *)

LEMMA EvictEffect ==
    ASSUME TypeOK, NEW c \in Conn, NEW idle \in Seq(Conn), Evict(c, idle)
    PROVE  /\ connections' = connections \ {c}
           /\ available' \in Seq(Conn) /\ Range(available') \subseteq Range(idle)
           /\ c \in connections => c \notin Range(available')
           /\ borrowed' \subseteq borrowed /\ borrowTimer' \subseteq borrowTimer
           /\ c \in connections => c \notin borrowed' \cup borrowTimer'
           /\ evicted' = IF c \in connections THEN evicted \cup {c} ELSE evicted
           /\ strayTimer' \in [Conn -> Nat]
           /\ link' = [d \in Conn |-> IF d = c /\ c \in connections
                                      THEN "down" ELSE link[d]]
<1>1. CASE c \in connections
  <2>1. Before(idle, c) \in Seq(Conn) /\ Range(Before(idle, c)) \subseteq Range(idle) \ {c}
    BY BeforeProperties
  <2>2. strayTimer' \in [Conn -> Nat]
    <3>1. strayTimer \in [Conn -> Nat]
      BY DEF TypeOK
    <3>2. strayTimer' = [strayTimer EXCEPT ![c] = 0]
      BY <1>1 DEF Evict
    <3> QED BY <3>1, <3>2
  <2>3. link' = [d \in Conn |-> IF d = c /\ c \in connections THEN "down" ELSE link[d]]
    BY <1>1 DEF Evict, Closed
  <2>4. /\ connections' = connections \ {c} /\ available' = Before(idle, c)
        /\ borrowed' = borrowed \ {c} /\ borrowTimer' = borrowTimer \ {c}
        /\ evicted' = evicted \cup {c}
    BY <1>1 DEF Evict
  <2> QED BY <1>1, <2>1, <2>2, <2>3, <2>4
<1>2. CASE c \notin connections
  <2>1. /\ available' = idle /\ connections' = connections /\ borrowed' = borrowed
        /\ evicted' = evicted /\ borrowTimer' = borrowTimer
        /\ strayTimer' = strayTimer /\ link' = link
    BY <1>2 DEF Evict, ownedVars, timerVars
  <2>2. link' = [d \in Conn |-> IF d = c /\ c \in connections THEN "down" ELSE link[d]]
    BY <1>2, <2>1 DEF TypeOK
  <2> QED BY <1>2, <2>1, <2>2 DEF TypeOK
<1> QED BY <1>1, <1>2

-----------------------------------------------------------------------------
(* Types *)

LEMMA InitTypes == Init => TypeOK
<1> SUFFICES ASSUME Init PROVE TypeOK
  OBVIOUS
<1>1. available \in Seq(Conn) /\ pending \in Seq(Req)
  BY DEF Init
<1>2. calls \in [Req -> 0..(Releases - 1)]
  BY ClientAssumption DEF Init
<1>3. /\ link \in [Conn -> Links] /\ request \in [Req -> RequestStates]
      /\ loan \in [Req -> Conn \cup {NoConn}]
  BY DEF Init, Links, RequestStates
<1> QED BY <1>1, <1>2, <1>3 DEF Init, TypeOK

\* The loop heads and the two ways of scheduling a loop keep the counters natural
LEMMA JobsTypes ==
    ASSUME TypeOK
    PROVE  /\ CreateLoopHead => createJobs' \in Nat
           /\ BorrowLoopHead => borrowJobs' \in Nat
           /\ RunCreateLoop => createJobs' \in Nat
           /\ RunBorrowLoop => borrowJobs' \in Nat
BY DEF TypeOK, CreateLoopHead, BorrowLoopHead, RunCreateLoop, RunBorrowLoop

\* What it leaves is well typed
LEMMA EvictTypes ==
    ASSUME TypeOK, NEW c \in Conn, NEW idle \in Seq(Conn), Evict(c, idle)
    PROVE  /\ connections' \subseteq Conn /\ available' \in Seq(Conn)
           /\ borrowed' \subseteq Conn /\ borrowTimer' \subseteq Conn
           /\ evicted' \subseteq Conn /\ strayTimer' \in [Conn -> Nat]
           /\ link' \in [Conn -> Links]
<1>1. link' \in [Conn -> Links]
  <2>1. link \in [Conn -> Links] /\ "down" \in Links
    BY DEF TypeOK, Links
  <2> QED BY <2>1, EvictEffect
<1>2. /\ connections' = connections \ {c} /\ available' \in Seq(Conn)
      /\ borrowed' \subseteq borrowed /\ borrowTimer' \subseteq borrowTimer
      /\ evicted' \subseteq evicted \cup {c} /\ strayTimer' \in [Conn -> Nat]
  BY EvictEffect
<1>3. /\ connections \subseteq Conn /\ borrowed \subseteq Conn
      /\ borrowTimer \subseteq Conn /\ evicted \subseteq Conn
  BY DEF TypeOK
<1> QED BY <1>1, <1>2, <1>3

\* The two ends of a sequence
LEMMA Ends ==
    ASSUME NEW S, NEW s \in Seq(S)
    PROVE  /\ s # <<>> => /\ Head(s) \in S /\ Tail(s) \in Seq(S)
                         /\ Head(s) \in Range(s) /\ Range(Tail(s)) \subseteq Range(s)
           /\ \A e \in S : /\ Append(s, e) \in Seq(S)
                           /\ Range(Append(s, e)) = Range(s) \cup {e}
           /\ \A e \in S : <<e>> \o s \in Seq(S)
           /\ Range(s) \subseteq S
<1>1. Len(s) \in Nat /\ DOMAIN s = 1..Len(s) /\ s \in [1..Len(s) -> S]
  BY LenProperties
<1>2. Range(s) \subseteq S
  BY <1>1 DEF Range
<1>3. ASSUME s # <<>>
      PROVE  /\ Head(s) \in S /\ Tail(s) \in Seq(S)
             /\ Head(s) \in Range(s) /\ Range(Tail(s)) \subseteq Range(s)
  <2>1. Len(s) >= 1 /\ Head(s) = s[1]
    BY <1>1, <1>3, EmptySeq, HeadTailProperties
  <2>2. /\ Tail(s) \in Seq(S) /\ Len(Tail(s)) = Len(s) - 1
        /\ \A i \in 1..Len(Tail(s)) : Tail(s)[i] = s[i + 1]
    BY <1>3, HeadTailProperties
  <2>3. Range(Tail(s)) \subseteq Range(s)
    <3>1. SUFFICES ASSUME NEW x \in Range(Tail(s)) PROVE x \in Range(s)
      OBVIOUS
    <3>2. PICK i \in 1..Len(Tail(s)) : x = Tail(s)[i]
      BY <3>1, <2>2, LenProperties DEF Range
    <3>3. x = s[i + 1] /\ i + 1 \in 1..Len(s)
      BY <3>2, <2>2, <1>1
    <3> QED BY <3>3, <1>1 DEF Range
  <2> QED BY <2>1, <2>2, <2>3, <1>1 DEF Range
<1>4. ASSUME NEW e \in S
      PROVE  Append(s, e) \in Seq(S) /\ Range(Append(s, e)) = Range(s) \cup {e}
  <2>1. /\ Append(s, e) \in Seq(S) /\ Len(Append(s, e)) = Len(s) + 1
        /\ \A i \in 1..Len(s) : Append(s, e)[i] = s[i]
        /\ Append(s, e)[Len(s) + 1] = e
    BY AppendProperties
  <2>2. DOMAIN Append(s, e) = 1..(Len(s) + 1)
    BY <2>1, LenProperties
  <2>3. 1..(Len(s) + 1) = 1..Len(s) \cup {Len(s) + 1}
    BY <1>1
  <2> QED BY <2>1, <2>2, <2>3, <1>1 DEF Range
<1>5. ASSUME NEW e \in S PROVE <<e>> \o s \in Seq(S)
  BY ConcatProperties
<1> QED BY <1>2, <1>3, <1>4, <1>5

\* The operators that handlers share, and the counters, keep their types
LEMMA OperatorTypes ==
    ASSUME TypeOK
    PROVE  /\ \A rs : Rejected(rs) \in [Req -> RequestStates]
           /\ \A cs : Closed(cs) \in [Conn -> Links]
           /\ \A c \in Conn, l \in Links : [link EXCEPT ![c] = l] \in [Conn -> Links]
           /\ \A idle \in Seq(Conn), c \in Conn : PutBack(idle, c) \in Seq(Conn)
           /\ \A c \in Conn : QueueRelease(c) => queued' \in [Conn -> Nat]
           /\ \A r \in Req : Requeue(r) => pending' \in Seq(Req)
           /\ TakeAvailable /\ available # <<>> => available' \in Seq(Conn)
           /\ \A f \in [Conn -> Nat], c \in Conn : f[c] > 0 =>
                 [f EXCEPT ![c] = @ - 1] \in [Conn -> Nat]
<1>1. \A rs : Rejected(rs) \in [Req -> RequestStates]
  BY DEF TypeOK, Rejected, RequestStates
<1>2. \A cs : Closed(cs) \in [Conn -> Links]
  BY DEF TypeOK, Closed, Links
<1>3. \A c \in Conn, l \in Links : [link EXCEPT ![c] = l] \in [Conn -> Links]
  BY DEF TypeOK
<1>4. \A idle \in Seq(Conn), c \in Conn : PutBack(idle, c) \in Seq(Conn)
  BY AppendProperties DEF PutBack
<1>5. \A c \in Conn : QueueRelease(c) => queued' \in [Conn -> Nat]
  <2>1. queued \in [Conn -> Nat]
    BY DEF TypeOK
  <2> QED BY <2>1 DEF QueueRelease
<1>6. \A r \in Req : Requeue(r) => pending' \in Seq(Req)
  <2>1. pending \in Seq(Req)
    BY DEF TypeOK
  <2> QED BY <2>1, Ends DEF Requeue
<1>7. TakeAvailable /\ available # <<>> => available' \in Seq(Conn)
  <2>1. available \in Seq(Conn)
    BY DEF TypeOK
  <2> QED BY <2>1, Ends DEF TakeAvailable
<1>8. \A f \in [Conn -> Nat], c \in Conn : f[c] > 0 =>
         [f EXCEPT ![c] = @ - 1] \in [Conn -> Nat]
  OBVIOUS
<1> QED BY <1>1, <1>2, <1>3, <1>4, <1>5, <1>6, <1>7, <1>8

\* Every handler keeps the types
LEMMA NextTypes == TypeOK /\ [Next]_vars => TypeOK'
<1> SUFFICES ASSUME TypeOK, [Next]_vars PROVE TypeOK'
  OBVIOUS
<1> USE DEF lifecycleVars, timerVars, ownedVars, poolVars, requestVars,
            createVars, borrowVars, releaseVars, clientVars, taskVars
<1>0. /\ available \in Seq(Conn) /\ pending \in Seq(Req)
      /\ queued \in [Conn -> Nat] /\ recycling \in [Conn -> Nat]
      /\ strayTimer \in [Conn -> Nat]
  BY DEF TypeOK
<1>1. ASSUME NEW c \in Conn, Start(c) PROVE TypeOK'
  BY <1>1 DEF TypeOK, Start, Create, Links
<1>2. ASSUME StartConnectFails PROVE TypeOK'
  BY <1>2 DEF TypeOK, StartConnectFails, StartFailed, Rejected, Links, RequestStates
<1>3. ASSUME StartConnects PROVE TypeOK'
  BY <1>3 DEF TypeOK, StartConnects, Links
<1>4. ASSUME StartValidationFails PROVE TypeOK'
  <2>1. request' \in [Req -> RequestStates]
    BY <1>4, OperatorTypes DEF StartValidationFails, StartFailed
  <2>2. link' \in [Conn -> Links]
    BY <1>4 DEF TypeOK, StartValidationFails, Links
  <2> QED BY <1>4, <2>1, <2>2 DEF TypeOK, StartValidationFails, StartFailed
<1>5. ASSUME StartSucceeds PROVE TypeOK'
  <2>1. initial \in Conn
    BY <1>5 DEF TypeOK, StartSucceeds
  <2>2. available' \in Seq(Conn)
    <3>1. PutBack(available, initial) \in Seq(Conn)
      BY <2>1, <1>0, OperatorTypes
    <3> QED BY <1>5, <3>1, <1>0 DEF StartSucceeds
  <2>3. link' \in [Conn -> Links]
    <3>1. link \in [Conn -> Links] /\ Closed({initial}) \in [Conn -> Links]
      BY OperatorTypes DEF TypeOK
    <3> QED BY <1>5, <3>1 DEF StartSucceeds
  <2>4. createJobs' \in Nat /\ borrowJobs' \in Nat
    BY <1>5 DEF TypeOK, StartSucceeds
  <2>5. connections' \subseteq Conn /\ evicted' \subseteq Conn
    BY <1>5, <2>1 DEF TypeOK, StartSucceeds
  <2> QED BY <1>5, <2>1, <2>2, <2>3, <2>4, <2>5 DEF TypeOK, StartSucceeds
<1>6. ASSUME Stop PROVE TypeOK'
  <2>1. /\ request' \in [Req -> RequestStates] /\ link' \in [Conn -> Links]
        /\ strayTimer' \in [Conn -> Nat] /\ available' \in Seq(Conn)
    BY <1>6, OperatorTypes DEF Stop
  <2> QED BY <1>6, <2>1 DEF TypeOK, Stop, Started
<1>7. ASSUME CreateLoopEnds PROVE TypeOK'
  <2>1. createJobs' \in Nat
    BY <1>7, JobsTypes DEF CreateLoopEnds
  <2> QED BY <1>7, <2>1 DEF TypeOK, CreateLoopEnds
<1>8. ASSUME NEW c \in Conn, CreateConnection(c) PROVE TypeOK'
  <2>1. createJobs' \in Nat
    BY <1>8, JobsTypes DEF CreateConnection
  <2>2. link' \in [Conn -> Links]
    BY <1>8, OperatorTypes DEF CreateConnection, Create, Links
  <2> QED BY <1>8, <2>1, <2>2 DEF TypeOK, CreateConnection, Create
<1>9. ASSUME CreateFails PROVE TypeOK'
  <2>1. createJobs' \in Nat
    BY <1>9, JobsTypes DEF CreateFails
  <2> QED BY <1>9, <2>1 DEF TypeOK, CreateFails
<1>10. ASSUME NEW c \in Conn, ConnectSucceeds(c) PROVE TypeOK'
  <2>1. available' \in Seq(Conn)
    BY <1>10, <1>0, OperatorTypes DEF ConnectSucceeds
  <2>2. link' \in [Conn -> Links]
    BY <1>10, OperatorTypes DEF ConnectSucceeds, Links
  <2>3. borrowJobs' \in Nat
    BY <1>10, JobsTypes DEF ConnectSucceeds
  <2> QED BY <1>10, <2>1, <2>2, <2>3 DEF TypeOK, ConnectSucceeds
<1>11. ASSUME NEW c \in Conn, ConnectFails(c) PROVE TypeOK'
  <2>1. /\ connections' \subseteq Conn /\ available' \in Seq(Conn)
        /\ borrowed' \subseteq Conn /\ borrowTimer' \subseteq Conn
        /\ evicted' \subseteq Conn /\ strayTimer' \in [Conn -> Nat]
        /\ link' \in [Conn -> Links]
    BY <1>11, <1>0, EvictTypes DEF ConnectFails
  <2> QED BY <1>11, <2>1 DEF TypeOK, ConnectFails
<1>12. ASSUME RetryTimer PROVE TypeOK'
  BY <1>12 DEF TypeOK, RetryTimer
<1>13. ASSUME BorrowLoopEnds PROVE TypeOK'
  <2>1. borrowJobs' \in Nat
    BY <1>13, JobsTypes DEF BorrowLoopEnds
  <2> QED BY <1>13, <2>1 DEF TypeOK, BorrowLoopEnds
<1>14. ASSUME NoneAvailable PROVE TypeOK'
  <2>1. borrowJobs' \in Nat /\ createJobs' \in Nat
    BY <1>14, JobsTypes DEF NoneAvailable
  <2>2. pending' \in Seq(Req)
    BY <1>14, <1>0, Ends DEF NoneAvailable
  <2> QED BY <1>14, <2>1, <2>2 DEF TypeOK, NoneAvailable
<1>15. ASSUME SkipExpired PROVE TypeOK'
  <2>1. borrowJobs' \in Nat
    BY <1>15, JobsTypes DEF SkipExpired
  <2>2. pending' \in Seq(Req)
    BY <1>15, <1>0, Ends DEF SkipExpired
  <2>3. Head(available) \in Conn /\ Tail(available) \in Seq(Conn)
    BY <1>15, <1>0, Ends DEF SkipExpired
  <2>4. /\ connections' \subseteq Conn /\ available' \in Seq(Conn)
        /\ borrowed' \subseteq Conn /\ borrowTimer' \subseteq Conn
        /\ evicted' \subseteq Conn /\ strayTimer' \in [Conn -> Nat]
        /\ link' \in [Conn -> Links]
    <3>1. CASE Len(Tail(available)) >= MaxIdle
      BY <1>15, <3>1, <2>3, EvictTypes DEF SkipExpired
    <3>2. CASE ~(Len(Tail(available)) >= MaxIdle)
      <4>1. available' = PutBack(Tail(available), Head(available))
            /\ UNCHANGED <<connections, borrowed, borrowTimer, strayTimer, evicted, link>>
        BY <1>15, <3>2 DEF SkipExpired
      <4>2. available' \in Seq(Conn)
        BY <4>1, <2>3, OperatorTypes
      <4> QED BY <4>1, <4>2 DEF TypeOK
    <3> QED BY <3>1, <3>2
  <2> QED BY <1>15, <2>1, <2>2, <2>3, <2>4 DEF TypeOK, SkipExpired
<1>16. ASSUME Validate PROVE TypeOK'
  <2>1. borrowJobs' \in Nat
    BY <1>16, JobsTypes DEF Validate
  <2>2. pending' \in Seq(Req) /\ Head(pending) \in Req
    BY <1>16, <1>0, Ends DEF Validate
  <2>3. available' \in Seq(Conn) /\ Head(available) \in Conn
    BY <1>16, <1>0, Ends DEF Validate, TakeAvailable
  <2>4. validating' \subseteq Req \X Conn
    <3>1. validating' = validating \cup {<<Head(pending), Head(available)>>}
      BY <1>16 DEF Validate
    <3>2. validating \subseteq Req \X Conn /\ Head(pending) \in Req
      BY <2>2 DEF TypeOK
    <3> QED BY <2>3, <3>1, <3>2
  <2> QED BY <1>16, <2>1, <2>2, <2>3, <2>4 DEF TypeOK, Validate
<1>17. ASSUME NEW r \in Req, NEW c \in Conn, NEW ok \in BOOLEAN, ValidatedStopped(r, c, ok) PROVE TypeOK'
  <2>1. request' \in [Req -> RequestStates]
    BY <1>17, OperatorTypes DEF ValidatedStopped
  <2> QED BY <1>17, <2>1 DEF TypeOK, ValidatedStopped, Validated
<1>18. ASSUME NEW r \in Req, NEW c \in Conn, ValidationFailed(r, c) PROVE TypeOK'
  <2>1. /\ connections' \subseteq Conn /\ available' \in Seq(Conn)
        /\ borrowed' \subseteq Conn /\ borrowTimer' \subseteq Conn
        /\ evicted' \subseteq Conn /\ strayTimer' \in [Conn -> Nat]
        /\ link' \in [Conn -> Links]
    BY <1>18, <1>0, EvictTypes DEF ValidationFailed
  <2>2. pending' \in Seq(Req)
    BY <1>18, OperatorTypes DEF ValidationFailed
  <2> QED BY <1>18, <2>1, <2>2 DEF TypeOK, ValidationFailed, Validated
<1>19. ASSUME NEW r \in Req, NEW c \in Conn, ValidatedTooLate(r, c) PROVE TypeOK'
  <2>1. queued' \in [Conn -> Nat]
    BY <1>19, OperatorTypes DEF ValidatedTooLate
  <2> QED BY <1>19, <2>1 DEF TypeOK, ValidatedTooLate, Validated
<1>20. ASSUME NEW r \in Req, NEW c \in Conn, Lend(r, c) PROVE TypeOK'
  <2>1. strayTimer' \in [Conn -> Nat]
    BY <1>20, <1>0 DEF Lend
  <2> QED BY <1>20, <2>1 DEF TypeOK, Lend, Validated, RequestStates
<1>21. ASSUME NEW c \in Conn, BorrowTimeout(c) PROVE TypeOK'
  <2>1. /\ connections' \subseteq Conn /\ available' \in Seq(Conn)
        /\ borrowed' \subseteq Conn /\ borrowTimer' \subseteq Conn
        /\ evicted' \subseteq Conn /\ strayTimer' \in [Conn -> Nat]
        /\ link' \in [Conn -> Links]
    BY <1>21, <1>0, EvictTypes DEF BorrowTimeout
  <2> QED BY <1>21, <2>1 DEF TypeOK, BorrowTimeout
<1>22. ASSUME NEW r \in Req, Acquire(r) PROVE TypeOK'
  <2>1. pending' \in Seq(Req)
    BY <1>22, <1>0, Ends DEF Acquire
  <2>2. borrowJobs' \in Nat
    BY <1>22, JobsTypes DEF Acquire
  <2>3. request' \in [Req -> RequestStates]
    BY <1>22 DEF TypeOK, Acquire, RequestStates
  <2>4. loan' \in [Req -> Conn \cup {NoConn}]
    BY <1>22 DEF TypeOK, Acquire
  <2>5. calls' \in [Req -> 0..(Releases - 1)]
    BY <1>22, ClientAssumption DEF TypeOK, Acquire
  <2> QED BY <1>22, <2>1, <2>2, <2>3, <2>4, <2>5 DEF TypeOK, Acquire
<1>23. ASSUME NEW r \in Req, AcquireTimeout(r) PROVE TypeOK'
  <2>1. request' \in [Req -> RequestStates]
    BY <1>23, OperatorTypes DEF AcquireTimeout
  <2> QED BY <1>23, <2>1 DEF TypeOK, AcquireTimeout
<1>24. ASSUME NEW r \in Req, Release(r) PROVE TypeOK'
  <2>1. loan[r] \in Conn
    BY <1>24 DEF TypeOK, Release
  <2>2. queued' \in [Conn -> Nat]
    BY <1>24, <2>1, OperatorTypes DEF Release
  <2>3. loan' \in [Req -> Conn \cup {NoConn}]
    BY <1>24 DEF TypeOK, Release
  <2>4. calls' \in [Req -> 0..(Releases - 1)]
    <3>1. calls[r] \in 0..(Releases - 1) /\ Releases \in Nat \ {0}
      BY ClientAssumption DEF TypeOK
    <3>2. ASSUME calls[r] + 1 < Releases PROVE calls[r] + 1 \in 0..(Releases - 1)
      BY <3>1, <3>2
    <3>3. 0 \in 0..(Releases - 1)
      BY <3>1
    <3>4. \/ /\ calls[r] + 1 < Releases
             /\ calls' = [calls EXCEPT ![r] = calls[r] + 1]
          \/ calls' = [calls EXCEPT ![r] = 0]
      BY <1>24 DEF Release
    <3>5. calls \in [Req -> 0..(Releases - 1)]
      BY DEF TypeOK
    <3> QED BY <3>2, <3>3, <3>4, <3>5
  <2> QED BY <1>24, <2>1, <2>2, <2>3, <2>4 DEF TypeOK, Release
<1>25. ASSUME NEW c \in Conn, ReleaseHandler(c) PROVE TypeOK'
  <2>1. /\ connections' \subseteq Conn /\ available' \in Seq(Conn)
        /\ borrowed' \subseteq Conn /\ borrowTimer' \subseteq Conn
        /\ evicted' \subseteq Conn /\ strayTimer' \in [Conn -> Nat]
        /\ link' \in [Conn -> Links]
    BY <1>25, <1>0, EvictTypes DEF TypeOK, ReleaseHandler, DisarmTimer
  <2>2. queued' \in [Conn -> Nat]
    BY <1>25, <1>0, OperatorTypes DEF ReleaseHandler
  <2>3. recycling' \in [Conn -> Nat]
    BY <1>25, <1>0 DEF ReleaseHandler
  <2>4. borrowJobs' \in Nat
    BY <1>25, JobsTypes DEF TypeOK, ReleaseHandler
  <2> QED BY <1>25, <2>1, <2>2, <2>3, <2>4 DEF TypeOK, ReleaseHandler
<1>26. ASSUME NEW c \in Conn, Recycled(c) PROVE TypeOK'
  <2>1. recycling' \in [Conn -> Nat]
    BY <1>26, <1>0, OperatorTypes DEF Recycled
  <2>2. available' \in Seq(Conn)
    BY <1>26, <1>0, OperatorTypes DEF Recycled
  <2>3. borrowJobs' \in Nat
    BY <1>26, JobsTypes DEF Recycled
  <2> QED BY <1>26, <2>1, <2>2, <2>3 DEF TypeOK, Recycled
<1>27. ASSUME NEW c \in Conn, RecycleFails(c) PROVE TypeOK'
  <2>1. recycling' \in [Conn -> Nat]
    BY <1>27, <1>0, OperatorTypes DEF RecycleFails
  <2>2. /\ connections' \subseteq Conn /\ available' \in Seq(Conn)
        /\ borrowed' \subseteq Conn /\ borrowTimer' \subseteq Conn
        /\ evicted' \subseteq Conn /\ strayTimer' \in [Conn -> Nat]
        /\ link' \in [Conn -> Links]
    BY <1>27, <1>0, EvictTypes DEF RecycleFails
  <2>3. borrowJobs' \in Nat
    BY <1>27, JobsTypes DEF RecycleFails
  <2> QED BY <1>27, <2>1, <2>2, <2>3 DEF TypeOK, RecycleFails
<1>28. ASSUME NEW r \in Req, ClientQueryFails(r) PROVE TypeOK'
  BY <1>28 DEF TypeOK, ClientQueryFails, Holding, Links
<1>29. ASSUME NEW c \in Conn, Destroy(c) PROVE TypeOK'
  <2>1. /\ connections' \subseteq Conn /\ available' \in Seq(Conn)
        /\ borrowed' \subseteq Conn /\ borrowTimer' \subseteq Conn
        /\ evicted' \subseteq Conn /\ strayTimer' \in [Conn -> Nat]
        /\ link' \in [Conn -> Links]
    BY <1>29, <1>0, EvictTypes DEF Destroy
  <2>2. createJobs' \in Nat
    BY <1>29, JobsTypes DEF Destroy
  <2> QED BY <1>29, <2>1, <2>2 DEF TypeOK, Destroy
<1>30. CASE UNCHANGED vars
  BY <1>30 DEF TypeOK, vars
<1> QED
  BY <1>1, <1>2, <1>3, <1>4, <1>5, <1>6, <1>7, <1>8, <1>9, <1>10, <1>11,
      <1>12, <1>13, <1>14, <1>15, <1>16, <1>17, <1>18, <1>19, <1>20, <1>21,
      <1>22, <1>23, <1>24, <1>25, <1>26, <1>27, <1>28, <1>29, <1>30 DEF Next, LoopStep

\* TypeOK holds in every execution.
THEOREM TypeCorrect == Spec => []TypeOK
<1>1. TypeOK /\ [Next]_vars => TypeOK'
  BY NextTypes
<1> QED BY InitTypes, <1>1, PTL DEF Spec

-----------------------------------------------------------------------------
(* The size of the pool *)

SizeInv == IsFiniteSet(connections) /\ PoolSizeBounded

LEMMA InitSize == Init => SizeInv
BY FS_EmptySet, SizesAssumption DEF Init, SizeInv, PoolSizeBounded, Started

\* Handlers that adopt nothing
LEMMA SizeShrinks ==
    ASSUME SizeInv, connections' \subseteq connections,
           Started => Started' \/ connections' = {}
    PROVE  SizeInv'
<1>1. IsFiniteSet(connections') /\ Cardinality(connections') <= Cardinality(connections)
  BY FS_Subset DEF SizeInv
<1>2. Cardinality(connections') \in Nat /\ Cardinality(connections) \in Nat
  BY <1>1, FS_CardinalityType DEF SizeInv
<1>3. Cardinality(connections') <= MaxSize
  BY <1>1, <1>2, SizesAssumption DEF SizeInv, PoolSizeBounded
<1>4. ~Started' => connections' = {}
  BY DEF SizeInv, PoolSizeBounded
<1> QED BY <1>1, <1>3, <1>4 DEF SizeInv, PoolSizeBounded

LEMMA NextSize == SizeInv /\ [Next]_vars => SizeInv'
<1> SUFFICES ASSUME SizeInv, [Next]_vars PROVE SizeInv'
  OBVIOUS
<1> USE DEF lifecycleVars, timerVars, ownedVars, poolVars, requestVars,
            createVars, borrowVars, releaseVars, clientVars, taskVars
<1>1. \A c, idle : Evict(c, idle) => connections' \subseteq connections
  BY DEF Evict
<1>2. ASSUME StartSucceeds PROVE SizeInv'
  <2>1. connections = {} /\ connections' \subseteq {initial} /\ Started'
    BY <1>2 DEF StartSucceeds, SizeInv, PoolSizeBounded, Started
  <2>2. IsFiniteSet({initial}) /\ Cardinality({initial}) = 1
    BY FS_Singleton
  <2>3. IsFiniteSet(connections') /\ Cardinality(connections') <= 1
    BY <2>1, <2>2, FS_Subset
  <2>4. Cardinality(connections') \in Nat
    BY <2>3, FS_CardinalityType
  <2>5. Cardinality(connections') <= MaxSize
    BY <2>3, <2>4, SizesAssumption
  <2> QED BY <2>1, <2>3, <2>5 DEF SizeInv, PoolSizeBounded
<1>3. ASSUME NEW c \in Conn, CreateConnection(c) PROVE SizeInv'
  <2>1. /\ connections' = connections \cup {c} /\ c \notin connections
        /\ ~(Cardinality(connections) >= MaxSize) /\ Started'
    BY <1>3 DEF CreateConnection, EnoughConnections, Create, Unreachable, Started
  <2>2. Cardinality(connections) \in Nat
    BY FS_CardinalityType DEF SizeInv
  <2>3. IsFiniteSet(connections') /\ Cardinality(connections') = Cardinality(connections) + 1
    BY <2>1, FS_AddElement DEF SizeInv
  <2>4. Cardinality(connections') <= MaxSize
    BY <2>1, <2>2, <2>3, SizesAssumption
  <2> QED BY <2>1, <2>3, <2>4 DEF SizeInv, PoolSizeBounded
<1>4. ASSUME Stop PROVE SizeInv'
  BY <1>4, SizeShrinks DEF Stop
<1>5. ASSUME \/ \E c \in Conn : Start(c)
             \/ StartConnectFails \/ StartConnects \/ StartValidationFails
      PROVE  SizeInv'
  BY <1>5, SizeShrinks
     DEF Start, StartConnectFails, StartConnects, StartValidationFails, StartFailed, Started
<1>6. ASSUME \/ CreateLoopEnds \/ CreateFails \/ RetryTimer
             \/ BorrowLoopEnds \/ NoneAvailable \/ Validate
             \/ \E c \in Conn : ConnectSucceeds(c) \/ Recycled(c)
             \/ \E r \in Req : Acquire(r) \/ AcquireTimeout(r) \/ Release(r) \/ ClientQueryFails(r)
      PROVE  SizeInv'
  <2>1. connections' = connections /\ phase' = phase
    BY <1>6 DEF CreateLoopEnds, CreateFails, RetryTimer, BorrowLoopEnds, NoneAvailable,
                Validate, ConnectSucceeds, Recycled, Acquire, AcquireTimeout, Release,
                ClientQueryFails
  <2> QED BY <2>1, SizeShrinks DEF Started
<1>7. ASSUME NEW r \in Req, NEW c \in Conn,
             \/ \E ok \in BOOLEAN : ValidatedStopped(r, c, ok)
             \/ ValidationFailed(r, c) \/ ValidatedTooLate(r, c) \/ Lend(r, c)
      PROVE  SizeInv'
  <2>1. connections' \subseteq connections /\ phase' = phase
    BY <1>1, <1>7 DEF ValidatedStopped, ValidationFailed, ValidatedTooLate, Lend
  <2> QED BY <2>1, SizeShrinks DEF Started
<1>8. ASSUME \/ SkipExpired
             \/ \E c \in Conn : \/ ConnectFails(c) \/ BorrowTimeout(c) \/ ReleaseHandler(c)
                               \/ RecycleFails(c) \/ Destroy(c)
      PROVE  SizeInv'
  <2>1. connections' \subseteq connections /\ phase' = phase
    BY <1>1, <1>8 DEF SkipExpired, ConnectFails, BorrowTimeout, ReleaseHandler,
                      RecycleFails, Destroy
  <2> QED BY <2>1, SizeShrinks DEF Started
<1>9. CASE UNCHANGED vars
  BY <1>9, SizeShrinks DEF vars, Started
<1> QED BY <1>2, <1>3, <1>4, <1>5, <1>6, <1>7, <1>8, <1>9 DEF Next, LoopStep

\* The pool never owns more than maximumPoolSize connections, and none while it
\* is stopped or starting, however many loops and handlers are suspended.
THEOREM SizeBounded == Spec => []PoolSizeBounded
<1>1. SizeInv /\ [Next]_vars => SizeInv'
  BY NextSize
<1>2. SizeInv => PoolSizeBounded
  BY DEF SizeInv
<1> QED BY InitSize, <1>1, <1>2, PTL DEF Spec

-----------------------------------------------------------------------------
(* Who may hold a connection *)

\* A handler or a client holds the connection
Referenced(c) ==
    \/ c \in creating \/ queued[c] > 0 \/ recycling[c] > 0
    \/ \E r \in Req : loan[r] = c \/ <<r, c>> \in validating

\* NoZombies is not inductive: a handler about to resume could hold an open
\* connection the pool has disowned.  None does: what is open and in anyone's
\* hands is owned, and what start() is trying is in nobody's.
Ownership ==
    /\ Range(available) \cup borrowed \cup borrowTimer \subseteq connections
    /\ connections \cap evicted = {}
    /\ \A c \in evicted : link[c] = "down"
    /\ \A c \in Conn : Referenced(c) /\ link[c] \in {"connecting", "up"} => c \in connections
    /\ ~Started => connections = {}
    /\ phase = "starting" => initial \notin evicted /\ ~Referenced(initial)

LEMMA InitOwnership == Init => Ownership
BY ConnAssumption DEF Init, Ownership, Referenced, Range, Started

LEMMA OwnershipSuffices == TypeOK /\ Ownership => NoZombies
BY ConnAssumption DEF TypeOK, Ownership, Referenced, NoZombies, Connected

\* Handlers that change who holds what, and neither the set of owned
\* connections nor the life of any
LEMMA PassingOn ==
    ASSUME Ownership, TypeOK,
           UNCHANGED <<phase, initial, connections, evicted, link>>,
           Range(available') \cup borrowed' \cup borrowTimer' \subseteq connections,
           \A d \in Conn : Referenced(d)' => Referenced(d) \/ d \in connections
    PROVE  Ownership'
BY DEF Ownership, TypeOK, Started

\* Handlers that evict a connection and let go of some
LEMMA EvictKeeps ==
    ASSUME Ownership, TypeOK, UNCHANGED <<phase, initial>>,
           NEW c \in Conn, NEW idle \in Seq(Conn), Range(idle) \subseteq connections,
           Evict(c, idle),
           \A d \in Conn : Referenced(d)' => Referenced(d)
    PROVE  Ownership'
<1>1. /\ connections' = connections \ {c}
      /\ Range(available') \cup borrowed' \cup borrowTimer' \subseteq connections'
      /\ evicted' = IF c \in connections THEN evicted \cup {c} ELSE evicted
  BY EvictEffect DEF Ownership
<1>2. link' = [d \in Conn |-> IF d = c /\ c \in connections THEN "down" ELSE link[d]]
  BY EvictEffect
<1>3. \A d \in evicted' : link'[d] = "down"
  BY <1>1, <1>2 DEF Ownership, TypeOK
<1>4. ASSUME NEW d \in Conn, Referenced(d)', link'[d] \in {"connecting", "up"}
      PROVE  d \in connections'
  BY <1>1, <1>2, <1>4 DEF Ownership
<1>5. phase = "starting" => initial \notin evicted' /\ ~Referenced(initial)'
  BY <1>1 DEF Ownership, Started, TypeOK
<1> QED BY <1>1, <1>3, <1>4, <1>5 DEF Ownership, Started

LEMMA NextOwnership == Ownership /\ TypeOK /\ [Next]_vars => Ownership'
<1> SUFFICES ASSUME Ownership, TypeOK, [Next]_vars PROVE Ownership'
  OBVIOUS
<1> USE DEF lifecycleVars, timerVars, ownedVars, poolVars, requestVars,
            createVars, borrowVars, releaseVars, clientVars, taskVars
<1>0. /\ available \in Seq(Conn) /\ Range(available) \subseteq connections
      /\ borrowed \cup borrowTimer \subseteq connections
      /\ queued \in [Conn -> Nat] /\ recycling \in [Conn -> Nat]
      /\ loan \in [Req -> Conn \cup {NoConn}]
      /\ NoConn \notin Conn
  BY ConnAssumption DEF TypeOK, Ownership
<1>1. ASSUME NEW c \in Conn, Start(c) PROVE Ownership'
  <2>1. \A d \in Conn : Referenced(d)' => Referenced(d)
    BY <1>1 DEF Start, Referenced
  <2>2. c \notin connections /\ ~Referenced(c)
    <3>1. Unreachable(c)
      BY <1>1 DEF Start, Create
    <3>2. /\ c \notin connections /\ c \notin creating /\ queued[c] = 0 /\ recycling[c] = 0
          /\ \A r \in Req : loan[r] # c /\ <<r, c>> \notin validating
      BY <3>1 DEF Unreachable
    <3>3. ~(queued[c] > 0) /\ ~(recycling[c] > 0)
      BY <3>2
    <3> QED BY <3>2, <3>3 DEF Referenced
  <2>3. link' = [link EXCEPT ![c] = "connecting"] /\ evicted' = evicted \ {c}
    BY <1>1 DEF Start, Create
  <2> QED BY <1>1, <2>1, <2>2, <2>3 DEF Start, Ownership, Started, TypeOK
<1>2. ASSUME StartConnectFails \/ StartConnects \/ StartValidationFails PROVE Ownership'
  <2>1. \A d \in Conn : Referenced(d)' => Referenced(d)
    BY <1>2 DEF StartConnectFails, StartConnects, StartValidationFails, StartFailed, Referenced
  <2>2. PICK l \in {"up", "down"} : link' = [link EXCEPT ![initial] = l]
    BY <1>2 DEF StartConnectFails, StartConnects, StartValidationFails
  <2>3. /\ initial \notin evicted /\ ~Referenced(initial) /\ initial \in Conn
        /\ phase = "starting"
    BY <1>2 DEF StartConnectFails, StartConnects, StartValidationFails, Ownership, TypeOK
  <2>4. /\ UNCHANGED <<connections, available, borrowed, borrowTimer, evicted>>
        /\ phase' = "stopped" \/ UNCHANGED <<phase, initial>>
    BY <1>2 DEF StartConnectFails, StartConnects, StartValidationFails, StartFailed
  <2> QED BY <2>1, <2>2, <2>3, <2>4 DEF Ownership, Started, TypeOK
<1>3. ASSUME StartSucceeds PROVE Ownership'
  <2>1. \A d \in Conn : Referenced(d)' => Referenced(d)
    BY <1>3 DEF StartSucceeds, Referenced
  <2>2. /\ initial \notin evicted /\ ~Referenced(initial) /\ initial \in Conn
        /\ connections = {} /\ phase' = "started"
    BY <1>3 DEF StartSucceeds, Ownership, TypeOK, Started
  <2>3. UNCHANGED <<borrowed, borrowTimer>>
    BY <1>3 DEF StartSucceeds
  <2>4. CASE MaxIdle > 0
    <3>1. /\ connections' = connections \cup {initial}
          /\ available' = PutBack(available, initial) /\ UNCHANGED <<evicted, link>>
      BY <1>3, <2>4 DEF StartSucceeds
    <3>2. Range(available') \subseteq connections'
      BY <3>1, <2>2, <1>0, Ends DEF PutBack
    <3> QED BY <2>1, <2>2, <2>3, <3>1, <3>2 DEF Ownership, Started
  <2>5. CASE ~(MaxIdle > 0)
    <3>1. /\ evicted' = evicted \cup {initial} /\ UNCHANGED <<connections, available>>
          /\ link' = [d \in Conn |-> IF d \in {initial} THEN "down" ELSE link[d]]
      BY <1>3, <2>5 DEF StartSucceeds, Closed
    <3>2. /\ connections \cap evicted' = {}
          /\ \A d \in evicted' : link'[d] = "down"
          /\ \A d \in Conn : link'[d] # "down" => link'[d] = link[d]
      BY <3>1, <2>2 DEF Ownership, TypeOK
    <3> QED BY <2>1, <2>2, <2>3, <3>1, <3>2, <1>0 DEF Ownership, Started
  <2> QED BY <2>4, <2>5
<1>4. ASSUME Stop PROVE Ownership'
  <2>1. \A d \in Conn : Referenced(d)' => Referenced(d)
    BY <1>4 DEF Stop, Referenced
  <2>2. /\ link' = [d \in Conn |-> IF d \in connections THEN "down" ELSE link[d]]
        /\ evicted' = evicted \cup connections /\ phase' = "stopped"
        /\ connections' = {} /\ available' = <<>> /\ borrowed' = {} /\ borrowTimer' = {}
    BY <1>4 DEF Stop, Closed
  <2>3. Range(available') = {}
    BY <2>2 DEF Range
  <2> QED BY <2>1, <2>2, <2>3 DEF Ownership, TypeOK, Started
<1>5. ASSUME NEW c \in Conn, CreateConnection(c) PROVE Ownership'
  <2>1. /\ Started /\ UNCHANGED <<phase, available, borrowed, borrowTimer>>
        /\ connections' = connections \cup {c} /\ evicted' = evicted \ {c}
        /\ link' = [link EXCEPT ![c] = "connecting"]
    BY <1>5 DEF CreateConnection, Create
  <2>2. \A d \in Conn : Referenced(d)' => Referenced(d) \/ d = c
    BY <1>5 DEF CreateConnection, Referenced
  <2> QED BY <2>1, <2>2 DEF Ownership, Started, TypeOK
<1>6. ASSUME NEW c \in Conn, ConnectSucceeds(c) PROVE Ownership'
  <2>1. \A d \in Conn : Referenced(d)' => Referenced(d)
    BY <1>6 DEF ConnectSucceeds, Referenced
  <2>2. c \in connections
    BY <1>6 DEF ConnectSucceeds, Ownership, Referenced
  <2>3. /\ UNCHANGED <<phase, initial, connections, borrowed, borrowTimer, evicted>>
        /\ available' = Append(available, c) /\ link' = [link EXCEPT ![c] = "up"]
    BY <1>6 DEF ConnectSucceeds, PutBack
  <2>4. Range(available') \subseteq connections
    BY <1>0, <2>2, <2>3, Ends
  <2> QED BY <2>1, <2>2, <2>3, <2>4 DEF Ownership, Started, TypeOK
<1>7. ASSUME NEW r \in Req, ClientQueryFails(r) PROVE Ownership'
  <2>1. \A d \in Conn : Referenced(d)' => Referenced(d)
    BY <1>7 DEF ClientQueryFails, Referenced
  <2>2. /\ UNCHANGED <<phase, initial, connections, available, borrowed, borrowTimer, evicted>>
        /\ link' = [link EXCEPT ![loan[r]] = "down"]
    BY <1>7 DEF ClientQueryFails
  <2> QED BY <2>1, <2>2 DEF Ownership, Started, TypeOK
<1>8. ASSUME NEW c \in Conn, ConnectFails(c) PROVE Ownership'
  <2>1. \A d \in Conn : Referenced(d)' => Referenced(d)
    BY <1>8, <1>0 DEF ConnectFails, Referenced
  <2>2. Evict(c, available) /\ UNCHANGED <<phase, initial>>
    BY <1>8 DEF ConnectFails
  <2> QED BY <2>1, <2>2, <1>0, EvictKeeps
<1>9. ASSUME NEW c \in Conn, BorrowTimeout(c) PROVE Ownership'
  <2>1. \A d \in Conn : Referenced(d)' => Referenced(d)
    BY <1>9, <1>0 DEF BorrowTimeout, Referenced
  <2>2. Evict(c, available) /\ UNCHANGED <<phase, initial>>
    BY <1>9 DEF BorrowTimeout
  <2> QED BY <2>1, <2>2, <1>0, EvictKeeps
<1>10. ASSUME NEW c \in Conn, RecycleFails(c) PROVE Ownership'
  <2>1. \A d \in Conn : Referenced(d)' => Referenced(d)
    BY <1>10, <1>0 DEF RecycleFails, Referenced
  <2>2. Evict(c, available) /\ UNCHANGED <<phase, initial>>
    BY <1>10 DEF RecycleFails
  <2> QED BY <2>1, <2>2, <1>0, EvictKeeps
<1>11. ASSUME NEW c \in Conn, Destroy(c) PROVE Ownership'
  <2>1. \A d \in Conn : Referenced(d)' => Referenced(d)
    BY <1>11, <1>0 DEF Destroy, Referenced
  <2>2. Evict(c, available) /\ UNCHANGED <<phase, initial>>
    BY <1>11 DEF Destroy
  <2> QED BY <2>1, <2>2, <1>0, EvictKeeps
<1>12. ASSUME NEW r \in Req, NEW c \in Conn, ValidationFailed(r, c) PROVE Ownership'
  <2>1. \A d \in Conn : Referenced(d)' => Referenced(d)
    BY <1>12, <1>0 DEF ValidationFailed, Validated, Referenced
  <2>2. Evict(c, available) /\ UNCHANGED <<phase, initial>>
    BY <1>12 DEF ValidationFailed
  <2> QED BY <2>1, <2>2, <1>0, EvictKeeps
<1>13. ASSUME NEW c \in Conn, ReleaseHandler(c) PROVE Ownership'
  <2>1. \A d \in Conn : Referenced(d)' => Referenced(d)
    BY <1>13, <1>0 DEF ReleaseHandler, Referenced
  <2>2. CASE ~Connected(c) \/ Len(available) >= MaxIdle
    <3>1. Evict(c, available) /\ UNCHANGED <<phase, initial>>
      BY <1>13, <2>2 DEF ReleaseHandler
    <3> QED BY <2>1, <3>1, <1>0, EvictKeeps
  <2>3. CASE ~(~Connected(c) \/ Len(available) >= MaxIdle)
    <3>1. /\ UNCHANGED <<phase, initial, connections, available, borrowed, evicted, link>>
          /\ borrowTimer' = borrowTimer \ {c}
      BY <1>13, <2>3 DEF ReleaseHandler, DisarmTimer
    <3> QED BY <2>1, <3>1, <1>0, PassingOn
  <2> QED BY <2>2, <2>3
<1>14. ASSUME SkipExpired PROVE Ownership'
  <2>1. \A d \in Conn : Referenced(d)' => Referenced(d)
    BY <1>14 DEF SkipExpired, Referenced
  <2>2. /\ Head(available) \in Conn /\ Head(available) \in connections
        /\ Tail(available) \in Seq(Conn) /\ Range(Tail(available)) \subseteq connections
    BY <1>14, <1>0, Ends DEF SkipExpired
  <2>3. CASE Len(Tail(available)) >= MaxIdle
    <3>1. Evict(Head(available), Tail(available)) /\ UNCHANGED <<phase, initial>>
      BY <1>14, <2>3 DEF SkipExpired
    <3> QED BY <2>1, <2>2, <3>1, EvictKeeps
  <2>4. CASE ~(Len(Tail(available)) >= MaxIdle)
    <3>1. /\ UNCHANGED <<phase, initial, connections, borrowed, borrowTimer, evicted, link>>
          /\ available' = Append(Tail(available), Head(available))
      BY <1>14, <2>4 DEF SkipExpired, PutBack
    <3>2. Range(available') \subseteq connections
      <4>1. Range(Append(Tail(available), Head(available)))
              = Range(Tail(available)) \cup {Head(available)}
        BY <2>2, Ends
      <4> QED BY <2>2, <3>1, <4>1
    <3> QED BY <2>1, <3>1, <3>2, <1>0, PassingOn
  <2> QED BY <2>3, <2>4
<1>15. ASSUME Validate PROVE Ownership'
  <2>1. Head(available) \in connections /\ Range(Tail(available)) \subseteq connections
    BY <1>15, <1>0, Ends DEF Validate
  <2>2. \A d \in Conn : Referenced(d)' => Referenced(d) \/ d = Head(available)
    BY <1>15 DEF Validate, Referenced
  <2>3. /\ UNCHANGED <<phase, initial, connections, borrowed, borrowTimer, evicted, link>>
        /\ available' = Tail(available)
    BY <1>15 DEF Validate, TakeAvailable
  <2> QED BY <2>1, <2>2, <2>3, <1>0, PassingOn
<1>16. ASSUME NEW r \in Req, NEW c \in Conn, Lend(r, c) PROVE Ownership'
  <2>1. Referenced(c) /\ link[c] = "up"
    BY <1>16 DEF Lend, Validated, Referenced, Connected
  <2>2. c \in connections
    BY <2>1 DEF Ownership
  <2>3. \A d \in Conn : Referenced(d)' => Referenced(d) \/ d = c
    BY <1>16, <1>0 DEF Lend, Validated, Referenced
  <2>4. /\ UNCHANGED <<phase, initial, connections, available, evicted, link>>
        /\ borrowed' = borrowed \cup {c} /\ borrowTimer' = borrowTimer \cup {c}
    BY <1>16 DEF Lend
  <2> QED BY <2>2, <2>3, <2>4, <1>0, PassingOn
<1>17. ASSUME NEW r \in Req, NEW c \in Conn, ValidatedTooLate(r, c) PROVE Ownership'
  <2>1. \A d \in Conn : Referenced(d)' => Referenced(d)
    BY <1>17, <1>0 DEF ValidatedTooLate, Validated, QueueRelease, Referenced
  <2>2. UNCHANGED <<phase, initial, connections, available, borrowed, borrowTimer, evicted, link>>
    BY <1>17 DEF ValidatedTooLate
  <2> QED BY <2>1, <2>2, <1>0, PassingOn
<1>18. ASSUME NEW r \in Req, NEW c \in Conn, NEW ok \in BOOLEAN, ValidatedStopped(r, c, ok)
       PROVE  Ownership'
  <2>1. \A d \in Conn : Referenced(d)' => Referenced(d)
    BY <1>18, <1>0 DEF ValidatedStopped, Validated, Referenced
  <2>2. UNCHANGED <<phase, initial, connections, available, borrowed, borrowTimer, evicted, link>>
    BY <1>18 DEF ValidatedStopped
  <2> QED BY <2>1, <2>2, <1>0, PassingOn
<1>19. ASSUME NEW r \in Req, Acquire(r) \/ AcquireTimeout(r) PROVE Ownership'
  <2>1. \A d \in Conn : Referenced(d)' => Referenced(d)
    BY <1>19, <1>0 DEF Acquire, AcquireTimeout, Referenced
  <2>2. UNCHANGED <<phase, initial, connections, available, borrowed, borrowTimer, evicted, link>>
    BY <1>19 DEF Acquire, AcquireTimeout
  <2> QED BY <2>1, <2>2, <1>0, PassingOn
<1>20. ASSUME NEW r \in Req, Release(r) PROVE Ownership'
  <2>1. \A d \in Conn : Referenced(d)' => Referenced(d)
    <3>1. \A d \in Conn : queued'[d] > 0 => queued[d] > 0 \/ loan[r] = d
      BY <1>20, <1>0 DEF Release, QueueRelease
    <3>2. \A q \in Req, d \in Conn : loan'[q] = d => loan[q] = d
      BY <1>20, <1>0 DEF Release
    <3>3. UNCHANGED <<creating, recycling, validating>>
      BY <1>20 DEF Release
    <3> QED BY <3>1, <3>2, <3>3 DEF Referenced
  <2>2. UNCHANGED <<phase, initial, connections, available, borrowed, borrowTimer, evicted, link>>
    BY <1>20 DEF Release
  <2> QED BY <2>1, <2>2, <1>0, PassingOn
<1>21. ASSUME NEW c \in Conn, Recycled(c) PROVE Ownership'
  <2>1. Referenced(c) /\ link[c] = "up"
    BY <1>21 DEF Recycled, Referenced, Connected
  <2>2. c \in connections
    BY <2>1 DEF Ownership
  <2>3. \A d \in Conn : Referenced(d)' => Referenced(d)
    BY <1>21, <1>0 DEF Recycled, Referenced
  <2>4. /\ UNCHANGED <<phase, initial, connections, borrowTimer, evicted, link>>
        /\ available' = Append(available, c) /\ borrowed' = borrowed \ {c}
    BY <1>21 DEF Recycled, PutBack
  <2>5. Range(available') \subseteq connections
    BY <1>0, <2>2, <2>4, Ends
  <2> QED BY <2>3, <2>4, <2>5, <1>0, PassingOn
<1>22. ASSUME CreateLoopEnds \/ CreateFails \/ RetryTimer \/ BorrowLoopEnds \/ NoneAvailable
       PROVE  Ownership'
  <2>1. /\ UNCHANGED <<phase, initial, connections, available, borrowed, borrowTimer, evicted, link>>
        /\ UNCHANGED <<creating, validating, queued, recycling, loan>>
    BY <1>22 DEF CreateLoopEnds, CreateFails, RetryTimer, BorrowLoopEnds, NoneAvailable
  <2>2. \A d \in Conn : Referenced(d)' => Referenced(d)
    BY <2>1 DEF Referenced
  <2> QED BY <2>1, <2>2, <1>0, PassingOn
<1>23. CASE UNCHANGED vars
  BY <1>23 DEF vars, Ownership, Referenced, Started
<1> QED
  BY <1>1, <1>2, <1>3, <1>4, <1>5, <1>6, <1>7, <1>8, <1>9, <1>10, <1>11, <1>12,
     <1>13, <1>14, <1>15, <1>16, <1>17, <1>18, <1>19, <1>20, <1>21, <1>22, <1>23
     DEF Next, LoopStep

\* An evicted connection is closed and stays out of the pool, whatever handler
\* held it when it was evicted: for any client, one that calls release() many
\* times included, and any events, stop() and a later start() included.
THEOREM NeverZombies == Spec => []NoZombies
<1>1. Init => TypeOK /\ Ownership
  BY InitTypes, InitOwnership
<1>2. (TypeOK /\ Ownership) /\ [Next]_vars => (TypeOK /\ Ownership)'
  BY NextTypes, NextOwnership
<1>3. TypeOK /\ Ownership => NoZombies
  BY OwnershipSuffices
<1> QED BY <1>1, <1>2, <1>3, PTL DEF Spec

-----------------------------------------------------------------------------
(* Where a connection is, when clients release their loans once            *)

Checkers(c) == { r \in Req : <<r, c>> \in validating }
Clients(c) == { r \in Req : Holding(r) /\ loan[r] = c }
Idles(c) == c \in Range(available)
Back(c) == queued[c] + recycling[c]

\* The array holds a connection once
Once(s) == \A i, j \in DOMAIN s : s[i] = s[j] => i = j

Nowhere(c) ==
    ~Idles(c) /\ c \notin creating /\ Checkers(c) = {} /\ Clients(c) = {} /\ Back(c) = 0

\* OnePlaceAtMost, of connections the pool owns or not, and said without counting
Single(c) ==
    /\ Back(c) <= 1
    /\ \A q, r \in Checkers(c) : q = r
    /\ \A q, r \in Clients(c) : q = r
    /\ Idles(c) => c \notin creating /\ Checkers(c) = {} /\ Clients(c) = {} /\ Back(c) = 0
    /\ c \in creating => Checkers(c) = {} /\ Clients(c) = {} /\ Back(c) = 0
    /\ Checkers(c) # {} => Clients(c) = {} /\ Back(c) = 0
    /\ Clients(c) # {} => Back(c) = 0

\* A timer that fires evicts a connection that is not idle: what is in place depends
\* on the timers, and these on what is in place.
Placement ==
    /\ TypeOK /\ Ownership
    /\ Once(available) /\ \A c \in Conn : Single(c)
    /\ TimersFollowLoans
    /\ \A r \in Req : request[r] = "pending" => loan[r] = NoConn

LEMMA OnceProperties ==
    ASSUME NEW S, NEW s \in Seq(S), Once(s)
    PROVE  /\ s # <<>> => /\ Once(Tail(s)) /\ Head(s) \notin Range(Tail(s))
                         /\ Range(s) = Range(Tail(s)) \cup {Head(s)}
           /\ \A e \in S : e \notin Range(s) => Once(Append(s, e))
           /\ \A k \in 0..Len(s) : Once(SubSeq(s, 1, k))
<1>1. Len(s) \in Nat /\ DOMAIN s = 1..Len(s)
  BY LenProperties
<1>2. ASSUME s # <<>>
      PROVE  /\ Once(Tail(s)) /\ Head(s) \notin Range(Tail(s))
             /\ Range(s) = Range(Tail(s)) \cup {Head(s)}
  <2>1. Len(s) >= 1 /\ Head(s) = s[1]
    BY <1>1, <1>2, EmptySeq, HeadTailProperties
  <2>2. /\ Len(Tail(s)) = Len(s) - 1 /\ DOMAIN Tail(s) = 1..(Len(s) - 1)
        /\ \A i \in 1..(Len(s) - 1) : Tail(s)[i] = s[i + 1]
    BY <1>2, HeadTailProperties, LenProperties
  <2>3. \A i \in 1..(Len(s) - 1) : i + 1 \in DOMAIN s /\ i + 1 # 1
    BY <1>1
  <2>4. Once(Tail(s))
    BY <1>1, <2>2, <2>3 DEF Once
  <2>5. Head(s) \notin Range(Tail(s))
    BY <1>1, <2>1, <2>2, <2>3 DEF Once, Range
  <2>6. ASSUME NEW i \in DOMAIN s PROVE s[i] \in Range(Tail(s)) \cup {Head(s)}
    <3>1. i = 1 \/ (i - 1 \in 1..(Len(s) - 1) /\ Tail(s)[i - 1] = s[i])
      BY <1>1, <2>2
    <3> QED BY <2>1, <2>2, <3>1 DEF Range
  <2>7. Range(s) \subseteq Range(Tail(s)) \cup {Head(s)}
    BY <2>6 DEF Range
  <2> QED BY <1>2, <2>4, <2>5, <2>7, Ends
<1>3. ASSUME NEW e \in S, e \notin Range(s) PROVE Once(Append(s, e))
  <2>1. /\ Len(Append(s, e)) = Len(s) + 1 /\ DOMAIN Append(s, e) = 1..(Len(s) + 1)
        /\ \A i \in 1..Len(s) : Append(s, e)[i] = s[i]
        /\ Append(s, e)[Len(s) + 1] = e
    BY AppendProperties, LenProperties
  <2>2. \A i \in 1..(Len(s) + 1) : i \in 1..Len(s) \/ i = Len(s) + 1
    BY <1>1
  <2>3. \A i \in 1..Len(s) : s[i] # e
    BY <1>1, <1>3 DEF Range
  <2> QED BY <1>1, <2>1, <2>2, <2>3 DEF Once
<1>4. ASSUME NEW k \in 0..Len(s) PROVE Once(SubSeq(s, 1, k))
  <2>1. /\ DOMAIN SubSeq(s, 1, k) = 1..k /\ \A i \in 1..k : SubSeq(s, 1, k)[i] = s[i] /\ i \in DOMAIN s
    BY <1>1, SubSeqProperties, LenProperties
  <2> QED BY <2>1 DEF Once
<1> QED BY <1>2, <1>3, <1>4

\* splice(indexOf(c)) of an array that does not have c leaves it alone
LEMMA BeforeOnce ==
    ASSUME NEW S, NEW s \in Seq(S), NEW c
    PROVE  /\ Once(s) => Once(Before(s, c))
           /\ c \notin Range(s) => Before(s, c) = s
<1> DEFINE keep == { i \in DOMAIN s : \A j \in 1..i : s[j] # c }
           k == Cardinality(keep)
<1>1. Len(s) \in Nat /\ DOMAIN s = 1..Len(s) /\ keep \subseteq 1..Len(s)
  BY LenProperties
<1>2. IsFiniteSet(1..Len(s)) /\ Cardinality(1..Len(s)) = Len(s)
  BY <1>1, FS_Interval
<1>3. k \in 0..Len(s)
  BY <1>1, <1>2, FS_Subset, FS_CardinalityType
<1>4. Before(s, c) = SubSeq(s, 1, k)
  BY DEF Before
<1>5. Once(s) => Once(Before(s, c))
  <2> HIDE DEF k
  <2> QED BY <1>3, <1>4, OnceProperties
<1>6. ASSUME c \notin Range(s) PROVE Before(s, c) = s
  <2>1. \A i \in DOMAIN s : s[i] # c
    BY <1>6 DEF Range
  <2>2. keep = 1..Len(s)
    BY <1>1, <2>1
  <2>3. k = Len(s)
    BY <1>2, <2>2
  <2> HIDE DEF k
  <2>4. SubSeq(s, 1, Len(s)) = s
    <3>1. /\ SubSeq(s, 1, Len(s)) \in Seq(S) /\ Len(SubSeq(s, 1, Len(s))) = Len(s)
          /\ \A i \in 1..Len(s) : SubSeq(s, 1, Len(s))[i] = s[i]
      BY <1>1, SubSeqProperties
    <3> QED BY <3>1, SeqEqual
  <2> QED BY <1>4, <2>3, <2>4
<1> QED BY <1>5, <1>6

\* What a step does to the places of a connection.  It keeps them; or it takes the
\* connection from where it was, which the pool then does not own, unless it was
\* behind an idle one that was destroyed; or it leaves it in one place.
Same(d) ==
    /\ Idles(d)' <=> Idles(d)
    /\ d \in creating' <=> d \in creating
    /\ Checkers(d)' = Checkers(d) /\ Clients(d)' = Clients(d) /\ Back(d)' = Back(d)

Fewer(d) ==
    /\ Idles(d)' => Idles(d)
    /\ d \in creating' => d \in creating
    /\ Checkers(d)' \subseteq Checkers(d) /\ Clients(d)' \subseteq Clients(d)
    /\ Back(d)' <= Back(d)

Placed(d) ==
    \/ Same(d) /\ (d \in connections' => d \in connections)
    \/ Fewer(d) /\ (d \in connections' => "destroyIdle" \in Events)
    \/ Single(d)' /\ ~Nowhere(d)'

LEMMA EvictPlaces ==
    ASSUME TypeOK, NEW c \in Conn, NEW idle \in Seq(Conn), Once(idle), Evict(c, idle)
    PROVE  /\ Once(available') /\ Range(available') \subseteq Range(idle)
           /\ connections' = connections \ {c}
           /\ c \notin Range(idle) => available' = idle
<1>1. available' = idle \/ available' = Before(idle, c)
  BY DEF Evict
<1> QED BY <1>1, BeforeOnce, EvictEffect

LEMMA PlacesKept ==
    ASSUME TypeOK, UNCHANGED <<creating, validating, queued, recycling, loan, calls>>,
           NEW d \in Conn, Idles(d)' <=> Idles(d)
    PROVE  Same(d)
BY DEF Same, Checkers, Clients, Back, Holding

\* Handlers that leave every connection where it is
LEMMA StillPlaced ==
    ASSUME Placement, UNCHANGED <<available, creating, validating, queued, recycling, loan, calls>>,
           connections' \subseteq connections
    PROVE  Once(available') /\ \A d \in Conn : Placed(d)
<1>1. Once(available')
  BY DEF Placement, Once
<1>2. ASSUME NEW d \in Conn PROVE Placed(d)
  <2>1. Same(d)
    BY PlacesKept DEF Idles, Placement
  <2> QED BY <2>1 DEF Placed
<1> QED BY <1>1, <1>2

\* Handlers that evict a connection they hold, or that a timer watches
LEMMA EvictedPlaced ==
    ASSUME Placement, NEW c \in Conn, ~Idles(c), Evict(c, available), UNCHANGED <<loan, calls>>,
           Fewer(c), \A d \in Conn : d # c =>
               /\ d \in creating' <=> d \in creating
               /\ Checkers(d)' = Checkers(d) /\ Back(d)' = Back(d)
    PROVE  Once(available') /\ \A d \in Conn : Placed(d)
<1>1. /\ Once(available') /\ available' = available /\ connections' = connections \ {c}
  BY EvictPlaces DEF Placement, TypeOK, Idles
<1>2. ASSUME NEW d \in Conn, d # c PROVE Placed(d)
  <2>1. Clients(d)' = Clients(d) /\ Idles(d)' = Idles(d)
    BY <1>1 DEF Clients, Holding, Idles
  <2>2. Same(d)
    BY <1>2, <2>1 DEF Same
  <2> QED BY <1>1, <2>2 DEF Placed
<1>3. Placed(c)
  BY <1>1 DEF Placed
<1> QED BY <1>1, <1>2, <1>3

LEMMA NextPlaces ==
    ASSUME Placement, Releases = 1, [Next]_vars
    PROVE  Once(available') /\ \A d \in Conn : Placed(d)
<1> USE DEF lifecycleVars, timerVars, ownedVars, poolVars, requestVars,
            createVars, borrowVars, releaseVars, clientVars, taskVars
<1>0. /\ available \in Seq(Conn) /\ Range(available) \subseteq connections
      /\ queued \in [Conn -> Nat] /\ recycling \in [Conn -> Nat]
      /\ loan \in [Req -> Conn \cup {NoConn}]
      /\ NoConn \notin Conn /\ connections \subseteq Conn
      /\ TypeOK /\ Ownership /\ Once(available) /\ \A c \in Conn : Single(c)
  BY ConnAssumption DEF TypeOK, Ownership, Placement
\* release() is called once: a client has a loan or has forgotten it
<1>a. \A r \in Req : /\ Holding(r) <=> loan[r] # NoConn
                     /\ Holding(r)' <=> loan'[r] # NoConn
  <2>1. TypeOK /\ TypeOK'
    BY <1>0, NextTypes
  <2>2. \A r \in Req : calls[r] = 0 /\ calls'[r] = 0
    BY <2>1 DEF TypeOK
  <2> QED BY <2>2 DEF Holding
<1>b. \A d \in Conn : \A r : /\ r \in Clients(d) <=> r \in Req /\ loan[r] = d
                             /\ r \in Clients(d)' <=> r \in Req /\ loan'[r] = d
  BY <1>0, <1>a DEF Clients
<1>c. \A c \in Conn : Unreachable(c) => Nowhere(c) /\ c \notin connections
  <2> SUFFICES ASSUME NEW c \in Conn, Unreachable(c) PROVE Nowhere(c) /\ c \notin connections
    OBVIOUS
  <2>1. /\ c \notin connections /\ c \notin creating /\ c \notin Range(available)
        /\ \A r \in Req : loan[r] # c /\ <<r, c>> \notin validating
        /\ queued[c] = 0 /\ recycling[c] = 0
    BY DEF Unreachable
  <2>2. Clients(c) = {}
    BY <1>b, <2>1
  <2>3. Checkers(c) = {} /\ Back(c) = 0
    BY <2>1 DEF Checkers, Back
  <2> QED BY <2>1, <2>2, <2>3 DEF Nowhere, Idles
<1>1. CASE \/ StartConnectFails \/ StartConnects \/ StartValidationFails
           \/ CreateLoopEnds \/ CreateFails \/ RetryTimer \/ BorrowLoopEnds \/ NoneAvailable
           \/ (\E c \in Conn : Start(c)) \/ (\E r \in Req : AcquireTimeout(r) \/ ClientQueryFails(r))
           \/ UNCHANGED vars
  <2>1. /\ UNCHANGED <<available, creating, validating, queued, recycling, loan, calls>>
        /\ connections' = connections
    BY <1>1 DEF StartConnectFails, StartConnects, StartValidationFails, StartFailed, CreateLoopEnds,
       CreateFails, RetryTimer, BorrowLoopEnds, NoneAvailable, Start, AcquireTimeout,
       ClientQueryFails, vars
  <2> QED BY <2>1, StillPlaced
<1>2. ASSUME NEW r \in Req, Acquire(r) PROVE Once(available') /\ \A d \in Conn : Placed(d)
  <2>1. loan[r] = NoConn
    BY <1>2, <1>a DEF Acquire, RequestUnreachable
  <2>2. loan' = loan
    BY <1>0, <1>2, <2>1 DEF Acquire
  <2>3. /\ UNCHANGED <<available, creating, validating, queued, recycling>>
        /\ connections' = connections
    BY <1>2 DEF Acquire
  <2>4. \A d \in Conn : Same(d)
    BY <1>b, <2>2, <2>3 DEF Same, Idles, Checkers, Back
  <2> QED BY <1>0, <2>3, <2>4 DEF Placed
<1>3. CASE StartSucceeds
  <2>1. /\ initial \in Conn /\ ~Referenced(initial) /\ connections = {}
        /\ UNCHANGED <<creating, validating, queued, recycling, loan, calls>>
    BY <1>3, <1>0 DEF StartSucceeds, TypeOK, Ownership, Started
  <2>2. CASE MaxIdle > 0
    <3>1. available' = Append(available, initial) /\ connections' = connections \cup {initial}
      BY <1>3, <2>2 DEF StartSucceeds, PutBack
    <3>2. initial \notin Range(available)
      BY <1>0, <2>1
    <3>3. Once(available') /\ Range(available') = Range(available) \cup {initial}
      BY <1>0, <2>1, <3>1, <3>2, Ends, OnceProperties
    <3>4. ASSUME NEW d \in Conn, d = initial PROVE Placed(d)
      <4>1. /\ d \notin creating /\ ~(queued[d] > 0) /\ ~(recycling[d] > 0)
            /\ \A r \in Req : loan[r] # d /\ <<r, d>> \notin validating
        BY <2>1, <3>4 DEF Referenced
      <4>2. Clients(d)' = {}
        BY <1>b, <2>1, <4>1
      <4>3. Checkers(d)' = {} /\ d \notin creating'
        BY <2>1, <4>1 DEF Checkers
      <4>4. Back(d)' = 0
        BY <1>0, <2>1, <4>1 DEF Back
      <4>5. Idles(d)'
        BY <3>3, <3>4 DEF Idles
      <4> QED BY <4>2, <4>3, <4>4, <4>5 DEF Placed, Single, Nowhere
    <3>5. ASSUME NEW d \in Conn, d # initial PROVE Placed(d)
      <4>1. Same(d)
        BY <1>0, <2>1, <3>3, <3>5, PlacesKept DEF Idles
      <4> QED BY <3>1, <3>5, <4>1 DEF Placed
    <3> QED BY <3>3, <3>4, <3>5
  <2>3. CASE ~(MaxIdle > 0)
    BY <1>3, <2>1, <2>3, StillPlaced DEF StartSucceeds
  <2> QED BY <2>2, <2>3
<1>4. CASE Stop
  <2>1. /\ available' = <<>> /\ connections' = {}
        /\ UNCHANGED <<creating, validating, queued, recycling, loan, calls>>
    BY <1>4 DEF Stop
  <2>2. Once(available') /\ Range(available') = {}
    BY <2>1 DEF Once, Range
  <2>3. \A d \in Conn : Fewer(d)
    BY <1>0, <2>1, <2>2 DEF Fewer, Idles, Checkers, Clients, Holding, Back
  <2> QED BY <2>1, <2>2, <2>3 DEF Placed
<1>5. ASSUME NEW c \in Conn, CreateConnection(c) PROVE Once(available') /\ \A d \in Conn : Placed(d)
  <2>1. /\ creating' = creating \cup {c} /\ connections' = connections \cup {c} /\ Nowhere(c)
        /\ UNCHANGED <<available, validating, queued, recycling, loan, calls>>
    BY <1>5, <1>c DEF CreateConnection, Create
  <2>2. Placed(c)
    BY <2>1 DEF Placed, Single, Nowhere, Idles, Checkers, Clients, Holding, Back
  <2>3. ASSUME NEW d \in Conn, d # c PROVE Placed(d)
    BY <2>1, <2>3 DEF Placed, Same, Idles, Checkers, Clients, Holding, Back
  <2> QED BY <1>0, <2>1, <2>2, <2>3
<1>6. ASSUME NEW c \in Conn, ConnectSucceeds(c) PROVE Once(available') /\ \A d \in Conn : Placed(d)
  <2>1. /\ creating' = creating \ {c} /\ available' = Append(available, c) /\ c \in creating
        /\ UNCHANGED <<connections, validating, queued, recycling, loan, calls>>
    BY <1>6 DEF ConnectSucceeds, PutBack
  <2>2. Once(available') /\ Range(available') = Range(available) \cup {c}
    BY <1>0, <2>1, Ends, OnceProperties DEF Single, Idles
  <2>3. Placed(c)
    <3>1. Checkers(c)' = {} /\ Clients(c)' = {} /\ Back(c)' = 0
      BY <1>0, <2>1 DEF Single, Checkers, Clients, Holding, Back
    <3> QED BY <2>1, <2>2, <3>1 DEF Placed, Single, Nowhere, Idles
  <2>4. ASSUME NEW d \in Conn, d # c PROVE Placed(d)
    BY <2>1, <2>2, <2>4 DEF Placed, Same, Idles, Checkers, Clients, Holding, Back
  <2> QED BY <2>2, <2>3, <2>4
<1>7. ASSUME NEW c \in Conn, ConnectFails(c) PROVE Once(available') /\ \A d \in Conn : Placed(d)
  <2>1. /\ creating' = creating \ {c} /\ Evict(c, available) /\ ~Idles(c)
        /\ UNCHANGED <<validating, queued, recycling, loan, calls>>
    BY <1>0, <1>7 DEF ConnectFails, Single
  <2>2. available' = available
    BY <1>0, <2>1, EvictPlaces DEF Idles
  <2>3. Fewer(c) /\ \A d \in Conn : d # c =>
               /\ d \in creating' <=> d \in creating
               /\ Checkers(d)' = Checkers(d) /\ Back(d)' = Back(d)
    BY <1>0, <2>1, <2>2 DEF Fewer, Idles, Checkers, Clients, Holding, Back
  <2> QED BY <2>1, <2>3, EvictedPlaced
<1>8. ASSUME NEW c \in Conn, BorrowTimeout(c) PROVE Once(available') /\ \A d \in Conn : Placed(d)
  <2>1. /\ Evict(c, available)
        /\ UNCHANGED <<creating, validating, queued, recycling, loan, calls>>
    BY <1>8 DEF BorrowTimeout
  <2>2. c \in OnLoan \/ queued[c] > 0
    <3>1. c \in borrowTimer \/ strayTimer[c] > 0
      BY <1>8 DEF BorrowTimeout
    <3> QED BY <3>1 DEF Placement, TimersFollowLoans
  <2>3. ~Idles(c)
    <3>1. c \in OnLoan => Clients(c) # {}
      BY DEF OnLoan, Clients
    <3>2. queued[c] > 0 => Back(c) # 0
      BY <1>0 DEF Back
    <3> QED BY <1>0, <2>2, <3>1, <3>2 DEF Single
  <2>4. available' = available
    BY <1>0, <2>1, <2>3, EvictPlaces DEF Idles
  <2>5. Fewer(c) /\ \A d \in Conn : d # c =>
               /\ d \in creating' <=> d \in creating
               /\ Checkers(d)' = Checkers(d) /\ Back(d)' = Back(d)
    BY <1>0, <2>1, <2>4 DEF Fewer, Idles, Checkers, Clients, Holding, Back
  <2> QED BY <2>1, <2>3, <2>5, EvictedPlaced
<1>9. ASSUME NEW c \in Conn, RecycleFails(c) PROVE Once(available') /\ \A d \in Conn : Placed(d)
  <2>1. /\ Evict(c, available) /\ recycling[c] > 0
        /\ recycling' = [recycling EXCEPT ![c] = @ - 1]
        /\ UNCHANGED <<creating, validating, queued, loan, calls>>
    BY <1>9 DEF RecycleFails
  <2>2. ~Idles(c) /\ Back(c)' <= Back(c) /\ \A d \in Conn : d # c => Back(d)' = Back(d)
    BY <1>0, <2>1 DEF Single, Back
  <2>3. available' = available
    BY <1>0, <2>1, <2>2, EvictPlaces DEF Idles
  <2>4. Fewer(c) /\ \A d \in Conn : d # c =>
               /\ d \in creating' <=> d \in creating
               /\ Checkers(d)' = Checkers(d) /\ Back(d)' = Back(d)
    BY <2>1, <2>2, <2>3 DEF Fewer, Idles, Checkers, Clients, Holding
  <2> QED BY <2>1, <2>2, <2>4, EvictedPlaced
<1>10. ASSUME NEW c \in Conn, Destroy(c) PROVE Once(available') /\ \A d \in Conn : Placed(d)
  <2>1. /\ Evict(c, available) /\ UNCHANGED <<creating, validating, queued, recycling, loan, calls>>
    BY <1>10 DEF Destroy
  <2>2. CASE c \in OnLoan
    <3>1. ~Idles(c)
      BY <1>0, <2>2 DEF OnLoan, Clients, Single
    <3>2. available' = available
      BY <1>0, <2>1, <3>1, EvictPlaces DEF Idles
    <3>3. Fewer(c) /\ \A d \in Conn : d # c =>
                 /\ d \in creating' <=> d \in creating
                 /\ Checkers(d)' = Checkers(d) /\ Back(d)' = Back(d)
      BY <1>0, <2>1, <3>2 DEF Fewer, Idles, Checkers, Clients, Holding, Back
    <3> QED BY <2>1, <3>1, <3>3, EvictedPlaced
  <2>3. CASE "destroyIdle" \in Events
    <3>1. Once(available') /\ Range(available') \subseteq Range(available)
      BY <1>0, <2>1, EvictPlaces
    <3>2. \A d \in Conn : Fewer(d)
      BY <1>0, <2>1, <3>1 DEF Fewer, Idles, Checkers, Clients, Holding, Back
    <3> QED BY <2>3, <3>1, <3>2 DEF Placed
  <2> QED BY <1>10, <2>2, <2>3 DEF Destroy
<1>11. ASSUME NEW r \in Req, NEW c \in Conn, ValidationFailed(r, c)
       PROVE  Once(available') /\ \A d \in Conn : Placed(d)
  <2>1. /\ Evict(c, available) /\ <<r, c>> \in validating
        /\ validating' = validating \ {<<r, c>>}
        /\ UNCHANGED <<creating, queued, recycling, loan, calls>>
    BY <1>11 DEF ValidationFailed, Validated
  <2>2. /\ Checkers(c)' \subseteq Checkers(c) /\ r \in Checkers(c)
        /\ \A d \in Conn : d # c => Checkers(d)' = Checkers(d)
    BY <2>1 DEF Checkers
  <2>3. ~Idles(c)
    BY <1>0, <2>2 DEF Single
  <2>4. available' = available
    BY <1>0, <2>1, <2>3, EvictPlaces DEF Idles
  <2>5. Fewer(c) /\ \A d \in Conn : d # c =>
               /\ d \in creating' <=> d \in creating
               /\ Checkers(d)' = Checkers(d) /\ Back(d)' = Back(d)
    BY <1>0, <2>1, <2>2, <2>4 DEF Fewer, Idles, Clients, Holding, Back
  <2> QED BY <2>1, <2>3, <2>5, EvictedPlaced
<1>12. ASSUME NEW c \in Conn, ReleaseHandler(c) PROVE Once(available') /\ \A d \in Conn : Placed(d)
  <2>1. /\ queued[c] > 0 /\ queued' = [queued EXCEPT ![c] = @ - 1]
        /\ UNCHANGED <<creating, validating, loan, calls>>
    BY <1>12 DEF ReleaseHandler
  <2>2. ~Idles(c)
    BY <1>0, <2>1 DEF Single, Back
  <2>3. CASE ~Connected(c) \/ Len(available) >= MaxIdle
    <3>1. Evict(c, available) /\ UNCHANGED recycling
      BY <1>12, <2>3 DEF ReleaseHandler
    <3>2. available' = available
      BY <1>0, <2>2, <3>1, EvictPlaces DEF Idles
    <3>3. Back(c)' <= Back(c) /\ \A d \in Conn : d # c => Back(d)' = Back(d)
      BY <1>0, <2>1, <3>1 DEF Back
    <3>4. Fewer(c) /\ \A d \in Conn : d # c =>
                 /\ d \in creating' <=> d \in creating
                 /\ Checkers(d)' = Checkers(d) /\ Back(d)' = Back(d)
      BY <2>1, <3>2, <3>3 DEF Fewer, Idles, Checkers, Clients, Holding
    <3> QED BY <2>1, <2>2, <3>1, <3>4, EvictedPlaced
  <2>4. CASE ~(~Connected(c) \/ Len(available) >= MaxIdle)
    <3>1. recycling' = [recycling EXCEPT ![c] = @ + 1] /\ UNCHANGED <<available, connections>>
      BY <1>12, <2>4 DEF ReleaseHandler
    <3>2. \A d \in Conn : Back(d)' = Back(d)
      BY <1>0, <2>1, <3>1 DEF Back
    <3>3. \A d \in Conn : Same(d)
      BY <2>1, <3>1, <3>2 DEF Same, Idles, Checkers, Clients, Holding
    <3> QED BY <1>0, <3>1, <3>3 DEF Placed
  <2> QED BY <2>3, <2>4
<1>13. CASE SkipExpired
  <2>1. available # <<>> /\ UNCHANGED <<creating, validating, queued, recycling, loan, calls>>
    BY <1>13 DEF SkipExpired
  <2>2. PICK c \in Conn : c = Head(available)
    BY <1>0, <2>1, Ends
  <2>3. /\ Tail(available) \in Seq(Conn) /\ Once(Tail(available)) /\ c \notin Range(Tail(available))
        /\ Range(available) = Range(Tail(available)) \cup {c}
    BY <1>0, <2>1, <2>2, Ends, OnceProperties
  <2>4. CASE Len(Tail(available)) >= MaxIdle
    <3>1. Evict(c, Tail(available))
      BY <1>13, <2>2, <2>4 DEF SkipExpired
    <3>2. available' = Tail(available) /\ Once(available') /\ connections' = connections \ {c}
      BY <1>0, <2>3, <3>1, EvictPlaces
    <3>3. Placed(c)
      BY <1>0, <2>1, <2>3, <3>2 DEF Placed, Fewer, Idles, Checkers, Clients, Holding, Back
    <3>4. ASSUME NEW d \in Conn, d # c PROVE Placed(d)
      <4>1. Same(d)
        BY <1>0, <2>1, <2>3, <3>2, <3>4, PlacesKept DEF Idles
      <4> QED BY <3>2, <4>1 DEF Placed
    <3> QED BY <3>2, <3>3, <3>4
  <2>5. CASE ~(Len(Tail(available)) >= MaxIdle)
    <3>1. available' = Append(Tail(available), c) /\ connections' = connections
      BY <1>13, <2>2, <2>5 DEF SkipExpired, PutBack
    <3>2. Once(available') /\ Range(available') = Range(available)
      <4>1. Range(Append(Tail(available), c)) = Range(Tail(available)) \cup {c}
        BY <2>3, Ends
      <4> QED BY <2>3, <3>1, <4>1, OnceProperties
    <3>3. \A d \in Conn : Same(d)
      BY <1>0, <2>1, <3>2, PlacesKept DEF Idles
    <3> QED BY <3>1, <3>2, <3>3 DEF Placed
  <2> QED BY <2>4, <2>5
<1>14. CASE Validate
  <2>1. available # <<>> /\ UNCHANGED <<connections, creating, queued, recycling, loan, calls>>
    BY <1>14 DEF Validate
  <2>2. PICK c \in Conn : c = Head(available)
    BY <1>0, <2>1, Ends
  <2>3. /\ Once(Tail(available)) /\ c \notin Range(Tail(available))
        /\ Range(available) = Range(Tail(available)) \cup {c}
    BY <1>0, <2>1, <2>2, OnceProperties
  <2>4. PICK r \in Req : r = Head(pending)
    BY <1>0, <1>14, Ends DEF Validate, TypeOK
  <2>5. validating' = validating \cup {<<r, c>>} /\ available' = Tail(available)
    BY <1>14, <2>2, <2>4 DEF Validate, TakeAvailable
  <2>6. Placed(c)
    <3>1. Idles(c)
      BY <2>3 DEF Idles
    <3>2. /\ Checkers(c)' = {r} /\ ~Idles(c)' /\ Clients(c)' = {} /\ Back(c)' = 0
          /\ c \notin creating'
      BY <1>0, <2>1, <2>3, <2>5, <3>1 DEF Single, Idles, Checkers, Clients, Holding, Back
    <3> QED BY <3>2 DEF Placed, Single, Nowhere
  <2>7. ASSUME NEW d \in Conn, d # c PROVE Placed(d)
    <3>1. Idles(d)' <=> Idles(d)
      BY <2>3, <2>5, <2>7 DEF Idles
    <3>2. Checkers(d)' = Checkers(d)
      BY <2>5, <2>7 DEF Checkers
    <3> QED BY <2>1, <3>1, <3>2 DEF Placed, Same, Clients, Holding, Back
  <2> QED BY <2>3, <2>5, <2>6, <2>7
<1>15. ASSUME NEW r \in Req, NEW c \in Conn, Lend(r, c)
       PROVE  Once(available') /\ \A d \in Conn : Placed(d)
  <2>1. /\ <<r, c>> \in validating /\ validating' = validating \ {<<r, c>>}
        /\ loan' = [loan EXCEPT ![r] = c]
        /\ UNCHANGED <<connections, available, creating, queued, recycling, calls>>
    BY <1>15 DEF Lend, Validated
  <2>2. r \in Checkers(c) /\ Checkers(c)' = Checkers(c) \ {r}
    BY <2>1 DEF Checkers
  <2>3. Placed(c)
    <3>1. /\ Checkers(c)' = {} /\ ~Idles(c)' /\ Back(c)' = 0 /\ c \notin creating' /\ Clients(c) = {}
      BY <1>0, <2>1, <2>2 DEF Single, Idles, Back
    <3>2. Clients(c)' = {r}
      BY <1>0, <1>b, <2>1, <3>1
    <3> QED BY <3>1, <3>2 DEF Placed, Single, Nowhere
  <2>4. ASSUME NEW d \in Conn, d # c PROVE Placed(d)
    <3>1. Checkers(d)' = Checkers(d)
      BY <2>1, <2>4 DEF Checkers
    <3>2. Clients(d)' = Clients(d)
      <4>1. loan[r] = NoConn
        BY <1>15 DEF Lend, Placement
      <4>2. \A q : q \in Clients(d)' <=> q \in Clients(d)
        <5>1. \A q \in Req : loan'[q] = d <=> loan[q] = d
          BY <1>0, <2>1, <2>4, <4>1
        <5> QED BY <1>b, <5>1
      <4> QED BY <4>2
    <3> QED BY <2>1, <3>1, <3>2 DEF Placed, Same, Idles, Back
  <2> QED BY <1>0, <2>1, <2>3, <2>4
<1>16. ASSUME NEW r \in Req, NEW c \in Conn, ValidatedTooLate(r, c)
       PROVE  Once(available') /\ \A d \in Conn : Placed(d)
  <2>1. /\ <<r, c>> \in validating /\ validating' = validating \ {<<r, c>>} /\ link[c] = "up"
        /\ UNCHANGED <<connections, available, creating, recycling, loan, calls>>
    BY <1>16 DEF ValidatedTooLate, Validated, Connected
  <2>2. queued' = [queued EXCEPT ![c] = @ + 1]
    <3>1. c \notin evicted
      BY <1>0, <2>1 DEF Ownership
    <3> QED BY <1>16, <3>1 DEF ValidatedTooLate, QueueRelease
  <2>3. r \in Checkers(c) /\ Checkers(c)' = Checkers(c) \ {r}
    BY <2>1 DEF Checkers
  <2>4. Placed(c)
    <3>1. Back(c) = 0 /\ Back(c)' = Back(c) + 1
      BY <1>0, <2>1, <2>2, <2>3 DEF Single, Back
    <3>2. Checkers(c)' = {} /\ ~Idles(c)' /\ c \notin creating' /\ Clients(c)' = {}
      BY <1>0, <2>1, <2>3 DEF Single, Idles, Clients, Holding
    <3> QED BY <3>1, <3>2 DEF Placed, Single, Nowhere
  <2>5. ASSUME NEW d \in Conn, d # c PROVE Placed(d)
    <3>1. Checkers(d)' = Checkers(d) /\ Back(d)' = Back(d)
      BY <1>0, <2>1, <2>2, <2>5 DEF Checkers, Back
    <3> QED BY <2>1, <3>1 DEF Placed, Same, Idles, Clients, Holding
  <2> QED BY <1>0, <2>1, <2>4, <2>5
<1>17. ASSUME NEW r \in Req, NEW c \in Conn, NEW ok \in BOOLEAN, ValidatedStopped(r, c, ok)
       PROVE  Once(available') /\ \A d \in Conn : Placed(d)
  <2>1. /\ validating' = validating \ {<<r, c>>} /\ ~Started
        /\ UNCHANGED <<connections, available, creating, queued, recycling, loan, calls>>
    BY <1>17 DEF ValidatedStopped, Validated
  <2>2. connections' = {}
    BY <1>0, <2>1 DEF Ownership
  <2>3. \A d \in Conn : Fewer(d)
    BY <1>0, <2>1 DEF Fewer, Idles, Checkers, Clients, Holding, Back
  <2> QED BY <1>0, <2>1, <2>2, <2>3 DEF Placed
<1>18. ASSUME NEW r \in Req, Release(r) PROVE Once(available') /\ \A d \in Conn : Placed(d)
  <2>1. PICK c \in Conn : c = loan[r]
    BY <1>0, <1>18 DEF Release
  <2>2. calls[r] = 0
    BY <1>0 DEF TypeOK
  <2>3. /\ loan' = [loan EXCEPT ![r] = NoConn] /\ QueueRelease(c)
        /\ UNCHANGED <<connections, available, creating, validating, recycling>>
    BY <1>18, <2>1, <2>2 DEF Release
  <2>4. /\ r \in Clients(c) /\ Clients(c)' = Clients(c) \ {r}
        /\ \A d \in Conn : d # c => Clients(d)' = Clients(d)
    <3>1. \A q \in Req : loan'[q] = IF q = r THEN NoConn ELSE loan[q]
      BY <1>0, <2>3
    <3>2. \A q : q \in Clients(c)' <=> q \in Clients(c) \ {r}
      BY <1>0, <1>b, <2>1, <3>1
    <3>3. ASSUME NEW d \in Conn, d # c PROVE \A q : q \in Clients(d)' <=> q \in Clients(d)
      <4>1. \A q \in Req : loan'[q] = d <=> loan[q] = d
        BY <1>0, <2>1, <3>1, <3>3
      <4> QED BY <1>b, <4>1
    <3>4. \A d \in Conn : d # c => Clients(d)' = Clients(d)
      BY <3>3
    <3>5. Clients(c)' = Clients(c) \ {r}
      BY <3>2
    <3> QED BY <1>b, <2>1, <3>4, <3>5
  <2>5. Clients(c)' = {} /\ Back(c) = 0 /\ Checkers(c) = {} /\ ~Idles(c) /\ c \notin creating
    BY <1>0, <2>4 DEF Single
  <2>6. CASE c \in evicted
    <3>1. queued' = queued /\ c \notin connections'
      BY <1>0, <2>3, <2>6 DEF QueueRelease, Ownership
    <3>2. Placed(c)
      BY <1>0, <2>3, <2>4, <3>1 DEF Placed, Fewer, Idles, Checkers, Back
    <3>3. \A d \in Conn : d # c => Placed(d)
      BY <2>3, <2>4, <3>1 DEF Placed, Same, Idles, Checkers, Back
    <3> QED BY <1>0, <2>3, <3>2, <3>3
  <2>7. CASE c \notin evicted
    <3>1. queued' = [queued EXCEPT ![c] = @ + 1]
      BY <2>3, <2>7 DEF QueueRelease
    <3>2. Back(c)' = 1 /\ \A d \in Conn : d # c => Back(d)' = Back(d)
      BY <1>0, <2>3, <2>5, <3>1 DEF Back
    <3>3. Checkers(c)' = {} /\ ~Idles(c)' /\ c \notin creating'
      BY <2>3, <2>5 DEF Checkers, Idles
    <3>4. Placed(c)
      BY <2>5, <3>2, <3>3 DEF Placed, Single, Nowhere
    <3>5. \A d \in Conn : d # c => Placed(d)
      BY <2>3, <2>4, <3>2 DEF Placed, Same, Idles, Checkers
    <3> QED BY <1>0, <2>3, <3>4, <3>5
  <2> QED BY <2>6, <2>7
<1>19. ASSUME NEW c \in Conn, Recycled(c) PROVE Once(available') /\ \A d \in Conn : Placed(d)
  <2>1. /\ recycling' = [recycling EXCEPT ![c] = @ - 1] /\ recycling[c] > 0
        /\ available' = Append(available, c)
        /\ UNCHANGED <<connections, creating, validating, queued, loan, calls>>
    BY <1>19 DEF Recycled, PutBack
  <2>2. Back(c) = 1 /\ Back(c)' = 0 /\ \A d \in Conn : d # c => Back(d)' = Back(d)
    BY <1>0, <2>1 DEF Single, Back
  <2>3. ~Idles(c) /\ c \notin creating /\ Checkers(c) = {} /\ Clients(c) = {}
    BY <1>0, <2>2 DEF Single
  <2>4. Once(available') /\ Range(available') = Range(available) \cup {c}
    BY <1>0, <2>1, <2>3, Ends, OnceProperties DEF Idles
  <2>5. Placed(c)
    <3>1. Idles(c)' /\ c \notin creating' /\ Checkers(c)' = {} /\ Clients(c)' = {}
      BY <2>1, <2>3, <2>4 DEF Idles, Checkers, Clients, Holding
    <3> QED BY <2>2, <3>1 DEF Placed, Single, Nowhere
  <2>6. ASSUME NEW d \in Conn, d # c PROVE Placed(d)
    <3>1. Idles(d)' <=> Idles(d)
      BY <2>4, <2>6 DEF Idles
    <3> QED BY <2>1, <2>2, <2>6, <3>1 DEF Placed, Same, Checkers, Clients, Holding
  <2> QED BY <2>4, <2>5, <2>6
<1> QED
  BY <1>1, <1>2, <1>3, <1>4, <1>5, <1>6, <1>7, <1>8, <1>9, <1>10, <1>11, <1>12, <1>13, <1>14,
     <1>15, <1>16, <1>17, <1>18, <1>19 DEF Next, LoopStep

\* Handlers that neither arm a timer nor lend, and evict what they disarm
LEMMA TimersKept ==
    ASSUME TypeOK, TimersFollowLoans, UNCHANGED <<queued, loan, calls>>,
           borrowTimer' \subseteq borrowTimer, \A d \in Conn : strayTimer'[d] \in {0, strayTimer[d]},
           \A d \in OnLoan : d \in connections' => d \in connections /\ (d \in borrowTimer => d \in borrowTimer')
    PROVE  TimersFollowLoans'
<1>1. OnLoan' = OnLoan
  BY DEF OnLoan, Holding
<1>2. \A c \in borrowTimer' : c \in OnLoan' \/ queued'[c] > 0
  BY <1>1 DEF TimersFollowLoans
<1>3. \A c \in Conn : strayTimer'[c] = 0
  BY DEF TimersFollowLoans
<1>4. OnLoan' \cap connections' \subseteq borrowTimer'
  BY <1>1 DEF TimersFollowLoans
<1> QED BY <1>2, <1>3, <1>4 DEF TimersFollowLoans

LEMMA EvictTimers ==
    ASSUME TypeOK, TimersFollowLoans, NEW c \in Conn, NEW idle \in Seq(Conn), Evict(c, idle),
           UNCHANGED <<queued, loan, calls>>
    PROVE  TimersFollowLoans'
<1>1. /\ connections' = connections \ {c}
      /\ borrowTimer' \subseteq borrowTimer /\ \A d \in borrowTimer : d # c => d \in borrowTimer'
      /\ \A d \in Conn : strayTimer'[d] \in {0, strayTimer[d]}
  <2>1. strayTimer \in [Conn -> Nat]
    BY DEF TypeOK
  <2> QED BY <2>1 DEF Evict, ownedVars, timerVars
<1> QED BY <1>1, TimersKept

LEMMA NextTimers ==
    ASSUME Placement, Releases = 1, [Next]_vars
    PROVE  TimersFollowLoans'
<1> USE DEF lifecycleVars, timerVars, ownedVars, poolVars, requestVars,
            createVars, borrowVars, releaseVars, clientVars, taskVars
<1>0. /\ available \in Seq(Conn)
      /\ queued \in [Conn -> Nat] /\ strayTimer \in [Conn -> Nat]
      /\ loan \in [Req -> Conn \cup {NoConn}] /\ borrowTimer \subseteq Conn
      /\ NoConn \notin Conn /\ connections \subseteq Conn
      /\ TypeOK /\ Ownership /\ TimersFollowLoans /\ \A c \in Conn : Single(c)
  BY ConnAssumption DEF TypeOK, Placement
<1>a. \A r \in Req : /\ Holding(r) <=> loan[r] # NoConn
                     /\ Holding(r)' <=> loan'[r] # NoConn
  <2>1. TypeOK /\ TypeOK'
    BY <1>0, NextTypes
  <2>2. \A r \in Req : calls[r] = 0 /\ calls'[r] = 0
    BY <2>1 DEF TypeOK
  <2> QED BY <2>2 DEF Holding
<1>b. \A d \in Conn : /\ d \in OnLoan <=> \E r \in Req : loan[r] = d
                      /\ d \in OnLoan' <=> \E r \in Req : loan'[r] = d
  BY <1>0, <1>a DEF OnLoan
<1>c. OnLoan \subseteq Conn /\ (loan' \in [Req -> Conn \cup {NoConn}] => OnLoan' \subseteq Conn)
  BY <1>0, <1>a DEF OnLoan
<1>d. \A c \in Conn : c \in OnLoan => Clients(c) # {}
  BY DEF OnLoan, Clients
<1>1. CASE \/ StartConnectFails \/ StartConnects \/ StartValidationFails
           \/ CreateLoopEnds \/ CreateFails \/ RetryTimer \/ BorrowLoopEnds \/ NoneAvailable
           \/ (\E c \in Conn : Start(c)) \/ (\E r \in Req : AcquireTimeout(r) \/ ClientQueryFails(r))
           \/ Validate \/ (\E c \in Conn : ConnectSucceeds(c) \/ Recycled(c))
           \/ (\E r \in Req, c \in Conn, ok \in BOOLEAN : ValidatedStopped(r, c, ok))
           \/ UNCHANGED vars
  <2>1. UNCHANGED <<connections, borrowTimer, strayTimer, queued, loan, calls>>
    BY <1>1 DEF StartConnectFails, StartConnects, StartValidationFails, StartFailed, CreateLoopEnds,
       CreateFails, RetryTimer, BorrowLoopEnds, NoneAvailable, Start, AcquireTimeout,
       ClientQueryFails, Validate, ConnectSucceeds, Recycled, ValidatedStopped, vars
  <2> QED BY <1>0, <2>1, TimersKept
<1>2. CASE StartSucceeds
  <2>1. /\ initial \in Conn /\ ~Referenced(initial) /\ connections' \subseteq connections \cup {initial}
        /\ UNCHANGED <<borrowTimer, strayTimer, queued, loan, calls>>
    BY <1>0, <1>2 DEF StartSucceeds, TypeOK, Ownership
  <2>2. initial \notin OnLoan
    BY <1>b, <2>1 DEF Referenced
  <2> QED BY <1>0, <2>1, <2>2, TimersKept
<1>3. ASSUME NEW c \in Conn, CreateConnection(c) PROVE TimersFollowLoans'
  <2>1. /\ Unreachable(c) /\ connections' = connections \cup {c}
        /\ UNCHANGED <<borrowTimer, strayTimer, queued, loan, calls>>
    BY <1>3 DEF CreateConnection, Create
  <2>2. c \notin OnLoan
    BY <1>b, <2>1 DEF Unreachable
  <2> QED BY <1>0, <2>1, <2>2, TimersKept
<1>4. CASE Stop
  <2>1. borrowTimer' = {} /\ connections' = {} /\ strayTimer' = [c \in Conn |-> 0] /\ UNCHANGED <<queued, loan, calls>>
    BY <1>4 DEF Stop
  <2> QED BY <2>1 DEF TimersFollowLoans
<1>5. ASSUME NEW c \in Conn, \/ ConnectFails(c) \/ BorrowTimeout(c) \/ RecycleFails(c) \/ Destroy(c)
                             \/ \E r \in Req : ValidationFailed(r, c)
      PROVE  TimersFollowLoans'
  <2>1. Evict(c, available) /\ UNCHANGED <<queued, loan, calls>>
    BY <1>5 DEF ConnectFails, BorrowTimeout, RecycleFails, Destroy, ValidationFailed
  <2> QED BY <1>0, <2>1, EvictTimers
<1>6. CASE SkipExpired
  <2>1. available # <<>> /\ UNCHANGED <<queued, loan, calls>>
    BY <1>6 DEF SkipExpired
  <2>2. Head(available) \in Conn /\ Tail(available) \in Seq(Conn)
    BY <1>0, <2>1, Ends
  <2>3. CASE Evict(Head(available), Tail(available))
    BY <1>0, <2>1, <2>2, <2>3, EvictTimers
  <2>4. CASE UNCHANGED <<connections, borrowTimer, strayTimer>>
    BY <1>0, <2>1, <2>4, TimersKept
  <2> QED BY <1>6, <2>3, <2>4 DEF SkipExpired
<1>7. ASSUME NEW c \in Conn, ReleaseHandler(c) PROVE TimersFollowLoans'
  <2>1. /\ queued[c] > 0 /\ queued' = [queued EXCEPT ![c] = @ - 1] /\ UNCHANGED <<loan, calls>>
        /\ Evict(c, available) \/ (/\ borrowTimer' = borrowTimer \ {c}
                                   /\ UNCHANGED <<connections, strayTimer>>)
    BY <1>7 DEF ReleaseHandler, DisarmTimer
  <2>2. OnLoan' = OnLoan
    BY <2>1 DEF OnLoan, Holding
  <2>3. c \notin OnLoan
    <3>1. Back(c) # 0
      BY <1>0, <2>1 DEF Back, TypeOK
    <3> QED BY <1>0, <1>d, <3>1 DEF Single
  <2>4. /\ borrowTimer' = borrowTimer \ {c} /\ connections' \subseteq connections
        /\ \A d \in Conn : strayTimer'[d] \in {0, strayTimer[d]}
    <3>1. CASE Evict(c, available)
      <4>1. c \notin connections => c \notin borrowTimer
        BY <1>0 DEF Ownership
      <4> QED BY <1>0, <3>1, <4>1 DEF Evict
    <3>2. CASE borrowTimer' = borrowTimer \ {c} /\ UNCHANGED <<connections, strayTimer>>
      BY <3>2
    <3> QED BY <2>1, <3>1, <3>2
  <2>5. \A d \in Conn : d # c => queued'[d] = queued[d]
    BY <1>0, <2>1
  <2>6. \A d \in borrowTimer' : d \in OnLoan' \/ queued'[d] > 0
    BY <1>0, <2>2, <2>4, <2>5 DEF TimersFollowLoans
  <2>7. \A d \in Conn : strayTimer'[d] = 0
    BY <1>0, <2>4 DEF TimersFollowLoans
  <2>8. OnLoan' \cap connections' \subseteq borrowTimer'
    BY <1>0, <2>2, <2>3, <2>4 DEF TimersFollowLoans
  <2> QED BY <2>6, <2>7, <2>8 DEF TimersFollowLoans
<1>8. ASSUME NEW r \in Req, NEW c \in Conn, Lend(r, c) PROVE TimersFollowLoans'
  <2>1. /\ <<r, c>> \in validating /\ borrowTimer' = borrowTimer \cup {c}
        /\ strayTimer' = [strayTimer EXCEPT ![c] = IF c \in borrowTimer THEN @ + 1 ELSE @]
        /\ loan' = [loan EXCEPT ![r] = c] /\ UNCHANGED <<queued, connections>>
    BY <1>8 DEF Lend, Validated
  <2>2. loan[r] = NoConn
    BY <1>8 DEF Lend, Placement
  <2>3. c \notin borrowTimer
    <3>1. r \in Checkers(c)
      BY <2>1 DEF Checkers
    <3>2. Clients(c) = {} /\ Back(c) = 0
      BY <1>0, <3>1 DEF Single
    <3>3. c \notin OnLoan /\ ~(queued[c] > 0)
      BY <1>0, <1>d, <3>2 DEF Back, TypeOK
    <3> QED BY <1>0, <3>3 DEF TimersFollowLoans
  <2>4. strayTimer' = strayTimer
    BY <1>0, <2>1, <2>3
  <2>5. \A d \in Conn : d \in OnLoan' <=> d \in OnLoan \/ d = c
    <3>1. \A q \in Req : loan'[q] = IF q = r THEN c ELSE loan[q]
      BY <1>0, <2>1
    <3> QED BY <1>0, <1>b, <2>2, <3>1
  <2>6. OnLoan' \subseteq Conn
    BY <1>0, <1>c, <2>1
  <2> QED BY <1>0, <2>1, <2>4, <2>5, <2>6 DEF TimersFollowLoans
<1>9. ASSUME NEW r \in Req, NEW c \in Conn, ValidatedTooLate(r, c) PROVE TimersFollowLoans'
  <2>1. QueueRelease(c) /\ UNCHANGED <<connections, borrowTimer, strayTimer, loan, calls>>
    BY <1>9 DEF ValidatedTooLate
  <2>2. \A d \in Conn : queued[d] > 0 => queued'[d] > 0
    BY <1>0, <2>1 DEF QueueRelease
  <2>3. OnLoan' = OnLoan
    BY <2>1 DEF OnLoan, Holding
  <2> QED BY <1>0, <2>1, <2>2, <2>3 DEF TimersFollowLoans
<1>10. ASSUME NEW r \in Req, Acquire(r) PROVE TimersFollowLoans'
  <2>1. loan[r] = NoConn
    BY <1>10, <1>a DEF Acquire, RequestUnreachable
  <2>2. loan' = loan /\ UNCHANGED <<connections, borrowTimer, strayTimer, queued>>
    BY <1>0, <1>10, <2>1 DEF Acquire
  <2>3. OnLoan' = OnLoan
    BY <1>a, <2>2 DEF OnLoan
  <2> QED BY <1>0, <2>2, <2>3 DEF TimersFollowLoans
<1>11. ASSUME NEW r \in Req, Release(r) PROVE TimersFollowLoans'
  <2>1. PICK c \in Conn : c = loan[r]
    BY <1>0, <1>11 DEF Release
  <2>2. calls[r] = 0
    BY <1>0 DEF TypeOK
  <2>3. /\ loan' = [loan EXCEPT ![r] = NoConn] /\ QueueRelease(c)
        /\ UNCHANGED <<connections, borrowTimer, strayTimer>>
    BY <1>11, <2>1, <2>2 DEF Release
  <2>4. \A d \in Conn : (d \in OnLoan' => d \in OnLoan) /\ (d \in OnLoan => d \in OnLoan' \/ d = c)
    <3>1. \A q \in Req : loan'[q] = IF q = r THEN NoConn ELSE loan[q]
      BY <1>0, <2>3
    <3> QED BY <1>0, <1>b, <2>1, <3>1
  <2>5. OnLoan' \subseteq Conn
    BY <1>0, <1>c, <2>3
  <2>6. c \in borrowTimer => queued'[c] > 0
    BY <1>0, <2>3 DEF QueueRelease, Ownership
  <2>7. \A d \in Conn : queued[d] > 0 => queued'[d] > 0
    BY <1>0, <2>3 DEF QueueRelease
  <2>8. \A d \in borrowTimer' : d \in OnLoan' \/ queued'[d] > 0
    BY <1>0, <2>3, <2>4, <2>6, <2>7 DEF TimersFollowLoans
  <2> QED BY <1>0, <2>3, <2>4, <2>5, <2>8 DEF TimersFollowLoans
<1> QED
  BY <1>1, <1>2, <1>3, <1>4, <1>5, <1>6, <1>7, <1>8, <1>9, <1>10, <1>11 DEF Next, LoopStep

\* What requests have, while they wait
LEMMA NextAsking ==
    ASSUME Placement, [Next]_vars, NEW q \in Req, request'[q] = "pending"
    PROVE  loan'[q] = NoConn
<1> USE DEF lifecycleVars, poolVars, requestVars, clientVars, taskVars
<1>0. /\ request \in [Req -> RequestStates] /\ loan \in [Req -> Conn \cup {NoConn}]
      /\ request[q] = "pending" => loan[q] = NoConn
  BY DEF Placement, TypeOK
<1>1. ASSUME NEW r \in Req, Acquire(r) PROVE loan'[q] = NoConn
  BY <1>0, <1>1 DEF Acquire
<1>2. ASSUME NEW r \in Req, NEW c \in Conn, Lend(r, c) PROVE loan'[q] = NoConn
  BY <1>0, <1>2 DEF Lend
<1>3. ASSUME NEW r \in Req, Release(r) PROVE loan'[q] = NoConn
  BY <1>0, <1>3 DEF Release
<1>4. CASE UNCHANGED loan /\ (request'[q] = "pending" => request[q] = "pending")
  BY <1>0, <1>4
<1>5. \A rs : request' = Rejected(rs) => (request'[q] = "pending" => request[q] = "pending")
  BY DEF Rejected
<1>6. CASE \/ StartConnectFails \/ StartConnects \/ StartValidationFails \/ StartSucceeds
           \/ (\E c \in Conn : Start(c)) \/ Stop \/ UNCHANGED vars
  BY <1>4, <1>5, <1>6 DEF StartConnectFails, StartConnects, StartValidationFails, StartFailed,
     StartSucceeds, Start, Stop, vars
<1>7. CASE LoopStep \/ RetryTimer
  BY <1>4, <1>7 DEF LoopStep, CreateLoopEnds, CreateConnection, CreateFails, BorrowLoopEnds,
     NoneAvailable, SkipExpired, Validate, ReleaseHandler, RetryTimer
<1>8. CASE \E c \in Conn : \/ ConnectSucceeds(c) \/ ConnectFails(c) \/ BorrowTimeout(c)
                           \/ Recycled(c) \/ RecycleFails(c) \/ Destroy(c)
  BY <1>4, <1>8 DEF ConnectSucceeds, ConnectFails, BorrowTimeout, Recycled, RecycleFails, Destroy
<1>9. CASE \E r \in Req, c \in Conn :
              \/ \E ok \in BOOLEAN : ValidatedStopped(r, c, ok)
              \/ ValidationFailed(r, c) \/ ValidatedTooLate(r, c)
  BY <1>4, <1>5, <1>9 DEF ValidatedStopped, ValidationFailed, ValidatedTooLate
<1>10. CASE \E r \in Req : AcquireTimeout(r) \/ ClientQueryFails(r)
  BY <1>4, <1>5, <1>10 DEF AcquireTimeout, ClientQueryFails
<1> QED BY <1>1, <1>2, <1>3, <1>6, <1>7, <1>8, <1>9, <1>10 DEF Next

LEMMA InitPlacement == Init => Placement
<1> SUFFICES ASSUME Init PROVE Placement
  OBVIOUS
<1>1. \A c \in Conn : Checkers(c) = {} /\ Clients(c) = {} /\ Back(c) = 0 /\ ~Idles(c) /\ c \notin creating
  BY ConnAssumption DEF Init, Checkers, Clients, Holding, Back, Idles, Range
<1>2. \A c \in Conn : Single(c)
  BY <1>1 DEF Single
<1>3. Once(available)
  BY DEF Init, Once
<1>4. TimersFollowLoans
  BY DEF Init, TimersFollowLoans, OnLoan, Holding
<1> QED BY <1>2, <1>3, <1>4, InitTypes, InitOwnership DEF Placement, Init

LEMMA NextPlacement ==
    ASSUME Placement, Releases = 1, [Next]_vars
    PROVE  Placement'
<1>1. TypeOK' /\ Ownership'
  BY NextTypes, NextOwnership DEF Placement
<1>2. TimersFollowLoans' /\ \A r \in Req : request'[r] = "pending" => loan'[r] = NoConn
  BY NextTimers, NextAsking
<1>3. Once(available') /\ \A d \in Conn : Placed(d)
  BY NextPlaces
<1>4. ASSUME NEW d \in Conn PROVE Single(d)'
  <2>1. Single(d) /\ Placed(d)
    BY <1>3 DEF Placement
  <2>2. Back(d) \in Nat /\ Back(d)' \in Nat
    <3>1. queued \in [Conn -> Nat] /\ recycling \in [Conn -> Nat]
      BY DEF Placement, TypeOK
    <3>2. queued' \in [Conn -> Nat] /\ recycling' \in [Conn -> Nat]
      BY <1>1 DEF TypeOK
    <3> QED BY <3>1, <3>2 DEF Back
  <2>3. CASE Same(d)
    BY <2>1, <2>3 DEF Same, Single
  <2>4. CASE Fewer(d)
    BY <2>1, <2>2, <2>4 DEF Fewer, Single
  <2> QED BY <2>1, <2>3, <2>4 DEF Placed
<1> QED BY <1>1, <1>2, <1>3, <1>4 DEF Placement

LEMMA PlacementInvariant ==
    ASSUME Releases = 1
    PROVE  Spec => []Placement
<1>1. Placement /\ [Next]_vars => Placement'
  BY NextPlacement
<1> QED BY InitPlacement, <1>1, PTL DEF Spec

LEMMA AtMostOne ==
    ASSUME NEW S, \A x, y \in S : x = y
    PROVE  /\ IsFiniteSet(S) /\ Cardinality(S) \in {0, 1}
           /\ Cardinality(S) = 0 <=> S = {}
<1>1. CASE S = {}
  BY <1>1, FS_EmptySet
<1>2. CASE S # {}
  <2>1. PICK x \in S : S = {x}
    BY <1>2
  <2>2. IsFiniteSet({x}) /\ Cardinality({x}) = 1
    BY FS_Singleton
  <2> QED BY <1>2, <2>1, <2>2
<1> QED BY <1>1, <1>2

\* What Single says, counted
LEMMA PlacesCounted ==
    ASSUME TypeOK, Once(available), NEW c \in Conn, Single(c)
    PROVE  /\ Places(c) <= 1
           /\ ~Nowhere(c) => Places(c) >= 1
<1> DEFINE idle == { i \in DOMAIN available : available[i] = c }
           checks == { v \in validating : v[2] = c }
           clients == { r \in Req : Holding(r) /\ loan[r] = c }
           connects == IF c \in creating THEN 1 ELSE 0
<1>1. queued[c] \in Nat /\ recycling[c] \in Nat /\ validating \subseteq Req \X Conn
  BY DEF TypeOK
<1>2. Cardinality(idle) \in {0, 1} /\ (Cardinality(idle) = 0 <=> ~Idles(c))
  <2>1. \A i, j \in idle : i = j
    BY DEF Once
  <2>2. idle = {} <=> ~Idles(c)
    BY DEF Idles, Range
  <2> HIDE DEF idle
  <2> QED BY <2>1, <2>2, AtMostOne
<1>3. Cardinality(checks) \in {0, 1} /\ (Cardinality(checks) = 0 <=> Checkers(c) = {})
  <2>1. \A v \in checks : v = <<v[1], c>> /\ v[1] \in Checkers(c)
    BY <1>1 DEF Checkers
  <2>2. \A v, w \in checks : v = w
    <3> SUFFICES ASSUME NEW v \in checks, NEW w \in checks PROVE v = w
      OBVIOUS
    <3>1. v[1] = w[1]
      BY <2>1 DEF Single
    <3> QED BY <2>1, <3>1
  <2>3. \A r \in Checkers(c) : <<r, c>> \in checks
    BY DEF Checkers
  <2>4. checks = {} <=> Checkers(c) = {}
    BY <2>1, <2>3
  <2> HIDE DEF checks
  <2> QED BY <2>2, <2>4, AtMostOne
<1>4. Cardinality(clients) \in {0, 1} /\ (Cardinality(clients) = 0 <=> Clients(c) = {})
  <2>1. clients = Clients(c)
    BY DEF Clients
  <2>2. \A q, r \in Clients(c) : q = r
    BY DEF Single
  <2> HIDE DEF clients
  <2> QED BY <2>1, <2>2, AtMostOne
<1>5. Places(c) = Cardinality(idle) + connects + Cardinality(checks) + queued[c] + recycling[c]
                  + Cardinality(clients)
  BY DEF Places
<1>6. Back(c) = queued[c] + recycling[c] /\ connects \in {0, 1} /\ (connects = 0 <=> c \notin creating)
  BY DEF Back
<1> DEFINE i == Cardinality(idle)  v == Cardinality(checks)  h == Cardinality(clients)
<1>7. i \in {0, 1} /\ v \in {0, 1} /\ h \in {0, 1}
  BY <1>2, <1>3, <1>4
<1>8. /\ i = 1 => connects = 0 /\ v = 0 /\ h = 0 /\ Back(c) = 0
      /\ connects = 1 => v = 0 /\ h = 0 /\ Back(c) = 0
      /\ v = 1 => h = 0 /\ Back(c) = 0
      /\ h = 1 => Back(c) = 0
      /\ Back(c) <= 1
  BY <1>2, <1>3, <1>4, <1>6 DEF Single
<1>9. ~Nowhere(c) => (i = 1 \/ connects = 1 \/ v = 1 \/ h = 1 \/ Back(c) > 0)
  <2>1. Back(c) \in Nat
    BY <1>1, <1>6
  <2>2. ~Nowhere(c) => \/ Idles(c) \/ c \in creating \/ Checkers(c) # {} \/ Clients(c) # {} \/ Back(c) # 0
    BY DEF Nowhere
  <2> QED BY <1>2, <1>3, <1>4, <1>6, <2>1, <2>2
<1> HIDE DEF i, v, h, connects
<1>10. Places(c) = i + connects + v + queued[c] + recycling[c] + h
  BY <1>5 DEF i, v, h
<1> QED BY <1>1, <1>6, <1>7, <1>8, <1>9, <1>10

\* OnePlaceAtMost, of a program whose clients release what they borrowed once: no
\* interleaving of the loops, of the release handlers, of timers and of stop() puts a
\* connection in two places.
THEOREM OnePlace ==
    ASSUME Releases = 1
    PROVE  Spec => []OnePlaceAtMost
<1>1. Placement => OnePlaceAtMost
  <2> SUFFICES ASSUME Placement, NEW c \in connections PROVE Places(c) <= 1
    BY DEF OnePlaceAtMost
  <2>1. c \in Conn
    BY DEF Placement, TypeOK
  <2> QED BY <2>1, PlacesCounted DEF Placement
<1> QED BY <1>1, PlacementInvariant, PTL

\* TimersFollowLoans, under the same assumption: the timer _borrowed stores for a
\* connection is armed exactly while a client has it, and none is ever lost.
THEOREM TimersWatchLoans ==
    ASSUME Releases = 1
    PROVE  Spec => []TimersFollowLoans
<1>1. Placement => TimersFollowLoans
  BY DEF Placement
<1> QED BY <1>1, PlacementInvariant, PTL

Owned == \A c \in connections : ~Nowhere(c)

LEMMA NextOwned ==
    ASSUME Placement, Owned, Releases = 1, "destroyIdle" \notin Events, [Next]_vars
    PROVE  Owned'
<1> SUFFICES ASSUME NEW c \in connections' PROVE ~Nowhere(c)'
  BY DEF Owned
<1>1. PICK d \in Conn : d = c
  <2>1. TypeOK'
    BY NextTypes DEF Placement
  <2> QED BY <2>1 DEF TypeOK
<1>2. Placed(d) /\ d \in connections'
  BY <1>1, NextPlaces
<1>3. CASE Same(d) /\ d \in connections
  BY <1>1, <1>3 DEF Same, Nowhere, Owned
<1>4. CASE Single(d)' /\ ~Nowhere(d)'
  BY <1>1, <1>4
<1> QED BY <1>2, <1>3, <1>4 DEF Placed

LEMMA OwnedInvariant ==
    ASSUME Releases = 1, "destroyIdle" \notin Events
    PROVE  Spec => []Owned
<1>1. Init => Owned
  BY DEF Init, Owned
<1>2. Placement /\ Owned /\ [Next]_vars => Owned'
  BY NextOwned
<1> QED BY <1>1, <1>2, PlacementInvariant, PTL DEF Spec

\* NoOrphans, when moreover no connection is destroyed while it is idle: a connection
\* that counts against maximumPoolSize is idle, lent, or in the hands of a handler.
\* _evict() drops what follows the destroyed connection in _available otherwise.
THEOREM NeverOrphans ==
    ASSUME Releases = 1, "destroyIdle" \notin Events
    PROVE  Spec => []NoOrphans
<1>1. Placement /\ Owned => NoOrphans
  <2> SUFFICES ASSUME Placement, Owned, NEW c \in connections PROVE Places(c) >= 1
    BY DEF NoOrphans
  <2>1. c \in Conn
    BY DEF Placement, TypeOK
  <2> QED BY <2>1, PlacesCounted DEF Placement, Owned
<1> QED BY <1>1, PlacementInvariant, OwnedInvariant, PTL

-----------------------------------------------------------------------------
(* The pool implements ConnectionLending *)

LEMMA LoansOwned ==
    ASSUME Placement, NEW c, NEW r
    PROVE  <<r, c>> \in LoansInForce <=> r \in Req /\ Holding(r) /\ loan[r] = c /\ c \in connections
BY DEF LoansInForce

\* One more connection can be lent as long as one the pool owns is not
LEMMA RoomToLend ==
    ASSUME Placement, SizeInv, NEW c \in connections, Clients(c) = {}
    PROVE  Cardinality(LoansInForce) < MaxSize
<1> DEFINE lent == [v \in LoansInForce |-> v[2]]
<1>1. \A v \in LoansInForce : /\ v = <<v[1], v[2]>> /\ v[1] \in Clients(v[2])
                              /\ v[2] \in connections
  BY DEF LoansInForce, Clients
<1>2. \A v, w \in LoansInForce : v[2] = w[2] => v = w
  <2> SUFFICES ASSUME NEW v \in LoansInForce, NEW w \in LoansInForce, v[2] = w[2] PROVE v = w
    OBVIOUS
  <2>1. v[2] \in Conn
    BY <1>1 DEF Placement, TypeOK
  <2>2. v[1] = w[1]
    BY <1>1, <2>1 DEF Placement, Single
  <2> QED BY <1>1, <2>2
<1>3. \A v \in LoansInForce : v[2] # c
  BY <1>1
<1>4. lent \in Injection(LoansInForce, connections \ {c})
  <2>1. lent \in [LoansInForce -> connections \ {c}]
    BY <1>1, <1>3
  <2>2. \A v, w \in LoansInForce : lent[v] = lent[w] => v = w
    BY <1>2
  <2> QED BY <2>1, <2>2 DEF Injection, IsInjective
<1>5. /\ IsFiniteSet(connections \ {c})
      /\ Cardinality(connections \ {c}) = Cardinality(connections) - 1
  BY FS_RemoveElement DEF SizeInv
<1>6. /\ IsFiniteSet(LoansInForce)
      /\ Cardinality(LoansInForce) <= Cardinality(connections \ {c})
  BY <1>4, <1>5, FS_Injection
<1>7. /\ Cardinality(LoansInForce) \in Nat /\ Cardinality(connections) \in Nat
      /\ Cardinality(connections) <= MaxSize
  BY <1>6, FS_CardinalityType DEF SizeInv, PoolSizeBounded
<1> QED BY <1>5, <1>6, <1>7, SizesAssumption

\* Steps that lend nothing
LEMMA RefusesAndEnds ==
    ASSUME TypeOK, LoansInForce' \subseteq LoansInForce,
           UNCHANGED request \/ \E rs : request' = Rejected(rs)
    PROVE  Lending!Next
<1>1. request \in [Req -> RequestStates]
  BY DEF TypeOK
<1>2. PICK rs : request' = Rejected(rs)
  <2>1. request = Rejected({})
    BY <1>1 DEF Rejected
  <2> QED BY <2>1
<1> DEFINE refused == { r \in Req : r \in rs /\ request[r] = "pending" }
           ended == LoansInForce \ LoansInForce'
<1>3. request' = [r \in Req |-> IF r \in refused THEN "rejected" ELSE request[r]]
  BY <1>2 DEF Rejected
<1>4. LoansInForce' = LoansInForce \ ended
  OBVIOUS
<1>5. Lending!RefuseAndEnd(refused, ended)
  BY <1>3, <1>4 DEF Lending!RefuseAndEnd
<1>6. refused \in SUBSET Req /\ ended \in SUBSET LoansInForce
  OBVIOUS
<1> QED BY <1>5, <1>6 DEF Lending!Next

LEMMA LoansKept ==
    ASSUME UNCHANGED <<loan, calls>>, connections' \subseteq connections
    PROVE  LoansInForce' \subseteq LoansInForce
BY DEF LoansInForce, Holding

LEMMA NextKeepsPromise ==
    ASSUME Placement, SizeInv, Releases = 1, [Next]_vars
    PROVE  [Lending!Next]_(Lending!vars)
<1> USE DEF lifecycleVars, timerVars, ownedVars, poolVars, requestVars,
            createVars, borrowVars, releaseVars, clientVars, taskVars
<1>0. /\ loan \in [Req -> Conn \cup {NoConn}] /\ NoConn \notin Conn /\ connections \subseteq Conn
      /\ request \in [Req -> RequestStates]
      /\ TypeOK /\ Ownership /\ \A c \in Conn : Single(c)
      /\ \A r \in Req : request[r] = "pending" => loan[r] = NoConn
  BY ConnAssumption DEF TypeOK, Placement
<1>a. \A r \in Req : /\ Holding(r) <=> loan[r] # NoConn
                     /\ Holding(r)' <=> loan'[r] # NoConn
  <2>1. TypeOK /\ TypeOK'
    BY <1>0, NextTypes
  <2>2. \A r \in Req : calls[r] = 0 /\ calls'[r] = 0
    BY <2>1 DEF TypeOK
  <2> QED BY <2>2 DEF Holding
<1>b. \A v : v \in LoansInForce <=> \E q \in Req : v = <<q, loan[q]>> /\ loan[q] \in connections
  BY <1>0, <1>a DEF LoansInForce
<1>c. TypeOK'
  BY <1>0, NextTypes
<1>d. \A v : v \in LoansInForce' <=> \E q \in Req : v = <<q, loan'[q]>> /\ loan'[q] \in connections'
  <2>1. connections' \subseteq Conn
    BY <1>c DEF TypeOK
  <2> QED BY <1>0, <1>a, <2>1 DEF LoansInForce
<1>1. CASE \/ StartConnectFails \/ StartConnects \/ StartValidationFails \/ Stop
           \/ CreateLoopEnds \/ CreateFails \/ RetryTimer \/ BorrowLoopEnds \/ NoneAvailable
           \/ (\E c \in Conn : Start(c)) \/ (\E r \in Req : AcquireTimeout(r) \/ ClientQueryFails(r))
           \/ Validate \/ (\E c \in Conn : ConnectSucceeds(c) \/ Recycled(c))
           \/ (\E r \in Req, c \in Conn, ok \in BOOLEAN : ValidatedStopped(r, c, ok))
           \/ (\E r \in Req, c \in Conn : ValidatedTooLate(r, c))
  <2>1. connections' \subseteq connections /\ UNCHANGED <<loan, calls>>
    BY <1>1 DEF StartConnectFails, StartConnects, StartValidationFails, StartFailed, Stop,
       CreateLoopEnds, CreateFails, RetryTimer, BorrowLoopEnds, NoneAvailable, Start, AcquireTimeout,
       ClientQueryFails, Validate, ConnectSucceeds, Recycled, ValidatedStopped, ValidatedTooLate
  <2>2. UNCHANGED request \/ \E rs : request' = Rejected(rs)
    BY <1>1 DEF StartConnectFails, StartConnects, StartValidationFails, StartFailed, Stop,
       CreateLoopEnds, CreateFails, RetryTimer, BorrowLoopEnds, NoneAvailable, Start, AcquireTimeout,
       ClientQueryFails, Validate, ConnectSucceeds, Recycled, ValidatedStopped, ValidatedTooLate
  <2> QED BY <1>0, <2>1, <2>2, LoansKept, RefusesAndEnds
<1>2. CASE \/ SkipExpired
           \/ (\E r \in Req, c \in Conn : ValidationFailed(r, c))
           \/ (\E c \in Conn : \/ ConnectFails(c) \/ BorrowTimeout(c) \/ ReleaseHandler(c)
                               \/ RecycleFails(c) \/ Destroy(c))
  <2>1. \A c, idle : Evict(c, idle) => connections' \subseteq connections
    BY DEF Evict
  <2>2. connections' \subseteq connections /\ UNCHANGED <<loan, calls, request>>
    BY <1>2, <2>1 DEF SkipExpired, ConnectFails, BorrowTimeout, ReleaseHandler, RecycleFails, Destroy,
       ValidationFailed
  <2> QED BY <1>0, <2>2, LoansKept, RefusesAndEnds
<1>3. CASE StartSucceeds \/ \E c \in Conn : CreateConnection(c)
  <2>1. PICK c \in Conn : /\ connections' \subseteq connections \cup {c}
                          /\ \A r \in Req : loan[r] # c
    <3>1. CASE StartSucceeds
      <4>1. initial \in Conn /\ ~Referenced(initial) /\ connections' \subseteq connections \cup {initial}
        BY <1>0, <3>1 DEF StartSucceeds, TypeOK, Ownership
      <4> QED BY <4>1 DEF Referenced
    <3>2. ASSUME NEW d \in Conn, CreateConnection(d)
          PROVE  connections' \subseteq connections \cup {d} /\ \A r \in Req : loan[r] # d
      BY <3>2 DEF CreateConnection, Create, Unreachable
    <3> QED BY <1>3, <3>1, <3>2
  <2>2. UNCHANGED <<loan, calls, request>>
    BY <1>3 DEF StartSucceeds, CreateConnection
  <2>3. LoansInForce' \subseteq LoansInForce
    BY <1>b, <1>d, <2>1, <2>2
  <2> QED BY <1>0, <2>2, <2>3, RefusesAndEnds
<1>4. ASSUME NEW r \in Req, Acquire(r) PROVE Lending!Next
  <2>1. loan[r] = NoConn /\ request[r] # "pending"
    BY <1>4, <1>a DEF Acquire, RequestUnreachable
  <2>2. loan' = loan /\ connections' = connections /\ request' = [request EXCEPT ![r] = "pending"]
    BY <1>0, <1>4, <2>1 DEF Acquire
  <2>3. \A c \in Conn : <<r, c>> \notin LoansInForce
    BY <1>0, <1>b, <2>1
  <2>4. LoansInForce' = LoansInForce
    BY <1>b, <1>d, <2>2
  <2>5. Lending!Ask(r)
    BY <2>1, <2>2, <2>3, <2>4 DEF Lending!Ask
  <2> QED BY <2>5 DEF Lending!Next
<1>5. ASSUME NEW r \in Req, NEW c \in Conn, Lend(r, c) PROVE Lending!Next
  <2>1. /\ <<r, c>> \in validating /\ link[c] = "up" /\ request[r] = "pending"
        /\ loan' = [loan EXCEPT ![r] = c] /\ connections' = connections
        /\ request' = [request EXCEPT ![r] = "resolved"]
    BY <1>5 DEF Lend, Validated, Connected
  <2>2. c \in connections
    BY <1>0, <2>1 DEF Ownership, Referenced
  <2>3. Clients(c) = {}
    <3>1. r \in Checkers(c)
      BY <2>1 DEF Checkers
    <3> QED BY <1>0, <3>1 DEF Single
  <2>4. Lending!Cardinality(LoansInForce) < MaxSize
    <3>1. Lending!Cardinality(LoansInForce) = Cardinality(LoansInForce)
      BY DEF Lending!Cardinality, Cardinality
    <3> QED BY <2>2, <2>3, <3>1, RoomToLend
  <2>5. \A q \in Req : <<q, c>> \notin LoansInForce
    BY <2>3 DEF LoansInForce, Clients
  <2>6. \A q \in Req : loan'[q] = IF q = r THEN c ELSE loan[q]
    BY <1>0, <2>1
  <2>7. loan[r] = NoConn
    BY <1>0, <2>1
  <2>8. \A v : v \in LoansInForce' <=> v \in LoansInForce \/ v = <<r, c>>
    BY <1>0, <1>b, <1>d, <2>1, <2>2, <2>6, <2>7
  <2>9. LoansInForce' = LoansInForce \cup {<<r, c>>}
    BY <2>8
  <2>10. Lending!Grant(r, c)
    BY <2>1, <2>4, <2>5, <2>9 DEF Lending!Grant
  <2> QED BY <2>10 DEF Lending!Next
<1>6. ASSUME NEW r \in Req, Release(r) PROVE Lending!Next
  <2>1. calls[r] = 0
    BY <1>0 DEF TypeOK
  <2>2. loan' = [loan EXCEPT ![r] = NoConn] /\ UNCHANGED <<connections, request>>
    BY <1>6, <2>1 DEF Release
  <2>3. \A q \in Req : loan'[q] = loan[q] \/ loan'[q] = NoConn
    BY <1>0, <2>2
  <2>4. LoansInForce' \subseteq LoansInForce
    BY <1>0, <1>b, <1>d, <2>2, <2>3
  <2> QED BY <1>0, <2>2, <2>4, RefusesAndEnds
<1>7. CASE UNCHANGED vars
  <2>1. request' = request /\ LoansInForce' = LoansInForce
    BY <1>7 DEF vars, LoansInForce, Holding
  <2> QED BY <2>1 DEF Lending!vars
<1> QED BY <1>1, <1>2, <1>3, <1>4, <1>5, <1>6, <1>7 DEF Next, LoopStep

\* The pool keeps the promise of ConnectionLending to programs whose clients release
\* once: a request is settled once, a connection the pool owns is lent to one request
\* at a time, and no more of them are out than maximumPoolSize.
THEOREM ImplementsLending ==
    ASSUME Releases = 1
    PROVE  Spec => KeepsPromise
<1>1. Init => Lending!Init
  BY DEF Init, Lending!Init, LoansInForce, Holding
<1>2. Placement /\ SizeInv /\ [Next]_vars => [Lending!Next]_(Lending!vars)
  BY NextKeepsPromise
<1>3. SizeInv /\ [Next]_vars => SizeInv'
  BY NextSize
<1> QED BY InitSize, <1>1, <1>2, <1>3, PlacementInvariant, PTL DEF Spec, KeepsPromise, Lending!Spec

-----------------------------------------------------------------------------
(* Where a request waits *)

Checked(r) == { c \in Conn : <<r, c>> \in validating }

\* RequestsAccounted, said without counting.  It speaks of settled requests too: one
\* that has timed out stays in _pending until a loop drops it, and must not be
\* made again under the same name before.
Waiting ==
    /\ Once(pending)
    /\ \A r \in Req : /\ \A c, d \in Checked(r) : c = d
                      /\ r \in Range(pending) => Checked(r) = {}
                      /\ request[r] = "pending" => r \in Range(pending) \/ Checked(r) # {}

LEMMA OncePrepended ==
    ASSUME NEW S, NEW s \in Seq(S), NEW e \in S, Once(s), e \notin Range(s)
    PROVE  Once(<<e>> \o s) /\ Range(<<e>> \o s) = Range(s) \cup {e}
<1>1. Len(s) \in Nat /\ DOMAIN s = 1..Len(s) /\ <<e>> \in Seq(S) /\ Len(<<e>>) = 1 /\ <<e>>[1] = e
  BY LenProperties
<1>2. /\ <<e>> \o s \in Seq(S) /\ Len(<<e>> \o s) = Len(s) + 1
      /\ \A i \in 1..(Len(s) + 1) : (<<e>> \o s)[i] = IF i = 1 THEN e ELSE s[i - 1]
  <2>1. /\ <<e>> \o s \in Seq(S) /\ Len(<<e>> \o s) = 1 + Len(s)
        /\ \A i \in 1..(1 + Len(s)) : (<<e>> \o s)[i] = IF i <= 1 THEN <<e>>[i] ELSE s[i - 1]
    BY <1>1, ConcatProperties
  <2> QED BY <1>1, <2>1
<1> DEFINE t == <<e>> \o s
<1>3. /\ DOMAIN t = 1..(Len(s) + 1) /\ \A i \in 1..(Len(s) + 1) : t[i] = IF i = 1 THEN e ELSE s[i - 1]
  BY <1>2, LenProperties
<1> HIDE DEF t
<1>4. \A i \in 1..(Len(s) + 1) : i # 1 => i - 1 \in 1..Len(s) /\ s[i - 1] # e
  BY <1>1 DEF Range
<1>5. Once(t)
  <2> SUFFICES ASSUME NEW i \in DOMAIN t, NEW j \in DOMAIN t, t[i] = t[j] PROVE i = j
    BY DEF Once
  <2>1. CASE i = 1 \/ j = 1
    BY <1>3, <1>4, <2>1
  <2>2. CASE i # 1 /\ j # 1
    <3>1. i - 1 \in DOMAIN s /\ j - 1 \in DOMAIN s /\ s[i - 1] = s[j - 1]
      BY <1>1, <1>3, <1>4, <2>2
    <3>2. i - 1 = j - 1 /\ i \in Int /\ j \in Int
      BY <1>3, <3>1 DEF Once
    <3> QED BY <3>2
  <2> QED BY <2>1, <2>2
<1>6. ASSUME NEW x \in Range(s) PROVE x \in Range(t)
  <2>1. PICK i \in 1..Len(s) : x = s[i]
    BY <1>1 DEF Range
  <2>2. i + 1 \in DOMAIN t /\ t[i + 1] = s[i]
    BY <1>1, <1>3
  <2> QED BY <2>1, <2>2 DEF Range
<1>7. e \in Range(t)
  <2>1. 1 \in DOMAIN t /\ t[1] = e
    BY <1>1, <1>3
  <2> QED BY <2>1 DEF Range
<1>8. Range(t) \subseteq Range(s) \cup {e}
  <2> SUFFICES ASSUME NEW i \in DOMAIN t PROVE t[i] \in Range(s) \cup {e}
    BY DEF Range
  <2> QED BY <1>1, <1>3, <1>4 DEF Range
<1>9. Range(t) = Range(s) \cup {e}
  BY <1>6, <1>7, <1>8
<1> QED BY <1>5, <1>9 DEF t

\* Handlers that settle requests, and leave them where they are
LEMMA WaitOn ==
    ASSUME Waiting, UNCHANGED <<pending, validating>>,
           \A r \in Req : request'[r] = "pending" => request[r] = "pending"
    PROVE  Waiting'
BY DEF Waiting, Checked, Once

LEMMA NextWaiting == TypeOK /\ Waiting /\ [Next]_vars => Waiting'
<1> SUFFICES ASSUME TypeOK, Waiting, [Next]_vars PROVE Waiting'
  OBVIOUS
<1> USE DEF lifecycleVars, poolVars, requestVars, borrowVars, clientVars, taskVars
<1>0. /\ request \in [Req -> RequestStates] /\ pending \in Seq(Req)
      /\ validating \subseteq Req \X Conn
      /\ Once(pending) /\ Range(pending) \subseteq Req
  BY Ends DEF TypeOK, Waiting
<1>a. pending # <<>> => /\ Once(Tail(pending)) /\ Head(pending) \in Req
                        /\ Head(pending) \notin Range(Tail(pending))
                        /\ Range(pending) = Range(Tail(pending)) \cup {Head(pending)}
  BY <1>0, OnceProperties, Ends
<1>b. \A rs, r : request' = Rejected(rs) /\ r \in Req /\ request'[r] = "pending" => request[r] = "pending"
  BY DEF Rejected
<1>c. \A r, c : c \in Checked(r) <=> c \in Conn /\ <<r, c>> \in validating
  BY DEF Checked
<1>d. \A r, c : c \in Checked(r)' <=> c \in Conn /\ <<r, c>> \in validating'
  BY DEF Checked
<1>1. CASE \/ StartConnectFails \/ StartConnects \/ StartValidationFails \/ StartSucceeds \/ Stop
           \/ (\E c \in Conn : Start(c)) \/ (\E r \in Req : AcquireTimeout(r) \/ ClientQueryFails(r) \/ Release(r))
           \/ CreateLoopEnds \/ CreateFails \/ RetryTimer \/ BorrowLoopEnds
           \/ (\E c \in Conn : \/ CreateConnection(c) \/ ConnectSucceeds(c) \/ ConnectFails(c)
                               \/ BorrowTimeout(c) \/ ReleaseHandler(c) \/ Recycled(c) \/ RecycleFails(c)
                               \/ Destroy(c))
           \/ UNCHANGED vars
  <2>1. UNCHANGED <<pending, validating>>
    BY <1>1 DEF StartConnectFails, StartConnects, StartValidationFails, StartFailed, StartSucceeds, Stop,
       Start, AcquireTimeout, ClientQueryFails, Release, CreateLoopEnds, CreateFails, RetryTimer,
       BorrowLoopEnds, CreateConnection, ConnectSucceeds, ConnectFails, BorrowTimeout, ReleaseHandler,
       Recycled, RecycleFails, Destroy, vars
  <2>2. UNCHANGED request \/ \E rs : request' = Rejected(rs)
    BY <1>1 DEF StartConnectFails, StartConnects, StartValidationFails, StartFailed, StartSucceeds, Stop,
       Start, AcquireTimeout, ClientQueryFails, Release, CreateLoopEnds, CreateFails, RetryTimer,
       BorrowLoopEnds, CreateConnection, ConnectSucceeds, ConnectFails, BorrowTimeout, ReleaseHandler,
       Recycled, RecycleFails, Destroy, vars
  <2>3. \A r \in Req : request'[r] = "pending" => request[r] = "pending"
    BY <1>b, <2>2
  <2> QED BY <2>1, <2>3, WaitOn
\* A loop drops the first request, if it is settled
<1>2. CASE NoneAvailable \/ SkipExpired
  <2>1. /\ pending # <<>> /\ UNCHANGED <<request, validating>>
        /\ \/ pending' = pending
           \/ pending' = Tail(pending) /\ request[Head(pending)] # "pending"
    BY <1>2 DEF NoneAvailable, SkipExpired
  <2>2. CASE pending' = pending
    BY <2>1, <2>2, WaitOn
  <2>3. CASE pending' = Tail(pending) /\ request[Head(pending)] # "pending"
    <3>1. \A r : r \in Range(pending') => r \in Range(pending)
      BY <1>a, <2>1, <2>3
    <3>2. \A r \in Req : request[r] = "pending" /\ r \in Range(pending) => r \in Range(pending')
      BY <1>a, <2>1, <2>3
    <3>3. \A r \in Req : Checked(r)' = Checked(r)
      BY <2>1 DEF Checked
    <3>4. Once(pending')
      BY <1>a, <2>1, <2>3
    <3> QED BY <2>1, <3>1, <3>2, <3>3, <3>4 DEF Waiting
  <2> QED BY <2>1, <2>2, <2>3
<1>3. CASE Validate
  <2>1. /\ pending # <<>> /\ available # <<>> /\ request' = request /\ pending' = Tail(pending)
        /\ validating' = validating \cup { <<Head(pending), Head(available)>> }
    BY <1>3 DEF Validate
  <2>2. PICK q \in Req, c \in Conn : q = Head(pending) /\ c = Head(available)
    <3>1. available \in Seq(Conn)
      BY DEF TypeOK
    <3> QED BY <1>a, <2>1, <3>1, Ends
  <2>3. ASSUME NEW r, NEW d PROVE d \in Checked(r)' <=> d \in Checked(r) \/ (r = q /\ d = c)
    <3>1. validating' = validating \cup { <<q, c>> }
      BY <2>1, <2>2
    <3>2. <<r, d>> \in validating' <=> <<r, d>> \in validating \/ (r = q /\ d = c)
      BY <3>1
    <3> QED BY <1>c, <1>d, <3>2
  <2>4. /\ Once(pending') /\ q \notin Range(pending')
        /\ \A r : r \in Range(pending) <=> r \in Range(pending') \/ r = q
    BY <1>a, <2>1, <2>2
  <2>5. Checked(q) = {}
    BY <2>4 DEF Waiting
  <2>6. ASSUME NEW r \in Req
        PROVE  /\ \A d, e \in Checked(r)' : d = e
               /\ r \in Range(pending') => Checked(r)' = {}
               /\ request'[r] = "pending" => r \in Range(pending') \/ Checked(r)' # {}
    BY <2>1, <2>3, <2>4, <2>5 DEF Waiting
  <2> QED BY <2>4, <2>6 DEF Waiting
<1>4. ASSUME NEW q \in Req, NEW c \in Conn, <<q, c>> \in validating,
             validating' = validating \ {<<q, c>>}
      PROVE  /\ \A r \in Req : r # q => Checked(r)' = Checked(r)
             /\ Checked(q)' = {} /\ q \notin Range(pending)
  <2>1. c \in Checked(q)
    BY <1>c, <1>4
  <2>2. ASSUME NEW r, NEW d PROVE d \in Checked(r)' <=> d \in Checked(r) /\ ~(r = q /\ d = c)
    <3>1. <<r, d>> \in validating' <=> <<r, d>> \in validating /\ ~(r = q /\ d = c)
      BY <1>4
    <3> QED BY <1>c, <1>d, <3>1
  <2>3. \A d \in Checked(q) : d = c
    BY <2>1 DEF Waiting
  <2>4. q \notin Range(pending)
    BY <2>1 DEF Waiting
  <2>5. ASSUME NEW r \in Req, r # q PROVE Checked(r)' = Checked(r)
    BY <2>2, <2>5
  <2>6. Checked(q)' = {}
    BY <2>2, <2>3
  <2> QED BY <2>4, <2>5, <2>6
<1>5. ASSUME NEW q \in Req, NEW c \in Conn,
             (\E ok \in BOOLEAN : ValidatedStopped(q, c, ok)) \/ ValidatedTooLate(q, c) \/ Lend(q, c)
      PROVE  Waiting'
  <2>1. /\ <<q, c>> \in validating /\ validating' = validating \ {<<q, c>>} /\ pending' = pending
        /\ \/ request' = Rejected({q})
           \/ request' = request /\ request[q] # "pending"
           \/ request' = [request EXCEPT ![q] = "resolved"]
    BY <1>5 DEF ValidatedStopped, ValidatedTooLate, Lend, Validated
  <2>2. /\ request'[q] # "pending"
        /\ \A r \in Req : request'[r] = "pending" => request[r] = "pending"
    BY <1>0, <2>1 DEF Rejected
  <2>3. /\ \A r \in Req : r # q => Checked(r)' = Checked(r)
        /\ Checked(q)' = {}
    BY <1>4, <2>1
  <2>4. Once(pending')
    BY <1>0, <2>1
  <2> QED BY <2>1, <2>2, <2>3, <2>4 DEF Waiting
<1>6. ASSUME NEW q \in Req, NEW c \in Conn, ValidationFailed(q, c) PROVE Waiting'
  <2>1. /\ <<q, c>> \in validating /\ validating' = validating \ {<<q, c>>} /\ request' = request
        /\ pending' = IF request[q] = "pending" THEN <<q>> \o pending ELSE pending
    BY <1>6 DEF ValidationFailed, Validated, Requeue
  <2>2. /\ \A r \in Req : r # q => Checked(r)' = Checked(r)
        /\ Checked(q)' = {} /\ q \notin Range(pending)
    BY <1>4, <2>1
  <2>3. /\ Once(pending')
        /\ \A r : r \in Range(pending') <=> r \in Range(pending) \/ (r = q /\ request[q] = "pending")
    BY <1>0, <2>1, <2>2, OncePrepended
  <2> QED BY <2>1, <2>2, <2>3 DEF Waiting
<1>7. ASSUME NEW q \in Req, Acquire(q) PROVE Waiting'
  <2>1. /\ RequestUnreachable(q) /\ pending' = Append(pending, q) /\ validating' = validating
        /\ request' = [request EXCEPT ![q] = "pending"]
    BY <1>7 DEF Acquire
  <2>2. q \notin Range(pending) /\ Checked(q) = {}
    BY <1>c, <2>1 DEF RequestUnreachable
  <2>3. Once(pending') /\ Range(pending') = Range(pending) \cup {q}
    BY <1>0, <2>1, <2>2, OnceProperties, Ends
  <2>4. \A r \in Req : Checked(r)' = Checked(r) /\ (r # q => request'[r] = request[r])
    BY <1>0, <2>1 DEF Checked
  <2> QED BY <2>2, <2>3, <2>4 DEF Waiting
<1> QED BY <1>1, <1>2, <1>3, <1>5, <1>6, <1>7 DEF Next, LoopStep

\* A pending request is in exactly one place, _pending or one borrow loop, for any
\* client and any events: a request is never lost nor served twice.
THEOREM RequestsKept == Spec => []RequestsAccounted
<1>1. Init => Waiting
  <2> SUFFICES ASSUME Init PROVE Waiting
    OBVIOUS
  <2>1. \A r \in Req : Checked(r) = {} /\ request[r] # "pending"
    BY DEF Init, Checked
  <2>2. Once(pending) /\ Range(pending) = {}
    BY DEF Init, Once, Range
  <2> QED BY <2>1, <2>2 DEF Waiting
<1>2. TypeOK /\ Waiting /\ [Next]_vars => (TypeOK /\ Waiting)'
  BY NextTypes, NextWaiting
<1>3. TypeOK /\ Waiting => RequestsAccounted
  <2> SUFFICES ASSUME TypeOK, Waiting, NEW r \in Req
               PROVE  LET waiting == Cardinality({ i \in DOMAIN pending : pending[i] = r })
                                     + Cardinality({ v \in validating : v[1] = r })
                      IN  waiting <= 1 /\ (request[r] = "pending" => waiting = 1)
    BY DEF RequestsAccounted
  <2> DEFINE queue == { i \in DOMAIN pending : pending[i] = r }
             checks == { v \in validating : v[1] = r }
  <2>1. Cardinality(queue) \in {0, 1} /\ (Cardinality(queue) = 0 <=> r \notin Range(pending))
    <3>1. \A i, j \in queue : i = j
      BY DEF Once, Waiting
    <3>2. queue = {} <=> r \notin Range(pending)
      BY DEF Range
    <3> HIDE DEF queue
    <3> QED BY <3>1, <3>2, AtMostOne
  <2>2. Cardinality(checks) \in {0, 1} /\ (Cardinality(checks) = 0 <=> Checked(r) = {})
    <3>1. ASSUME NEW v \in checks PROVE v = <<r, v[2]>> /\ v[2] \in Checked(r)
      <4>1. v \in Req \X Conn /\ v \in validating /\ v[1] = r
        BY DEF TypeOK
      <4>2. v = <<r, v[2]>> /\ v[2] \in Conn
        BY <4>1
      <4> QED BY <4>1, <4>2 DEF Checked
    <3>2. \A v, w \in checks : v = w
      <4> SUFFICES ASSUME NEW v \in checks, NEW w \in checks PROVE v = w
        OBVIOUS
      <4>1. v[2] = w[2]
        BY <3>1 DEF Waiting
      <4> QED BY <3>1, <4>1
    <3>3. \A c \in Checked(r) : <<r, c>> \in checks
      BY DEF Checked
    <3>4. checks = {} <=> Checked(r) = {}
      BY <3>1, <3>3
    <3> HIDE DEF checks
    <3> QED BY <3>2, <3>4, AtMostOne
  <2>3. /\ r \in Range(pending) => Checked(r) = {}
        /\ request[r] = "pending" => r \in Range(pending) \/ Checked(r) # {}
    BY DEF Waiting
  <2> QED BY <2>1, <2>2, <2>3
<1> QED BY InitTypes, <1>1, <1>2, <1>3, PTL DEF Spec

-----------------------------------------------------------------------------
(* Who will look at the queue again *)

Asked == \E r \in Range(pending) : request[r] = "pending"

\* NoLostWakeUp is not inductive: a create loop ends when a connection is idle, which
\* is right only if a borrow loop is about to take it.
Attended ==
    Started /\ Asked =>
        \/ borrowJobs > 0 \/ running = "borrow" \/ validating # {}
        \/ /\ available = <<>>
           /\ \/ createJobs > 0 \/ running = "create" \/ sleeping \/ creating # {}
              \/ \E c \in Conn : queued[c] > 0 \/ recycling[c] > 0
              \/ Cardinality(connections) >= MaxSize

LEMMA NextAttended ==
    ASSUME TypeOK, Attended, SizeInv, "borrowTimeout" \notin Events, [Next]_vars
    PROVE  Attended'
<1> USE DEF lifecycleVars, timerVars, ownedVars, poolVars, requestVars, createVars, borrowVars,
            releaseVars, clientVars, taskVars, Attended
<1>0. /\ request \in [Req -> RequestStates] /\ pending \in Seq(Req) /\ available \in Seq(Conn)
      /\ createJobs \in Nat /\ borrowJobs \in Nat
      /\ queued \in [Conn -> Nat] /\ recycling \in [Conn -> Nat]
      /\ Range(pending) \subseteq Req
  BY Ends DEF TypeOK
<1>a. \A c \in Conn : Evict(c, available) /\ available = <<>> => available' = <<>>
  <2> SUFFICES ASSUME NEW c \in Conn, Evict(c, available), available = <<>> PROVE available' = <<>>
    OBVIOUS
  <2>1. available' \in Seq(Conn) /\ Range(available') \subseteq Range(available)
    BY <1>0, EvictEffect
  <2>2. Range(available) = {}
    BY DEF Range
  <2>3. available' # <<>> => Head(available') \in Range(available')
    BY <2>1, Ends
  <2> QED BY <2>1, <2>2, <2>3
<1>b. UNCHANGED <<pending>> /\ (UNCHANGED request \/ \E rs : request' = Rejected(rs)) => (Asked' => Asked)
  BY <1>0 DEF Asked, Rejected
\* A loop has the thread, or is to run, in a pool that has not been stopped
<1>1. CASE /\ Started' => borrowJobs' > 0 \/ running' = "borrow" \/ validating' # {}
  BY <1>1
<1>2. CASE StartSucceeds
  <2>1. pending # <<>> => borrowJobs' > 0
    BY <1>0, <1>2 DEF StartSucceeds
  <2>2. pending = <<>> => ~Asked'
    BY <1>2 DEF StartSucceeds, Asked, Range
  <2> QED BY <2>1, <2>2
<1>3. CASE (\E c \in Conn : Start(c)) \/ StartConnectFails \/ StartConnects \/ StartValidationFails \/ Stop
  <2>1. phase' # "started"
    BY <1>3 DEF Start, StartConnectFails, StartConnects, StartValidationFails, StartFailed, Stop
  <2> QED BY <2>1 DEF Started
<1>4. ASSUME NEW c \in Conn, Destroy(c) PROVE Attended'
  <2>1. /\ Evict(c, available) /\ c \in connections /\ RunCreateLoop
        /\ UNCHANGED <<pending, request, borrowJobs, validating, running, phase>>
    BY <1>4 DEF Destroy
  <2>2. Started
    BY <2>1 DEF SizeInv, PoolSizeBounded
  <2>3. createJobs' > 0
    BY <1>0, <2>1, <2>2 DEF RunCreateLoop
  <2> QED BY <1>a, <1>b, <2>1, <2>2, <2>3
<1>5. CASE CreateLoopEnds
  <2>1. /\ ~Started \/ EnoughConnections
        /\ UNCHANGED <<phase, available, connections, pending, request, borrowJobs, validating,
                       sleeping, creating, queued, recycling>>
        /\ running # "borrow"
    BY <1>5 DEF CreateLoopEnds, CreateLoopHead, Free
  <2>2. Asked => pending # <<>>
    BY DEF Asked, Range
  <2>3. pending # <<>> => Len(pending) # 0
    BY <1>0, EmptySeq
  <2>4. available = <<>> => ~(Len(available) > 0)
    BY EmptySeq
  <2>5. Started /\ Asked /\ available = <<>> => Cardinality(connections) >= MaxSize
    BY <2>1, <2>2, <2>3, <2>4 DEF EnoughConnections
  <2>6. (Asked' <=> Asked) /\ (Started' <=> Started)
    BY <2>1 DEF Asked, Started
  <2> QED BY <2>1, <2>5, <2>6
<1>6. CASE (\E c \in Conn : CreateConnection(c)) \/ CreateFails
  <2>1. /\ creating' # {} \/ sleeping'
        /\ UNCHANGED <<phase, available, pending, request, borrowJobs, validating>>
        /\ running # "borrow"
    BY <1>6 DEF CreateConnection, CreateFails, CreateLoopHead, Free
  <2> QED BY <1>b, <2>1 DEF Started
<1>7. ASSUME NEW c \in Conn, ConnectSucceeds(c) PROVE Attended'
  <2>1. RunBorrowLoop /\ phase' = phase
    BY <1>7 DEF ConnectSucceeds
  <2> QED BY <1>0, <2>1 DEF RunBorrowLoop, Started
<1>8. ASSUME NEW c \in Conn, ConnectFails(c) PROVE Attended'
  <2>1. /\ Evict(c, available) /\ sleeping'
        /\ UNCHANGED <<phase, pending, request, borrowJobs, validating, running>>
    BY <1>8 DEF ConnectFails
  <2> QED BY <1>a, <1>b, <2>1 DEF Started
<1>9. CASE RetryTimer
  <2>1. /\ createJobs' > 0
        /\ UNCHANGED <<phase, available, pending, request, borrowJobs, validating, running>>
    BY <1>0, <1>9 DEF RetryTimer
  <2> QED BY <1>b, <2>1 DEF Started
<1>10. CASE BorrowLoopEnds
  <2>1. (~Started \/ pending = <<>>) /\ UNCHANGED <<phase, pending, request>>
    BY <1>10 DEF BorrowLoopEnds
  <2> QED BY <2>1 DEF Started, Asked, Range
<1>11. CASE NoneAvailable
  <2>1. available' = <<>> /\ Started /\ RunCreateLoop
    BY <1>11 DEF NoneAvailable
  <2>2. createJobs' > 0
    BY <1>0, <2>1 DEF RunCreateLoop
  <2> QED BY <2>1, <2>2
<1>12. CASE SkipExpired \/ Validate
  BY <1>1, <1>12 DEF SkipExpired, Validate
<1>13. ASSUME NEW r \in Req, NEW c \in Conn,
              \/ \E ok \in BOOLEAN : ValidatedStopped(r, c, ok)
              \/ ValidationFailed(r, c) \/ ValidatedTooLate(r, c) \/ Lend(r, c)
       PROVE  Attended'
  BY <1>1, <1>13 DEF ValidatedStopped, ValidationFailed, ValidatedTooLate, Lend, Started
<1>14. ASSUME NEW r \in Req, Acquire(r) PROVE Attended'
  <2>1. RunBorrowLoop /\ phase' = phase
    BY <1>14 DEF Acquire
  <2> QED BY <1>0, <2>1 DEF RunBorrowLoop, Started
<1>15. ASSUME NEW r \in Req, AcquireTimeout(r) \/ ClientQueryFails(r) PROVE Attended'
  <2>1. /\ UNCHANGED <<phase, available, connections, pending, taskVars>>
        /\ UNCHANGED request \/ \E rs : request' = Rejected(rs)
    BY <1>15 DEF AcquireTimeout, ClientQueryFails
  <2> QED BY <1>b, <2>1 DEF Started
<1>16. ASSUME NEW r \in Req, Release(r) PROVE Attended'
  <2>1. /\ UNCHANGED <<phase, available, connections, pending, request, createVars, borrowVars,
                       recycling, running>>
        /\ QueueRelease(loan[r])
    BY <1>16 DEF Release
  <2>2. \A d \in Conn : queued[d] > 0 => queued'[d] > 0
    BY <1>0, <2>1 DEF QueueRelease
  <2> QED BY <1>b, <2>1, <2>2 DEF Started
<1>17. ASSUME NEW c \in Conn, ReleaseHandler(c) PROVE Attended'
  <2>1. /\ UNCHANGED <<phase, pending, request, createVars, validating, running>>
        /\ \/ RunBorrowLoop
           \/ /\ recycling' = [recycling EXCEPT ![c] = @ + 1]
              /\ UNCHANGED <<available, borrowJobs>>
    BY <1>17 DEF ReleaseHandler
  <2>2. CASE RunBorrowLoop
    BY <1>0, <2>1, <2>2 DEF RunBorrowLoop, Started
  <2>3. CASE recycling' = [recycling EXCEPT ![c] = @ + 1] /\ UNCHANGED <<available, borrowJobs>>
    <3>1. recycling'[c] > 0
      BY <1>0, <2>3
    <3> QED BY <1>b, <2>1, <2>3, <3>1 DEF Started
  <2> QED BY <2>1, <2>2, <2>3
<1>18. ASSUME NEW c \in Conn, Recycled(c) \/ RecycleFails(c) PROVE Attended'
  <2>1. RunBorrowLoop /\ phase' = phase
    BY <1>18 DEF Recycled, RecycleFails
  <2> QED BY <1>0, <2>1 DEF RunBorrowLoop, Started
<1>19. ASSUME NEW c \in Conn, BorrowTimeout(c) PROVE FALSE
  BY <1>19 DEF BorrowTimeout
<1>20. CASE UNCHANGED vars
  BY <1>20 DEF vars, Started, Asked
<1> QED BY <1>2, <1>3, <1>4, <1>5, <1>6, <1>7, <1>8, <1>9, <1>10, <1>11, <1>12, <1>13, <1>14,
           <1>15, <1>16, <1>17, <1>18, <1>19, <1>20 DEF Next, LoopStep

\* NoLostWakeUp, with the borrow timers off as in its run: a request waits with no
\* handler under way only while clients have all the connections there can be.  Every
\* handler that drops a connection, or ends with work left, runs a loop.
THEOREM WakesUp ==
    ASSUME Releases = 1, "destroyIdle" \notin Events, "borrowTimeout" \notin Events
    PROVE  Spec => []NoLostWakeUp
<1>1. Init => Attended
  BY DEF Init, Attended, Started
<1>2. Placement /\ SizeInv /\ Attended /\ [Next]_vars => Attended'
  BY NextAttended DEF Placement
<1>3. Placement /\ SizeInv /\ Owned /\ Attended => NoLostWakeUp
  <2> SUFFICES ASSUME Placement, SizeInv, Owned, Attended, Started, Asked, ~WorkInProgress
               PROVE  Cardinality(OnLoan \cap connections) = MaxSize
    BY DEF NoLostWakeUp, Asked
  <2>1. /\ running = "none" /\ createJobs = 0 /\ borrowJobs = 0 /\ ~sleeping
        /\ creating = {} /\ validating = {}
        /\ \A c \in Conn : queued[c] = 0 /\ ~(recycling[c] > 0)
    BY DEF WorkInProgress, Idle, Free
  <2>2. available = <<>> /\ Cardinality(connections) >= MaxSize
    BY <2>1 DEF Attended
  <2>3. ASSUME NEW c \in connections PROVE c \in OnLoan
    <3>1. c \in Conn /\ recycling[c] \in Nat
      BY DEF Placement, TypeOK
    <3>2. ~Idles(c) /\ Checkers(c) = {} /\ Back(c) = 0
      BY <2>1, <2>2, <3>1 DEF Idles, Range, Checkers, Back
    <3>3. Clients(c) # {}
      BY <2>1, <3>2 DEF Owned, Nowhere
    <3> QED BY <3>3 DEF Clients, OnLoan
  <2>4. OnLoan \cap connections = connections
    BY <2>3
  <2>5. Cardinality(connections) \in Nat /\ Cardinality(connections) <= MaxSize
    BY FS_CardinalityType DEF SizeInv, PoolSizeBounded
  <2>6. Cardinality(connections) = MaxSize
    BY <2>2, <2>5, SizesAssumption
  <2> QED BY <2>4, <2>6
<1>4. SizeInv /\ [Next]_vars => SizeInv'
  BY NextSize
<1> QED BY <1>1, <1>2, <1>3, <1>4, InitSize, PlacementInvariant, OwnedInvariant, PTL DEF Spec

=============================================================================
