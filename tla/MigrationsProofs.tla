----------------------------- MODULE MigrationsProofs -----------------------------
(***************************************************************************)
(* Theorems about Migrations, for any number of migrators and of calls,    *)
(* any groups, any releases and any failures: the table of migrations      *)
(* agrees with the database, and a success means that all is applied.      *)
(***************************************************************************)
EXTENDS Migrations, FiniteSetTheorems, TLAPS

File == UNION Release
Rows == {Row(m, f) : m \in Migrator, f \in File}
Pcs == {"idle", "begin", "waiting", "created", "locked", "applying", "recording",
        "done", "failed", "hung"}

\* S is what took effect in the sequence s; nothing of s did so twice.
Agree(S, s) == S = {s[i] : i \in DOMAIN s}
Distinct(s) == \A i, j \in DOMAIN s : KeyOf(s[i]) = KeyOf(s[j]) => i = j

Types ==
    /\ recorded \in SUBSET Rows /\ history \in Seq(Rows)
    /\ files \in [Migrator -> Seq(File)] /\ next \in [Migrator -> Nat]
    /\ pc \in [Migrator -> Pcs]
    /\ applied \in [Migrator -> SUBSET Rows] /\ rows \in [Migrator -> SUBSET Rows]
    /\ effects \in [Migrator -> Seq(Rows)]
    /\ holder \subseteq Migrator

\* A transaction that reads or writes the rows has the lock.
Lock == \A m \in Migrator :
    pc[m] \in {"locked", "applying", "recording"} => holder = {m}

\* What a transaction selected is what is recorded, for it has the lock; its rows
\* agree with its effects, but for the effect it has not recorded yet.
Transaction(m) ==
    /\ pc[m] \notin {"applying", "recording"} => rows[m] = {} /\ effects[m] = <<>>
    /\ pc[m] \in {"applying", "recording"} =>
          applied[m] = {r \in recorded : r.group = Group[m]}
    /\ pc[m] = "applying" =>
          Agree(rows[m], effects[m]) /\ Distinct(history \o effects[m])
    /\ pc[m] = "recording" =>
          \E e \in Seq(Rows) : /\ effects[m] = Append(e, Row(m, Current(m)))
                               /\ Agree(rows[m], e) /\ Distinct(history \o e)

\* The files the loop is past are recorded, or will be when it commits.
Progress(m) ==
    /\ pc[m] \in {"begin", "waiting", "created", "locked"} => next[m] = 0
    /\ pc[m] = "recording" => next[m] < Len(files[m])
    /\ pc[m] \in {"applying", "recording"} =>
          /\ next[m] <= Len(files[m])
          /\ \A i \in 1 .. next[m] : Row(m, files[m][i]) \in recorded \cup rows[m]

Success(m) == pc[m] = "done" =>
    \A i \in DOMAIN files[m] : Row(m, files[m][i]) \in recorded

Mine(m) == Transaction(m) /\ Progress(m) /\ Success(m)
Inv == Types /\ Lock /\ (\A m \in Migrator : Mine(m)) /\ Recorded

-----------------------------------------------------------------------------
(* Sequences of rows.                                                      *)

LEMMA AgreeConcat ==
    ASSUME NEW s \in Seq(Rows), NEW t \in Seq(Rows), NEW S, NEW T,
           Agree(S, s), Agree(T, t)
    PROVE  Agree(S \cup T, s \o t)
<1>1. \A i \in DOMAIN s : i \in DOMAIN (s \o t) /\ (s \o t)[i] = s[i]
  OBVIOUS
<1>2. \A i \in DOMAIN t : Len(s) + i \in DOMAIN (s \o t) /\ (s \o t)[Len(s) + i] = t[i]
  OBVIOUS
<1>3. \A i \in DOMAIN (s \o t) :
        (i \in DOMAIN s /\ (s \o t)[i] = s[i])
        \/ (i - Len(s) \in DOMAIN t /\ (s \o t)[i] = t[i - Len(s)])
  OBVIOUS
<1> DEFINE st == s \o t
<1>4. ASSUME NEW r \in S \cup T PROVE \E i \in DOMAIN st : r = st[i]
  <2>1. CASE r \in S
    <3>1. PICK i \in DOMAIN s : r = s[i]
      BY <2>1 DEF Agree
    <3> QED BY <3>1, <1>1
  <2>2. CASE r \in T
    <3>1. PICK i \in DOMAIN t : r = t[i]
      BY <2>2 DEF Agree
    <3> QED BY <3>1, <1>2
  <2> QED BY <2>1, <2>2
<1>5. ASSUME NEW i \in DOMAIN st PROVE st[i] \in S \cup T
  <2>1. CASE i \in DOMAIN s /\ st[i] = s[i]
    BY <2>1 DEF Agree
  <2>2. CASE i - Len(s) \in DOMAIN t /\ st[i] = t[i - Len(s)]
    BY <2>2 DEF Agree
  <2> QED BY <2>1, <2>2, <1>3
<1> HIDE DEF st
<1>6. Agree(S \cup T, st)
  BY <1>4, <1>5 DEF Agree
<1> QED BY <1>6 DEF st

LEMMA AppendRow ==
    ASSUME NEW s \in Seq(Rows), NEW x \in Rows, NEW S, Agree(S, s)
    PROVE  /\ Agree(S \cup {x}, Append(s, x))
           /\ Distinct(s) /\ (\A r \in S : KeyOf(r) # KeyOf(x)) => Distinct(Append(s, x))
<1>1. DOMAIN Append(s, x) = 1 .. Len(s) + 1 /\ DOMAIN s = 1 .. Len(s) /\ Len(s) \in Nat
  OBVIOUS
<1>2. /\ \A i \in 1 .. Len(s) : Append(s, x)[i] = s[i]
      /\ Append(s, x)[Len(s) + 1] = x
  OBVIOUS
<1>3. Agree(S \cup {x}, Append(s, x))
  BY <1>1, <1>2 DEF Agree
<1>4. ASSUME Distinct(s), \A r \in S : KeyOf(r) # KeyOf(x) PROVE Distinct(Append(s, x))
  <2>1. \A i \in 1 .. Len(s) : KeyOf(s[i]) # KeyOf(x)
    BY <1>1, <1>4 DEF Agree
  <2> QED BY <1>1, <1>2, <1>4, <2>1 DEF Distinct
<1> QED BY <1>3, <1>4

LEMMA ConcatAppend ==
    ASSUME NEW s \in Seq(Rows), NEW t \in Seq(Rows), NEW x \in Rows
    PROVE  s \o Append(t, x) = Append(s \o t, x)
OBVIOUS

\* The files of a release, in whatever order they were found.
LEMMA SortedFiles ==
    ASSUME NEW F \in Release, NEW s \in Sorted(F)
    PROVE  s \in Seq(File)
<1>1. s \in [1 .. Cardinality(F) -> F]
  BY DEF Sorted, SetToSeqs
<1>2. Cardinality(F) \in Nat
  BY ReleaseAssumption, FS_CardinalityType
<1> QED BY <1>1, <1>2 DEF File

-----------------------------------------------------------------------------
LEMMA InitInv == Init => Inv
<1> SUFFICES ASSUME Init PROVE Inv
  OBVIOUS
<1>1. Types
  BY DEF Init, Types, Pcs
<1>2. Lock /\ Recorded
  BY DEF Init, Lock, Recorded
<1>3. \A m \in Migrator : Mine(m)
  BY DEF Init, Mine, Transaction, Progress, Success
<1> QED BY <1>1, <1>2, <1>3 DEF Inv

\* What is Mine depends on the variables of m, and on what is recorded.
LEMMA Frame ==
    ASSUME NEW m \in Migrator, Mine(m), UNCHANGED <<recorded, history>>,
           pc'[m] = pc[m], files'[m] = files[m], next'[m] = next[m],
           applied'[m] = applied[m], rows'[m] = rows[m], effects'[m] = effects[m]
    PROVE  Mine(m)'
BY DEF Mine, Transaction, Progress, Success, Current

\* A call that has not reached the lock concerns nobody.
LEMMA EarlyInv ==
    ASSUME Inv, NEW m \in Migrator, NEW p \in {"waiting", "created"},
           pc[m] \in {"begin", "waiting"}, pc' = [pc EXCEPT ![m] = p],
           UNCHANGED <<recorded, history, holder, files, next, applied, rows, effects>>
    PROVE  Inv'
<1>1. Types' /\ Lock' /\ Recorded'
  BY DEF Inv, Types, Lock, Recorded, Pcs
<1>2. \A d \in Migrator \ {m} : Mine(d)'
  BY Frame DEF Inv, Types
<1>3. Mine(m)'
  BY DEF Inv, Types, Mine, Transaction, Progress, Success
<1> QED BY <1>1, <1>2, <1>3 DEF Inv

LEMMA RunInv ==
    ASSUME Inv, NEW m \in Migrator, NEW F \in Release, Run(m, F)
    PROVE  Inv'
<1>1. PICK s \in Sorted(F) : files' = [files EXCEPT ![m] = s]
  BY DEF Run
<1>2. s \in Seq(File)
  BY SortedFiles
<1>3. Types' /\ Lock' /\ Recorded'
  BY <1>1, <1>2 DEF Run, Inv, Types, Lock, Recorded, Pcs, database, tx
<1>4. \A d \in Migrator \ {m} : Mine(d)'
  BY <1>1, Frame DEF Run, Inv, Types, database, tx
<1>5. Mine(m)'
  BY <1>1 DEF Run, Inv, Types, Mine, Transaction, Progress, Success, database, tx
<1> QED BY <1>3, <1>4, <1>5 DEF Inv

\* A call that throws or hangs leaves what is committed to those who have the lock.
LEMMA LeaveInv ==
    ASSUME Inv, NEW m \in Migrator, NEW end \in {"failed", "hung"}, Leave(m, end)
    PROVE  Inv'
<1>1. Types' /\ Lock' /\ Recorded'
  BY DEF Leave, Forget, Inv, Types, Lock, Recorded, Pcs, database
<1>2. \A d \in Migrator \ {m} : Mine(d)'
  BY Frame DEF Leave, Forget, Inv, Types, database
<1>3. Mine(m)'
  BY DEF Leave, Forget, Inv, Types, Mine, Transaction, Progress, Success
<1> QED BY <1>1, <1>2, <1>3 DEF Inv

LEMMA AbandonInv ==
    ASSUME Inv, NEW m \in Migrator, Abandon(m)
    PROVE  Inv'
BY LeaveInv DEF Abandon

LEMMA LockInv ==
    ASSUME Inv, NEW m \in Migrator, LockTable(m) \/ Select(m)
    PROVE  Inv'
<1>1. Types'
  BY DEF LockTable, Select, Inv, Types, Pcs, database, tx
<1>2. Lock' /\ Recorded'
  <2>1. Recorded'
    BY DEF LockTable, Select, Inv, Recorded, database
  <2>2. CASE LockTable(m)
    <3>1. \A d \in Migrator : pc[d] \notin {"locked", "applying", "recording"}
      BY <2>2 DEF LockTable, Inv, Lock
    <3>2. \A d \in Migrator \ {m} : pc'[d] = pc[d]
      BY <2>2 DEF LockTable, Inv, Types
    <3> QED BY <2>1, <2>2, <3>1, <3>2 DEF LockTable, Lock
  <2>3. CASE Select(m)
    <3>1. \A d \in Migrator \ {m} : pc'[d] = pc[d]
      BY <2>3 DEF Select, Inv, Types
    <3>2. holder' = holder /\ holder = {m}
      BY <2>3 DEF Select, Inv, Lock
    <3> QED BY <2>1, <3>1, <3>2 DEF Inv, Lock
  <2> QED BY <2>2, <2>3
<1>3. \A d \in Migrator \ {m} : Mine(d)'
  BY Frame DEF LockTable, Select, Inv, Types, database, tx
<1>4. CASE LockTable(m)
  <2>1. Mine(m)'
    BY <1>4 DEF LockTable, Inv, Types, Mine, Transaction, Progress, Success, database, tx
  <2> QED BY <1>1, <1>2, <1>3, <2>1 DEF Inv
<1>5. CASE Select(m)
  <2>1. rows[m] = {} /\ effects[m] = <<>> /\ next[m] = 0
    BY <1>5 DEF Select, Inv, Mine, Transaction, Progress
  <2>2. /\ pc'[m] = "applying" /\ UNCHANGED <<recorded, history, files, next, rows, effects>>
        /\ applied'[m] = {r \in recorded : r.group = Group[m]}
    BY <1>5 DEF Select, Inv, Types, database
  <2>3. history \o <<>> = history /\ Distinct(history) /\ Agree({}, <<>>)
    BY DEF Inv, Types, Recorded, Distinct, Agree
  <2>4. Transaction(m)'
    BY <2>1, <2>2, <2>3 DEF Transaction
  <2>5. Progress(m)' /\ Success(m)'
    BY <2>1, <2>2 DEF Progress, Success, Inv, Types
  <2> QED BY <1>1, <1>2, <1>3, <2>4, <2>5 DEF Inv, Mine
<1> QED BY <1>4, <1>5

-----------------------------------------------------------------------------
(* The loop.                                                               *)

LEMMA CurrentRow ==
    ASSUME Types, NEW m \in Migrator, next[m] < Len(files[m])
    PROVE  Current(m) \in File /\ Row(m, Current(m)) \in Rows
<1>1. next[m] + 1 \in 1 .. Len(files[m])
  BY DEF Types
<1>2. Current(m) \in File
  BY <1>1 DEF Types, Current
<1> QED BY <1>2 DEF Rows

LEMMA SkipInv ==
    ASSUME Inv, NEW m \in Migrator, Skip(m)
    PROVE  Inv'
<1>1. CASE Abandon(m)
  BY <1>1, AbandonInv
<1>2. CASE ~Abandon(m)
  <2>1. PICK r \in Previous(m, Current(m)) :
            /\ r.sha = Current(m).sha
            /\ next' = [next EXCEPT ![m] = @ + 1]
            /\ UNCHANGED <<database, holder, pc, files, tx, runs>>
    BY <1>2 DEF Skip
  <2>2. pc[m] = "applying" /\ next[m] < Len(files[m])
    BY DEF Skip, Looping
  <2>3. r \in recorded /\ r.group = Group[m] /\ r.number = Current(m).number
    BY <2>1, <2>2 DEF Previous, Inv, Mine, Transaction
  <2>4. r = Row(m, Current(m))
    <3>1. PICK d \in Migrator, f \in File : r = Row(d, f)
      BY <2>3 DEF Inv, Types, Rows
    <3> QED BY <2>1, <2>3, <3>1 DEF Row
  <2>5. Types' /\ Lock' /\ Recorded'
    BY <2>1 DEF Inv, Types, Lock, Recorded, database, tx
  <2>6. \A d \in Migrator \ {m} : Mine(d)'
    BY <2>1, Frame DEF Inv, Types, database, tx
  <2>7. Transaction(m)' /\ Success(m)'
    BY <2>1, <2>2 DEF Inv, Mine, Transaction, Success, database, tx
  <2>8. \A i \in 1 .. next[m] + 1 : Row(m, files[m][i]) \in recorded \cup rows[m]
    BY <2>2, <2>3, <2>4 DEF Inv, Types, Mine, Progress, Current
  <2>9. Progress(m)'
    BY <2>1, <2>2, <2>8 DEF Inv, Types, Progress, database, tx
  <2> QED BY <2>5, <2>6, <2>7, <2>9 DEF Inv, Mine
<1> QED BY <1>1, <1>2

LEMMA RunContentsInv ==
    ASSUME Inv, NEW m \in Migrator, RunContents(m)
    PROVE  Inv'
<1>1. CASE Abandon(m)
  BY <1>1, AbandonInv
<1>2. CASE ~Abandon(m)
  <2>1. /\ effects' = [effects EXCEPT ![m] = Append(@, Row(m, Current(m)))]
        /\ pc' = [pc EXCEPT ![m] = "recording"]
        /\ UNCHANGED <<recorded, history, holder, files, next, applied, rows>>
        /\ pc[m] = "applying" /\ next[m] < Len(files[m])
    BY <1>2 DEF RunContents, Looping, database
  <2>2. Row(m, Current(m)) \in Rows
    BY <2>1, CurrentRow DEF Inv
  <2>3. Types' /\ Lock' /\ Recorded'
    BY <2>1, <2>2 DEF Inv, Types, Lock, Recorded, Pcs
  <2>4. \A d \in Migrator \ {m} : Mine(d)'
    BY <2>1, Frame DEF Inv, Types
  <2>5. Transaction(m)'
    <3>1. pc'[m] = "recording" /\ Current(m)' = Current(m)
      BY <2>1 DEF Inv, Types, Current
    <3>2. /\ effects[m] \in Seq(Rows) /\ Agree(rows'[m], effects[m])
          /\ Distinct(history' \o effects[m])
          /\ effects'[m] = Append(effects[m], Row(m, Current(m)'))
      BY <2>1, <3>1 DEF Inv, Types, Mine, Transaction
    <3>3. applied'[m] = {r \in recorded' : r.group = Group[m]}
      BY <2>1 DEF Inv, Mine, Transaction
    <3>4. Row(m, Current(m))' = Row(m, Current(m)')
      BY DEF Row
    <3> QED BY <3>1, <3>2, <3>3, <3>4 DEF Transaction
  <2>6. Progress(m)' /\ Success(m)'
    BY <2>1 DEF Inv, Types, Mine, Progress, Success
  <2> QED BY <2>3, <2>4, <2>5, <2>6 DEF Inv, Mine
<1> QED BY <1>1, <1>2

\* The primary key refuses what would be the second effect of a migration.
LEMMA RecordInv ==
    ASSUME Inv, NEW m \in Migrator, Record(m)
    PROVE  Inv'
<1>1. CASE Abandon(m)
  BY <1>1, AbandonInv
<1>2. CASE ~Abandon(m)
  <2> DEFINE x == Row(m, Current(m))
  <2>1. /\ rows' = [rows EXCEPT ![m] = @ \cup {x}]
        /\ next' = [next EXCEPT ![m] = @ + 1]
        /\ pc' = [pc EXCEPT ![m] = "applying"]
        /\ UNCHANGED <<recorded, history, holder, files, applied, effects>>
        /\ pc[m] = "recording"
        /\ \A r \in recorded \cup rows[m] : KeyOf(r) # Key(m, Current(m))
    BY <1>2 DEF Record, Recording, database
  <2>2. next[m] < Len(files[m]) /\ x \in Rows
    BY <2>1, CurrentRow DEF Inv, Mine, Progress
  <2>3. Types' /\ Lock' /\ Recorded'
    BY <2>1, <2>2 DEF Inv, Types, Lock, Recorded, Pcs
  <2>4. \A d \in Migrator \ {m} : Mine(d)'
    BY <2>1, Frame DEF Inv, Types
  <2>5. Transaction(m)'
    <3>1. PICK e \in Seq(Rows) : /\ effects[m] = Append(e, x)
                                 /\ Agree(rows[m], e) /\ Distinct(history \o e)
      BY <2>1 DEF Inv, Mine, Transaction
    <3>2. Agree(rows[m] \cup {x}, effects[m])
      BY <2>2, <3>1, AppendRow
    <3>3. Agree(recorded, history) /\ history \in Seq(Rows)
      BY DEF Inv, Types, Recorded, Agree
    <3>4. Agree(recorded \cup rows[m], history \o e) /\ history \o e \in Seq(Rows)
      BY <3>1, <3>3, AgreeConcat
    <3>5. \A r \in recorded \cup rows[m] : KeyOf(r) # KeyOf(x)
      BY <2>1 DEF KeyOf, Key, Row
    <3>6. Distinct(history \o effects[m])
      <4>1. Distinct(Append(history \o e, x))
        BY <2>2, <3>1, <3>4, <3>5, AppendRow
      <4>2. history \o effects[m] = Append(history \o e, x)
        BY <2>2, <3>1, <3>3, ConcatAppend
      <4> QED BY <4>1, <4>2
    <3>7. /\ pc'[m] = "applying" /\ rows'[m] = rows[m] \cup {x} /\ effects' = effects
          /\ applied'[m] = {r \in recorded' : r.group = Group[m]} /\ history' = history
      BY <2>1 DEF Inv, Types, Mine, Transaction
    <3> QED BY <3>2, <3>6, <3>7 DEF Transaction
  <2>6. Progress(m)' /\ Success(m)'
    <3>1. \A i \in 1 .. next[m] + 1 : Row(m, files[m][i]) \in recorded \cup (rows[m] \cup {x})
      <4>1. \A i \in 1 .. next[m] : Row(m, files[m][i]) \in recorded \cup rows[m]
        BY <2>1 DEF Inv, Mine, Progress
      <4>2. x = Row(m, files[m][next[m] + 1])
        BY DEF Current
      <4>3. next[m] \in Nat
        BY DEF Inv, Types
      <4> QED BY <4>1, <4>2, <4>3
    <3> QED BY <2>1, <2>2, <3>1 DEF Inv, Types, Progress, Success
  <2> QED BY <2>3, <2>4, <2>5, <2>6 DEF Inv, Mine
<1> QED BY <1>1, <1>2

\* Nobody else is past the lock, so nobody else sees the rows change.
LEMMA CommitInv ==
    ASSUME Inv, NEW m \in Migrator, Commit(m)
    PROVE  Inv'
<1>1. PICK end \in {"done", "failed", "hung"} :
        /\ recorded' = recorded \cup rows[m] /\ history' = history \o effects[m]
        /\ pc' = [pc EXCEPT ![m] = end]
        /\ pc[m] = "applying" /\ ~(next[m] < Len(files[m]))
        /\ Forget(m) /\ UNCHANGED <<files, next>>
  BY DEF Commit, Looping
<1>2. Agree(rows[m], effects[m]) /\ Distinct(history \o effects[m])
  BY <1>1 DEF Inv, Mine, Transaction
<1>3. Types'
  BY <1>1 DEF Inv, Types, Pcs, Forget
<1>4. Recorded'
  <2>1. Agree(recorded, history) /\ history \in Seq(Rows) /\ effects[m] \in Seq(Rows)
    BY DEF Inv, Types, Recorded, Agree
  <2>2. Agree(recorded', history') /\ Distinct(history')
    BY <1>1, <1>2, <2>1, AgreeConcat
  <2> QED BY <2>2 DEF Recorded, Agree, Distinct
<1>5. Lock'
  BY <1>1 DEF Inv, Types, Lock, Forget
<1>6. ASSUME NEW d \in Migrator \ {m} PROVE Mine(d)'
  <2>1. pc[d] \notin {"locked", "applying", "recording"}
    BY <1>1 DEF Inv, Lock
  <2>2. pc'[d] = pc[d] /\ rows'[d] = rows[d] /\ effects'[d] = effects[d]
    BY <1>1 DEF Inv, Types, Forget
  <2> QED BY <1>1, <2>1, <2>2 DEF Inv, Mine, Transaction, Progress, Success
<1>7. Mine(m)'
  <2>1. next[m] = Len(files[m]) /\ DOMAIN files[m] = 1 .. Len(files[m])
    BY <1>1 DEF Inv, Types, Mine, Progress
  <2>2. \A i \in DOMAIN files[m] : Row(m, files[m][i]) \in recorded'
    BY <1>1, <2>1 DEF Inv, Mine, Progress
  <2> QED BY <1>1, <2>2 DEF Inv, Types, Mine, Transaction, Progress, Success, Forget
<1> QED BY <1>3, <1>4, <1>5, <1>6, <1>7 DEF Inv

-----------------------------------------------------------------------------
LEMMA NextInv == Inv /\ [Next]_vars => Inv'
<1> SUFFICES ASSUME Inv, [Next]_vars PROVE Inv'
  OBVIOUS
<1>1. CASE UNCHANGED vars
  <2>1. Types' /\ Lock' /\ Recorded'
    BY <1>1 DEF vars, database, tx, Inv, Types, Lock, Recorded
  <2>2. \A m \in Migrator : Mine(m)'
    BY <1>1, Frame DEF vars, database, tx, Inv
  <2> QED BY <2>1, <2>2 DEF Inv
<1>2. ASSUME NEW m \in Migrator, NEW F \in Release, Run(m, F) PROVE Inv'
  BY <1>2, RunInv
<1>3. ASSUME NEW m \in Migrator, CreateTable(m) \/ CreateAfterWait(m) PROVE Inv'
  <2>1. CASE Abandon(m)
    BY <2>1, AbandonInv
  <2>2. CASE ~Abandon(m)
    <3>1. /\ \E p \in {"waiting", "created"} : pc' = [pc EXCEPT ![m] = p]
          /\ pc[m] \in {"begin", "waiting"}
          /\ UNCHANGED <<recorded, history, holder, files, next, applied, rows, effects>>
      BY <1>3, <2>2 DEF CreateTable, CreateAfterWait, database
    <3> QED BY <3>1, EarlyInv
  <2> QED BY <2>1, <2>2
<1>4. ASSUME NEW m \in Migrator, LockTable(m) \/ Select(m) PROVE Inv'
  BY <1>4, LockInv
<1>5. ASSUME NEW m \in Migrator, Skip(m) PROVE Inv'
  BY <1>5, SkipInv
<1>6. ASSUME NEW m \in Migrator, RunContents(m) PROVE Inv'
  BY <1>6, RunContentsInv
<1>7. ASSUME NEW m \in Migrator, Record(m) PROVE Inv'
  BY <1>7, RecordInv
<1>8. ASSUME NEW m \in Migrator, Commit(m) PROVE Inv'
  BY <1>8, CommitInv
<1>9. ASSUME NEW m \in Migrator, Disconnect(m) PROVE Inv'
  BY <1>9, AbandonInv DEF Disconnect
<1>10. ASSUME NEW m \in Migrator, BorrowTimeout(m) PROVE Inv'
  BY <1>10, LeaveInv DEF BorrowTimeout
<1> QED BY <1>10, <1>1, <1>2, <1>3, <1>4, <1>5, <1>6, <1>7, <1>8, <1>9 DEF Next, Proceed

LEMMA Invariance == Spec => []Inv
BY InitInv, NextInv, PTL DEF Spec

\* The table of migrations and the database agree, each migration took effect once.
THEOREM RecordedAlways == Spec => []Recorded
<1>1. Inv => Recorded
  BY DEF Inv
<1> QED BY <1>1, Invariance, PTL

\* A migrator that reports success has applied, or found, all of its files.
THEOREM SuccessIsComplete == Spec => []Migrated
<1>1. Inv => Migrated
  BY DEF Inv, Mine, Success, Migrated
<1> QED BY <1>1, Invariance, PTL
=============================================================================
