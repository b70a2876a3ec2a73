------------------------------ MODULE Migrations ------------------------------
(***************************************************************************)
(* migrate() of utils/src/migrate.ts: several migrators, each with the SQL *)
(* files of its own checkout, apply what is missing from one database in   *)
(* one transaction each, under a lock of the table "$migrations".          *)
(*                                                                         *)
(* PostgreSQL is modelled as migrate() uses it, in READ COMMITTED: what a  *)
(* transaction did is visible to the others when it commits, and vanishes  *)
(* with its connection.  A migration is its number and its checksum; what  *)
(* it does to the database is one entry of "history".                      *)
(***************************************************************************)
EXTENDS Integers, Sequences, FiniteSets, SequencesExt

CONSTANTS Migrator,
          Release,      \* the sets of files a migrator may be started with
          Group,        \* the group of each migrator
          MaxRuns,      \* bound: calls of migrate()
          Events        \* what may go wrong

ASSUME ReleaseAssumption == \A F \in Release : IsFiniteSet(F)

VARIABLES table,        \* "$migrations": absent, or present once committed
          recorded,     \* its committed rows
          history,      \* the migrations whose effects are committed
          holder,       \* the set of transactions that hold the lock
          pc,           \* where a call of migrate() is
          files,        \* migrationFiles
          next,         \* how many of them its loop is past
          applied,      \* the rows it selected
          creates,      \* its transaction created the table
          rows,         \* the rows its transaction inserted
          effects,      \* the migrations its transaction ran
          runs          \* how many calls were made

tx == <<applied, creates, rows, effects>>
database == <<table, recorded, history>>
vars == <<database, holder, pc, files, next, tx, runs>>

May(event) == event \in Events
Key(m, f) == [group |-> Group[m], number |-> f.number]
Row(m, f) == [group |-> Group[m], number |-> f.number, sha |-> f.sha]
Looping(m) == pc[m] = "applying" /\ next[m] < Len(files[m])
Current(m) == files[m][next[m] + 1]
KeyOf(row) == [group |-> row.group, number |-> row.number]

-----------------------------------------------------------------------------
\* Files are found in any order and sorted by number alone: two of the same
\* number, say of an additional directory, stay in the order they were found.
Sorted(F) == {s \in SetToSeqs(F) :
                \A i, j \in DOMAIN s : i < j => s[i].number <= s[j].number}

Run(m, F) ==
    /\ pc[m] \in {"idle", "done", "failed"} /\ runs < MaxRuns
    /\ runs' = runs + 1
    /\ \E s \in Sorted(F) : files' = [files EXCEPT ![m] = s]
    /\ next' = [next EXCEPT ![m] = 0]
    /\ pc' = [pc EXCEPT ![m] = "begin"]
    /\ UNCHANGED <<database, holder, tx>>

\* The end of a transaction, by ROLLBACK or because its connection is gone.
MutantKeepLock(m) ==
    /\ applied' = [applied EXCEPT ![m] = {}]
    /\ creates' = creates \ {m}
    /\ rows' = [rows EXCEPT ![m] = {}]
    /\ effects' = [effects EXCEPT ![m] = <<>>]
    /\ UNCHANGED holder
Forget(m) ==
    /\ applied' = [applied EXCEPT ![m] = {}]
    /\ creates' = creates \ {m}
    /\ rows' = [rows EXCEPT ![m] = {}]
    /\ effects' = [effects EXCEPT ![m] = <<>>]
    /\ holder' = holder \ {m}

\* A call goes no further, and its transaction vanishes.
Leave(m, end) ==
    /\ pc' = [pc EXCEPT ![m] = end]
    /\ Forget(m)
    /\ UNCHANGED <<database, files, next, runs>>

\* migrate() throws: "await using" closes its connection.
Abandon(m) == Leave(m, "failed")

\* CREATE TABLE IF NOT EXISTS: done if the table is there; two transactions may
\* both find it missing, and the second waits for the first.
CreateTable(m) ==
    /\ pc[m] = "begin"
    /\ \/ table = "present" /\ UNCHANGED creates
                            /\ pc' = [pc EXCEPT ![m] = "created"]
       \/ /\ table = "absent" /\ creates = {}
          /\ creates' = creates \cup {m}
          /\ pc' = [pc EXCEPT ![m] = "created"]
       \/ /\ table = "absent" /\ creates # {}
          /\ pc' = [pc EXCEPT ![m] = "waiting"]
          /\ UNCHANGED creates
    /\ UNCHANGED <<database, holder, files, next, applied, rows, effects, runs>>

\* The wait ends with that transaction: if it committed the name is taken, and
\* CREATE fails on a unique index of the catalogue.
CreateAfterWait(m) ==
    /\ pc[m] = "waiting" /\ creates = {}
    /\ \/ table = "present" /\ Abandon(m)
       \/ /\ table = "absent"
          /\ creates' = creates \cup {m}
          /\ pc' = [pc EXCEPT ![m] = "created"]
          /\ UNCHANGED <<database, holder, files, next, applied, rows, effects, runs>>

LockTable(m) ==
    /\ pc[m] = "created"
    /\ holder = {}
    /\ holder' = {m}
    /\ pc' = [pc EXCEPT ![m] = "locked"]
    /\ UNCHANGED <<database, files, next, tx, runs>>

Select(m) ==
    /\ pc[m] = "locked"
    /\ applied' = [applied EXCEPT ![m] = {r \in recorded : r.group = Group[m]}]
    /\ pc' = [pc EXCEPT ![m] = "applying"]
    /\ UNCHANGED <<database, holder, files, next, creates, rows, effects, runs>>

-----------------------------------------------------------------------------
(* The loop over the files.                                                *)

Previous(m, f) == {r \in applied[m] : r.number = f.number}

\* A file recorded with the same checksum is skipped, with another it fails.
MutantTrusting(m) ==
    /\ Looping(m)
    /\ Previous(m, Current(m)) # {}
    /\ next' = [next EXCEPT ![m] = @ + 1]
    /\ UNCHANGED <<database, holder, pc, files, tx, runs>>
Skip(m) ==
    /\ Looping(m)
    /\ \E r \in Previous(m, Current(m)) :
        \/ /\ r.sha = Current(m).sha
           /\ next' = [next EXCEPT ![m] = @ + 1]
           /\ UNCHANGED <<database, holder, pc, files, tx, runs>>
        \/ r.sha # Current(m).sha /\ Abandon(m)

\* A file that is not recorded is run ...
RunContents(m) ==
    /\ Looping(m)
    /\ Previous(m, Current(m)) = {}
    /\ \/ /\ effects' = [effects EXCEPT ![m] = Append(@, Row(m, Current(m)))]
          /\ pc' = [pc EXCEPT ![m] = "recording"]
          /\ UNCHANGED <<database, holder, files, next, applied, creates, rows, runs>>
       \/ May("contentsFail") /\ Abandon(m)

\* ... and recorded; the primary key refuses a number twice.
Recording(m) ==
    /\ rows' = [rows EXCEPT ![m] = @ \cup {Row(m, Current(m))}]
    /\ next' = [next EXCEPT ![m] = @ + 1]
    /\ pc' = [pc EXCEPT ![m] = "applying"]
    /\ UNCHANGED <<database, holder, files, applied, creates, effects, runs>>
MutantIgnoreConflict(m) ==
    /\ pc[m] = "recording"
    /\ Recording(m)
Record(m) ==
    /\ pc[m] = "recording"
    /\ LET taken == \E r \in recorded \cup rows[m] :
                       KeyOf(r) = Key(m, Current(m))
       IN  (~taken /\ Recording(m)) \/ (taken /\ Abandon(m))

-----------------------------------------------------------------------------
\* COMMIT is executed; the migrator may lose its connection before it knows, or
\* have it destroyed and never know.
Commit(m) ==
    /\ pc[m] = "applying" /\ ~Looping(m)
    /\ table' = "present"
    /\ recorded' = recorded \cup rows[m]
    /\ history' = history \o effects[m]
    /\ \E end \in {"done", "failed", "hung"} :
        /\ end = "failed" => May("disconnect")
        /\ end = "hung" => May("borrowTimeout")
        /\ pc' = [pc EXCEPT ![m] = end]
    /\ Forget(m)
    /\ UNCHANGED <<files, next, runs>>

Underway(m) == pc[m] \notin {"idle", "done", "failed", "hung"}

\* The server or the network closes the connection, which fails the query under
\* way, or the migrator is killed.
Disconnect(m) ==
    /\ May("disconnect")
    /\ Underway(m)
    /\ Abandon(m)

\* The pool destroys a connection that is borrowed for too long, its own or that
\* of the server: the query under way, and there always is one, never settles
\* (Abandoned of Connection).  migrate() neither returns nor throws.
BorrowTimeout(m) ==
    /\ May("borrowTimeout")
    /\ Underway(m)
    /\ Leave(m, "hung")

Init ==
    /\ next = [m \in Migrator |-> 0]
    /\ table = "absent" /\ recorded = {} /\ history = <<>>
    /\ holder = {}
    /\ pc = [m \in Migrator |-> "idle"]
    /\ files = [m \in Migrator |-> <<>>]
    /\ applied = [m \in Migrator |-> {}]
    /\ creates = {}
    /\ rows = [m \in Migrator |-> {}]
    /\ effects = [m \in Migrator |-> <<>>]
    /\ runs = 0

Proceed(m) ==
    \/ CreateTable(m) \/ CreateAfterWait(m) \/ LockTable(m) \/ Select(m)
    \/ Skip(m) \/ RunContents(m) \/ Record(m) \/ Commit(m)

Next ==
    \E m \in Migrator :
        \/ \E F \in Release : Run(m, F)
        \/ Proceed(m)
        \/ Disconnect(m) \/ BorrowTimeout(m)

Spec == Init /\ [][Next]_vars

\* PostgreSQL answers, and grants a lock that stays free.
FairSpec == Spec /\ \A m \in Migrator : WF_vars(Proceed(m))

-----------------------------------------------------------------------------
(* Properties.                                                             *)

\* The table of migrations says what was done to the database: each migration
\* took effect once, with the contents whose checksum was recorded, and nothing
\* took effect that is not recorded, whoever raced, failed or was cut off; and
\* two migrations of one group with the same number never both took effect.
Recorded ==
    /\ \A i, j \in DOMAIN history :
          KeyOf(history[i]) = KeyOf(history[j]) => i = j
    /\ recorded = {history[i] : i \in DOMAIN history}

\* A migrator that reports success has every file of its release applied, with
\* the contents it has: what it skipped is what somebody else applied.
Migrated ==
    \A m \in Migrator : pc[m] = "done" =>
        \A i \in DOMAIN files[m] : Row(m, files[m][i]) \in recorded

\* A call of migrate() ends, unless the pool has destroyed its connection: no two
\* migrators wait for each other, on the lock or on the creation of the table, nor
\* does any wait for one that failed, or for one that hangs.
Ends ==
    \A m \in Migrator : pc[m] = "begin" ~> pc[m] \in {"done", "failed", "hung"}
=============================================================================
