---------------------------- MODULE MCMigrations ----------------------------
EXTENDS Migrations

File(n, s) == [number |-> n, sha |-> s]

\* A release; the next one, merged from a branch that came with a lower number;
\* one whose first file was edited; one with two files of the same number.
MCRelease == {{File(2, "x")}, {File(1, "y"), File(2, "x")}, {File(2, "z")},
              {File(1, "y"), File(1, "w")}}

\* Three migrators, one of them of another group.
MCGroup == [m \in Migrator |-> IF m = "m3" THEN "other" ELSE "default"]
=============================================================================
