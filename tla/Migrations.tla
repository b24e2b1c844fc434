----------------------------- MODULE Migrations -----------------------------
(***************************************************************************)
(* db.Open and its schema migrations (db/db.go), run by every process that *)
(* opens the database: the panel, the commands of the command line, and    *)
(* during an upgrade binaries of two versions.                             *)
(*                                                                         *)
(*   schema    the versions whose statements have taken effect             *)
(*   recorded  the rows of schema_migrations                               *)
(*   ran       how often the statements of a version have taken effect     *)
(*   opener    what each process is doing in Open                          *)
(*                                                                         *)
(* One transaction per version.  SQLite serialises writing transactions,   *)
(* so each is one step; between reading the recorded versions and a        *)
(* transaction, and between transactions, any other process may run.       *)
(***************************************************************************)
EXTENDS Host

CONSTANTS
    Openers,
    BinaryVersion, \* Openers -> the schemaVersion of its binary
    SchemaVersion  \* of the newest binary: 20

ASSUME MigrationsAssumption ==
    /\ SchemaVersion \in Nat \ {0}
    /\ BinaryVersion \in [Openers -> 1..SchemaVersion]

VARIABLES schema, recorded, ran, opener

migrationVars == <<schema, recorded, ran, opener>>

Versions == 1..SchemaVersion

\* The versions with a statement that fails when it has been run before
\* (ALTER TABLE ADD COLUMN, CREATE TABLE); the others guard every statement.
Alters == {2, 3, 4, 6, 11, 12, 16, 19, 20}
Closed == [at |-> "closed", next |-> 0]

\* A database of any version, complete or with a row of schema_migrations lost.
MigrationsInit ==
    \E k \in Versions :
        /\ schema = 1..k /\ recorded \in {2..k} \cup {(2..k) \ {h} : h \in 2..k - 1}
        /\ ran = [v \in Versions |-> IF v <= k THEN 1 ELSE 0]
        /\ opener = [p \in Openers |-> Closed]

Current(applied) == CHOOSE v \in applied \cup {1} : \A w \in applied : w <= v

\* migrate, up to the loop: refuses a newer database and one with a gap.
GapIgnored(applied) == TRUE                                        \* mutant
Complete(applied) == 2..Current(applied) \subseteq applied
ReadApplied(p) ==
    /\ opener[p] = Closed
    /\ IF Current(recorded) <= BinaryVersion[p] /\ Complete(recorded)
       THEN opener' = [opener EXCEPT ![p] = [at |-> "migrating", next |-> Current(recorded) + 1]]
       ELSE UNCHANGED opener
    /\ UNCHANGED <<schema, recorded, ran>>

\* One version: its statements, its data step and its row, or nothing of them.
Repeats(v) == v \in recorded \/ (v \in Alters /\ v \in schema)
Recorded(v) == recorded \cup {v}
Migrate(p) ==
    LET v == opener[p].next IN
    /\ opener[p].at = "migrating" /\ v <= BinaryVersion[p]
    /\ \/ /\ ~Repeats(v)
          /\ schema' = schema \cup {v} /\ recorded' = Recorded(v) /\ ran' = [ran EXCEPT ![v] = @ + 1]
          /\ opener' = [opener EXCEPT ![p].next = v + 1]
       \/ /\ Repeats(v) \/ CanFail("disk")
          /\ opener' = [opener EXCEPT ![p] = Closed]
          /\ UNCHANGED <<schema, recorded, ran>>

Opened(p) ==
    /\ opener[p].at = "migrating" /\ opener[p].next > BinaryVersion[p]
    /\ opener' = [opener EXCEPT ![p].at = "open"]
    /\ UNCHANGED <<schema, recorded, ran>>

\* The process ends, in or after Open; systemd or the operator starts it again.
CloseDatabase(p) ==
    /\ opener[p] # Closed /\ opener' = [opener EXCEPT ![p] = Closed]
    /\ UNCHANGED <<schema, recorded, ran>>

MigrationsNext ==
    \E p \in Openers : ReadApplied(p) \/ Migrate(p) \/ Opened(p) \/ CloseDatabase(p)

MigrationsSpec == MigrationsInit /\ [][MigrationsNext]_migrationVars

-----------------------------------------------------------------------------
(* Properties *)

MigrationsTypeOK ==
    /\ schema \subseteq Versions /\ recorded \subseteq Versions /\ ran \in [Versions -> Nat]
    /\ opener \in [Openers -> [at: {"closed", "migrating", "open"}, next: 0..SchemaVersion + 1]]

\* Whoever has the database open finds every version its binary knows in the
\* schema: none is opened with a step missing or half done, whichever process
\* ran it (migrate).
OpenIsComplete ==
    \A p \in Openers : opener[p].at = "open" =>
        1..BinaryVersion[p] \subseteq schema \cap (recorded \cup {1})

\* "Migration v18 runs exactly once": no version takes effect twice, though two
\* processes may both have read that it is missing.
RunsOnce == \A v \in Versions : ran[v] <= 1

\* What every process that opens the database may rely on (migrate).
MigrationsSafe == OpenIsComplete /\ RunsOnce

=============================================================================
