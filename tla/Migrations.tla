------------------------------ MODULE Migrations ------------------------------
(***************************************************************************)
(* Opening the database (ragra/db/connection.py) and the numbered          *)
(* migrations (ragra/db/migrator.py, ragra/db/migrations): every process   *)
(* that connects prepares the file first.  Each statement of a script is a *)
(* commit of its own, and so is the record of the script, so connections   *)
(* interleave and crashes fall between statements.                         *)
(*                                                                         *)
(* A version is its place in Scripts; 0 stands for the columns that two    *)
(* tables were given before there were versions.  A table carries the      *)
(* versions whose change it has and whether the rows of its owner are in   *)
(* it; a side table is the <name>_new of a rebuild.                        *)
(***************************************************************************)
EXTENDS Naturals, Sequences, FiniteSets

CONSTANTS
    Tables,
    Schema,      \* the tables schema.sql creates
    Parents,     \* the tables others refer to
    Legacy,      \* the tables that connect gives missing columns, in its order
    Scripts,     \* per version, its kind and its table
    Procs,       \* processes that connect: the web server, the tick, the CLI
    MaxCrashes   \* bound on crashes

Kinds == {"create", "column", "rebuild"}

ASSUME MigrationsAssumption ==
    /\ Schema \subseteq Tables /\ Parents \subseteq Tables
    /\ Legacy \in Seq(Schema)
    /\ Scripts \in Seq([kind : Kinds, table : Tables])
    \* A script changes a table of schema.sql or one that an earlier script makes.
    /\ \A v \in 1..Len(Scripts) :
          \/ Scripts[v].kind = "create" \/ Scripts[v].table \in Schema
          \/ \E w \in 1..v - 1 : Scripts[w].kind = "create" /\ Scripts[w].table = Scripts[v].table
    /\ MaxCrashes \in Nat

VARIABLES
    table,     \* the tables of the file
    side,      \* the half-built <name>_new tables
    recorded,  \* versions in schema_migrations
    conn,      \* what each process is doing
    owned,     \* tables that held rows at the start (history)
    exposed,   \* tables a script changed in a way nothing protects: it was cut short,
               \* or another process prepared the file beside it (history)
    crashes

migrationVars == <<table, side, recorded, conn, owned, exposed, crashes>>

Versions == 1..Len(Scripts)
OldTables == { Legacy[i] : i \in 1..Len(Legacy) }
Born(t) == IF t \in OldTables THEN {0} ELSE {}   \* what schema.sql gives it
Absent == [there |-> FALSE, has |-> {}, rows |-> FALSE]
Empty(has) == [there |-> TRUE, has |-> has, rows |-> FALSE]

Idle == [pc |-> "idle", at |-> 0, seen |-> {}, whole |-> FALSE]
T(p) == Scripts[conn[p].at].table
Goto(p, pc) == conn' = [conn EXCEPT ![p].pc = pc]
Rebuilding == {"drop_new", "create_new", "copy", "drop_old", "rename"}
Midway     == (Rebuilding \ {"drop_new"}) \cup {"check", "record"}
Unopened(p) == conn[p].pc \notin {"idle", "open"}

\* The changes a script of version v makes to a table on top of those before.
Changes(t, v) == { w \in 1..v : Scripts[w].table = t /\ Scripts[w].kind # "create" }

\* What SQLite refuses: a column or a table that is there already, one that
\* is missing, the same rows twice, a version twice; and foreign_key_check.
Possible(p) ==
    LET t == IF conn[p].pc = "alter" THEN Legacy[conn[p].at] ELSE T(p)
    IN  CASE conn[p].pc = "alter"      -> table[t].there /\ 0 \notin table[t].has
          [] conn[p].pc = "column"     -> table[t].there /\ conn[p].at \notin table[t].has
          [] conn[p].pc = "create_new" -> ~side[t].there
          [] conn[p].pc = "copy"       -> /\ table[t].there /\ side[t].there
                                          /\ Born(t) \cup Changes(t, conn[p].at - 1) \subseteq table[t].has
                                          /\ ~(table[t].rows /\ side[t].rows)
          [] conn[p].pc = "drop_old"   -> table[t].there
          [] conn[p].pc = "rename"     -> side[t].there /\ ~table[t].there
          [] conn[p].pc = "check"      -> t \in Parents /\ conn[p].whole => table[t].rows
          [] conn[p].pc = "record"     -> conn[p].at \notin recorded
          [] OTHER                     -> TRUE

Runs(p, pc) == conn[p].pc = pc /\ Possible(p)

-----------------------------------------------------------------------------
\* connect: schema.sql creates what is missing, in the shape it had before
\* any migration.
Connect(p) ==
    /\ conn[p].pc = "idle"
    /\ table' = [t \in Tables |-> IF t \in Schema /\ ~table[t].there THEN Empty(Born(t)) ELSE table[t]]
    /\ Goto(p, "columns")
    /\ exposed' = exposed \cup { T(q) : q \in { r \in Procs \ {p} : conn[r].pc \in Rebuilding } }
    /\ UNCHANGED <<side, recorded, owned, crashes>>

\* Regression: the columns are added without a look.
ColumnsUnread(p) ==
    /\ conn[p].pc = "columns" /\ conn[p].at < Len(Legacy)
    /\ conn' = [conn EXCEPT ![p].at = @ + 1, ![p].pc = "alter"]
    /\ UNCHANGED <<table, side, recorded, owned, exposed, crashes>>

\* The columns of the next old table are read ...
Columns(p) ==
    /\ conn[p].pc = "columns" /\ conn[p].at < Len(Legacy)
    /\ LET i == conn[p].at + 1
       IN  conn' = [conn EXCEPT ![p].at = i, ![p].pc = IF 0 \in table[Legacy[i]].has THEN @ ELSE "alter"]
    /\ UNCHANGED <<table, side, recorded, owned, exposed, crashes>>

\* ... and added if they were missing.
Alter(p) ==
    /\ Runs(p, "alter")
    /\ table' = [table EXCEPT ![Legacy[conn[p].at]].has = @ \cup {0}]
    /\ Goto(p, "columns")
    /\ UNCHANGED <<side, recorded, owned, exposed, crashes>>

\* apply_pending_migrations reads what is recorded, once.
ReadRecorded(p) ==
    /\ conn[p].pc = "columns" /\ conn[p].at = Len(Legacy)
    /\ conn' = [conn EXCEPT ![p].pc = "next", ![p].at = 0, ![p].seen = recorded]
    /\ UNCHANGED <<table, side, recorded, owned, exposed, crashes>>

Pending(p) == { v \in Versions \ conn[p].seen : v > conn[p].at }

First == [create |-> "create", column |-> "column", rebuild |-> "drop_new"]

\* The next script that is pending, in version order.
NextScript(p) ==
    /\ conn[p].pc = "next"
    /\ \E v \in Pending(p) :
          /\ \A w \in Pending(p) : v <= w
          /\ conn' = [conn EXCEPT ![p].pc = First[Scripts[v].kind], ![p].at = v,
                                  ![p].whole = table[Scripts[v].table].rows]
    /\ UNCHANGED <<table, side, recorded, owned, exposed, crashes>>

\* A rebuild nobody else's preparation runs beside, and nobody has done before,
\* is safe; every other one exposes its table.
Expose(p) ==
    exposed' = IF conn[p].at \in recorded \/ \E q \in Procs \ {p} : Unopened(q)
               THEN exposed \cup {T(p)} ELSE exposed

CreateTable(p) ==
    /\ Runs(p, "create")
    /\ table' = [table EXCEPT ![T(p)] = IF @.there THEN @ ELSE Empty({})]
    /\ Goto(p, "record")
    /\ UNCHANGED <<side, recorded, owned, exposed, crashes>>

AddColumn(p) ==
    /\ Runs(p, "column")
    /\ table' = [table EXCEPT ![T(p)].has = @ \cup {conn[p].at}]
    /\ Goto(p, "record")
    /\ UNCHANGED <<side, recorded, owned, exposed, crashes>>

DropNew(p) ==
    /\ Runs(p, "drop_new")
    /\ side' = [side EXCEPT ![T(p)] = Absent]
    /\ Goto(p, "create_new")
    /\ UNCHANGED <<table, recorded, owned, crashes>>
    /\ Expose(p)

CreateNew(p) ==
    /\ Runs(p, "create_new")
    /\ side' = [side EXCEPT ![T(p)] = Empty(Born(T(p)) \cup Changes(T(p), conn[p].at))]
    /\ Goto(p, "copy")
    /\ UNCHANGED <<table, recorded, owned, crashes>>
    /\ Expose(p)

\* Regression: the old table goes before its rows are copied.
CopyNothing(p) ==
    /\ Runs(p, "copy")
    /\ Goto(p, "drop_old")
    /\ UNCHANGED <<table, side, recorded, owned, crashes>>
    /\ Expose(p)

Copy(p) ==
    /\ Runs(p, "copy")
    /\ side' = [side EXCEPT ![T(p)].rows = @ \/ table[T(p)].rows]
    /\ Goto(p, "drop_old")
    /\ UNCHANGED <<table, recorded, owned, crashes>>
    /\ Expose(p)

DropOld(p) ==
    /\ Runs(p, "drop_old")
    /\ table' = [table EXCEPT ![T(p)] = Absent]
    /\ Goto(p, "rename")
    /\ UNCHANGED <<side, recorded, owned, crashes>>
    /\ Expose(p)

Rename(p) ==
    /\ Runs(p, "rename")
    /\ table' = [table EXCEPT ![T(p)] = side[T(p)]]
    /\ side' = [side EXCEPT ![T(p)] = Absent]
    /\ Goto(p, "check")
    /\ UNCHANGED <<recorded, owned, crashes>>
    /\ Expose(p)

\* The rebuild orphaned no row.
CheckKeys(p) ==
    /\ Runs(p, "check") /\ Goto(p, "record")
    /\ UNCHANGED <<table, side, recorded, owned, exposed, crashes>>

\* Regression: the script counts as applied, unrecorded.
RecordNothing(p) ==
    /\ Runs(p, "record") /\ Goto(p, "next")
    /\ UNCHANGED <<table, side, recorded, owned, exposed, crashes>>

Record(p) ==
    /\ Runs(p, "record")
    /\ recorded' = recorded \cup {conn[p].at}
    /\ Goto(p, "next")
    /\ UNCHANGED <<table, side, owned, exposed, crashes>>

\* MigrationError, or the IntegrityError of the record: what the statements
\* before did stays.
Fail(p) ==
    /\ Unopened(p) /\ ~Possible(p)
    /\ conn' = [conn EXCEPT ![p] = Idle]
    /\ UNCHANGED <<table, side, recorded, owned, exposed, crashes>>

Opened(p) ==
    /\ conn[p].pc = "next" /\ Pending(p) = {}
    /\ Goto(p, "open")
    /\ UNCHANGED <<table, side, recorded, owned, exposed, crashes>>

Close(p) ==
    /\ conn[p].pc = "open"
    /\ conn' = [conn EXCEPT ![p] = Idle]
    /\ UNCHANGED <<table, side, recorded, owned, exposed, crashes>>

\* A process dies; between the statements of a script nothing is undone.
Crash(p) ==
    /\ crashes < MaxCrashes /\ crashes' = crashes + 1
    /\ Unopened(p)
    /\ conn' = [conn EXCEPT ![p] = Idle]
    /\ exposed' = IF conn[p].pc \in Midway /\ Scripts[conn[p].at].kind # "create"
                  THEN exposed \cup {T(p)} ELSE exposed
    /\ UNCHANGED <<table, side, recorded, owned>>

-----------------------------------------------------------------------------
\* The file as an earlier release left it, at version n; one from before the
\* versions may lack the columns of the tables in old.
Released(n, old) ==
    LET made == Schema \cup { Scripts[v].table : v \in { w \in 1..n : Scripts[w].kind = "create" } }
    IN  [t \in Tables |-> IF t \in made THEN [there |-> TRUE, has |-> Changes(t, n) \cup (IF t \in old THEN {} ELSE Born(t)), rows |-> TRUE]
                          ELSE Absent]

\* A database of any earlier release, or a new file.
MigrationInit ==
    /\ \/ \E n \in 0..Len(Scripts) : recorded = 1..n /\ table = Released(n, {})
       \/ \E old \in SUBSET OldTables : recorded = {} /\ table = Released(0, old)
       \/ recorded = {} /\ table = [t \in Tables |-> Absent]
    /\ side = [t \in Tables |-> Absent]
    /\ conn = [p \in Procs |-> Idle]
    /\ owned = { t \in Tables : table[t].rows } /\ exposed = {} /\ crashes = 0

Rebuild(p) == DropNew(p) \/ CreateNew(p) \/ Copy(p) \/ DropOld(p) \/ Rename(p) \/ CheckKeys(p)
Step(p) ==
    \/ Connect(p) \/ Columns(p) \/ Alter(p) \/ ReadRecorded(p) \/ NextScript(p) \/ CreateTable(p) \/ AddColumn(p)
    \/ Rebuild(p) \/ Record(p) \/ Fail(p) \/ Opened(p) \/ Close(p)

MigrationNext == \E p \in Procs : Step(p) \/ Crash(p)

MigrationSpec == MigrationInit /\ [][MigrationNext]_migrationVars

\* The tick connects again after its interval, the server at every request.
FairMigrationSpec == MigrationSpec /\ \A p \in Procs : WF_migrationVars(Step(p))

-----------------------------------------------------------------------------
Conn  == [pc : {"idle", "columns", "alter", "next", "create", "column", "check", "record", "open"} \cup Rebuilding,
          at : Nat, seen : SUBSET Versions, whole : BOOLEAN]
Built == [there : BOOLEAN, has : SUBSET (0..Len(Scripts)), rows : BOOLEAN]

\* The type of every variable; what is not there has no columns and no rows.
MigrationTypeOK ==
    /\ {table, side} \subseteq [Tables -> Built]
    /\ \A t \in Tables : (table[t].there \/ table[t] = Absent) /\ (side[t].there \/ side[t] = Absent)
    /\ recorded \subseteq Versions /\ conn \in [Procs -> Conn]
    /\ owned \subseteq Tables /\ exposed \subseteq Tables /\ crashes \in 0..MaxCrashes

\* A connection the program is given has every migration, recorded and, but for
\* exposed tables, in effect (connection.py, connect).
OpenIsMigrated ==
    \A p \in Procs : conn[p].pc = "open" =>
        /\ recorded = Versions
        /\ \A t \in OldTables \ exposed : 0 \in table[t].has
        /\ \A v \in Versions : LET t == Scripts[v].table
                               IN  t \in exposed \/ (table[t].there /\ Changes(t, v) \subseteq table[t].has)

\* The owner's rows are at all times in the table or in the table that is
\* about to replace it, whoever connects and dies, unless the rebuild itself
\* was cut short or another process prepared the file beside it, whatever that
\* process did (migrator.py, apply_pending_migrations).
DataKept == \A t \in owned \ exposed : table[t].rows \/ side[t].rows

\* Every process that wants a connection is given one, again and again, unless
\* a table was exposed: nothing promises that a script which stopped half-way
\* can be run again, though some can.
Usable == \A p \in Procs : []<>(conn[p].pc = "open" \/ exposed # {})
=============================================================================
