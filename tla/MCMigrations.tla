---------------------------- MODULE MCMigrations ----------------------------
(* The scripts of a release: new tables, new columns, and rebuilds of a     *)
(* table of schema.sql and of one a migration created.                      *)
EXTENDS Migrations

MCLegacy == <<"reminders">>

Script(k, t) == [kind |-> k, table |-> t]

MCScripts ==
    << Script("column", "tasks"), Script("create", "class_reminders"),
       Script("rebuild", "tasks"), Script("rebuild", "class_reminders") >>
=============================================================================
