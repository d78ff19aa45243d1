----------------------------- MODULE MCProcess ------------------------------
(***************************************************************************)
(* Two reports with two files between them, one request of each kind and   *)
(* two ends of the process.  One of the names is also the id of a file.  A *)
(* start on a database that a task was torn on is followed to the end of   *)
(* Migrate.                                                                *)
(***************************************************************************)
EXTENDS Process, SchemaTasks

CONSTANT n1

FileNames == {n1, 1}

MCNext == Next /\ (At("migrated") => torn = {})

MCSpec == Init /\ [][MCNext]_vars /\ Fairness
=============================================================================
