--------------------------- MODULE MCCleanupTasks ---------------------------
(***************************************************************************)
(* Three columns of a data set of three rows.  The files of two columns may *)
(* disagree in their length, in the row an entry belongs to, or only in a   *)
(* row that is dropped.                                                     *)
(***************************************************************************)
EXTENDS CleanupTasks

MCFiles == {<<1, 2>>, <<1, 3>>, <<1, 2, 3>>}
MCDropSets == {{}, {3}, {1, 2, 3}}
=============================================================================
