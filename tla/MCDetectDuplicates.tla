------------------------ MODULE MCDetectDuplicates ------------------------
(***************************************************************************)
(* Two columns, up to two entries of each kind: the same column twice, a    *)
(* column searched that another entry scans, and a second thread that is    *)
(* still running when the first one has failed.                             *)
(***************************************************************************)
EXTENDS DetectDuplicates
=============================================================================
