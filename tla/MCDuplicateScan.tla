-------------------------- MODULE MCDuplicateScan --------------------------
(***************************************************************************)
(* Columns of up to four rows; 1 and 2 are rounded to the same value.       *)
(***************************************************************************)
EXTENDS DuplicateScan

MCRound == [v \in Values |-> IF v = 2 THEN 1 ELSE v]
=============================================================================
