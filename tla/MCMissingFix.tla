---------------------------- MODULE MCMissingFix ----------------------------
(***************************************************************************)
(* A file of seven rows, of which any may be missing, row 2 may be listed   *)
(* twice, and one may have been dropped from the column; and columns with   *)
(* next to nothing in them.                                                 *)
(***************************************************************************)
EXTENDS MissingFix

AllRows == <<0, 1, 2, 3, 4, 5, 6>>
Sorted(rows) == SelectSeq(AllRows, LAMBDA r : r \in rows)

MCRowNumbers == Elements(AllRows)

\* The list of some rows in which row 2 comes twice.
SecondTwice(rows) ==
  Sorted({r \in rows : r < 2}) \o <<2, 2>> \o Sorted({r \in rows : r > 2})

MCInvalidRows ==
  {Sorted(rows) : rows \in SUBSET MCRowNumbers}
    \cup {SecondTwice(rows) : rows \in {rs \in SUBSET MCRowNumbers : Cardinality(rs) <= 4}}
MCCounts == {-1, 0, 2}
MCColumnRows == {AllRows, <<>>, <<2>>}
                  \cup {Sorted(MCRowNumbers \ {r}) : r \in {0, 3}}
=============================================================================
