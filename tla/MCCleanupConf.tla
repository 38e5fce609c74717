---------------------------- MODULE MCCleanupConf ----------------------------
(***************************************************************************)
(* Messages of up to four entries for three columns.  The id "b" is the     *)
(* code of the character "c"; the others are no numbers.  Two of the lists  *)
(* of rows have an element that is no row number.                           *)
(***************************************************************************)
EXTENDS CleanupConf

MCAsNumber == [id \in ColumnIds |-> IF id = "b" THEN "c" ELSE Unreadable]

Entry(action, colid, algo, rows) ==
  [action |-> action, colid |-> colid, algo |-> algo, rows |-> rows, whole |-> TRUE]

MCEntries ==
  {Entry("filter.rows", "a", "", <<1>>),
   Entry("filter.rows", "a", "", <<2>>),
   Entry("filter.rows", "b", "", <<2, NotARow, 3>>),
   Entry("filter.rows", NoColumn, "", <<3>>),
   Entry("fix.missing", "a", "linear", <<1, NotARow>>),
   Entry("fix.missing", "b", "const", <<2>>),
   Entry("fix.missing", "a", "const", <<2>>),
   Entry("normalized", "a", "znorm", <<>>),
   Entry("normalized", "b", "tnorm", <<>>),
   [Entry("normalized", "b", "znorm", <<>>) EXCEPT !.whole = FALSE],
   Entry("other", "c", "", <<>>)}

MCRowLists == {e.rows : e \in MCEntries}

MCHeaders == {<<Index, "a", "b">>, <<"c", Index, "a">>, <<"a", "b">>, <<>>}
=============================================================================
