----------------------------- MODULE MissingFix -----------------------------
(***************************************************************************)
(* The fixes for missing values of one column: preform_action for           *)
(* const_value_fix, linear_fix, kneighborhood_fix and cubical_fix.  The     *)
(* linear and the k-neighborhood fix look for measured neighbours on both   *)
(* sides of a missing row: an iterator over the column and an iterator over *)
(* the list of invalid rows move away from it side by side, and an entry    *)
(* whose row the second one names is passed over.                           *)
(*                                                                          *)
(* A value is abstracted to where it comes from: it was measured, it is     *)
(* missing, a fix computed it, or it was read outside the column.           *)
(***************************************************************************)
EXTENDS Integers, Sequences, FiniteSets

CONSTANTS
  RowNumbers,  \* the rows a file may have
  ColumnRows,  \* the rows filter.rows may have left of a column, in order
  InvalidRows, \* the lists of rows a message may call invalid, sorted
  Counts,      \* kneighborhood_fix::n_count, an int
  Wrap,        \* how many values an unsigned int has
  Overrun      \* bound on how far outside the column an iterator may be

ASSUME RowsAssumption == RowNumbers \subseteq Nat

\* A column has each row once.  The rows of a message are sorted, but one that is
\* listed twice stays so.
ASSUME ListsAssumption ==
  /\ ColumnRows \cup InvalidRows \subseteq Seq(RowNumbers)
  /\ \A list \in ColumnRows :
       \A i, j \in DOMAIN list : i < j => list[i] < list[j]
  /\ \A list \in InvalidRows :
       \A i, j \in DOMAIN list : i < j => list[i] <= list[j]

\* Any int is a count; fix_na takes it as an unsigned int.
ASSUME CountsAssumption == Counts \subseteq Int /\ Wrap \in Nat \ {0}

\* Beside the first row and the last one an iterator is outside already.
ASSUME OverrunAssumption == Overrun \in Nat \ {0}

VARIABLES
  column,    \* the rows of the column, in order: what filter.rows has left
  invalid,   \* fillinvalid_base::invalid_rows
  kind,      \* the fix that is configured
  count,     \* slice_size: neighbours wanted on each side
  value,     \* where the value of each row of the column comes from
  pc,        \* where the fix is
  next,      \* the place in invalid of the row to be fixed
  start,     \* slice_some: the iterator over the column
  pivot,     \* slice_some: the iterator over invalid
  left,      \* slice_some: neighbours still to be found on this side
  below,     \* the neighbours found before the row, nearest first, or the knots
             \* of the spline by their places
  above      \* the neighbours found after it, or what is read after the knots

vars == <<column, invalid, kind, count, value, pc, next, start, pivot, left,
          below, above>>

input == <<column, invalid, kind, count>>

Elements(seq) == {seq[i] : i \in DOMAIN seq}

Garbage == "garbage"
Origins == {"measured", "missing", "fixed"}

\* What reading the column at a place may give: past its ends, anything.
EntryAt(i) ==
  IF i \in DOMAIN column
  THEN {[row |-> column[i], from |-> value[column[i]]]}
  ELSE {[row |-> r, from |-> Garbage] : r \in RowNumbers}

\* What reading the list of invalid rows at a place may give.
InvalidAt(i) == IF i \in DOMAIN invalid THEN {invalid[i]} ELSE RowNumbers

\* find, and binary_find in a sorted column.
PlaceOf(row) == CHOOSE i \in DOMAIN column : column[i] = row

-----------------------------------------------------------------------------
Init ==
  /\ column \in ColumnRows
  /\ invalid \in InvalidRows
  /\ \/ kind = "const"  /\ count = 0
     \/ kind = "cubic"  /\ count = 0
     \/ kind = "linear" /\ count = 1
     \/ kind = "k"      /\ \E n_count \in Counts : count = n_count % Wrap
  /\ value = [r \in Elements(column) |->
                IF r \in Elements(invalid) THEN "missing" ELSE "measured"]
  /\ pc = "begin"
  /\ next = 1
  /\ start = 0
  /\ pivot = 0
  /\ left = 0
  /\ below = <<>>
  /\ above = <<>>

\* The value of every invalid row that is in the column is replaced.
FillAll == [r \in DOMAIN value |->
              IF r \in Elements(invalid) THEN "fixed" ELSE value[r]]

\* const_value_fix needs no neighbours.
FixConst ==
  /\ pc = "begin"
  /\ kind = "const"
  /\ value' = IF column = <<>> THEN value ELSE FillAll
  /\ pc' = "done"
  /\ UNCHANGED <<input, next, start, pivot, left, below, above>>

\* make_spline: the rows of the column that are not invalid, by their places.
Knots == {i \in DOMAIN column : column[i] \notin Elements(invalid)}

\* splint: the search for the knots around a row ends one past the last of them
\* if the row comes after it.
BehindKnots ==
  \E r \in Elements(column) \cap Elements(invalid) :
     \A i \in Knots : column[i] < r

\* cubical_fix: one spline is made before any value is written.  Without two
\* knots it cannot be made: its arrays are read past their ends, or it throws.
FixCubic ==
  /\ pc = "begin"
  /\ kind = "cubic"
  /\ IF Len(column) < 2
     THEN pc' = "done" /\ UNCHANGED <<value, below>>
     ELSE /\ below' = [i \in Knots |->
                         [row |-> column[i], from |-> value[column[i]]]]
          /\ IF Cardinality(Knots) < 2
             THEN pc' = "crashed" /\ UNCHANGED value
             ELSE pc' = "done" /\ value' = FillAll
  /\ above' \in IF pc' = "done" /\ Len(column) >= 2 /\ BehindKnots
                THEN {<<entry>> : entry \in EntryAt(Len(column) + 1)} ELSE {<<>>}
  /\ UNCHANGED <<input, next, start, pivot, left>>

\* linear_fix and kneighborhood_fix: a column of one row is left alone.
BeginFix ==
  /\ pc = "begin"
  /\ kind \in {"linear", "k"}
  /\ pc' = IF Len(column) < 2 THEN "done" ELSE "next"
  /\ UNCHANGED <<input, value, next, start, pivot, left, below, above>>

\* slice_some finds no neighbours for row 0, which are too few unless none are
\* wanted.
IsSliced(row) == row \in Elements(column) /\ (row = 0 => count = 0)

\* fix_na of the next invalid row: there is nothing to do if it was dropped from
\* the column.
SkipRow ==
  /\ pc = "next"
  /\ next <= Len(invalid)
  /\ ~IsSliced(invalid[next])
  /\ next' = next + 1
  /\ UNCHANGED <<input, value, pc, start, pivot, left, below, above>>

\* Mutant: the loop runs once too often.
LookBelowOneMore ==
  /\ pc = "next"
  /\ next <= Len(invalid)
  /\ IsSliced(invalid[next])
  /\ start' = PlaceOf(invalid[next]) - 1
  /\ pivot' = next - 1
  /\ left' = IF PlaceOf(invalid[next]) = 1 THEN 0 ELSE count + 1
  /\ below' = <<>>
  /\ above' = <<>>
  /\ pc' = "below"
  /\ UNCHANGED <<input, value, next>>

\* slice: first the neighbours before the row.  The first entry has none.
LookBelow ==
  /\ pc = "next"
  /\ next <= Len(invalid)
  /\ IsSliced(invalid[next])
  /\ start' = PlaceOf(invalid[next]) - 1
  /\ pivot' = next - 1
  /\ left' = IF PlaceOf(invalid[next]) = 1 THEN 0 ELSE count
  /\ below' = <<>>
  /\ above' = <<>>
  /\ pc' = "below"
  /\ UNCHANGED <<input, value, next>>

\* Mutant: only the column moves past an invalid row.
PassOverOnly(step, found) ==
  /\ left > 0
  /\ \E entry \in EntryAt(start), row \in InvalidAt(pivot) :
       IF entry.row = row
       THEN UNCHANGED <<pivot, left>> /\ found' = found
       ELSE /\ found' = Append(found, entry)
            /\ left' = left - 1
            /\ UNCHANGED pivot
  /\ start' = start + step
  /\ pc' = IF start' \in (1 - Overrun) .. (Len(column) + Overrun)
           THEN pc ELSE "crashed"
  /\ UNCHANGED <<input, value, next>>

\* One turn of the loop of slice_some: an entry that the other iterator names is
\* passed over and the other iterator moves too.  Neither looks where its list
\* ends.  Far outside the reads fault.
Step(step, found) ==
  /\ left > 0
  /\ \E entry \in EntryAt(start), row \in InvalidAt(pivot) :
       IF entry.row = row
       THEN pivot' = pivot + step /\ UNCHANGED left /\ found' = found
       ELSE /\ found' = Append(found, entry)
            /\ left' = left - 1
            /\ UNCHANGED pivot
  /\ start' = start + step
  /\ pc' = IF start' \in (1 - Overrun) .. (Len(column) + Overrun)
           THEN pc ELSE "crashed"
  /\ UNCHANGED <<input, value, next>>

StepBelow == pc = "below" /\ Step(-1, below) /\ UNCHANGED above

\* Mutant: the iterator over the invalid rows is left where the first loop had it.
LookAboveStale ==
  /\ pc = "below"
  /\ left = 0
  /\ start' = PlaceOf(invalid[next]) + 1
  /\ left' = count
  /\ pc' = "above"
  /\ UNCHANGED <<input, value, next, pivot, below, above>>

\* Then the neighbours after it, with both iterators back at the row.
LookAbove ==
  /\ pc = "below"
  /\ left = 0
  /\ start' = PlaceOf(invalid[next]) + 1
  /\ pivot' = next + 1
  /\ left' = count
  /\ pc' = "above"
  /\ UNCHANGED <<input, value, next, below, above>>

StepAbove == pc = "above" /\ Step(1, above) /\ UNCHANGED below

\* Mutant: neighbours are required on both sides.
WriteWithBoth ==
  /\ pc = "above"
  /\ left = 0
  /\ value' = IF Len(below) + Len(above) < 2 * count THEN value
              ELSE [value EXCEPT ![invalid[next]] = "fixed"]
  /\ next' = next + 1
  /\ pc' = "next"
  /\ UNCHANGED <<input, start, pivot, left, below, above>>

\* The function of the fix is applied to the neighbours and the result written
\* to the row.  If none are wanted, nearset_interpolations reads the first
\* element of an empty vector.
WriteFix ==
  /\ pc = "above"
  /\ left = 0
  /\ value' = IF Len(below) + Len(above) < count \/ count = 0 THEN value
              ELSE [value EXCEPT ![invalid[next]] = "fixed"]
  /\ next' = next + 1
  /\ pc' = IF count = 0 THEN "crashed" ELSE "next"
  /\ UNCHANGED <<input, start, pivot, left, below, above>>

AllFixed ==
  /\ pc = "next"
  /\ next > Len(invalid)
  /\ pc' = "done"
  /\ UNCHANGED <<input, value, next, start, pivot, left, below, above>>

Ended == pc \in {"done", "crashed"} /\ UNCHANGED vars

Next ==
  \/ FixConst \/ FixCubic
  \/ BeginFix \/ SkipRow
  \/ LookBelow \/ StepBelow
  \/ LookAbove \/ StepAbove
  \/ WriteFix \/ AllFixed
  \/ Ended

Spec == Init /\ [][Next]_vars
-----------------------------------------------------------------------------
(***************************************************************************)
(* Properties.                                                              *)
(***************************************************************************)

Entries == [row : RowNumbers, from : Origins \cup {Garbage}]

\* Every variable has the type its C++ counterpart has; an iterator over the
\* column may be outside of it by the bound of the model only.
TypeOK ==
  /\ column \in ColumnRows
  /\ invalid \in InvalidRows
  /\ kind \in {"const", "linear", "k", "cubic"}
  /\ count \in Nat
  /\ value \in [Elements(column) -> Origins]
  /\ pc \in {"begin", "next", "below", "above", "done", "crashed"}
  /\ next \in 1 .. Len(invalid) + 1
  /\ pc \in {"below", "above"} => start \in 1 - Overrun .. Len(column) + Overrun
  /\ pivot \in Int
  /\ left \in 0 .. count
  /\ \/ kind = "cubic" /\ (below = <<>> \/ below \in [Knots -> Entries])
     \/ kind # "cubic" /\ below \in Seq(Entries)
  /\ above \in Seq(Entries)

\* The entries a fix is computed from.
Neighbours == Elements(below) \cup Elements(above)

\* What the comment on slice promises: of the entries that are found in the
\* column, none is itself invalid, whether it is still missing or was made up by
\* an earlier fix.
NeighboursAreMeasured ==
  \A entry \in Neighbours : entry.from \in {"measured", Garbage}

Kept == Elements(invalid) \subseteq Elements(column)
ListedOnce == \A i, j \in DOMAIN invalid : invalid[i] = invalid[j] => i = j

\* It holds when no invalid row was dropped from the column and none is listed
\* twice: the two iterators stay in step then, also past runs of invalid rows,
\* and whatever is read outside the two lists.  Behind a row that is listed twice
\* the iterator over the list lags, as it does behind one that was dropped.
MeasuredIfKept == Kept /\ ListedOnce => NeighboursAreMeasured

Measured == {r \in Elements(column) : r \notin Elements(invalid)}

\* The measured rows nearest to a row, counted out from it.
NearestBelow(row) ==
  {r \in Measured : r < row /\ Cardinality({q \in Measured : r <= q /\ q < row}) <= count}
NearestAbove(row) ==
  {r \in Measured : r > row /\ Cardinality({q \in Measured : row < q /\ q <= r}) <= count}

\* The loops stay within both lists: there are neighbours enough on both sides,
\* and beyond them one more invalid row.
Fenced(row) ==
  /\ Cardinality(NearestBelow(row)) = count
  /\ Cardinality(NearestAbove(row)) = count
  /\ \A r \in NearestBelow(row) : invalid[1] < r
  /\ \A r \in NearestAbove(row) : r < invalid[Len(invalid)]

\* Within the lists a fix gets just the nearest measured neighbours, if each
\* invalid row is in both lists, once.
NearestIfFenced ==
  pc = "above" /\ left = 0 /\ Kept /\ ListedOnce /\ Fenced(invalid[next]) =>
    /\ {entry.row : entry \in Elements(below)} = NearestBelow(invalid[next])
    /\ {entry.row : entry \in Elements(above)} = NearestAbove(invalid[next])
    /\ NeighboursAreMeasured

\* Unless a read faults, every missing value of a column of at least two rows is
\* replaced in one pass, also at its ends, in runs, and if some are listed twice
\* or were dropped; only row 0 is passed over by the fixes that look for
\* neighbours.
OnlyRowZeroIsLeft ==
  pc = "done" /\ Len(column) >= 2 =>
    \A r \in Elements(column) :
       value[r] = "missing" => r = 0 /\ kind \in {"linear", "k"}
=============================================================================
