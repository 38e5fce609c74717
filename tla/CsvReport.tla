----------------------------- MODULE CsvReport -----------------------------
(***************************************************************************)
(* The report csv_info should make, told from the texts of its files alone: *)
(* no buffer, no parser states and no order of steps.  CsvInfo is compared  *)
(* with it.                                                                 *)
(***************************************************************************)
EXTENDS CsvInfo, FiniteSets

\* The members of a set among 1 .. last, in increasing order.
InOrder(set, last) ==
  LET upTo[i \in Nat] == IF i = 0 THEN <<>>
                         ELSE IF i \in set THEN Append(upTo[i - 1], i)
                         ELSE upTo[i - 1]
  IN upTo[last]

\* How the next character of the text is read: inside of quotes, after an escape,
\* or plainly.
ModeAfter(before, c) ==
  CASE c = Quote /\ before = "plain" -> "quoted"
    [] c = Quote /\ before = "quoted" -> "plain"
    [] c = Escape /\ before = "plain" -> "escaped"
    [] c \in Ordinary \cup {Delimiter, NewLine} /\ before = "escaped" -> "plain"
    [] OTHER -> before

Mode(t) ==
  LET mode[i \in 1 .. Len(t) + 1] ==
        IF i = 1 THEN "plain" ELSE ModeAfter(mode[i - 1], t[i - 1])
  IN mode

Separators(t) ==
  {i \in 1 .. Len(t) : t[i] \in {Delimiter, NewLine} /\ Mode(t)[i] # "quoted"}

\* The characters of a cell are those that are neither dropped nor used up as
\* quote, escape or escaped character.
IsKept(t, i) ==
  CASE Mode(t)[i] = "quoted" -> t[i] \notin {Quote, Dropped}
    [] Mode(t)[i] = "escaped" -> t[i] = Quote
    [] OTHER -> t[i] \in Ordinary

\* Where the cells end.  The text after the last separator is a cell too; a
\* text whose last character is a separator has an empty one after it only if
\* its length is a multiple of the buffer's, so that the end is not yet known.
HasTail(t) == Len(t) \notin Separators(t) \/ Len(t) % Size = 0

EndPlaces(t) == Separators(t) \cup (IF HasTail(t) THEN {Len(t) + 1} ELSE {})

Ends(t) == InOrder(EndPlaces(t), Len(t) + 1)

\* Where the k-th begins, of things that end at these places.
Start(ends, k) == IF k = 1 THEN 1 ELSE ends[k - 1] + 1

\* What is kept of the characters from one place to another.
KeptFrom(t, first, last) ==
  LET places == InOrder({i \in first .. last : IsKept(t, i)}, last)
  IN [i \in DOMAIN places |-> t[places[i]]]

CellAt(t, ends, k) == KeptFrom(t, Start(ends, k), ends[k] - 1)

\* The cells that end a row, and the rows as sequences of cells.
LastOfRow(t, ends, k) == k = Len(ends) \/ t[ends[k]] = NewLine

RowEnds(t, ends) == InOrder({k \in DOMAIN ends : LastOfRow(t, ends, k)}, Len(ends))

RowAt(t, ends, first, last) ==
  [k \in 1 .. last - first + 1 |-> CellAt(t, ends, first + k - 1)]

RowsEndingAt(t, ends, rowEnds) ==
  [r \in DOMAIN rowEnds |-> RowAt(t, ends, Start(rowEnds, r), rowEnds[r])]

RowsOfCells(t, ends) == RowsEndingAt(t, ends, RowEnds(t, ends))

RowsOf(t) == RowsOfCells(t, Ends(t))

\* The width a header row has: without the empty cells it begins with.
Width(row) ==
  LET filled == {k \in DOMAIN row : row[k] # <<>>} IN
    IF filled = {} THEN 0
    ELSE Len(row) - (CHOOSE k \in filled : \A l \in filled : k <= l) + 1

\* The width the rows are held to: the one that is expected, or else the first
\* header row's.
Expected(all, width, skip) ==
  IF width # 0 \/ all = <<>> \/ skip = 0 THEN width ELSE Width(all[1])

\* The kind of error the rows deserve, or "none".  The first bad header row
\* decides, then the data rows that are too long.
HeaderKind(row) == IF Width(row) = 0 THEN "empty_file" ELSE "invalid_columns_count"

DataKind(badRows, skip) ==
  IF badRows = {} THEN "none"
  ELSE IF skip + 1 \in badRows THEN "empty_file" ELSE "csv_parsing_error"

KindAfter(all, badHeads, badRows, skip) ==
  IF badHeads # {} THEN HeaderKind(all[CHOOSE r \in badHeads : \A s \in badHeads : r <= s])
  ELSE DataKind(badRows, skip)

Kind(all, expected, skip) ==
  KindAfter(all,
            {r \in DOMAIN all : r <= skip /\ Width(all[r]) \notin {expected} \ {0}},
            {r \in DOMAIN all : r > skip /\ Len(all[r]) > expected}, skip)

VerdictHeldTo(all, expected, skip) ==
  [kind |-> Kind(all, expected, skip), width |-> expected,
   data |-> [r \in 1 .. Len(all) - skip |-> all[skip + r]]]

VerdictOfRows(all, width, skip) ==
  VerdictHeldTo(all, Expected(all, width, skip), skip)

\* What becomes of a file if a width (0: none) is expected of its rows: the
\* kind of its error, or "none", and the width then expected of later files.
Verdict(file, width, headers) ==
  IF file = NoSuchFile THEN [kind |-> "no_such_file", width |-> width, data |-> <<>>]
  ELSE VerdictOfRows(RowsOf(file), width,
                     IF headers = 0 /\ width = 0 THEN 1 ELSE headers)

\* The verdicts of all files: a file is read as the first one until one has
\* succeeded, and the width that was found stays.
Verdicts(input) ==
  LET verdict[i \in 1 .. Len(input.files)] ==
        Verdict(input.files[i],
                IF i = 1 THEN 0 ELSE verdict[i - 1].width,
                IF \A j \in 1 .. i - 1 : verdict[j].kind # "none"
                THEN input.headers ELSE input.others)
  IN verdict

\* The cells in a column of all data rows.
ColumnCells(verdicts, column) ==
  UNION {{<<i, r>> : r \in {s \in DOMAIN verdicts[i].data :
                              column <= Len(verdicts[i].data[s])}} :
         i \in DOMAIN verdicts}

MissingCells(verdicts, column) ==
  {p \in ColumnCells(verdicts, column) : IsMissing(verdicts[p[1]].data[p[2]][column])}

IsReport(verdicts) ==
  LET bad == {i \in DOMAIN verdicts : verdicts[i].kind # "none"} IN
    /\ (phase = "found") = (bad = {})
    /\ {errors[i] : i \in DOMAIN errors}
         = {[kind |-> verdicts[i].kind, file |-> i] : i \in bad}
    /\ \A i, j \in DOMAIN errors : i < j => errors[i].file < errors[j].file
    /\ phase = "found" =>
         /\ Len(columns) = verdicts[Len(args.files)].width
         /\ \A c \in DOMAIN columns :
              /\ columns[c].total = Cardinality(ColumnCells(verdicts, c))
              /\ columns[c].missing = Cardinality(MissingCells(verdicts, c))

\* When csv_info is done and every read has succeeded, its report is the one
\* the texts deserve: either the errors of exactly the files that do not fit,
\* in their order, or for each column how many values and how many missing
\* values the data rows have.  Where the buffer ends does not matter but for
\* the row a multiple of its size adds; a file that failed must not change
\* how the ones after it are read, except for the width its header set.
ReportIsOfTheTexts ==
  phase \in {"reported", "found"} /\ unread = {} => IsReport(Verdicts(args))
=============================================================================
