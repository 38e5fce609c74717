---------------------------- MODULE TrainingData ----------------------------
(***************************************************************************)
(* From the message and the exported file to the data one model of          *)
(* run_experiments learns from and is tested on: the message is read into a *)
(* configuration (ModelConf), the file line by line into columns, its rows  *)
(* are shuffled if the configuration says so, the values of the label       *)
(* column are numbered by a lookup table, and a percentage of the rows is   *)
(* put aside for testing.                                                   *)
(*                                                                          *)
(* A cell is abstracted to the line it was read from; a column is the       *)
(* sequence of its cells.  Only the label of a row has a value.  The number *)
(* of cells of a line is the number of tokens the tokenizer returns: it     *)
(* never returns an empty one.                                              *)
(***************************************************************************)
EXTENDS ModelConf, FiniteSets

CONSTANTS
  NumColumns,  \* columns of the header line, the label column among them
  Lines,       \* the lines a file may have
  MaxLines,    \* bound on their number
  Classes,     \* the values of the label column
  Messages,    \* the messages run_experiments may be given
  Wrap         \* one more than the largest unsigned int

\* A line has a number of cells; one of them may be spoilt: no number at all
\* ("cast"), or one that stands for a missing or invalid value ("value").
LineType == [cells : Nat, spoilt : {"no", "cast", "value"}]

ASSUME LinesAssumption ==
  /\ NumColumns \in Nat \ {0}
  /\ Lines \subseteq LineType
  /\ MaxLines \in Nat
ASSUME ClassesAssumption == IsFiniteSet(Classes)  \* a label is a double
ASSUME MessagesAssumption == Messages \subseteq MessageType
ASSUME SplitAssumption ==
  /\ Wrap \in Nat
  /\ Wrap > 100 * (MaxLines + 1)
  /\ \A split \in Splits : split < Wrap

Columns == 1 .. NumColumns

VARIABLES
  message,   \* the command line's: JSON, or the path of a file with it
  conf,      \* what was read of it: pipeline::config
  source,    \* "good", "missing" (or unreadable), "no header", "bad header",
             \* or "unopened"
  file,      \* the lines below the header
  label,     \* the value of the label column, by line
  pc,        \* what is done next
  pos,       \* lines read
  table,     \* read_result: for each column the lines of its cells
  swaps,     \* swaps shuffle has left
  codes,     \* lookup::table: the number each label value got
  train,     \* training_input: the rows to learn from, and their labels
  test,      \* model_samples: the rows to test with, and their labels
  outcome    \* how it ended

vars == <<message, conf, source, file, label, pc, pos, table, swaps, codes, train, test,
          outcome>>

input == <<message, conf, source, file, label>>

Sources == {"good", "missing", "no header", "bad header"}

NoSamples == [rows |-> <<>>, labels |-> <<>>]

\* The empty lookup table.
NoCodes == [v \in {} |-> 0]

\* mapped() of a value that is not in the table: the largest int.
InvalidEntry == 2147483647

Elements(seq) == {seq[i] : i \in DOMAIN seq}

Rows == Len(table[1])

-----------------------------------------------------------------------------
Init ==
  /\ message \in Messages
  /\ conf = NoConf
  /\ source = "unopened"
  /\ file = <<>>
  /\ label = <<>>
  /\ pc = "message"
  /\ pos = 0
  /\ table = [c \in Columns |-> <<>>]
  /\ swaps = 0
  /\ codes = NoCodes
  /\ train = NoSamples
  /\ test = NoSamples
  /\ outcome = "running"

Fail(how) ==
  /\ outcome' = how
  /\ pc' = "done"

\* process_input.  What it throws is caught in main.
ReadMessage ==
  /\ pc = "message"
  /\ \/ /\ Refusal(message) = "none"
        /\ conf' = Configuration(message)
        /\ pc' = "open"
        /\ UNCHANGED outcome
     \/ /\ Refusal(message) # "none"
        /\ Fail(Refusal(message))
        /\ UNCHANGED conf
  /\ UNCHANGED <<message, source, file, label, pos, table, swaps, codes, train, test>>

\* handle_read: the file and its header.  A column id is in quotes; a token
\* that is too short to be quoted throws.
OpenSource ==
  /\ pc = "open"
  /\ source' \in Sources
  /\ \/ /\ source' = "good"
        /\ file' \in UNION {[1 .. n -> Lines] : n \in 0 .. MaxLines}
        /\ label' \in [DOMAIN file' -> Classes]
        /\ pc' = "read"
        /\ UNCHANGED outcome
     \/ /\ source' # "good"
        /\ Fail(IF source' = "bad header" THEN "runtime_error" ELSE "invalid_conf")
        /\ UNCHANGED <<file, label>>
  /\ UNCHANGED <<message, conf, pos, table, swaps, codes, train, test>>

\* What reading has found is shuffled first or used as it is; an empty result
\* is an exception in experiment::run.
ReadingDone(ok) ==
  IF ok THEN /\ pc' = IF conf.randomized THEN "shuffle" ELSE "map"
             /\ swaps' = IF conf.randomized THEN Rows - 1 ELSE 0
             /\ UNCHANGED outcome
        ELSE Fail("runtime_error") /\ UNCHANGED swaps

\* process_line and the loop of read_entries.  Cells beyond the last column
\* are not looked at; a line without cells ends the data if there is any.
ReadLine ==
  LET line == file[pos + 1]
  IN  /\ pc = "read"
      /\ pos < Len(file)
      /\ pos' = pos + 1
      /\ table' = [c \in Columns |-> IF c <= line.cells
                                     THEN Append(table[c], pos') ELSE table[c]]
      /\ CASE line.spoilt = "cast"  -> Fail("bad_lexical_cast") /\ UNCHANGED swaps
           [] line.spoilt = "value" -> Fail("malformat_input") /\ UNCHANGED swaps
           [] line.spoilt = "no" /\ line.cells < NumColumns ->
                ReadingDone(line.cells = 0 /\ table[1] # <<>>)
           [] OTHER -> UNCHANGED <<pc, outcome, swaps>>
      /\ UNCHANGED <<input, codes, train, test>>

EndOfFile ==
  /\ pc = "read"
  /\ pos = Len(file)
  /\ ReadingDone(table[1] # <<>>)
  /\ UNCHANGED <<input, pos, table, codes, train, test>>

\* Mutant: every column draws numbers of its own.
SwapCells ==
  /\ pc = "shuffle"
  /\ swaps > 0
  /\ \E c \in Columns, i, j \in 1 .. Rows :
       table' = [table EXCEPT ![c][i] = table[c][j], ![c][j] = table[c][i]]
  /\ swaps' = swaps - 1
  /\ UNCHANGED <<input, pc, pos, codes, train, test, outcome>>

\* shuffle: one pair of rows, drawn at random, changes places in every column.
SwapRows ==
  /\ pc = "shuffle"
  /\ swaps > 0
  /\ \E i, j \in 1 .. Rows :
       table' = [c \in Columns |->
                   [table[c] EXCEPT ![i] = table[c][j], ![j] = table[c][i]]]
  /\ swaps' = swaps - 1
  /\ UNCHANGED <<input, pc, pos, codes, train, test, outcome>>

Shuffled ==
  /\ pc = "shuffle"
  /\ swaps = 0
  /\ pc' = "map"
  /\ UNCHANGED <<input, pos, table, swaps, codes, train, test, outcome>>

(***************************************************************************)
(* The windows of rows that are copied for a model.                         *)
(***************************************************************************)

\* The rows before the place where the file is split, and those after it.
SpliterAt(split, size) == ((size * ((100 - split) % Wrap)) \div 100) % Wrap
SpliterNegate(split, size) == (size - SpliterAt(split, size)) % Wrap

Smaller(a, b) == IF a < b THEN a ELSE b

\* What is left of a request for n rows from off on, in unsigned arithmetic.
Clipped(n, off, size) ==
  LET end == (n + off) % Wrap
  IN  IF end > size THEN (n - (end - size)) % Wrap ELSE n

\* data_matrix and prepare4labels_copy clip in a different order.
MatrixRows(n, off) == Clipped(Smaller(n, Rows), off, Rows)
LabelRows(n, off) == Smaller(Clipped(n, off, Rows), Rows)

Window(n, off) == [k \in 1 .. n |-> table[1][off + k]]

\* labels_data: nothing for a column that is not there.
Labels(n, off) ==
  IF conf.labelled
  THEN [k \in 1 .. LabelRows(n, off) |-> label[table[NumColumns][off + k]]]
  ELSE <<>>

\* Validation by k folds is not implemented: it gives no rows at all.
NoRows == conf.policy = "k-fold"

\* A window that does not fit is read outside of the columns.
Fits(n, off) ==
  \/ NoRows
  \/ off + MatrixRows(n, off) <= Rows /\ off + LabelRows(n, off) <= Rows

-----------------------------------------------------------------------------
\* Mutant: the numbers start from 1.
InsertFromOne(tbl, v) ==
  [w \in DOMAIN tbl \cup {v} |->
     IF w \in DOMAIN tbl THEN tbl[w] ELSE Cardinality(DOMAIN tbl) + 1]

\* table::insert: a value that is not in the table yet gets the next number.
Insert(tbl, v) ==
  [w \in DOMAIN tbl \cup {v} |->
     IF w \in DOMAIN tbl THEN tbl[w] ELSE Cardinality(DOMAIN tbl)]

\* make_lookup_table: the values are put into an empty table one by one.
Numbered(values) ==
  LET entries[n \in 0 .. Len(values)] ==
        IF n = 0 THEN NoCodes ELSE Insert(entries[n - 1], values[n])
  IN  entries[Len(values)]

\* make_table: all of the label column, in the order of its rows.  The labels
\* of a model that is no classifier are left alone.
MakeTable ==
  /\ pc = "map"
  /\ codes' = IF conf.classifier THEN Numbered(Labels(Rows, 0)) ELSE codes
  /\ pc' = "train"
  /\ UNCHANGED <<input, pos, table, swaps, train, test, outcome>>

\* lookuptable_transform.
Transform(values) ==
  IF conf.classifier
  THEN [k \in DOMAIN values |-> IF values[k] \in DOMAIN codes
                                THEN codes[values[k]] ELSE InvalidEntry]
  ELSE values

Samples(n, off) ==
  IF NoRows THEN NoSamples
  ELSE [rows |-> Window(MatrixRows(n, off), off), labels |-> Transform(Labels(n, off))]

\* train_step::run, up to the training itself.
Train ==
  LET n == SpliterAt(conf.split, Rows)
  IN  /\ pc = "train"
      /\ train' = Samples(n, 0)
      /\ pc' = "test"
      /\ UNCHANGED <<input, pos, table, swaps, codes, test, outcome>>

\* Mutants: the label vector starts at row 0, the default of labels_data; the
\* test rows start where the share for testing ends.
TestWithFirstLabels ==
  LET n == SpliterNegate(conf.split, Rows)
      off == SpliterAt(conf.split, Rows)
  IN  /\ pc = "test"
      /\ test' = IF Fits(n, off)
                 THEN [Samples(n, off) EXCEPT !.labels = Transform(Labels(n, 0))]
                 ELSE test
      /\ outcome' = IF Fits(n, off) THEN "tested" ELSE "overrun"
      /\ pc' = "done"
      /\ UNCHANGED <<input, pos, table, swaps, codes, train>>

TestFromNegate ==
  LET n == SpliterNegate(conf.split, Rows)
  IN  /\ pc = "test"
      /\ test' = IF Fits(n, n) THEN Samples(n, n) ELSE test
      /\ outcome' = IF Fits(n, n) THEN "tested" ELSE "overrun"
      /\ pc' = "done"
      /\ UNCHANGED <<input, pos, table, swaps, codes, train>>

\* test_step::run, up to the test itself.
Test ==
  LET n == SpliterNegate(conf.split, Rows)
      off == SpliterAt(conf.split, Rows)
  IN  /\ pc = "test"
      /\ test' = IF Fits(n, off) THEN Samples(n, off) ELSE test
      /\ outcome' = IF Fits(n, off) THEN "tested" ELSE "overrun"
      /\ pc' = "done"
      /\ UNCHANGED <<input, pos, table, swaps, codes, train>>

Ended == pc = "done" /\ UNCHANGED vars

Next ==
  \/ ReadMessage
  \/ OpenSource
  \/ ReadLine \/ EndOfFile
  \/ SwapRows \/ Shuffled
  \/ MakeTable \/ Train \/ Test
  \/ Ended

Spec == Init /\ [][Next]_vars

-----------------------------------------------------------------------------
SampleType == [rows : Seq(DOMAIN file), labels : Seq(Classes \cup Int)]

\* The variables have their types; no more is numbered than there are classes.
TypeOK ==
  /\ message \in MessageType
  /\ source \in Sources \cup {"unopened"}
  /\ file \in Seq(Lines)
  /\ label \in [DOMAIN file -> Classes]
  /\ conf \in Confs
  /\ pc \in {"message", "open", "read", "shuffle", "map", "train", "test", "done"}
  /\ pos \in 0 .. Len(file)
  /\ \A c \in Columns : table[c] \in Seq(DOMAIN file)
  /\ swaps \in 0 .. MaxLines
  /\ DOMAIN codes \subseteq Classes
  /\ \A v \in DOMAIN codes : codes[v] \in 0 .. Cardinality(Classes) - 1
  /\ train.rows \in Seq(DOMAIN file) /\ Len(train.labels) <= MaxLines
  /\ test.rows \in Seq(DOMAIN file) /\ Len(test.labels) <= MaxLines
  /\ outcome \in {"running", "runtime_error", "invalid_conf", "malformat_input",
                  "bad_lexical_cast", "json_error", "exception", "tested", "overrun"}

Usable(l) == file[l].cells >= NumColumns /\ file[l].spoilt = "no"

\* Once a file was read, its columns hold the same rows in the same order,
\* shuffled or not: each of the lines above the first empty one (or the end of
\* the file) exactly once, all of which are complete.  Where the message does
\* not ask for a shuffle it is the order of the file.
RowsStayTogether ==
  pc \in {"shuffle", "map", "train", "test"} \/ outcome \in {"tested", "overrun"} =>
    /\ \A c \in Columns : table[c] = table[1]
    /\ Elements(table[1]) = 1 .. Rows
    /\ ~message.randomized => \A i \in 1 .. Rows : table[1][i] = i
    /\ \A l \in 1 .. Rows : Usable(l)
    /\ Rows < Len(file) => file[Rows + 1].cells = 0

\* With a percentage from 0 to 100 every row that was read is learned from or
\* tested with, none is both, and what is kept for testing is the percentage
\* the message asks for, rounded up: none if it is no number.
LearnedOrTested ==
  LET kept == IF message.arg = Unread THEN 0 ELSE message.arg
      learned == Len(train.rows)
  IN  outcome = "tested" /\ message.validation = "precent" /\ kept <= 100 =>
        /\ train.rows \o test.rows = table[1]
        /\ 100 * learned <= (100 - kept) * Rows
        /\ (100 - kept) * Rows < 100 * (learned + 1)

\* The label at every place of a window is the one of the row at that place.  If
\* the message is about a classifier two of them have the same number exactly
\* if they are of the same class, and the numbers are those from 0 to
\* uniques - 1; otherwise the labels are what the file says.
LabelsFitSamples ==
  outcome = "tested" /\ message.labelled =>
    \A samples \in {train, test} :
      /\ Len(samples.labels) = Len(samples.rows)
      /\ message.type = "classifier" =>
           /\ \A k \in DOMAIN samples.rows :
                samples.labels[k] = codes[label[samples.rows[k]]]
           /\ \A v, w \in DOMAIN codes : codes[v] = codes[w] => v = w
           /\ Elements([v \in DOMAIN codes |-> codes[v]]) =
                0 .. Cardinality(DOMAIN codes) - 1
      /\ message.type = "regression" =>
           \A k \in DOMAIN samples.rows : samples.labels[k] = label[samples.rows[k]]

\* row_data_input.cpp, at the clipping of a window: "make sure not to
\* overflow!!".  Whatever percentage the configuration has, no row is read
\* outside of the columns.
NoOverrun == outcome # "overrun"
=============================================================================
