----------------------------- MODULE Prediction -----------------------------
(***************************************************************************)
(* model_prediction: the header of the data file gives the schema, the      *)
(* message is read against it, and then each line of the file passes        *)
(* read_row, verify_fix, normalized and apply_model; the rows that have a   *)
(* number are reported.  One thread, but the data file may be removed and   *)
(* the model file be rewritten while it runs.                               *)
(*                                                                          *)
(* A cell is a record of where its value comes from and what was applied to *)
(* it; the numbers themselves, and what a model says of them, are not       *)
(* modelled.                                                                *)
(***************************************************************************)
EXTENDS ModelFile, Sequences, FiniteSets

CONSTANT Jobs  \* the messages and data files the program may be started with

Index == "index"  \* parse_row: row_number_name

\* A line has a number of tokens, some of which stand for missing values; the
\* last line may lack its newline.  A fix has the number of its column's id and
\* a value, which may itself be one that stands for a missing value.
JobType ==
  [form    : {"text", "path", "path of 256", "long path"},
   header  : Seq(STRING),
   lines   : Seq([tokens : Nat, missing : SUBSET Nat]),
   newline : BOOLEAN,
   fixes   : Seq([column : STRING, missing : BOOLEAN]),
   norms   : Seq([column : STRING, good : BOOLEAN]),
   model   : {"fits", "other width", "other algorithm", "unknown", "bare path"}]

ASSUME JobsAssumption == Jobs \subseteq JobType

VARIABLES
  job,          \* argv[1], and the data file it names
  sourceThere,  \* the data file exists
  ppc,          \* what is done next
  norms,        \* normalized::actions: numbers of the message's entries
  loaded,       \* the model in memory, NoModel, or Garbled
  lineNo,       \* lines of data that were read
  row,          \* the cells of the row at hand
  at,           \* fix_missing_vals: where the search for missing values is
  results,      \* prediction_results
  outcome       \* "none", "answered", "failed" (a report), or "crashed"

rowVars == <<lineNo, row, at, results>>
predVars == <<job, sourceThere, ppc, norms, loaded, rowVars, outcome>>

\* What was read from a file that is cut, or written by another algorithm,
\* without the library noticing.
Garbled == -2

Cell == [from : Int, norms : Seq(Nat)]
Measured == 0  \* a cell's "from": the file; a number is that of a fix
Zero == -1     \* or the value a row is made with

PredTypeOK ==
  /\ job \in Jobs
  /\ sourceThere \in BOOLEAN
  /\ ppc \in {"schema", "command", "verify", "open", "load", "read", "fix",
              "norm", "predict", "done"}
  /\ norms \in Seq(DOMAIN job.norms)
  /\ loaded \in Models \cup {NoModel, Garbled}
  /\ lineNo \in 0 .. Len(job.lines) + 1
  /\ row \in Seq(Cell)
  /\ at \in 0 .. Len(row) + 1
  /\ results \in Seq([line : Nat, status : {"ok", "model error", "removed"},
                      cells : Seq(Cell), model : Int])
  /\ outcome \in {"none", "answered", "failed", "crashed"}

PredInit ==
  /\ job \in Jobs
  /\ sourceThere = TRUE
  /\ ppc = "schema"
  /\ norms = <<>>
  /\ loaded = NoModel
  /\ lineNo = 0
  /\ row = <<>>
  /\ at = 0
  /\ results = <<>>
  /\ outcome = "none"

-----------------------------------------------------------------------------
(* schema_mapper: each id of the header has the place it is first at *)

Ids == {job.header[i] : i \in DOMAIN job.header}
ColumnsNum == Cardinality(Ids)
Place(id) == CHOOSE i \in DOMAIN job.header :
               /\ job.header[i] = id
               /\ \A j \in 1 .. i - 1 : job.header[j] # id

\* main reports what is thrown and returns -1; a crash reports nothing.
End(how) ==
  /\ ppc' = "done"
  /\ outcome' = how
Goto(to) ==
  /\ ppc' = to
  /\ UNCHANGED outcome

\* generate_schema, read_schema, load_json: a message that is longer than 256
\* characters is taken for JSON.
ReadSchema ==
  /\ ppc = "schema"
  /\ IF job.form = "long path" \/ ~sourceThere \/ job.header = <<>>
     THEN End("failed") ELSE Goto("command")
  /\ UNCHANGED <<job, sourceThere, norms, loaded, rowVars>>

-----------------------------------------------------------------------------
(* process_command *)

\* The order the entries are applied in: std::sort by column, which
\* keeps the order of equal entries as long as there are at most 16.
Sorted(entries) ==
  LET Before(i, j) == LET p == Place(entries[i].column)
                          q == Place(entries[j].column)
                      IN p < q \/ (p = q /\ i < j)
      Rank(i) == Cardinality({j \in DOMAIN entries : Before(j, i)}) + 1
  IN [r \in DOMAIN entries |-> CHOOSE i \in DOMAIN entries : Rank(i) = r]

\* process_command takes a message of 256 characters for JSON already.  Every
\* column that is named must be in the schema, and the model be a known one.
CommandIsGood ==
  /\ job.form \in {"text", "path"}
  /\ \A i \in DOMAIN job.norms : job.norms[i].column \in Ids
  /\ \A i \in DOMAIN job.fixes : job.fixes[i].column \in Ids
  /\ job.model # "unknown"

ProcessCommand ==
  /\ ppc = "command"
  /\ IF CommandIsGood
     THEN /\ norms' = Sorted(job.norms)
          /\ Goto("verify")
     ELSE /\ End("failed")
          /\ UNCHANGED norms
  /\ UNCHANGED <<job, sourceThere, loaded, rowVars>>

-----------------------------------------------------------------------------
(* run_predictions *)

VerifyPaths ==
  /\ ppc = "verify"
  /\ IF sourceThere /\ modelFile # NoFile THEN Goto("open") ELSE End("failed")
  /\ UNCHANGED <<job, sourceThere, norms, loaded, rowVars>>

\* parse_row has one cell less than the schema has columns, and indexes them by
\* the place in the schema: when "index" is not the last column, the last one
\* is written past the end.
RowLength == ColumnsNum - 1
WritesPastEnd == \E id \in Ids \ {Index} : Place(id) > RowLength

\* The next step, or the crash a write past the end may be.
GotoOrCrash(past, to) == Goto(to) \/ (past /\ End("crashed"))

\* The header line is read as a row: it has one token for each id, except
\* when an id is there twice, which is only let pass at the end of the file.
HeaderIsRow == Len(job.header) = ColumnsNum
HeaderIsAll == job.lines = <<>> /\ ~job.newline

OpenSource ==
  /\ ppc = "open"
  /\ IF sourceThere /\ (HeaderIsRow \/ HeaderIsAll)
     THEN GotoOrCrash(HeaderIsRow /\ WritesPastEnd, "load")
     ELSE End("failed")
  /\ UNCHANGED <<job, sourceThere, norms, loaded, rowVars>>

\* loading_model::execute: a path without a directory gives a null model, and
\* no exception.  The file is read as it is now.
LoadModel ==
  /\ ppc = "load"
  /\ IF job.model = "bare path"
     THEN loaded' = NoModel /\ Goto("read")
     ELSE IF modelFile.state = "whole" /\ job.model # "other algorithm"
     THEN loaded' = modelFile.model /\ Goto("read")
     ELSE \/ loaded' \in {NoModel, Garbled} /\ Goto("read")
          \/ End("failed") /\ UNCHANGED loaded
  /\ UNCHANGED <<job, sourceThere, norms, rowVars>>

-----------------------------------------------------------------------------
(* do_prediction: one line *)

Unterminated(n) == n = Len(job.lines) /\ ~job.newline
NoMoreLines == lineNo = Len(job.lines)
CurrentIsWhole == job.lines[lineNo + 1].tokens = ColumnsNum

\* index(r) is the number in the index column; without one it is not valid, and
\* neither is that of the output END_OF_FILE and INVALID rows get.
Numbered == Index \in Ids
Deliver(status, model) ==
  results' = IF Numbered
             THEN Append(results, [line |-> lineNo, status |-> status,
                                   cells |-> row, model |-> model])
             ELSE results

ReadRow ==
  /\ ppc = "read"
  /\ ~NoMoreLines
  /\ CurrentIsWhole
  /\ lineNo' = lineNo + 1
  /\ row' = [p \in 1 .. RowLength |->
               [from |-> IF job.header[p] = Index THEN Zero ELSE Measured,
                norms |-> <<>>]]
  /\ at' = 1
  /\ IF RowLength = 0 THEN GotoOrCrash(WritesPastEnd, "read")
                      ELSE GotoOrCrash(WritesPastEnd, "fix")
  /\ UNCHANGED <<job, sourceThere, norms, loaded, results>>

\* A line with another number of tokens: at the end of the file it is taken for
\* the end, anywhere else invalid_input passes all the way to main.
SpoiltRow ==
  /\ ppc = "read"
  /\ ~NoMoreLines
  /\ ~CurrentIsWhole
  /\ lineNo' = lineNo + 1
  /\ IF Unterminated(lineNo') THEN Goto("read") ELSE End("failed")
  /\ UNCHANGED <<job, sourceThere, norms, loaded, row, at, results>>

\* The stream ends, and the results are formatted.
EndOfFile ==
  /\ ppc = "read"
  /\ NoMoreLines
  /\ End("answered")
  /\ UNCHANGED <<job, sourceThere, norms, loaded, rowVars>>

IsMissing(p) ==
  IF row[p].from > 0 THEN job.fixes[row[p].from].missing
  ELSE row[p].from = Measured /\ p \in job.lines[lineNo].missing

MissingFrom == {p \in DOMAIN row : p >= at /\ IsMissing(p)}
FirstMissing == CHOOSE p \in MissingFrom : \A q \in MissingFrom : p <= q

FixesOf(p) == {k \in DOMAIN job.fixes : Place(job.fixes[k].column) = p}
\* Mutant: the last fix for a column, not the first.
LastFix(p) == CHOOSE k \in FixesOf(p) : \A l \in FixesOf(p) : k >= l

FirstFix(p) == CHOOSE k \in FixesOf(p) : \A l \in FixesOf(p) : k <= l

\* Mutant: the replacement goes into a copy of the entry.
FixCopy ==
  /\ ppc = "fix"
  /\ MissingFrom # {}
  /\ FixesOf(FirstMissing) # {}
  /\ at' = FirstMissing
  /\ UNCHANGED <<job, sourceThere, ppc, norms, loaded, lineNo, row, results, outcome>>

\* The search goes on at the place it has just fixed.
FixCell ==
  /\ ppc = "fix"
  /\ MissingFrom # {}
  /\ FixesOf(FirstMissing) # {}
  /\ row' = [row EXCEPT ![FirstMissing].from = FirstFix(FirstMissing)]
  /\ at' = FirstMissing
  /\ UNCHANGED <<job, sourceThere, ppc, norms, loaded, lineNo, results, outcome>>

RemoveRow ==
  /\ ppc = "fix"
  /\ MissingFrom # {}
  /\ FixesOf(FirstMissing) = {}
  /\ Deliver("removed", NoModel)
  /\ Goto("read")
  /\ UNCHANGED <<job, sourceThere, norms, loaded, lineNo, row, at>>

RowIsFixed ==
  /\ ppc = "fix"
  /\ MissingFrom = {}
  /\ Goto("norm")
  /\ UNCHANGED <<job, sourceThere, norms, loaded, rowVars>>

\* The place an entry of the message names, which may be past the row's end.
NormPlace(n) == Place(job.norms[n].column)
NormsAreGood == \A i \in DOMAIN norms : job.norms[norms[i]].good

\* What the loop over the entries applies to the cell at a place.
Applied(p) ==
  LET first[i \in 0 .. Len(norms)] ==
        IF i = 0 THEN <<>>
        ELSE IF NormPlace(norms[i]) = p THEN Append(first[i - 1], norms[i])
        ELSE first[i - 1]
  IN  first[Len(norms)]

\* One entry after the other is applied to the row; the exception of an entry
\* whose statistics are bad passes all the way to main.
NormalizeRow ==
  /\ ppc = "norm"
  /\ row' = [p \in DOMAIN row |-> [row[p] EXCEPT !.norms = Applied(p)]]
  /\ LET past == \E i \in DOMAIN norms : NormPlace(norms[i]) > Len(row) IN
       IF NormsAreGood THEN GotoOrCrash(past, "predict")
       ELSE End("failed") \/ (past /\ End("crashed"))
  /\ UNCHANGED <<job, sourceThere, norms, loaded, lineNo, at, results>>

\* predicate: without a model the answer is the largest number, which is not a
\* good prediction.  Rows a model was not trained for may make it throw.
PredictRow ==
  /\ ppc = "predict"
  /\ \/ /\ IF loaded = NoModel THEN Deliver("model error", NoModel)
           ELSE \E status \in {"ok", "model error"} : Deliver(status, loaded)
        /\ Goto("read")
     \/ /\ \/ loaded = Garbled
           \/ loaded # NoModel /\ job.model = "other width"
        /\ End("failed")
        /\ UNCHANGED results
  /\ UNCHANGED <<job, sourceThere, norms, loaded, lineNo, row, at>>

-----------------------------------------------------------------------------
\* Somebody removes the data file.
SourceVanishes ==
  /\ sourceThere
  /\ ppc # "done"
  /\ sourceThere' = FALSE
  /\ UNCHANGED <<job, ppc, norms, loaded, rowVars, outcome>>

PredSteps ==
  \/ ReadSchema \/ ProcessCommand \/ VerifyPaths \/ OpenSource \/ LoadModel
  \/ ReadRow \/ SpoiltRow \/ EndOfFile \/ FixCell \/ RemoveRow \/ RowIsFixed
  \/ NormalizeRow \/ PredictRow

PredNext == (PredSteps \/ SourceVanishes) /\ UNCHANGED fileVars
=============================================================================
