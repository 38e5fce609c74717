------------------------------ MODULE ModelLife ------------------------------
(***************************************************************************)
(* generate_model and model_prediction over one model file: models are      *)
(* trained and saved, run after run, while a prediction is under way.       *)
(***************************************************************************)
EXTENDS GenerateModel, Prediction

VARIABLE
  held  \* history: what was at the path of the model file from where the
        \* prediction looks for it to where it loads it

vars == <<fileVars, genVars, predVars, held>>

TypeOK == FileTypeOK /\ GenTypeOK /\ PredTypeOK /\ held \subseteq Files

Init == FileInit /\ GenInit /\ PredInit /\ held = {}

Watch ==
  held' = CASE ppc = "verify"           -> {modelFile}
            [] ppc \in {"open", "load"} -> held \cup {modelFile}
            [] OTHER                    -> held

Generate == GenNext /\ Watch /\ UNCHANGED predVars
Predict == PredNext /\ Watch /\ UNCHANGED genVars

Finished ==
  /\ gpc = "idle"
  /\ runs = MaxRuns
  /\ ppc = "done"
  /\ UNCHANGED vars

Next == Generate \/ Predict \/ Finished

\* Each program has one thread, which runs while it has something to do.  No
\* run has to be started or killed, and the data file need not vanish.
Fairness ==
  /\ WF_vars(GenSteps /\ Watch /\ UNCHANGED predVars)
  /\ WF_vars(PredSteps /\ Watch /\ UNCHANGED <<fileVars, genVars>>)

Spec == Init /\ [][Next]_vars /\ Fairness

-----------------------------------------------------------------------------
(* What model_prediction should answer, from its message and data alone *)

\* The lines that count as rows: all of them, but for a last line that is no
\* row and lacks its newline.
WholeLines ==
  {n \in DOMAIN job.lines : job.lines[n].tokens = Len(job.header)}
LinesAreWhole ==
  DOMAIN job.lines \ WholeLines \subseteq
    (IF job.newline THEN {} ELSE {Len(job.lines)})

ColumnFixes(p) == {k \in DOMAIN job.fixes : job.fixes[k].column = job.header[p]}
ColumnNorms(p) == {k \in DOMAIN job.norms : job.norms[k].column = job.header[p]}

\* The places of a row that are not the index, and those that lack a value.
Features == {p \in 1 .. Len(job.header) - 1 : job.header[p] # Index}
Lacking(n) == Features \cap job.lines[n].missing
CanBeFixed(n) == \A p \in Lacking(n) : ColumnFixes(p) # {}

ValueOf(n, p) ==
  IF p \notin Features THEN Zero
  ELSE IF p \in Lacking(n)
  THEN CHOOSE k \in ColumnFixes(p) : \A l \in ColumnFixes(p) : k <= l
  ELSE Measured

\* Each entry for the column once, in the order of the message.
IsNormalized(applied, p) ==
  /\ {applied[i] : i \in DOMAIN applied} = ColumnNorms(p)
  /\ \A i, j \in DOMAIN applied : i < j => applied[i] < applied[j]

\* The result of a line is that of its row: removed if a value is missing and
\* nothing says how to replace it; otherwise the model was asked for the values
\* of this line, each replaced and normalized as the message says.
IsResultOf(r, n) ==
  /\ r.line = n
  /\ (r.status = "removed") = ~CanBeFixed(n)
  /\ r.status # "removed" =>
       /\ DOMAIN r.cells = 1 .. Len(job.header) - 1
       /\ \A p \in DOMAIN r.cells :
            r.cells[p].from = ValueOf(n, p) /\ IsNormalized(r.cells[p].norms, p)
       /\ r.model = loaded
       /\ (loaded = NoModel) => r.status = "model error"

\* What makes model_prediction refuse a message or a data file.
IsRefused ==
  \/ job.form \in {"long path", "path of 256"}
  \/ job.model = "unknown"
  \/ job.header = <<>>
  \/ \E i \in DOMAIN job.norms : job.norms[i].column \notin Ids \/ ~job.norms[i].good
  \/ \E i \in DOMAIN job.fixes : job.fixes[i].column \notin Ids
  \/ Cardinality(Ids) # Len(job.header)
  \/ ~LinesAreWhole

\* A file that holds a model of the kind the message says.
Fits(file) == file.state = "whole" /\ job.model # "other algorithm"

\* There was no model of that kind at the path when the prediction looked for it,
\* or later until it loaded it.
Unreadable == \E file \in held : ~Fits(file)

\* The model in memory is one that was at the path as a whole after the
\* prediction had looked for it, unless the path is one that gives none or the
\* file was unreadable for a while.
ModelIsHeld ==
  \/ job.model = "bare path" /\ loaded = NoModel
  \/ \E file \in held : Fits(file) /\ loaded = file.model
  \/ Unreadable /\ loaded \in {NoModel, Garbled}

\* If model_prediction answers, there is one result for every line of the data
\* file, in the order of the lines, and it is the one its message asks for, all
\* from one model that was at the path; without an index column there is none.
\* What comes after the index column is read, and lost.  A job that nothing
\* refuses is answered, unless the data file was gone before a line was read,
\* there was a moment before a model was loaded when the model file did not hold
\* a whole one of the kind the message says, or a line met a model for rows of
\* another width; or "index" is not the last column and the program dies of it.
RowsAreAnswered ==
  /\ outcome = "answered" =>
       /\ ModelIsHeld
       /\ IF Index \notin Ids \/ Len(job.header) < 2 THEN results = <<>>
          ELSE /\ LinesAreWhole
               /\ Len(results) = Cardinality(WholeLines)
               /\ \A n \in DOMAIN results : IsResultOf(results[n], n)
  /\ outcome = "failed" =>
       \/ IsRefused
       \/ ~sourceThere /\ lineNo = 0
       \/ Unreadable
       \/ job.model = "other width" /\ lineNo # 0
  /\ outcome = "crashed" =>
       WritesPastEnd \/ \E i \in DOMAIN job.norms : job.norms[i].column = Index

\* The prediction ends, whatever its data and whatever becomes of the model
\* file, provided that no fix replaces a missing value by a missing one; and so
\* does every run of generate_model.
ProgramsEnd ==
  /\ (\A k \in DOMAIN job.fixes : ~job.fixes[k].missing) => <>(ppc = "done")
  /\ gpc # "idle" ~> gpc = "idle"
=============================================================================
