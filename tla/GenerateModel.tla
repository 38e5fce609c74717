---------------------------- MODULE GenerateModel ----------------------------
(***************************************************************************)
(* generate_model: one thread reads the data, numbers the labels, trains a  *)
(* model, tests it, runs the experiments, and saves the model to the path   *)
(* of the configuration.  Every step may throw, and the process may be      *)
(* killed anywhere; what it answers is the only thing the caller knows of   *)
(* the file.                                                                *)
(***************************************************************************)
EXTENDS ModelFile

VARIABLES
  runs,     \* runs that were started; the last one is the current one
  gpc,      \* what it does next; "idle" between runs
  trained,  \* test_step::action: the model, NoModel if training gave none
  answer,   \* "none", "saved" (exit code 0), "failed" (an error report)
  before    \* history: the file when the run was started

genVars == <<runs, gpc, trained, answer, before>>

GenTypeOK ==
  /\ runs \in 0 .. MaxRuns
  /\ gpc \in {"idle", "read", "table", "train", "test", "experiments", "save",
              "writing", "saved"}
  /\ trained \in Models \cup {NoModel}
  /\ answer \in {"none", "saved", "failed"}
  /\ before \in Files

GenInit ==
  /\ runs = 0
  /\ gpc = "idle"
  /\ trained = NoModel
  /\ answer = "none"
  /\ before = modelFile

-----------------------------------------------------------------------------
\* main up to a configuration that was read and is good.
StartRun ==
  /\ gpc = "idle"
  /\ runs < MaxRuns
  /\ runs' = runs + 1
  /\ trained' = NoModel
  /\ before' = modelFile
  /\ diskFailed' = FALSE
  /\ \/ gpc' = "read" /\ answer' = "none"
     \/ gpc' = "idle" /\ answer' = "failed"
  /\ UNCHANGED modelFile

\* A step of execute that ends well.
Step(from, to) ==
  /\ gpc = from
  /\ gpc' = to
  /\ UNCHANGED <<runs, trained, answer, before, fileVars>>

ReadData == Step("read", "table")
MakeTable == Step("table", "train")
TestModel == Step("test", "experiments")
RunExperiments == Step("experiments", "save")

\* Without data the training returns no model, and no exception.
TrainModel ==
  /\ gpc = "train"
  /\ gpc' = "test"
  /\ trained' \in {runs, NoModel}
  /\ UNCHANGED <<runs, answer, before, fileVars>>

\* An error report: an exception passed main, or save returned false.
Report ==
  /\ gpc' = "idle"
  /\ answer' = "failed"
  /\ UNCHANGED <<runs, trained, before>>

StepThrows ==
  /\ gpc \in {"read", "table", "train", "test", "experiments"}
  /\ Report
  /\ UNCHANGED fileVars

\* saving_model::execute: the directory of the path does not exist (nor does
\* the empty one of a bare file name), or there is no model.
SaveRefused ==
  /\ gpc = "save"
  /\ Report
  /\ UNCHANGED fileVars

\* Mutant: a model that is null is saved like any other.
OpenFileUnchecked ==
  /\ gpc = "save"
  /\ gpc' = IF trained = NoModel THEN "saved" ELSE "writing"
  /\ modelFile' = IF trained = NoModel THEN modelFile ELSE CutFile(trained)
  /\ UNCHANGED <<runs, trained, answer, before, diskFailed>>

\* The file is opened: whatever was in it is gone.
OpenFile ==
  /\ gpc = "save"
  /\ trained # NoModel
  /\ gpc' = "writing"
  /\ modelFile' = CutFile(trained)
  /\ UNCHANGED <<runs, trained, answer, before, diskFailed>>

\* It cannot be opened.  save_model does not look at what the library returns;
\* the library may throw by itself.
OpenFails ==
  /\ gpc = "save"
  /\ trained # NoModel
  /\ diskFailed' = TRUE
  /\ UNCHANGED modelFile
  /\ \/ gpc' = "saved" /\ UNCHANGED <<runs, trained, answer, before>>
     \/ Report

WriteFile ==
  /\ gpc = "writing"
  /\ gpc' = "saved"
  /\ modelFile' = WholeFile(trained)
  /\ UNCHANGED <<runs, trained, answer, before, diskFailed>>

\* The disk is full: save returns true all the same, unless the library throws.
WriteFails ==
  /\ gpc = "writing"
  /\ diskFailed' = TRUE
  /\ UNCHANGED modelFile
  /\ \/ gpc' = "saved" /\ UNCHANGED <<runs, trained, answer, before>>
     \/ Report

\* save returned true, and the lookup table is printed.
ReportSaved ==
  /\ gpc = "saved"
  /\ gpc' = "idle"
  /\ answer' = "saved"
  /\ UNCHANGED <<runs, trained, before, fileVars>>

\* The process is gone without a word.
Killed ==
  /\ gpc # "idle"
  /\ gpc' = "idle"
  /\ UNCHANGED <<runs, trained, answer, before, fileVars>>

GenSteps ==
  \/ ReadData \/ MakeTable \/ TrainModel \/ TestModel \/ RunExperiments
  \/ StepThrows \/ SaveRefused \/ OpenFile \/ OpenFails
  \/ WriteFile \/ WriteFails \/ ReportSaved

GenNext == StartRun \/ GenSteps \/ Killed

-----------------------------------------------------------------------------
\* The answer of generate_model tells what is at the path, as long as the disk
\* did what it was asked: after "saved" the whole model of this very run, and
\* after an error report, whichever step it came from, what was there before.
\* A half-written file is only ever left by a killed process or a failed disk.
AnswerTellsTheFile ==
  gpc = "idle" /\ ~diskFailed =>
    /\ answer = "saved" => modelFile = WholeFile(runs)
    /\ answer = "failed" => modelFile = before
=============================================================================
