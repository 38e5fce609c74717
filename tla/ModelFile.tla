------------------------------ MODULE ModelFile ------------------------------
(***************************************************************************)
(* The file a trained model is kept in: generate_model writes it, and       *)
(* model_prediction reads it, each a program of its own with nothing        *)
(* between them but the path.  A model is named by the run of               *)
(* generate_model that trained it; model 0 is one that was there before.    *)
(***************************************************************************)
EXTENDS Integers

CONSTANT MaxRuns  \* bound on the runs of generate_model

ASSUME RunsAssumption == MaxRuns \in Nat

Models == 0 .. MaxRuns
NoModel == -1  \* a null pointer

VARIABLES
  modelFile,   \* what is at the path: no file, a file cut short, a whole one
  diskFailed   \* the disk refused what the current run wrote, or the file

fileVars == <<modelFile, diskFailed>>

NoFile == [state |-> "none", model |-> NoModel]
CutFile(m) == [state |-> "cut", model |-> m]
WholeFile(m) == [state |-> "whole", model |-> m]

Files == {NoFile} \cup {CutFile(m) : m \in Models} \cup {WholeFile(m) : m \in Models}

FileTypeOK ==
  /\ modelFile \in Files
  /\ diskFailed \in BOOLEAN

FileInit ==
  /\ modelFile \in {NoFile, WholeFile(0)}
  /\ diskFailed = FALSE
=============================================================================
