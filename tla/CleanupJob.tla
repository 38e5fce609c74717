----------------------------- MODULE CleanupJob -----------------------------
(***************************************************************************)
(* What one cleanup of a data set promises, seen from the application that  *)
(* asked for it: a single answer, and what that answer says about the file  *)
(* the cleaned columns are exported to.                                     *)
(*                                                                          *)
(* The file is "untouched" until the job commits to an export, "partial"    *)
(* while its lines are written, and "complete" once every line is in it.    *)
(* The state of the stream is never looked at, so writes the disk refuses   *)
(* leave it "lossy" without anybody noticing.                               *)
(***************************************************************************)

VARIABLES
  outcome,  \* what the caller was told: nothing yet, or one of Answers
  file      \* the export file, as somebody opening it would find it

jobVars == <<outcome, file>>

\* "exported": the results of the columns were returned; "refused": an empty
\* result was returned; "exception": the call was left by a C++ exception.
Answers == {"exported", "refused", "exception"}
FileStates == {"untouched", "partial", "lossy", "complete"}

JobTypeOK ==
  /\ outcome \in Answers \cup {"running"}
  /\ file \in FileStates

JobInit ==
  /\ outcome = "running"
  /\ file = "untouched"

\* The columns cannot be exported, or the file cannot be opened.
Refuse ==
  /\ outcome = "running"
  /\ file = "untouched"
  /\ outcome' = "refused"
  /\ UNCHANGED file

\* An exception, before the file was opened or in the middle of a line.
Throw ==
  /\ outcome = "running"
  /\ outcome' = "exception"
  /\ UNCHANGED file

\* Opening the file truncates what an earlier job left there.
Truncate ==
  /\ outcome = "running"
  /\ file = "untouched"
  /\ file' = "partial"
  /\ UNCHANGED outcome

\* The disk stops taking what is written.
LoseWrites ==
  /\ outcome = "running"
  /\ file = "partial"
  /\ file' = "lossy"
  /\ UNCHANGED outcome

\* The answer "exported" is given only after an export that no exception cut.
Answer ==
  /\ outcome = "running"
  /\ file \in {"partial", "lossy"}
  /\ outcome' = "exported"
  /\ file' = IF file = "lossy" THEN "lossy" ELSE "complete"

JobNext == Refuse \/ Throw \/ Truncate \/ LoseWrites \/ Answer

JobSpec == JobInit /\ [][JobNext]_jobVars /\ WF_jobVars(JobNext)
=============================================================================
