CONSTANTS
  MaxRuns = 2
  Jobs <- MCJobs

SPECIFICATION Spec

INVARIANTS
  RowsAreAnswered
  AnswerTellsTheFile

PROPERTIES
  ProgramsEnd
