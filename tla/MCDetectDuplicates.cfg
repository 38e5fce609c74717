CONSTANTS
  Columns = {a, b}
  NoColumn = NoColumn
  MaxEntries = 2
  MaxGone = 1

SPECIFICATION Spec

INVARIANTS
  TypeOK
  InputsAreIntact
  ThreadsJoined
  ReportIsComplete
  

PROPERTIES
  AlwaysAnswers
