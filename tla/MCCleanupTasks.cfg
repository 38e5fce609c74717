CONSTANTS
  NumColumns = 3
  Files <- MCFiles
  NoFile = NoFile
  DropSets <- MCDropSets

SPECIFICATION Spec

INVARIANTS
  TypeOK
  ThreadsJoined
  TruncatedOnlyIfFit
  ExportIsAligned
  DroppedRowsStayOut
  CutExportIsShort

PROPERTIES
  AlwaysAnswers
  ImplementsJob
