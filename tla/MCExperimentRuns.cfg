CONSTANTS
  MaxModels = 2
  MaxExperiments = 2

SPECIFICATION Spec

INVARIANTS
  TypeOK
  BorrowedIsAlive
  AnswerIsDetermined

PROPERTIES
  AlwaysAnswers
