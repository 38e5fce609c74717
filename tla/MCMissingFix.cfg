CONSTANTS
  RowNumbers <- MCRowNumbers
  ColumnRows <- MCColumnRows
  InvalidRows <- MCInvalidRows
  Counts <- MCCounts
  Wrap = 65536
  Overrun = 2

SPECIFICATION Spec

INVARIANTS
  TypeOK
  MeasuredIfKept
  NearestIfFenced
  OnlyRowZeroIsLeft
