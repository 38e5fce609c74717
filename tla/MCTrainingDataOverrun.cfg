CONSTANTS
  NumColumns = 2
  Lines <- MCLines
  MaxLines = 3
  Classes = {3, 7}
  Splits = {0, 33, 50, 100, 150}
  Unread = Unread
  Messages <- MCMessages
  Wrap = 65536

SPECIFICATION Spec

INVARIANTS
  NoOverrun
