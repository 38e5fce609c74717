CONSTANTS
  Ordinary = {"a", " "}
  Delimiter = ","
  Quote = "'"
  Escape = "/"
  NewLine = "n"
  Dropped = "?"
  Blank = {" "}
  Size = 2
  NoSuchFile = NoSuchFile
  Inputs <- MCInputs
  MaxCount = 8

SPECIFICATION Spec

INVARIANTS
  ReportIsOfTheTexts

PROPERTIES
  ImplementsReader
  ReportsUnlessReadFails
