CONSTANTS
  ColumnIds = {"a", "b", "c"}
  NoColumn = ""
  Index = "index"
  RowLists <- MCRowLists
  NotARow = NotARow
  AsNumber <- MCAsNumber
  Unreadable = "unreadable"
  Entries <- MCEntries
  MaxEntries = 4
  Headers <- MCHeaders

SPECIFICATION ConfSpec

INVARIANTS
  ConfTypeOK
  LastEntryWins
  ConfigurationIsComplete
