SPECIFICATION PullFairSpec
CONSTANTS
  Null = Null
  company = company
  category = category
  Tables <- MCTables
  Jdbc <- MCJdbc
  MaxDay = 1
  MaxChunks = 2
  MaxEdits = 1
  MaxFail = 1
  MaxForced = 1
  MaxStale = 1
INVARIANTS  ReadAfterClose
PROPERTIES ImplementsLedger ClosedDayIsPulled
CHECK_DEADLOCK FALSE
