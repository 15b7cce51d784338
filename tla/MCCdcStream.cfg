SPECIFICATION FairStreamSpec
CONSTANTS
  account = account
  BATCH = BATCH
  r1 = r1
  r2 = r2
  Tables <- MCTables
  Recs <- MCOneRec
  CobRecid = r1
  Routes <- MCRoutes
  Overlap = TRUE
  Skewed = TRUE
  MaxDay = 1
  MaxLog = 3
  MaxCrash = 1
  MaxRestart = 1
INVARIANT StreamShape
PROPERTY ProgressNeverRegresses
PROPERTY BronzeConverges
PROPERTY MarkerIsShown
CHECK_DEADLOCK FALSE
