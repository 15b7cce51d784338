SPECIFICATION Spec
CONSTANTS
  account = account
  customer = customer
  BATCH = BATCH
  Null = Null
  r1 = r1
  r2 = r2
  Tables <- MCOneTable
  Recs <- MCRecs
  CobRecid = r1
  Routes <- MCOneRoutes
  GateSources <- MCOneSource
  Loaded <- MCOneTable
  Overlap = FALSE
  Skewed = FALSE
  MaxDay = 1
  MaxLog = 4
  MaxCrash = 0
  MaxRestart = 0
  MaxFail = 0
  MaxForced = 0
CHECK_DEADLOCK FALSE
INVARIANT PinnedAsOfCob
