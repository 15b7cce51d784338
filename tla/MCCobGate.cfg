SPECIFICATION Spec
CONSTANTS
  account = account
  customer = customer
  BATCH = BATCH
  Null = Null
  r1 = r1
  r2 = r2
  Tables <- MCTables
  Recs <- MCRecs
  CobRecid = r1
  Routes <- MCRoutes
  GateSources <- MCGateSources
  Loaded <- MCTables
  Overlap = FALSE
  Skewed = FALSE
  MaxDay = 1
  MaxLog = 4
  MaxCrash = 1
  MaxRestart = 0
  MaxFail = 1
  MaxForced = 1
 
INVARIANT ProgressCovered
INVARIANT CommittedIsApplied
PROPERTIES SealedDayIsFinal ImplementsLedger
CHECK_DEADLOCK FALSE
