SPECIFICATION FairSpec
CONSTANTS
  Null = Null
  BATCH = BATCH
  HOLD = HOLD
  crf = crf
  r1 = r1
  Tables <- MCTables
  Routes <- MCRoutes
  Recs <- MCRecs
  CobRecid = r1
  Reports <- MCReports
  ReportOf <- MCReportOf
  Overlap = FALSE
  Skewed = TRUE
  MaxDay = 1
  MaxLog = 4
  MaxCrash = 1
  MaxRestart = 0
  MaxFail = 1
  MaxForced = 1
PROPERTIES ImplementsMarker ImplementsLedger SealCoversManifest  ClosedDayIsHeld
CHECK_DEADLOCK FALSE
