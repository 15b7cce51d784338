SPECIFICATION BuildsFairSpec
CONSTANTS
  Null = Null
  account = account
  crb = crb
  cris = cris
  trial = trial
  accounting = accounting
  demo = demo
  Sources <- MCSources
  CdcSources <- MCCdc
  Enqs <- MCEnqs
  SourceSet <- MCSourceSet
  Domains <- MCDomains
  EnqsOf <- MCEnqsOf
  DirectOf <- MCDirectOf
  MaxDay = 2
  MaxTrouble = 1
INVARIANTS  SuccessHasInputs
PROPERTIES BuiltStays SilverMovesOn ClosedDayIsBuilt
CHECK_DEADLOCK FALSE
