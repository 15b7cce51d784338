SPECIFICATION BuildsSpec
CONSTANTS
  Null = Null
  account = account
  crb = crb
  cris = cris
  trial = trial
  accounting = accounting
  demo = demo
  Sources <- MCSources
  CdcSources <- MCCdc
  Enqs <- MCEnqs
  SourceSet <- MCSourceSet
  Domains <- MCOneDomain
  EnqsOf <- MCOneEnqsOf
  DirectOf <- MCOneDirect
  MaxDay = 2
  MaxTrouble = 0
INVARIANT GoldOfItsDay
CHECK_DEADLOCK FALSE
