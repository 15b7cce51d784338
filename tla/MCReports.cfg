SPECIFICATION MCSpec
CONSTANTS
  MaxLines = 5
  None = None
  A = A
  B = B
  C = C
  X = X
  demand = demand
  time = time
  Targets = {A, B, C}
  Others = {X}
  Groups <- MCGroups
  GroupOf <- MCGroupOf
  Amounts = {1}
  MaxRows = 3
  MaxMisread = 2
  acc1 = acc1
  acc2 = acc2
  Names = {acc1, acc2}
  MaxDate = 2
  MaxWrites = 2
  MaxTrouble = 1
  MaxDrafts = 2
  m1 = m1
  m2 = m2
  Undated = Undated
  OpFiles = {1, 2, 3, 4}
  MonthOf <- MCMonthOf
  MaxOpTrouble = 1
  MaxRuns = 2
INVARIANTS  DraftsKeepTails  WholeFilePasses
INVARIANTS ResyncIsIdempotent MarkedHasFiles  NewestIsChosen EveryGateOpens OneOwner
PROPERTIES SelectedIsItsDay RunIsExact
CHECK_DEADLOCK FALSE
