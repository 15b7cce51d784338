SPECIFICATION RecSpec
CONSTANTS
  Null = Null
  Blank = Blank
  Malformed = Malformed
  LocalRef = "LOCAL.REF"
  v1 = v1
  v2 = v2
  r1 = r1
  r2 = r2
  Sanitize <- MCSanitize
  Recs <- MCOneRec
  Xmls <- MCXmls
  Layouts <- MCLayouts
  MaxEvents = 3
  MaxCrash = 0
INVARIANT ChildrenOfNewest
CHECK_DEADLOCK FALSE
