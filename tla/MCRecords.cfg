SPECIFICATION RecSpec
CONSTANTS
  Null = Null
  Blank = Blank
  Malformed = Malformed
  LocalRef = "LOCAL.REF"
  v1 = v1
  v2 = v2
  r1 = r1
  r2 = r2
  Sanitize <- MCSanitize
  Recs <- MCRecs
  Xmls <- MCXmls
  Layouts <- MCLayouts
  MaxEvents = 3
  MaxCrash = 1
INVARIANTS CommittedIsExact ChildrenOnce  
SYMMETRY MCSymmetry
CHECK_DEADLOCK FALSE
