CHECK_DEADLOCK FALSE
CONSTANTS
  Windows = {w1}
  Contents = {blank, a, b}
  Blank = blank
  None = None
  Limit = 1
  Kept = 1
  MaxShared = 1
  MaxProjects = 1
  MaxRevisions = 3
  MaxSessions = 2
  MaxEdits = 2
  MaxUpsets = 2
SPECIFICATION Spec
SYMMETRY Permuted
INVARIANTS TypeOK CleanIsStored NothingBuried
PROPERTY ReplacementKeepsWork
