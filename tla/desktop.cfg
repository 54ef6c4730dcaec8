CONSTANTS
  Contents = {a, b, c}
  None = None
  Kept = 1
SPECIFICATION Spec
SYMMETRY Permuted
INVARIANTS TypeOK NothingInvented GrantIsCurrent
PROPERTY WorkIsKept
