CONSTANTS
  Auths = {a1, a2}
  None = None
  MaxAsks = 2
SPECIFICATION FairSpec
SYMMETRY Symmetry
INVARIANTS DialogCanBeLeft
CHECK_DEADLOCK FALSE
