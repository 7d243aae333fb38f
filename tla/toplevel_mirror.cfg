CONSTANTS
  Handles = {h1, h2}
  Apps = {"", "a"}
  Titles = {"", "t"}
  Clients = {c}
  NoName = ""
  MaxWindows = 2
  MaxChanges = 2
SYMMETRY Symmetry
SPECIFICATION Spec
INVARIANTS TypeOK MirrorExact
PROPERTIES IdsNeverReused
CHECK_DEADLOCK FALSE
