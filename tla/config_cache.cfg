CONSTANTS
  Workers = {w1, w2}
  NoTask = NoTask
  Walls = {"sea", "hill"}
  Modes = {"dark"}
  Themings = {{}, {"matugen"}, {"native"}}
  None = None
  Torn = Torn
  MaxEdits = 1
  MaxGen = 2
SPECIFICATION FairSpec
INVARIANTS TypeOK LightNotOlder
PROPERTIES NeverReverts AdoptedFits NewestIsAnnounced
CHECK_DEADLOCK FALSE
