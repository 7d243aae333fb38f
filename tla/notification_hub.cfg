CONSTANTS
  Apps = {"chat", "media"}
  Contents = {"x"}
  RuledApps = {}
  PushApps = {"chat", "media"}
  Media = "media"
  Cap = 2
  MaxCards = 1
  MaxIds = 3
SPECIFICATION FairSpec
INVARIANTS TypeOK ClosedOnce CardsCurrent TimerCovers
PROPERTIES DueIsClosed
