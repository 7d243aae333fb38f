CONSTANTS
  Apps = {"chat", "media"}
  Contents = {"x"}
  RuledApps = {}
  PushApps = {"media"}
  Media = "media"
  Cap = 1
  MaxCards = 1
  MaxIds = 1
SPECIFICATION FairSpec
PROPERTIES CountdownExpires
