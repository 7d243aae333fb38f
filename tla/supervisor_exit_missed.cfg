CONSTANTS
  Roles = {"desktop", "taskbar"}
  Cooldown = 1
  SpawnMayFail = FALSE
SPECIFICATION FairSpec
PROPERTIES NoExitMissed
