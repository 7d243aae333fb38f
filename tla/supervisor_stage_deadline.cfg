CONSTANTS
  Roles = {"panel", "stage"}
  Cooldown = 1
  SpawnMayFail = FALSE
SPECIFICATION Spec
PROPERTIES StageDeadlineKept
