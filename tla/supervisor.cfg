CONSTANTS
  Roles = {"wallpaper", "dock", "polkit"}
  Cooldown = 2
  SpawnMayFail = TRUE
SPECIFICATION FairSpec
INVARIANTS TypeOK DeferredMeansDown NoOrphan DeadlineMatchesStamp NoUnsyncedChild
PROPERTIES DisabledStaysDown ThrottlesRestarts NoChildForgotten DeadlinesHonoured
PROPERTIES FirstComesBack SwitchedOffGoesDown
