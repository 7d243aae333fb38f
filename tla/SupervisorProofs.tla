-------------------------- MODULE SupervisorProofs --------------------------
(* The invariants and action properties of the supervisor, for every set of *)
(* children and every cooldown.                                             *)
EXTENDS Supervisor, TLAPS

(* The strengthening: with the deadline bookkeeping in hand, each of the    *)
(* three spawn sites is only reached with an empty pid field.               *)
IInv == TypeOK /\ DeferredMeansDown /\ DeadlineMatchesStamp /\ NoOrphan

USE CooldownAssumption, RolesAssumption, FailAssumption

LEMMA InitInv == Init => IInv
<1> SUFFICES ASSUME Init PROVE IInv
  OBVIOUS
<1> USE DEF Init, NoDeadline
<1>1. \A c \in Roles : age[c] = Cooldown /\ ~Deferred(c)
  BY DEF Deferred
<1>2. TypeOK
  <2>1. proc \in [Roles -> {"none", "alive", "zombie"}]
    OBVIOUS
  <2>2. age \in [Roles -> 0 .. Cooldown] /\ due \in [Roles -> 0 .. NoDeadline]
    OBVIOUS
  <2>3. pc \in {"poll", "sigchld", "ipc", "retry", "syncDock", "syncPanel",
                "teardown", "done"}
    OBVIOUS
  <2>4. /\ sigPending \in BOOLEAN /\ running \in BOOLEAN /\ ipcUp \in BOOLEAN
        /\ want \in [Switchable -> BOOLEAN] /\ applied \in [Switchable -> BOOLEAN]
    OBVIOUS
  <2> QED
    BY <2>1, <2>2, <2>3, <2>4 DEF TypeOK
<1> QED
  BY <1>1, <1>2 DEF IInv, DeferredMeansDown, DeadlineMatchesStamp, NoOrphan

LEMMA StepInv == IInv /\ [Next]_vars => IInv'
<1> SUFFICES ASSUME IInv, [Next]_vars PROVE IInv'
  OBVIOUS
<1> USE DEF IInv, TypeOK, DeferredMeansDown, DeadlineMatchesStamp, NoOrphan,
            Deferred, NoDeadline, AfterSync
<1>1. CASE UNCHANGED vars
  BY <1>1 DEF vars
<1>2. CASE Poll
  BY <1>2 DEF Poll
<1>3. CASE Interrupted
  BY <1>3 DEF Interrupted
<1>4. CASE ReadSiginfo
  BY <1>4 DEF ReadSiginfo
<1>5. CASE IpcHandlers
  BY <1>5 DEF IpcHandlers
<1>6. CASE Tick
  BY <1>6 DEF Tick
<1>7. CASE OtherChildExit
  BY <1>7 DEF OtherChildExit
<1>8. CASE LeaveLoop
  BY <1>8 DEF LeaveLoop
<1>9. CASE Teardown
  BY <1>9 DEF Teardown
<1>10. CASE SkipRetry \/ SkipSync
  BY <1>10 DEF SkipRetry, SkipSync
<1>11. ASSUME NEW result \in [Roles -> SpawnResults], RetryWith(result)
       PROVE  IInv'
  BY <1>11 DEF RetryWith, Retrying, Respawns, Reached, AfterSpawn, SpawnResults,
       Held, RearmsOnFailure
<1>12. ASSUME NEW c \in Roles, Exit(c) PROVE IInv'
  BY <1>12 DEF Exit
<1>13. ASSUME NEW c \in Roles, NothingToReap(c) PROVE IInv'
  BY <1>13 DEF NothingToReap, Checking, NextChild
<1>14. ASSUME NEW c \in Roles, ReapAndForget(c) PROVE IInv'
  BY <1>14 DEF ReapAndForget, Checking, NextChild
<1>15. ASSUME NEW c \in Roles, ReapAndLeaveDown(c) PROVE IInv'
  BY <1>15 DEF ReapAndLeaveDown, Checking, Continue
<1>16. ASSUME NEW c \in Roles, ReapAndDefer(c) PROVE IInv'
  BY <1>16 DEF ReapAndDefer, Checking, Continue, CoolingDown, Window
<1>17. ASSUME NEW c \in Roles, ReapAndRespawn(c) PROVE IInv'
  BY <1>17 DEF ReapAndRespawn, Checking, NextChild, CoolingDown, ClearedBy,
       SpawnResults, AfterSpawn, RearmsOnFailure
<1>18. ASSUME NEW c \in Roles, SyncOff(c) PROVE IInv'
  BY <1>18 DEF SyncOff, Syncing, Termed
<1>19. ASSUME NEW c \in Roles, SyncHeld(c) PROVE IInv'
  BY <1>19 DEF SyncHeld, Syncing, Apply
<1>20. ASSUME NEW c \in Roles, SyncSpawn(c) PROVE IInv'
  BY <1>20 DEF SyncSpawn, Syncing, Apply, MaySyncSpawn, SpawnResults, AfterSpawn,
       Held
<1> QED
  BY <1>1, <1>2, <1>3, <1>4, <1>5, <1>6, <1>7, <1>8, <1>9, <1>10, <1>11, <1>12,
     <1>13, <1>14, <1>15, <1>16, <1>17, <1>18, <1>19, <1>20
     DEF Next, Loop, SigchldHandler, IdleFlush, RetryDeferredRespawns, Finished

(* Every reachable state has the type of the session's fields, a pending    *)
(* respawn only for an empty pid field and one cooldown after its stamp.    *)
THEOREM Invariance == Spec => []IInv
  BY InitInv, StepInv, PTL DEF Spec

(* The fields of UnifiedShellSession keep their ranges.                     *)
THEOREM TypeCorrect == Spec => []TypeOK
<1>1. IInv => TypeOK
  BY DEF IInv
<1> QED
  BY Invariance, <1>1, PTL

(* A respawn is only ever pending for a child whose pid field is empty.     *)
THEOREM DeferredChildrenDown == Spec => []DeferredMeansDown
<1>1. IInv => DeferredMeansDown
  BY DEF IInv
<1> QED
  BY Invariance, <1>1, PTL

(* A pending deadline is one cooldown after the child's restart stamp.      *)
THEOREM DeadlinesMatch == Spec => []DeadlineMatchesStamp
<1>1. IInv => DeadlineMatchesStamp
  BY DEF IInv
<1> QED
  BY Invariance, <1>1, PTL

(* No spawn overwrites the pid of a child that is still held.               *)
THEOREM NoChildOrphaned == Spec => []NoOrphan
<1>1. IInv => NoOrphan
  BY DEF IInv
<1> QED
  BY Invariance, <1>1, PTL

-----------------------------------------------------------------------------
(* A running dock or panel that is neither applied nor terminated is wanted, *)
(* and the loop has yet to pass its switch.                                 *)
SwitchAhead(c) == pc \in {"sigchld", "ipc", "retry", "syncDock"}
                  \/ (pc = "syncPanel" /\ c = "panel")

AppliedInv ==
  running /\ ipcUp =>
    \A c \in Switchable :
      proc[c] = "alive" => applied[c] \/ c \in termed \/ (want[c] /\ SwitchAhead(c))

LEMMA StepApplied == IInv /\ AppliedInv /\ [Next]_vars => AppliedInv'
<1> SUFFICES ASSUME IInv, AppliedInv, [Next]_vars PROVE AppliedInv'
  OBVIOUS
<1> USE DEF IInv, TypeOK, AppliedInv, SwitchAhead, Switchable, AfterSync
<1>1. CASE UNCHANGED vars
  BY <1>1 DEF vars
<1>2. CASE Poll
  BY <1>2 DEF Poll
<1>3. CASE Interrupted \/ LeaveLoop
  BY <1>3 DEF Interrupted, LeaveLoop
<1>4. CASE ReadSiginfo \/ IpcHandlers
  BY <1>4 DEF ReadSiginfo, IpcHandlers
<1>5. CASE Tick \/ OtherChildExit
  BY <1>5 DEF Tick, OtherChildExit
<1>6. CASE Teardown
  BY <1>6 DEF Teardown
<1>7. CASE SkipRetry
  BY <1>7 DEF SkipRetry
<1>8. CASE SkipSync
  BY <1>8 DEF SkipSync, NothingToSync, Held
<1>9. ASSUME NEW result \in [Roles -> SpawnResults], RetryWith(result)
      PROVE  AppliedInv'
  BY <1>9 DEF RetryWith, Retrying, Respawns, AfterSpawn, SpawnResults, Wanted
<1>10. ASSUME NEW c \in Roles, Exit(c) PROVE AppliedInv'
  BY <1>10 DEF Exit
<1>11. ASSUME NEW c \in Roles, NothingToReap(c) \/ ReapAndForget(c)
                               \/ ReapAndLeaveDown(c) \/ ReapAndDefer(c)
       PROVE AppliedInv'
  BY <1>11 DEF NothingToReap, ReapAndForget, ReapAndLeaveDown, ReapAndDefer
<1>12. ASSUME NEW c \in Roles, ReapAndRespawn(c) PROVE AppliedInv'
  BY <1>12 DEF ReapAndRespawn, Checking, Wanted, SpawnResults, AfterSpawn
<1>13. ASSUME NEW c \in Roles, SyncOff(c) PROVE AppliedInv'
  BY <1>13 DEF SyncOff, Syncing, Termed
<1>14. ASSUME NEW c \in Roles, SyncHeld(c) PROVE AppliedInv'
  BY <1>14 DEF SyncHeld, Syncing, Apply
<1>15. ASSUME NEW c \in Roles, SyncSpawn(c) PROVE AppliedInv'
  BY <1>15 DEF SyncSpawn, Syncing, Apply, SpawnResults, AfterSpawn
<1> QED
  BY <1>1, <1>2, <1>3, <1>4, <1>5, <1>6, <1>7, <1>8, <1>9, <1>10, <1>11, <1>12,
     <1>13, <1>14, <1>15
     DEF Next, Loop, SigchldHandler, IdleFlush, RetryDeferredRespawns, Finished

(* A switch that was taken off and applied leaves no live child behind that *)
(* the idle flush would never look at again.                                *)
THEOREM SwitchesAreSynced == Spec => []NoUnsyncedChild
<1>1. Init => AppliedInv
  BY DEF Init, AppliedInv, SpawnedAtStartup, SpawnResults, Wanted, Switchable
<1>2. AppliedInv => NoUnsyncedChild
  BY DEF AppliedInv, NoUnsyncedChild, SwitchAhead
<1> QED
  BY <1>1, <1>2, StepApplied, Invariance, PTL DEF Spec

-----------------------------------------------------------------------------
(* One step, seen from each child: either it does not come up and its       *)
(* window only closes, or it is started from below, not too early, by a     *)
(* session that goes on.                                                    *)
StepOf(c) ==
  \/ /\ proc'[c] = "alive" => proc[c] = "alive"
     /\ age'[c] \in {age[c], age[c] + 1}
  \/ /\ proc[c] # "alive" /\ ~Ending /\ Wanted(c)'
     /\ age[c] = Cooldown \/ (c \in Switchable /\ ~applied[c])
     /\ age'[c] = 0

LEMMA ChildSteps ==
  IInv /\ [Next]_vars => (\A c \in Roles : StepOf(c)) /\ (Ending => Ending')
<1> SUFFICES ASSUME IInv, [Next]_vars
             PROVE  (\A c \in Roles : StepOf(c)) /\ (Ending => Ending')
  OBVIOUS
<1> USE DEF IInv, TypeOK, StepOf, Ending
<1>1. CASE UNCHANGED vars
  BY <1>1 DEF vars
<1>2. CASE Poll \/ Interrupted
  BY <1>2 DEF Poll, Interrupted
<1>9. CASE ReadSiginfo \/ IpcHandlers
  <2>1. proc' = proc /\ age' = age
    BY <1>9 DEF ReadSiginfo, IpcHandlers
  <2>2. Ending => Ending'
    BY <1>9 DEF ReadSiginfo, IpcHandlers
  <2> QED
    BY <2>1, <2>2
<1>8. CASE Tick
  BY <1>8 DEF Tick
<1>3. CASE OtherChildExit \/ LeaveLoop \/ Teardown \/ SkipRetry \/ SkipSync
  BY <1>3 DEF OtherChildExit, LeaveLoop, Teardown, SkipRetry, SkipSync
<1>4. ASSUME NEW result \in [Roles -> SpawnResults], RetryWith(result)
      PROVE  (\A c \in Roles : StepOf(c)) /\ (Ending => Ending')
  <2>1. ASSUME NEW c \in Roles, Respawns(c)
        PROVE  proc[c] # "alive" /\ age[c] = Cooldown
    BY <2>1 DEF Respawns, Reached, DeferredMeansDown, DeadlineMatchesStamp,
         Deferred, NoDeadline
  <2> QED
    BY <1>4, <2>1 DEF RetryWith, Retrying, Respawns, Wanted
<1>5. ASSUME NEW c \in Roles,
             \/ Exit(c) \/ NothingToReap(c) \/ ReapAndForget(c)
             \/ ReapAndLeaveDown(c) \/ ReapAndDefer(c)
             \/ SyncOff(c) \/ SyncHeld(c)
      PROVE  (\A d \in Roles : StepOf(d)) /\ (Ending => Ending')
  BY <1>5 DEF Exit, NothingToReap, Checking, ReapAndForget, ReapAndLeaveDown,
       ReapAndDefer, SyncOff, SyncHeld, Syncing
<1>6. ASSUME NEW c \in Roles, ReapAndRespawn(c)
      PROVE  (\A d \in Roles : StepOf(d)) /\ (Ending => Ending')
  BY <1>6 DEF ReapAndRespawn, Checking, CoolingDown, Wanted
<1>7. ASSUME NEW c \in Roles, SyncSpawn(c)
      PROVE  (\A d \in Roles : StepOf(d)) /\ (Ending => Ending')
  BY <1>7 DEF SyncSpawn, Syncing, MaySyncSpawn, CoolingDown, Held, Wanted
<1> QED
  BY <1>1, <1>2, <1>3, <1>4, <1>5, <1>6, <1>7, <1>8, <1>9
     DEF Next, Loop, SigchldHandler, IdleFlush, RetryDeferredRespawns, Finished

(* After a logout, or once the loop is left, no child is started.           *)
THEOREM NoStartAfterLogout == Spec => NothingStartsAfterLogout
<1>1. IInv /\ [Next]_vars =>
        [Ending => \A c \in Roles : proc'[c] = "alive" => proc[c] = "alive"]_vars
  BY ChildSteps DEF StepOf
<1> QED
  BY <1>1, Invariance, PTL DEF Spec, NothingStartsAfterLogout

(* No respawn path brings up a dock or panel that is switched off.          *)
THEOREM DisabledNotRevived == Spec => DisabledStaysDown
<1>1. IInv /\ [Next]_vars =>
        [\A c \in Switchable :
            ~want'[c] /\ proc'[c] = "alive" => proc[c] = "alive"]_vars
  BY ChildSteps DEF StepOf, Wanted, Switchable
<1> QED
  BY <1>1, Invariance, PTL DEF Spec, DisabledStaysDown

(* The supervisor implements the restart throttle: every start of a child   *)
(* is from down, in a session that goes on, and a cooldown after the last,  *)
(* or at the user's switch.                                                 *)
THEOREM ImplementsThrottle == Spec => ThrottlesRestarts
<1>1. Init => Throttle!AInit
  BY DEF Init, Throttle!AInit, Ending, Switchable
<1>2. IInv /\ IInv' /\ [Next]_vars => [Throttle!ANext]_(Throttle!avars)
  BY ChildSteps DEF StepOf, IInv, TypeOK, Throttle!ANext, Throttle!Carries,
     Throttle!Starts, Throttle!avars, Switchable
<1> QED
  BY <1>1, <1>2, Invariance, PTL DEF Spec, ThrottlesRestarts, Throttle!ASpec
-----------------------------------------------------------------------------
(* A child other than the stage that should run is left down without a      *)
(* deadline only by its own failed spawn.                                   *)
Remembered(c) == Forgets(c) => SpawnFailed(c)' /\ c # "polkit"

LEMMA StepRemembers ==
  IInv /\ [Next]_vars => \A c \in Respawned \ {"stage"} : Remembered(c)
<1> SUFFICES ASSUME IInv, [Next]_vars, NEW c \in Respawned \ {"stage"},
                    ~Ending, Wanted(c), ~Forgotten(c), ~Ending', Forgotten(c)'
             PROVE  SpawnFailed(c)' /\ c # "polkit"
  BY DEF Remembered, Forgets
<1> USE DEF IInv, TypeOK, Forgotten, Deferred, NoDeadline
<1>0. c \in Roles /\ c # "stage"
  BY DEF Respawned
<1>1. CASE UNCHANGED vars
  BY <1>1 DEF vars
<1>2. CASE Poll \/ Interrupted \/ ReadSiginfo \/ IpcHandlers
  BY <1>2 DEF Poll, Interrupted, ReadSiginfo, IpcHandlers
<1>3. CASE Tick
  BY <1>0, <1>3 DEF Tick
<1>4. CASE OtherChildExit \/ LeaveLoop \/ SkipRetry \/ SkipSync
  BY <1>4 DEF OtherChildExit, LeaveLoop, SkipRetry, SkipSync
<1>5. CASE Teardown
  BY <1>5 DEF Teardown, Ending
(* A deadline that is reached is for a child that is down and wanted.       *)
<1>6. ASSUME NEW result \in [Roles -> SpawnResults], RetryWith(result)
      PROVE  SpawnFailed(c)' /\ c # "polkit"
  <2>1. Reached(c) /\ proc[c] = "none"
    BY <1>0, <1>6 DEF RetryWith, DeferredMeansDown, AfterSpawn
  <2>2. Respawns(c)
    BY <2>1 DEF Respawns, Held
  <2>3. result[c] = "none"
    BY <1>0, <1>6, <2>2 DEF RetryWith, AfterSpawn, SpawnResults
  <2>4. ~RearmsOnFailure(c) /\ age'[c] = 0
    BY <1>0, <1>6, <2>1, <2>2, <2>3 DEF RetryWith
  <2> QED
    BY <2>4 DEF SpawnFailed, RearmsOnFailure
<1>7. ASSUME NEW d \in Roles,
             \/ Exit(d) \/ NothingToReap(d) \/ ReapAndForget(d) \/ SyncHeld(d)
      PROVE  SpawnFailed(c)' /\ c # "polkit"
  BY <1>0, <1>7 DEF Exit, NothingToReap, ReapAndForget, SyncHeld, Respawned
<1>8. ASSUME NEW d \in Roles, ReapAndLeaveDown(d) \/ SyncOff(d)
      PROVE  SpawnFailed(c)' /\ c # "polkit"
  BY <1>0, <1>8 DEF ReapAndLeaveDown, SyncOff, Syncing, Wanted, Ending
<1>9. ASSUME NEW d \in Roles, ReapAndDefer(d)
      PROVE  SpawnFailed(c)' /\ c # "polkit"
  BY <1>0, <1>9 DEF ReapAndDefer, CoolingDown, Window
<1>10. ASSUME NEW d \in Roles, ReapAndRespawn(d)
       PROVE  SpawnFailed(c)' /\ c # "polkit"
  <2>1. c = d
    BY <1>0, <1>10 DEF ReapAndRespawn, ClearedBy
  <2>2. ~RearmsOnFailure(c) /\ age'[c] = 0
    BY <1>0, <1>10, <2>1 DEF ReapAndRespawn, AfterSpawn, SpawnResults
  <2> QED
    BY <2>2 DEF SpawnFailed, RearmsOnFailure
(* SyncSpawn starts a child that was down without a deadline before.        *)
<1>11. ASSUME NEW d \in Roles, SyncSpawn(d)
       PROVE  SpawnFailed(c)' /\ c # "polkit"
  BY <1>0, <1>11 DEF SyncSpawn, MaySyncSpawn, Held, AfterSpawn, SpawnResults
<1> QED
  BY <1>1, <1>2, <1>3, <1>4, <1>5, <1>6, <1>7, <1>8, <1>9, <1>10, <1>11
     DEF Next, Loop, SigchldHandler, IdleFlush, RetryDeferredRespawns, Finished

(* No reaping, retry, reload or switch leaves a child that should run with  *)
(* neither a process nor a deadline, but a posix_spawn that fails, which    *)
(* for the polkit agent arms another attempt.  The stage is the exception,  *)
(* whose deadline the panel's respawn clears.                               *)
THEOREM OnlyFailedSpawnsForget == Spec => NoChildForgotten
<1>1. IInv /\ [Next]_vars =>
        [\A c \in Respawned \ {"stage"} :
            Forgets(c) => SpawnFailed(c)' /\ c # "polkit"]_vars
  BY StepRemembers DEF Remembered
<1> QED
  BY <1>1, Invariance, PTL DEF Spec, NoChildForgotten
=============================================================================
