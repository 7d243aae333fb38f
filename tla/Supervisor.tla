----------------------------- MODULE Supervisor -----------------------------
(***************************************************************************)
(* The session supervisor (UnifiedShellSession): one single-threaded loop  *)
(* that spawns the split-out children, reaps them from a SIGCHLD signalfd, *)
(* throttles crash respawns with a cooldown, and follows the user's        *)
(* enable/disable switch of the dock and the panel.                        *)
(*                                                                         *)
(* Time is kept per child, relative to now: age[c] is                      *)
(* min(now - <c>LastRestartMs_, Cooldown) and due[c] is what is left until *)
(* <c>RespawnAtMs_ (NoDeadline when the field is 0).  A child's pid field  *)
(* and the process it names are one variable: proc[c] is "none" when the   *)
(* field is -1, else the state of that process.                            *)
(***************************************************************************)
EXTENDS Naturals

CONSTANTS Roles,          \* the children this build and session run
          Cooldown,       \* kChildRespawnCooldownMs, in ticks
          SpawnMayFail    \* whether posix_spawn can fail

AllRoles == {"wallpaper", "notifications", "desktop", "dock", "taskbar",
             "panel", "stage", "polkit"}

ASSUME RolesAssumption    == Roles \subseteq AllRoles
ASSUME CooldownAssumption == Cooldown \in Nat \ {0}
ASSUME FailAssumption     == SpawnMayFail \in BOOLEAN

(* The order in which the SIGCHLD handler looks at the children.           *)
Rank == [wallpaper |-> 1, notifications |-> 2, desktop |-> 3, dock |-> 4,
         taskbar |-> 5, panel |-> 6, stage |-> 7, polkit |-> 8]

ReapOnly   == {"wallpaper", "notifications"} \cap Roles
Respawned  == Roles \ ReapOnly
Switchable == {"dock", "panel"} \cap Roles

VARIABLES pc,         \* where the loop is
          todo,       \* children the current SIGCHLD pass still has to check
          sigPending, \* a SIGCHLD is queued (a standard signal: one at most)
          running,    \* running_
          ipcUp,      \* ipc_service_->running()
          want,       \* the user's dock.show_dock / panel.enabled settings
          applied,    \* dockEnabledApplied_ / panelEnabledApplied_
          proc,       \* the process behind each pid field
          termed,     \* children sent a SIGTERM
          age,        \* time since the last restart stamp, up to Cooldown
          due,        \* time left until the deferred respawn
          orphans     \* children whose pid field was overwritten while held

vars == <<pc, todo, sigPending, running, ipcUp, want, applied, proc, termed,
          age, due, orphans>>

NoDeadline == Cooldown + 1
Deferred(c) == due[c] # NoDeadline
Wanted(c)   == c \in Switchable => want[c]
Held(c)     == proc[c] # "none"

SpawnResults == IF SpawnMayFail THEN {"alive", "none"} ELSE {"alive"}

-----------------------------------------------------------------------------
(* Startup spawns every child once, without a restart stamp: polkit always, *)
(* the others when the bus is up, dock and panel when they are enabled.     *)
SpawnedAtStartup(c) == (ipcUp /\ Wanted(c)) \/ c = "polkit"

Init ==
  /\ pc = "poll" /\ todo = {} /\ sigPending = FALSE /\ running = TRUE
  /\ ipcUp \in BOOLEAN
  /\ want \in [Switchable -> BOOLEAN]
  /\ applied = want
  /\ proc \in [Roles -> {"none", "alive"}]
  /\ \A c \in Roles :
       proc[c] \in IF SpawnedAtStartup(c) THEN SpawnResults ELSE {"none"}
  /\ termed = {} /\ orphans = {}
  /\ age = [c \in Roles |-> Cooldown]
  /\ due = [c \in Roles |-> NoDeadline]

-----------------------------------------------------------------------------
(* The environment: a child exits, whether it crashes or obeys a SIGTERM,   *)
(* and stays a zombie until it is waited for; time passes.                  *)
Exit(c) ==
  /\ proc[c] = "alive"
  /\ proc' = [proc EXCEPT ![c] = "zombie"]
  /\ termed' = termed \ {c}
  /\ sigPending' = TRUE
  /\ UNCHANGED <<pc, todo, running, ipcUp, want, applied, age, due, orphans>>

(* Any other child of the process, a settings window or a system() command,  *)
(* raises the same signal when it exits.                                     *)
OtherChildExit ==
  /\ ~sigPending
  /\ sigPending' = TRUE
  /\ UNCHANGED <<pc, todo, running, ipcUp, want, applied, proc, termed, age, due,
                 orphans>>

Tick ==
  /\ \E c \in Roles : age[c] < Cooldown \/ due[c] \in 1 .. Cooldown
  /\ age' = [c \in Roles |-> IF age[c] < Cooldown THEN age[c] + 1
                                                  ELSE Cooldown]
  /\ due' = [c \in Roles |-> IF due[c] \in 1 .. Cooldown THEN due[c] - 1
                                                         ELSE due[c]]
  /\ UNCHANGED <<pc, todo, sigPending, running, ipcUp, want, applied, proc,
                 termed, orphans>>

-----------------------------------------------------------------------------
(* A restart stamp still inside the cooldown, and the deadline that closes  *)
(* its window.                                                              *)
CoolingOneShort(c) == age[c] + 1 < Cooldown
CoolingDown(c) == age[c] < Cooldown

WindowTwice(a)   == 2 * Cooldown - a
WindowFromNow(a) == Cooldown
Window(a) == Cooldown - a

(* Only the polkit agent's respawn is tried again when posix_spawn fails.   *)
NobodyRearms(c) == FALSE
RearmsOnFailure(c) == c = "polkit"

(* posix_spawn and the pid it stores: on failure the field keeps its value. *)
AfterSpawn(p, result) == IF result = "alive" THEN "alive" ELSE p

(* ppoll returns.  The settings inotify handler, first in the handler list, *)
(* may reload the user's switches; the SIGCHLD handler runs if its fd was   *)
(* readable at that moment.  A termination signal or a display error leaves *)
(* the loop from here.                                                      *)
Poll ==
  /\ pc = "poll" /\ running
  /\ want' \in [Switchable -> BOOLEAN]
  /\ pc' = IF sigPending THEN "sigchld" ELSE "ipc"
  /\ UNCHANGED <<todo, sigPending, running, ipcUp, applied, proc, termed, age,
                 due, orphans>>

Interrupted ==
  /\ pc = "poll"
  /\ pc' = "teardown"
  /\ running' \in {running, FALSE}
  /\ UNCHANGED <<todo, sigPending, ipcUp, want, applied, proc, termed, age,
                 due, orphans>>

(* One read of the signalfd: a pass over the children, or EAGAIN.           *)
ReadSiginfo ==
  /\ pc = "sigchld" /\ todo = {}
  /\ IF sigPending THEN todo' = Roles /\ pc' = pc
                   ELSE todo' = {} /\ pc' = "ipc"
  /\ sigPending' = FALSE
  /\ UNCHANGED <<running, ipcUp, want, applied, proc, termed, age, due, orphans>>

(* The pass has reached child c; `continue` gives up the rest of the pass.  *)
Checking(c) ==
  /\ pc = "sigchld" /\ c \in todo
  /\ \A d \in todo : Rank[c] <= Rank[d]

EndsPass(c)  == todo' = {}
NextChild(c) == todo' = todo \ {c}
Continue     == todo' = {}

(* No pid is held, or waitpid(WNOHANG) has nothing to report.               *)
NothingToReap(c) ==
  /\ Checking(c) /\ proc[c] # "zombie"
  /\ NextChild(c)
  /\ UNCHANGED <<pc, sigPending, running, ipcUp, want, applied, proc, termed,
                 age, due, orphans>>

(* wallpaper and notifications are reaped and left down.                    *)
ReapAndForget(c) ==
  /\ c \in ReapOnly /\ Checking(c) /\ proc[c] = "zombie"
  /\ proc' = [proc EXCEPT ![c] = "none"]
  /\ NextChild(c)
  /\ UNCHANGED <<pc, sigPending, running, ipcUp, want, applied, termed, age,
                 due, orphans>>

(* A session that is ending, or a switched-off dock or panel: stays down.   *)
ReapAndLeaveDown(c) ==
  /\ c \in Respawned /\ Checking(c) /\ proc[c] = "zombie"
  /\ ~running \/ ~Wanted(c)
  /\ proc' = [proc EXCEPT ![c] = "none"]
  /\ Continue
  /\ UNCHANGED <<pc, sigPending, running, ipcUp, want, applied, termed, age,
                 due, orphans>>

(* Dead again inside the cooldown: the respawn is put off to its end.       *)
ReapAndDefer(c) ==
  /\ c \in Respawned /\ Checking(c) /\ proc[c] = "zombie"
  /\ running /\ Wanted(c) /\ CoolingDown(c)
  /\ proc' = [proc EXCEPT ![c] = "none"]
  /\ due' = [due EXCEPT ![c] = Window(age[c])]
  /\ Continue
  /\ UNCHANGED <<pc, sigPending, running, ipcUp, want, applied, termed, age,
                 orphans>>

(* The deadlines an immediate respawn of c clears: its own, and the stage's *)
(* when c is the panel.                                                     *)
ClearedBy(c) == IF c = "panel" THEN {"panel", "stage"} ELSE {c}

ReapAndRespawn(c) ==
  /\ c \in Respawned /\ Checking(c) /\ proc[c] = "zombie"
  /\ running /\ Wanted(c) /\ ~CoolingDown(c)
  /\ \E result \in SpawnResults :
       /\ proc' = [proc EXCEPT ![c] = AfterSpawn("none", result)]
       /\ due' = [d \in Roles |->
                    IF d = c /\ result = "none" /\ RearmsOnFailure(c) THEN Cooldown
                    ELSE IF d \in ClearedBy(c) THEN NoDeadline ELSE due[d]]
  /\ age' = [age EXCEPT ![c] = 0]
  /\ NextChild(c)
  /\ UNCHANGED <<pc, sigPending, running, ipcUp, want, applied, termed, orphans>>

-----------------------------------------------------------------------------
(* The bus handlers of the iteration: one of them may be the logout command. *)
IpcHandlers ==
  /\ pc = "ipc"
  /\ running' \in {running, FALSE}
  /\ pc' = "retry"
  /\ UNCHANGED <<todo, sigPending, ipcUp, want, applied, proc, termed, age,
                 due, orphans>>

(* retry_deferred_child_respawns(): every deadline that has been reached is *)
(* cleared, and its child spawned, unless it is switched off; polkit keeps  *)
(* a child that is already there and re-arms its deadline on a failure.     *)
Reached(c)  == due[c] = 0

RespawnsUnwanted(c) == Reached(c) /\ (c = "polkit" => ~Held(c))
RespawnsHot(c)      == Reached(c) /\ Wanted(c) /\ CoolingDown(c)
Respawns(c) == /\ Reached(c) /\ Wanted(c)
               /\ c = "polkit" => ~Held(c)

Retrying == pc = "retry" /\ running

RetryWith(result) ==
  /\ Retrying
  /\ proc' = [c \in Roles |-> IF Respawns(c) THEN AfterSpawn(proc[c], result[c])
                                             ELSE proc[c]]
  /\ due' = [c \in Roles |->
                IF ~Reached(c) THEN due[c]
                ELSE IF Respawns(c) /\ result[c] = "none" /\ RearmsOnFailure(c)
                     THEN Cooldown ELSE NoDeadline]
  /\ age' = [c \in Roles |-> IF Respawns(c) THEN 0 ELSE age[c]]
  /\ orphans' = orphans \cup
                   {c \in Roles : Respawns(c) /\ Held(c) /\ result[c] = "alive"}
  /\ pc' = "syncDock"
  /\ UNCHANGED <<todo, sigPending, running, ipcUp, want, applied, termed>>

RetryDeferredRespawns == \E result \in [Roles -> SpawnResults] : RetryWith(result)

(* sync_dock/panel_child_with_enabled_setting(): one operation per switch.  *)
AfterSync == IF pc = "syncDock" THEN "syncPanel" ELSE "poll"
Syncing(c) == /\ pc = (IF c = "dock" THEN "syncDock" ELSE "syncPanel")
              /\ c \in Switchable /\ running /\ ipcUp

TermedNobody(c) == termed
Termed(c) == IF proc[c] = "alive" THEN termed \cup {c} ELSE termed

SyncOff(c) ==
  /\ Syncing(c) /\ ~want[c] /\ applied[c]
  /\ applied' = [applied EXCEPT ![c] = FALSE]
  /\ due' = [due EXCEPT ![c] = NoDeadline]
  /\ termed' = Termed(c)
  /\ pc' = AfterSync
  /\ UNCHANGED <<todo, sigPending, running, ipcUp, want, proc, age, orphans>>

NeverApply(c) == applied
Apply(c) == [applied EXCEPT ![c] = TRUE]

SyncHeld(c) ==
  /\ Syncing(c) /\ want[c] /\ Held(c)
  /\ applied' = Apply(c)
  /\ pc' = AfterSync
  /\ UNCHANGED <<todo, sigPending, running, ipcUp, want, proc, termed, age, due,
                 orphans>>

(* A (re-)enable by the user, applied[c] still FALSE, skips the cooldown.   *)
MaySyncSpawnTwice(c) == want[c] /\ ~Held(c) /\ (applied[c] => ~CoolingDown(c))
MaySyncSpawn(c) == /\ want[c] /\ ~Held(c) /\ ~Deferred(c)
                   /\ applied[c] => ~CoolingDown(c)

SyncSpawn(c) ==
  /\ Syncing(c) /\ MaySyncSpawn(c)
  /\ applied' = Apply(c)
  /\ age' = [age EXCEPT ![c] = 0]
  /\ \E result \in SpawnResults :
       /\ proc' = [proc EXCEPT ![c] = AfterSpawn(proc[c], result)]
       /\ orphans' = IF Held(c) /\ result = "alive" THEN orphans \cup {c}
                                                    ELSE orphans
  /\ pc' = AfterSync
  /\ UNCHANGED <<todo, sigPending, running, ipcUp, want, termed, due>>

(* The early returns of the idle flush: a session that is ending, no bus, a *)
(* switch that is off and applied, a deadline or cooldown still to wait for. *)
NothingToSync ==
  \/ ~running \/ ~ipcUp
  \/ LET c == IF pc = "syncDock" THEN "dock" ELSE "panel"
     IN  \/ c \notin Roles
         \/ /\ c \in Switchable
            /\ IF want[c] THEN ~Held(c) /\ ~MaySyncSpawn(c) ELSE ~applied[c]

SkipSync ==
  /\ pc \in {"syncDock", "syncPanel"} /\ NothingToSync
  /\ pc' = AfterSync
  /\ UNCHANGED <<todo, sigPending, running, ipcUp, want, applied, proc, termed,
                 age, due, orphans>>

SkipRetry ==
  /\ pc = "retry" /\ ~running
  /\ pc' = "syncDock"
  /\ UNCHANGED <<todo, sigPending, running, ipcUp, want, applied, proc, termed,
                 age, due, orphans>>

(* The loop condition fails after a logout.                                 *)
LeaveLoop ==
  /\ pc = "poll" /\ ~running
  /\ pc' = "teardown"
  /\ UNCHANGED <<todo, sigPending, running, ipcUp, want, applied, proc, termed,
                 age, due, orphans>>

(* Teardown kills and reaps every child it holds and drops the deadlines of *)
(* all but the stage.                                                       *)
Teardown ==
  /\ pc = "teardown"
  /\ pc' = "done"
  /\ proc' = [c \in Roles |-> "none"]
  /\ termed' = {}
  /\ due' = [c \in Roles |-> IF c = "stage" THEN due[c] ELSE NoDeadline]
  /\ UNCHANGED <<todo, sigPending, running, ipcUp, want, applied, age, orphans>>

Finished == pc = "done" /\ UNCHANGED vars

-----------------------------------------------------------------------------
SigchldHandler ==
  \/ ReadSiginfo
  \/ \E c \in Roles : \/ NothingToReap(c) \/ ReapAndForget(c)
                      \/ ReapAndLeaveDown(c)
                      \/ ReapAndDefer(c) \/ ReapAndRespawn(c)

IdleFlush ==
  \/ RetryDeferredRespawns \/ SkipRetry \/ SkipSync
  \/ \E c \in Roles : SyncOff(c) \/ SyncHeld(c) \/ SyncSpawn(c)

Loop == \/ Poll \/ SigchldHandler \/ IpcHandlers \/ IdleFlush
        \/ LeaveLoop \/ Teardown

Next == \/ Loop \/ Interrupted \/ Tick \/ OtherChildExit \/ Finished
        \/ \E c \in Roles : Exit(c)

Spec == Init /\ [][Next]_vars

(* The loop keeps running, time keeps passing, and a child that was sent a  *)
(* SIGTERM exits.  No stream of exits keeps the SIGCHLD handler reading for *)
(* ever: a respawned child that dies again is inside its cooldown and is    *)
(* not started a second time by the same handler.                           *)
Fairness == /\ WF_vars(Loop)
            /\ WF_vars(Tick)
            /\ \A c \in Roles : WF_vars(c \in termed /\ Exit(c))
            /\ []<>(pc \in {"poll", "teardown", "done"})

FairSpec == Spec /\ Fairness
-----------------------------------------------------------------------------
(* Properties.                                                              *)

TypeOK ==
  /\ pc \in {"poll", "sigchld", "ipc", "retry", "syncDock", "syncPanel",
             "teardown", "done"}
  /\ todo \subseteq Roles
  /\ sigPending \in BOOLEAN /\ running \in BOOLEAN /\ ipcUp \in BOOLEAN
  /\ want \in [Switchable -> BOOLEAN]
  /\ applied \in [Switchable -> BOOLEAN]
  /\ proc \in [Roles -> {"none", "alive", "zombie"}]
  /\ termed \subseteq Roles
  /\ age \in [Roles -> 0 .. Cooldown]
  /\ due \in [Roles -> 0 .. NoDeadline]
  /\ orphans \subseteq Roles

(* A respawn is only ever pending for a child whose pid field is empty, so  *)
(* the deferred retry cannot start a second copy of a child that runs.      *)
DeferredMeansDown == \A c \in Roles : Deferred(c) => proc[c] = "none"

(* No pid field is overwritten while it still holds a child: every child    *)
(* that was started can be waited for, signalled and killed at teardown.    *)
NoOrphan == orphans = {}

(* A pending deadline is exactly one cooldown after the child's last        *)
(* restart stamp, also after the branches that re-arm it.                   *)
DeadlineMatchesStamp ==
  \A c \in Roles : Deferred(c) => due[c] + age[c] = Cooldown

(* A switch that was taken off and applied leaves no live child behind that *)
(* the idle flush would never look at again: while the loop waits in ppoll, *)
(* a running dock or panel is marked as applied or has its SIGTERM.         *)
NoUnsyncedChild ==
  (pc = "poll" /\ running /\ ipcUp) =>
    \A c \in Switchable : proc[c] = "alive" => applied[c] \/ c \in termed

(* Once the session is ending (logout, loop exit), nothing starts again.    *)
Ending == ~running \/ pc \in {"teardown", "done"}

NothingStartsAfterLogout ==
  [][Ending => \A c \in Roles : proc'[c] = "alive" => proc[c] = "alive"]_vars

(* A dock or panel that is switched off is never brought up, whichever of   *)
(* the three respawn paths (signal, deadline, switch) reaches it.           *)
DisabledStaysDown ==
  [][\A c \in Switchable :
       ~want'[c] /\ proc'[c] = "alive" => proc[c] = "alive"]_vars

Throttle == INSTANCE RestartThrottle
              WITH Children <- Roles, Period <- Cooldown,
                   up <- {c \in Roles : proc[c] = "alive"}, cooled <- age,
                   switchedOn <- {c \in Switchable : ~applied[c]},
                   ending <- Ending

(* The children live under the restart throttle: the cooldown comment's     *)
(* minimum gap, the user's override, and no start over a live child.        *)
ThrottlesRestarts == Throttle!ASpec

(* A child that is down with no deadline, and the steps that leave it so     *)
(* although it should run.                                                   *)
Forgotten(c) == proc[c] = "none" /\ ~Deferred(c)

Forgets(c) == /\ ~Ending /\ Wanted(c) /\ ~Forgotten(c)
              /\ ~Ending' /\ Wanted(c)' /\ Forgotten(c)'

(* posix_spawn failed for c: its stamp has just been taken, it is down and   *)
(* nothing is armed.                                                         *)
SpawnFailed(c) == Forgotten(c) /\ age[c] = 0

(* A child that is reaped, or whose deadline is taken away, while it should *)
(* run is started or gets a deadline: only a posix_spawn that fails leaves  *)
(* it with neither, and never the polkit agent.                             *)
NoChildForgotten ==
  [][\A c \in Respawned \ {"stage"} :
       Forgets(c) => SpawnFailed(c)' /\ c # "polkit"]_vars

(* Leads-to outcomes that excuse a child from running.                      *)
Excused(c) == Ending \/ ~Wanted(c)

(* A respawn that was put off to the end of the cooldown is attempted.      *)
DeadlineHonoured(c) == (Deferred(c) /\ age[c] > 0)
                         ~> (proc[c] = "alive" \/ Excused(c) \/ age[c] = 0)

(* A child that exits is waited for and its respawn attempted.              *)
ComesBack(c) == proc[c] = "zombie"
                  ~> (proc[c] = "alive" \/ Excused(c) \/ SpawnFailed(c))

(* A child that exits is waited for.                                        *)
IsReaped(c) == proc[c] = "zombie" ~> (proc[c] # "zombie" \/ Ending)

(* A dock or panel the user switches off goes down, unless it is switched   *)
(* on again first.                                                          *)
GoesDown(c) == (ipcUp /\ ~want[c] /\ proc[c] = "alive")
                 ~> (proc[c] # "alive" \/ want[c] \/ Ending)
=============================================================================
