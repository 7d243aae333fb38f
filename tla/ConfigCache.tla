---------------------------- MODULE ConfigCache ----------------------------
(***************************************************************************)
(* The configuration cache of one process (shell_config.cpp) and the       *)
(* palette worker behind it: two cached copies of the configuration, a     *)
(* load generation, and tasks on the worker pool that compute the palette  *)
(* of the configuration they were given, which the main thread may have    *)
(* replaced meanwhile.                                                     *)
(*                                                                         *)
(* A configuration is its version (the order in which the files were       *)
(* written), its wallpaper, its mode, the palette engines it turns on, and *)
(* a palette of each engine, or none; a palette is the wallpaper and mode  *)
(* it was computed for.                                                    *)
(***************************************************************************)
EXTENDS WorkerPool

CONSTANTS Walls, Modes,
          Themings,  \* the sets of engines that a file turns on
          None,      \* no configuration, no palette
          Torn,      \* a palette read while another thread wrote it
          MaxEdits,  \* bound: versions written after the first
          MaxGen     \* bound: main-thread operations that count a generation

Engines == {"matugen", "native"}

ASSUME ThemeAssumption == Themings \subseteq SUBSET Engines
ASSUME NoneAssumption  == /\ None \notin [wall : Walls, mode : Modes]
                          /\ Torn \notin [wall : Walls, mode : Modes] /\ Torn # None
ASSUME BoundAssumption == MaxEdits \in Nat /\ MaxGen \in Nat

VARIABLES disk,    \* the configuration files, as the last writer left them
          gen,     \* g_load_gen
          news,    \* history: what has become of the newest generation
          cache,   \* g_cache
          light,   \* g_cache_no_matugen
          main,    \* the operation the main thread is in
          saved,   \* the argument of apply_from_memory
          stage,   \* where each busy worker is in async_matugen_update
          raced    \* two threads have been in the palette engine at once

count  == <<gen, news>>
config == <<disk, count, cache, light, main, saved>>
work   == <<stage, raced>>
vars   == <<pool, later, config, work>>

Palettes == [wall : Walls, mode : Modes]
Configs  == [ver : 0 .. MaxEdits, wall : Walls, mode : Modes, on : Themings,
             pal : [Engines -> Palettes \cup {None, Torn}]]
Tasks    == [cfg : Configs, gen : 0 .. MaxGen]

ASSUME ConfigsAssumption == None \notin Configs /\ NoTask \notin Tasks

NoPalette == [e \in Engines |-> None]
Read(ver, wall, mode, on) ==
  [ver |-> ver, wall |-> wall, mode |-> mode, on |-> on, pal |-> NoPalette]

Themed(c) == c.on # {}

(* The engine a computation is routed to, also when none is on.             *)
Engine(c) == IF "native" \in c.on THEN "native" ELSE "matugen"

Init ==
  /\ PoolInit
  /\ \E wall \in Walls, mode \in Modes, on \in Themings :
       disk = Read(0, wall, mode, on)
  /\ gen = 0 /\ news = "awaited"
  /\ cache = None /\ light = None /\ main = "idle" /\ saved = None
  /\ stage = [w \in Workers |-> "compute"] /\ raced = FALSE

-----------------------------------------------------------------------------
(* What an engine may give: nothing when it is off, when the wallpaper      *)
(* cannot be read or the generator fails; its memo is a plain static.  The  *)
(* other engine's palette stays as it is.                                   *)
Results(c, race) ==
  {None} \cup (IF Themed(c) THEN {[wall |-> c.wall, mode |-> c.mode]} ELSE {})
         \cup (IF Themed(c) /\ race THEN {Torn} ELSE {})

Computed(c, race) ==
  {[c EXCEPT !.pal[Engine(c)] = result] : result \in Results(c, race)}

Computing(e) ==
  \E w \in Workers : /\ worker[w] = "busy" /\ stage[w] = "compute"
                     /\ Engine(task[w].cfg) = e

(* Another process, or an editor, writes the files.                         *)
DiskEdit ==
  /\ disk.ver < MaxEdits
  /\ \E wall \in Walls, mode \in Modes, on \in Themings :
       disk' = Read(disk.ver + 1, wall, mode, on)
  /\ UNCHANGED <<pool, later, count, cache, light, main, saved, work>>

-----------------------------------------------------------------------------
(* The main thread counts a generation before it takes the mutex.           *)
CountGen(op) ==
  /\ exit = "no" /\ main = "idle" /\ gen < MaxGen
  /\ gen' = gen + 1 /\ news' = "awaited"
  /\ main' = op

Begin(op) ==
  /\ CountGen(op)
  /\ UNCHANGED <<pool, later, disk, cache, light, saved, work>>

BeginInvalidate      == Begin("invalidate")
BeginInvalidateLight == Begin("light")
BeginReload          == Begin("reload") \/ Begin("reload skip")

(* A caller edits a copy of a snapshot, with the palettes it holds, writes  *)
(* the files and applies the copy.                                          *)
BeginApply ==
  /\ CountGen("apply") /\ disk.ver < MaxEdits
  /\ gen' < MaxGen  \* bound: room for the generations of its own tasks
  /\ \E base \in {cache, light} \ {None}, wall \in Walls, mode \in Modes,
        on \in Themings :
       /\ on = Engines => gen' + 1 < MaxGen
       /\ disk' = Read(disk.ver + 1, wall, mode, on)
       /\ saved' = [disk' EXCEPT !.pal = base.pal]
  /\ UNCHANGED <<pool, later, cache, light, work>>

Invalidate ==
  /\ main = "invalidate" /\ main' = "idle"
  /\ cache' = None /\ light' = None
  /\ UNCHANGED <<pool, later, disk, count, saved, work>>

(* The palettes of one configuration carried over to another, those that    *)
(* there are.                                                               *)
CarryFrom(c, old) ==
  IF old = None THEN c
  ELSE [c EXCEPT !.pal = [e \in Engines |-> IF old.pal[e] = None THEN c.pal[e]
                                                                 ELSE old.pal[e]]]

InvalidateLight ==
  /\ main = "light" /\ main' = "idle"
  /\ light' = CarryFrom(disk, cache)
  /\ cache' = light'
  /\ UNCHANGED <<pool, later, disk, count, saved, work>>

LightKept    == light
LightDropped == None

(* The synchronous load computes the palette itself, under the mutex.       *)
Reload ==
  /\ main = "reload" /\ main' = "idle"
  /\ raced' = (raced \/ Computing(Engine(disk)))
  /\ cache' \in Computed(disk, raced')
  /\ light' = LightDropped
  /\ UNCHANGED <<pool, later, disk, count, saved, stage>>

ReloadSkip ==
  /\ main = "reload skip" /\ main' = "idle"
  /\ cache' = disk /\ light' = LightDropped
  /\ IF Themed(disk) THEN Enqueue([cfg |-> disk, gen |-> gen])
                     ELSE UNCHANGED pool
  /\ UNCHANGED <<later, disk, count, saved, work>>

(* The applied hook runs here, before the palettes are asked for again, for *)
(* each engine that is on and had none.                                     *)
Missing == {e \in saved.on : cache = None \/ cache.pal[e] = None}

ApplyFromMemory ==
  /\ main = "apply"
  /\ light' = CarryFrom(saved, cache)
  /\ cache' = light'
  /\ saved' = None
  /\ main' = CASE Missing = {}      -> "idle"
               [] Missing = Engines -> "trigger both"
               [] OTHER             -> "trigger"
  /\ UNCHANGED <<pool, later, disk, count, work>>

(* A task for the configuration c, under a generation of its own.           *)
EnqueueNew(c) ==
  /\ gen < MaxGen
  /\ gen' = gen + 1 /\ news' = "awaited"
  /\ Enqueue([cfg |-> c, gen |-> gen'])

TriggerAsync ==
  /\ exit = "no" /\ main \in {"idle", "trigger", "trigger both"} /\ light # None
  /\ EnqueueNew(light)
  /\ main' = IF main = "trigger both" THEN "trigger" ELSE "idle"
  /\ UNCHANGED <<later, disk, cache, light, saved, work>>

(* shell_config_snapshot, when there is no cache yet: from the light copy,  *)
(* or from the files, in which case it asks for a palette in any mode.      *)
SnapshotFromLight ==
  /\ exit = "no" /\ main = "idle" /\ cache = None /\ light # None
  /\ cache' = light
  /\ IF Themed(light) THEN EnqueueNew(light) ELSE UNCHANGED <<pool, count>>
  /\ UNCHANGED <<later, disk, light, main, saved, work>>

SnapshotFromDisk ==
  /\ exit = "no" /\ main = "idle" /\ cache = None /\ light = None
  /\ light' = disk /\ cache' = disk
  /\ EnqueueNew(disk)
  /\ UNCHANGED <<later, disk, main, saved, work>>

SnapshotSkip ==
  /\ exit = "no" /\ main = "idle" /\ light = None
  /\ light' = disk
  /\ UNCHANGED <<pool, later, disk, count, cache, main, saved, work>>

(* The loop runs the callbacks; a callback is the applied hook, which looks *)
(* at the configuration as it is then.                                      *)
DrainHooks ==
  /\ exit = "no" /\ main = "idle" /\ Drain
  /\ news' = IF news = "committed" THEN "announced" ELSE news
  /\ UNCHANGED <<pool, disk, gen, cache, light, main, saved, work>>

(* main returns, and the static pool is destroyed.                          *)
Return ==
  /\ exit = "no" /\ main = "idle"
  /\ exit' = "stop"
  /\ UNCHANGED <<tasks, worker, task, stop, later, config, work>>

-----------------------------------------------------------------------------
(* async_matugen_update on a worker: compute, look at the generation, then  *)
(* adopt or commit under the mutex, then queue the hook.                    *)
Take(w) ==
  /\ TakeTask(w)
  /\ raced' = (raced \/ Computing(Engine(Head(tasks).cfg)))
  /\ UNCHANGED <<later, config, stage>>

At(w, s) == worker[w] = "busy" /\ stage[w] = s

Compute(w) ==
  /\ At(w, "compute")
  /\ \E c \in Computed(task[w].cfg, raced) : task' = [task EXCEPT ![w].cfg = c]
  /\ stage' = [stage EXCEPT ![w] = "check"]
  /\ UNCHANGED <<tasks, worker, stop, exit, later, config, raced>>

Newest(w) == task[w].gen = gen

CheckGen(w) ==
  /\ At(w, "check")
  /\ stage' = [stage EXCEPT ![w] = IF Newest(w) THEN "commit" ELSE "adopt"]
  /\ UNCHANGED <<pool, later, config, raced>>

Ends(w) == EndTask(w) /\ stage' = [stage EXCEPT ![w] = "compute"]

(* The palettes of a task for the same wallpaper, also the one it was       *)
(* given, go into the newer configuration.                                  *)
FitsAnything(c) == cache # None
Fits(c) == cache # None /\ cache.wall = c.wall

Adopt(w) ==
  /\ At(w, "adopt")
  /\ LET c == task[w].cfg
     IN  IF Fits(c)
         THEN /\ cache' = CarryFrom(cache, c)
              /\ light' = IF light = None THEN None ELSE CarryFrom(light, c)
         ELSE UNCHANGED <<cache, light>>
  /\ Ends(w)
  /\ UNCHANGED <<later, disk, count, main, saved, raced>>

CommitsAny(w) == TRUE
Commits(w) == Newest(w)

Commit(w) ==
  /\ At(w, "commit") /\ Commits(w)
  /\ cache' = task[w].cfg /\ light' = task[w].cfg
  /\ stage' = [stage EXCEPT ![w] = "hook"]
  /\ news' = "committed"
  /\ UNCHANGED <<pool, later, disk, gen, main, saved, raced>>

(* A generation was counted between the two checks.                         *)
Superseded(w) ==
  /\ At(w, "commit") /\ ~Commits(w)
  /\ Ends(w)
  /\ UNCHANGED <<later, config, raced>>

QueueHook(w) ==
  /\ At(w, "hook")
  /\ CallLater /\ Ends(w)
  /\ UNCHANGED <<config, raced>>

-----------------------------------------------------------------------------
PoolStep(w) == (Block(w) \/ Wait(w) \/ Leave(w)) /\ UNCHANGED <<config, work>>

Work(w) == \/ PoolStep(w) \/ Take(w) \/ Compute(w) \/ CheckGen(w) \/ Adopt(w)
           \/ Commit(w) \/ Superseded(w) \/ QueueHook(w)

Locked == \/ Invalidate \/ InvalidateLight \/ Reload \/ ReloadSkip
          \/ ApplyFromMemory \/ TriggerAsync

Main == \/ BeginInvalidate \/ BeginInvalidateLight \/ BeginReload \/ BeginApply
        \/ Locked \/ SnapshotFromLight \/ SnapshotFromDisk \/ SnapshotSkip
        \/ DrainHooks \/ Return

Exiting == (StorePoolStop \/ NotifyAll \/ Join) /\ UNCHANGED <<config, work>>

Next == DiskEdit \/ Main \/ Exiting \/ \E w \in Workers : Work(w)

Spec == Init /\ [][Next]_vars

(* Threads run, and their tasks end; the main thread ends an operation that *)
(* it has begun and drains its callbacks, and is obliged to nothing else.   *)
FairSpec == /\ Spec
            /\ \A w \in Workers : WF_vars(Work(w))
            /\ WF_vars(main # "idle" /\ Locked)
            /\ WF_vars(DrainHooks)

-----------------------------------------------------------------------------
MaybeConfig == Configs \cup {None}

TypeOK ==
  /\ PoolTypeOK(Tasks)
  /\ disk \in Configs /\ gen \in 0 .. MaxGen
  /\ cache \in MaybeConfig /\ light \in MaybeConfig /\ saved \in MaybeConfig
  /\ news \in {"awaited", "committed", "announced"}
  /\ main \in {"idle", "invalidate", "light", "reload", "reload skip", "apply",
               "trigger", "trigger both"}
  /\ saved # None <=> main = "apply"
  /\ stage \in [Workers -> {"compute", "check", "adopt", "commit", "hook"}]
  /\ \A w \in Workers : worker[w] = "busy" <=> task[w] # NoTask
  /\ raced \in BOOLEAN

(* The light copy, from which palettes are asked for and edits start, is    *)
(* never older than the cache.                                              *)
LightNotOlder == cache # None /\ light # None => light.ver >= cache.ver

(* "the newer config wins wholesale": whatever a worker brings back, the    *)
(* cache never returns to a configuration written earlier.                  *)
NeverReverts ==
  [][cache # None /\ cache' # None => cache'.ver >= cache.ver]_vars

(* What a superseded task has computed and its adoption puts into the cache *)
(* was computed for the wallpaper the cache has by then, unless two threads *)
(* were in the engine at once.  Nothing is said of the other engine's       *)
(* palette, which the task was given with its configuration, or of the mode.*)
AdoptedFits ==
  [][\A w \in Workers :
       stage[w] = "adopt" /\ worker[w] = "busy" /\ worker'[w] # "busy"
         /\ cache' # cache =>
         LET e == Engine(task[w].cfg)
         IN  task[w].cfg.pal[e] \in Palettes => cache'.pal[e].wall = cache'.wall]_vars

(* Every task is run to its end, also when the process exits meanwhile; and *)
(* that of the newest generation is committed, and the hook run after it,   *)
(* unless another generation is counted or the process exits first.         *)
Asked(g) == \/ \E i \in 1 .. Len(tasks) : tasks[i].gen = g
            \/ \E w \in Workers : task[w] # NoTask /\ task[w].gen = g

NewestIsAnnounced ==
  \A g \in 1 .. MaxGen :
    Asked(g) ~> ~Asked(g) /\ (gen # g \/ news = "announced" \/ exit # "no")
=============================================================================
