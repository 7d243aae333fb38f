-------------------------- MODULE ConfigCacheProofs --------------------------
(***************************************************************************)
(* Theorems about the configuration cache and its palette worker, for any  *)
(* number of worker threads, wallpapers, modes, writes and generations.    *)
(***************************************************************************)
EXTENDS ConfigCache, TLAPS

Pals == Palettes \cup {None, Torn}

-----------------------------------------------------------------------------
(* Types, in three parts: the pool, the configurations, the places.         *)
QueueOK == /\ tasks \in Seq(Tasks)
           /\ task \in [Workers -> Tasks \cup {NoTask}]

ThreadsOK ==
  /\ worker \in [Workers -> {"looking", "blocking", "waiting", "busy", "gone"}]
  /\ stage \in [Workers -> {"compute", "check", "adopt", "commit", "hook"}]
  /\ \A w \in Workers : worker[w] = "busy" <=> task[w] # NoTask

ConfigOK == /\ disk \in Configs /\ gen \in 0 .. MaxGen
            /\ cache \in MaybeConfig /\ light \in MaybeConfig /\ saved \in MaybeConfig

PlaceOK ==
  /\ main \in {"idle", "invalidate", "light", "reload", "reload skip", "apply",
               "trigger", "trigger both"}
  /\ saved # None <=> main = "apply"

NewsOK == news \in {"awaited", "committed", "announced"}

FlagsOK == stop \in BOOLEAN /\ raced \in BOOLEAN /\ NewsOK

RestOK == exit \in {"no", "stop", "join", "joined"} /\ later \in Nat

LEMMA TypeParts ==
  TypeOK <=> QueueOK /\ ThreadsOK /\ ConfigOK /\ PlaceOK /\ FlagsOK /\ RestOK
<1>1. FlagsOK <=> stop \in BOOLEAN /\ raced \in BOOLEAN /\ NewsOK
  BY DEF FlagsOK
<1> QED
  BY <1>1 DEF TypeOK, PoolTypeOK, QueueOK, ThreadsOK, ConfigOK, PlaceOK, RestOK, NewsOK

LEMMA ReadType ==
  ASSUME NEW ver \in 0 .. MaxEdits, NEW wall \in Walls, NEW mode \in Modes,
         NEW on \in Themings
  PROVE  /\ Read(ver, wall, mode, on) \in Configs
         /\ Read(ver, wall, mode, on).ver = ver
         /\ \A pal \in [Engines -> Pals] :
              /\ [Read(ver, wall, mode, on) EXCEPT !.pal = pal] \in Configs
              /\ [Read(ver, wall, mode, on) EXCEPT !.pal = pal].ver = ver
<1>1. NoPalette \in [Engines -> Pals]
  BY DEF NoPalette, Pals
<1> QED
  BY <1>1 DEF Read, Configs, Pals

LEMMA InitType == Init => TypeOK
<1> SUFFICES ASSUME Init PROVE TypeOK
  OBVIOUS
<1>1. QueueOK
  BY DEF Init, PoolInit, QueueOK
<1>2. ThreadsOK
  BY DEF Init, PoolInit, ThreadsOK
<1>3. ConfigOK
  <2>1. PICK wall \in Walls, mode \in Modes, on \in Themings :
          disk = Read(0, wall, mode, on)
    BY DEF Init
  <2>2. disk \in Configs
    BY <2>1, BoundAssumption, ReadType
  <2> QED
    BY <2>2, BoundAssumption DEF Init, ConfigOK, MaybeConfig
<1>4. PlaceOK
  BY DEF Init, PlaceOK
<1>5. FlagsOK
  BY Zenon DEF Init, PoolInit, FlagsOK, NewsOK
<1>6. RestOK
  BY DEF Init, PoolInit, RestOK
<1> QED
  BY <1>1, <1>2, <1>3, <1>4, <1>5, <1>6, TypeParts

LEMMA CarryType ==
  ASSUME NEW c \in Configs, NEW old \in MaybeConfig
  PROVE  CarryFrom(c, old) \in Configs /\ CarryFrom(c, old).ver = c.ver
<1>1. CASE old = None
  BY <1>1 DEF CarryFrom
<1>2. CASE old # None
  <2> DEFINE pal == [e \in Engines |-> IF old.pal[e] = None THEN c.pal[e] ELSE old.pal[e]]
  <2>1. pal \in [Engines -> Pals]
    BY <1>2 DEF MaybeConfig, Configs, Pals
  <2>2. CarryFrom(c, old) = [c EXCEPT !.pal = pal]
    BY <1>2, Zenon DEF CarryFrom
  <2> HIDE DEF pal
  <2> QED
    BY <2>1, <2>2 DEF Configs, Pals
<1> QED
  BY <1>1, <1>2

LEMMA NoneNotConfig == None \notin Configs /\ NoTask \notin Tasks
BY ConfigsAssumption

LEMMA ComputedType ==
  ASSUME NEW c \in Configs, NEW race, NEW got \in Computed(c, race)
  PROVE  got \in Configs /\ got.ver = c.ver
<1>1. PICK result \in Results(c, race) : got = [c EXCEPT !.pal[Engine(c)] = result]
  BY DEF Computed
<1>2. result \in Pals
  BY DEF Results, Configs, Palettes, Pals
<1>3. c.pal \in [Engines -> Pals] /\ Engine(c) \in Engines
  BY DEF Configs, Pals, Engine, Engines
<1>4. got = [c EXCEPT !.pal = [c.pal EXCEPT ![Engine(c)] = result]]
  BY <1>1
<1>5. [c.pal EXCEPT ![Engine(c)] = result] \in [Engines -> Pals]
  BY <1>2, <1>3
<1> QED
  BY <1>4, <1>5 DEF Configs, Pals

LEMMA FlagsType == FlagsOK /\ [Next]_vars => FlagsOK'
<1> SUFFICES ASSUME FlagsOK, [Next]_vars PROVE FlagsOK'
  OBVIOUS
<1>1. stop' \in BOOLEAN
  <2>1. stop' = TRUE \/ stop' = stop
    BY DEF Next, DiskEdit, Main, Exiting, Work, PoolStep, Locked, vars, pool,
       BeginInvalidate, BeginInvalidateLight, BeginReload, BeginApply, Begin,
       Invalidate, InvalidateLight, Reload, ReloadSkip, ApplyFromMemory,
       TriggerAsync, EnqueueNew, Enqueue, SnapshotFromLight, SnapshotFromDisk,
       SnapshotSkip, DrainHooks, Return, StorePoolStop, NotifyAll, Join, Block, Wait,
       Leave, Take, TakeTask, Compute, CheckGen, Adopt, Ends, EndTask, Commit,
       Superseded, QueueHook
  <2> QED
    BY <2>1, Zenon DEF FlagsOK
<1>2. raced' \in BOOLEAN
  <2>1. (\E e : raced' = (raced \/ Computing(e))) \/ raced' = raced
    BY Zenon DEF Next, DiskEdit, Main, Exiting, Work, PoolStep, Locked, vars, work,
       BeginInvalidate, BeginInvalidateLight, BeginReload, BeginApply, Begin,
       Invalidate, InvalidateLight, Reload, ReloadSkip, ApplyFromMemory,
       TriggerAsync, SnapshotFromLight, SnapshotFromDisk,
       SnapshotSkip, DrainHooks, Return,
       Take, Compute, CheckGen, Adopt, Commit,
       Superseded, QueueHook
  <2> QED
    BY <2>1, Zenon DEF FlagsOK, Computing
<1>3. NewsOK'
  <2>1. \/ news' = news \/ news' \in {"awaited", "committed", "announced"}
    BY DEF Next, DiskEdit, Main, Exiting, Work, PoolStep, Locked, vars, config, count,
       BeginInvalidate, BeginInvalidateLight, BeginReload, BeginApply, Begin, CountGen,
       Invalidate, InvalidateLight, Reload, ReloadSkip, ApplyFromMemory,
       TriggerAsync, EnqueueNew, SnapshotFromLight, SnapshotFromDisk,
       SnapshotSkip, DrainHooks, Return,
       Take, Compute, CheckGen, Adopt, Commit,
       Superseded, QueueHook
  <2> QED
    BY <2>1 DEF FlagsOK, NewsOK
<1> QED
  BY <1>1, <1>2, <1>3, Zenon DEF FlagsOK

LEMMA EnqueueType ==
  ASSUME QueueOK, ThreadsOK, NEW t \in Tasks, Enqueue(t), UNCHANGED stage
  PROVE  QueueOK' /\ ThreadsOK'
<1>1. QueueOK'
  BY DEF QueueOK, Enqueue
<1>2. \/ worker' = worker
      \/ \E w \in Workers : worker[w] = "waiting"
                            /\ worker' = [worker EXCEPT ![w] = "looking"]
  BY DEF Enqueue, NotifyOne
<1>3. task' = task
  BY DEF Enqueue
<1> QED
  BY <1>1, <1>2, <1>3 DEF ThreadsOK

LEMMA EnqueueNewType ==
  ASSUME QueueOK, ThreadsOK, ConfigOK, NEW c \in Configs, EnqueueNew(c), UNCHANGED stage
  PROVE  QueueOK' /\ ThreadsOK' /\ gen' \in 0 .. MaxGen
<1>1. gen' \in 0 .. MaxGen
  BY BoundAssumption DEF EnqueueNew, ConfigOK
<1>2. [cfg |-> c, gen |-> gen'] \in Tasks
  BY <1>1 DEF Tasks
<1>3. Enqueue([cfg |-> c, gen |-> gen'])
  BY DEF EnqueueNew
<1> QED
  BY <1>1, <1>2, <1>3, EnqueueType

SamePool == UNCHANGED <<tasks, task, worker, stage>>

LEMMA SamePoolType ==
  ASSUME QueueOK, ThreadsOK, SamePool
  PROVE  QueueOK' /\ ThreadsOK'
BY DEF QueueOK, ThreadsOK, SamePool

(* Everything but the flags, which each action keeps.                       *)
MostOK == QueueOK /\ ThreadsOK /\ ConfigOK /\ PlaceOK /\ RestOK

LEMMA CountType ==
  ASSUME gen \in 0 .. MaxGen, NEW op, CountGen(op)
  PROVE  gen' \in 0 .. MaxGen
BY BoundAssumption DEF CountGen

LEMMA BeginType ==
  ASSUME MostOK, BeginInvalidate \/ BeginInvalidateLight \/ BeginReload \/ BeginApply \/ DiskEdit
  PROVE  MostOK'
<1> USE DEF MostOK
<1>1. ASSUME NEW op \in {"invalidate", "light", "reload", "reload skip"}, Begin(op)
      PROVE  MostOK'
  <2>1. SamePool /\ UNCHANGED <<exit, later, disk, cache, light, saved>>
    BY <1>1 DEF Begin, CountGen, pool, work, SamePool
  <2>2. QueueOK' /\ ThreadsOK'
    BY <2>1, SamePoolType
  <2>3. gen' \in 0 .. MaxGen
    <3>1. gen \in 0 .. MaxGen
      BY DEF ConfigOK
    <3> QED
      BY <1>1, <3>1, CountType DEF Begin
  <2>4. PlaceOK'
    <3>1. main = "idle" /\ main' = op /\ saved' = saved
      BY <1>1, <2>1 DEF Begin, CountGen
    <3>2. saved' = None /\ main' # "apply"
      BY <3>1 DEF PlaceOK
    <3> QED
      BY <3>1, <3>2 DEF PlaceOK
  <2> QED
    BY <2>1, <2>2, <2>3, <2>4 DEF ConfigOK, MaybeConfig, RestOK
<1>2. CASE BeginApply
  <2>1. SamePool /\ UNCHANGED <<exit, later, cache, light>> /\ main' = "apply"
        /\ gen' = gen + 1 /\ gen < MaxGen /\ disk.ver < MaxEdits
    BY <1>2 DEF BeginApply, CountGen, pool, work, SamePool
  <2>2. PICK base \in {cache, light} \ {None}, wall \in Walls, mode \in Modes,
             on \in Themings :
          /\ disk' = Read(disk.ver + 1, wall, mode, on)
          /\ saved' = [disk' EXCEPT !.pal = base.pal]
    BY <1>2 DEF BeginApply
  <2>3. base \in Configs /\ disk \in Configs
    BY DEF ConfigOK, MaybeConfig
  <2>4. disk.ver + 1 \in 0 .. MaxEdits /\ base.pal \in [Engines -> Pals]
    BY <2>1, <2>3, BoundAssumption DEF Configs, Pals
  <2>5. saved' \in Configs
    BY <2>2, <2>4, ReadType
  <2>6. disk' \in Configs
    BY <2>2, <2>4, ReadType
  <2>7. gen' \in 0 .. MaxGen
    BY <2>1, BoundAssumption DEF ConfigOK
  <2>8. PlaceOK'
    BY <2>1, <2>5, NoneNotConfig DEF PlaceOK
  <2> QED
    BY <2>1, <2>5, <2>6, <2>7, <2>8, SamePoolType DEF ConfigOK, MaybeConfig, RestOK
<1>3. CASE DiskEdit
  <2>1. SamePool /\ UNCHANGED <<exit, later, gen, cache, light, main, saved>>
        /\ disk.ver < MaxEdits /\ disk \in Configs
    BY <1>3 DEF DiskEdit, pool, count, work, SamePool, ConfigOK
  <2>2. PICK wall \in Walls, mode \in Modes, on \in Themings :
          disk' = Read(disk.ver + 1, wall, mode, on)
    BY <1>3 DEF DiskEdit
  <2>3. disk.ver + 1 \in 0 .. MaxEdits
    BY <2>1, BoundAssumption DEF Configs
  <2>4. disk' \in Configs
    BY <2>2, <2>3, ReadType
  <2> QED
    BY <2>1, <2>4, SamePoolType DEF ConfigOK, MaybeConfig, PlaceOK, RestOK
<1> QED
  BY <1>1, <1>2, <1>3 DEF BeginInvalidate, BeginInvalidateLight, BeginReload

LEMMA LockedType ==
  ASSUME MostOK, Locked
  PROVE  MostOK'
<1> USE DEF MostOK
<1>1. CASE Invalidate
  <2>1. SamePool /\ UNCHANGED <<exit, later, disk, gen, saved>>
    BY <1>1 DEF Invalidate, pool, count, work, SamePool
  <2> QED
    BY <1>1, <2>1, SamePoolType DEF Invalidate, ConfigOK, MaybeConfig, PlaceOK, RestOK
<1>2. CASE InvalidateLight
  <2>1. SamePool /\ UNCHANGED <<exit, later, disk, gen, saved>>
    BY <1>2 DEF InvalidateLight, pool, count, work, SamePool
  <2>2. light' \in Configs /\ cache' = light'
    BY <1>2, CarryType DEF InvalidateLight, ConfigOK
  <2> QED
    BY <1>2, <2>1, <2>2, SamePoolType
       DEF InvalidateLight, ConfigOK, MaybeConfig, PlaceOK, RestOK
<1>3. CASE Reload
  <2>1. SamePool /\ UNCHANGED <<exit, later, disk, gen, saved>>
        /\ light' = None /\ main = "reload" /\ main' = "idle"
    BY <1>3 DEF Reload, LightDropped, count, pool, SamePool
  <2>2. cache' \in Configs
    BY <1>3, ComputedType DEF Reload, ConfigOK
  <2> QED
    BY <2>1, <2>2, SamePoolType DEF ConfigOK, MaybeConfig, PlaceOK, RestOK
<1>4. CASE ReloadSkip
  <2>1. /\ UNCHANGED <<exit, later, disk, gen, saved, stage>> /\ disk \in Configs
        /\ cache' = disk /\ light' = None /\ main = "reload skip" /\ main' = "idle"
    BY <1>4 DEF ReloadSkip, LightDropped, Enqueue, count, pool, work, ConfigOK
  <2>2. [cfg |-> disk, gen |-> gen] \in Tasks
    BY DEF ConfigOK, Tasks
  <2>3. Enqueue([cfg |-> disk, gen |-> gen]) \/ SamePool
    BY <1>4 DEF ReloadSkip, pool, count, work, SamePool
  <2>4. QueueOK' /\ ThreadsOK'
    BY <2>1, <2>2, <2>3, EnqueueType, SamePoolType
  <2> QED
    BY <2>1, <2>4 DEF ConfigOK, MaybeConfig, PlaceOK, RestOK
<1>5. CASE ApplyFromMemory
  <2>1. SamePool /\ UNCHANGED <<exit, later, disk, gen>> /\ main = "apply"
        /\ saved' = None /\ main' \in {"trigger", "trigger both", "idle"}
    BY <1>5 DEF ApplyFromMemory, pool, count, work, SamePool
  <2>2. saved \in Configs
    BY <2>1 DEF PlaceOK, ConfigOK, MaybeConfig
  <2>3. light' \in Configs /\ cache' = light'
    BY <1>5, <2>2, CarryType DEF ApplyFromMemory, ConfigOK
  <2> QED
    BY <2>1, <2>3, SamePoolType DEF ConfigOK, MaybeConfig, PlaceOK, RestOK
<1>6. CASE TriggerAsync
  <2>1. /\ UNCHANGED <<later, disk, cache, light, saved, stage>>
        /\ main \in {"idle", "trigger", "trigger both"} /\ main' \in {"idle", "trigger"}
        /\ exit' = exit
    BY <1>6 DEF TriggerAsync, EnqueueNew, Enqueue, work
  <2>2. light \in Configs /\ EnqueueNew(light)
    BY <1>6 DEF TriggerAsync, ConfigOK, MaybeConfig
  <2>3. QueueOK' /\ ThreadsOK' /\ gen' \in 0 .. MaxGen
    BY <2>1, <2>2, EnqueueNewType
  <2> QED
    BY <2>1, <2>3 DEF ConfigOK, MaybeConfig, PlaceOK, RestOK
<1> QED
  BY <1>1, <1>2, <1>3, <1>4, <1>5, <1>6 DEF Locked

LEMMA SnapshotType ==
  ASSUME MostOK, SnapshotFromLight \/ SnapshotFromDisk \/ SnapshotSkip
  PROVE  MostOK'
<1> USE DEF MostOK
<1>1. CASE SnapshotFromLight
  <2>1. /\ UNCHANGED <<later, disk, light, main, saved, stage>>
        /\ cache' = light /\ light \in Configs /\ exit' = exit
    BY <1>1 DEF SnapshotFromLight, EnqueueNew, Enqueue, pool, work, ConfigOK, MaybeConfig
  <2>2. EnqueueNew(light) \/ (SamePool /\ gen' = gen)
    BY <1>1 DEF SnapshotFromLight, pool, count, work, SamePool
  <2>3. QueueOK' /\ ThreadsOK' /\ gen' \in 0 .. MaxGen
    BY <2>1, <2>2, EnqueueNewType, SamePoolType DEF ConfigOK
  <2> QED
    BY <2>1, <2>3 DEF ConfigOK, MaybeConfig, PlaceOK, RestOK
<1>2. CASE SnapshotFromDisk
  <2>1. /\ UNCHANGED <<later, disk, main, saved, stage>>
        /\ cache' = disk /\ light' = disk /\ disk \in Configs /\ exit' = exit
        /\ EnqueueNew(disk)
    BY <1>2 DEF SnapshotFromDisk, EnqueueNew, Enqueue, work, ConfigOK
  <2>2. QueueOK' /\ ThreadsOK' /\ gen' \in 0 .. MaxGen
    BY <2>1, EnqueueNewType
  <2> QED
    BY <2>1, <2>2 DEF ConfigOK, MaybeConfig, PlaceOK, RestOK
<1>3. CASE SnapshotSkip
  <2>1. SamePool /\ UNCHANGED <<exit, later, disk, gen, cache, main, saved>> /\ light' = disk
    BY <1>3 DEF SnapshotSkip, pool, count, work, SamePool
  <2> QED
    BY <2>1, SamePoolType DEF ConfigOK, MaybeConfig, PlaceOK, RestOK
<1> QED
  BY <1>1, <1>2, <1>3

LEMMA PoolType ==
  ASSUME MostOK, DrainHooks \/ Return \/ Exiting \/ \E w \in Workers : PoolStep(w)
  PROVE  MostOK'
<1> USE DEF MostOK
<1>1. CASE DrainHooks \/ Return
  <2>1. SamePool /\ UNCHANGED <<disk, gen, cache, light, main, saved>>
    BY <1>1 DEF DrainHooks, Return, config, count, pool, work, SamePool
  <2>2. RestOK'
    BY <1>1 DEF DrainHooks, Return, Drain, RestOK, pool
  <2> QED
    BY <2>1, <2>2, SamePoolType DEF ConfigOK, MaybeConfig, PlaceOK
<1>2. CASE Exiting \/ \E w \in Workers : PoolStep(w)
  <2>1. UNCHANGED <<disk, gen, cache, light, main, saved, stage, tasks, task>>
    BY <1>2 DEF Exiting, StorePoolStop, NotifyAll, Join, PoolStep, Block, Wait, Leave,
                config, count, work
  <2>2. RestOK'
    BY <1>2 DEF Exiting, StorePoolStop, NotifyAll, Join, PoolStep, Block, Wait, Leave, RestOK
  <2>3. ThreadsOK'
    BY <1>2, <2>1 DEF Exiting, StorePoolStop, NotifyAll, Join, PoolStep, Block, Wait,
                      Leave, ThreadsOK
  <2> QED
    BY <2>1, <2>2, <2>3 DEF ConfigOK, MaybeConfig, PlaceOK, QueueOK
<1> QED
  BY <1>1, <1>2


(* What a worker does with its task.                                        *)
LEMMA EndsType ==
  ASSUME QueueOK, ThreadsOK, NEW w \in Workers, Ends(w)
  PROVE  QueueOK' /\ ThreadsOK'
<1>1. /\ worker' = [worker EXCEPT ![w] = "looking"]
      /\ task' = [task EXCEPT ![w] = NoTask]
      /\ stage' = [stage EXCEPT ![w] = "compute"] /\ tasks' = tasks
  BY DEF Ends, EndTask, TaskDropped
<1> QED
  BY <1>1 DEF QueueOK, ThreadsOK

LEMMA BusyTask ==
  ASSUME QueueOK, ThreadsOK, NEW w \in Workers, worker[w] = "busy"
  PROVE  task[w] \in Tasks /\ task[w].cfg \in Configs
BY DEF QueueOK, ThreadsOK, Tasks

LEMMA WorkType ==
  ASSUME MostOK, NEW w \in Workers, Work(w)
  PROVE  MostOK'
<1> USE DEF MostOK
<1>1. CASE Take(w)
  <2>1. UNCHANGED <<later, disk, gen, cache, light, main, saved, stage, exit>>
    BY <1>1 DEF Take, TakeTask, config, count
  <2>2. /\ tasks # <<>> /\ tasks' = Tail(tasks)
        /\ task' = [task EXCEPT ![w] = Head(tasks)]
        /\ worker' = [worker EXCEPT ![w] = "busy"]
    BY <1>1 DEF Take, TakeTask
  <2>3. Head(tasks) \in Tasks /\ Tail(tasks) \in Seq(Tasks)
    BY <2>2 DEF QueueOK
  <2>4. QueueOK'
    BY <2>2, <2>3 DEF QueueOK
  <2>5. Head(tasks) # NoTask
    BY <2>3, NoneNotConfig
  <2>6. ThreadsOK'
    BY <2>1, <2>2, <2>5 DEF ThreadsOK, QueueOK
  <2> QED
    BY <2>1, <2>4, <2>6 DEF ConfigOK, MaybeConfig, PlaceOK, RestOK
<1>2. CASE Compute(w)
  <2>1. /\ UNCHANGED <<later, disk, gen, cache, light, main, saved, tasks, worker, exit>>
        /\ stage' = [stage EXCEPT ![w] = "check"] /\ worker[w] = "busy"
    BY <1>2 DEF Compute, At, config, count
  <2>2. PICK c \in Computed(task[w].cfg, raced) : task' = [task EXCEPT ![w].cfg = c]
    BY <1>2 DEF Compute
  <2>3. task[w] \in Tasks /\ c \in Configs
    BY <2>1, BusyTask, ComputedType
  <2>4. task'[w] = [task[w] EXCEPT !.cfg = c]
        /\ DOMAIN task' = Workers /\ \A v \in Workers \ {w} : task'[v] = task[v]
    BY <2>2 DEF QueueOK
  <2>5. task'[w] \in Tasks
    BY <2>3, <2>4 DEF Tasks
  <2>6. task' \in [Workers -> Tasks \cup {NoTask}]
    <3>1. task' = [v \in Workers |-> task'[v]]
      BY <2>2 DEF QueueOK
    <3> QED
      BY <2>4, <2>5, <3>1 DEF QueueOK
  <2>7. ThreadsOK'
    BY <2>1, <2>4, <2>5, NoneNotConfig DEF ThreadsOK
  <2> QED
    BY <2>1, <2>6, <2>7 DEF QueueOK, ConfigOK, MaybeConfig, PlaceOK, RestOK
<1>3. CASE CheckGen(w)
  <2>1. UNCHANGED <<later, disk, gen, cache, light, main, saved, tasks, worker, task, exit>>
    BY <1>3 DEF CheckGen, config, count, pool
  <2>2. \/ stage' = [stage EXCEPT ![w] = "commit"]
        \/ stage' = [stage EXCEPT ![w] = "adopt"]
    BY <1>3 DEF CheckGen
  <2>3. ThreadsOK'
    BY <2>1, <2>2 DEF ThreadsOK
  <2> QED
    BY <2>1, <2>3 DEF QueueOK, ConfigOK, MaybeConfig, PlaceOK, RestOK
<1>4. CASE Adopt(w)
  <2>1. /\ UNCHANGED <<later, disk, gen, main, saved, exit>> /\ Ends(w)
        /\ worker[w] = "busy"
    BY <1>4 DEF Adopt, At, Ends, EndTask, count
  <2>2. \/ UNCHANGED <<cache, light>>
        \/ /\ cache # None /\ cache' = CarryFrom(cache, task[w].cfg)
           /\ \/ light' = None
              \/ light # None /\ light' = CarryFrom(light, task[w].cfg)
    BY <1>4 DEF Adopt, Fits
  <2>3. cache' \in MaybeConfig /\ light' \in MaybeConfig
    BY <2>1, <2>2, BusyTask, CarryType DEF ConfigOK, MaybeConfig
  <2> QED
    BY <2>1, <2>3, EndsType DEF ConfigOK, PlaceOK, RestOK
<1>5. CASE Commit(w)
  <2>1. /\ UNCHANGED <<later, disk, gen, main, saved, tasks, task, worker, exit>>
        /\ stage' = [stage EXCEPT ![w] = "hook"] /\ worker[w] = "busy"
        /\ cache' = task[w].cfg /\ light' = task[w].cfg
    BY <1>5 DEF Commit, At, pool
  <2>2. ThreadsOK'
    BY <2>1 DEF ThreadsOK
  <2> QED
    BY <2>1, <2>2, BusyTask DEF QueueOK, ConfigOK, MaybeConfig, PlaceOK, RestOK
<1>6. CASE Superseded(w) \/ QueueHook(w)
  <2>1. UNCHANGED <<disk, gen, cache, light, main, saved, exit>> /\ Ends(w)
    BY <1>6 DEF Superseded, QueueHook, config, count, Ends, EndTask
  <2>2. RestOK'
    BY <1>6, <2>1 DEF Superseded, QueueHook, CallLater, RestOK
  <2> QED
    BY <2>1, <2>2, EndsType DEF ConfigOK, MaybeConfig, PlaceOK
<1>7. CASE PoolStep(w)
  BY <1>7, PoolType
<1> QED
  BY <1>1, <1>2, <1>3, <1>4, <1>5, <1>6, <1>7 DEF Work

LEMMA NextType == TypeOK /\ [Next]_vars => TypeOK'
<1> SUFFICES ASSUME TypeOK, [Next]_vars PROVE TypeOK'
  OBVIOUS
<1>1. MostOK /\ FlagsOK
  BY TypeParts DEF MostOK
<1>2. MostOK'
  <2>1. CASE UNCHANGED vars
    BY <1>1, <2>1, SamePoolType
       DEF vars, pool, config, count, work, SamePool, MostOK, ConfigOK, MaybeConfig, PlaceOK, RestOK
  <2>2. CASE DiskEdit
    BY <1>1, <2>2, BeginType
  <2>3. CASE Main
    BY <1>1, <2>3, BeginType, LockedType, SnapshotType, PoolType DEF Main
  <2>4. CASE Exiting
    BY <1>1, <2>4, PoolType
  <2>5. ASSUME NEW w \in Workers, Work(w) PROVE MostOK'
    BY <1>1, <2>5, WorkType
  <2> QED
    BY <2>1, <2>2, <2>3, <2>4, <2>5 DEF Next
<1>3. FlagsOK'
  BY <1>1, FlagsType
<1>4. MostOK' /\ FlagsOK' => TypeOK'
  BY TypeParts, PTL DEF MostOK
<1> QED
  BY <1>2, <1>3, <1>4

(* The caches hold configurations that were written, the palettes in them   *)
(* are palettes, and a worker holds a task exactly while it runs one.       *)
THEOREM CacheTypeCorrect == Spec => []TypeOK
BY InitType, NextType, PTL DEF Spec


-----------------------------------------------------------------------------
(* Versions.  A stamp is the generation and the version of a task, queued   *)
(* running.  Only a task of the newest generation may commit; while the     *)
(* main thread is in an operation, other than between its two requests for  *)
(* palettes, no task is of the newest generation.                           *)
Stamps == {<<tasks[i].gen, tasks[i].cfg.ver>> : i \in 1 .. Len(tasks)}
          \cup {<<task[w].gen, task[w].cfg.ver>> : w \in {v \in Workers : task[v] # NoTask}}

StampsOK == \A p \in Stamps : p[1] <= gen /\ p[2] <= disk.ver

NewestOK ==
  \A p \in Stamps : p[1] = gen =>
    /\ main \in {"idle", "trigger"}
    /\ \A q \in Stamps : q[1] = gen => q[2] = p[2]
    /\ IF cache # None THEN p[2] >= cache.ver ELSE light # None /\ p[2] >= light.ver

CopiesOK ==
  /\ cache # None => /\ cache.ver <= disk.ver
                     /\ light # None => light.ver >= cache.ver
                     /\ saved # None => saved.ver >= cache.ver
  /\ light # None => light.ver <= disk.ver
  /\ saved # None => saved.ver <= disk.ver

VersionsInv == TypeOK /\ StampsOK /\ NewestOK /\ CopiesOK

Forward == cache # None /\ cache' # None => cache'.ver >= cache.ver

VersionsGoal == StampsOK' /\ NewestOK' /\ CopiesOK' /\ Forward

LEMMA StampsType ==
  ASSUME QueueOK
  PROVE  Stamps \subseteq Nat \X Nat
<1>1. ASSUME NEW t \in Tasks PROVE t.gen \in Nat /\ t.cfg.ver \in Nat
  BY BoundAssumption DEF Tasks, Configs
<1>2. \A i \in 1 .. Len(tasks) : tasks[i] \in Tasks
  BY DEF QueueOK
<1>3. \A w \in Workers : task[w] # NoTask => task[w] \in Tasks
  BY DEF QueueOK
<1> QED
  BY <1>1, <1>2, <1>3 DEF Stamps

LEMMA VersType ==
  ASSUME ConfigOK
  PROVE  /\ gen \in Nat /\ disk.ver \in Nat
         /\ cache # None => cache.ver \in Nat
         /\ light # None => light.ver \in Nat
         /\ saved # None => saved.ver \in Nat
BY BoundAssumption DEF ConfigOK, MaybeConfig, Configs

LEMMA SameStamps ==
  ASSUME UNCHANGED <<tasks, task>>
  PROVE  Stamps' = Stamps
BY DEF Stamps

LEMMA EnqueueStamps ==
  ASSUME QueueOK, NEW c \in Configs, NEW g, Enqueue([cfg |-> c, gen |-> g])
  PROVE  Stamps' \subseteq Stamps \cup {<<g, c.ver>>}
<1> DEFINE t == [cfg |-> c, gen |-> g]
<1>1. tasks' = Append(tasks, t) /\ task' = task /\ tasks \in Seq(Tasks)
  BY DEF Enqueue, QueueOK
<1>2. Len(tasks') = Len(tasks) + 1 /\ Len(tasks) \in Nat
  BY <1>1
<1>3. \A i \in 1 .. Len(tasks) : tasks'[i] = tasks[i]
  BY <1>1
<1>4. tasks'[Len(tasks) + 1] = t
  BY <1>1
<1>5. \A i \in 1 .. Len(tasks') : i \in 1 .. Len(tasks) \/ i = Len(tasks) + 1
  BY <1>2
<1>6. ASSUME NEW i \in 1 .. Len(tasks')
      PROVE  <<tasks'[i].gen, tasks'[i].cfg.ver>> \in Stamps \cup {<<g, c.ver>>}
  <2>1. CASE i \in 1 .. Len(tasks)
    BY <1>3, <2>1 DEF Stamps
  <2>2. CASE i = Len(tasks) + 1
    BY <1>4, <2>2
  <2> QED
    BY <1>5, <2>1, <2>2
<1> QED
  BY <1>1, <1>6 DEF Stamps

(* What the worker's steps do to the queue and the tasks keeps the stamps.  *)
LEMMA WorkStamps ==
  ASSUME QueueOK, ThreadsOK, NEW w \in Workers, Work(w)
  PROVE  Stamps' \subseteq Stamps
<1>1. CASE Take(w)
  <2>1. /\ tasks \in Seq(Tasks) /\ tasks # <<>> /\ tasks' = Tail(tasks)
        /\ task' = [task EXCEPT ![w] = tasks[1]] /\ 1 \in 1 .. Len(tasks)
    BY <1>1 DEF Take, TakeTask, QueueOK
  <2>2. \A i \in 1 .. Len(tasks') : tasks'[i] = tasks[i + 1] /\ i + 1 \in 1 .. Len(tasks)
    BY <2>1
  <2>3. ASSUME NEW v \in Workers, task'[v] # NoTask
        PROVE  <<task'[v].gen, task'[v].cfg.ver>> \in Stamps
    <3>1. CASE v = w
      <4>1. task'[v] = tasks[1]
        BY <2>1, <3>1 DEF QueueOK
      <4> QED
        BY <2>1, <4>1 DEF Stamps
    <3>2. CASE v # w
      <4>1. task'[v] = task[v]
        BY <2>1, <3>2 DEF QueueOK
      <4> QED
        BY <2>3, <4>1 DEF Stamps
    <3> QED
      BY <3>1, <3>2
  <2>4. ASSUME NEW i \in 1 .. Len(tasks')
        PROVE  <<tasks'[i].gen, tasks'[i].cfg.ver>> \in Stamps
    BY <2>2 DEF Stamps
  <2> QED
    BY <2>3, <2>4 DEF Stamps
<1>2. CASE Compute(w)
  <2>1. PICK c \in Computed(task[w].cfg, raced) : task' = [task EXCEPT ![w].cfg = c]
    BY <1>2 DEF Compute
  <2>2. tasks' = tasks /\ task[w] \in Tasks /\ c \in Configs /\ c.ver = task[w].cfg.ver
    BY <1>2, <2>1, BusyTask, ComputedType DEF Compute, At
  <2>3. ASSUME NEW v \in Workers, task'[v] # NoTask
        PROVE  <<task'[v].gen, task'[v].cfg.ver>> \in Stamps
    <3>1. CASE v = w
      <4>1. task'[v] = [task[v] EXCEPT !.cfg = c]
        BY <2>1, <3>1 DEF QueueOK
      <4>2. task'[v].gen = task[v].gen /\ task'[v].cfg.ver = task[v].cfg.ver
        BY <2>2, <3>1, <4>1 DEF Tasks, Configs
      <4>3. task[v] # NoTask
        BY <2>2, <3>1, NoneNotConfig
      <4> QED
        BY <4>2, <4>3 DEF Stamps
    <3>2. CASE v # w
      <4>1. task'[v] = task[v]
        BY <2>1, <3>2 DEF QueueOK
      <4> QED
        BY <2>3, <4>1 DEF Stamps
    <3> QED
      BY <3>1, <3>2
  <2> QED
    BY <2>2, <2>3 DEF Stamps
<1>3. CASE Ends(w)
  <2>1. tasks' = tasks /\ task' = [task EXCEPT ![w] = NoTask]
    BY <1>3 DEF Ends, EndTask, TaskDropped
  <2>2. \A v \in Workers : task'[v] # NoTask => task'[v] = task[v]
    BY <2>1 DEF QueueOK
  <2> QED
    BY <2>1, <2>2 DEF Stamps
<1>4. CASE UNCHANGED <<tasks, task>>
  BY <1>4, SameStamps
<1> QED
  BY <1>1, <1>2, <1>3, <1>4
     DEF Work, PoolStep, Block, Wait, Leave, CheckGen, Adopt, Commit, Superseded,
         QueueHook, pool


(* After a generation has been counted, or inside an operation that has     *)
(* counted one, no task is of the newest generation: the copies may change. *)
LEMMA NoneNewest ==
  ASSUME TypeOK, StampsOK, Stamps' \subseteq Stamps, disk'.ver >= disk.ver, disk' \in Configs,
         gen' = gen + 1 \/ (gen' = gen /\ NewestOK /\ main \notin {"idle", "trigger"})
  PROVE  StampsOK' /\ NewestOK'
<1>1. /\ gen \in Nat /\ disk.ver \in Nat /\ disk'.ver \in Nat
      /\ Stamps \subseteq Nat \X Nat
  BY TypeParts, VersType, StampsType, BoundAssumption DEF Configs
<1>2. \A p \in Stamps : p[1] \in Nat /\ p[2] \in Nat /\ p[1] <= gen /\ p[2] <= disk.ver
  BY <1>1 DEF StampsOK
<1>3. \A p \in Stamps : p[1] # gen'
  <2>1. CASE gen' = gen + 1
    BY <1>1, <1>2, <2>1
  <2>2. CASE gen' = gen /\ NewestOK /\ main \notin {"idle", "trigger"}
    BY <2>2 DEF NewestOK
  <2> QED
    BY <2>1, <2>2
<1>4. StampsOK'
  BY <1>1, <1>2 DEF StampsOK
<1>5. NewestOK'
  BY <1>3 DEF NewestOK
<1> QED
  BY <1>4, <1>5

(* A task is queued under a generation that no other task has.              *)
LEMMA FreshStamp ==
  ASSUME TypeOK, StampsOK, NEW v \in Nat, v <= disk.ver, UNCHANGED disk,
         Stamps' \subseteq Stamps \cup {<<gen', v>>}, main' \in {"idle", "trigger"},
         gen' = gen + 1 \/ (gen' = gen /\ NewestOK /\ main \notin {"idle", "trigger"}),
         IF cache' # None THEN v >= cache'.ver ELSE light' # None /\ v >= light'.ver
  PROVE  StampsOK' /\ NewestOK'
<1>1. /\ gen \in Nat /\ disk.ver \in Nat /\ Stamps \subseteq Nat \X Nat
      /\ gen' \in Nat /\ gen' >= gen
  BY TypeParts, VersType, StampsType
<1>2. \A p \in Stamps : p[1] \in Nat /\ p[2] \in Nat /\ p[1] <= gen /\ p[2] <= disk.ver
  BY <1>1 DEF StampsOK
<1>3. \A p \in Stamps : p[1] # gen'
  <2>1. CASE gen' = gen + 1
    BY <1>1, <1>2, <2>1
  <2>2. CASE gen' = gen /\ NewestOK /\ main \notin {"idle", "trigger"}
    BY <2>2 DEF NewestOK
  <2> QED
    BY <2>1, <2>2
<1>4. \A p \in Stamps' : p[1] = gen' => p = <<gen', v>>
  BY <1>3
<1>5. StampsOK'
  <2>1. ASSUME NEW p \in Stamps' PROVE p[1] <= gen' /\ p[2] <= disk'.ver
    <3>1. CASE p \in Stamps
      BY <1>1, <1>2, <3>1
    <3>2. CASE p = <<gen', v>>
      BY <1>1, <3>2
    <3> QED
      BY <3>1, <3>2
  <2> QED
    BY <2>1 DEF StampsOK
<1>6. ASSUME NEW p \in Stamps', p[1] = gen'
      PROVE  p[2] = v
  BY <1>4, <1>6
<1>7. NewestOK'
  BY <1>6 DEF NewestOK
<1> QED
  BY <1>5, <1>7

(* Nothing but the stamps, and those only fewer.                            *)
LEMMA FewerStamps ==
  ASSUME VersionsInv, Stamps' \subseteq Stamps,
         UNCHANGED <<disk, gen, cache, light, saved, main>>
  PROVE  VersionsGoal
<1>1. /\ ConfigOK /\ StampsOK /\ NewestOK /\ CopiesOK
  BY TypeParts DEF VersionsInv
<1>2. StampsOK'
  BY <1>1 DEF StampsOK
<1>3. NewestOK'
  BY <1>1 DEF NewestOK
<1>4. CopiesOK'
  BY <1>1 DEF CopiesOK
<1>5. Forward
  BY <1>1, VersType DEF Forward
<1> QED
  BY <1>2, <1>3, <1>4, <1>5 DEF VersionsGoal

LEMMA BeginVersions ==
  ASSUME VersionsInv, TypeOK',
         BeginInvalidate \/ BeginInvalidateLight \/ BeginReload \/ BeginApply \/ DiskEdit
  PROVE  VersionsGoal
<1>1. /\ ConfigOK /\ ConfigOK' /\ StampsOK /\ NewestOK /\ CopiesOK /\ TypeOK
  <2>1. TypeOK' => ConfigOK'
    BY TypeParts, PTL
  <2> QED
    BY <2>1, TypeParts DEF VersionsInv
<1>2. UNCHANGED <<tasks, task, cache, light>>
  BY DEF BeginInvalidate, BeginInvalidateLight, BeginReload, BeginApply, Begin, DiskEdit,
         CountGen, pool, count
<1>3. Stamps' = Stamps
  BY <1>2, SameStamps
<1>4. Forward
  BY <1>1, <1>2, VersType DEF Forward
<1>5. CASE BeginInvalidate \/ BeginInvalidateLight \/ BeginReload
  <2>1. gen' = gen + 1 /\ UNCHANGED <<disk, saved>>
    BY <1>5 DEF BeginInvalidate, BeginInvalidateLight, BeginReload, Begin, CountGen
  <2>2. StampsOK' /\ NewestOK'
    BY <1>1, <1>3, <2>1, NoneNewest, VersType DEF ConfigOK
  <2> QED
    BY <1>1, <1>2, <1>4, <2>1, <2>2 DEF VersionsGoal, CopiesOK
<1>6. CASE BeginApply
  <2>1. gen' = gen + 1 /\ disk.ver < MaxEdits
    BY <1>6 DEF BeginApply, CountGen
  <2>2. PICK base \in {cache, light} \ {None}, wall \in Walls, mode \in Modes,
             on \in Themings :
          /\ disk' = Read(disk.ver + 1, wall, mode, on)
          /\ saved' = [disk' EXCEPT !.pal = base.pal]
    BY <1>6 DEF BeginApply
  <2>3. base.pal \in [Engines -> Pals] /\ disk.ver + 1 \in 0 .. MaxEdits
    BY <1>1, <2>1, BoundAssumption DEF ConfigOK, MaybeConfig, Configs, Pals
  <2>4. saved'.ver = disk.ver + 1 /\ disk'.ver = disk.ver + 1
    BY <2>2, <2>3, ReadType
  <2>5. disk'.ver >= disk.ver /\ disk' \in Configs
    BY <1>1, <2>4, VersType DEF ConfigOK
  <2>6. StampsOK' /\ NewestOK'
    BY <1>1, <1>3, <2>1, <2>5, NoneNewest
  <2>7. CopiesOK'
    BY <1>1, <1>2, <2>4, VersType DEF CopiesOK
  <2> QED
    BY <1>4, <2>6, <2>7 DEF VersionsGoal
<1>7. CASE DiskEdit
  <2>1. UNCHANGED <<gen, main, saved>> /\ disk'.ver = disk.ver + 1
    BY <1>7 DEF DiskEdit, count, Read
  <2>2. StampsOK'
    <3>1. ASSUME NEW p \in Stamps' PROVE p[1] <= gen' /\ p[2] <= disk'.ver
      <4>1. p \in Nat \X Nat /\ p[1] <= gen /\ p[2] <= disk.ver
        BY <1>1, <1>3, StampsType, TypeParts DEF StampsOK
      <4> QED
        BY <1>1, <2>1, <4>1, VersType
    <3> QED
      BY <3>1 DEF StampsOK
  <2>3. NewestOK'
    BY <1>1, <1>2, <1>3, <2>1 DEF NewestOK
  <2>4. CopiesOK'
    BY <1>1, <1>2, <2>1, VersType DEF CopiesOK
  <2> QED
    BY <1>4, <2>2, <2>3, <2>4 DEF VersionsGoal
<1> QED
  BY <1>5, <1>6, <1>7


(* The facts every step starts from.                                        *)
LEMMA Parts ==
  ASSUME VersionsInv
  PROVE  /\ TypeOK /\ ConfigOK /\ QueueOK /\ ThreadsOK /\ PlaceOK
         /\ StampsOK /\ NewestOK /\ CopiesOK
BY TypeParts DEF VersionsInv

LEMMA LockedVersions ==
  ASSUME VersionsInv, Locked
  PROVE  VersionsGoal
<1> USE Parts
<1>0. /\ disk \in Configs /\ disk.ver \in Nat /\ gen \in Nat
      /\ cache # None => cache \in Configs /\ cache.ver \in Nat
      /\ light # None => light \in Configs /\ light.ver \in Nat
      /\ disk.ver >= disk.ver
  BY VersType DEF ConfigOK, MaybeConfig
<1>1. CASE Invalidate
  <2>1. /\ UNCHANGED <<tasks, task, disk, gen, saved>> /\ main = "invalidate"
        /\ cache' = None /\ light' = None
    BY <1>1 DEF Invalidate, count, pool
  <2>2. StampsOK' /\ NewestOK'
    BY <1>0, <2>1, SameStamps, NoneNewest
  <2>3. CopiesOK' /\ Forward
    BY <2>1 DEF CopiesOK, Forward
  <2> QED
    BY <2>2, <2>3 DEF VersionsGoal
<1>2. CASE InvalidateLight
  <2>1. /\ UNCHANGED <<tasks, task, disk, gen, saved>> /\ main = "light"
        /\ light' = CarryFrom(disk, cache) /\ cache' = light'
    BY <1>2 DEF InvalidateLight, count, pool
  <2>2. light' \in Configs /\ light'.ver = disk.ver /\ saved' = None
    BY <1>0, <2>1, CarryType DEF ConfigOK, PlaceOK
  <2>3. StampsOK' /\ NewestOK'
    BY <1>0, <2>1, SameStamps, NoneNewest
  <2>4. CopiesOK' /\ Forward
    BY <1>0, <2>1, <2>2 DEF CopiesOK, Forward
  <2> QED
    BY <2>3, <2>4 DEF VersionsGoal
<1>3. CASE Reload
  <2>1. /\ UNCHANGED <<tasks, task, disk, gen, saved>> /\ main = "reload" /\ light' = None
        /\ cache' \in Computed(disk, raced')
    BY <1>3 DEF Reload, LightDropped, count, pool
  <2>2. cache'.ver = disk.ver /\ saved' = None
    BY <1>0, <2>1, ComputedType DEF PlaceOK
  <2>3. StampsOK' /\ NewestOK'
    BY <1>0, <2>1, SameStamps, NoneNewest
  <2>4. CopiesOK' /\ Forward
    BY <1>0, <2>1, <2>2 DEF CopiesOK, Forward
  <2> QED
    BY <2>3, <2>4 DEF VersionsGoal
<1>4. CASE ReloadSkip
  <2>1. /\ UNCHANGED <<disk, gen, saved>> /\ main = "reload skip" /\ main' = "idle"
        /\ light' = None /\ cache' = disk
    BY <1>4 DEF ReloadSkip, LightDropped, count
  <2>2. saved' = None /\ cache' # None
    BY <1>0, <2>1, NoneNotConfig DEF PlaceOK
  <2>3. StampsOK' /\ NewestOK'
    <3>1. CASE UNCHANGED pool
      <4>1. UNCHANGED <<tasks, task>>
        BY <3>1 DEF pool
      <4> QED
        BY <1>0, <2>1, <4>1, SameStamps, NoneNewest
    <3>2. CASE Enqueue([cfg |-> disk, gen |-> gen])
      <4>1. Stamps' \subseteq Stamps \cup {<<gen', disk.ver>>}
        BY <1>0, <2>1, <3>2, EnqueueStamps
      <4> QED
        BY <1>0, <2>1, <2>2, <4>1, FreshStamp
    <3> QED
      BY <1>4, <3>1, <3>2 DEF ReloadSkip
  <2>4. CopiesOK' /\ Forward
    BY <1>0, <2>1, <2>2 DEF CopiesOK, Forward
  <2> QED
    BY <2>3, <2>4 DEF VersionsGoal
<1>5. CASE ApplyFromMemory
  <2>1. /\ UNCHANGED <<tasks, task, disk, gen>> /\ main = "apply" /\ saved' = None
        /\ light' = CarryFrom(saved, cache) /\ cache' = light'
    BY <1>5 DEF ApplyFromMemory, count, pool
  <2>2. saved # None /\ saved \in Configs /\ saved.ver \in Nat
    BY <2>1, VersType DEF PlaceOK, ConfigOK, MaybeConfig
  <2>3. light' \in Configs /\ light'.ver = saved.ver
    BY <2>1, <2>2, CarryType DEF ConfigOK
  <2>4. StampsOK' /\ NewestOK'
    BY <1>0, <2>1, SameStamps, NoneNewest
  <2>5. CopiesOK' /\ Forward
    BY <1>0, <2>1, <2>2, <2>3 DEF CopiesOK, Forward
  <2> QED
    BY <2>4, <2>5 DEF VersionsGoal
<1>6. CASE TriggerAsync
  <2>1. /\ UNCHANGED <<disk, cache, light, saved>> /\ main' \in {"idle", "trigger"}
        /\ light # None
        /\ gen' = gen + 1 /\ Enqueue([cfg |-> light, gen |-> gen'])
    BY <1>6 DEF TriggerAsync, EnqueueNew
  <2>2. Stamps' \subseteq Stamps \cup {<<gen', light.ver>>}
    BY <1>0, <2>1, EnqueueStamps
  <2>3. /\ light.ver <= disk.ver
        /\ IF cache' # None THEN light.ver >= cache'.ver ELSE light' # None /\ light.ver >= light'.ver
    BY <1>0, <2>1 DEF CopiesOK
  <2>4. StampsOK' /\ NewestOK'
    BY <1>0, <2>1, <2>2, <2>3, FreshStamp
  <2>5. CopiesOK' /\ Forward
    BY <1>0, <2>1 DEF CopiesOK, Forward
  <2> QED
    BY <2>4, <2>5 DEF VersionsGoal
<1> QED
  BY <1>1, <1>2, <1>3, <1>4, <1>5, <1>6 DEF Locked

LEMMA SnapshotVersions ==
  ASSUME VersionsInv, SnapshotFromLight \/ SnapshotFromDisk \/ SnapshotSkip
  PROVE  VersionsGoal
<1> USE Parts
<1>0. /\ disk \in Configs /\ disk.ver \in Nat /\ gen \in Nat
      /\ cache # None => cache \in Configs /\ cache.ver \in Nat
      /\ light # None => light \in Configs /\ light.ver \in Nat
      /\ disk # None
  BY VersType, NoneNotConfig DEF ConfigOK, MaybeConfig
<1>1. CASE SnapshotFromLight
  <2>1. /\ UNCHANGED <<disk, light, main, saved>> /\ main = "idle" /\ saved = None
        /\ cache = None /\ light # None /\ cache' = light
    BY <1>1 DEF SnapshotFromLight, PlaceOK
  <2>2. CopiesOK' /\ Forward
    BY <1>0, <2>1 DEF CopiesOK, Forward
  <2>3. StampsOK' /\ NewestOK'
    <3>1. CASE EnqueueNew(light)
      <4>1. gen' = gen + 1 /\ Enqueue([cfg |-> light, gen |-> gen'])
        BY <3>1 DEF EnqueueNew
      <4>2. Stamps' \subseteq Stamps \cup {<<gen', light.ver>>}
        BY <1>0, <2>1, <4>1, EnqueueStamps
      <4>3. light.ver <= disk.ver
        BY <2>1 DEF CopiesOK
      <4> QED
        BY <1>0, <2>1, <4>1, <4>2, <4>3, FreshStamp
    <3>2. CASE UNCHANGED <<pool, count>>
      <4>1. UNCHANGED <<tasks, task, gen>>
        BY <3>2 DEF pool, count
      <4>2. Stamps' = Stamps
        BY <4>1, SameStamps
      <4>3. StampsOK'
        BY <2>1, <4>1, <4>2 DEF StampsOK
      <4>4. NewestOK'
        BY <2>1, <4>1, <4>2 DEF NewestOK
      <4> QED
        BY <4>3, <4>4
    <3> QED
      BY <1>1, <3>1, <3>2 DEF SnapshotFromLight
  <2> QED
    BY <2>2, <2>3 DEF VersionsGoal
<1>2. CASE SnapshotFromDisk
  <2>1. /\ UNCHANGED <<disk, main, saved>> /\ main = "idle" /\ saved = None
        /\ cache = None /\ light' = disk /\ cache' = disk
        /\ gen' = gen + 1 /\ Enqueue([cfg |-> disk, gen |-> gen'])
    BY <1>2 DEF SnapshotFromDisk, EnqueueNew, PlaceOK
  <2>2. CopiesOK' /\ Forward
    BY <1>0, <2>1 DEF CopiesOK, Forward
  <2>3. Stamps' \subseteq Stamps \cup {<<gen', disk.ver>>}
    BY <1>0, <2>1, EnqueueStamps
  <2>4. StampsOK' /\ NewestOK'
    BY <1>0, <2>1, <2>3, FreshStamp
  <2> QED
    BY <2>2, <2>4 DEF VersionsGoal
<1>3. CASE SnapshotSkip
  <2>1. /\ UNCHANGED <<tasks, task, disk, gen, cache, main, saved>>
        /\ light = None /\ light' = disk
    BY <1>3 DEF SnapshotSkip, count, pool
  <2>2. Stamps' = Stamps
    BY <2>1, SameStamps
  <2>3. StampsOK'
    BY <2>1, <2>2 DEF StampsOK
  <2>4. NewestOK'
    BY <2>1, <2>2 DEF NewestOK
  <2>5. CopiesOK' /\ Forward
    BY <1>0, <2>1 DEF CopiesOK, Forward
  <2> QED
    BY <2>3, <2>4, <2>5 DEF VersionsGoal
<1> QED
  BY <1>1, <1>2, <1>3

LEMMA AdoptVersions ==
  ASSUME VersionsInv, NEW w \in Workers, Adopt(w)
  PROVE  VersionsGoal
<1> USE Parts
<1>1. Stamps' \subseteq Stamps
  BY WorkStamps DEF Work
<1>2. /\ UNCHANGED <<disk, gen, main, saved>> /\ worker[w] = "busy"
      /\ \/ UNCHANGED <<cache, light>>
         \/ /\ cache # None /\ cache' = CarryFrom(cache, task[w].cfg)
            /\ \/ light = None /\ light' = None
               \/ light # None /\ light' = CarryFrom(light, task[w].cfg)
  BY DEF Adopt, At, Fits, count
<1>3. ASSUME NEW c \in Configs
      PROVE  /\ CarryFrom(c, task[w].cfg).ver = c.ver
             /\ CarryFrom(c, task[w].cfg) # None
  BY <1>2, BusyTask, CarryType, NoneNotConfig DEF MaybeConfig
<1>4. /\ cache # None => cache \in Configs /\ cache.ver \in Nat
      /\ light # None => light \in Configs
  BY VersType DEF ConfigOK, MaybeConfig
<1>5. /\ cache' # None <=> cache # None
      /\ cache # None => cache'.ver = cache.ver
      /\ light' # None <=> light # None
      /\ light # None => light'.ver = light.ver
  BY <1>2, <1>3, <1>4
<1>6. StampsOK'
  BY <1>1, <1>2 DEF StampsOK
<1>7. NewestOK'
  <2>1. ASSUME NEW p \in Stamps, p[1] = gen
        PROVE  IF cache' # None THEN p[2] >= cache'.ver ELSE light' # None /\ p[2] >= light'.ver
    BY <1>5, <2>1 DEF NewestOK
  <2> QED
    BY <1>1, <1>2, <2>1 DEF NewestOK
<1>8. CopiesOK'
  BY <1>2, <1>5 DEF CopiesOK
<1>9. Forward
  BY <1>4, <1>5 DEF Forward
<1> QED
  BY <1>6, <1>7, <1>8, <1>9 DEF VersionsGoal

LEMMA CommitVersions ==
  ASSUME VersionsInv, NEW w \in Workers, Commit(w)
  PROVE  VersionsGoal
<1> USE Parts
<1>1. Stamps' \subseteq Stamps
  BY WorkStamps DEF Work
<1>2. /\ UNCHANGED <<disk, gen, main, saved>> /\ worker[w] = "busy" /\ task[w].gen = gen
      /\ cache' = task[w].cfg /\ light' = task[w].cfg
  BY DEF Commit, At, Commits, Newest
<1>3. task[w] # NoTask /\ task[w].cfg \in Configs /\ task[w].cfg # None
  BY <1>2, BusyTask, NoneNotConfig
<1> DEFINE v == task[w].cfg.ver
<1>4. <<gen, v>> \in Stamps
  BY <1>2, <1>3 DEF Stamps
<1>5. /\ v \in Nat /\ disk.ver \in Nat
      /\ cache # None => cache.ver \in Nat
  BY <1>3, VersType, BoundAssumption DEF Configs
<1>6. /\ main \in {"idle", "trigger"} /\ v <= disk.ver
      /\ \A q \in Stamps : q[1] = gen => q[2] = v
      /\ cache # None => v >= cache.ver
  BY <1>4 DEF NewestOK, StampsOK
<1>7. saved = None
  BY <1>6 DEF PlaceOK
<1>8. cache'.ver = v /\ light'.ver = v /\ cache' # None /\ light' # None
  BY <1>2, <1>3
<1> HIDE DEF v
<1>9. StampsOK'
  BY <1>1, <1>2 DEF StampsOK
<1>10. NewestOK'
  BY <1>1, <1>2, <1>5, <1>6, <1>8 DEF NewestOK
<1>11. CopiesOK' /\ Forward
  BY <1>2, <1>5, <1>6, <1>7, <1>8 DEF CopiesOK, Forward
<1> QED
  BY <1>9, <1>10, <1>11 DEF VersionsGoal

LEMMA VersionsStep ==
  ASSUME VersionsInv, [Next]_vars
  PROVE  VersionsInv' /\ Forward
<1> USE Parts
<1>1. TypeOK'
  BY NextType
<1>2. ASSUME DiskEdit \/ BeginInvalidate \/ BeginInvalidateLight \/ BeginReload \/ BeginApply
      PROVE  VersionsGoal
  BY <1>1, <1>2, BeginVersions
<1>3. ASSUME DrainHooks \/ Return \/ Exiting \/ UNCHANGED vars PROVE VersionsGoal
  <2>1. UNCHANGED <<tasks, task, disk, gen, cache, light, saved, main>>
    BY <1>3 DEF DrainHooks, Return, Exiting, StorePoolStop, NotifyAll, Join, pool, config, count, vars
  <2> QED
    BY <2>1, SameStamps, FewerStamps
<1>4. ASSUME NEW w \in Workers, Work(w) PROVE VersionsGoal
  <2>1. CASE Adopt(w)
    BY <2>1, AdoptVersions
  <2>2. CASE Commit(w)
    BY <2>2, CommitVersions
  <2>3. CASE ~Adopt(w) /\ ~Commit(w)
    <3>1. UNCHANGED <<disk, gen, cache, light, saved, main>>
      BY <1>4, <2>3 DEF Work, PoolStep, Take, Compute, CheckGen, Superseded, QueueHook, config, count
    <3> QED
      BY <1>4, <3>1, WorkStamps, FewerStamps
  <2> QED
    BY <2>1, <2>2, <2>3
<1>5. VersionsGoal
  BY <1>2, <1>3, <1>4, LockedVersions, SnapshotVersions DEF Next, Main
<1> QED
  BY <1>1, <1>5 DEF VersionsGoal, VersionsInv

LEMMA InitVersions == Init => VersionsInv
<1> SUFFICES ASSUME Init PROVE VersionsInv
  OBVIOUS
<1>1. Stamps = {}
  BY DEF Init, PoolInit, Stamps
<1>2. cache = None /\ light = None /\ saved = None
  BY DEF Init
<1> QED
  BY <1>1, <1>2, InitType DEF VersionsInv, StampsOK, NewestOK, CopiesOK

(* The copy that edits start from and palettes are asked for is never older *)
(* than the one the shell draws from.                                       *)
THEOREM LightNeverOlder == Spec => []LightNotOlder
<1>1. VersionsInv /\ [Next]_vars => VersionsInv'
  BY VersionsStep
<1>2. VersionsInv => LightNotOlder
  BY DEF VersionsInv, CopiesOK, LightNotOlder
<1> QED
  BY InitVersions, <1>1, <1>2, PTL DEF Spec

(* Whatever a worker brings back, and whenever the main thread invalidates, *)
(* reloads or applies meanwhile, the cache never returns to a configuration *)
(* that was written earlier.                                                *)
THEOREM CacheNeverReverts == Spec => NeverReverts
<1>1. VersionsInv /\ [Next]_vars => VersionsInv'
  BY VersionsStep
<1>2. VersionsInv /\ [Next]_vars => [cache # None /\ cache' # None => cache'.ver >= cache.ver]_vars
  BY VersionsStep DEF Forward
<1> QED
  BY InitVersions, <1>1, <1>2, PTL DEF Spec, NeverReverts


-----------------------------------------------------------------------------
(* The palette a worker's engine has given is one of its task's wallpaper.  *)
OwnFits(c) == c.pal[Engine(c)] \in {None, Torn} \/ c.pal[Engine(c)].wall = c.wall

Brought(w) ==
  /\ worker[w] # "busy" => stage[w] = "compute"
  /\ stage[w] # "compute" => OwnFits(task[w].cfg)

BroughtInv == TypeOK /\ \A w \in Workers : Brought(w)

LEMMA ComputedFits ==
  ASSUME NEW c \in Configs, NEW race, NEW got \in Computed(c, race)
  PROVE  OwnFits(got)
<1>1. PICK result \in Results(c, race) : got = [c EXCEPT !.pal[Engine(c)] = result]
  BY DEF Computed
<1>2. result \in {None, Torn} \/ result.wall = c.wall
  BY DEF Results
<1>3. got.on = c.on /\ got.wall = c.wall
  BY <1>1 DEF Configs
<1>4. Engine(got) = Engine(c)
  BY <1>3 DEF Engine
<1>5. got.pal[Engine(c)] = result
  <2>1. Engine(c) \in Engines /\ c.pal \in [Engines -> Pals]
    BY DEF Engine, Engines, Configs, Pals
  <2>2. got.pal = [c.pal EXCEPT ![Engine(c)] = result]
    BY <1>1 DEF Configs
  <2> QED
    BY <2>1, <2>2
<1> QED
  BY <1>2, <1>3, <1>4, <1>5 DEF OwnFits

(* A thread that is busy is left alone by all others.                       *)
Alone(w) == /\ stage'[w] = stage[w] /\ task'[w] = task[w]
            /\ worker'[w] = "busy" <=> worker[w] = "busy"

LEMMA AloneBrought ==
  ASSUME BroughtInv, NEW w \in Workers, Alone(w)
  PROVE  Brought(w)'
BY DEF BroughtInv, Brought, Alone

LEMMA OthersAlone ==
  ASSUME TypeOK, NEW w \in Workers, Work(w), NEW v \in Workers, v # w
  PROVE  Alone(v)
<1>1. QueueOK /\ ThreadsOK
  BY TypeParts
<1> QED
  BY <1>1 DEF Work, PoolStep, Block, Wait, Leave, Take, TakeTask, Compute, CheckGen,
     Adopt, Commit, Superseded, QueueHook, Ends, EndTask, TaskDropped, QueueOK, ThreadsOK,
     pool, work, Alone

LEMMA EnqueueAlone ==
  ASSUME ThreadsOK, NEW t, Enqueue(t), UNCHANGED stage, NEW w \in Workers
  PROVE  Alone(w)
<1>1. \/ worker' = worker
      \/ \E v \in Workers : worker[v] = "waiting"
                            /\ worker' = [worker EXCEPT ![v] = "looking"]
  BY DEF Enqueue, NotifyOne
<1>2. task' = task
  BY DEF Enqueue
<1> QED
  BY <1>1, <1>2 DEF ThreadsOK, Alone

LEMMA MainAlone ==
  ASSUME TypeOK, DiskEdit \/ Main \/ Exiting \/ UNCHANGED vars, NEW w \in Workers
  PROVE  Alone(w)
<1>1. ThreadsOK
  BY TypeParts
<1>2. UNCHANGED stage
  BY DEF DiskEdit, Main, Exiting, Locked, vars, work, BeginInvalidate,
     BeginInvalidateLight, BeginReload, BeginApply, Begin, Invalidate, InvalidateLight,
     Reload, ReloadSkip, ApplyFromMemory, TriggerAsync, SnapshotFromLight,
     SnapshotFromDisk, SnapshotSkip, DrainHooks, Return
<1>3. CASE UNCHANGED <<worker, task>>
  BY <1>2, <1>3 DEF Alone
<1>4. ASSUME NEW t, Enqueue(t) PROVE Alone(w)
  BY <1>1, <1>2, <1>4, EnqueueAlone
<1>5. CASE NotifyAll
  <2>1. task' = task /\ worker' = [v \in Workers |-> IF worker[v] = "waiting" THEN "looking"
                                                                         ELSE worker[v]]
    BY <1>5 DEF NotifyAll
  <2> QED
    BY <1>1, <1>2, <2>1 DEF ThreadsOK, Alone
<1>6. \/ UNCHANGED <<worker, task>> \/ NotifyAll
      \/ \E t : Enqueue(t)
  BY Zenon DEF DiskEdit, Main, Exiting, Locked, vars, pool, BeginInvalidate,
     BeginInvalidateLight, BeginReload, BeginApply, Begin, Invalidate, InvalidateLight,
     Reload, ReloadSkip, ApplyFromMemory, TriggerAsync, EnqueueNew, SnapshotFromLight,
     SnapshotFromDisk, SnapshotSkip, DrainHooks, Return, StorePoolStop, Join
<1> QED
  BY <1>3, <1>4, <1>5, <1>6

LEMMA WorkBrought ==
  ASSUME BroughtInv, NEW w \in Workers, Work(w)
  PROVE  Brought(w)'
<1>1. QueueOK /\ ThreadsOK /\ Brought(w)
  BY TypeParts DEF BroughtInv
<1>2. CASE Compute(w)
  <2>1. PICK c \in Computed(task[w].cfg, raced) : task' = [task EXCEPT ![w].cfg = c]
    BY <1>2 DEF Compute
  <2>2. task[w] \in Tasks /\ task[w].cfg \in Configs /\ worker'[w] = "busy"
    BY <1>1, <1>2, BusyTask DEF Compute, At
  <2>3. task'[w] = [task[w] EXCEPT !.cfg = c]
    BY <1>1, <2>1 DEF QueueOK
  <2>4. task'[w].cfg = c
    BY <2>2, <2>3 DEF Tasks
  <2>5. OwnFits(c)
    BY <2>1, <2>2, ComputedFits
  <2> QED
    BY <2>2, <2>4, <2>5 DEF Brought, OwnFits, Engine
<1>3. CASE Ends(w)
  <2>1. stage'[w] = "compute"
    BY <1>1, <1>3 DEF Ends, ThreadsOK
  <2> QED
    BY <2>1 DEF Brought
<1>4. CASE Take(w)
  <2>1. worker[w] = "looking" /\ stage' = stage
    BY <1>4 DEF Take, TakeTask
  <2> QED
    BY <1>1, <2>1 DEF Brought
<1>5. CASE PoolStep(w)
  <2>1. worker[w] \in {"looking", "blocking"} /\ UNCHANGED stage
    BY <1>5 DEF PoolStep, Block, Wait, Leave, work
  <2> QED
    BY <1>1, <2>1 DEF Brought
<1>6. CASE CheckGen(w) \/ Commit(w)
  <2>1. UNCHANGED <<worker, task>> /\ worker[w] = "busy" /\ stage[w] # "compute"
    BY <1>6 DEF CheckGen, Commit, At, pool
  <2> QED
    BY <1>1, <2>1 DEF Brought
<1> QED
  BY <1>2, <1>3, <1>4, <1>5, <1>6 DEF Work, Adopt, Superseded, QueueHook

LEMMA BroughtStep == BroughtInv /\ [Next]_vars => BroughtInv'
<1> SUFFICES ASSUME BroughtInv, [Next]_vars PROVE BroughtInv'
  OBVIOUS
<1>1. TypeOK /\ TypeOK'
  BY NextType DEF BroughtInv
<1>2. ASSUME NEW v \in Workers PROVE Brought(v)'
  <2>1. CASE DiskEdit \/ Main \/ Exiting \/ UNCHANGED vars
    BY <1>1, <2>1, MainAlone, AloneBrought
  <2>2. ASSUME NEW w \in Workers, Work(w) PROVE Brought(v)'
    <3>1. CASE v = w
      BY <2>2, <3>1, WorkBrought
    <3>2. CASE v # w
      BY <1>1, <2>2, <3>2, OthersAlone, AloneBrought
    <3> QED
      BY <3>1, <3>2
  <2> QED
    BY <2>1, <2>2 DEF Next
<1> QED
  BY <1>1, <1>2 DEF BroughtInv

LEMMA AdoptStep ==
  ASSUME BroughtInv, [Next]_vars, NEW w \in Workers,
         stage[w] = "adopt", worker[w] = "busy", worker'[w] # "busy", cache' # cache,
         task[w].cfg.pal[Engine(task[w].cfg)] \in Palettes
  PROVE  cache'.pal[Engine(task[w].cfg)].wall = cache'.wall
<1>1. TypeOK /\ ThreadsOK /\ ConfigOK /\ Brought(w)
  BY TypeParts DEF BroughtInv
<1>2. Work(w)
  <2>1. CASE DiskEdit \/ Main \/ Exiting \/ UNCHANGED vars
    BY <1>1, <2>1, MainAlone DEF Alone
  <2>2. ASSUME NEW v \in Workers, Work(v), v # w PROVE FALSE
    BY <1>1, <2>2, OthersAlone DEF Alone
  <2> QED
    BY <2>1, <2>2 DEF Next
<1>3. Adopt(w)
  BY <1>2 DEF Work, PoolStep, Block, Wait, Leave, Take, TakeTask, Compute, CheckGen, Commit,
              Superseded, QueueHook, At
<1> DEFINE c == task[w].cfg
           e == Engine(c)
<1>4. cache # None /\ cache' = CarryFrom(cache, c) /\ cache.wall = c.wall
  BY <1>3 DEF Adopt, Fits
<1>5. cache \in Configs /\ c \in Configs /\ c # None /\ e \in Engines
  <2>1. QueueOK
    BY TypeParts DEF BroughtInv
  <2>2. c \in Configs
    BY <1>1, <2>1, BusyTask
  <2> QED
    BY <1>1, <1>4, <2>2, NoneNotConfig DEF ConfigOK, MaybeConfig, Engine, Engines
<1>6. c.pal[e] # None /\ c.pal[e] # Torn
  BY NoneAssumption DEF Palettes
<1>7. OwnFits(c)
  BY <1>1 DEF Brought
<1>8. c.pal[e].wall = c.wall
  BY <1>6, <1>7 DEF OwnFits
<1> HIDE DEF c, e
<1>9. cache'.wall = c.wall /\ cache'.pal[e] = c.pal[e]
  <2>1. cache' = [cache EXCEPT !.pal = [d \in Engines |-> IF c.pal[d] = None THEN cache.pal[d]
                                                                          ELSE c.pal[d]]]
    BY <1>4, <1>5, Zenon DEF CarryFrom
  <2> QED
    BY <1>4, <1>5, <1>6, <2>1 DEF Configs
<1> QED
  BY <1>8, <1>9 DEF c, e

(* However often the wallpaper has changed while an engine computed a       *)
(* palette, the palette goes only into a configuration with the wallpaper   *)
(* it was computed for, unless two threads raced in the engine.  The other  *)
(* engine's palette, which its task has carried along, may be of any.       *)
THEOREM AdoptedAlwaysFits == Spec => AdoptedFits
<1>1. Init => BroughtInv
  BY InitType DEF Init, PoolInit, BroughtInv, Brought
<1>2. BroughtInv /\ [Next]_vars =>
        [\A w \in Workers :
           stage[w] = "adopt" /\ worker[w] = "busy" /\ worker'[w] # "busy"
             /\ cache' # cache =>
             LET e == Engine(task[w].cfg)
             IN  task[w].cfg.pal[e] \in Palettes => cache'.pal[e].wall = cache'.wall]_vars
  BY AdoptStep
<1> QED
  BY <1>1, <1>2, BroughtStep, PTL DEF Spec, AdoptedFits


=============================================================================
