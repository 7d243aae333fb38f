# Event Horizon Shell: TLA+ models and proofs

Event Horizon Shell is a Wayland desktop environment. One supervisor process
starts the parts of the desktop (desktop, dock, taskbar, panel, stage,
wallpaper, notifications, polkit agent) as children, runs the IPC bus they talk
over, and mirrors the compositor's window list onto it. Each child is a
single-threaded poll loop with a few helper threads and D-Bus services.

This directory models the parts of that program whose correctness depends on
the order in which things happen. TLC checks small instances and TLAPS proves
the main invariants for every instance.

Paths below are relative to the repository's `src/`. `PROJECT.json` maps every
definition to the lines it stands for, and lists the runs, the hazards, the
disagreements between code and comments, and the theorems.

    tlc -config supervisor.cfg MCSupervisor            # one run
    tlapm SupervisorProofs.tla                         # the proofs of a module

## 1. Inventory

### Modelled components

**Session supervisor** (`bootstrap/session/detail/unified_shell_session.cpp`).
*State:* a pid field per child, a restart stamp and a respawn deadline for each
child that is respawned, `running_`, the applied state of the dock and panel
switches. *Operations:* spawn at startup; reap from a SIGCHLD `signalfd`;
respawn, defer or leave down; retry deadlines that have been reached; follow the
settings; tear down. *Interactions:* the kernel (signals, `waitpid`,
`posix_spawn`), the settings file (inotify), the logout command from the bus.
*Hard:* SIGCHLD coalesces, three paths may start the same child (signal,
deadline, switch), spawns fail, a logout may come while respawns are pending.
*Correct means:* no child is started twice, none is forgotten, none starts while
it is switched off or the session ends, and a crash loop is throttled.

**IPC bus** (`services/ipc/`). *State:* in the server, parked and framed
descriptors, input and output buffer and POLLOUT interest of each, and the
subscriptions by topic; in the client, the read buffer, the next id and the
pending reply. *Operations:* accept, choose a dialect, decode and dispatch
frames, publish from any thread, flush, expire, close, stop; on the client
connect, blocking and asynchronous calls, publish, read, disconnect. *Hard:*
one round of `ppoll` handles old `revents` while descriptor numbers are closed
and reused; partial writes; events arrive among the answers of a blocking call;
a late answer meets the next call. *Correct means:* publish/subscribe delivers
to exactly the subscribers, once and in order; each call gets its own answer;
nothing leaks or is inherited by the next connection.

**Window list** (`wl/toplevel/foreign_toplevels.cpp`, `services/windows/`).
*State:* the tracker's list, the service's snapshot with key-to-id map and next
id, each client's list and its buffer of events seen while it synchronises.
*Interactions:* the compositor's events drive the tracker; the bridge copies it
into the service; the service publishes deltas over the bus. *Hard:* keys are
handle addresses, which the allocator reuses; a client subscribes to three
topics and then lists, one call after the other, while windows change.
*Correct means:* snapshot plus deltas always add up, and an id never comes to
mean another window.

**Polkit agent** (`services/polkit/`). *State:* the service's fields under one
mutex, the C listener's session and task, the dialog's field and shown cookie,
the cancel threads, the reference count of every session. *Interactions:*
polkitd and PAM call in through GLib; the dialog calls the service from the
display's input; a detached thread calls the polkit library and so runs the
listener's completion on its own stack. *Hard:* two threads complete the same
session; a state change has to reach a dialog that holds an exclusive keyboard
grab; what was typed must not go to another request. *Correct means:* every
reference has one owner, a request has its dialog unless the compositor refuses
it, an answer goes to the request it was typed for, and a cancelled dialog goes
away.

**Configuration, palette worker and worker pool**
(`configuration/shell_config.cpp`, `bootstrap/thread/`). *State:* two cached
copies of the configuration (`g_cache`, and `g_cache_no_matugen` without a
computed palette), the load generation, the pool's queue and workers, the queue
of callbacks for the main thread. *Operations:* invalidate, reload, apply an
edit, snapshot; on a worker, compute a palette and commit or adopt it.
*Interactions:* every process of the desktop reads the configuration through
this cache, and a settings window or an editor writes the files. *Hard:* a
palette takes long to compute, and what it was computed for may be gone when it
is ready; the generation is read outside the mutex. *Correct means:* an older
configuration never comes back, a palette fits the wallpaper it is shown with,
and every task ends and is announced.

**Notifications and toasts** (`desktop_shell/notifications/`,
`services/notifications/`, `notifications/standalone/`). *State:* the list and
its ids, quiet mode, the expiry timer, the cards, the queued redrawing.
*Operations:* notify, close, sweep, push over the bus, apply the configuration,
click. *Interactions:* a D-Bus thread and the main loop share the hub. *Hard:*
one thread closes what the other is about to close; the timer follows a list
that two threads change. *Correct means:* an application is told once that its
notification is gone, the toasts show the list as it is, and a countdown ends.

### Components not modelled

Every component is listed in `PROJECT.json` with the reason. In three groups:

* *Planned* (section 2): the event loop.
* *Later candidates*, with state of their own that several actors touch: the
  settings application's single instance, the media player mirror with its
  download thread, the keyring, the icon cache, the capture streams' buffers,
  the updater. The session lock checks credentials and is left to a review of
  its own.
* *Left out*: painting, layout, animation and hit testing (dock, taskbar,
  stage, control center, search, toolkit); adapters to a protocol whose other
  half is outside the repository (compositor backends, audio, bluetooth, tray,
  disks); straight-line programs (entry, screenshots, `eh-ipc`).

The last group is most of the repository by size: the map covers a small share
of its lines because most of them draw, lay out or translate, and keep no state
that two actors share.

### Hazards

`PROJECT.json` lists what is hard to test in this code, each hazard at its line
with the properties that would catch it. Those without a property say why: the
model has the step but nothing in the repository says what should happen, or
they concern data the models leave out (descriptors carried in frames, the
length of an unread queue, what a reader of a torn object sees).

## 2. Plan

The order puts first what the rest of the desktop stands on.

| step | module | composes / refines | state |
|---|---|---|---|
| 1 | `Supervisor`, `RestartThrottle` | `Supervisor` implements `RestartThrottle` | modelled, checked, proved, refinement proved |
| 2 | `IpcBus`, `PubSub` | `IpcBus` implements `PubSub` | modelled, checked, all safety proved, refinement proved |
| 3 | `ToplevelMirror` | tracker, bridge, service and client over what `PubSub` promises | modelled, checked, proved |
| 4 | `PolkitAgent` | listener, service, dialog and cancel threads in one module | modelled, checked, proved |
| 5 | `WorkerPool` | worker pool and `callLater` queue, with the shutdown; extended by `ConfigCache` | modelled, checked |
| 6 | `ConfigCache` | both caches, load generation and palette worker on the pool | modelled, checked, proved |
| 7 | `NotificationHub` | store, D-Bus thread, loop and toasts | modelled, checked, proved |
| 8 | `EventLoop` | prepare-read and poll over several displays | planned |
| 9 | settings single instance, media players, keyring | | candidates |

No safety property that a run checks is left without a theorem. What is left to
prove depends on what is modelled next: the event loop, and the candidates.

Conventions: constants carry named assumptions; one action per operation of the
code or per step of it that another actor can get in between; properties are at
the end of each module; `MC*` modules hold TLC's symmetry sets and the
statements only one configuration checks. No module declares a RECURSIVE
operator.

## 3. `Supervisor` and `RestartThrottle`

| model | code |
|---|---|
| `proc[c]` | `<c>Pid_` with the process it names: `"none"` is -1, then alive or zombie |
| `age[c]`, `due[c]` | `<c>LastRestartMs_` and `<c>RespawnAtMs_`, relative to now; `NoDeadline` is 0 |
| `sigPending` | SIGCHLD pending on the `signalfd`: a standard signal, so one at most |
| `want`, `applied` | the settings `dock.show_dock`, `panel.enabled`, and `*EnabledApplied_` |
| `pc`, `todo` | the position in one turn of the loop, and the children the pass over them has yet to check |
| `orphans` | history: pid fields overwritten while they held a child |

One turn of the loop is `Poll` (with a reload of the settings), the SIGCHLD
handler (`ReadSiginfo`, then one `Reap*` or `NothingToReap` per child in the
code's order; the `continue` of a branch gives up the pass), `IpcHandlers`, and
the idle flush: `RetryDeferredRespawns` and the two `Sync*` operations. `Exit`,
`Tick`, `OtherChildExit` and `Interrupted` may come between any two steps.

`RestartThrottle` is the promise: a child starts only while it is down, never
after the session begins to end, and no sooner than a cooldown after its last
restart unless the user has just switched it on. Startup spawns take no stamp,
in the code as in the model.

**Runs.**

* `supervisor` (wallpaper, dock and polkit, cooldown of 2 ticks, spawns may fail;
  36,086 states): the invariants, what may never happen, the implementation of
  `RestartThrottle`, and the liveness: a child is forgotten only after a failed
  spawn that arms nothing, deadlines are honoured, the first of the respawned
  children comes back, and a switched-off dock goes down.
* `stage_deadline` (`supervisor_stage_deadline.cfg`): finds that the panel's
  respawn clears the stage's deadline (line 342), which strands the stage.
  Panel and stage, cooldown 1.
* `exit_missed` (`supervisor_exit_missed.cfg`): finds that a branch that ends
  the pass leaves another dead child unreaped after a coalesced signal,
  against the comment at line 729 that no exit is missed.

*Bounds.* The kinds of child that the code treats apart in one instance (only
reaped, switchable, retried on failure) with every pair of interleaved exits. A
cooldown of two ticks has an inside, an end and a beyond. Nothing else is
bounded: the state is finite.

*Fairness.* `WF(Loop)`: the loop's timeout is capped, so it takes its next step.
`WF(Tick)`: the clock. Weak fairness of the exit of a child that was sent
SIGTERM, and of no other exit: dock and panel run `PollMuxLoop`, which
unblocks SIGTERM in `ppoll` even when the mask they inherited blocks it
(`poll_mux.cpp:236-239`), and leave the loop on it. Their cleanup is taken to
end while the supervisor lives; `parent_death_guard.hpp:36-37` knows of stalls
only after it has vanished.
`[]<>` the handler is left: it reads again only if a new child has died, and a
child that it respawned and that dies again is inside its cooldown and is
deferred.

*Proved* (`SupervisorProofs`). `IInv` is `TypeOK /\ DeferredMeansDown /\
DeadlineMatchesStamp /\ NoOrphan`. `NoOrphan` alone is not inductive: the
deadline and the switch paths start a child without looking at its pid field in
every branch, and what keeps them apart is that a pending deadline implies an
empty field. From `IInv` follow type correctness, its three other conjuncts,
`NothingStartsAfterLogout`, `DisabledStaysDown`, and `ImplementsThrottle`, where
`DeadlineMatchesStamp` shows that a deadline reached is a cooldown gone by.
`NoUnsyncedChild` has a strengthening of its own, `AppliedInv`: a child that is
neither applied nor sent its SIGTERM is wanted, and its switch is still ahead.
`NoChildForgotten` follows step by step from `IInv`: a deadline that is reached is
for a child that is down, so the retry always attempts it, and every other branch
that empties a pid field arms a deadline or starts the child. It is stated
without the stage, whose deadline the panel's respawn clears; the run
`stage_deadline` shows why. The liveness is only model-checked.

*Left out.* The inside of teardown: it is one step that leaves no child it
holds, the SIGTERM, 500 ms wait and SIGKILL are not separate. The pid files for
the next session, and the environment lock around fork.

## 4. `IpcBus` and `PubSub`

A connection (`Conns`) is one client from `connect()` to `disconnect()`; a
descriptor (`Fds`) is the server's number for it, which the kernel hands out
again. The life of a frame is `up`, `srvBuf`, `out`, `down`, `cliBuf`: the two
kernel buffers and the buffers of the two programs.

| model | code |
|---|---|
| `pending`, `clients`, `subscriptions` | `pending_`, the keys of `clients_`, `subscriptions_` |
| `srvBuf`, `out`, `wantPollOut` | `rbuf`, `out` and `wantPollOut` of a `Client` |
| `ready`, `cur`, `rev`, `pc`, `accepting` | the revents of the round, the one `on_fd_ready` has in hand and how far it is |
| `waiting`, `nextId`, `cliBuf` | the blocking call of an `IpcClient`, `nextId_`, `rbuf_` |
| `unsent`, `swallowed` | history: ids of which nothing was sent; a frame has been taken for the rest of one cut short |

`on_fd_ready` is split where `busMtx_` is released, so `Publish` (another
thread, or a handler of another descriptor) gets in between the expiry, the
choice of dialect, the receive, every decoded frame and the flush. A frame that
is received in part has not arrived, and one the server has sent in part is
still queued. Handlers of requests may publish one event before they answer.

A client's write may fail (`write_all`, client.cpp:66-81). The id is taken before
it and the connection stays, so a call either leaves nothing (`SendNothing`) or a
frame that is not `whole` (`SendPart`), and returns. The server waits for the rest
(`FrameWaits`) and takes what the client sends next for it (`FrameCompletes`):
what it then decodes is the frame that was cut, with another body, a frame it
ignores (`HandleUnknown`) or a length it rejects (`HandleCorrupt`), and the frames
behind it are gone, or the stream ends in the middle of one. That the swallowed
bytes spell the header of another valid frame, with an id of their own, or the
name of a topic is left out: what follows a cut begins with the magic byte, which
is none of these.

`PubSub` has no sockets: `member`, `owed`, `gone`. An event is owed to exactly
the connections subscribed when it is published, is delivered oldest first, and
a connection that is cut may lose the newest events it is owed and gets no more.

**Runs.**

* `ipc_safety` (two connections, two descriptors, one topic, two events, one
  call each, socket buffer of one frame; 2,248,712 states under symmetry): the
  descriptor bookkeeping, clean reuse, the POLLOUT interest and the
  implementation of `PubSub`, with frames cut short among the events.
* `ipc_calls` (one client, three calls, one event; 307,930 states): calls and
  answers are under way in order and without a gap but for the ids in `unsent`,
  an answer is still to come while a call waits, no call ends on another's answer
  though earlier ones timed out, queued output leaves and calls return. The run
  has one connection: its `OutputDrains` says nothing of what other clients do.
  After a cut frame the three properties about calls say less, and must: the code
  does not resynchronise. `RepliesInOrder` then keeps the order but no longer
  excludes a gap, `AnswerStillComing` is void once `swallowed` is set, and
  `CallsReturn` leaves out a call behind a cut frame, which ends only at its own
  timeout.
* `ipc_stale_event`: finds that an event read together with the answer a call
  waits for stays in `rbuf_` with nothing to wake the client.

*Bounds.* Two connections on two descriptors reach reuse within one round, two
events reach a reordering, three calls reach an answer two calls late, and a
one-frame buffer makes every second frame a partial write. `MaxEvents` and
`MaxCalls` bound the calls of the environment, not the server.

*Fairness.* `WF(Loop)` and weak fairness of each client's reads: both sides run
poll loops. None for calls, timeouts, disconnects or the stop, so `CallsReturn`
does not rest on the timeout of a call.

*Proved* (`IpcBusProofs`). `IInv` adds to the three invariants what makes them
inductive: `LoopShape` (the descriptor in hand is a framed client exactly where
the code assumes it), `PeersOpened` and `DownBounded` (a flush never writes
beyond the socket buffer). It covers any number of connections, descriptors,
topics, calls and events.

*Proved* (`IpcDeliveryProofs`), from `IInv` and for the same instances:
`RepliesInOrder`, `AnswerStillComing`, `OnlyOwnAnswer` and `ImplementsPubSub`.
These are about chains of queues. `Back(k)` is all that is on its way to a
client (its buffer, the socket, the server's output), `Forth(k)` all that is on
its way to the server, and the argument has three stages.

1. *Queues* (the `...Paths` lemmas). Each action does one of seven things to the
   two queues of a connection: leaves them, adds a frame behind `Forth`, takes
   frames off the front of `Back`, queues frames behind `Back`, moves the frame in
   hand from the front of `Forth` to an answer behind `Back` or drops it, takes it
   for another together with what is behind it, or cuts both.
2. *Moves* (`Moves`). Every step of the system is, for every connection, one of
   the moves `Rests`, `Tells`, `Places`, `Skips`, `Hears`, `Gets`, `Answered`,
   `Ignores`, `Misreads`, `IsCut`, `Finishes`, `Opens`, `Leaves`, which add what
   becomes of `mode`, `nextId`, `waiting` and the history. From here on no action
   is looked at again for the calls.
3. *Invariants.* `Traffic`: what may travel each way in each mode, and only framed
   connections are subscribed. `CallsNumbered`: the frames with an id, read from
   the client's buffer to the server's, have increasing ids below `nextId`, all
   the ids from the first of them on but those in `unsent` while the connection
   lives and nothing was swallowed; and a waiting call is the last of them, or its
   answer is. `RepliesInOrder` alone is not inductive: after a cut the line only
   increases, and the answer that ends a call is its own because the call was the
   last. `Delivery` is `IInv /\ Traffic /\ CallsNumbered`.

For `ImplementsPubSub`, a step of the client or the server moves `owed` as its
move says (`Account`), and `Tidy` says of every action but the two that handle a
subscription that a descriptor changes its peer only when it is closed or
accepted, and loses its subscriptions only when it is closed. So `member` and
`gone` change together, in a `Cut`, or not at all. Only the liveness
(`OutputDrains`, `CallsReturn`) stays with TLC.

*Left out.* Descriptors passed in frames; registration of handlers, which is
over before the loop starts; a second topic (topics do not interact).

## 5. `ToplevelMirror`

The module composes the tracker, `ToplevelBridge`, `ToplevelService` and
`ToplevelClient`, and takes the bus between them as what section 4 shows it to
be: per connection, one queue in which answers and subscribed events keep their
order. Every record carries a `serial` that no code reads; it tells which window
an id stands for. Titles and flags are one field, since both only make an update.

`OnToplevel`, `OnDone` and `OnClosed` each run the whole chain to the bus, as
the code does in one call: the bridge reads the tracker and `set_snapshot`
computes ids and deltas and publishes them. `OnAppId` and `OnTitle` write the
tracker's list at once, and another window's `done` may publish the change.
`ToplevelClient::start` is `Start`, three rounds of `PumpAck` and `PumpListing`,
with events dropped before it has its handler and buffered while it lists.

**Runs.**

* `toplevel_mirror` (two handles, two windows, two changes, one client;
  258,525 states under symmetry): `MirrorExact`, that what a client holds with
  what is on its way is the published list, in every phase of its start; and
  `IdsNeverReused`. The model was also run once to the end with three windows on
  two handles (4.6 million states) and with three changes, with no error.

*Bounds.* One client, because clients share only the server, which does not
react to them. Two windows on two handles reach a reused handle. No fairness is
assumed: the properties are state and action properties.

*Proved* (`ToplevelProofs`), for any number of windows, handles and clients: type
correctness, `IdsNeverReused` and `MirrorExact`, so every property of the run.

`IdsNeverReused` rests on `MirrorInv`: the snapshot names the tracker's windows
in the tracker's order and no handle occurs twice, since a closing is synced in
the same call; and every id is below the next one and given once (`Numbered`). So
a key that is found again is the same window's, and every other window gets an
id that is at least the next one.

`MirrorExact` is proved id by id: `At(l, i)` is what a list holds for the id `i`,
and an event touches only its own (`AppliedAt`, `ReplayAt`). `Tells(D, S, T)` says
what a batch of deltas is: each event is a creation of something that was not
there, an update of something that was, or a closing of what was, it carries
what is there after it, and every id that changed has an event. `TellsStep` shows
that `set_snapshot` publishes such a batch. Then:

* a mirror of the old snapshot becomes one of the new (`TellsReplayed`);
* events that do no harm to the old snapshot, being older than it, and then the
  batch, do no harm to the new one (`OldNewsHarmless`). This is what makes it
  right to buffer events before the listing is known and to replay them on it.

`MirrorExact` says nothing before a listing is on its way, so it is not
inductive. `Channel(c)` is: it says for each phase of `start()` (`Silent`, `Asking`,
`Granted`, `Syncing`, `Listed`, `Following`) what the client is subscribed to, what
is on its way, and that the events on their way do no harm as soon as all three
topics are subscribed. Each action takes a channel from one phase to the next
(the `...Turn` lemmas).

*Left out.* `stop()` and `clear()`, windows older than the tracker, the actions
on windows, the growth of the tracker's list (`prune_closed` has no caller).

## 6. `PolkitAgent`

The main thread alternates between input (`Type`, `Submit`, `Cancel`) and one
`dispatch_glib` (`BeginDispatch`, any number of callbacks, `EndDispatch`), after
which the change hook shows or hides the dialog. `show()` is two steps, since
its `wl_display_roundtrip` lets cancel threads run in between, and may end after
the first: without an output there is no surface (`ShowFails`,
`dialog.cpp:573-577`), `visible` is set, and the cookie and the field stay as they
were. The compositor may close the surface at any input and in `show()`'s own
round trip (`Closed`, lines 509-517). Each use of the service's mutex is one step. A cancel thread calls
`polkit_agent_session_cancel`, which completes the session on that thread: first
`end_prompt` (`WorkerEndsPrompt`), then the listener's fields
(`WorkerEndsSession`), then the thread's own reference (`WorkerReturns`).

| model | code |
|---|---|
| `state`, `prompt`, `echo`, `active`, `cookie`, `cancelArmed`, `pendingEnd`, `changed` | the fields of `PolkitAuthService::Impl` |
| `session` | `active_session` of the listener, with its task |
| `visible`, `shown`, `field` | the dialog; `field` holds the authentications its text was typed for |
| `surf` | the dialog has its layer surface |
| `denied` | history: the compositor refused the surface of the latest `show()`, or has closed it since |
| `helper`, `asks` | external: the PAM helper of a session, its prompts so far |
| `refs` | the GObject references of a session held by this program |

A session and its cookie are named by the authentication; texts are left out.
`polkit_agent_session_cancel` and the helper's end emit `completed` once between
them, as the library guards it. The listener's fields are written by two threads
without a lock; the model takes them in the steps named above.

**Runs.**

* `polkit_agent` (three authentications, two prompts each; 375,079 states):
  the invariants, `ResponseToItsOwnPrompt` and the liveness `CancelHides`.
  `PromptShown` has one exception, which is the code's: a request whose dialog the
  compositor refused or closed waits without one until the next change of the
  service, which asks for a surface anew. `ResponseToItsOwnPrompt` tells
  authentications apart, not two prompts of one.
* `polkit_stuck_dialog`: finds that an end still pending from one authentication
  is applied to the next one's prompt, without a notification, so that its
  dialog stays up and takes no input.

*Bounds.* Three authentications: one being cancelled on a thread, one in
progress, one about to start. Two prompts: a failed attempt and its repeat.

*Fairness.* `WF(Loop)` alone. `poll_mux.cpp:228-230` caps each wait at 1000 ms
and line 294 runs the dispatch after each one. The user, polkitd, PAM and the
cancel threads may stop for ever; that is the point of `CancelHides`.

*Proved* (`PolkitProofs`), for any number of authentications and prompts: type
correctness, `RefsAccounted`, `SessionIsListeners`, `PromptShown` and
`ResponseToItsOwnPrompt`. `RefsAccounted` is not inductive by itself: a release
is right only if the one who releases still owns the reference.
`SessionsInOrder` says so: a session at work is the listener's, its cancel thread
outlives it, and a thread that ends it finds it still in the listener's field.
`PromptLive` and `DialogFollows` carry a change from the callback that made it
through the dispatch to the dialog. `CancelHides` is only model-checked.

*Left out.* Registration and its wait, `stop()`, pointer hits, an agent without
layer shell; the lock GLib holds while a `GCancellable` signal is emitted, a
hazard of its own in `PROJECT.json`.

## 7. `WorkerPool` and `ConfigCache`

`WorkerPool` is the queue with its mutex and condition variable, the destructor
of the process-wide pool, and the `callLater` queue. A worker between its check
of the queue and its wait is `"blocking"`: it holds the mutex, which `Enqueue`
needs and the destructor's store of `stop` does not take. `ConfigCache` extends
it with what a task does.

| model | code |
|---|---|
| `cache`, `light`, `gen` | `g_cache`, `g_cache_no_matugen`, `g_load_gen` |
| `disk` | the files, with the order of their writing as `ver` |
| `pal`, `on` of a configuration | the palette of each engine, with its has-flag; the engines the files turn on |
| `news` | history: the newest generation is awaited, its configuration is committed, or the hook has run after that |
| `main`, `saved` | the operation the main thread has counted a generation for, and the argument of `apply_from_memory` |
| `stage` | where each worker is in `async_matugen_update` |
| `raced` | two threads have been in a palette engine at once |

An operation counts its generation before it takes the mutex, so it is two
steps and a worker's check or commit may fall between. A task computes, checks
the generation, and then commits, or, when it was superseded, adopts its palette
into what is there now, and queues the hook. A palette is the wallpaper and mode
it was computed for. A configuration holds one of each engine: a computation
resets and sets only that of the engine it is routed to, so a palette of the other
engine that came with the task's configuration survives it, and goes with it into
the commit or the adoption. The memo of an engine is a plain static: once two
threads were in it, a result may be `Torn`.

**Run.** `config_cache` (two workers, two wallpapers, theming off or by either
engine, one edit, two generations; 772,008 states): all properties, with the
process free to exit at any time. `AdoptedFits` speaks of the palette the
superseded task itself computed, that of its own engine. `NewestIsAnnounced`
follows a task to its end, and the task of the newest generation through its
commit to the hook that the main thread runs.

*Bounds.* Two workers, as the code has at least two, hold an old and a new task
at once. With one edit and two generations a reload or an edit lands in every
stage of a task, and an edit may change the engine as well. Files that turn on
both engines, which ask for two tasks, are left to the theorems. `MaxEdits` and
`MaxGen` bound the environment's operations.

*Fairness.* Each worker takes its steps, the main thread ends the operation it
has begun, and its loop drains the callbacks. None for edits, for operations to
begin, or for the exit. The lost wake-up of the destructor is a state the model
reaches; nothing in the repository says the exit must end, so no property does.

*Proved* (`ConfigCacheProofs`), for any number of workers, wallpapers, edits and
generations: type correctness, `LightNotOlder`, `NeverReverts` and `AdoptedFits`.
`NeverReverts` is not inductive: a commit is right because of what no other task
and no operation can have done. `VersionsInv` says it: no task of the newest
generation exists while the main thread is inside an operation, tasks of one
generation have one version, and that version is at least the cache's.
`BroughtInv` keeps, for each worker, that the palette of its task's engine was
computed from its own task. `NewestIsAnnounced` is only model-checked.

*Left out.* The drag preview, parsing and writing files, the notification rules,
`shell_config_restore_matugen_palette`, which has no caller. `AdoptedFits` speaks
of the wallpaper alone: the test at line 1116 compares only that, so a palette of
another mode may be adopted over a newer one. Nor does it speak of the other
engine's palette, for which nothing in the code ensures a wallpaper (section 10).

## 8. `NotificationHub`

| model | code |
|---|---|
| `notes`, `nextId`, `quiet` | `notifications_`, `next_id_`, `do_not_disturb_` |
| `timer` | the `timerfd` of the process |
| `redraw`, `cards` | the queued `on_notifications_changed`, `cards_` |
| `slipped` | history: since the toasts were last laid out, a call without a callback has changed which notifications are silent |
| `main`, `delay`, `due` | where the loop is, what its arming has read, the expired ids it has yet to close |
| `bus`, `closed` | where the D-Bus thread is, and the id it closed and has not told |
| `told` | history: the `NotificationClosed` signals sent for an id |

The hub calls its listeners inside its mutex, on the thread that made the change,
so a change and its arming of the timer are one step. The loop's own arming reads
under the mutex and sets the timer after it: two steps. Closing and telling are
two steps on both threads. A turn of the loop handles one event of each source;
several of one kind are several turns. Time is abstract: a countdown is running,
then due, and an armed timer fires.

**Runs.**

* `notification_hub` (two applications, the shell posts for both; a list of two,
  one card, three notifications ever; 489,473 states): an application is told
  once, the toasts are those of the list, and, without the D-Bus thread, every
  countdown of up to two at once has a timer and ends. No application has a rule
  in this run: silent notifications multiply its states by five and are left to
  the theorem, which holds for any of them.
* `notification_stuck`: finds that with the D-Bus thread the loop may write the
  timer with an answer that is already old, so that a notification that has been
  added in between is not closed when its time is over.

*Bounds.* Three notifications with room for two drop one at the cap; two that
show with one card hide one; a push and a call of the same application merge.

*Fairness.* `WF(Loop)`: its poll returns within 30 s. Strong fairness of the
timer's firing while the loop polls: pushed notifications, each of which sets the
timer anew, do not come so fast for ever that it never fires.

*Proved* (`NotificationProofs`), for any number of applications, contents and
ids and any cap: type correctness, `ClosedOnce`, `CardsCurrent` and
`TimerCovers`. `ClosedOnce` needs who has a closed id in hand: by `ToldInv` an id
that one thread is about to tell is closed, untold, and not in the other's hand.
`TimerCovers` needs that without the D-Bus thread what the loop has read stays so
until it sets the timer.
`DueIsClosed` is only model-checked.

*What the properties do not say.* `CardsCurrent` has one exception. A re-push
that `addOrReplace` finds identical stores `silent` (line 127) and runs no
callback, although its comment calls it a true no-op; the notification may have
been left with the opposite by a merge, which keeps `silent`, or under other
rules. Until the next layout a toast is then missing, or stays. `callLater` wakes
nobody, so `CardsCurrent` speaks of the emptied queue, which may be up to 30 s
later. `DueIsClosed` holds whatever the urgency, which `schedule_expiry` does not
look at (section 10).

*Left out.* The history and the freezing of countdowns, which nothing reads or
calls; actions; edits of the rules; the reentrancy of a display roundtrip; the
rebuilding of the toast surface; a lost bus connection; the end of the process.

## 9. What is proved, and what is only checked

Every safety property of the passing runs, invariant, action property or
refinement, is a theorem. Everything in the table of theorems in `PROJECT.json`
holds for every value of the constants that satisfies the `ASSUME`s of its module:
bounds that are natural numbers, a positive cooldown and socket buffer, and
`None` values that are not members.

Only model-checked is the liveness, which needs fairness and is out of the
prover's reach: `DeadlinesHonoured`, `FirstComesBack`, `SwitchedOffGoesDown`,
`OutputDrains`, `CallsReturn`, `CancelHides`, `NewestIsAnnounced`, `DueIsClosed`.
The five disagreements that open section 10 are counterexamples, which a run shows
and a proof does not.

*Sequences.* `Subsequences` defines `Only(s, S)`, the members of `s` that are in
`S`, in order, as a recursive function; both the bus and the mirror use it, and
so does `Replay`, a recursion over events. The prover has no induction scheme for
them, so `SubsequenceProofs` proves the one fact needed, `NatSet`: a set that
holds 0 and the successor of each of its numbers holds all of them, from the
least element of its complement. From it follow that the recursive function
exists and is unique, and what `Only` does to a concatenation, to one element and
to its result's members. `Cat` and `One` stand for concatenation and the
one-element sequence in the proofs, so that only the laws that are cited
(`CatAssoc`, `CatElements`, `CatPeel`, `CatAround`, ...) are seen by the solver.

## 10. Where code and comments disagree

Five runs end in a counterexample; each states a sentence of the repository and
is quoted under `findings` in `PROJECT.json`: `stage_deadline`, `exit_missed`,
`ipc_stale_event`, `polkit_stuck_dialog` and `notification_stuck`. The passing
runs state what the code does keep next to each: what is not forgotten is
respawned, an event is read once and in order, a cancelled dialog is hidden, a
countdown without the D-Bus thread ends.

Others were met while modelling and have no run. The modules follow the code:

* *Critical notifications.* `Docs/Shell/Notifications.md:68` and `:75` say that
  critical urgency never expires by itself. `schedule_expiry`
  (`notifications.cpp:18-24`) has no urgency to look at, so a critical
  notification with a timeout is closed like any other. Urgency is therefore no
  part of the model, and `DueIsClosed` is stated for all urgencies.
* *Duplicates.* Line 77 of the same file says that an implicit duplicate replaces
  the previous notification, "resetting timer". `notifications.cpp:153-159`
  returns the id of the existing one and changes nothing.
* *Identical re-pushes.* `notifications.cpp:128` calls them "true no-ops". The line
  before it stores `silent`, and no callback follows (section 8).
* *Adopted palettes.* `shell_config.cpp:1030` says that a "freshly computed palette"
  is copied, and line 1112 that it "is still valid for this wallpaper". That is so
  of the palette the task computed. The other engine's, with which the task came,
  is copied too, and may belong to an earlier wallpaper.

## 11. Not modelled

* The pid files and the guard of orphaned children, the supervisor's teardown
  inside: they outlive the process, and what they meet is another session.
* The event loop's prepare-read protocol is libwayland's; the modules take from
  `poll_mux.cpp` that a turn ends and in which order it works.
* The session lock, the later candidates and the groups of section 1, each with
  its reason in `PROJECT.json`.
