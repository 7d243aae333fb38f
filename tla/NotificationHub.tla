-------------------------- MODULE NotificationHub --------------------------
(***************************************************************************)
(* The notification process: the hub (notifications.cpp), a list of active *)
(* notifications under one recursive mutex; the D-Bus thread, which adds,  *)
(* replaces and closes; and the main loop, which owns the expiry timer,    *)
(* the toasts and the shell's bus.                                         *)
(*                                                                         *)
(* Event callbacks run inside the hub's mutex on the caller's thread, so   *)
(* that a change and its arming of the timer are one step.  The loop's own *)
(* arming reads the next deadline under the mutex and sets the timer after *)
(* it: two steps.                                                          *)
(*                                                                         *)
(* Time is abstract: a countdown is running, then due, and an armed timer  *)
(* fires.  An app name stands for everything that makes two notifications  *)
(* the same application's; a content for a summary and a body.  The list   *)
(* is in the order of its ids.  A rule looks at the urgency as well, and    *)
(* may be reloaded at any time: where there is one, any call may or may not *)
(* find its toasts forbidden.                                               *)
(***************************************************************************)
EXTENDS Naturals, FiniteSets

CONSTANTS Apps, Contents,
          RuledApps,   \* those a rule may forbid toasts
          PushApps,    \* those the shell posts for itself, over its bus
          Media,       \* the one it keeps replacing
          Cap,         \* active notifications, 50 in the code
          MaxCards,    \* kMaxCards, 4 in the code
          MaxIds       \* bound: notifications ever added

ASSUME AppsAssumption  == /\ RuledApps \subseteq Apps /\ Media \in PushApps
                          /\ PushApps \subseteq Apps
ASSUME BoundAssumption == Cap \in Nat /\ MaxCards \in Nat /\ MaxIds \in Nat

VARIABLES dbus,     \* the D-Bus service exists; read from the configuration once
          notes,    \* notifications_, by id
          nextId,   \* next_id_
          quiet,    \* do_not_disturb_
          timer,    \* the timerfd: "off", "armed", "fired"
          redraw,   \* a callback that redraws the toasts is queued
          cards,    \* the ids of cards_
          slipped,  \* history: since they were last laid out, a call without
                    \* a callback has changed which notifications are silent
          main,     \* where the loop is
          delay,    \* the loop's arming has seen a deadline
          due,      \* what is left of the list of expired ids
          media,    \* the id in mpris_entries, 0 for none
          bus,      \* where the D-Bus thread is: "idle", "notify", "tell"
          closed,   \* the id it has closed and not told yet, 0 for none
          told      \* how many NotificationClosed signals each id has had

hub    == <<notes, nextId, quiet>>
toasts == <<redraw, cards, slipped>>
loop   == <<main, delay, due, media>>
thread == <<bus, closed, told>>
vars   == <<dbus, hub, timer, toasts, loop, thread>>

Ids  == 1 .. MaxIds
Note == [app : Apps, content : Contents, silent : BOOLEAN,
         exp : {"never", "running", "due"}]

Active == DOMAIN notes

Counting(ns) == \E id \in DOMAIN ns : ns[id].exp # "never"

Init ==
  /\ dbus \in BOOLEAN /\ quiet \in BOOLEAN
  /\ notes = [id \in {} |-> 0] /\ nextId = 1
  /\ timer = "off" /\ redraw = FALSE /\ cards = {} /\ slipped = FALSE
  /\ main = "poll" /\ delay = FALSE /\ due = {} /\ media = 0
  /\ bus = "idle" /\ closed = 0 /\ told = [id \in Ids |-> 0]

-----------------------------------------------------------------------------
(* The event callback: arm the timer for the soonest deadline, queue the    *)
(* redrawing.                                                               *)
Armed(ns) == IF Counting(ns) THEN "armed" ELSE "off"
Notified  == timer' = Armed(notes') /\ redraw' = TRUE
Unnoticed == UNCHANGED <<timer, redraw>>

(* schedule_expiry, which does not look at the urgency.                     *)
NewNote(app, content, times, silent) ==
  [app |-> app, content |-> content, silent |-> silent,
   exp |-> IF times THEN "running" ELSE "never"]

(* addOrReplace, when replaces_id is active.  The countdown restarts, and   *)
(* the callback runs, only if something changed; that the call is silent    *)
(* where the one before was not is not a change, but is kept.               *)
Differs(old, new) == \/ old.app # new.app \/ old.content # new.content
                     \/ (old.exp = "never") # (new.exp = "never")

Replace(id, new) ==
  /\ UNCHANGED nextId
  /\ \/ notes' = [notes EXCEPT ![id] = new] /\ Notified /\ UNCHANGED slipped
     \/ /\ ~Differs(notes[id], new)
        /\ notes' = [notes EXCEPT ![id].silent = new.silent]
        /\ slipped' = (slipped \/ new.silent # notes[id].silent)
        /\ Unnoticed

(* The same content from the same application within a second.              *)
Duplicate(id, new) ==
  /\ id \in Active
  /\ notes[id].app = new.app /\ notes[id].content = new.content
  /\ UNCHANGED <<notes, nextId, slipped>> /\ Unnoticed

SameApp(new) == {id \in Active : notes[id].app = new.app}
Newest(ids, id) == id \in ids /\ \A other \in ids : other <= id

Merge(id, new) ==
  /\ Newest(SameApp(new), id)
  /\ notes' = [notes EXCEPT ![id] = [new EXCEPT !.silent = notes[id].silent]]
  /\ UNCHANGED <<nextId, slipped>> /\ Notified

(* A list that grows past the cap loses its front, with no event for it.    *)
Uncapped(ids) == ids
Capped(ids) ==
  IF Cardinality(ids) <= Cap THEN ids
  ELSE {id \in ids : \E other \in ids : other < id}

Add(id, new) ==
  /\ SameApp(new) = {} /\ id = nextId
  /\ nextId <= MaxIds
  /\ nextId' = nextId + 1
  /\ notes' = [i \in Capped(Active \cup {id}) |-> IF i = id THEN new ELSE notes[i]]
  /\ Notified /\ UNCHANGED slipped

(* The id that addOrReplace returns.                                        *)
Post(replaces, new, id) ==
  IF replaces \in Active
  THEN id = replaces /\ Replace(id, new)
  ELSE Duplicate(id, new) \/ Merge(id, new) \/ Add(id, new)

Remove(ids) == notes' = [id \in Active \ ids |-> notes[id]]

(* close, for some ids that are active.                                     *)
CloseUnseen(ids) == /\ Remove(ids) /\ timer' = Armed(notes')
                    /\ UNCHANGED <<nextId, redraw>>
Close(ids) == Remove(ids) /\ Notified /\ UNCHANGED nextId

-----------------------------------------------------------------------------
Elapse(id) ==
  /\ id \in Active /\ notes[id].exp = "running"
  /\ notes' = [notes EXCEPT ![id].exp = "due"]
  /\ UNCHANGED <<dbus, nextId, quiet, timer, toasts, loop, thread>>

TimerFires ==
  /\ timer = "armed" /\ timer' = "fired"
  /\ UNCHANGED <<dbus, hub, toasts, loop, thread>>

-----------------------------------------------------------------------------
(* The D-Bus thread.  The call is dropped at once in quiet mode, unless a   *)
(* rule lets the application through; the mode may change before it adds.   *)
BusNotify ==
  /\ dbus /\ bus = "idle"
  /\ \E bypassDnd \in BOOLEAN : ~quiet \/ bypassDnd
  /\ bus' = "notify"
  /\ UNCHANGED <<dbus, hub, timer, toasts, loop, closed, told>>

BusAdd ==
  /\ bus = "notify" /\ bus' = "idle"
  /\ \E replaces \in 0 .. nextId - 1, app \in Apps, content \in Contents,
        times \in BOOLEAN, silent \in BOOLEAN, id \in Ids :
       /\ silent => app \in RuledApps
       /\ Post(replaces, NewNote(app, content, times, silent), id)
  /\ UNCHANGED <<dbus, quiet, cards, loop, closed, told>>

BusClose ==
  /\ dbus /\ bus = "idle" /\ bus' = "tell"
  /\ \E id \in Active : Close({id}) /\ closed' = id
  /\ UNCHANGED <<dbus, quiet, cards, slipped, loop, told>>

Tell(id) == told' = [told EXCEPT ![id] = @ + 1]

BusTell ==
  /\ bus = "tell" /\ bus' = "idle"
  /\ Tell(closed) /\ closed' = 0
  /\ UNCHANGED <<dbus, hub, timer, toasts, loop>>

-----------------------------------------------------------------------------
(* One turn of the loop: poll, the timer, the display, the bus, the queue.  *)
(* poll returns within 30 s whatever happens, and with every source that is *)
(* ready, so that a timer that has fired is always seen.                    *)
Sources == {"display", "ipc", "drain"}

WakesForAny == IF timer = "fired" THEN {"expired"} \cup Sources ELSE Sources
WakesFor    == IF timer = "fired" THEN {"expired"} ELSE Sources

Wake ==
  /\ main = "poll"
  /\ main' \in WakesFor
  /\ timer' = IF main' = "expired" THEN "off" ELSE timer
  /\ UNCHANGED <<dbus, hub, toasts, delay, due, media, thread>>

Expired == {id \in Active : notes[id].exp = "due"}
Oldest(id) == id \in due /\ \A other \in due : id <= other

(* Without the D-Bus service the sweep is one step under the mutex.         *)
SweepLocally ==
  /\ main = "expired" /\ ~dbus
  /\ main' = "arm"
  /\ IF Expired # {} THEN Close(Expired) ELSE UNCHANGED <<hub, timer, redraw>>
  /\ UNCHANGED <<dbus, quiet, cards, slipped, delay, due, media, thread>>

(* With it the ids are listed, and each one is closed and told by itself.   *)
ListExpired ==
  /\ main = "expired" /\ dbus
  /\ main' = "sweep" /\ due' = Expired
  /\ UNCHANGED <<dbus, hub, timer, toasts, delay, media, thread>>

TellsAlways(id) == TRUE
TellsClosed(id) == id \in Active

SweepOne(id) ==
  /\ main = "sweep" /\ Oldest(id)
  /\ IF id \in Active THEN Close({id}) ELSE UNCHANGED <<notes, nextId, timer, redraw>>
  /\ IF TellsClosed(id) THEN main' = "tell" /\ due' = due
                         ELSE main' = main /\ due' = due \ {id}
  /\ UNCHANGED <<dbus, quiet, cards, slipped, delay, media, thread>>

TellExpired(id) ==
  /\ main = "tell" /\ Oldest(id)
  /\ Tell(id)
  /\ main' = "sweep" /\ due' = due \ {id}
  /\ UNCHANGED <<dbus, hub, timer, toasts, delay, media, bus, closed>>

EndSweep ==
  /\ main = "sweep" /\ due = {}
  /\ main' = "arm"
  /\ UNCHANGED <<dbus, hub, timer, toasts, delay, due, media, thread>>

(* arm_notification_expiry_timer, called outside the mutex: after the sweep *)
(* and after a pushed notification.                                         *)
ReadDelay ==
  /\ main \in {"arm", "push arm"}
  /\ delay' = Counting(notes)
  /\ main' = IF main = "arm" THEN "set" ELSE "push set"
  /\ UNCHANGED <<dbus, hub, timer, toasts, due, media, thread>>

Disarms   == "off"
ArmsAgain == IF delay THEN "armed" ELSE "off"

SetTimer ==
  /\ main \in {"set", "push set"}
  /\ timer' = ArmsAgain /\ delay' = FALSE
  /\ main' \in IF main = "set" THEN Sources ELSE {"drain"}
  /\ UNCHANGED <<dbus, hub, toasts, due, media, thread>>

Onward(from) ==
  /\ main = from /\ main' \in {"ipc", "drain"} \ {from}
  /\ UNCHANGED <<dbus, hub, timer, toasts, delay, due, media, thread>>

-----------------------------------------------------------------------------
(* on_notifications_changed: newest first, one card for an application and  *)
(* for a content, as many as fit.                                           *)
Heard == {id \in Active : ~notes[id].silent}
FirstOfApp == {id \in Heard : Newest({i \in Heard : notes[i].app = notes[id].app}, id)}
Distinct == {id \in FirstOfApp :
               Newest({i \in FirstOfApp : notes[i].content = notes[id].content}, id)}
Cards == IF quiet THEN {}
         ELSE {id \in Distinct : Cardinality({i \in Distinct : i > id}) < MaxCards}

(* A click on a card closes its notification, if it still is one; the       *)
(* pointer moving over the close button lays the cards out again.           *)
Click ==
  /\ main = "display"
  /\ \E id \in cards : IF id \in Active THEN Close({id})
                       ELSE UNCHANGED <<notes, nextId, timer, redraw>>
  /\ main' \in {"ipc", "drain"}
  /\ UNCHANGED <<dbus, quiet, cards, slipped, delay, due, media, thread>>

Hover ==
  /\ main = "display"
  /\ cards' = Cards /\ slipped' = FALSE
  /\ main' \in {"ipc", "drain"}
  /\ UNCHANGED <<dbus, hub, timer, redraw, delay, due, media, thread>>

(* notify.push, which quiet mode does not silence: for the shell itself, or *)
(* for the media player, whose last notification is replaced; one that is   *)
(* malformed only arms the timer.                                           *)
Push ==
  /\ main = "ipc" /\ main' = "push arm"
  /\ \/ /\ \E app \in PushApps, content \in Contents, id \in Ids :
              Post(0, NewNote(app, content, TRUE, FALSE), id)
        /\ UNCHANGED media
     \/ \E content \in Contents, id \in Ids :
          /\ Post(media, NewNote(Media, content, TRUE, FALSE), id)
          /\ media' = id
     \/ UNCHANGED <<notes, nextId, timer, redraw, slipped, media>>
  /\ UNCHANGED <<dbus, quiet, cards, delay, due, thread>>

(* config.applied: entering quiet mode closes everything, untold.           *)
ApplyConfig ==
  /\ main = "ipc" /\ main' = "drain"
  /\ quiet' = ~quiet
  /\ Remove(IF quiet' THEN Active ELSE {}) /\ Notified
  /\ UNCHANGED <<dbus, nextId, cards, slipped, delay, due, media, thread>>

(* The queue is taken whole and then run.                                   *)
TakeQueue ==
  /\ main = "drain"
  /\ main' = IF redraw THEN "draw" ELSE "poll"
  /\ redraw' = FALSE
  /\ UNCHANGED <<dbus, hub, timer, cards, slipped, delay, due, media, thread>>

Draw ==
  /\ main = "draw" /\ main' = "poll"
  /\ cards' = Cards /\ slipped' = FALSE
  /\ UNCHANGED <<dbus, hub, timer, redraw, delay, due, media, thread>>

-----------------------------------------------------------------------------
Loop == \/ Wake \/ SweepLocally \/ ListExpired
        \/ \E id \in Ids : SweepOne(id) \/ TellExpired(id)
        \/ EndSweep \/ ReadDelay \/ SetTimer
        \/ Onward("display") \/ Onward("ipc")
        \/ Click \/ Hover \/ Push \/ ApplyConfig
        \/ TakeQueue \/ Draw

Bus == BusNotify \/ BusAdd \/ BusClose \/ BusTell

Next == Loop \/ Bus \/ TimerFires \/ \E id \in Ids : Elapse(id)

Spec == Init /\ [][Next]_vars

(* The loop keeps turning: poll has a timeout, and nothing it calls waits   *)
(* for another thread for long.  Pushed notifications do not come so fast   *)
(* for ever that each one sets the timer, to a millisecond at least, before *)
(* it fires: an armed timer fires at some of the polls.                     *)
FairSpec == Spec /\ WF_vars(Loop) /\ SF_vars(main = "poll" /\ TimerFires)

-----------------------------------------------------------------------------
Places == {"poll", "expired", "sweep", "tell", "arm", "set", "push arm",
           "push set", "display", "ipc", "drain", "draw"}

TypeOK ==
  /\ dbus \in BOOLEAN /\ quiet \in BOOLEAN /\ redraw \in BOOLEAN
  /\ delay \in BOOLEAN /\ slipped \in BOOLEAN
  /\ Active \subseteq 1 .. nextId - 1 /\ nextId \in 1 .. MaxIds + 1
  /\ notes \in [Active -> Note]
  /\ Cardinality(Active) <= Cap
  /\ timer \in {"off", "armed", "fired"}
  /\ cards \subseteq Ids /\ due \subseteq Ids /\ media \in 0 .. MaxIds
  /\ main \in Places /\ bus \in {"idle", "notify", "tell"}
  /\ closed \in 0 .. MaxIds /\ (bus = "tell" <=> closed # 0)
  /\ told \in [Ids -> Nat]

(* The application is told at most once that a notification is closed, and  *)
(* never of one that is still active: a CloseNotification that meets the    *)
(* sweep of the same id.                                                    *)
ClosedOnce == \A id \in Ids : told[id] <= 1 /\ (told[id] = 1 => id \notin Active)

(* Whichever thread changed the list, once the queue is empty the toasts    *)
(* are those of the list as it is.  The exception is the re-push that       *)
(* addOrReplace finds identical: it stores whether the call is silent and   *)
(* runs no callback, and until the next layout a toast that should appear   *)
(* is missing, or one that should not be there stays.                       *)
CardsCurrent == ~redraw /\ main # "draw" => cards = Cards \/ slipped

(* Without the D-Bus thread a countdown always has a timer, or the loop is  *)
(* about to set one.                                                        *)
TimerCovers ==
  ~dbus /\ Counting(notes) =>
    \/ timer # "off" \/ main \in {"expired", "arm"}
    \/ main = "set" /\ delay

(* Without the D-Bus thread no countdown that has run out stays so, however *)
(* many there are and whatever their urgency: its notification is closed,   *)
(* unless it is replaced first.  The code closes critical notifications     *)
(* too, which Notifications.md says never expire.                           *)
DueIsClosed == []<>(dbus \/ Expired = {})
=============================================================================
