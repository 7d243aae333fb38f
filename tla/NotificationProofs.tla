------------------------- MODULE NotificationProofs -------------------------
(***************************************************************************)
(* Theorems about the notification process, for every set of applications  *)
(* and contents, every cap and every number of notifications.              *)
(***************************************************************************)
EXTENDS NotificationHub, FiniteSetTheorems, WellFoundedInduction, TLAPS

HubOK ==
  /\ Active \subseteq 1 .. nextId - 1 /\ nextId \in 1 .. MaxIds + 1
  /\ notes \in [Active -> Note]
  /\ Cardinality(Active) <= Cap

CallbackOK == timer \in {"off", "armed", "fired"} /\ redraw \in BOOLEAN

-----------------------------------------------------------------------------
(* The list.                                                                *)

LEMMA ActiveFinite ==
  ASSUME HubOK
  PROVE  IsFiniteSet(Active) /\ Active \subseteq Ids /\ Active \subseteq Nat
<1>1. MaxIds \in Nat /\ nextId - 1 \in Int /\ nextId - 1 <= MaxIds
  BY BoundAssumption DEF HubOK
<1>2. IsFiniteSet(1 .. nextId - 1)
  BY <1>1, FS_Interval
<1>3. IsFiniteSet(Active)
  BY <1>2, FS_Subset DEF HubOK
<1> QED
  BY <1>1, <1>3 DEF HubOK, Ids

Less == {pair \in Nat \X Nat : pair[1] < pair[2]}

LEMMA LessWellFounded == IsWellFoundedOn(Less, Nat)
  BY NatLessThanWellFounded, Zenon DEF OpToRel, Less

LEMMA SmallestOf ==
  ASSUME NEW S \in SUBSET Nat, S # {}
  PROVE  \E m \in S : \A n \in S : m <= n
<1>1. PICK m \in S : \A n \in S : ~ (<<n, m>> \in Less)
  BY LessWellFounded, WFMin
<1>2. ASSUME NEW n \in S PROVE m <= n
  <2>1. n < m => <<n, m>> \in Less
    BY Zenon DEF Less
  <2> QED
    BY <1>1, <2>1
<1> QED
  BY <1>1, <1>2

(* Past the cap exactly one id, the smallest, is dropped.                   *)
LEMMA CappedFits ==
  ASSUME NEW S \in SUBSET Nat, IsFiniteSet(S), Cardinality(S) <= Cap + 1
  PROVE  Capped(S) \subseteq S /\ Cardinality(Capped(S)) <= Cap
<1>1. CASE Cardinality(S) <= Cap
  BY <1>1 DEF Capped
<1>2. CASE ~(Cardinality(S) <= Cap)
  <2>1. Cardinality(S) \in Nat /\ Cap \in Nat /\ Cardinality(S) # 0
    BY <1>2, FS_CardinalityType, BoundAssumption
  <2>2. S # {}
    BY <2>1, FS_EmptySet
  <2>3. PICK m \in S : \A n \in S : m <= n
    BY <2>2, SmallestOf
  <2>4. Capped(S) = S \ {m}
    <3>1. ASSUME NEW id \in S PROVE (\E other \in S : other < id) <=> id # m
      BY <2>3
    <3> QED
      BY <1>2, <3>1 DEF Capped
  <2>5. Cardinality(S \ {m}) = Cardinality(S) - 1
    BY <2>3, FS_RemoveElement
  <2> QED
    BY <2>1, <2>4, <2>5
<1> QED
  BY <1>1, <1>2

LEMMA CloseType ==
  ASSUME HubOK, NEW ids, Close(ids)
  PROVE  HubOK' /\ timer' \in {"off", "armed"} /\ redraw' = TRUE
<1>1. Active' \subseteq Active /\ notes' \in [Active' -> Note]
  BY DEF HubOK, Close, Remove, Active
<1>2. Cardinality(Active') <= Cardinality(Active)
  BY <1>1, ActiveFinite, FS_Subset
<1>3. Cardinality(Active) \in Nat /\ Cardinality(Active') \in Nat
  BY <1>1, ActiveFinite, FS_Subset, FS_CardinalityType
<1>4. Cardinality(Active') <= Cap
  BY <1>2, <1>3, BoundAssumption DEF HubOK
<1>5. HubOK'
  BY <1>1, <1>4 DEF HubOK, Close
<1> QED
  BY <1>5 DEF Close, Notified, Armed

LEMMA PostType ==
  ASSUME HubOK, CallbackOK, NEW replaces, NEW new \in Note, NEW id \in Ids,
         Post(replaces, new, id)
  PROVE  HubOK' /\ CallbackOK'
<1> USE DEF Active
<1>1. CASE replaces \in Active
  <2>1. id \in Active /\ Replace(id, new)
    BY <1>1 DEF Post
  <2>2. Active' = Active /\ notes' \in [Active' -> Note] /\ nextId' = nextId
    BY <2>1 DEF HubOK, Replace, Note
  <2>3. CallbackOK'
    BY <2>1 DEF CallbackOK, Replace, Notified, Unnoticed, Armed
  <2> QED
    BY <2>2, <2>3 DEF HubOK
<1>2. CASE Duplicate(id, new)
  BY <1>2 DEF Duplicate, Unnoticed, HubOK, CallbackOK
<1>3. CASE Merge(id, new)
  <2>1. id \in Active
    BY <1>3 DEF Merge, Newest, SameApp
  <2>2. Active' = Active /\ notes' \in [Active' -> Note] /\ nextId' = nextId
    BY <1>3, <2>1 DEF HubOK, Merge, Note
  <2> QED
    BY <1>3, <2>2 DEF HubOK, CallbackOK, Merge, Notified, Armed
<1>4. CASE Add(id, new)
  <2> DEFINE S == Active \cup {id}
  <2>1. nextId \in Nat /\ id = nextId /\ nextId' = nextId + 1 /\ nextId <= MaxIds
        /\ MaxIds \in Nat
    BY <1>4, BoundAssumption DEF HubOK, Add
  <2>2. S \in SUBSET Nat /\ S \subseteq 1 .. nextId' - 1
    BY <2>1, ActiveFinite DEF HubOK
  <2>3. IsFiniteSet(S) /\ Cardinality(S) <= Cardinality(Active) + 1
        /\ Cardinality(Active) \in Nat /\ Cardinality(S) \in Nat
    <3>1. IsFiniteSet(Active) /\ Cardinality(Active) \in Nat
      BY ActiveFinite, FS_CardinalityType
    <3>2. IsFiniteSet(S) /\ (Cardinality(S) = Cardinality(Active)
                             \/ Cardinality(S) = Cardinality(Active) + 1)
      BY <3>1, FS_AddElement
    <3> QED
      BY <3>1, <3>2
  <2>4. Cardinality(S) <= Cap + 1
    BY <2>3, BoundAssumption DEF HubOK
  <2>5. Capped(S) \subseteq S /\ Cardinality(Capped(S)) <= Cap
    BY <2>2, <2>3, <2>4, CappedFits
  <2>6. notes' = [i \in Capped(S) |-> IF i = id THEN new ELSE notes[i]]
    BY <1>4 DEF Add
  <2>7. Active' = Capped(S) /\ notes' \in [Active' -> Note]
    BY <2>5, <2>6 DEF HubOK
  <2>8. HubOK'
    <3>1. Active' \subseteq 1 .. nextId' - 1 /\ Cardinality(Active') <= Cap
      BY <2>2, <2>5, <2>7
    <3>2. nextId' \in 1 .. MaxIds + 1
      BY <2>1
    <3> QED
      BY <3>1, <3>2, <2>7 DEF HubOK
  <2> QED
    BY <2>8, <1>4 DEF CallbackOK, Add, Notified, Armed
<1> QED
  BY <1>1, <1>2, <1>3, <1>4 DEF Post

LEMMA NewNoteType ==
  ASSUME NEW app \in Apps, NEW content \in Contents,
         NEW times \in BOOLEAN, NEW silent \in BOOLEAN
  PROVE  NewNote(app, content, times, silent) \in Note
BY DEF NewNote, Note

(* What a step does to everything but the list and its callbacks.           *)
FlagsOK == /\ dbus \in BOOLEAN /\ quiet \in BOOLEAN
           /\ delay \in BOOLEAN /\ slipped \in BOOLEAN

RestOK ==
  /\ cards \subseteq Ids /\ due \subseteq Ids /\ media \in 0 .. MaxIds
  /\ main \in Places /\ bus \in {"idle", "notify", "tell"}
  /\ closed \in 0 .. MaxIds /\ (bus = "tell" <=> closed # 0)
  /\ told \in [Ids -> Nat]

LEMMA TypeParts == TypeOK <=> HubOK /\ CallbackOK /\ FlagsOK /\ RestOK
<1>1. FlagsOK <=> /\ dbus \in BOOLEAN /\ quiet \in BOOLEAN
                  /\ delay \in BOOLEAN /\ slipped \in BOOLEAN
  BY DEF FlagsOK
<1> QED
  BY <1>1 DEF TypeOK, HubOK, CallbackOK, RestOK

LEMMA InitType == Init => TypeOK
<1> SUFFICES ASSUME Init PROVE TypeOK
  OBVIOUS
<1>1. Active = {} /\ Cardinality({}) = 0
  BY FS_EmptySet DEF Init, Active
<1>2. HubOK
  BY <1>1, BoundAssumption DEF Init, HubOK, Active
<1>3. CallbackOK
  BY DEF Init, CallbackOK
<1>4. FlagsOK
  BY Zenon DEF Init, FlagsOK
<1>5. RestOK
  BY BoundAssumption DEF Init, RestOK, Places
<1> QED
  BY <1>2, <1>3, <1>4, <1>5, TypeParts

LEMMA ClosingType ==
  ASSUME TypeOK, NEW ids, Close(ids)
  PROVE  HubOK' /\ CallbackOK'
BY TypeParts, CloseType DEF CallbackOK

LEMMA SameHubType ==
  ASSUME TypeOK, UNCHANGED <<notes, nextId>>
  PROVE  HubOK'
BY TypeParts DEF HubOK, Active

(* Each action keeps the flags.                                             *)
LEMMA PostSlips ==
  ASSUME slipped \in BOOLEAN, NEW replaces, NEW new, NEW id, Post(replaces, new, id)
  PROVE  slipped' \in BOOLEAN
<1>1. slipped' = slipped \/ slipped' = (slipped \/ new.silent # notes[id].silent)
  BY Zenon DEF Post, Replace, Duplicate, Merge, Add
<1> QED
  BY <1>1, Zenon

LEMMA FlagsType == FlagsOK /\ [Next]_vars => FlagsOK'
<1> SUFFICES ASSUME FlagsOK, [Next]_vars PROVE FlagsOK'
  OBVIOUS
<1> DEFINE Settled == UNCHANGED <<dbus, quiet, delay, slipped>>
<1>1. CASE ApplyConfig
  BY <1>1, Zenon DEF FlagsOK, ApplyConfig
<1>2. CASE ReadDelay
  BY <1>2, Zenon DEF FlagsOK, ReadDelay, Counting, hub, toasts
<1>3. CASE SetTimer
  BY <1>3, Zenon DEF FlagsOK, SetTimer, hub, toasts
<1>4. CASE Settled
  BY <1>4, Zenon DEF FlagsOK
<1>5. CASE Hover \/ Draw
  BY <1>5, Zenon DEF FlagsOK, Hover, Draw, hub
<1>6. CASE BusAdd \/ Push
  <2>1. slipped' \in BOOLEAN
    BY <1>6, PostSlips, Zenon DEF BusAdd, Push, FlagsOK
  <2>2. UNCHANGED <<dbus, quiet, delay>>
    BY <1>6 DEF BusAdd, Push, loop
  <2> QED
    BY <2>1, <2>2, Zenon DEF FlagsOK
<1>7. CASE BusNotify \/ BusClose \/ BusTell
  <2>1. Settled
    BY <1>7 DEF BusNotify, BusClose, BusTell, hub, toasts, loop
  <2> QED
    BY <2>1, <1>4
<1>8. CASE \/ Wake \/ SweepLocally \/ ListExpired \/ EndSweep \/ Click \/ TakeQueue
           \/ Onward("display") \/ Onward("ipc")
           \/ \E id \in Ids : SweepOne(id) \/ TellExpired(id)
  <2>1. Settled
    BY <1>8 DEF Wake, SweepLocally, ListExpired, SweepOne, TellExpired, EndSweep,
                Onward, Click, TakeQueue, Close, hub, toasts
  <2> QED
    BY <2>1, <1>4
<1>9. CASE TimerFires \/ (\E id \in Ids : Elapse(id)) \/ UNCHANGED vars
  <2>1. Settled
    BY <1>9 DEF TimerFires, Elapse, hub, toasts, loop, vars
  <2> QED
    BY <2>1, <1>4
<1> QED
  BY <1>1, <1>2, <1>3, <1>5, <1>6, <1>7, <1>8, <1>9 DEF Next, Loop, Bus

LEMMA TellType ==
  ASSUME told \in [Ids -> Nat], NEW id, Tell(id)
  PROVE  told' \in [Ids -> Nat]
<1>1. told' = [told EXCEPT ![id] = told[id] + 1]
  BY DEF Tell
<1>2. DOMAIN told' = Ids /\ told' = [i \in Ids |-> told'[i]]
  BY <1>1
<1>3. ASSUME NEW i \in Ids PROVE told'[i] \in Nat
  <2>1. told[i] \in Nat /\ told'[i] = IF i = id THEN told[i] + 1 ELSE told[i]
    BY <1>1
  <2> QED
    BY <2>1
<1> QED
  BY <1>2, <1>3

LEMMA ThreadType == TypeOK /\ Bus => HubOK' /\ CallbackOK' /\ RestOK'
<1> SUFFICES ASSUME TypeOK, Bus PROVE HubOK' /\ CallbackOK' /\ RestOK'
  OBVIOUS
<1> USE TypeParts
<1>1. CASE BusNotify
  <2>1. HubOK'
    BY <1>1, SameHubType DEF BusNotify, hub
  <2> QED
    BY <1>1, <2>1 DEF BusNotify, CallbackOK, RestOK, hub, toasts, loop
<1>2. CASE BusAdd
  <2>1. PICK replaces \in 0 .. nextId - 1, app \in Apps, content \in Contents,
             times \in BOOLEAN, silent \in BOOLEAN, id \in Ids :
               Post(replaces, NewNote(app, content, times, silent), id)
    BY <1>2 DEF BusAdd
  <2>2. NewNote(app, content, times, silent) \in Note
    BY NewNoteType
  <2>3. HubOK' /\ CallbackOK'
    BY <2>1, <2>2, PostType
  <2> QED
    BY <1>2, <2>3 DEF BusAdd, RestOK, loop
<1>3. CASE BusClose
  <2>1. PICK id \in Active : Close({id}) /\ closed' = id
    BY <1>3 DEF BusClose
  <2>2. HubOK' /\ CallbackOK'
    BY <2>1, ClosingType
  <2>3. closed' \in 0 .. MaxIds /\ closed' # 0
    BY <2>1, ActiveFinite, BoundAssumption DEF Ids
  <2> QED
    BY <1>3, <2>2, <2>3 DEF BusClose, RestOK, loop
<1>4. CASE BusTell
  <2>1. HubOK'
    BY <1>4, SameHubType DEF BusTell, hub
  <2>2. told' \in [Ids -> Nat]
    BY <1>4, TellType DEF BusTell, RestOK
  <2>3. closed' = 0 /\ bus' = "idle" /\ 0 \in 0 .. MaxIds
    BY <1>4, BoundAssumption DEF BusTell
  <2>4. UNCHANGED <<timer, redraw, cards, due, media, main>>
    BY <1>4 DEF BusTell, toasts, loop
  <2>5. CallbackOK'
    BY <2>4 DEF CallbackOK
  <2>6. closed' \in 0 .. MaxIds /\ (bus' = "tell" <=> closed' # 0)
    BY <2>3
  <2>7. bus' \in {"idle", "notify", "tell"}
    BY <2>3
  <2> QED
    BY <2>1, <2>2, <2>4, <2>5, <2>6, <2>7 DEF RestOK
<1> QED
  BY <1>1, <1>2, <1>3, <1>4 DEF Bus

LEMMA SweepType ==
  ASSUME TypeOK,
         NEW id, SweepLocally \/ ListExpired \/ SweepOne(id) \/ TellExpired(id) \/ EndSweep
  PROVE  HubOK' /\ CallbackOK' /\ RestOK'
<1> USE TypeParts
<1>1. CASE SweepLocally
  <2>1. HubOK' /\ CallbackOK'
    BY <1>1, ClosingType, SameHubType DEF SweepLocally, hub, CallbackOK
  <2> QED
    BY <1>1, <2>1 DEF SweepLocally, RestOK, Places, thread
<1>2. CASE ListExpired
  <2>1. HubOK' /\ Expired \subseteq Ids
    BY <1>2, SameHubType, ActiveFinite DEF ListExpired, hub, Expired
  <2> QED
    BY <1>2, <2>1 DEF ListExpired, CallbackOK, RestOK, Places, hub, toasts, thread
<1>3. CASE SweepOne(id)
  <2>1. HubOK' /\ CallbackOK'
    BY <1>3, ClosingType, SameHubType DEF SweepOne, CallbackOK
  <2> QED
    BY <1>3, <2>1 DEF SweepOne, RestOK, Places, thread
<1>4. CASE TellExpired(id)
  <2>1. HubOK'
    BY <1>4, SameHubType DEF TellExpired, hub
  <2>2. told' \in [Ids -> Nat]
    BY <1>4, TellType DEF TellExpired, RestOK
  <2> QED
    BY <1>4, <2>1, <2>2 DEF TellExpired, CallbackOK, RestOK, Places, hub, toasts
<1>5. CASE EndSweep
  <2>1. HubOK'
    BY <1>5, SameHubType DEF EndSweep, hub
  <2> QED
    BY <1>5, <2>1 DEF EndSweep, CallbackOK, RestOK, Places, hub, toasts, thread
<1> QED
  BY <1>1, <1>2, <1>3, <1>4, <1>5

LEMMA TurnType ==
  ASSUME TypeOK,
         \/ Wake \/ ReadDelay \/ SetTimer \/ Onward("display") \/ Onward("ipc")
         \/ Hover \/ TakeQueue \/ Draw
  PROVE  HubOK' /\ CallbackOK' /\ RestOK'
<1> USE TypeParts
<1>1. HubOK'
  BY SameHubType DEF Wake, ReadDelay, SetTimer, Onward, Hover, TakeQueue, Draw, hub
<1>2. CASE Wake
  BY <1>1, <1>2 DEF Wake, WakesFor, Sources, CallbackOK, RestOK, Places, hub, toasts, thread
<1>3. CASE ReadDelay
  BY <1>1, <1>3 DEF ReadDelay, Counting, CallbackOK, RestOK, Places, hub, toasts, thread
<1>4. CASE SetTimer
  BY <1>1, <1>4 DEF SetTimer, ArmsAgain, Sources, CallbackOK, RestOK, Places, hub, toasts, thread
<1>5. CASE Onward("display") \/ Onward("ipc")
  BY <1>1, <1>5 DEF Onward, CallbackOK, RestOK, Places, hub, toasts, thread
<1>6. CASE Hover \/ Draw
  <2>1. Cards \subseteq Ids
    BY ActiveFinite DEF Cards, Distinct, FirstOfApp, Heard
  <2>2. cards' = Cards /\ UNCHANGED redraw
    BY <1>6 DEF Hover, Draw
  <2> QED
    BY <1>1, <1>6, <2>1, <2>2 DEF Hover, Draw, CallbackOK, RestOK, Places, hub, thread
<1>7. CASE TakeQueue
  BY <1>1, <1>7 DEF TakeQueue, CallbackOK, RestOK, Places, hub, thread
<1> QED
  BY <1>2, <1>3, <1>4, <1>5, <1>6, <1>7

LEMMA EventType ==
  ASSUME TypeOK, Click \/ Push \/ ApplyConfig
  PROVE  HubOK' /\ CallbackOK' /\ RestOK'
<1> USE TypeParts
<1>1. CASE Click
  <2>1. HubOK' /\ CallbackOK'
    BY <1>1, ClosingType, SameHubType DEF Click, CallbackOK
  <2> QED
    BY <1>1, <2>1 DEF Click, RestOK, Places, thread
<1>2. CASE Push
  <2>1. ASSUME NEW app \in PushApps, NEW content \in Contents
        PROVE  NewNote(app, content, TRUE, FALSE) \in Note
    BY NewNoteType, AppsAssumption
  <2>2. HubOK' /\ CallbackOK' /\ media' \in 0 .. MaxIds
    <3>1. CASE UNCHANGED <<notes, nextId, timer, redraw, media>>
      BY <3>1, SameHubType DEF CallbackOK, RestOK
    <3>2. ASSUME NEW app \in PushApps, NEW content \in Contents, NEW id \in Ids,
                 Post(0, NewNote(app, content, TRUE, FALSE), id), UNCHANGED media
          PROVE  HubOK' /\ CallbackOK' /\ media' \in 0 .. MaxIds
      BY <2>1, <3>2, PostType DEF RestOK
    <3>3. ASSUME NEW content \in Contents, NEW id \in Ids,
                 Post(media, NewNote(Media, content, TRUE, FALSE), id), media' = id
          PROVE  HubOK' /\ CallbackOK' /\ media' \in 0 .. MaxIds
      <4>1. HubOK' /\ CallbackOK'
        BY <2>1, <3>3, PostType, AppsAssumption
      <4> QED
        BY <3>3, <4>1, BoundAssumption DEF Ids
    <3> QED
      BY <1>2, <3>1, <3>2, <3>3 DEF Push
  <2> QED
    BY <1>2, <2>2 DEF Push, RestOK, Places, thread
<1>3. CASE ApplyConfig
  <2>1. Close(IF quiet' THEN Active ELSE {})
    BY <1>3 DEF ApplyConfig, Close
  <2>2. HubOK' /\ CallbackOK'
    BY <2>1, ClosingType
  <2> QED
    BY <1>3, <2>2 DEF ApplyConfig, RestOK, Places, thread
<1> QED
  BY <1>1, <1>2, <1>3

LEMMA TimeType ==
  ASSUME TypeOK, TimerFires \/ \E id \in Ids : Elapse(id)
  PROVE  HubOK' /\ CallbackOK' /\ RestOK'
<1> USE TypeParts
<1>1. CASE TimerFires
  BY <1>1, SameHubType DEF TimerFires, CallbackOK, RestOK, hub, toasts, loop, thread
<1>2. ASSUME NEW id \in Ids, Elapse(id) PROVE HubOK' /\ CallbackOK' /\ RestOK'
  <2>1. HubOK'
    BY <1>2 DEF Elapse, HubOK, Active, Note
  <2> QED
    BY <1>2, <2>1 DEF Elapse, CallbackOK, RestOK, toasts, loop, thread
<1> QED
  BY <1>1, <1>2

LEMMA StutterType == TypeOK /\ UNCHANGED vars => HubOK' /\ CallbackOK' /\ RestOK'
BY TypeParts, SameHubType DEF CallbackOK, RestOK, vars, hub, toasts, loop, thread

LEMMA NextType == TypeOK /\ [Next]_vars => TypeOK'
<1> SUFFICES ASSUME TypeOK, [Next]_vars PROVE TypeOK'
  OBVIOUS
<1>1. FlagsOK'
  BY TypeParts, FlagsType
<1>2. HubOK' /\ CallbackOK' /\ RestOK'
  <2>1. ASSUME NEW id \in Ids, SweepOne(id) \/ TellExpired(id)
        PROVE  HubOK' /\ CallbackOK' /\ RestOK'
    BY <2>1, SweepType
  <2>2. CASE SweepLocally \/ ListExpired \/ EndSweep
    BY <2>2, SweepType
  <2>3. CASE Loop
    BY <2>1, <2>2, <2>3, TurnType, EventType DEF Loop
  <2> QED
    BY <2>3, ThreadType, TimeType, StutterType DEF Next
<1>3. HubOK' /\ CallbackOK' /\ FlagsOK' /\ RestOK' => TypeOK'
  BY TypeParts, PTL
<1> QED
  BY <1>1, <1>2, <1>3

(* The list never grows past its cap, every id in it has been given out and *)
(* none twice, and the loop and the D-Bus thread are where the code can be. *)
THEOREM TypeCorrect == Spec => []TypeOK
BY InitType, NextType, PTL DEF Spec

-----------------------------------------------------------------------------
(* The timer.  Without the D-Bus thread nothing changes the list between    *)
(* the loop's reading of the deadline and its setting of the timer, so that *)
(* what it has read is still so.                                            *)
Reading == main \in {"set", "push set"} /\ Counting(notes) => delay

Alone == ~dbus => bus = "idle" /\ main \notin {"sweep", "tell"} /\ Reading

TimerInv == TypeOK /\ Alone /\ TimerCovers

LEMMA CallbackArms ==
  ASSUME timer' = Armed(notes')
  PROVE  Counting(notes') => timer' # "off"
BY DEF Armed

LEMMA PostCounts ==
  ASSUME HubOK, NEW replaces, NEW new \in Note, NEW id, Post(replaces, new, id)
  PROVE  \/ timer' = Armed(notes')
         \/ timer' = timer /\ (Counting(notes') => Counting(notes))
<1>1. CASE replaces \in Active
  <2>1. id \in Active /\ Replace(id, new)
    BY <1>1 DEF Post
  <2>2. CASE Notified
    BY <2>2 DEF Notified
  <2>3. CASE notes' = [notes EXCEPT ![id].silent = new.silent] /\ Unnoticed
    <3>1. DOMAIN notes' = DOMAIN notes
      BY <2>3
    <3>2. ASSUME NEW i \in DOMAIN notes, notes'[i].exp # "never"
          PROVE  Counting(notes)
      <4>1. CASE i # id
        BY <2>3, <3>2, <4>1 DEF Counting
      <4>2. CASE i = id
        <5>1. notes'[id].exp = notes[id].exp
          BY <2>1, <2>3 DEF HubOK, Note, Active
        <5> QED
          BY <2>1, <3>2, <4>2, <5>1 DEF Counting, Active
      <4> QED
        BY <4>1, <4>2
    <3> QED
      BY <2>3, <3>1, <3>2 DEF Counting, Unnoticed
  <2> QED
    BY <2>1, <2>2, <2>3 DEF Replace
<1>2. CASE Duplicate(id, new)
  BY <1>2 DEF Duplicate, Unnoticed
<1>3. CASE Merge(id, new) \/ Add(id, new)
  BY <1>3 DEF Merge, Add, Notified
<1> QED
  BY <1>1, <1>2, <1>3 DEF Post

LEMMA SameCount ==
  ASSUME UNCHANGED notes
  PROVE  Counting(notes') <=> Counting(notes)
OBVIOUS

LEMMA ElapseCounts ==
  ASSUME HubOK, NEW id, Elapse(id)
  PROVE  UNCHANGED <<timer, main, delay>> /\ (Counting(notes') => Counting(notes))
<1>1. id \in DOMAIN notes /\ notes[id].exp = "running"
  BY DEF Elapse, Active
<1> QED
  BY <1>1 DEF Elapse, Counting, toasts, loop

(* The obligation of every step, the D-Bus thread being away.               *)
TimerGoal ==
  /\ bus' = "idle" /\ main' \notin {"sweep", "tell"}
  /\ main' \in {"set", "push set"} => (Counting(notes') => delay')
  /\ Counting(notes') =>
       \/ timer' # "off" \/ main' \in {"expired", "arm"}
       \/ main' = "set" /\ delay'

LEMMA TimerStep ==
  ASSUME TimerInv, ~dbus, [Next]_vars
  PROVE  ~dbus' /\ TimerGoal
<1>1. /\ HubOK /\ bus = "idle" /\ main \notin {"sweep", "tell"} /\ main \in Places
      /\ main \in {"set", "push set"} => (Counting(notes) => delay)
      /\ Counting(notes) =>
           \/ timer # "off" \/ main \in {"expired", "arm"}
           \/ main = "set" /\ delay
      /\ timer \in {"off", "armed", "fired"}
  BY TypeParts DEF TimerInv, Alone, TimerCovers, Reading, RestOK, CallbackOK
<1> HIDE DEF TimerInv
<1>2. CASE Bus
  BY <1>1, <1>2 DEF Bus, BusNotify, BusAdd, BusClose, BusTell
<1>3. CASE UNCHANGED vars
  BY <1>1, <1>3 DEF vars, hub, toasts, loop, thread, TimerGoal
<1>4. CASE TimerFires
  BY <1>1, <1>4 DEF TimerFires, hub, toasts, loop, thread, TimerGoal
<1>5. ASSUME NEW id \in Ids, Elapse(id) PROVE ~dbus' /\ TimerGoal
  BY <1>1, <1>5, ElapseCounts DEF Elapse, loop, thread, TimerGoal
<1>6. CASE Loop
  <2>1. CASE Wake
    BY <1>1, <2>1 DEF Wake, WakesFor, Sources, hub, toasts, thread, TimerGoal
  <2>2. CASE SweepLocally
    BY <1>1, <2>2 DEF SweepLocally, thread, TimerGoal
  <2>3. CASE ListExpired \/ EndSweep \/ \E id \in Ids : SweepOne(id) \/ TellExpired(id)
    BY <1>1, <2>3 DEF ListExpired, EndSweep, SweepOne, TellExpired
  <2>4. CASE ReadDelay
    <3>1. /\ UNCHANGED <<dbus, timer, bus>> /\ Counting(notes') = Counting(notes)
          /\ delay' = Counting(notes)
          /\ \/ main = "arm" /\ main' = "set"
             \/ main = "push arm" /\ main' = "push set"
      BY <2>4, Zenon DEF ReadDelay, hub, thread
    <3>2. Counting(notes') => delay'
      BY <3>1, Zenon
    <3>3. Counting(notes') => timer' # "off" \/ main' = "set"
      BY <1>1, <3>1, SameCount DEF TimerGoal
    <3>4. bus' = "idle" /\ main' \in {"set", "push set"} /\ ~dbus'
      BY <1>1, <3>1
    <3> QED
      BY <3>2, <3>3, <3>4 DEF TimerGoal
  <2>5. CASE SetTimer
    BY <1>1, <2>5 DEF SetTimer, ArmsAgain, Sources, hub, toasts, thread, TimerGoal
  <2>6. ASSUME main' \in {"ipc", "drain", "draw", "poll"},
               main \in {"display", "ipc", "drain", "draw"},
               UNCHANGED <<dbus, notes, timer, bus>>
        PROVE  ~dbus' /\ TimerGoal
    <3>1. Counting(notes') => timer' # "off"
      BY <1>1, <2>6, SameCount
    <3> QED
      BY <1>1, <2>6, <3>1 DEF TimerGoal
  <2>7. CASE Onward("display") \/ Onward("ipc") \/ Hover \/ TakeQueue \/ Draw
    <3>1. UNCHANGED <<dbus, notes, timer, bus>>
      BY <2>7, Zenon DEF Onward, Hover, TakeQueue, Draw, hub, thread
    <3>2. main' \in {"ipc", "drain", "draw", "poll"} /\ main \in {"display", "ipc", "drain", "draw"}
      BY <2>7 DEF Onward, Hover, TakeQueue, Draw
    <3> QED
      BY <2>6, <3>1, <3>2
  <2>8. CASE Click
    <3>1. timer' = Armed(notes') \/ UNCHANGED <<notes, timer>>
      BY <2>8 DEF Click, Close, Notified
    <3> QED
      BY <1>1, <2>8, <3>1, CallbackArms, SameCount DEF Click, thread, TimerGoal
  <2>9. CASE Push
    <3>1. timer' = Armed(notes') \/ (timer' = timer /\ (Counting(notes') => Counting(notes)))
      <4>1. ASSUME NEW app \in PushApps, NEW content \in Contents
            PROVE  NewNote(app, content, TRUE, FALSE) \in Note
        BY NewNoteType, AppsAssumption
      <4>2. ASSUME NEW app \in PushApps, NEW content \in Contents, NEW id \in Ids,
                   NEW replaces, Post(replaces, NewNote(app, content, TRUE, FALSE), id)
            PROVE  timer' = Armed(notes') \/ (timer' = timer /\ (Counting(notes') => Counting(notes)))
        BY <1>1, <4>1, <4>2, PostCounts
      <4> QED
        BY <2>9, <4>2, SameCount, AppsAssumption DEF Push
    <3>2. main = "ipc" /\ main' = "push arm" /\ bus' = bus /\ dbus' = dbus
      BY <2>9 DEF Push, thread
    <3> QED
      BY <1>1, <3>1, <3>2, CallbackArms DEF TimerGoal
  <2>10. CASE ApplyConfig
    BY <1>1, <2>10, CallbackArms DEF ApplyConfig, Notified, thread, TimerGoal
  <2> QED
    BY <1>6, <2>1, <2>2, <2>3, <2>4, <2>5, <2>6, <2>7, <2>8, <2>9, <2>10 DEF Loop
<1> QED
  BY <1>2, <1>3, <1>4, <1>5, <1>6 DEF Next

(* In a session whose notifications the process does not serve over D-Bus,  *)
(* no interleaving of callbacks, sweeps and arming leaves a countdown       *)
(* without a timer.                                                         *)
THEOREM TimerAlways == Spec => []TimerCovers
<1>1. Init => TimerInv
  BY InitType DEF Init, TimerInv, Alone, Reading, TimerCovers, Counting
<1>2. TimerInv /\ [Next]_vars => TimerInv'
  <2> SUFFICES ASSUME TimerInv, [Next]_vars PROVE TimerInv'
    OBVIOUS
  <2>1. TypeOK'
    BY NextType DEF TimerInv
  <2>2. dbus' = dbus
    BY DEF Next, Loop, Bus, BusNotify, BusAdd, BusClose, BusTell, Wake, SweepLocally,
           ListExpired, SweepOne, TellExpired, EndSweep, ReadDelay, SetTimer, Onward,
           Click, Hover, Push, ApplyConfig, TakeQueue, Draw, TimerFires, Elapse, vars
  <2>3. ~dbus => TimerGoal
    BY TimerStep
  <2>4. Alone'
    BY <2>2, <2>3 DEF Alone, Reading, TimerGoal
  <2>5. TimerCovers'
    BY <2>2, <2>3 DEF TimerCovers, TimerGoal
  <2> QED
    BY <2>1, <2>4, <2>5 DEF TimerInv
<1>3. TimerInv => TimerCovers
  BY DEF TimerInv
<1> QED
  BY <1>1, <1>2, <1>3, PTL DEF Spec

-----------------------------------------------------------------------------
(* The closing of a notification.  Whoever is about to tell an id has taken *)
(* it out of the list, under the mutex, and so is alone in having it; an id *)
(* never comes back.                                                        *)
Untold(id) == id \in Ids /\ id < nextId /\ id \notin Active /\ told[id] = 0

Telling ==
  /\ \A id \in Ids : id >= nextId => told[id] = 0
  /\ bus = "tell" => Untold(closed)
  /\ main = "tell" =>
       \A id \in Ids : Oldest(id) => Untold(id) /\ (bus = "tell" => closed # id)

ToldInv == TypeOK /\ ClosedOnce /\ Telling

(* What a step may do to the list: nothing new, or the next id.             *)
Shrinks == nextId' = nextId /\ Active' \subseteq Active
Extends == nextId' = nextId + 1 /\ Active' \subseteq Active \cup {nextId}

LEMMA CloseShrinks ==
  ASSUME NEW ids, Close(ids)
  PROVE  Shrinks
BY DEF Close, Remove, Shrinks, Active

LEMMA SameShrinks ==
  ASSUME UNCHANGED <<notes, nextId>>
  PROVE  Shrinks
BY DEF Shrinks, Active

LEMMA PostExtends ==
  ASSUME HubOK, NEW replaces, NEW new, NEW id, Post(replaces, new, id)
  PROVE  Shrinks \/ Extends
<1> USE DEF Active
<1>1. CASE replaces \in Active
  <2>1. Replace(id, new)
    BY <1>1 DEF Post
  <2> QED
    BY <2>1 DEF Replace, HubOK, Shrinks
<1>2. CASE Duplicate(id, new)
  BY <1>2 DEF Duplicate, Shrinks
<1>3. CASE Merge(id, new)
  BY <1>3 DEF Merge, HubOK, Shrinks
<1>4. CASE Add(id, new)
  <2>1. Active' = Capped(Active \cup {id}) /\ id = nextId /\ nextId' = nextId + 1
    BY <1>4 DEF Add
  <2> QED
    BY <2>1 DEF Capped, Extends
<1> QED
  BY <1>1, <1>2, <1>3, <1>4 DEF Post

LEMMA UntoldKept ==
  ASSUME HubOK, Shrinks \/ Extends, UNCHANGED told, NEW id, Untold(id)
  PROVE  Untold(id)'
<1>1. nextId \in Nat /\ id \in Nat
  BY BoundAssumption DEF HubOK, Untold, Ids
<1> QED
  BY <1>1 DEF Shrinks, Extends, Untold

(* A step that changes the list and tells nobody.                           *)
LEMMA HubStep ==
  ASSUME ToldInv, Shrinks \/ Extends, UNCHANGED told
  PROVE  /\ ClosedOnce'
         /\ \A id \in Ids : id >= nextId' => told'[id] = 0
<1>1. nextId \in Nat /\ Ids \subseteq Nat /\ HubOK
  BY TypeParts, BoundAssumption DEF HubOK, ToldInv, Ids
<1>2. ASSUME NEW id \in Ids
      PROVE  told'[id] <= 1 /\ (told'[id] = 1 => id \notin Active')
  <2>1. told[id] <= 1 /\ (told[id] = 1 => id \notin Active) /\ (id >= nextId => told[id] = 0)
    BY DEF ToldInv, ClosedOnce, Telling
  <2>2. id \in Active' => id \in Active \/ id = nextId
    BY DEF Shrinks, Extends
  <2> QED
    BY <1>1, <2>1, <2>2
<1>3. ASSUME NEW id \in Ids, id >= nextId' PROVE told'[id] = 0
  BY <1>1, <1>3 DEF Shrinks, Extends, ToldInv, Telling
<1> QED
  BY <1>2, <1>3 DEF ClosedOnce

(* A step that tells an id which was untold.                                *)
LEMMA TellStep ==
  ASSUME ToldInv, UNCHANGED <<notes, nextId>>, NEW id, Untold(id), Tell(id)
  PROVE  /\ ClosedOnce'
         /\ \A i \in Ids : i >= nextId' => told'[i] = 0
         /\ \A i \in Ids : i # id => told'[i] = told[i]
<1>1. nextId \in Nat /\ Ids \subseteq Nat /\ told \in [Ids -> Nat] /\ Active' = Active
  BY TypeParts, BoundAssumption DEF HubOK, RestOK, ToldInv, Ids, Active
<1>2. id \in Ids /\ id < nextId /\ id \notin Active /\ told[id] = 0
  BY DEF Untold
<1>3. \A i \in Ids : told'[i] = IF i = id THEN 1 ELSE told[i]
  BY <1>1, <1>2 DEF Tell
<1>4. ASSUME NEW i \in Ids
      PROVE  told'[i] <= 1 /\ (told'[i] = 1 => i \notin Active')
  BY <1>1, <1>2, <1>3 DEF ToldInv, ClosedOnce
<1>5. ASSUME NEW i \in Ids, i >= nextId' PROVE told'[i] = 0
  <2>1. i # id
    BY <1>1, <1>2, <1>5
  <2> QED
    BY <1>3, <1>5, <2>1 DEF ToldInv, Telling
<1> QED
  BY <1>3, <1>4, <1>5 DEF ClosedOnce

LEMMA QuietStep ==
  ASSUME ToldInv, Shrinks \/ Extends, UNCHANGED told,
         bus' = "tell" => bus = "tell" /\ closed' = closed,
         main' = "tell" => main = "tell" /\ due' = due
  PROVE  ClosedOnce' /\ Telling'
<1>1. HubOK
  BY TypeParts DEF ToldInv
<1>2. ASSUME bus' = "tell" PROVE Untold(closed)'
  <2>1. Untold(closed) /\ closed' = closed
    BY <1>2 DEF ToldInv, Telling
  <2> QED
    BY <1>1, <2>1, UntoldKept DEF Untold
<1>3. ASSUME main' = "tell", NEW id \in Ids, Oldest(id)'
      PROVE  Untold(id)' /\ (bus' = "tell" => closed' # id)
  <2>1. Oldest(id) /\ main = "tell"
    BY <1>3 DEF Oldest
  <2>2. Untold(id) /\ (bus = "tell" => closed # id)
    BY <2>1 DEF ToldInv, Telling
  <2> QED
    BY <1>1, <2>2, UntoldKept
<1> QED
  BY <1>2, <1>3, HubStep DEF Telling

LEMMA BusTold ==
  ASSUME ToldInv, Bus
  PROVE  ClosedOnce' /\ Telling'
<1>1. CASE BusNotify
  <2>1. Shrinks
    BY <1>1, SameShrinks DEF BusNotify, hub
  <2> QED
    BY <1>1, <2>1, QuietStep DEF BusNotify, loop
<1>2. CASE BusAdd
  <2>1. Shrinks \/ Extends
    BY <1>2, TypeParts, PostExtends DEF BusAdd, ToldInv
  <2> QED
    BY <1>2, <2>1, QuietStep DEF BusAdd, loop
<1>3. CASE BusClose
  <2>1. PICK id \in Active : Close({id}) /\ closed' = id
    BY <1>3 DEF BusClose
  <2>2. /\ bus = "idle" /\ bus' = "tell" /\ main' = main /\ due' = due /\ told' = told
    BY <1>3 DEF BusClose, loop
  <2>3. /\ HubOK /\ told \in [Ids -> Nat] /\ id \in Ids /\ nextId \in Nat
        /\ id < nextId
    BY TypeParts, ActiveFinite, BoundAssumption DEF ToldInv, HubOK, RestOK
  <2>4. told[id] = 0
    BY <2>3 DEF ToldInv, ClosedOnce
  <2>5. Shrinks /\ id \notin Active'
    BY <2>1, CloseShrinks DEF Close, Remove, Active
  <2>6. Untold(closed)'
    BY <2>1, <2>2, <2>3, <2>4, <2>5 DEF Untold, Shrinks
  <2>7. ASSUME main' = "tell", NEW i \in Ids, Oldest(i)'
        PROVE  Untold(i)' /\ closed' # i
    <3>1. Oldest(i) /\ main = "tell"
      BY <2>2, <2>7 DEF Oldest
    <3>2. Untold(i)
      BY <3>1 DEF ToldInv, Telling
    <3> QED
      BY <2>1, <2>2, <2>3, <2>5, <3>2, UntoldKept DEF Untold
  <2> QED
    BY <2>2, <2>5, <2>6, <2>7, HubStep DEF Telling
<1>4. CASE BusTell
  <2>1. /\ bus = "tell" /\ bus' = "idle" /\ Tell(closed) /\ UNCHANGED <<notes, nextId>>
        /\ main' = main /\ due' = due
    BY <1>4 DEF BusTell, hub, loop
  <2>2. Untold(closed)
    BY <2>1 DEF ToldInv, Telling
  <2>3. /\ ClosedOnce'
        /\ \A i \in Ids : i >= nextId' => told'[i] = 0
        /\ \A i \in Ids : i # closed => told'[i] = told[i]
    BY <2>1, <2>2, TellStep
  <2>4. ASSUME main' = "tell", NEW i \in Ids, Oldest(i)'
        PROVE  Untold(i)'
    <3>1. Oldest(i) /\ main = "tell"
      BY <2>1, <2>4 DEF Oldest
    <3>2. Untold(i) /\ closed # i
      BY <2>1, <3>1 DEF ToldInv, Telling
    <3> QED
      BY <2>1, <2>3, <3>2 DEF Untold, Active
  <2> QED
    BY <2>1, <2>3, <2>4 DEF Telling
<1> QED
  BY <1>1, <1>2, <1>3, <1>4 DEF Bus

LEMMA SweepTold ==
  ASSUME ToldInv, NEW id \in Ids, SweepOne(id) \/ TellExpired(id)
  PROVE  ClosedOnce' /\ Telling'
<1>0. /\ HubOK /\ told \in [Ids -> Nat] /\ Ids \subseteq Nat
  BY TypeParts, BoundAssumption DEF ToldInv, RestOK, Ids
<1>1. CASE SweepOne(id) /\ id \in Active
  <2>1. /\ Oldest(id) /\ Close({id}) /\ due' = due /\ told' = told
        /\ bus' = bus /\ closed' = closed
    BY <1>1 DEF SweepOne, TellsClosed, thread
  <2>2. Shrinks /\ id \notin Active'
    BY <2>1, CloseShrinks DEF Close, Remove, Active
  <2>3. told[id] = 0 /\ id < nextId /\ nextId' = nextId
    BY <1>0, <1>1, <2>2 DEF ToldInv, ClosedOnce, HubOK, Shrinks
  <2>4. ASSUME bus' = "tell" PROVE Untold(closed)' /\ closed' # id
    <3>1. Untold(closed)
      BY <2>1, <2>4 DEF ToldInv, Telling
    <3> QED
      BY <1>0, <1>1, <2>1, <2>2, <3>1, UntoldKept DEF Untold
  <2>5. ASSUME NEW i \in Ids, Oldest(i)'
        PROVE  Untold(i)' /\ (bus' = "tell" => closed' # i)
    <3>1. i = id
      BY <1>0, <2>1, <2>5 DEF Oldest
    <3> QED
      BY <2>1, <2>2, <2>3, <2>4, <3>1 DEF Untold
  <2> QED
    BY <2>1, <2>2, <2>4, <2>5, HubStep DEF Telling
<1>2. CASE SweepOne(id) /\ id \notin Active
  <2>1. Shrinks
    BY <1>2, SameShrinks DEF SweepOne
  <2> QED
    BY <1>2, <2>1, QuietStep DEF SweepOne, TellsClosed, thread
<1>3. CASE TellExpired(id)
  <2>1. /\ main = "tell" /\ main' = "sweep" /\ Oldest(id) /\ Tell(id)
        /\ UNCHANGED <<notes, nextId>> /\ bus' = bus /\ closed' = closed
    BY <1>3 DEF TellExpired, hub
  <2>2. Untold(id) /\ (bus = "tell" => closed # id)
    BY <2>1 DEF ToldInv, Telling
  <2>3. /\ ClosedOnce'
        /\ \A i \in Ids : i >= nextId' => told'[i] = 0
        /\ \A i \in Ids : i # id => told'[i] = told[i]
    BY <2>1, <2>2, TellStep
  <2>4. ASSUME bus' = "tell" PROVE Untold(closed)'
    <3>1. Untold(closed) /\ closed # id
      BY <2>1, <2>2, <2>4 DEF ToldInv, Telling
    <3> QED
      BY <2>1, <2>3, <3>1 DEF Untold, Active
  <2> QED
    BY <2>1, <2>3, <2>4 DEF Telling
<1> QED
  BY <1>1, <1>2, <1>3

LEMMA LoopTold ==
  ASSUME ToldInv,
         \/ Wake \/ SweepLocally \/ ListExpired \/ EndSweep \/ ReadDelay \/ SetTimer
         \/ Onward("display") \/ Onward("ipc") \/ Click \/ Hover \/ Push
         \/ ApplyConfig \/ TakeQueue \/ Draw
  PROVE  ClosedOnce' /\ Telling'
<1>1. UNCHANGED <<bus, closed, told>> /\ main' # "tell"
  BY DEF Wake, WakesFor, Sources, SweepLocally, ListExpired, EndSweep, ReadDelay,
         SetTimer, Onward, Click, Hover, Push, ApplyConfig, TakeQueue, Draw, thread
<1>2. Shrinks \/ Extends
  <2>1. CASE SweepLocally \/ Click \/ ApplyConfig
    <3>1. Shrinks
      BY <2>1, CloseShrinks, SameShrinks
         DEF SweepLocally, Click, ApplyConfig, Remove, Shrinks, Active, hub
    <3> QED
      BY <3>1
  <2>2. CASE Push
    <3>1. ASSUME NEW replaces, NEW new, NEW id, Post(replaces, new, id)
          PROVE  Shrinks \/ Extends
      BY <3>1, TypeParts, PostExtends DEF ToldInv
    <3> QED
      BY <2>2, <3>1, SameShrinks DEF Push
  <2>3. CASE \/ Wake \/ ListExpired \/ EndSweep \/ ReadDelay \/ SetTimer
             \/ Onward("display") \/ Onward("ipc") \/ Hover \/ TakeQueue \/ Draw
    BY <2>3, SameShrinks DEF Wake, ListExpired, EndSweep, ReadDelay, SetTimer, Onward,
                             Hover, TakeQueue, Draw, hub
  <2> QED
    BY <2>1, <2>2, <2>3
<1> QED
  BY <1>1, <1>2, QuietStep

(* However a CloseNotification meets the sweep of the same notification, or *)
(* its replacement, the application is told once, and only of one that is   *)
(* gone.                                                                    *)
THEOREM ToldOnce == Spec => []ClosedOnce
<1>1. Init => ToldInv
  BY InitType, BoundAssumption DEF Init, ToldInv, ClosedOnce, Telling, Ids
<1>2. ToldInv /\ [Next]_vars => ToldInv'
  <2> SUFFICES ASSUME ToldInv, [Next]_vars PROVE ToldInv'
    OBVIOUS
  <2>1. TypeOK'
    BY NextType DEF ToldInv
  <2>2. CASE Loop
    BY <2>1, <2>2, SweepTold, LoopTold DEF Loop, ToldInv
  <2>3. CASE TimerFires \/ UNCHANGED vars
    <3>1. Shrinks
      BY <2>3, SameShrinks DEF TimerFires, vars, hub
    <3> QED
      BY <2>1, <2>3, <3>1, QuietStep DEF TimerFires, vars, loop, thread, ToldInv
  <2>4. ASSUME NEW id \in Ids, Elapse(id) PROVE ToldInv'
    <3>1. Shrinks
      BY <2>4 DEF Elapse, Shrinks, Active
    <3> QED
      BY <2>1, <2>4, <3>1, QuietStep DEF Elapse, loop, thread, ToldInv
  <2> QED
    BY <2>1, <2>2, <2>3, <2>4, BusTold DEF Next, ToldInv
<1> QED
  BY <1>1, <1>2, PTL DEF Spec, ToldInv

-----------------------------------------------------------------------------
(* The toasts.  What they show of a notification changes only under a       *)
(* callback: a replacement that runs none keeps application and content,    *)
(* and is a slip when it does not keep the silence.                         *)
CardsInv == TypeOK /\ CardsCurrent

SameShown ==
  /\ Active' = Active
  /\ \A id \in Active : /\ notes'[id].app = notes[id].app
                        /\ notes'[id].content = notes[id].content
                        /\ notes'[id].silent = notes[id].silent

LEMMA ShownCards ==
  ASSUME SameShown, UNCHANGED quiet
  PROVE  Cards' = Cards
<1>1. Heard' = Heard /\ Heard \subseteq Active
  BY DEF Heard, SameShown
<1>2. FirstOfApp' = FirstOfApp /\ FirstOfApp \subseteq Active
  <2>1. ASSUME NEW id \in Heard
        PROVE  {i \in Heard : notes'[i].app = notes'[id].app}
                 = {i \in Heard : notes[i].app = notes[id].app}
    BY <1>1 DEF SameShown
  <2> QED
    BY <1>1, <2>1 DEF FirstOfApp, Newest
<1>3. Distinct' = Distinct
  <2>1. ASSUME NEW id \in FirstOfApp
        PROVE  {i \in FirstOfApp : notes'[i].content = notes'[id].content}
                 = {i \in FirstOfApp : notes[i].content = notes[id].content}
    BY <1>2 DEF SameShown
  <2> QED
    BY <1>2, <2>1 DEF Distinct, Newest
<1> QED
  BY <1>3 DEF Cards

LEMMA SameListShown ==
  ASSUME UNCHANGED notes
  PROVE  SameShown
BY DEF SameShown, Active

(* What a step does to the toasts: it asks for them, slips, or shows the    *)
(* same.                                                                    *)
Shows ==
  \/ redraw' = TRUE
  \/ redraw' = redraw /\ slipped' = TRUE
  \/ redraw' = redraw /\ slipped' = slipped /\ SameShown

LEMMA SameListShows ==
  ASSUME UNCHANGED <<notes, redraw, slipped>>
  PROVE  Shows
BY SameListShown DEF Shows

LEMMA PostShows ==
  ASSUME HubOK, slipped \in BOOLEAN, NEW replaces, NEW new \in Note, NEW id,
         Post(replaces, new, id)
  PROVE  Shows
<1> USE DEF Active
<1>1. CASE replaces \in Active
  <2>1. id \in Active /\ Replace(id, new)
    BY <1>1 DEF Post
  <2>2. CASE Notified
    BY <2>2 DEF Notified, Shows
  <2>3. CASE /\ ~Differs(notes[id], new) /\ Unnoticed
             /\ notes' = [notes EXCEPT ![id].silent = new.silent]
             /\ slipped' = (slipped \/ new.silent # notes[id].silent)
    <3>1. CASE new.silent # notes[id].silent
      <4>1. slipped' = TRUE
        BY <2>3, <3>1, Zenon
      <4> QED
        BY <2>3, <4>1 DEF Unnoticed, Shows
    <3>2. CASE new.silent = notes[id].silent
      <4>1. slipped' = slipped
        BY <2>3, <3>2, Zenon
      <4>2. notes[id] \in Note
        BY <2>1 DEF HubOK
      <4>3. SameShown
        BY <2>3, <3>2, <4>2 DEF SameShown, Note
      <4> QED
        BY <2>3, <4>1, <4>3 DEF Unnoticed, Shows
    <3> QED
      BY <3>1, <3>2
  <2> QED
    BY <2>1, <2>2, <2>3 DEF Replace
<1>2. CASE Duplicate(id, new)
  BY <1>2, SameListShows DEF Duplicate, Unnoticed
<1>3. CASE Merge(id, new) \/ Add(id, new)
  BY <1>3 DEF Merge, Add, Notified, Shows
<1> QED
  BY <1>1, <1>2, <1>3 DEF Post

(* The step of an action that leaves the cards as they are.                 *)
LEMMA ShowsStep ==
  ASSUME CardsInv, Shows, UNCHANGED <<quiet, cards>>, main = "draw" => main' = "draw"
  PROVE  CardsCurrent'
<1>1. CASE redraw' = TRUE \/ slipped' = TRUE
  BY <1>1 DEF CardsCurrent
<1>2. CASE redraw' = redraw /\ slipped' = slipped /\ SameShown
  BY <1>2, ShownCards DEF CardsInv, CardsCurrent
<1> QED
  BY <1>1, <1>2 DEF Shows

LEMMA BusCards ==
  ASSUME CardsInv, Bus
  PROVE  CardsCurrent'
<1>1. CASE BusNotify \/ BusTell
  <2>1. UNCHANGED <<notes, redraw, slipped, quiet, cards, main>>
    BY <1>1 DEF BusNotify, BusTell, hub, toasts, loop
  <2> QED
    BY <2>1, SameListShows, ShowsStep
<1>2. CASE BusAdd
  <2>1. PICK replaces \in 0 .. nextId - 1, app \in Apps, content \in Contents,
             times \in BOOLEAN, silent \in BOOLEAN, id \in Ids :
               Post(replaces, NewNote(app, content, times, silent), id)
    BY <1>2 DEF BusAdd
  <2>2. NewNote(app, content, times, silent) \in Note
    BY NewNoteType
  <2>3. HubOK /\ slipped \in BOOLEAN
    BY TypeParts DEF CardsInv, TypeOK
  <2>4. Shows
    BY <2>1, <2>2, <2>3, PostShows
  <2>5. UNCHANGED <<quiet, cards, main>>
    BY <1>2 DEF BusAdd, loop
  <2> QED
    BY <2>4, <2>5, ShowsStep
<1>3. CASE BusClose
  BY <1>3 DEF BusClose, Close, Notified, CardsCurrent
<1> QED
  BY <1>1, <1>2, <1>3 DEF Bus

LEMMA LoopCards ==
  ASSUME CardsInv, Loop
  PROVE  CardsCurrent'
<1>1. CASE \/ Wake \/ ListExpired \/ EndSweep \/ ReadDelay \/ SetTimer
           \/ Onward("display") \/ Onward("ipc") \/ \E id \in Ids : TellExpired(id)
  <2>1. UNCHANGED <<notes, redraw, slipped, quiet, cards>> /\ main # "draw"
    BY <1>1 DEF Wake, ListExpired, EndSweep, ReadDelay, SetTimer, Onward, TellExpired,
                hub, toasts
  <2> QED
    BY <2>1, SameListShows, ShowsStep
<1>2. CASE SweepLocally \/ Click \/ \E id \in Ids : SweepOne(id)
  <2>1. UNCHANGED <<notes, redraw>> \/ redraw' = TRUE
    BY <1>2, Zenon DEF SweepLocally, Click, SweepOne, Close, Notified, hub
  <2>2. UNCHANGED <<quiet, cards, slipped>> /\ main # "draw"
    BY <1>2 DEF SweepLocally, Click, SweepOne
  <2>3. Shows
    BY <2>1, <2>2, SameListShows DEF Shows
  <2> QED
    BY <2>2, <2>3, ShowsStep
<1>3. CASE Push
  <2>1. UNCHANGED <<quiet, cards>> /\ main # "draw"
    BY <1>3 DEF Push
  <2>2. HubOK /\ slipped \in BOOLEAN
    BY TypeParts DEF CardsInv, TypeOK
  <2>3. ASSUME NEW app \in PushApps, NEW content \in Contents, NEW id \in Ids,
               NEW replaces, Post(replaces, NewNote(app, content, TRUE, FALSE), id)
        PROVE  Shows
    <3>1. NewNote(app, content, TRUE, FALSE) \in Note
      BY AppsAssumption, NewNoteType
    <3> QED
      BY <2>2, <2>3, <3>1, PostShows
  <2>4. Shows
    BY <1>3, <2>3, SameListShows, AppsAssumption DEF Push
  <2> QED
    BY <2>1, <2>4, ShowsStep
<1>4. CASE ApplyConfig
  BY <1>4 DEF ApplyConfig, Notified, CardsCurrent
<1>5. CASE Hover \/ Draw
  <2>1. UNCHANGED <<notes, quiet>> /\ cards' = Cards
    BY <1>5 DEF Hover, Draw, hub
  <2>2. Cards' = Cards
    BY <2>1, SameListShown, ShownCards
  <2> QED
    BY <2>1, <2>2 DEF CardsCurrent
<1>6. CASE TakeQueue
  <2>1. /\ UNCHANGED <<notes, quiet, cards, slipped>> /\ main = "drain"
        /\ main' = IF redraw THEN "draw" ELSE "poll"
    BY <1>6 DEF TakeQueue, hub
  <2>2. Cards' = Cards
    BY <2>1, SameListShown, ShownCards
  <2> QED
    BY <2>1, <2>2 DEF CardsCurrent, CardsInv
<1> QED
  BY <1>1, <1>2, <1>3, <1>4, <1>5, <1>6 DEF Loop

(* Whichever thread changed the list and however the loop went over it, the *)
(* toasts are those of the list as soon as the queue is empty, or a call    *)
(* without a callback has changed since which notifications are silent.     *)
THEOREM ToastsCurrent == Spec => []CardsCurrent
<1>1. Init => CardsInv
  <2>1. ASSUME Init PROVE CardsCurrent
    <3>1. Active = {} /\ cards = {}
      BY <2>1 DEF Init, Active
    <3>2. Cards = {}
      BY <3>1 DEF Cards, Distinct, FirstOfApp, Heard
    <3> QED
      BY <3>1, <3>2 DEF CardsCurrent
  <2> QED
    BY <2>1, InitType DEF CardsInv
<1>2. CardsInv /\ [Next]_vars => CardsInv'
  <2> SUFFICES ASSUME CardsInv, [Next]_vars PROVE CardsInv'
    OBVIOUS
  <2>1. TypeOK'
    BY NextType DEF CardsInv
  <2>2. CASE TimerFires \/ UNCHANGED vars
    <3>1. UNCHANGED <<notes, redraw, slipped, quiet, cards, main>>
      BY <2>2 DEF TimerFires, vars, hub, toasts, loop
    <3> QED
      BY <2>1, <3>1, SameListShows, ShowsStep DEF CardsInv
  <2>3. ASSUME NEW id \in Ids, Elapse(id) PROVE CardsInv'
    <3>1. /\ id \in Active /\ notes' = [notes EXCEPT ![id].exp = "due"]
          /\ UNCHANGED <<redraw, slipped, quiet, cards, main>>
      BY <2>3 DEF Elapse, toasts, loop
    <3>2. SameShown
      BY <3>1, TypeParts DEF SameShown, CardsInv, HubOK, Active, Note
    <3>3. Shows
      BY <3>1, <3>2 DEF Shows
    <3> QED
      BY <2>1, <3>1, <3>3, ShowsStep DEF CardsInv
  <2> QED
    BY <2>1, <2>2, <2>3, BusCards, LoopCards DEF Next, CardsInv
<1> QED
  BY <1>1, <1>2, PTL DEF Spec, CardsInv

=============================================================================
