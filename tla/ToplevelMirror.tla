--------------------------- MODULE ToplevelMirror ---------------------------
(***************************************************************************)
(* The window list, from the compositor to its mirror in other processes:  *)
(* the foreign-toplevel tracker, the bridge and ToplevelService on the     *)
(* supervisor's main thread, and the ToplevelClient of every component     *)
(* that starts one.                                                        *)
(*                                                                         *)
(* The IPC bus between them is what IpcBus shows it to be: subscribed      *)
(* events and answers reach a connection once and in order, until it ends. *)
(* A window's serial is kept in every record, where no code reads it, to   *)
(* tell which window an id stands for; a title stands for title and flags. *)
(***************************************************************************)
EXTENDS Naturals, FiniteSets, SequencesExt, Subsequences

CONSTANTS Handles,     \* the handles libwayland allots, reused once destroyed
          Apps,        \* application ids, NoName the empty one
          Titles,      \* titles, NoName the empty one
          Clients,     \* the ToplevelClients
          NoName,
          MaxWindows,  \* bound: windows opened in a behaviour
          MaxChanges   \* bound: title and app_id events in a behaviour

ASSUME NamesAssumption == NoName \in Apps \cap Titles
ASSUME BoundsAssumption == MaxWindows \in Nat /\ MaxChanges \in Nat

VARIABLES
  toplevels,           \* toplevels_: the open windows, in order of appearance
  serials,             \* nextSerial_
  changes,             \* property events so far
  snapshot, nextId,    \* snapshot_ (keyToId_ maps its keys to its ids), nextId_
  subscribed,          \* per client, the topics its connection subscribes to
  asked,               \* per client, its call has not reached the server yet
  down, rbuf,          \* per client, frames on their way, frames not decoded
  stage,               \* per client, the call start() waits in, or its end
  pending,             \* per client, pending_: the events seen while syncing
  list                 \* per client, list_

tracker == <<toplevels, serials, changes>>
service == <<snapshot, nextId>>
client  == <<rbuf, stage, pending, list>>
vars    == <<tracker, service, subscribed, asked, down, client>>

Topics == {"created", "updated", "closed"}
Calls  == Topics \cup {"list"}
Windows == [key : Handles, serial : Nat, app : Apps, title : Titles]
Records == [key : Handles, serial : Nat, app : Apps, title : Titles, id : Nat]

Ack == [topic |-> "ack"]
Events == [topic : Topics, record : Records]
Frames == Events \cup {Ack} \cup [topic : {"listing"}, records : SUBSET Records]
IsNoAck(f) == f.topic # "ack"
IsEvent(f) == f.topic \in Topics

Init ==
  /\ toplevels = <<>> /\ serials = 0 /\ changes = 0
  /\ snapshot = <<>> /\ nextId = 1
  /\ subscribed = [c \in Clients |-> {}] /\ asked = [c \in Clients |-> FALSE]
  /\ down = [c \in Clients |-> <<>>] /\ rbuf = [c \in Clients |-> <<>>]
  /\ stage = [c \in Clients |-> "off"] /\ pending = [c \in Clients |-> <<>>]
  /\ list = [c \in Clients |-> {}]

-----------------------------------------------------------------------------
(* ToplevelService::set_snapshot: what is new is told from the last         *)
(* snapshot, and published before it is replaced.                           *)
Each(s, F(_)) == [i \in DOMAIN s |-> F(s[i])]

Previous(w) == {s \in ToSet(snapshot) : s.key = w.key}
Reused(w)   == Previous(w) # {}
Keeps(w)    == \E s \in Previous(w) : s.app = w.app
PreviousOf(w) == CHOOSE s \in Previous(w) : TRUE

(* A key keeps its id; a new one, or one whose app id has changed, gets the *)
(* next.                                                                    *)
Assigned(ws) ==
  [i \in DOMAIN ws |->
    [key |-> ws[i].key, serial |-> ws[i].serial,
     app |-> ws[i].app, title |-> ws[i].title,
     id |-> IF Keeps(ws[i]) THEN PreviousOf(ws[i]).id
            ELSE nextId + Cardinality({j \in 1 .. i - 1 : ~Keeps(ws[j])})]]

Event(topic, r) == [topic |-> topic, record |-> r]
Closed(r)  == Event("closed", r)
IsNew(r)   == r.id >= nextId
News(r)    == Event(IF IsNew(r) THEN "created" ELSE "updated", r)

(* The windows whose key has another id now, the records whose key is gone, *)
(* and the ones to tell of.                                                 *)
Reborn      == {w \in Windows : Reused(w) /\ ~Keeps(w)}
Rebirth(w)  == Closed(PreviousOf(w))
Missing(ws) == {s \in Records : \A i \in DOMAIN ws : ws[i].key # s.key}
Changed     == {r \in Records : IsNew(r) \/ PreviousOf(r).title # r.title}

Deltas(ws) == Each(Only(ws, Reborn), Rebirth)
              \o Each(Only(snapshot, Missing(ws)), Closed)
              \o Each(Only(Assigned(ws), Changed), News)

SetSnapshot(ws) ==
  /\ snapshot' = Assigned(ws)
  /\ nextId' = nextId + Cardinality({i \in DOMAIN ws : ~Keeps(ws[i])})
  /\ down' = [c \in Clients |->
                down[c] \o Only(Deltas(ws), [topic : subscribed[c], record : Records])]
  /\ UNCHANGED <<subscribed, asked, client>>

-----------------------------------------------------------------------------
(* The tracker.  The bridge's callback runs, and takes all that the tracker *)
(* holds, when any window appears, is done with an update or closes.        *)
OnToplevel(h) ==
  /\ serials < MaxWindows /\ \A i \in DOMAIN toplevels : toplevels[i].key # h
  /\ toplevels' = Append(toplevels, [key |-> h, serial |-> serials,
                                     app |-> NoName, title |-> NoName])
  /\ serials' = serials + 1
  /\ SetSnapshot(toplevels')
  /\ UNCHANGED changes

Change(w) ==
  /\ changes < MaxChanges /\ w # toplevels
  /\ toplevels' = w
  /\ changes' = changes + 1
  /\ UNCHANGED <<serials, service, subscribed, asked, down, client>>

OnAppId(i, a) == Change([toplevels EXCEPT ![i].app = a])
OnTitle(i, t) == Change([toplevels EXCEPT ![i].title = t])

OnDone ==
  /\ toplevels # <<>>
  /\ SetSnapshot(toplevels)
  /\ UNCHANGED tracker

NotNotified(ws) == UNCHANGED <<service, subscribed, asked, down, client>>
Notified(ws) == SetSnapshot(ws)

OnClosed(i) ==
  /\ toplevels' = RemoveAt(toplevels, i)
  /\ Notified(toplevels')
  /\ UNCHANGED <<serials, changes>>

-----------------------------------------------------------------------------
(* The bus, on the same thread: an answer joins the queue of the events.    *)
Listing == [topic |-> "listing", records |-> ToSet(snapshot)]

Serve(c) ==
  /\ asked[c]
  /\ asked' = [asked EXCEPT ![c] = FALSE]
  /\ subscribed' = [subscribed EXCEPT ![c] = @ \cup (Topics \cap {stage[c]})]
  /\ down' = [down EXCEPT ![c] =
                Append(@, IF stage[c] = "list" THEN Listing ELSE Ack)]
  /\ UNCHANGED <<tracker, service, client>>

-----------------------------------------------------------------------------
(* ToplevelClient.  An event refreshes or removes the record of its id;     *)
(* only a creation adds one.                                                *)
Applied(l, e) ==
  LET same == {r \in l : r.id = e.record.id}
  IN IF e.topic = "closed" THEN l \ same
     ELSE IF e.topic = "created" \/ same # {} THEN (l \ same) \cup {e.record}
     ELSE l
Replay(l, events) ==
  LET Mirror[i \in Nat] ==
        IF i = 0 THEN l ELSE Applied(Mirror[i - 1], events[i])
  IN Mirror[Len(events)]

Start(c) ==
  /\ stage[c] = "off"
  /\ stage' = [stage EXCEPT ![c] = "created"]
  /\ asked' = [asked EXCEPT ![c] = TRUE]
  /\ UNCHANGED <<tracker, service, subscribed, down, rbuf, pending, list>>

(* Inside a call, the bytes that have arrived are read once rbuf_ holds no  *)
(* frame.                                                                   *)
Read(c) ==
  /\ stage[c] \in Calls /\ rbuf[c] = <<>>
  /\ \E n \in 1 .. Len(down[c]) :
       /\ rbuf' = [rbuf EXCEPT ![c] = SubSeq(down[c], 1, n)]
       /\ down' = [down EXCEPT ![c] = SubSeq(@, n + 1, Len(@))]
  /\ UNCHANGED <<tracker, service, subscribed, asked, stage, pending, list>>

Pump(c) ==
  /\ stage[c] \in Calls /\ rbuf[c] # <<>>
  /\ rbuf' = [rbuf EXCEPT ![c] = Tail(@)]
  /\ UNCHANGED <<tracker, service, subscribed, down>>

(* There is no handler before the topics are subscribed, and then syncing_. *)
PumpEvent(c) ==
  /\ Pump(c) /\ IsEvent(Head(rbuf[c]))
  /\ pending' = IF stage[c] # "list" THEN pending
                ELSE [pending EXCEPT ![c] = Append(@, Head(rbuf[c]))]
  /\ UNCHANGED <<asked, stage, list>>

AfterListTooEarly(s) ==
  [created |-> "updated", updated |-> "list", closed |-> "list"][s]
After(s) == [created |-> "updated", updated |-> "closed", closed |-> "list"][s]

PumpAck(c) ==
  /\ Pump(c) /\ Head(rbuf[c]) = Ack
  /\ stage' = [stage EXCEPT ![c] = After(@)]
  /\ asked' = [asked EXCEPT ![c] = TRUE]
  /\ UNCHANGED <<pending, list>>

PumpListing(c) ==
  /\ Pump(c) /\ Head(rbuf[c]).topic = "listing"
  /\ list' = [list EXCEPT ![c] = Replay(Head(rbuf[c]).records, pending[c])]
  /\ stage' = [stage EXCEPT ![c] = "live"]
  /\ pending' = [pending EXCEPT ![c] = <<>>]
  /\ UNCHANGED asked

(* A call times out or its connection ends: start() fails, and may be tried *)
(* again.  A connection that ends later leaves the mirror as it is.         *)
Ends(c, how) ==
  /\ stage' = [stage EXCEPT ![c] = how]
  /\ subscribed' = [subscribed EXCEPT ![c] = {}]
  /\ asked' = [asked EXCEPT ![c] = FALSE]
  /\ down' = [down EXCEPT ![c] = <<>>] /\ rbuf' = [rbuf EXCEPT ![c] = <<>>]
  /\ pending' = [pending EXCEPT ![c] = <<>>]
  /\ UNCHANGED <<tracker, service, list>>

StartFails(c) == stage[c] \in Calls /\ Ends(c, "off")
ConnectionLost(c) == stage[c] = "live" /\ Ends(c, "lost")

(* on_fd_ready: all that has arrived is decoded and applied.                *)
Decoded(frames) == Only(frames, Events)
OnFdReady(c) ==
  /\ stage[c] = "live"
  /\ \E n \in 1 .. Len(down[c]) :
       /\ list' = [list EXCEPT ![c] =
                     Replay(@, Decoded(rbuf[c] \o SubSeq(down[c], 1, n)))]
       /\ down' = [down EXCEPT ![c] = SubSeq(@, n + 1, Len(@))]
  /\ rbuf' = [rbuf EXCEPT ![c] = <<>>]
  /\ UNCHANGED <<tracker, service, subscribed, asked, stage, pending>>

-----------------------------------------------------------------------------
Compositor ==
  \/ \E h \in Handles : OnToplevel(h)
  \/ \E i \in DOMAIN toplevels : \/ \E a \in Apps : OnAppId(i, a)
                                 \/ \E t \in Titles : OnTitle(i, t)
                                 \/ OnClosed(i)
  \/ OnDone
Client(c) == \/ Start(c) \/ Read(c)
             \/ PumpEvent(c) \/ PumpAck(c) \/ PumpListing(c)
             \/ OnFdReady(c) \/ StartFails(c) \/ ConnectionLost(c)

Next == Compositor \/ \E c \in Clients : Serve(c) \/ Client(c)

Spec == Init /\ [][Next]_vars

-----------------------------------------------------------------------------
TypeOK ==
  /\ toplevels \in Seq(Windows) /\ serials \in 0 .. MaxWindows
  /\ changes \in 0 .. MaxChanges
  /\ snapshot \in Seq(Records) /\ nextId \in Nat
  /\ subscribed \in [Clients -> SUBSET Topics] /\ asked \in [Clients -> BOOLEAN]
  /\ down \in [Clients -> Seq(Frames)] /\ rbuf \in [Clients -> Seq(Frames)]
  /\ pending \in [Clients -> Seq(Events)]
  /\ list \in [Clients -> SUBSET Records]
  /\ stage \in [Clients -> Calls \cup {"off", "live", "lost"}]

(* Whatever mixture of listing, buffered, unread and travelling events a    *)
(* client holds, once it has applied them its mirror is the snapshot.       *)
Arriving(c) == rbuf[c] \o down[c]
Arrived(c)  == Only(Arriving(c), Events)
Listings(c) == {Arriving(c)[i].records :
                  i \in {j \in DOMAIN Arriving(c) :
                           Arriving(c)[j].topic = "listing"}}
MirrorExact ==
  \A c \in Clients :
    /\ stage[c] = "live" => Replay(list[c], Arrived(c)) = ToSet(snapshot)
    /\ \A l \in Listings(c) :
         Replay(l, pending[c] \o Arrived(c)) = ToSet(snapshot)

(* An id names one window under one app id: one that is no longer published *)
(* is never published again, though handles are reused and apps renamed.    *)
IdsNeverReused ==
  [][\A r \in ToSet(snapshot') :
       r.id >= nextId \/ \E s \in ToSet(snapshot) :
                           s.id = r.id /\ s.serial = r.serial /\ s.app = r.app
    ]_vars
=============================================================================
