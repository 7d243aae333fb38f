---------------------------- MODULE PolkitAgent ----------------------------
(***************************************************************************)
(* The polkit agent, once registered: the listener that polkitd calls, the *)
(* service behind it, the dialog with its exclusive keyboard grab, and the *)
(* detached threads that cancel a session.                                 *)
(*                                                                         *)
(* The main thread alternates between input, dispatched by the display,    *)
(* and one dispatch_glib, in which any number of GLib callbacks run.  Each *)
(* use of the service's mutex is one step.  A session and its cookie are   *)
(* named by the authentication they belong to; texts are left out.         *)
(***************************************************************************)
EXTENDS Integers

CONSTANTS Auths,    \* the authentications polkitd asks for
          None,     \* no authentication
          MaxAsks   \* bound: prompts of one authentication

ASSUME NoneAssumption == None \notin Auths
ASSUME AsksAssumption == MaxAsks \in Nat

VARIABLES
  phase,      \* "input", or inside dispatch_glib: "glib", "notify", and in
              \* show, "map" with a surface just made, "show" with an old one
  didChange,  \* did_state_change
  \* PolkitAuthService
  state, prompt, echo,   \* state, prompt_active, echo_on
  active,                \* active_session
  cookie, cancelArmed, pendingEnd,
  changed,               \* state_changed
  \* EhPolkitListener
  session,    \* its active_session, and the task to be returned with it
  \* PolkitAuthDialog
  visible, shown,        \* visible, shown_cookie
  surf,       \* there is a surface
  denied,     \* history: the compositor refused the surface of the latest
              \* show, or took it away since
  field,      \* password_field: the authentications it was typed for
  \* the cancel threads
  worker,     \* per authentication, where the thread that cancels it is
  \* the PolkitAgentSession of each authentication, and its PAM helper
  helper, asks, refs

service  == <<state, prompt, echo, active, cookie, cancelArmed, pendingEnd,
              changed>>
dialog   == <<visible, shown, surf, denied, field>>
external == <<helper, asks>>
vars     == <<phase, didChange, service, session, dialog, worker, external,
              refs>>

Init ==
  /\ phase = "input" /\ didChange = FALSE
  /\ state = "Idle" /\ prompt = FALSE /\ echo = TRUE /\ active = None
  /\ cookie = None /\ cancelArmed = FALSE /\ pendingEnd = FALSE
  /\ changed = FALSE
  /\ session = None
  /\ visible = FALSE /\ shown = None /\ field = {}
  /\ surf = FALSE /\ denied = FALSE
  /\ worker = [a \in Auths |-> "none"]
  /\ helper = [a \in Auths |-> "new"] /\ asks = [a \in Auths |-> 0]
  /\ refs = [a \in Auths |-> 0]

(* g_object_unref by one holder, or g_object_ref by another.                *)
Less(r, a) == [b \in Auths |-> IF b = a THEN r[b] - 1 ELSE r[b]]
More(r, a) == [b \in Auths |-> IF b = a THEN r[b] + 1 ELSE r[b]]

-----------------------------------------------------------------------------
(* The user.  Input is taken while the dialog is visible and a prompt is    *)
(* active; it reaches the process through the dialog's surface.             *)
TakesInput == phase = "input" /\ visible /\ surf /\ prompt

Type ==
  /\ TakesInput
  /\ field' = field \cup {shown}
  /\ UNCHANGED <<phase, didChange, service, session, visible, shown, surf,
                 denied, worker, external, refs>>

(* submit_response: the session takes the answer, if the service has one.   *)
Submit ==
  /\ TakesInput /\ (field # {} \/ echo)
  /\ field' = {}
  /\ active' = None
  /\ helper' = [a \in Auths |-> IF a = active THEN "working" ELSE helper[a]]
  /\ refs' = Less(refs, active)
  /\ UNCHANGED <<phase, didChange, state, prompt, echo, cookie, cancelArmed,
                 pendingEnd, changed, session, visible, shown, surf, denied,
                 worker, asks>>

(* cancel_request: teardown first, then a thread that owns the service's    *)
(* reference tells polkitd.                                                 *)
CancelNotifiesLate == changed
CancelNotifies == TRUE

Cancel ==
  /\ TakesInput
  /\ state' = "Failed" /\ prompt' = FALSE /\ cancelArmed' = TRUE
  /\ changed' = CancelNotifies
  /\ active' = None
  /\ worker' = [a \in Auths |-> IF a = active THEN "calling" ELSE worker[a]]
  /\ UNCHANGED <<phase, didChange, echo, cookie, pendingEnd, session, dialog,
                 external, refs>>

-----------------------------------------------------------------------------
(* dispatch_glib.                                                           *)
BeginDispatch ==
  /\ phase = "input" /\ phase' = "glib"
  /\ IF pendingEnd THEN state' = "Idle" /\ prompt' = FALSE
                   ELSE UNCHANGED <<state, prompt>>
  /\ pendingEnd' = FALSE
  /\ didChange' = changed /\ changed' = FALSE
  /\ UNCHANGED <<echo, active, cookie, cancelArmed, session, dialog, worker,
                 external, refs>>

EndDispatch ==
  /\ phase = "glib"
  /\ phase' = (IF didChange \/ changed THEN "notify" ELSE "input")
  /\ didChange' = FALSE /\ changed' = FALSE
  /\ UNCHANGED <<state, prompt, echo, active, cookie, cancelArmed, pendingEnd,
                 session, dialog, worker, external, refs>>

(* on_change, the hook: the dialog shows a request, or hides.               *)
HasRequest == prompt /\ state # "Idle"

OnChangeShows ==
  /\ phase = "notify" /\ HasRequest
  /\ visible' = TRUE
  /\ phase' = (IF surf THEN "show" ELSE "map")
  /\ surf' = TRUE /\ denied' = FALSE
  /\ UNCHANGED <<didChange, service, session, shown, field, worker, external,
                 refs>>

(* Without an output there is no surface, and show ends where it began.     *)
ShowFails ==
  /\ phase = "notify" /\ HasRequest /\ ~surf /\ phase' = "input"
  /\ visible' = TRUE /\ denied' = TRUE
  /\ UNCHANGED <<didChange, service, session, shown, surf, field, worker,
                 external, refs>>

OnChangeHides ==
  /\ phase = "notify" /\ ~HasRequest /\ phase' = "input"
  /\ visible' = FALSE /\ shown' = None /\ field' = {} /\ denied' = FALSE
  /\ UNCHANGED <<didChange, service, session, surf, worker, external, refs>>

(* The compositor closes the surface, at input or in show's own round trip. *)
Closed ==
  /\ phase \in {"input", "map"} /\ surf
  /\ surf' = FALSE /\ visible' = FALSE
  /\ denied' = visible
  /\ UNCHANGED <<phase, didChange, service, session, shown, field, worker,
                 external, refs>>

(* The rest of show: a new request, or a failed attempt, clears the field.  *)
ClearsNever == FALSE
Clears == cookie # shown \/ state = "Failed"

Shown ==
  /\ phase \in {"map", "show"} /\ phase' = "input"
  /\ IF Clears THEN shown' = cookie /\ field' = {} ELSE UNCHANGED <<shown, field>>
  /\ UNCHANGED <<didChange, service, session, visible, surf, denied, worker,
                 external, refs>>

-----------------------------------------------------------------------------
(* The callbacks.  initiate_authentication is turned down while a session   *)
(* is underway, and whenever polkitd names no suitable identity.            *)
Reject(a) ==
  /\ phase = "glib" /\ helper[a] = "new"
  /\ helper' = [helper EXCEPT ![a] = "over"]
  /\ UNCHANGED <<phase, didChange, service, session, dialog, worker, asks, refs>>

(* begin_prompt, set_identity; then the session is created and initiated.   *)
Initiate(a) ==
  /\ phase = "glib" /\ helper[a] = "new" /\ session = None
  /\ active' = None
  /\ cookie' = a /\ cancelArmed' = FALSE
  /\ state' = "Pending" /\ changed' = TRUE
  /\ session' = a
  /\ refs' = More(Less(refs, active), a)
  /\ helper' = [helper EXCEPT ![a] = "working"]
  /\ UNCHANGED <<phase, didChange, prompt, echo, pendingEnd, dialog, worker,
                 asks>>

(* on_request: store_session keeps the session, with a reference of its     *)
(* own, unless the user has cancelled; set_prompt notifies all the same.    *)
NotTaken(r, a) == r
Taken(r, a) == More(r, a)

StoreSession(a) ==
  /\ active' = a /\ prompt' = TRUE /\ state' = "Active"
  /\ echo' \in BOOLEAN
  /\ refs' = Less(Taken(refs, a), active)

RequestIsSilent == changed
RequestNotifies == TRUE

OnRequest(a) ==
  /\ phase = "glib" /\ helper[a] = "working" /\ asks[a] < MaxAsks
  /\ helper' = [helper EXCEPT ![a] = "asked"]
  /\ asks' = [asks EXCEPT ![a] = @ + 1]
  /\ IF cancelArmed THEN UNCHANGED <<active, prompt, state, echo, refs>>
                    ELSE StoreSession(a)
  /\ changed' = RequestNotifies
  /\ UNCHANGED <<phase, didChange, cookie, cancelArmed, pendingEnd, session,
                 dialog, worker>>

(* on_show_info, on_show_error.                                             *)
OnShowLine(a) ==
  /\ phase = "glib" /\ helper[a] \in {"working", "asked"}
  /\ changed' = TRUE
  /\ UNCHANGED <<phase, didChange, state, prompt, echo, active, cookie,
                 cancelArmed, pendingEnd, session, dialog, worker, external,
                 refs>>

(* on_completed of a session that ends, or that polkitd cancels: end_prompt *)
(* and then the listener's own fields.  A session completes once.           *)
Keeps == active
Drops == None

EndPrompt(a, gained) ==
  /\ helper[a] \in {"working", "asked"}
  /\ helper' = [helper EXCEPT ![a] = "over"]
  /\ active' = Drops
  /\ state' = (IF gained THEN "Success" ELSE "Failed")
  /\ prompt' = FALSE /\ cancelArmed' = FALSE
  /\ pendingEnd' = TRUE /\ changed' = TRUE
  /\ UNCHANGED <<echo, cookie, asks>>

OnCompleted(a) ==
  /\ phase = "glib"
  /\ \E gained \in BOOLEAN : EndPrompt(a, gained)
  /\ session' = None
  /\ refs' = Less(Less(refs, active), session)
  /\ UNCHANGED <<phase, didChange, dialog, worker>>

(* The cancel thread of a.  polkit_agent_session_cancel completes a session *)
(* that has not completed, on this thread and at any time; then the thread  *)
(* drops its reference.                                                     *)
WorkerEndsPrompt(a) ==
  /\ worker[a] = "calling"
  /\ EndPrompt(a, FALSE)
  /\ refs' = Less(refs, active)
  /\ worker' = [worker EXCEPT ![a] = "ending"]
  /\ UNCHANGED <<phase, didChange, session, dialog>>

WorkerEndsSession(a) ==
  /\ worker[a] = "ending"
  /\ session' = None
  /\ refs' = Less(refs, session)
  /\ worker' = [worker EXCEPT ![a] = "returning"]
  /\ UNCHANGED <<phase, didChange, service, dialog, external>>

WorkerKeepsReference(r, a) == r
WorkerReleases(r, a) == Less(r, a)

WorkerReturns(a) ==
  /\ worker[a] = "returning" \/ (worker[a] = "calling" /\ helper[a] = "over")
  /\ refs' = WorkerReleases(refs, a)
  /\ worker' = [worker EXCEPT ![a] = "none"]
  /\ UNCHANGED <<phase, didChange, service, session, dialog, external>>

-----------------------------------------------------------------------------
User == Type \/ Submit \/ Cancel
Loop == \/ BeginDispatch \/ EndDispatch \/ OnChangeShows \/ ShowFails
        \/ OnChangeHides \/ Shown
Callback(a) == Reject(a) \/ Initiate(a) \/ OnRequest(a) \/ OnShowLine(a)
               \/ OnCompleted(a)
Worker(a) == WorkerEndsPrompt(a) \/ WorkerEndsSession(a) \/ WorkerReturns(a)

Next == User \/ Loop \/ Closed \/ \E a \in Auths : Callback(a) \/ Worker(a)

Spec == Init /\ [][Next]_vars

(* Only the loop is sure to go on: the user, polkitd, PAM and the cancel    *)
(* threads, whose call "can block indefinitely", may stop for ever.         *)
FairSpec == Spec /\ WF_vars(Loop)

-----------------------------------------------------------------------------
MaybeAuth == Auths \cup {None}

TypeOK ==
  /\ phase \in {"input", "glib", "notify", "map", "show"}
  /\ didChange \in BOOLEAN /\ changed \in BOOLEAN
  /\ state \in {"Idle", "Pending", "Active", "Success", "Failed"}
  /\ prompt \in BOOLEAN /\ echo \in BOOLEAN
  /\ cancelArmed \in BOOLEAN /\ pendingEnd \in BOOLEAN
  /\ active \in MaybeAuth /\ cookie \in MaybeAuth /\ session \in MaybeAuth
  /\ visible \in BOOLEAN /\ shown \in MaybeAuth /\ field \subseteq Auths
  /\ surf \in BOOLEAN /\ denied \in BOOLEAN
  /\ worker \in [Auths -> {"none", "calling", "ending", "returning"}]
  /\ helper \in [Auths -> {"new", "working", "asked", "over"}]
  /\ asks \in [Auths -> 0 .. MaxAsks]
  /\ refs \in [Auths -> 0 .. 3]   \* never released more often than taken

(* store_session: "Split ownership so a cancel racing a natural completion  *)
(* can't use-after-free".  The listener, the service and the thread that    *)
(* cancels a session each own one reference to it, and release it once,     *)
(* whatever thread completes the session.                                   *)
RefsAccounted ==
  \A a \in Auths :
    refs[a] = (IF session = a THEN 1 ELSE 0) + (IF active = a THEN 1 ELSE 0)
              + (IF worker[a] # "none" THEN 1 ELSE 0)

(* The service answers and cancels only the session the listener is waiting *)
(* for: begin_prompt's "Single-flight is enforced C-side; a stale ref here  *)
(* is only defensive".                                                      *)
SessionIsListeners == active # None => active = session

(* A request is left without its dialog only by the compositor, which has   *)
(* refused the surface or closed it since the latest change: otherwise,     *)
(* whenever the loop is back at its input, a prompt that waits is the one   *)
(* that the visible dialog shows.  The next change asks for a surface anew. *)
PromptShown ==
  phase = "input" /\ prompt =>
    IF denied THEN ~surf ELSE visible /\ surf /\ shown = cookie

(* What a session is given was typed for its own prompt, never for one that *)
(* was cancelled, failed or completed before it.                            *)
ResponseToItsOwnPrompt ==
  [][\A a \in Auths :
       helper[a] = "asked" /\ helper'[a] = "working" => field \subseteq {a}]_vars

(* cancel_session: "Tear down locally FIRST so the next dispatch hides the  *)
(* dialog even with no completion": a cancelled dialog goes away, though    *)
(* polkitd, PAM and the cancel thread may all stand still.                  *)
CancelHides ==
  \A a \in Auths :
    cancelArmed /\ cookie = a /\ shown = a ~> ~(visible /\ shown = a)
=============================================================================
