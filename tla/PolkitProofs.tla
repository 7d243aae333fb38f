---------------------------- MODULE PolkitProofs ----------------------------
(* Proofs about the polkit agent, for any number of authentications.        *)
EXTENDS PolkitAgent, TLAPS

Working(a) == helper[a] \in {"working", "asked"}

(* How a session, its cookie and its cancel thread go together: one session *)
(* at a time is at work, and the thread that ends it is the last to let it  *)
(* go.                                                                      *)
SessionsInOrder ==
  \A a \in Auths :
    /\ Working(a) => session = a /\ cookie = a
    /\ session = a \/ worker[a] # "none" => helper[a] # "new"
    /\ worker[a] = "calling" /\ Working(a) => cancelArmed
    /\ worker[a] \in {"ending", "returning"} => helper[a] = "over"
    /\ worker[a] = "ending" => session = a
    /\ active = a => helper[a] = "asked" /\ worker[a] = "none"

(* A prompt belongs to a session that is at work.                           *)
PromptLive == prompt => state = "Active" /\ \E a \in Auths : Working(a)

(* What dispatch_glib still owes the dialog, where the compositor lets it   *)
(* have a surface.                                                          *)
ShowsCookie == visible /\ surf /\ shown = cookie

DialogFollows ==
  /\ field \subseteq {shown}
  /\ denied => ~surf
  /\ phase = "input" /\ prompt => ShowsCookie \/ denied
  /\ phase = "glib" /\ prompt => didChange \/ changed \/ ShowsCookie \/ denied
  /\ phase \in {"map", "show"} => denied \/ (visible /\ surf)

IInv == TypeOK /\ RefsAccounted /\ SessionsInOrder /\ PromptLive /\ DialogFollows

USE NoneAssumption, AsksAssumption

LEMMA InitInv == Init => IInv
<1> SUFFICES ASSUME Init PROVE IInv
  OBVIOUS
<1> USE DEF Init
<1>1. /\ asks \in [Auths -> 0 .. MaxAsks] /\ refs \in [Auths -> 0 .. 3]
  <2>1. asks = [a \in Auths |-> 0] /\ refs = [a \in Auths |-> 0]
    OBVIOUS
  <2>2. 0 \in 0 .. MaxAsks /\ 0 \in 0 .. 3
    OBVIOUS
  <2> QED
    BY <2>1, <2>2, Zenon
<1>2. TypeOK
  BY <1>1 DEF TypeOK, MaybeAuth
<1>3. ASSUME NEW a \in Auths
      PROVE  refs[a] = 0 /\ session # a /\ active # a /\ worker[a] = "none"
  OBVIOUS
<1>4. RefsAccounted
  <2> SUFFICES ASSUME NEW a \in Auths
               PROVE  refs[a] = (IF session = a THEN 1 ELSE 0)
                                + (IF active = a THEN 1 ELSE 0)
                                + (IF worker[a] # "none" THEN 1 ELSE 0)
    BY DEF RefsAccounted
  <2> HIDE DEF Init
  <2> QED
    BY <1>3
<1>5. SessionsInOrder
  BY <1>3 DEF SessionsInOrder, Working
<1> QED
  BY <1>2, <1>4, <1>5 DEF IInv, PromptLive, DialogFollows

(* Where the sessions, the prompt and the dialog stand after a step.        *)
Order == SessionsInOrder /\ PromptLive /\ DialogFollows

LEMMA OrderStep == IInv /\ [Next]_vars => Order'
<1> SUFFICES ASSUME IInv, [Next]_vars PROVE Order'
  OBVIOUS
<1> USE DEF IInv, Order, TypeOK, MaybeAuth, SessionsInOrder, PromptLive,
            DialogFollows, ShowsCookie, Working
<1>1. CASE UNCHANGED vars
  BY <1>1 DEF vars, service, dialog, external
<1>2. CASE Type
  BY <1>2 DEF Type, TakesInput, PromptLive, SessionsInOrder, Working, service,
     external
<1>3. CASE Submit
  BY <1>3 DEF Submit, TakesInput
<1>4. CASE Cancel
  BY <1>4 DEF Cancel, TakesInput, dialog, external
<1>5. CASE BeginDispatch
  BY <1>5 DEF BeginDispatch, dialog, external
<1>6. CASE EndDispatch
  BY <1>6 DEF EndDispatch, dialog, external
<1>7. CASE OnChangeShows
  BY <1>7 DEF OnChangeShows, HasRequest, service, external
<1>8. CASE ShowFails
  BY <1>8 DEF ShowFails, HasRequest, service, external
<1>9. CASE Closed
  BY <1>9 DEF Closed, service, external
<1>10. CASE OnChangeHides
  BY <1>10 DEF OnChangeHides, HasRequest, service, external
<1>11. CASE Shown
  BY <1>11 DEF Shown, Clears, service, external
<1>12. ASSUME NEW a \in Auths, Reject(a) PROVE Order'
  BY <1>12 DEF Reject, service, dialog
<1>13. ASSUME NEW a \in Auths, Initiate(a) PROVE Order'
  BY <1>13 DEF Initiate, dialog
<1>14. ASSUME NEW a \in Auths, OnRequest(a) PROVE Order'
  BY <1>14 DEF OnRequest, StoreSession, RequestNotifies, dialog
<1>15. ASSUME NEW a \in Auths, OnShowLine(a) PROVE Order'
  BY <1>15 DEF OnShowLine, dialog, external
<1>16. ASSUME NEW a \in Auths, OnCompleted(a) PROVE Order'
  BY <1>16 DEF OnCompleted, EndPrompt, Drops, dialog
<1>17. ASSUME NEW a \in Auths, WorkerEndsPrompt(a) PROVE Order'
  BY <1>17 DEF WorkerEndsPrompt, EndPrompt, Drops, dialog
<1>18. ASSUME NEW a \in Auths, WorkerEndsSession(a) PROVE Order'
  BY <1>18 DEF WorkerEndsSession, service, dialog, external
<1>19. ASSUME NEW a \in Auths, WorkerReturns(a) PROVE Order'
  BY <1>19 DEF WorkerReturns, service, dialog, external
<1> QED
  BY <1>1, <1>2, <1>3, <1>4, <1>5, <1>6, <1>7, <1>8, <1>9, <1>10, <1>11, <1>12,
     <1>13, <1>14, <1>15, <1>16, <1>17, <1>18, <1>19
     DEF Next, User, Loop, Callback, Worker

(* Each step that gives a session up releases the reference of its holder.  *)
LEMMA RefsStep == IInv /\ [Next]_vars => RefsAccounted'
<1> SUFFICES ASSUME IInv, [Next]_vars PROVE RefsAccounted'
  OBVIOUS
<1> USE DEF IInv, TypeOK, MaybeAuth, SessionsInOrder, RefsAccounted, Working,
            Less, More
<1>1. CASE UNCHANGED vars
  BY <1>1 DEF vars, service, dialog, external
<1>2. CASE Type
  BY <1>2 DEF Type, service, external
<1>3. CASE Submit
  BY <1>3 DEF Submit
<1>4. CASE Cancel
  BY <1>4 DEF Cancel, dialog, external
<1>5. CASE BeginDispatch
  BY <1>5 DEF BeginDispatch, dialog, external
<1>6. CASE EndDispatch
  BY <1>6 DEF EndDispatch, dialog, external
<1>7. CASE OnChangeShows
  BY <1>7 DEF OnChangeShows, service, external
<1>8. CASE ShowFails
  BY <1>8 DEF ShowFails, service, external
<1>9. CASE Closed
  BY <1>9 DEF Closed, service, external
<1>10. CASE OnChangeHides
  BY <1>10 DEF OnChangeHides, service, external
<1>11. CASE Shown
  BY <1>11 DEF Shown, service, external
<1>12. ASSUME NEW a \in Auths, Reject(a) PROVE RefsAccounted'
  BY <1>12 DEF Reject, service, dialog
<1>13. ASSUME NEW a \in Auths, Initiate(a) PROVE RefsAccounted'
  BY <1>13 DEF Initiate, dialog
<1>14. ASSUME NEW a \in Auths, OnRequest(a) PROVE RefsAccounted'
  BY <1>14 DEF OnRequest, StoreSession, Taken, dialog
<1>15. ASSUME NEW a \in Auths, OnShowLine(a) PROVE RefsAccounted'
  BY <1>15 DEF OnShowLine, dialog, external
<1>16. ASSUME NEW a \in Auths, OnCompleted(a) PROVE RefsAccounted'
  BY <1>16 DEF OnCompleted, EndPrompt, Drops, dialog
<1>17. ASSUME NEW a \in Auths, WorkerEndsPrompt(a) PROVE RefsAccounted'
  BY <1>17 DEF WorkerEndsPrompt, EndPrompt, Drops, dialog
<1>18. ASSUME NEW a \in Auths, WorkerEndsSession(a) PROVE RefsAccounted'
  BY <1>18 DEF WorkerEndsSession, service, dialog, external
<1>19. ASSUME NEW a \in Auths, WorkerReturns(a) PROVE RefsAccounted'
  BY <1>19 DEF WorkerReturns, WorkerReleases, service, dialog, external
<1> QED
  BY <1>1, <1>2, <1>3, <1>4, <1>5, <1>6, <1>7, <1>8, <1>9, <1>10, <1>11, <1>12,
     <1>13, <1>14, <1>15, <1>16, <1>17, <1>18, <1>19
     DEF Next, User, Loop, Callback, Worker

(* The types, but for what TLC bounds: the prompts and the references.      *)
LoopTypes ==
  /\ phase \in {"input", "glib", "notify", "map", "show"}
  /\ didChange \in BOOLEAN
  /\ visible \in BOOLEAN /\ shown \in MaybeAuth /\ field \subseteq Auths
  /\ surf \in BOOLEAN /\ denied \in BOOLEAN

ServiceTypes ==
  /\ changed \in BOOLEAN
  /\ state \in {"Idle", "Pending", "Active", "Success", "Failed"}
  /\ prompt \in BOOLEAN /\ echo \in BOOLEAN
  /\ cancelArmed \in BOOLEAN /\ pendingEnd \in BOOLEAN
  /\ active \in MaybeAuth /\ cookie \in MaybeAuth /\ session \in MaybeAuth
  /\ worker \in [Auths -> {"none", "calling", "ending", "returning"}]
  /\ helper \in [Auths -> {"new", "working", "asked", "over"}]

FieldTypes == LoopTypes /\ ServiceTypes

LEMMA FieldStep == IInv /\ [Next]_vars => FieldTypes'
<1> SUFFICES ASSUME IInv, [Next]_vars PROVE FieldTypes'
  OBVIOUS
<1>0. FieldTypes
  BY DEF IInv, TypeOK, FieldTypes, LoopTypes, ServiceTypes
<1> USE DEF MaybeAuth, FieldTypes, LoopTypes, ServiceTypes
<1>1. CASE UNCHANGED vars
  BY <1>0, <1>1 DEF vars, service, dialog, external
<1>2. CASE Type
  BY <1>0, <1>2 DEF Type, TakesInput, PromptLive, SessionsInOrder, Working,
     IInv, TypeOK, DialogFollows, ShowsCookie, service, external
<1>3. CASE Submit
  <2>1. LoopTypes'
    BY <1>0, <1>3 DEF Submit, TakesInput, IInv, TypeOK
  <2>2. ServiceTypes'
    BY <1>0, <1>3 DEF Submit, TakesInput, IInv, TypeOK
  <2> QED
    BY <2>1, <2>2
<1>4. CASE Cancel
  <2>1. LoopTypes'
    BY <1>0, <1>4 DEF Cancel, CancelNotifies, dialog, external
  <2>2. ServiceTypes'
    BY <1>0, <1>4 DEF Cancel, CancelNotifies, dialog, external
  <2> QED
    BY <2>1, <2>2
<1>5. CASE BeginDispatch
  <2>1. LoopTypes'
    BY <1>0, <1>5 DEF BeginDispatch, dialog, external
  <2>2. ServiceTypes'
    BY <1>0, <1>5 DEF BeginDispatch, dialog, external
  <2> QED
    BY <2>1, <2>2
<1>6. CASE EndDispatch
  <2>1. LoopTypes'
    BY <1>0, <1>6 DEF EndDispatch, dialog, external
  <2>2. ServiceTypes'
    BY <1>0, <1>6 DEF EndDispatch, dialog, external
  <2> QED
    BY <2>1, <2>2
<1>7. CASE OnChangeShows
  <2>1. LoopTypes'
    BY <1>0, <1>7 DEF OnChangeShows, service, external
  <2>2. ServiceTypes'
    BY <1>0, <1>7 DEF OnChangeShows, service, external
  <2> QED
    BY <2>1, <2>2
<1>8. CASE ShowFails
  <2>1. LoopTypes'
    BY <1>0, <1>8 DEF ShowFails, service, external
  <2>2. ServiceTypes'
    BY <1>0, <1>8 DEF ShowFails, service, external
  <2> QED
    BY <2>1, <2>2
<1>9. CASE Closed
  <2>1. LoopTypes'
    BY <1>0, <1>9 DEF Closed, service, external
  <2>2. ServiceTypes'
    BY <1>0, <1>9 DEF Closed, service, external
  <2> QED
    BY <2>1, <2>2
<1>10. CASE OnChangeHides
  <2>1. LoopTypes'
    BY <1>0, <1>10 DEF OnChangeHides, service, external
  <2>2. ServiceTypes'
    BY <1>0, <1>10 DEF OnChangeHides, service, external
  <2> QED
    BY <2>1, <2>2
<1>11. CASE Shown
  <2>1. LoopTypes'
    BY <1>0, <1>11 DEF Shown, service, external
  <2>2. ServiceTypes'
    BY <1>0, <1>11 DEF Shown, service, external
  <2> QED
    BY <2>1, <2>2
<1>12. ASSUME NEW a \in Auths, Reject(a) PROVE FieldTypes'
  <2>1. LoopTypes'
    BY <1>0, <1>12 DEF Reject, service, dialog
  <2>2. ServiceTypes'
    BY <1>0, <1>12 DEF Reject, service, dialog
  <2> QED
    BY <2>1, <2>2
<1>13. ASSUME NEW a \in Auths, Initiate(a) PROVE FieldTypes'
  <2>1. LoopTypes'
    BY <1>0, <1>13 DEF Initiate, dialog
  <2>2. ServiceTypes'
    BY <1>0, <1>13 DEF Initiate, dialog
  <2> QED
    BY <2>1, <2>2
<1>14. ASSUME NEW a \in Auths, OnRequest(a) PROVE FieldTypes'
  <2>1. LoopTypes'
    BY <1>0, <1>14 DEF OnRequest, StoreSession, RequestNotifies, dialog
  <2>2. ServiceTypes'
    BY <1>0, <1>14 DEF OnRequest, StoreSession, RequestNotifies, dialog
  <2> QED
    BY <2>1, <2>2
<1>15. ASSUME NEW a \in Auths, OnShowLine(a) PROVE FieldTypes'
  <2>1. LoopTypes'
    BY <1>0, <1>15 DEF OnShowLine, dialog, external
  <2>2. ServiceTypes'
    BY <1>0, <1>15 DEF OnShowLine, dialog, external
  <2> QED
    BY <2>1, <2>2
<1>16. ASSUME NEW a \in Auths, OnCompleted(a) PROVE FieldTypes'
  <2>1. LoopTypes'
    BY <1>0, <1>16 DEF OnCompleted, EndPrompt, Drops, dialog
  <2>2. ServiceTypes'
    BY <1>0, <1>16 DEF OnCompleted, EndPrompt, Drops, dialog
  <2> QED
    BY <2>1, <2>2
<1>17. ASSUME NEW a \in Auths, WorkerEndsPrompt(a) PROVE FieldTypes'
  <2>1. LoopTypes'
    BY <1>0, <1>17 DEF WorkerEndsPrompt, EndPrompt, Drops, dialog
  <2>2. ServiceTypes'
    BY <1>0, <1>17 DEF WorkerEndsPrompt, EndPrompt, Drops, dialog
  <2> QED
    BY <2>1, <2>2
<1>18. ASSUME NEW a \in Auths, WorkerEndsSession(a) PROVE FieldTypes'
  <2>1. LoopTypes'
    BY <1>0, <1>18 DEF WorkerEndsSession, service, dialog, external
  <2>2. ServiceTypes'
    BY <1>0, <1>18 DEF WorkerEndsSession, service, dialog, external
  <2> QED
    BY <2>1, <2>2
<1>19. ASSUME NEW a \in Auths, WorkerReturns(a) PROVE FieldTypes'
  <2>1. LoopTypes'
    BY <1>0, <1>19 DEF WorkerReturns, service, dialog, external
  <2>2. ServiceTypes'
    BY <1>0, <1>19 DEF WorkerReturns, service, dialog, external
  <2> QED
    BY <2>1, <2>2
<1> QED
  BY <1>1, <1>2, <1>3, <1>4, <1>5, <1>6, <1>7, <1>8, <1>9, <1>10, <1>11, <1>12,
     <1>13, <1>14, <1>15, <1>16, <1>17, <1>18, <1>19
     DEF Next, User, Loop, Callback, Worker

(* The number of prompts stays within its bound, and so does the number of  *)
(* references: there are three holders.                                     *)
LEMMA CountStep ==
  IInv /\ [Next]_vars => /\ asks' \in [Auths -> 0 .. MaxAsks]
                         /\ refs' \in [Auths -> 0 .. 3]
<1> SUFFICES ASSUME IInv, [Next]_vars
             PROVE  /\ asks' \in [Auths -> 0 .. MaxAsks]
                    /\ refs' \in [Auths -> 0 .. 3]
  OBVIOUS
<1>1. asks \in [Auths -> 0 .. MaxAsks] /\ refs \in [Auths -> 0 .. 3]
  BY DEF IInv, TypeOK
<1>2. ASSUME NEW a \in Auths, OnRequest(a) PROVE asks' \in [Auths -> 0 .. MaxAsks]
  <2>1. asks[a] < MaxAsks /\ asks' = [asks EXCEPT ![a] = @ + 1]
    BY <1>2 DEF OnRequest
  <2>2. asks[a] + 1 \in 0 .. MaxAsks
    BY <1>1, <2>1
  <2> QED
    BY <1>1, <2>1, <2>2
<1>3. UNCHANGED asks \/ \E a \in Auths : OnRequest(a)
  BY DEF Next, User, Loop, Callback, Worker, vars, external, Type, Submit, Cancel,
     BeginDispatch, EndDispatch, OnChangeShows, ShowFails,
     OnChangeHides, Shown, Closed, Reject,
     Initiate, OnShowLine, OnCompleted, EndPrompt, WorkerEndsPrompt,
     WorkerEndsSession, WorkerReturns
<1>4. \E r : refs' = r /\ (refs' = refs \/ r = [b \in Auths |-> r[b]])
  BY DEF Next, User, Loop, Callback, Worker, vars, external, Type, Submit, Cancel,
     BeginDispatch, EndDispatch, OnChangeShows, ShowFails,
     OnChangeHides, Shown, Closed, Reject,
     Initiate, OnRequest, StoreSession, Taken, OnShowLine, OnCompleted,
     WorkerEndsPrompt, WorkerEndsSession, WorkerReturns, WorkerReleases, Less, More
<1>5. refs' = [b \in Auths |-> refs'[b]]
  BY <1>1, <1>4
<1>6. \A b \in Auths : refs'[b] \in 0 .. 3
  BY RefsStep DEF RefsAccounted
<1> QED
  BY <1>1, <1>2, <1>3, <1>5, <1>6

LEMMA StepInv == IInv /\ [Next]_vars => IInv'
  BY OrderStep, RefsStep, FieldStep, CountStep DEF IInv, TypeOK, Order, FieldTypes, LoopTypes, ServiceTypes

(* Every reachable state of the agent satisfies the inductive invariant.    *)
THEOREM Invariance == Spec => []IInv
  BY InitInv, StepInv, PTL DEF Spec

(* The fields of the service, the listener and the dialog keep their ranges *)
(* and no session is released more often than it is referenced.             *)
THEOREM TypeCorrect == Spec => []TypeOK
<1>1. IInv => TypeOK
  BY DEF IInv
<1> QED
  BY Invariance, <1>1, PTL

(* store_session's split ownership: a session has one reference for each of *)
(* the listener, the service and the cancel thread that holds it.           *)
THEOREM ReferencesOwned == Spec => []RefsAccounted
<1>1. IInv => RefsAccounted
  BY DEF IInv
<1> QED
  BY Invariance, <1>1, PTL

(* begin_prompt's single flight: the service only ever holds the session    *)
(* the listener waits for.                                                  *)
THEOREM SingleFlight == Spec => []SessionIsListeners
<1>1. IInv => SessionIsListeners
  BY DEF IInv, TypeOK, MaybeAuth, SessionsInOrder, Working, SessionIsListeners
<1> QED
  BY Invariance, <1>1, PTL

(* on_change: a prompt that waits for input is the one the dialog shows,    *)
(* unless the compositor has refused the surface or closed it.              *)
THEOREM PromptsAreShown == Spec => []PromptShown
<1>1. IInv => PromptShown
  BY DEF IInv, DialogFollows, ShowsCookie, PromptShown
<1> QED
  BY Invariance, <1>1, PTL

(* submit_response: what a session is given was typed for its own prompt.   *)
THEOREM AnswersOwnPrompt == Spec => ResponseToItsOwnPrompt
<1> DEFINE Own == \A a \in Auths : helper[a] = "asked" /\ helper'[a] = "working"
                                     => field \subseteq {a}
<1>1. IInv /\ [Next]_vars => [Own]_vars
  <2> SUFFICES ASSUME IInv, Next, NEW a \in Auths,
                      helper[a] = "asked", helper'[a] = "working"
               PROVE  field \subseteq {a}
    OBVIOUS
  <2>1. Submit /\ active = a
    BY DEF IInv, TypeOK, Next, User, Loop, Callback, Worker, external, Type, Submit,
       Cancel, BeginDispatch, EndDispatch, OnChangeShows, ShowFails,
     OnChangeHides, Shown, Closed,
       Reject, Initiate, OnRequest, OnShowLine, OnCompleted, EndPrompt,
       WorkerEndsPrompt, WorkerEndsSession, WorkerReturns
  <2>2. shown = cookie /\ field \subseteq {shown}
    BY <2>1 DEF Submit, TakesInput, IInv, DialogFollows, ShowsCookie
  <2>3. cookie = a
    BY DEF IInv, SessionsInOrder, Working
  <2> QED
    BY <2>2, <2>3
<1> QED
  BY Invariance, <1>1, PTL DEF Spec, ResponseToItsOwnPrompt
=============================================================================
