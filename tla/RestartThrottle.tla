-------------------------- MODULE RestartThrottle --------------------------
(***************************************************************************)
(* What the supervisor promises of its children: each may stop at any      *)
(* time; it is started again only while it is down, never after the        *)
(* session has begun to end, and no sooner than one cooldown after its     *)
(* previous restart, unless the user has just switched it on.              *)
(***************************************************************************)
EXTENDS Naturals

CONSTANTS Children, Period

VARIABLES up,          \* the children that run
          cooled,      \* time since each one's last restart, up to Period
          switchedOn,  \* the children the user has just switched on
          ending       \* the session is ending

avars == <<up, cooled, switchedOn, ending>>

AInit == /\ up \subseteq Children
         /\ cooled = [c \in Children |-> Period]
         /\ switchedOn \subseteq Children
         /\ ending = FALSE

(* A child that does not start may stop, and its window may close further.  *)
Carries(c) == /\ c \in up' => c \in up
              /\ cooled'[c] \in {cooled[c], cooled[c] + 1} \cap (0 .. Period)

(* A start may fail; the attempt opens a new window all the same.           *)
Starts(c) == /\ c \notin up /\ ~ending
             /\ cooled[c] = Period \/ c \in switchedOn
             /\ cooled'[c] = 0

ANext == /\ \A c \in Children : Carries(c) \/ Starts(c)
         /\ up' \subseteq Children /\ switchedOn' \subseteq Children
         /\ ending => ending'

ASpec == AInit /\ [][ANext]_avars
=============================================================================
