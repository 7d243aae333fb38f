---------------------------- MODULE MCSupervisor ----------------------------
(* Small sets of children for TLC, and the properties of single children.   *)
EXTENDS Supervisor

(* The deadline of every child but the stage is honoured.                   *)
DeadlinesHonoured == \A c \in Respawned \ {"stage"} : DeadlineHonoured(c)

(* Only children that are reaped and left down are checked before this one: *)
(* whatever died under the same SIGCHLD, its exit is not missed.            *)
FirstRespawned(c) == \A d \in Respawned : Rank[c] <= Rank[d]
FirstComesBack == \A c \in Respawned : FirstRespawned(c) => ComesBack(c)

(* The user's switch takes the dock and the panel down.                     *)
SwitchedOffGoesDown == \A c \in Switchable : GoesDown(c)

(* kChildRespawnCooldownMs: the respawn is deferred "rather than dropped".  *)
StageDeadlineKept == [][~Forgets("stage")]_vars

(* "guarantees no exit is missed": every exit is waited for.                *)
NoExitMissed == \A c \in Roles : IsReaped(c)
=============================================================================
