--------------------------- MODULE MCPolkitAgent ---------------------------
(* Small instances of the polkit agent for TLC.                             *)
EXTENDS PolkitAgent, TLC

Symmetry == Permutations(Auths)

(* dispatch_glib: "a queued transition (e.g. cancel teardown) must still    *)
(* notify - otherwise the dialog can stick on a state change nobody         *)
(* delivers".  A dialog that is up, with its exclusive keyboard grab and no *)
(* change left to notify, has a prompt: without one it ignores every key,   *)
(* Escape and its own buttons.                                              *)
DialogCanBeLeft == phase = "input" /\ visible /\ surf /\ ~changed => prompt
=============================================================================
