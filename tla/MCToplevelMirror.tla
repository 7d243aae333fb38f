-------------------------- MODULE MCToplevelMirror --------------------------
(* Small instances of the window list mirror for TLC.                       *)
EXTENDS ToplevelMirror

Symmetry == Permutations(Handles)
=============================================================================
