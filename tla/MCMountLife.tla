----------------------------- MODULE MCMountLife -----------------------------
(* Model checking of MountLife with the thread that mounted and two others,  *)
(* which are told apart: a cycle of waiting threads is a property of a       *)
(* behaviour, for which symmetry would not be sound.                         *)
EXTENDS MountLife
=============================================================================
