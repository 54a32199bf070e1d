---------------------------- MODULE MCVfsRegistry ----------------------------
(* Model checking of VfsRegistry.  The runs check liveness, so they use no   *)
(* symmetry of threads and mounts.                                           *)
EXTENDS VfsRegistry
=============================================================================
