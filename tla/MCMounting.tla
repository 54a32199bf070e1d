----------------------------- MODULE MCMounting -----------------------------
(* Model checking of Mounting with one mount point, one pages object and one  *)
(* index object, which is that of the mount or in the user's hand, or both.   *)
EXTENDS Mounting

CONSTANTS m1, p1, i1, v1, v2
=============================================================================
