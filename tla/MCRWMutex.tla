------------------------------ MODULE MCRWMutex ------------------------------
(* Model checking of RWMutex: three threads, any of which may be the one     *)
(* that finalizes the object.                                                *)
EXTENDS RWMutex, TLC

Symmetric == Permutations(Lockers)
=============================================================================
