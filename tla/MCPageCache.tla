----------------------------- MODULE MCPageCache -----------------------------
(* Model checking of PageCache: clients, pages and addresses are each        *)
(* interchangeable.                                                          *)
EXTENDS PageCache, TLC

Symmetric == Permutations(Clients) \cup Permutations(PageIndexes) \cup Permutations(Objs)
=============================================================================
