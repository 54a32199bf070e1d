------------------------------ MODULE MCAsync ------------------------------
(* Bounds for TLC: three contents worth compressing and one that is not. *)
EXTENDS Async, TLC

CONSTANTS c1, c2, c3, r

MCContents == {c1, c2, c3, r}
MCRaw == {r}
=============================================================================
