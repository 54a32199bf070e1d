------------------------------ MODULE MCDriver ------------------------------
(***************************************************************************)
(* Bounds for module Driver: a directory d with the file f; either can be   *)
(* beside it.  The archive has d and f.                                    *)
(***************************************************************************)
EXTENDS Driver

CONSTANTS e1, e2, e3, e4, c1, c2

MCParent(p) == IF p = "f" THEN "d" ELSE ""
MCBlocks == [c \in {"big", "small", "empty"} |->
               CASE c = "big" -> <<1, 2>> [] c = "small" -> <<1>> [] OTHER -> <<0>>]
MCMounted == [p \in {"d", "f"} |->
                CASE p = "d" -> e1 [] p = "f" -> e2 [] OTHER -> NULL]
MCImported == (e2 :> "big")

\* Places are told apart only by what is at them: which unused one the next
\* entry gets makes no difference.
Symmetry == Permutations({e1, e2, e3, e4}) \cup Permutations({c1, c2})
=============================================================================
