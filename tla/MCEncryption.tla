---------------------------- MODULE MCEncryption ----------------------------
(***************************************************************************)
(* Instance of Encryption for TLC: a content of half a block and one of a  *)
(* whole block that looks like padding.                                    *)
(***************************************************************************)
EXTENDS Encryption, TLC

MCContents == {<<1>>, <<2, 2>>}
NothingCareless == {}

Symmetry == Permutations(Files) \cup Permutations(Passwords)
=============================================================================
