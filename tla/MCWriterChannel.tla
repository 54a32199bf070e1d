-------------------------- MODULE MCWriterChannel --------------------------
(***************************************************************************)
(* Bounds for module WriterChannel.  A byte is 0 or 1.                     *)
(***************************************************************************)
EXTENDS WriterChannel

MCChunks == {<<1>>, <<1, 1>>}
=============================================================================
