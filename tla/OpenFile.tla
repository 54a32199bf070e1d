------------------------------ MODULE OpenFile ------------------------------
(***************************************************************************)
(* What a channel open on one file of an archive promises: the bytes it    *)
(* reads and writes are those of a sequence that starts as the stored file *)
(* or empty, is overwritten where the channel stands, and is filled up     *)
(* with zeros when the position or the length is moved past its end.       *)
(* Closing stores the sequence or says that it did not.                    *)
(* Module WriterChannel implements it with a buffer that is resized.       *)
(***************************************************************************)
EXTENDS Integers, Sequences

CONSTANTS
  Chunks,    \* what a program writes at once: sequences of bytes, 0 among the bytes
  MaxLength, \* the positions and lengths it asks for are at most this
  NULL       \* no such file, no channel

VARIABLES
  file,   \* the bytes stored for the file, or NULL
  handle, \* the open channel, or NULL: its bytes, position, and whether closing stores them
  answer  \* what the last call answered: the bytes read, and whether it failed

absVars == <<file, handle, answer>>

Said(bytes, failed) == answer' = [bytes |-> bytes, failed |-> failed]

\* The sequence s in n places: cut off, or filled up with zeros.
Resized(s, n) == [k \in 1..n |-> IF k <= Len(s) THEN s[k] ELSE 0]

Overwritten(s, pos, data) ==
  [k \in 1..(IF pos + Len(data) > Len(s) THEN pos + Len(data) ELSE Len(s)) |->
     IF k > pos /\ k <= pos + Len(data) THEN data[k - pos] ELSE s[k]]

Init ==
  /\ file = NULL
  /\ handle = NULL
  /\ answer = [bytes |-> <<>>, failed |-> FALSE]

Open(bytes, pos, keeps) ==
  /\ handle = NULL
  /\ handle' = [bytes |-> bytes, pos |-> pos, keeps |-> keeps]
  /\ Said(<<>>, FALSE)
  /\ UNCHANGED file

OpenFails == handle = NULL /\ Said(<<>>, TRUE) /\ UNCHANGED <<file, handle>>

Read(n) ==
  LET s == handle.bytes
      end == IF handle.pos + n < Len(s) THEN handle.pos + n ELSE Len(s)
  IN /\ Said(SubSeq(s, handle.pos + 1, end), FALSE)
     /\ handle' = [handle EXCEPT !.pos = end]
     /\ UNCHANGED file

Write(data) ==
  /\ handle' = [handle EXCEPT !.bytes = Overwritten(@, handle.pos, data),
                              !.pos = @ + Len(data)]
  /\ Said(<<>>, FALSE)
  /\ UNCHANGED file

Seek(n) ==
  /\ handle' = [handle EXCEPT !.pos = n,
                              !.bytes = IF n > Len(@) THEN Resized(@, n) ELSE @]
  /\ Said(<<>>, FALSE)
  /\ UNCHANGED file

Truncate(n) ==
  /\ handle' = [handle EXCEPT !.bytes = Resized(@, n),
                              !.pos = IF @ > n THEN n ELSE @]
  /\ Said(<<>>, FALSE)
  /\ UNCHANGED file

\* A channel opened for reading stores nothing; one opened for writing
\* stores its bytes, or says that it failed and the file is as it was or gone.
Close ==
  /\ handle' = NULL
  /\ \/ /\ handle.keeps
        /\ file' = handle.bytes
        /\ Said(<<>>, FALSE)
     \/ /\ ~handle.keeps
        /\ Said(<<>>, FALSE)
        /\ UNCHANGED file
     \/ /\ handle.keeps
        /\ Said(<<>>, TRUE)
        /\ file' \in {file, NULL}

Next ==
  \/ /\ file # NULL
     /\ \E keeps \in BOOLEAN, pos \in {0, Len(file)} : Open(file, pos, keeps)
  \/ Open(<<>>, 0, TRUE)
  \/ OpenFails
  \/ /\ handle # NULL
     /\ \/ \E n \in 0..MaxLength : Read(n) \/ Seek(n) \/ Truncate(n)
        \/ \E data \in Chunks : Write(data)
        \/ Close

Spec == Init /\ [][Next]_absVars
=============================================================================
