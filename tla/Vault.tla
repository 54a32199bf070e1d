------------------------------- MODULE Vault -------------------------------
(***************************************************************************)
(* What encryption promises about the files of an archive: a file stays    *)
(* what it was when it was stored and stays protected by what was in force *)
(* then, which is nothing, a password, or the key of the archive; and the  *)
(* password that opens the key is changed only while the key is open, and  *)
(* is never forgotten while a file needs it.                               *)
(* Module Encryption implements it.                                        *)
(***************************************************************************)
CONSTANTS Files, Contents, Passwords, NULL

VARIABLES
  files,   \* for each file its content and what protects it, or NULL
  inForce, \* what protects a file that is stored now, NULL if none can be
  key      \* the saved password of the archive's key, and whether it is open

absVars == <<files, inForce, key>>

Locks == Passwords \cup {"none", "key"}

Init ==
  /\ files = [f \in Files |-> NULL]
  /\ inForce = NULL
  /\ key = [password |-> NULL, open |-> FALSE]

Store(f, c) ==
  /\ inForce \in Locks
  /\ files' = [files EXCEPT ![f] = [content |-> c, by |-> inForce]]
  /\ UNCHANGED <<inForce, key>>

\* Mounting, giving a password, taking it back, unmounting: no file changes,
\* and neither does the password of the key.
Turn ==
  /\ inForce' \in Locks \cup {NULL}
  /\ key'.open \in BOOLEAN /\ key' = [key EXCEPT !.open = key'.open]
  /\ UNCHANGED files

\* An archive is saved with another password for its key.
Reseal(p) ==
  /\ key.open
  /\ inForce' = NULL /\ key' = [password |-> p, open |-> FALSE]
  /\ UNCHANGED files

\* An archive is saved without the key that protects none of its files.
Forget ==
  /\ \A f \in Files : files[f] # NULL => files[f].by # "key"
  /\ inForce' = NULL /\ key' = [password |-> NULL, open |-> FALSE]
  /\ UNCHANGED files

Next ==
  \/ \E f \in Files, c \in Contents : Store(f, c)
  \/ Turn
  \/ \E p \in Passwords : Reseal(p)
  \/ Forget

Spec == Init /\ [][Next]_absVars
=============================================================================
