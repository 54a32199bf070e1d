------------------------------ MODULE FileStore ------------------------------
(***************************************************************************)
(* What the writer promises those who store files through it: a file has   *)
(* the content it was last asked to store, whatever the writer does with   *)
(* small-file buffers, duplicates and pages.  A write that fails leaves    *)
(* the file as it was or removes it, and no other file changes.  When a    *)
(* page cannot be added the store is broken: it takes no more files, and   *)
(* nothing is said of those it had (all are Unreadable then).              *)
(* Module Writer implements it.                                            *)
(***************************************************************************)
CONSTANTS
  Files,
  Contents,
  NULL,      \* no such file, no request
  Unreadable

VARIABLES
  files,   \* the content of each file, or NULL
  request, \* the file being stored and its content
  broken

absVars == <<files, request, broken>>

Init ==
  /\ files = [f \in Files |-> NULL]
  /\ request = NULL
  /\ broken = FALSE

Ask(f, c) ==
  /\ ~broken /\ request = NULL
  /\ request' = [file |-> f, data |-> c]
  /\ UNCHANGED <<files, broken>>

Done(files1) ==
  /\ request # NULL /\ request' = NULL
  /\ files' = files1
  /\ UNCHANGED broken

Store == Done([files EXCEPT ![request.file] = request.data])
Refuse == Done(files)
Lose == Done([files EXCEPT ![request.file] = NULL])

Delete(F) ==
  /\ ~broken
  /\ files' = [f \in Files |-> IF f \in F THEN NULL ELSE files[f]]
  /\ UNCHANGED <<request, broken>>

Break ==
  /\ broken' = TRUE /\ request' = NULL
  /\ files' = [f \in Files |-> Unreadable]

Next ==
  \/ \E f \in Files, c \in Contents : Ask(f, c)
  \/ Store \/ Refuse \/ Lose
  \/ \E F \in SUBSET Files : Delete(F)
  \/ Break

Spec == Init /\ [][Next]_absVars
=============================================================================
