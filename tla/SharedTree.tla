----------------------------- MODULE SharedTree -----------------------------
(***************************************************************************)
(* What the threads of an application see of a mounted archive: a tree of  *)
(* directories and files.  A file appears or changes as a whole when it is *)
(* closed and stays until it is replaced or removed, alone or with its     *)
(* directory; making a directory never removes anything.                   *)
(* Module Driver implements it.                                            *)
(***************************************************************************)
CONSTANTS
  Paths,
  Parent(_), \* the directory a path is in; Root, which is no path, is above all
  Root,
  Contents   \* what a file can contain

VARIABLE
  seen \* for each path "none", "dir" or the content of a file

IsDir(p) == p = Root \/ (p \in Paths /\ seen[p] = "dir")

Init ==
  /\ seen \in [Paths -> {"none", "dir"} \cup Contents]
  /\ \A p \in Paths : seen[p] # "none" => IsDir(Parent(p))

Put(p, c) ==
  /\ IsDir(Parent(p)) /\ ~IsDir(p)
  /\ seen' = [seen EXCEPT ![p] = c]

MakeDir(p) ==
  /\ IsDir(Parent(p)) /\ seen[p] = "none"
  /\ seen' = [seen EXCEPT ![p] = "dir"]

Remove(p) ==
  /\ seen[p] \notin {"none", "dir"}
  /\ seen' = [seen EXCEPT ![p] = "none"]

RemoveTree(p) ==
  /\ seen[p] = "dir"
  /\ seen' = [q \in Paths |-> IF q = p \/ Parent(q) = p THEN "none" ELSE seen[q]]

Next ==
  \E p \in Paths :
    MakeDir(p) \/ Remove(p) \/ RemoveTree(p) \/ \E c \in Contents : Put(p, c)

Spec == Init /\ [][Next]_seen
=============================================================================
