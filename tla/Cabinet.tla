------------------------------ MODULE Cabinet ------------------------------
(***************************************************************************)
(* What mounting promises about an archive and the settings it is used     *)
(* with: a mount works with what its call asked for, or else with what the *)
(* archive has, or else with the default; what a mount that may write had  *)
(* last is what the archive has after it; and no page is ever lost.        *)
(* Objects the user made may take the place of the archive's own.          *)
(* Module Mounting implements it.                                          *)
(***************************************************************************)
EXTENDS Integers

CONSTANTS Mounts, Values, Default, Bad, NULL

VARIABLES
  archive, \* the number of its pages, and the setting it has
  hand,    \* what objects in the user's hand have: pages, settings
  mounted  \* for each mount what was asked for and told, what it uses, what
           \* its own index and pages have, and whether they are kept

absVars == <<archive, hand, mounted>>

Settings == Values \cup {Bad, NULL}
Chosen(asked, had) ==
  IF asked # NULL THEN asked ELSE IF had \in Values THEN had ELSE Default

Init ==
  /\ archive = [pages |-> 0, size |-> NULL]
  /\ hand = [pages |-> {}, sizes |-> {}]
  /\ mounted = [m \in Mounts |-> NULL]

PageCounts == {archive.pages, 0} \cup hand.pages
SettingsFound == {archive.size, NULL} \cup hand.sizes

\* A mount finds the settings of the archive, of an index in hand, or, without
\* an archive, none.
Mount(m) ==
  /\ mounted[m] = NULL
  /\ \E asked \in Values \cup {NULL}, told \in {Bad, NULL}, had \in SettingsFound,
        pages \in PageCounts \cup {1}, keeps \in BOOLEAN :
       /\ had = NULL => archive.size = NULL \/ ~keeps \/ NULL \in hand.sizes
       /\ pages = 0 => archive.pages = 0 \/ ~keeps
       /\ pages \notin PageCounts => archive.pages = 0
       /\ mounted' = [mounted EXCEPT ![m] =
            [asked |-> asked, uses |-> Chosen(asked, had), pages |-> pages,
             size |-> IF told # NULL THEN told ELSE Chosen(asked, had),
             keeps |-> keeps]]
  /\ UNCHANGED archive

\* A mount that fails may save what it was asked for, and its first page.
FailedMount ==
  /\ archive'.pages \in PageCounts \cup {1} /\ archive'.pages >= archive.pages
  /\ archive'.size \in
       SettingsFound \cup {Bad} \cup {Chosen(asked, had) : asked \in Values, had \in SettingsFound}
  /\ archive' = [pages |-> archive'.pages, size |-> archive'.size]
  /\ UNCHANGED mounted

Tell(m) ==
  /\ mounted[m] # NULL
  /\ \E v \in Settings : mounted' = [mounted EXCEPT ![m].size = v]
  /\ UNCHANGED archive

AddPage(m) ==
  /\ mounted[m] # NULL
  /\ mounted' = [mounted EXCEPT ![m].pages = @ + 1]
  /\ UNCHANGED archive

\* From now on the mount changes only what is in memory.
KeepNoMore(m) ==
  /\ mounted[m] # NULL
  /\ mounted' = [mounted EXCEPT ![m].keeps = FALSE]
  /\ UNCHANGED archive

\* What was not a page yet becomes one.
Unmount(m) ==
  /\ mounted[m] # NULL
  /\ IF mounted[m].keeps
       THEN \E n \in {0, 1} :
              archive' = [pages |-> mounted[m].pages + n, size |-> mounted[m].size]
       ELSE \E n \in {archive.pages, mounted[m].pages} :
              n >= archive.pages /\ archive' = [archive EXCEPT !.pages = n]
  /\ mounted' = [mounted EXCEPT ![m] = NULL]

\* Nothing of the mount is saved.
FailedUnmount(m) ==
  /\ mounted[m] # NULL
  /\ mounted' = [mounted EXCEPT ![m] = NULL]
  /\ UNCHANGED archive

\* PageCounts the user made are closed.
Put ==
  /\ \E n \in hand.pages :
       n >= archive.pages /\ archive' = [archive EXCEPT !.pages = n]
  /\ UNCHANGED mounted

Next ==
  \/ FailedMount \/ Put
  \/ \E m \in Mounts :
       \/ Mount(m) \/ Tell(m) \/ AddPage(m) \/ KeepNoMore(m)
       \/ Unmount(m) \/ FailedUnmount(m)

Spec == Init /\ [][Next]_absVars
=============================================================================
