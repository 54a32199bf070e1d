----------------------------- MODULE VfsRegistry -----------------------------
(***************************************************************************)
(* src/generic/vfsVfs.c: the list of mounted archives.  Shared mounts are  *)
(* in one global list under global.mx, the others in a list of the thread  *)
(* that mounted them; every thread looks paths up in a cache of both, which*)
(* it rebuilds when global.changeId has moved.  A file operation keeps     *)
(* global.mx from the moment it found its mount alive until it holds the   *)
(* fsindex lock of the mount (CookfsValidatePathAndLockFsindex), and       *)
(* unmounting goes through global.mx before it frees anything.             *)
(*                                                                         *)
(* A Cookfs_Vfs is never used again once freed: reuse of an address by a   *)
(* later mount is left out.                                                *)
(***************************************************************************)
EXTENDS Integers, FiniteSets

CONSTANTS
  Threads, Vfss, None

ASSUME RegistryAssumption == None \notin Threads \cup Vfss

VARIABLES
  globalList, \* global.vfsList
  changeId,   \* global.changeId
  mx,         \* the thread that keeps global.mx locked, or None
  local,      \* vfsList of each thread: its mounts that are not shared
  cached,     \* vfsListCached of each thread
  seen,       \* globalChangeId of each thread
  life,       \* of each Cookfs_Vfs and the fsindex it owns
  home,       \* the thread that mounted it
  users,      \* who holds the fsindex lock of each mount: <<thread, kind>>
  pc, vfs     \* where each thread is, and the Cookfs_Vfs it works on

lists == <<globalList, changeId, local>>
caches == <<cached, seen>>
objects == <<life, home, users>>
registryVars == <<lists, mx, caches, objects, pc, vfs>>

Kinds == {"read", "write"}

RegistryInit ==
  /\ globalList = {} /\ changeId = 0 /\ mx = None
  /\ local = [t \in Threads |-> {}]
  /\ cached = [t \in Threads |-> {}]
  /\ seen = [t \in Threads |-> 0]
  /\ life = [v \in Vfss |-> "new"]
  /\ home = [v \in Vfss |-> None]
  /\ users = [v \in Vfss |-> {}]
  /\ pc = [t \in Threads |-> "idle"]
  /\ vfs = [t \in Threads |-> None]

Go(t, where, v) ==
  /\ pc' = [pc EXCEPT ![t] = where]
  /\ vfs' = [vfs EXCEPT ![t] = v]

IsShared(v) == v \in globalList
Visible(t) == local[t] \cup globalList

-----------------------------------------------------------------------------
\* Cookfs_CookfsUpdateThreadSpecificData: the cache is filled from the local
\* list and, under global.mx, from the global one.
UpdateThreadData(t) ==
  /\ mx = None
  /\ cached' = [cached EXCEPT ![t] = Visible(t)]
  /\ seen' = [seen EXCEPT ![t] = changeId]

\* TCL_TSD_UPDATE.  What follows it in its caller reads data of the thread only.
TsdUpdate(t) ==
  \/ seen[t] = changeId /\ UNCHANGED caches
  \/ seen[t] # changeId /\ UpdateThreadData(t)

\* Cookfs_CookfsAddVfs as CookfsMountCmd calls it, with the new fsindex write
\* locked.  global.mx is released before the cache is updated.
AddVfs(t, v, isShared) ==
  /\ pc[t] = "idle" /\ life[v] = "new"
  /\ life' = [life EXCEPT ![v] = "mounted"]
  /\ home' = [home EXCEPT ![v] = t]
  /\ users' = [users EXCEPT ![v] = {<<t, "write">>}]
  /\ \/ /\ isShared /\ mx = None
        /\ globalList' = globalList \cup {v}
        /\ changeId' = changeId + 1
        /\ UNCHANGED local
     \/ /\ ~isShared
        /\ local' = [local EXCEPT ![t] = @ \cup {v}]
        /\ UNCHANGED <<globalList, changeId>>
  /\ Go(t, "adding", v)
  /\ UNCHANGED <<mx, caches>>

\* The rest of AddVfs, and the end of CookfsMountCmd, which unlocks the fsindex.
FinishMount(t) ==
  /\ pc[t] = "adding"
  /\ UpdateThreadData(t)
  /\ users' = [users EXCEPT ![vfs[t]] = @ \ {<<t, "write">>}]
  /\ Go(t, "idle", None)
  /\ UNCHANGED <<lists, mx, life, home>>

-----------------------------------------------------------------------------
\* Cookfs_CookfsSplitWithVfs: a path is resolved to one of the cached mounts.
Resolve(t, v) ==
  /\ pc[t] = "idle"
  /\ TsdUpdate(t)
  /\ v \in cached'[t]
  /\ Go(t, "resolved", v)
  /\ UNCHANGED <<lists, mx, objects>>

\* Mutants: the cache is trusted whatever its changeId; global.mx is released
\* before the fsindex is locked.
VfsLockTrusting(t) ==
  /\ pc[t] = "resolved" /\ mx = None
  /\ \/ /\ vfs[t] \notin cached[t]
        /\ Go(t, "idle", None)
        /\ UNCHANGED mx
     \/ /\ vfs[t] \in cached[t]
        /\ mx' = t
        /\ Go(t, "locked", vfs[t])
  /\ UNCHANGED <<lists, caches, objects>>

VfsLockReleasing(t) ==
  /\ pc[t] = "resolved" /\ mx = None
  /\ \/ seen[t] # changeId /\ Go(t, "tryagain", vfs[t])
     \/ seen[t] = changeId /\ vfs[t] \notin cached[t] /\ Go(t, "idle", None)
     \/ seen[t] = changeId /\ vfs[t] \in cached[t] /\ Go(t, "locked", vfs[t])
  /\ UNCHANGED <<lists, mx, caches, objects>>

\* Cookfs_CookfsVfsLock.  The update before its loop is the one in the loop.
VfsLock(t) ==
  /\ pc[t] = "resolved" /\ mx = None
  /\ \/ /\ seen[t] # changeId
        /\ Go(t, "tryagain", vfs[t])
        /\ UNCHANGED mx
     \/ /\ seen[t] = changeId /\ vfs[t] \notin cached[t]
        /\ Go(t, "idle", None)
        /\ UNCHANGED mx
     \/ /\ seen[t] = changeId /\ vfs[t] \in cached[t]
        /\ mx' = t
        /\ Go(t, "locked", vfs[t])
  /\ UNCHANGED <<lists, caches, objects>>

TryAgain(t) ==
  /\ pc[t] = "tryagain"
  /\ UpdateThreadData(t)
  /\ Go(t, "resolved", vfs[t])
  /\ UNCHANGED <<lists, mx, objects>>

\* Mutant: global.mx stays locked.
LockFsindexKeeping(t, kind) ==
  /\ pc[t] = "locked"
  /\ \A u \in users[vfs[t]] : kind = "read" /\ u[2] = "read"
  /\ users' = [users EXCEPT ![vfs[t]] = @ \cup {<<t, kind>>}]
  /\ Go(t, "inside", vfs[t])
  /\ UNCHANGED <<lists, mx, caches, life, home>>

\* The rest of CookfsValidatePathAndLockFsindex: the fsindex lock is waited
\* for with global.mx locked, and Cookfs_CookfsVfsUnlock follows.
LockFsindex(t, kind) ==
  /\ pc[t] = "locked"
  /\ \A u \in users[vfs[t]] : kind = "read" /\ u[2] = "read"
  /\ users' = [users EXCEPT ![vfs[t]] = @ \cup {<<t, kind>>}]
  /\ mx' = None
  /\ Go(t, "inside", vfs[t])
  /\ UNCHANGED <<lists, caches, life, home>>

\* The end of a file operation: Cookfs_FsindexUnlock.
FsindexUnlock(t) ==
  /\ pc[t] = "inside"
  /\ users' = [users EXCEPT ![vfs[t]] = {u \in @ : u[1] # t}]
  /\ Go(t, "idle", None)
  /\ UNCHANGED <<lists, mx, caches, life, home>>

-----------------------------------------------------------------------------
\* CookfsUnmountCmd finds the mount and goes on to read vfs->isDead.
FindVfs(t, v) ==
  /\ pc[t] = "idle"
  /\ TsdUpdate(t)
  /\ v \in cached'[t]
  /\ Go(t, "unmount", v)
  /\ UNCHANGED <<lists, mx, objects>>

\* Mutant: a removal does not count as a change.
RemoveVfsUncounted(t) ==
  /\ pc[t] = "unmount"
  /\ TsdUpdate(t)
  /\ IF home[vfs[t]] # t
       THEN Go(t, "idle", None) /\ UNCHANGED <<lists, objects>>
       ELSE /\ globalList' = globalList \ {vfs[t]}
            /\ local' = [local EXCEPT ![t] = @ \ {vfs[t]}]
            /\ life' = [life EXCEPT ![vfs[t]] = "closing"]
            /\ Go(t, "removing", vfs[t])
            /\ UNCHANGED <<changeId, home, users>>
  /\ UNCHANGED mx

\* Cookfs_CookfsRemoveVfs: only the thread that mounted it finds the mount.
RemoveVfs(t) ==
  /\ pc[t] = "unmount"
  /\ TsdUpdate(t)
  /\ LET v == vfs[t] IN
       \/ /\ home[v] # t
          /\ Go(t, "idle", None)
          /\ UNCHANGED <<lists, objects>>
       \/ /\ home[v] = t
          /\ \/ /\ IsShared(v) /\ mx = None
                /\ globalList' = globalList \ {v}
                /\ changeId' = changeId + 1
                /\ UNCHANGED local
             \/ /\ ~IsShared(v)
                /\ local' = [local EXCEPT ![t] = @ \ {v}]
                /\ UNCHANGED <<globalList, changeId>>
          /\ life' = [life EXCEPT ![v] = "closing"]
          /\ Go(t, "removing", v)
          /\ UNCHANGED <<home, users>>
  /\ UNCHANGED mx

FinishRemove(t) ==
  /\ pc[t] = "removing"
  /\ UpdateThreadData(t)
  /\ Go(t, "closing", vfs[t])
  /\ UNCHANGED <<lists, mx, objects>>

\* Cookfs_VfsFini: once it has locked the fsindex exclusively it frees it and
\* the Cookfs_Vfs.
VfsFini(t) ==
  /\ pc[t] = "closing" /\ users[vfs[t]] = {}
  /\ life' = [life EXCEPT ![vfs[t]] = "freed"]
  /\ Go(t, "idle", None)
  /\ UNCHANGED <<lists, mx, caches, home, users>>

-----------------------------------------------------------------------------
NewCall(t) ==
  \E v \in Vfss :
    \/ \E isShared \in BOOLEAN : AddVfs(t, v, isShared)
    \/ Resolve(t, v)
    \/ FindVfs(t, v)

GoOn(t) ==
  \/ FinishMount(t)
  \/ VfsLock(t)
  \/ TryAgain(t)
  \/ \E kind \in Kinds : LockFsindex(t, kind)
  \/ FsindexUnlock(t)
  \/ RemoveVfs(t)
  \/ FinishRemove(t)
  \/ VfsFini(t)

\* All mounts may have come and gone.
Quiet ==
  /\ \A t \in Threads : pc[t] = "idle"
  /\ \A v \in Vfss : life[v] = "freed"
  /\ UNCHANGED registryVars

RegistryNext == Quiet \/ \E t \in Threads : NewCall(t) \/ GoOn(t)

RegistrySpec == RegistryInit /\ [][RegistryNext]_registryVars

\* A thread in the middle of a call goes on when it can.
FairRegistrySpec == RegistrySpec /\ \A t \in Threads : WF_registryVars(GoOn(t))
-----------------------------------------------------------------------------
\* Properties

RegistryTypeOK ==
  /\ globalList \subseteq Vfss
  /\ changeId \in Nat
  /\ mx \in Threads \cup {None}
  /\ local \in [Threads -> SUBSET Vfss]
  /\ cached \in [Threads -> SUBSET Vfss]
  /\ seen \in [Threads -> Nat]
  /\ life \in [Vfss -> {"new", "mounted", "closing", "freed"}]
  /\ home \in [Vfss -> Threads \cup {None}]
  /\ users \in [Vfss -> SUBSET (Threads \X Kinds)]
  /\ pc \in [Threads -> {"idle", "adding", "resolved", "tryagain", "locked",
                          "inside", "unmount", "removing", "closing"}]
  /\ vfs \in [Threads -> Vfss \cup {None}]

\* What Cookfs_CookfsVfsLock is for ("make sure VFS was not unmounted between
\* items #1 and #2"): a thread it let through, and that now waits for the
\* fsindex lock with the pointer it resolved some time ago, has a mount that
\* is in the list and stays there as long as the thread waits.
LockedIsMounted ==
  \A t \in Threads :
    pc[t] = "locked" => life[vfs[t]] = "mounted" /\ vfs[t] \in Visible(t)

\* No operation is inside the fsindex of a mount that was freed, and the lists
\* hold no freed mount: Cookfs_CookfsFillCache reads the entries' Cookfs_Vfs.
NothingFreedIsUsed ==
  /\ \A v \in Vfss : users[v] # {} => life[v] \in {"mounted", "closing"}
  /\ \A t \in Threads : \A v \in Visible(t) : life[v] = "mounted"

\* A cache that carries the current changeId is complete and has nothing that
\* was unmounted, in every thread that is not just changing the lists.
CacheIsCurrent ==
  \A t \in Threads :
    seen[t] = changeId /\ pc[t] \notin {"adding", "removing"}
      => cached[t] = Visible(t)

\* "In this mode cookfs will be available to all application threads"
\* (RELEASE_NOTES.txt): nobody who mounts, unmounts or uses an archive is kept
\* for ever, once no new calls are made.
EveryCallReturns ==
  <>[][\A t \in Threads : ~NewCall(t)]_registryVars
    => \A t \in Threads : []<>(pc[t] = "idle")

\* The same where no thread uses a mount before its mount command has returned:
\* global.mx, the fsindex locks and the retries of Cookfs_CookfsVfsLock keep
\* nobody for ever.
ReturnsUnlessEarly ==
  [](\A h, t \in Threads :
       pc[h] = "adding" /\ pc[t] # "idle" /\ vfs[t] = vfs[h] => t = h)
    => EveryCallReturns
=============================================================================
