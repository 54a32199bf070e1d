------------------------------ MODULE MountLife ------------------------------
(***************************************************************************)
(* A mount's writer, fsindex and pages while threads work with its files   *)
(* and its own thread unmounts it: who locks what in which order           *)
(* (vfsDriver.c, readerchannel*.c, writerchannel*.c, writer.c, vfsCmd.c),  *)
(* and when the three objects die and are freed (vfs.c and the LockSoft,   *)
(* UnlockSoft, Fini and Free functions, the same in writer.c, fsindex.c    *)
(* and pages.c).                                                           *)
(*                                                                         *)
(* A call is the list of the lock operations it makes; the data it works   *)
(* on between them decides which of several lists it is.  The locks follow *)
(* threads.c (RWMutex models them in full, exclusive owner included).      *)
(***************************************************************************)
EXTENDS Integers, Sequences, FiniteSets

CONSTANTS
  Threads,
  Unmounter,   \* the thread that mounted: only it may unmount
  Ops,         \* the calls that are made
  MaxChannels, \* bound: channels open or being closed at a time
  Purges,      \* what Cookfs_WriterPurge may come to while unmounting
  NULL

ASSUME MountAssumption ==
  /\ IsFiniteSet(Threads) /\ Unmounter \in Threads /\ NULL \notin Threads
  /\ MaxChannels \in Nat
  /\ Purges \subseteq {"nothing", "pages", "fails"}

Objects == {"writer", "index", "pages"}

VARIABLES
  listed,    \* the mount is in the list of mounts (VfsRegistry)
  globalMx,  \* the thread that keeps global.mx locked, or NULL
  numLocks,  \* of each object's RWMutex
  threadId,  \* the exclusive owner of each object's RWMutex, or NULL
  lockSoft, isDead, freed,
  mxLockSoft,\* the thread whose Fini keeps mxLockSoft locked, or NULL
  todo,      \* what each thread has still to do in its call
  wait,      \* is the thread asleep in the lock call at the head of todo?
  held,      \* locks granted to each thread and not given back
  channels   \* open channels: <<thread, kind>>

locks == <<numLocks, threadId, wait, held>>
life == <<lockSoft, isDead, freed, mxLockSoft>>
vars == <<listed, globalMx, locks, life, todo, channels>>

-----------------------------------------------------------------------------
\* The steps of a call.  A lock names what is left to do when it is refused.
Lock(kind, o, refused) == [do |-> kind, on |-> o, or |-> refused]
Do(step, o) == [do |-> step, on |-> o, or |-> <<>>]
Unlock(o) == Do("unlock", o)
LockExclusive(o) == <<Lock("write", o, <<>>), Do("own", o)>>

\* CookfsValidatePathAndLockFsindex, from Cookfs_CookfsVfsLock on.
Enter(kind) ==
  <<Lock(kind, "index", <<Do("vfsUnlock", "index")>>), Do("vfsUnlock", "index")>>

\* CookfsStat, CookfsAccess, CookfsMatchInDirectory, CookfsFileAttrStrings
Stat == Enter("read") \o <<Unlock("index")>>

\* CookfsUtime, CookfsCreateDirectory, CookfsRemoveDirectory
Update == Enter("write") \o <<Unlock("index")>>

\* CookfsDeleteFile of a pending file; what LockWrite returns is not looked at.
DeleteFile ==
  LET rest == <<Unlock("writer"), Unlock("index")>>
  IN Enter("write") \o <<Lock("write", "writer", rest)>> \o rest

\* CookfsFileAttrsGet of an attribute of the writer
FileAttrsGet ==
  Enter("read") \o <<Lock("read", "writer", <<Unlock("index")>>),
                     Unlock("writer"), Unlock("index")>>

\* CookfsFileAttrsSet of -fileset or -compression, which purges the writer
FileAttrsSet ==
  LET rest == <<Unlock("writer"), Unlock("index")>>
  IN Enter("write")
       \o <<Lock("write", "writer", <<Unlock("index")>>),
            Lock("write", "pages", rest), Unlock("pages")>> \o rest

\* Cookfs_CreateReaderchannelAlloc and ...Free
ReaderAlloc == <<Do("lockSoft", "pages"), Do("lockSoft", "index")>>
ReaderFree == <<Do("unlockSoft", "index"), Do("unlockSoft", "pages")>>

\* Cookfs_CreateWriterchannelAlloc and ...Free
WriterAlloc == ReaderAlloc \o <<Do("lockSoft", "writer")>>
WriterFree == ReaderFree \o <<Do("unlockSoft", "writer")>>

\* CookfsOpenFileChannel: with a reader channel, which reads the first page;
OpenReader ==
  LET fail == ReaderFree \o <<Unlock("index")>>
  IN Enter("read") \o ReaderAlloc
       \o <<Lock("read", "index", fail),
            Lock("read", "pages", <<Unlock("index")>> \o fail), Unlock("pages"),
            Unlock("index"), Do("opened", "reader"), Unlock("index")>>

\* with a writer channel for a new or truncated file;
OpenWriter ==
  Enter("read") \o WriterAlloc \o <<Do("opened", "writer"), Unlock("index")>>

\* with a writer channel that first reads what the file has.
OpenExisting ==
  LET fail == WriterFree \o <<Unlock("index")>>
  IN Enter("read") \o WriterAlloc
       \o <<Lock("read", "index", fail),
            Lock("read", "writer", <<Unlock("index")>> \o fail),
            Lock("read", "pages", <<Unlock("index"), Unlock("writer")>> \o fail),
            Unlock("pages"), Unlock("index"), Unlock("writer"),
            Do("opened", "writer"), Unlock("index")>>

\* Cookfs_Readerchannel_Input
ReadChannel ==
  <<Lock("read", "index", <<>>), Lock("read", "pages", <<Unlock("index")>>),
    Unlock("pages"), Unlock("index")>>

\* Closing a writer channel: Cookfs_WriterAddFile under the writer's lock, of a
\* file that makes pages or of a small one, then Cookfs_CreateWriterchannelFree.
CloseWriter(isSmall) ==
  LET fail == <<Unlock("writer")>> \o WriterFree
      unset == <<Lock("write", "index", fail), Unlock("index")>> \o fail
  IN <<Lock("write", "writer", WriterFree), Lock("read", "index", fail)>>
       \o (IF isSmall
             THEN <<Unlock("index"), Lock("write", "index", fail),
                    Lock("read", "pages", <<Unlock("index")>> \o fail),
                    Unlock("pages"), Unlock("index")>>
             ELSE <<Lock("read", "pages", fail), Unlock("pages"), Unlock("index"),
                    Lock("write", "index", fail), Unlock("index"),
                    Lock("write", "pages", unset), Unlock("pages"),
                    Lock("write", "index", fail), Unlock("index")>>)
       \o fail

\* The handle's -aside command
Aside ==
  LET rest == <<Unlock("index"), Unlock("writer")>>
  IN <<Lock("write", "writer", <<>>), Lock("write", "index", <<Unlock("writer")>>),
       Lock("write", "pages", <<>>), Unlock("pages")>> \o rest

\* Cookfs_WriterFini, Cookfs_PagesFini and Cookfs_FsindexFini
Fini(o) ==
  LockExclusive(o) \o <<Do("kill", o)>>
    \o (IF o = "writer" THEN ReaderFree ELSE <<>>)
    \o <<Unlock(o), Do("finish", o)>>

\* Cookfs_VfsFini.  A purge that fails leaves everything locked and alive.
VfsFini(purge) ==
  LockExclusive("writer") \o LockExclusive("index") \o LockExclusive("pages")
    \o (IF purge = "pages" THEN <<Lock("write", "pages", <<>>), Unlock("pages")>>
                           ELSE <<>>)
    \o (IF purge = "fails" THEN <<>>
                           ELSE Fini("writer") \o Fini("pages") \o Fini("index"))

-----------------------------------------------------------------------------
Init ==
  /\ listed = TRUE /\ globalMx = NULL
  /\ numLocks = [o \in Objects |-> 0]
  /\ threadId = [o \in Objects |-> NULL]
  /\ wait = [t \in Threads |-> "no"]
  /\ held = [t \in Threads |-> [o \in Objects |-> 0]]
  /\ lockSoft = [o \in Objects |-> IF o = "writer" THEN 0 ELSE 1]
  /\ isDead = [o \in Objects |-> FALSE]
  /\ freed = [o \in Objects |-> FALSE]
  /\ mxLockSoft = [o \in Objects |-> NULL]
  /\ todo = [t \in Threads |-> <<>>]
  /\ channels = {}

Idle(t) == todo[t] = <<>>
At(t, step, o) == ~Idle(t) /\ Head(todo[t]).do = step /\ Head(todo[t]).on = o
Advance(t) == todo' = [todo EXCEPT ![t] = Tail(@)]
Refused(t) == todo' = [todo EXCEPT ![t] = Head(@).or]
Begin(t, call) == Idle(t) /\ todo' = [todo EXCEPT ![t] = call]

\* Who is in a lock call on o, asleep or not yet back from its wait
Waiters(kind, o) == {t \in Threads : wait[t] # "no" /\ At(t, kind, o)}

\* Mutant: readers are not woken.
WokenWriters(o) ==
  [t \in Threads |-> IF t \in Waiters("write", o) THEN "woken" ELSE wait[t]]

\* Cookfs_RWMutexUnlock wakes waiting writers or else waiting readers.
Woken(o) ==
  LET who == IF Waiters("write", o) # {} THEN Waiters("write", o)
                                        ELSE Waiters("read", o)
  IN [t \in Threads |-> IF t \in who THEN "woken" ELSE wait[t]]

-----------------------------------------------------------------------------
\* Cookfs_FsindexLockRW and its like: Cookfs_RWMutexLockRead or ...LockWrite,
\* then the check of isDead.
Sleep(t) ==
  /\ wait' = [wait EXCEPT ![t] = "asleep"]
  /\ UNCHANGED <<numLocks, held, todo>>

TurnDown(t) ==
  /\ wait' = [wait EXCEPT ![t] = "no"]
  /\ Refused(t)
  /\ UNCHANGED <<numLocks, held>>

\* A lock on a dead object is given back at once.
Grant(t, o, n) ==
  \/ /\ ~isDead[o]
     /\ numLocks' = [numLocks EXCEPT ![o] = n]
     /\ held' = [held EXCEPT ![t][o] = @ + 1]
     /\ wait' = [wait EXCEPT ![t] = "no"]
     /\ Advance(t)
  \/ /\ isDead[o]
     /\ wait' = [Woken(o) EXCEPT ![t] = "no"]
     /\ Refused(t)
     /\ UNCHANGED <<numLocks, held>>

LockRead(t, o) ==
  /\ At(t, "read", o) /\ wait[t] # "asleep"
  /\ \/ threadId[o] = t /\ Grant(t, o, numLocks[o])
     \/ threadId[o] \notin {t, NULL} /\ TurnDown(t)
     \/ threadId[o] = NULL /\ numLocks[o] < 0 /\ Sleep(t)
     \/ threadId[o] = NULL /\ numLocks[o] >= 0 /\ Grant(t, o, numLocks[o] + 1)
  /\ UNCHANGED <<listed, globalMx, threadId, life, channels>>

\* Mutant: a woken writer takes the lock, an if where the code has a loop.
LockWriteOnce(t, o) ==
  /\ At(t, "write", o) /\ wait[t] # "asleep"
  /\ \/ threadId[o] = t /\ Grant(t, o, numLocks[o])
     \/ threadId[o] \notin {t, NULL} /\ wait[t] = "no" /\ TurnDown(t)
     \/ threadId[o] = NULL /\ wait[t] = "no" /\ numLocks[o] # 0 /\ Sleep(t)
     \/ threadId[o] = NULL /\ wait[t] = "no" /\ numLocks[o] = 0 /\ Grant(t, o, -1)
     \/ wait[t] = "woken" /\ Grant(t, o, -1)
  /\ UNCHANGED <<listed, globalMx, threadId, life, channels>>

\* A woken writer does not look at threadId again.
LockWrite(t, o) ==
  /\ At(t, "write", o) /\ wait[t] # "asleep"
  /\ \/ threadId[o] = t /\ Grant(t, o, numLocks[o])
     \/ threadId[o] \notin {t, NULL} /\ wait[t] = "no" /\ TurnDown(t)
     \/ /\ threadId[o] = NULL \/ wait[t] = "woken"
        /\ \/ numLocks[o] # 0 /\ Sleep(t)
           \/ numLocks[o] = 0 /\ Grant(t, o, -1)
  /\ UNCHANGED <<listed, globalMx, threadId, life, channels>>

\* Cookfs_RWMutexLockExclusive, after its LockWrite
Own(t, o) ==
  /\ At(t, "own", o)
  /\ threadId' = [threadId EXCEPT ![o] = t]
  /\ Advance(t)
  /\ UNCHANGED <<listed, globalMx, numLocks, wait, held, life, channels>>

DoUnlock(t, o) ==
  /\ At(t, "unlock", o)
  /\ numLocks' = [numLocks EXCEPT ![o] = IF @ <= 0 THEN 0 ELSE @ - 1]
  /\ wait' = Woken(o)
  /\ held' = [held EXCEPT ![t][o] = @ - 1]
  /\ Advance(t)
  /\ UNCHANGED <<listed, globalMx, threadId, life, channels>>

VfsUnlock(t) ==
  /\ At(t, "vfsUnlock", "index")
  /\ globalMx' = NULL
  /\ Advance(t)
  /\ UNCHANGED <<listed, locks, life, channels>>

LockSoft(t, o) ==
  /\ At(t, "lockSoft", o) /\ mxLockSoft[o] = NULL
  /\ lockSoft' = [lockSoft EXCEPT ![o] = IF isDead[o] THEN @ ELSE @ + 1]
  /\ Advance(t)
  /\ UNCHANGED <<listed, globalMx, locks, isDead, freed, mxLockSoft, channels>>

\* Mutant: the last soft lock frees nothing.
UnlockSoftKeeps(t, o) ==
  /\ At(t, "unlockSoft", o) /\ mxLockSoft[o] = NULL
  /\ lockSoft' = [lockSoft EXCEPT ![o] = @ - 1]
  /\ Advance(t)
  /\ UNCHANGED <<listed, globalMx, locks, isDead, freed, mxLockSoft, channels>>

UnlockSoft(t, o) ==
  /\ At(t, "unlockSoft", o) /\ mxLockSoft[o] = NULL
  /\ lockSoft' = [lockSoft EXCEPT ![o] = @ - 1]
  /\ freed' = [freed EXCEPT ![o] = @ \/ isDead[o]]
  /\ Advance(t)
  /\ UNCHANGED <<listed, globalMx, locks, isDead, mxLockSoft, channels>>

\* Fini takes mxLockSoft, then sets isDead,
Kill(t, o) ==
  /\ At(t, "kill", o) /\ mxLockSoft[o] = NULL
  /\ mxLockSoft' = [mxLockSoft EXCEPT ![o] = t]
  /\ isDead' = [isDead EXCEPT ![o] = TRUE]
  /\ Advance(t)
  /\ UNCHANGED <<listed, globalMx, locks, lockSoft, freed, channels>>

\* Mutant: Fini frees without a look at lockSoft.
FinishFrees(t, o) ==
  /\ At(t, "finish", o)
  /\ mxLockSoft' = [mxLockSoft EXCEPT ![o] = NULL]
  /\ freed' = [freed EXCEPT ![o] = TRUE]
  /\ Advance(t)
  /\ UNCHANGED <<listed, globalMx, locks, lockSoft, isDead, channels>>

\* and frees the object unless it is soft locked.
Finish(t, o) ==
  /\ At(t, "finish", o)
  /\ mxLockSoft' = [mxLockSoft EXCEPT ![o] = NULL]
  /\ freed' = [freed EXCEPT ![o] = lockSoft[o] = 0]
  /\ Advance(t)
  /\ UNCHANGED <<listed, globalMx, locks, lockSoft, isDead, channels>>

Opened(t, kind) ==
  /\ At(t, "opened", kind)
  /\ channels' = channels \cup {<<t, kind>>}
  /\ Advance(t)
  /\ UNCHANGED <<listed, globalMx, locks, life>>

-----------------------------------------------------------------------------
FileCalls ==
  [stat |-> Stat, update |-> Update, delete |-> DeleteFile,
   getAttr |-> FileAttrsGet, setAttr |-> FileAttrsSet,
   openReader |-> OpenReader, openWriter |-> OpenWriter,
   openExisting |-> OpenExisting]

Opens == {"openReader", "openWriter", "openExisting"}
\* Threads that are opening or closing a channel
Channelling ==
  {t \in Threads :
     \E i \in DOMAIN todo[t] : todo[t][i].do \in {"opened", "unlockSoft"}}

\* Cookfs_CookfsVfsLock lets a call on a path in only while the mount is listed.
CallFile(t) ==
  /\ listed /\ globalMx = NULL
  /\ \E op \in Ops \cap DOMAIN FileCalls :
       /\ op \in Opens =>
            /\ Cardinality(channels) + Cardinality(Channelling) < MaxChannels
            /\ \A c \in channels : c[1] # t
       /\ Begin(t, FileCalls[op])
  /\ globalMx' = t
  /\ UNCHANGED <<listed, locks, life, channels>>

CallChannel(t) ==
  /\ <<t, "reader">> \in channels
  /\ Begin(t, ReadChannel)
  /\ UNCHANGED <<listed, globalMx, locks, life, channels>>

CloseChannel(t) ==
  /\ \/ <<t, "reader">> \in channels /\ Begin(t, ReaderFree)
     \/ /\ <<t, "writer">> \in channels
        /\ \E isSmall \in BOOLEAN : Begin(t, CloseWriter(isSmall))
  /\ channels' = {c \in channels : c[1] # t}
  /\ UNCHANGED <<listed, globalMx, locks, life>>

CallHandle(t) ==
  /\ t = Unmounter /\ listed /\ "aside" \in Ops
  /\ Begin(t, Aside)
  /\ UNCHANGED <<listed, globalMx, locks, life, channels>>

\* Cookfs_CookfsRemoveVfs, then Cookfs_VfsFini
Unmount(t) ==
  /\ t = Unmounter /\ listed /\ globalMx = NULL
  /\ listed' = FALSE
  /\ \E purge \in Purges : Begin(t, VfsFini(purge))
  /\ UNCHANGED <<globalMx, locks, life, channels>>

NewCall(t) == CallFile(t) \/ CallChannel(t) \/ CallHandle(t) \/ Unmount(t)

Step(t) ==
  \/ \E o \in Objects :
       \/ LockRead(t, o) \/ LockWrite(t, o) \/ Own(t, o) \/ DoUnlock(t, o)
       \/ LockSoft(t, o) \/ UnlockSoft(t, o) \/ Kill(t, o) \/ Finish(t, o)
  \/ VfsUnlock(t)
  \/ \E kind \in {"reader", "writer"} : Opened(t, kind)

\* An unmounted archive with nothing open
Quiet == ~listed /\ channels = {} /\ (\A t \in Threads : Idle(t)) /\ UNCHANGED vars

Next == Quiet \/ \E t \in Threads : NewCall(t) \/ CloseChannel(t) \/ Step(t)

Spec == Init /\ [][Next]_vars

\* A thread in a call goes on when it can, and channels are closed some time.
FairSpec ==
  Spec /\ \A t \in Threads : WF_vars(Step(t)) /\ WF_vars(CloseChannel(t))
-----------------------------------------------------------------------------
\* Properties

TypeOK ==
  /\ listed \in BOOLEAN /\ globalMx \in Threads \cup {NULL}
  /\ numLocks \in [Objects -> Nat \cup {-1}]
  /\ threadId \in [Objects -> Threads \cup {NULL}]
  /\ wait \in [Threads -> {"no", "asleep", "woken"}]
  /\ held \in [Threads -> [Objects -> Nat]]
  /\ lockSoft \in [Objects -> Nat]
  /\ isDead \in [Objects -> BOOLEAN] /\ freed \in [Objects -> BOOLEAN]
  /\ mxLockSoft \in [Objects -> Threads \cup {NULL}]
  /\ DOMAIN todo = Threads
  /\ channels \subseteq Threads \X {"reader", "writer"}

\* What a call does next is on an object that is not freed, though it may be
\* dead: "It is possible that some threads are waiting for read/write events. Let
\* them go on and fail because of a dead object" (writer.c, fsindex.c, pages.c).
\* It unlocks only what it was granted: "The mutex should be readlocked or
\* writelocked. All other cases mean an error" (threads.c).  And it soft locks
\* only what lives, so that the channels may ignore the result of LockSoft: the
\* fsindex lock they hold keeps Fini away.
NothingFreedIsTouched ==
  /\ TypeOK
  /\ \A t \in Threads : \A o \in Objects :
       /\ ~Idle(t) /\ Head(todo[t]).on = o => ~freed[o]
       /\ At(t, "unlock", o) => held[t][o] > 0
       /\ At(t, "lockSoft", o) => ~isDead[o]

\* Nothing leaks: when the mount is gone and the last channel is closed, the
\* writer, the index and the pages have been freed, by Fini or by UnlockSoft; or
\* the purge failed and none has been, never some of them.
UnmountedIsFreed ==
  ~listed /\ channels = {} /\ (\A t \in Threads : Idle(t))
    => \/ \A o \in Objects : freed[o]
       \/ "fails" \in Purges /\ \A o \in Objects : ~isDead[o] /\ ~freed[o]

\* While VfsFini purges the writer and takes the objects apart, no other thread
\* is between the lock and the unlock of an object that is not dead: nobody
\* changes the index or the pages being saved.
FiniIsAlone ==
  /\ \A o \in Objects : threadId[o] = Unmounter
  /\ \E i \in DOMAIN todo[Unmounter] : todo[Unmounter][i].do = "kill"
  => \A t \in Threads \ {Unmounter} : \A o \in Objects :
       held[t][o] > 0 => isDead[o]

\* A thread that has the index waits for the writer, and one that has the
\* writer waits for the index: getting or setting an attribute, deleting or
\* opening a file, against closing one, -aside or unmounting.
Waits(t, o) == wait[t] = "asleep" /\ (At(t, "read", o) \/ At(t, "write", o))
Crossed ==
  \E t, s \in Threads :
    /\ held[t]["index"] > 0 /\ Waits(t, "writer")
    /\ held[s]["writer"] > 0 /\ Waits(s, "index")

\* A purge failed while unmounting: its thread is back and left everything locked.
LeftLocked == \E o \in Objects : threadId[o] # NULL /\ Idle(threadId[o])

\* "In this mode cookfs will be available to all application threads in
\* read-write mode" (RELEASE_NOTES.txt): once no new calls are made, no call is
\* stuck for ever waiting for locks, other than where two threads took the
\* locks of index and writer crosswise or a purge failed.
ReturnsUnlessCrossed ==
  <>[][\A t \in Threads : ~NewCall(t)]_vars
    => \/ \A t \in Threads : []<>Idle(t)
       \/ <>[]Crossed
       \/ <>[]LeftLocked
=============================================================================
