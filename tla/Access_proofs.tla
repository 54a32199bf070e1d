--------------------------- MODULE Access_proofs ----------------------------
(***************************************************************************)
(* Proofs about who gets at an archive: by the locks of its objects        *)
(* (RWMutex), by the list of mounts (VfsRegistry), and by its passwords    *)
(* and keys (Encryption), for every value of the constants.                *)
(*                                                                         *)
(* The properties of the mutex are invariants by themselves only together  *)
(* with two facts: what numLocks can be once there is an exclusive owner,  *)
(* and that a thread about to write threadId still counts as the writer.   *)
(*                                                                         *)
(* Those of an archive rest on VaultInv: each page is padded and under a   *)
(* key as it was written, the pages object has in each mode the keys that  *)
(* belong to it, and mode, salt and key stay those of the saved archive.   *)
(***************************************************************************)
EXTENDS RWMutex, VfsRegistry, Encryption, FiniteSetTheorems, SequenceTheorems,
        WellFoundedInduction, TLAPS

-----------------------------------------------------------------------------
(* The mutex.                                                              *)

\* With an exclusive owner numLocks is 0 or -1: no reader is counted again.
CountWhenOwned == threadId # NoThread => numLocks \in {0, -1}

\* Between the two halves of LockExclusive the thread holds the write lock.
OwnerToBe == \A t \in Lockers : at[t] = "setOwner" => t \in writers \cap Exclusives

\* Locks of an owner are outstanding only if there was an owner.
OwnedOnce == threadId = NoThread => \A t \in Lockers : own[t] = 0

MutexInv ==
  /\ MutexTypeOK
  /\ LockAccounting
  /\ NoLostWakeup
  /\ ExclusiveStopsReaders
  /\ CountWhenOwned
  /\ OwnerToBe
  /\ OwnedOnce

-----------------------------------------------------------------------------
\* Every set of granted read locks is finite.
LEMMA ReadersFinite ==
  ASSUME NEW R, R \subseteq Lockers \X (1 .. Depth)
  PROVE  IsFiniteSet(R)
<1>1. IsFiniteSet(1 .. Depth)
  BY RWMutexAssumption, FS_Interval
<1>2. IsFiniteSet(Lockers \X (1 .. Depth))
  BY <1>1, RWMutexAssumption, FS_Product
<1>. QED
  BY <1>2, FS_Subset

LEMMA MutexTypeStep == MutexTypeOK /\ [MutexNext]_mutexVars => MutexTypeOK'
<1>. USE RWMutexAssumption DEF MutexTypeOK
<1> SUFFICES ASSUME MutexTypeOK, [MutexNext]_mutexVars PROVE MutexTypeOK'
  OBVIOUS
<1>1. ASSUME NEW t \in Lockers, NewLockCall(t) PROVE MutexTypeOK'
  BY <1>1 DEF NewLockCall, LockRead, ReadOrWait, LockWrite, WriteOrWait, LockAsOwner, GoTo
<1>2. ASSUME NEW t \in Lockers, Resume(t) PROVE MutexTypeOK'
  BY <1>2 DEF Resume, LockReadWoken, ReadOrWait, LockWriteWoken, WriteOrWait,
              LockExclusiveOwn, GoTo
<1>3. ASSUME NEW t \in Lockers, Unlock(t) PROVE MutexTypeOK'
  BY <1>3 DEF Unlock, UnlockRead, UnlockWrite, UnlockAsOwner, UnlockMutex, Notified
<1>4. ASSUME NEW t \in Lockers, SpuriousWakeup(t) PROVE MutexTypeOK'
  BY <1>4 DEF SpuriousWakeup, GoTo
<1>5. CASE UNCHANGED mutexVars
  BY <1>5 DEF mutexVars
<1>. QED
  BY <1>1, <1>2, <1>3, <1>4, <1>5 DEF MutexNext

-----------------------------------------------------------------------------
\* The step lemmas: each part of MutexInv after a step that started in MutexInv.

\* Granting one more read lock, or sleeping because there is a writer.
LEMMA ReadStep ==
  ASSUME MutexInv, NEW t \in Lockers, threadId = NoThread, ReadOrWait(t),
         at[t] \in {"idle", "wokenRead"},
         UNCHANGED <<threadId, wantEx, writers, own>>, MutexTypeOK'
  PROVE  MutexInv'
<1>. USE DEF MutexInv, MutexTypeOK
<1>1. LockAccounting'
  <2>1. CASE numLocks < 0
    BY <2>1 DEF ReadOrWait, LockAccounting
  <2>2. CASE numLocks >= 0
    <3>1. PICK k \in (1 .. Depth) \ Nested(t) : readers' = readers \cup {<<t, k>>}
      BY <2>2 DEF ReadOrWait
    <3>2. IsFiniteSet(readers) /\ <<t, k>> \notin readers
      BY <3>1, ReadersFinite DEF Nested
    <3>3. Cardinality(readers') = Cardinality(readers) + 1
      BY <3>1, <3>2, FS_AddElement
    <3>. QED
      BY <2>2, <3>3 DEF ReadOrWait, LockAccounting
  <2>. QED
    BY <2>1, <2>2
<1>2. NoLostWakeup'
  BY DEF ReadOrWait, NoLostWakeup, Waiting, GoTo
<1>3. ExclusiveStopsReaders' /\ CountWhenOwned' /\ OwnerToBe' /\ OwnedOnce'
  BY RWMutexAssumption DEF ReadOrWait, ExclusiveStopsReaders, CountWhenOwned, OwnerToBe,
                           OwnedOnce, GoTo
<1>. QED
  BY <1>1, <1>2, <1>3

\* Granting the write lock, or sleeping because somebody is inside.
LEMMA WriteStep ==
  ASSUME MutexInv, NEW t \in Lockers, NEW exclusive \in BOOLEAN,
         exclusive => t \in Exclusives,
         at[t] \in {"idle", "wokenWrite"}, WriteOrWait(t, exclusive),
         UNCHANGED <<threadId, readers, own>>, MutexTypeOK'
  PROVE  MutexInv'
<1>. USE DEF MutexInv, MutexTypeOK
<1>1. LockAccounting'
  <2>1. CASE numLocks # 0
    BY <2>1 DEF WriteOrWait, LockAccounting
  <2>2. CASE numLocks = 0 /\ threadId = NoThread
    <3>1. readers = {} /\ writers = {}
      BY <2>2, ReadersFinite, FS_EmptySet DEF LockAccounting
    <3>. QED
      BY <2>2, <3>1 DEF WriteOrWait, LockAccounting
  <2>3. CASE threadId # NoThread
    BY <2>3 DEF LockAccounting
  <2>. QED
    BY <2>1, <2>2, <2>3
<1>2. NoLostWakeup'
  BY DEF WriteOrWait, NoLostWakeup, Waiting, GoTo
<1>3. ExclusiveStopsReaders' /\ CountWhenOwned' /\ OwnerToBe' /\ OwnedOnce'
  BY RWMutexAssumption
     DEF WriteOrWait, ExclusiveStopsReaders, CountWhenOwned, OwnerToBe, OwnedOnce, GoTo
<1>. QED
  BY <1>1, <1>2, <1>3

\* Whatever lock is given back, Unlock leaves no thread asleep for nothing.
LEMMA UnlockStep ==
  ASSUME MutexInv, UnlockMutex, MutexTypeOK'
  PROVE  NoLostWakeup' /\ CountWhenOwned'
<1>. USE DEF MutexInv, MutexTypeOK
<1>1. NoLostWakeup'
  <2>1. CASE WritersWait # {}
    BY <2>1 DEF UnlockMutex, WritersWait, Notified, NoLostWakeup, Waiting
  <2>2. CASE WritersWait = {}
    BY <2>2 DEF UnlockMutex, WritersWait, Notified, NoLostWakeup, Waiting
  <2>. QED
    BY <2>1, <2>2
<1>2. CountWhenOwned'
  BY DEF UnlockMutex, CountWhenOwned
<1>. QED
  BY <1>1, <1>2

\* Giving back a read lock: the counter follows the set of granted locks.
LEMMA UnlockReadStep ==
  ASSUME MutexInv, NEW t \in Lockers, UnlockRead(t), MutexTypeOK'
  PROVE  MutexInv'
<1>. USE DEF MutexInv, MutexTypeOK
<1>1. PICK k \in Nested(t) : readers' = readers \ {<<t, k>>}
  BY DEF UnlockRead
<1>2. threadId = NoThread /\ <<t, k>> \in readers
  BY <1>1 DEF Nested, ExclusiveStopsReaders
<1>3. IsFiniteSet(readers)
  BY ReadersFinite
<1>4. numLocks = Cardinality(readers) /\ writers = {}
  BY <1>2 DEF LockAccounting
<1>5. Cardinality(readers') = Cardinality(readers) - 1
  BY <1>1, <1>2, <1>3, FS_RemoveElement
<1>6. numLocks > 0
  <2>1. Cardinality(readers) # 0
    BY <1>2, <1>3, FS_EmptySet
  <2>. QED
    BY <1>3, <1>4, <2>1, FS_CardinalityType
<1>7. LockAccounting'
  BY <1>4, <1>5, <1>6 DEF UnlockRead, UnlockMutex, LockAccounting
<1>8. OwnerToBe' /\ ExclusiveStopsReaders' /\ OwnedOnce'
  BY <1>2, <1>4 DEF UnlockRead, UnlockMutex, Notified, OwnerToBe, ExclusiveStopsReaders,
                    OwnedOnce
<1>. QED
  BY <1>7, <1>8, UnlockStep DEF UnlockRead

\* Giving back the write lock leaves the mutex free.
LEMMA UnlockWriteStep ==
  ASSUME MutexInv, NEW t \in Lockers, UnlockWrite(t), MutexTypeOK'
  PROVE  MutexInv'
<1>. USE DEF MutexInv, MutexTypeOK
<1>1. LockAccounting'
  <2>1. CASE threadId = NoThread
    <3>1. writers = {t} /\ readers = {} /\ numLocks = -1
      BY <2>1 DEF UnlockWrite, LockAccounting
    <3>. QED
      BY <3>1, FS_EmptySet DEF UnlockWrite, UnlockMutex, LockAccounting
  <2>2. CASE threadId # NoThread
    BY <2>2 DEF UnlockWrite, UnlockMutex, LockAccounting
  <2>. QED
    BY <2>1, <2>2
<1>2. OwnerToBe' /\ ExclusiveStopsReaders' /\ OwnedOnce'
  BY DEF UnlockWrite, UnlockMutex, Notified, OwnerToBe, ExclusiveStopsReaders, OwnedOnce
<1>. QED
  BY <1>1, <1>2, UnlockStep DEF UnlockWrite

\* An Unlock of the owner: by OwnedOnce there is an exclusive lock then.
LEMMA UnlockAsOwnerStep ==
  ASSUME MutexInv, NEW t \in Lockers, UnlockAsOwner(t), MutexTypeOK'
  PROVE  MutexInv'
<1>. USE DEF MutexInv, MutexTypeOK
<1>1. threadId # NoThread
  BY DEF UnlockAsOwner, OwnedOnce
<1>2. LockAccounting' /\ OwnerToBe' /\ ExclusiveStopsReaders' /\ OwnedOnce'
  BY <1>1 DEF UnlockAsOwner, UnlockMutex, Notified, LockAccounting, OwnerToBe,
         ExclusiveStopsReaders, OwnedOnce
<1>. QED
  BY <1>2, UnlockStep DEF UnlockAsOwner

\* Writing threadId: the writer it came from was alone, so no reader is left.
LEMMA OwnStep ==
  ASSUME MutexInv, NEW t \in Lockers, LockExclusiveOwn(t), MutexTypeOK'
  PROVE  MutexInv'
<1>. USE DEF MutexInv, MutexTypeOK
<1>1. t \in writers
  BY DEF LockExclusiveOwn, OwnerToBe
<1>2. readers = {} /\ numLocks \in {0, -1}
  BY <1>1 DEF LockAccounting, ExclusiveStopsReaders, CountWhenOwned
<1>3. t # NoThread
  BY RWMutexAssumption
<1>4. LockAccounting' /\ ExclusiveStopsReaders' /\ CountWhenOwned'
  BY <1>2, <1>3 DEF LockExclusiveOwn, LockAccounting, ExclusiveStopsReaders, CountWhenOwned
<1>5. NoLostWakeup'
  BY DEF LockExclusiveOwn, GoTo, NoLostWakeup, Waiting
<1>6. OwnerToBe' /\ OwnedOnce'
  BY <1>3 DEF LockExclusiveOwn, GoTo, OwnerToBe, OwnedOnce
<1>. QED
  BY <1>4, <1>5, <1>6

\* MutexInv is inductive.
LEMMA MutexInvStep == MutexInv /\ [MutexNext]_mutexVars => MutexInv'
<1> SUFFICES ASSUME MutexInv, [MutexNext]_mutexVars PROVE MutexInv'
  OBVIOUS
<1>0. MutexTypeOK /\ MutexTypeOK'
  BY MutexTypeStep DEF MutexInv
<1>1. ASSUME NEW t \in Lockers, LockRead(t) PROVE MutexInv'
  BY <1>0, <1>1, ReadStep DEF LockRead
<1>2. ASSUME NEW t \in Lockers, NEW exclusive \in BOOLEAN, LockWrite(t, exclusive)
      PROVE  MutexInv'
  BY <1>0, <1>2, WriteStep DEF LockWrite
<1>3. ASSUME NEW t \in Lockers, LockAsOwner(t) PROVE MutexInv'
  BY <1>0, <1>3, RWMutexAssumption
     DEF LockAsOwner, MutexInv, MutexTypeOK, LockAccounting, NoLostWakeup, Waiting,
         ExclusiveStopsReaders, CountWhenOwned, OwnerToBe, OwnedOnce
<1>4. ASSUME NEW t \in Lockers, LockReadWoken(t) PROVE MutexInv'
  <2>1. CASE threadId = NoThread
    BY <1>0, <1>4, <2>1, ReadStep DEF LockReadWoken
  <2>2. CASE threadId # NoThread
    BY <1>0, <1>4, <2>2
       DEF LockReadWoken, GoTo, MutexInv, MutexTypeOK, LockAccounting, NoLostWakeup, Waiting,
           ExclusiveStopsReaders, CountWhenOwned, OwnerToBe, OwnedOnce
  <2>. QED
    BY <2>1, <2>2
<1>5. ASSUME NEW t \in Lockers, LockWriteWoken(t) PROVE MutexInv'
  <2>1. CASE t \in wantEx
    <3>1. WriteOrWait(t, TRUE) /\ t \in Exclusives
      BY <1>0, <1>5, <2>1 DEF LockWriteWoken, WriteOrWait, MutexTypeOK
    <3>. QED
      BY <1>0, <1>5, <3>1, WriteStep DEF LockWriteWoken
  <2>2. CASE t \notin wantEx
    <3>1. WriteOrWait(t, FALSE)
      BY <1>5, <2>2 DEF LockWriteWoken, WriteOrWait
    <3>. QED
      BY <1>0, <1>5, <3>1, WriteStep DEF LockWriteWoken
  <2>. QED
    BY <2>1, <2>2
<1>6. ASSUME NEW t \in Lockers, LockExclusiveOwn(t) PROVE MutexInv'
  BY <1>0, <1>6, OwnStep
<1>7. ASSUME NEW t \in Lockers, Unlock(t) PROVE MutexInv'
  BY <1>0, <1>7, UnlockReadStep, UnlockWriteStep, UnlockAsOwnerStep DEF Unlock
<1>8. ASSUME NEW t \in Lockers, SpuriousWakeup(t) PROVE MutexInv'
  BY <1>0, <1>8
     DEF SpuriousWakeup, GoTo, MutexInv, MutexTypeOK, LockAccounting, NoLostWakeup, Waiting,
         ExclusiveStopsReaders, CountWhenOwned, OwnerToBe, OwnedOnce
<1>9. CASE UNCHANGED mutexVars
  BY <1>0, <1>9
     DEF mutexVars, MutexInv, LockAccounting, NoLostWakeup, Waiting,
         ExclusiveStopsReaders, CountWhenOwned, OwnerToBe, OwnedOnce
<1>. QED
  BY <1>1, <1>2, <1>3, <1>4, <1>5, <1>6, <1>7, <1>8, <1>9 DEF MutexNext, NewLockCall, Resume

LEMMA MutexInvInit == MutexInit => MutexInv
  BY RWMutexAssumption, FS_EmptySet
     DEF MutexInit, MutexInv, MutexTypeOK, LockAccounting, NoLostWakeup, Waiting,
         ExclusiveStopsReaders, CountWhenOwned, OwnerToBe, OwnedOnce

LEMMA MutexInvAlways == MutexSpec => []MutexInv
  BY MutexInvInit, MutexInvStep, PTL DEF MutexSpec

-----------------------------------------------------------------------------
\* Every variable keeps its type.
THEOREM MutexTypes == MutexSpec => []MutexTypeOK
<1>1. MutexInv => MutexTypeOK
  BY DEF MutexInv
<1>. QED
  BY <1>1, MutexInvAlways, PTL

\* The lock counter is the number of granted locks, so a writer is alone: the
\* counting of Cookfs_RWMutexLockRead, LockWrite and Unlock, for any number of
\* threads and any nesting.
THEOREM CounterTellsWhoIsInside == MutexSpec => []LockAccounting
<1>1. MutexInv => LockAccounting
  BY DEF MutexInv
<1>. QED
  BY <1>1, MutexInvAlways, PTL

\* No schedule loses a wakeup, although Unlock notifies one condition only.
THEOREM WakeupsAreNotLost == MutexSpec => []NoLostWakeup
<1>1. MutexInv => NoLostWakeup
  BY DEF MutexInv
<1>. QED
  BY <1>1, MutexInvAlways, PTL

\* After an exclusive lock no thread reads, and none ever will.
THEOREM ExclusiveEndsReading == MutexSpec => []ExclusiveStopsReaders
<1>1. MutexInv => ExclusiveStopsReaders
  BY DEF MutexInv
<1>. QED
  BY <1>1, MutexInvAlways, PTL

-----------------------------------------------------------------------------
\* Refinement: what the contract calls queued are the threads in LockWrite.

LEMMA MutexInitRefines == MutexInit => Contract!Init
  BY DEF MutexInit, Contract!Init, Waiting

LEMMA MutexNextRefines ==
  MutexInv /\ [MutexNext]_mutexVars => [Contract!Next]_(Contract!absVars)
<1> SUFFICES ASSUME MutexInv, [MutexNext]_mutexVars PROVE [Contract!Next]_(Contract!absVars)
  OBVIOUS
<1>. USE DEF Contract!Next, Contract!absVars
<1>0. MutexTypeOK /\ MutexTypeOK' /\ LockAccounting /\ OwnerToBe /\ OwnedOnce
  BY MutexTypeStep DEF MutexInv
<1>1. ASSUME NEW t \in Lockers, ReadOrWait(t), threadId = NoThread,
             at[t] \in {"idle", "wokenRead"}, UNCHANGED <<threadId, writers, own>>
      PROVE  [Contract!Next]_(Contract!absVars)
  <2>1. CASE numLocks < 0
    BY <1>0, <1>1, <2>1 DEF ReadOrWait, GoTo, Waiting, MutexTypeOK
  <2>2. CASE numLocks >= 0
    <3>1. PICK k \in (1 .. Depth) \ Nested(t) : readers' = readers \cup {<<t, k>>}
      BY <1>0, <1>1, <2>2 DEF ReadOrWait, MutexTypeOK
    <3>2. writers = {}
      BY <1>0, <1>1, <2>2 DEF LockAccounting
    <3>3. Contract!GrantRead(t, k)
      BY <1>0, <1>1, <2>2, <3>1, <3>2
         DEF ReadOrWait, Nested, GoTo, Waiting, MutexTypeOK, Contract!GrantRead
    <3>. QED
      BY <3>3
  <2>. QED
    BY <1>0, <2>1, <2>2 DEF MutexTypeOK
<1>2. ASSUME NEW t \in Lockers, NEW exclusive \in BOOLEAN, WriteOrWait(t, exclusive),
             \/ at[t] = "idle" /\ threadId = NoThread
             \/ at[t] = "wokenWrite",
             UNCHANGED <<threadId, readers, own>>
      PROVE  [Contract!Next]_(Contract!absVars)
  <2>1. CASE numLocks # 0 /\ at[t] = "idle"
    <3>1. Contract!Queue(t)
      BY <1>0, <1>2, <2>1 DEF WriteOrWait, GoTo, Waiting, MutexTypeOK, Contract!Queue
    <3>. QED
      BY <3>1
  <2>2. CASE numLocks # 0 /\ at[t] = "wokenWrite"
    BY <1>0, <1>2, <2>2 DEF WriteOrWait, GoTo, Waiting, MutexTypeOK
  <2>3. CASE numLocks = 0
    <3>1. threadId = NoThread => Contract!Free
      BY <1>0, <2>3, ReadersFinite, FS_EmptySet DEF LockAccounting, MutexTypeOK, Contract!Free
    <3>2. Contract!GrantWrite(t)
      BY <1>0, <1>2, <2>3, <3>1
         DEF WriteOrWait, GoTo, Waiting, MutexTypeOK, Contract!GrantWrite
    <3>. QED
      BY <3>2
  <2>. QED
    BY <1>2, <2>1, <2>2, <2>3
<1>3. ASSUME NEW t \in Lockers, LockAsOwner(t) PROVE [Contract!Next]_(Contract!absVars)
  BY <1>3 DEF LockAsOwner, Waiting, Contract!OwnerAgain
<1>4. ASSUME NEW t \in Lockers, LockReadWoken(t) PROVE [Contract!Next]_(Contract!absVars)
  <2>1. CASE threadId = NoThread
    BY <1>1, <1>4, <2>1 DEF LockReadWoken
  <2>2. CASE threadId # NoThread
    BY <1>0, <1>4, <2>2 DEF LockReadWoken, GoTo, Waiting, MutexTypeOK
  <2>. QED
    BY <2>1, <2>2
<1>5. ASSUME NEW t \in Lockers, LockWriteWoken(t) PROVE [Contract!Next]_(Contract!absVars)
  <2>1. PICK exclusive \in BOOLEAN : WriteOrWait(t, exclusive)
    <3>1. CASE t \in wantEx
      BY <1>5, <3>1 DEF LockWriteWoken, WriteOrWait
    <3>2. CASE t \notin wantEx
      BY <1>5, <3>2 DEF LockWriteWoken, WriteOrWait
    <3>. QED
      BY <3>1, <3>2
  <2>. QED
    BY <1>2, <1>5, <2>1 DEF LockWriteWoken
<1>6. ASSUME NEW t \in Lockers, LockExclusiveOwn(t)
      PROVE  [Contract!Next]_(Contract!absVars)
  <2>1. Contract!TakeOver(t)
    BY <1>0, <1>6 DEF LockExclusiveOwn, OwnerToBe, GoTo, Waiting, MutexTypeOK, Contract!TakeOver
  <2>. QED
    BY <2>1
<1>7. ASSUME UnlockMutex
      PROVE  UNCHANGED <<Waiting("condWrite") \cup Waiting("wokenWrite"), threadId>>
  BY <1>0, <1>7 DEF UnlockMutex, Notified, Waiting, MutexTypeOK
<1>8. ASSUME NEW t \in Lockers, Unlock(t) PROVE [Contract!Next]_(Contract!absVars)
  <2>1. Contract!Release(t)
    BY <1>7, <1>8
       DEF Unlock, UnlockRead, UnlockWrite, UnlockAsOwner, Nested, Contract!Release
  <2>. QED
    BY <2>1
<1>9. ASSUME NEW t \in Lockers, SpuriousWakeup(t)
      PROVE  UNCHANGED Contract!absVars
  BY <1>0, <1>9 DEF SpuriousWakeup, GoTo, Waiting, MutexTypeOK
<1>10. CASE UNCHANGED mutexVars
  BY <1>10 DEF mutexVars, Waiting
<1>11. ASSUME NEW t \in Lockers, NewLockCall(t) PROVE [Contract!Next]_(Contract!absVars)
  BY <1>1, <1>2, <1>3, <1>11 DEF NewLockCall, LockRead, LockWrite
<1>. QED
  BY <1>4, <1>5, <1>6, <1>8, <1>9, <1>10, <1>11 DEF MutexNext, Resume

\* Every behaviour of the mutex is one of the contract RWLock: the callers may
\* forget numLocks and the two condition variables.
THEOREM MutexImplementsContract == MutexSpec => ImplementsContract
  BY MutexInitRefines, MutexNextRefines, MutexInvAlways, PTL DEF MutexSpec, ImplementsContract,
     Contract!Spec

-----------------------------------------------------------------------------
(* The mount registry.                                                     *)

\* A thread in a call works on some mount.
InCall == \A t \in Threads : pc[t] # "idle" => vfs[t] \in Vfss

\* global.mx is kept exactly by the thread that waits for an fsindex lock.
MxIsKept == \A t \in Threads : pc[t] = "locked" <=> mx = t

\* No thread has seen a later state of the lists than there is.
SeenIsPast == \A t \in Threads : seen[t] <= changeId

\* A mount is in one list: the global one or the one of its home thread.
OneList ==
  \A t \in Threads : \A v \in local[t] : home[v] = t /\ v \notin globalList

\* What is being closed is closed by its home thread and by nobody else.
ClosedAtHome ==
  \A t \in Threads : pc[t] \in {"removing", "closing"} =>
    life[vfs[t]] = "closing" /\ home[vfs[t]] = t

RegistryInv ==
  /\ RegistryTypeOK
  /\ InCall
  /\ MxIsKept
  /\ SeenIsPast
  /\ OneList
  /\ ClosedAtHome
  /\ LockedIsMounted
  /\ NothingFreedIsUsed
  /\ CacheIsCurrent

-----------------------------------------------------------------------------
\* The initial state satisfies the invariant.
LEMMA RegistryInvInit == RegistryInit => RegistryInv
BY RegistryAssumption
DEF RegistryInit, RegistryInv, RegistryTypeOK, InCall, MxIsKept, SeenIsPast, OneList, ClosedAtHome,
    LockedIsMounted, NothingFreedIsUsed, CacheIsCurrent, Visible, Kinds

\* Every step keeps the types.
LEMMA RegistryTypeStep == RegistryTypeOK /\ InCall /\ [RegistryNext]_registryVars => RegistryTypeOK'
<1> SUFFICES ASSUME RegistryTypeOK, InCall, [RegistryNext]_registryVars PROVE RegistryTypeOK'
  OBVIOUS
<1> USE DEF RegistryTypeOK, InCall, Go, lists, caches, objects, TsdUpdate,
            UpdateThreadData, Visible, Kinds
<1>1. ASSUME NEW t \in Threads, NEW v \in Vfss, NEW isShared \in BOOLEAN,
             AddVfs(t, v, isShared) PROVE RegistryTypeOK'
  BY <1>1 DEF AddVfs
<1>2. ASSUME NEW t \in Threads, NEW v \in Vfss, Resolve(t, v) PROVE RegistryTypeOK'
  BY <1>2 DEF Resolve
<1>3. ASSUME NEW t \in Threads, NEW v \in Vfss, FindVfs(t, v) PROVE RegistryTypeOK'
  BY <1>3 DEF FindVfs
<1>4. ASSUME NEW t \in Threads, FinishMount(t) PROVE RegistryTypeOK'
  BY <1>4 DEF FinishMount
<1>5. ASSUME NEW t \in Threads, VfsLock(t) PROVE RegistryTypeOK'
  BY <1>5 DEF VfsLock
<1>6. ASSUME NEW t \in Threads, TryAgain(t) PROVE RegistryTypeOK'
  BY <1>6 DEF TryAgain
<1>7. ASSUME NEW t \in Threads, NEW kind \in Kinds, LockFsindex(t, kind)
      PROVE RegistryTypeOK'
  BY <1>7 DEF LockFsindex
<1>8. ASSUME NEW t \in Threads, FsindexUnlock(t) PROVE RegistryTypeOK'
  BY <1>8 DEF FsindexUnlock
<1>9. ASSUME NEW t \in Threads, RemoveVfs(t) PROVE RegistryTypeOK'
  BY <1>9 DEF RemoveVfs, IsShared
<1>10. ASSUME NEW t \in Threads, FinishRemove(t) PROVE RegistryTypeOK'
  BY <1>10 DEF FinishRemove
<1>11. ASSUME NEW t \in Threads, VfsFini(t) PROVE RegistryTypeOK'
  BY <1>11 DEF VfsFini
<1>12. CASE UNCHANGED registryVars
  BY <1>12 DEF registryVars
<1> QED
  BY <1>1, <1>2, <1>3, <1>4, <1>5, <1>6, <1>7, <1>8, <1>9, <1>10, <1>11, <1>12
  DEF RegistryNext, NewCall, GoOn, Quiet

\* AddVfs keeps the invariant.
LEMMA AddVfsStep ==
  ASSUME NEW t \in Threads, NEW v \in Vfss, NEW isShared \in BOOLEAN,
         RegistryInv, RegistryTypeOK', AddVfs(t, v, isShared)
  PROVE  RegistryInv'
<1> USE RegistryAssumption DEF RegistryInv, RegistryTypeOK, Visible, Kinds, Go, lists, caches, objects
<1>1. InCall'
  BY DEF AddVfs, InCall
<1>2. MxIsKept'
  BY DEF AddVfs, MxIsKept
<1>3. SeenIsPast'
  BY DEF AddVfs, SeenIsPast
<1>4. OneList'
  BY DEF AddVfs, OneList, NothingFreedIsUsed
<1>5. ClosedAtHome'
  BY DEF AddVfs, ClosedAtHome, InCall
<1>6. LockedIsMounted'
  BY DEF AddVfs, LockedIsMounted, MxIsKept, InCall, OneList, NothingFreedIsUsed,
         CacheIsCurrent, ClosedAtHome
<1>7. NothingFreedIsUsed'
  BY DEF AddVfs, NothingFreedIsUsed, OneList, ClosedAtHome, LockedIsMounted, InCall
<1>8. CacheIsCurrent'
  BY DEF AddVfs, CacheIsCurrent, SeenIsPast
<1> QED
  BY <1>1, <1>2, <1>3, <1>4, <1>5, <1>6, <1>7, <1>8

\* Resolve keeps the invariant.
LEMMA ResolveStep ==
  ASSUME NEW t \in Threads, NEW v \in Vfss,
         RegistryInv, RegistryTypeOK', Resolve(t, v)
  PROVE  RegistryInv'
<1> USE RegistryAssumption DEF RegistryInv, RegistryTypeOK, Visible, Kinds, Go, lists, caches, objects
<1>1. InCall'
  BY DEF Resolve, TsdUpdate, UpdateThreadData, InCall
<1>2. MxIsKept'
  BY DEF Resolve, TsdUpdate, UpdateThreadData, MxIsKept
<1>3. SeenIsPast'
  BY DEF Resolve, TsdUpdate, UpdateThreadData, SeenIsPast
<1>4. OneList'
  BY DEF Resolve, TsdUpdate, UpdateThreadData, OneList, NothingFreedIsUsed
<1>5. ClosedAtHome'
  BY DEF Resolve, TsdUpdate, UpdateThreadData, ClosedAtHome, InCall
<1>6. LockedIsMounted'
  BY DEF Resolve, TsdUpdate, UpdateThreadData, LockedIsMounted, MxIsKept, InCall, OneList,
         NothingFreedIsUsed, CacheIsCurrent, ClosedAtHome
<1>7. NothingFreedIsUsed'
  BY DEF Resolve, TsdUpdate, UpdateThreadData, NothingFreedIsUsed, OneList, ClosedAtHome,
         LockedIsMounted, InCall
<1>8. CacheIsCurrent'
  BY DEF Resolve, TsdUpdate, UpdateThreadData, CacheIsCurrent, SeenIsPast
<1> QED
  BY <1>1, <1>2, <1>3, <1>4, <1>5, <1>6, <1>7, <1>8

\* FindVfs keeps the invariant.
LEMMA FindVfsStep ==
  ASSUME NEW t \in Threads, NEW v \in Vfss,
         RegistryInv, RegistryTypeOK', FindVfs(t, v)
  PROVE  RegistryInv'
<1> USE RegistryAssumption DEF RegistryInv, RegistryTypeOK, Visible, Kinds, Go, lists, caches, objects
<1>1. InCall'
  BY DEF FindVfs, TsdUpdate, UpdateThreadData, InCall
<1>2. MxIsKept'
  BY DEF FindVfs, TsdUpdate, UpdateThreadData, MxIsKept
<1>3. SeenIsPast'
  BY DEF FindVfs, TsdUpdate, UpdateThreadData, SeenIsPast
<1>4. OneList'
  BY DEF FindVfs, TsdUpdate, UpdateThreadData, OneList, NothingFreedIsUsed
<1>5. ClosedAtHome'
  BY DEF FindVfs, TsdUpdate, UpdateThreadData, ClosedAtHome, InCall
<1>6. LockedIsMounted'
  BY DEF FindVfs, TsdUpdate, UpdateThreadData, LockedIsMounted, MxIsKept, InCall, OneList,
         NothingFreedIsUsed, CacheIsCurrent, ClosedAtHome
<1>7. NothingFreedIsUsed'
  BY DEF FindVfs, TsdUpdate, UpdateThreadData, NothingFreedIsUsed, OneList, ClosedAtHome,
         LockedIsMounted, InCall
<1>8. CacheIsCurrent'
  BY DEF FindVfs, TsdUpdate, UpdateThreadData, CacheIsCurrent, SeenIsPast
<1> QED
  BY <1>1, <1>2, <1>3, <1>4, <1>5, <1>6, <1>7, <1>8

\* FinishMount keeps the invariant.
LEMMA FinishMountStep ==
  ASSUME NEW t \in Threads,
         RegistryInv, RegistryTypeOK', FinishMount(t)
  PROVE  RegistryInv'
<1> USE RegistryAssumption DEF RegistryInv, RegistryTypeOK, Visible, Kinds, Go, lists, caches, objects
<1>1. InCall'
  BY DEF FinishMount, UpdateThreadData, InCall
<1>2. MxIsKept'
  BY DEF FinishMount, UpdateThreadData, MxIsKept
<1>3. SeenIsPast'
  BY DEF FinishMount, UpdateThreadData, SeenIsPast
<1>4. OneList'
  BY DEF FinishMount, UpdateThreadData, OneList, NothingFreedIsUsed
<1>5. ClosedAtHome'
  BY DEF FinishMount, UpdateThreadData, ClosedAtHome, InCall
<1>6. LockedIsMounted'
  BY DEF FinishMount, UpdateThreadData, LockedIsMounted, MxIsKept, InCall, OneList,
         NothingFreedIsUsed, CacheIsCurrent, ClosedAtHome
<1>7. NothingFreedIsUsed'
  BY DEF FinishMount, UpdateThreadData, NothingFreedIsUsed, OneList, ClosedAtHome,
         LockedIsMounted, InCall
<1>8. CacheIsCurrent'
  BY DEF FinishMount, UpdateThreadData, CacheIsCurrent, SeenIsPast
<1> QED
  BY <1>1, <1>2, <1>3, <1>4, <1>5, <1>6, <1>7, <1>8

\* VfsLock keeps the invariant.
LEMMA VfsLockStep ==
  ASSUME NEW t \in Threads,
         RegistryInv, RegistryTypeOK', VfsLock(t)
  PROVE  RegistryInv'
<1> USE RegistryAssumption DEF RegistryInv, RegistryTypeOK, Visible, Kinds, Go, lists, caches, objects
<1>1. InCall'
  BY DEF VfsLock, InCall
<1>2. MxIsKept'
  BY DEF VfsLock, MxIsKept
<1>3. SeenIsPast'
  BY DEF VfsLock, SeenIsPast
<1>4. OneList'
  BY DEF VfsLock, OneList, NothingFreedIsUsed
<1>5. ClosedAtHome'
  BY DEF VfsLock, ClosedAtHome, InCall
<1>6. LockedIsMounted'
  BY DEF VfsLock, LockedIsMounted, MxIsKept, InCall, OneList, NothingFreedIsUsed,
         CacheIsCurrent, ClosedAtHome
<1>7. NothingFreedIsUsed'
  BY DEF VfsLock, NothingFreedIsUsed, OneList, ClosedAtHome, LockedIsMounted, InCall
<1>8. CacheIsCurrent'
  BY DEF VfsLock, CacheIsCurrent, SeenIsPast
<1> QED
  BY <1>1, <1>2, <1>3, <1>4, <1>5, <1>6, <1>7, <1>8

\* TryAgain keeps the invariant.
LEMMA TryAgainStep ==
  ASSUME NEW t \in Threads,
         RegistryInv, RegistryTypeOK', TryAgain(t)
  PROVE  RegistryInv'
<1> USE RegistryAssumption DEF RegistryInv, RegistryTypeOK, Visible, Kinds, Go, lists, caches, objects
<1>1. InCall'
  BY DEF TryAgain, UpdateThreadData, InCall
<1>2. MxIsKept'
  BY DEF TryAgain, UpdateThreadData, MxIsKept
<1>3. SeenIsPast'
  BY DEF TryAgain, UpdateThreadData, SeenIsPast
<1>4. OneList'
  BY DEF TryAgain, UpdateThreadData, OneList, NothingFreedIsUsed
<1>5. ClosedAtHome'
  BY DEF TryAgain, UpdateThreadData, ClosedAtHome, InCall
<1>6. LockedIsMounted'
  BY DEF TryAgain, UpdateThreadData, LockedIsMounted, MxIsKept, InCall, OneList,
         NothingFreedIsUsed, CacheIsCurrent, ClosedAtHome
<1>7. NothingFreedIsUsed'
  BY DEF TryAgain, UpdateThreadData, NothingFreedIsUsed, OneList, ClosedAtHome,
         LockedIsMounted, InCall
<1>8. CacheIsCurrent'
  BY DEF TryAgain, UpdateThreadData, CacheIsCurrent, SeenIsPast
<1> QED
  BY <1>1, <1>2, <1>3, <1>4, <1>5, <1>6, <1>7, <1>8

\* LockFsindex keeps the invariant.
LEMMA LockFsindexStep ==
  ASSUME NEW t \in Threads, NEW kind \in Kinds,
         RegistryInv, RegistryTypeOK', LockFsindex(t, kind)
  PROVE  RegistryInv'
<1> USE RegistryAssumption DEF RegistryInv, RegistryTypeOK, Visible, Kinds, Go, lists, caches, objects
<1>1. InCall'
  BY DEF LockFsindex, InCall
<1>2. MxIsKept'
  BY DEF LockFsindex, MxIsKept
<1>3. SeenIsPast'
  BY DEF LockFsindex, SeenIsPast
<1>4. OneList'
  BY DEF LockFsindex, OneList, NothingFreedIsUsed
<1>5. ClosedAtHome'
  BY DEF LockFsindex, ClosedAtHome, InCall
<1>6. LockedIsMounted'
  BY DEF LockFsindex, LockedIsMounted, MxIsKept, InCall, OneList, NothingFreedIsUsed,
         CacheIsCurrent, ClosedAtHome
<1>7. NothingFreedIsUsed'
  BY DEF LockFsindex, NothingFreedIsUsed, OneList, ClosedAtHome, LockedIsMounted, InCall
<1>8. CacheIsCurrent'
  BY DEF LockFsindex, CacheIsCurrent, SeenIsPast
<1> QED
  BY <1>1, <1>2, <1>3, <1>4, <1>5, <1>6, <1>7, <1>8

\* FsindexUnlock keeps the invariant.
LEMMA FsindexUnlockStep ==
  ASSUME NEW t \in Threads,
         RegistryInv, RegistryTypeOK', FsindexUnlock(t)
  PROVE  RegistryInv'
<1> USE RegistryAssumption DEF RegistryInv, RegistryTypeOK, Visible, Kinds, Go, lists, caches, objects
<1>1. InCall'
  BY DEF FsindexUnlock, InCall
<1>2. MxIsKept'
  BY DEF FsindexUnlock, MxIsKept
<1>3. SeenIsPast'
  BY DEF FsindexUnlock, SeenIsPast
<1>4. OneList'
  BY DEF FsindexUnlock, OneList, NothingFreedIsUsed
<1>5. ClosedAtHome'
  BY DEF FsindexUnlock, ClosedAtHome, InCall
<1>6. LockedIsMounted'
  BY DEF FsindexUnlock, LockedIsMounted, MxIsKept, InCall, OneList, NothingFreedIsUsed,
         CacheIsCurrent, ClosedAtHome
<1>7. NothingFreedIsUsed'
  BY DEF FsindexUnlock, NothingFreedIsUsed, OneList, ClosedAtHome, LockedIsMounted, InCall
<1>8. CacheIsCurrent'
  BY DEF FsindexUnlock, CacheIsCurrent, SeenIsPast
<1> QED
  BY <1>1, <1>2, <1>3, <1>4, <1>5, <1>6, <1>7, <1>8

\* RemoveVfs keeps the invariant.
LEMMA RemoveVfsStep ==
  ASSUME NEW t \in Threads,
         RegistryInv, RegistryTypeOK', RemoveVfs(t)
  PROVE  RegistryInv'
<1> USE RegistryAssumption DEF RegistryInv, RegistryTypeOK, Visible, Kinds, Go, lists, caches, objects
<1>1. InCall'
  BY DEF RemoveVfs, TsdUpdate, UpdateThreadData, IsShared, InCall
<1>2. MxIsKept'
  BY DEF RemoveVfs, TsdUpdate, UpdateThreadData, IsShared, MxIsKept
<1>3. SeenIsPast'
  BY DEF RemoveVfs, TsdUpdate, UpdateThreadData, IsShared, SeenIsPast
<1>4. OneList'
  BY DEF RemoveVfs, TsdUpdate, UpdateThreadData, IsShared, OneList, NothingFreedIsUsed
<1>5. ClosedAtHome'
  BY DEF RemoveVfs, TsdUpdate, UpdateThreadData, IsShared, ClosedAtHome, InCall
<1>6. LockedIsMounted'
  BY DEF RemoveVfs, TsdUpdate, UpdateThreadData, IsShared, LockedIsMounted, MxIsKept, InCall,
         OneList, NothingFreedIsUsed, CacheIsCurrent, ClosedAtHome
<1>7. NothingFreedIsUsed'
  BY DEF RemoveVfs, TsdUpdate, UpdateThreadData, IsShared, NothingFreedIsUsed, OneList,
         ClosedAtHome, LockedIsMounted, InCall
<1>8. CacheIsCurrent'
  BY DEF RemoveVfs, TsdUpdate, UpdateThreadData, IsShared, CacheIsCurrent, SeenIsPast
<1> QED
  BY <1>1, <1>2, <1>3, <1>4, <1>5, <1>6, <1>7, <1>8

\* FinishRemove keeps the invariant.
LEMMA FinishRemoveStep ==
  ASSUME NEW t \in Threads,
         RegistryInv, RegistryTypeOK', FinishRemove(t)
  PROVE  RegistryInv'
<1> USE RegistryAssumption DEF RegistryInv, RegistryTypeOK, Visible, Kinds, Go, lists, caches, objects
<1>1. InCall'
  BY DEF FinishRemove, UpdateThreadData, InCall
<1>2. MxIsKept'
  BY DEF FinishRemove, UpdateThreadData, MxIsKept
<1>3. SeenIsPast'
  BY DEF FinishRemove, UpdateThreadData, SeenIsPast
<1>4. OneList'
  BY DEF FinishRemove, UpdateThreadData, OneList, NothingFreedIsUsed
<1>5. ClosedAtHome'
  BY DEF FinishRemove, UpdateThreadData, ClosedAtHome, InCall
<1>6. LockedIsMounted'
  BY DEF FinishRemove, UpdateThreadData, LockedIsMounted, MxIsKept, InCall, OneList,
         NothingFreedIsUsed, CacheIsCurrent, ClosedAtHome
<1>7. NothingFreedIsUsed'
  BY DEF FinishRemove, UpdateThreadData, NothingFreedIsUsed, OneList, ClosedAtHome,
         LockedIsMounted, InCall
<1>8. CacheIsCurrent'
  BY DEF FinishRemove, UpdateThreadData, CacheIsCurrent, SeenIsPast
<1> QED
  BY <1>1, <1>2, <1>3, <1>4, <1>5, <1>6, <1>7, <1>8

\* VfsFini keeps the invariant.
LEMMA VfsFiniStep ==
  ASSUME NEW t \in Threads,
         RegistryInv, RegistryTypeOK', VfsFini(t)
  PROVE  RegistryInv'
<1> USE RegistryAssumption DEF RegistryInv, RegistryTypeOK, Visible, Kinds, Go, lists, caches, objects
<1>1. InCall'
  BY DEF VfsFini, InCall
<1>2. MxIsKept'
  BY DEF VfsFini, MxIsKept
<1>3. SeenIsPast'
  BY DEF VfsFini, SeenIsPast
<1>4. OneList'
  BY DEF VfsFini, OneList, NothingFreedIsUsed
<1>5. ClosedAtHome'
  BY DEF VfsFini, ClosedAtHome, InCall
<1>6. LockedIsMounted'
  BY DEF VfsFini, LockedIsMounted, MxIsKept, InCall, OneList, NothingFreedIsUsed,
         CacheIsCurrent, ClosedAtHome
<1>7. NothingFreedIsUsed'
  BY DEF VfsFini, NothingFreedIsUsed, OneList, ClosedAtHome, LockedIsMounted, InCall
<1>8. CacheIsCurrent'
  BY DEF VfsFini, CacheIsCurrent, SeenIsPast
<1> QED
  BY <1>1, <1>2, <1>3, <1>4, <1>5, <1>6, <1>7, <1>8

\* Every step keeps the invariant.
LEMMA RegistryInvStep == RegistryInv /\ [RegistryNext]_registryVars => RegistryInv'
<1> SUFFICES ASSUME RegistryInv, [RegistryNext]_registryVars PROVE RegistryInv'
  OBVIOUS
<1>1. RegistryTypeOK'
  BY RegistryTypeStep DEF RegistryInv
<1>2. CASE UNCHANGED registryVars
  BY <1>2 DEF registryVars, lists, caches, objects, RegistryInv, RegistryTypeOK, InCall, MxIsKept,
    SeenIsPast, OneList, ClosedAtHome, LockedIsMounted, NothingFreedIsUsed,
    CacheIsCurrent, Visible
<1> QED
  BY <1>1, <1>2, AddVfsStep, ResolveStep, FindVfsStep, FinishMountStep,
    VfsLockStep, TryAgainStep, LockFsindexStep, FsindexUnlockStep,
    RemoveVfsStep, FinishRemoveStep, VfsFiniStep
  DEF RegistryNext, NewCall, GoOn, Quiet

\* The invariant holds in every reachable state.
LEMMA RegistryInvAlways == RegistrySpec => []RegistryInv
BY RegistryInvInit, RegistryInvStep, PTL DEF RegistrySpec

-----------------------------------------------------------------------------
\* The lists, caches, locks and calls of the registry keep their types.
THEOREM RegistryTypes == RegistrySpec => []RegistryTypeOK
<1>1. RegistryInv => RegistryTypeOK
  BY DEF RegistryInv
<1> QED
  BY <1>1, RegistryInvAlways, PTL

\* A file operation that waits for the fsindex lock of a mount, or is about to
\* be let in, has a mount that is listed and alive, however unmounts and
\* mounts of all threads interleave with its lookups (Cookfs_CookfsVfsLock).
THEOREM LockedMountIsAlive == RegistrySpec => []LockedIsMounted
<1>1. RegistryInv => LockedIsMounted
  BY DEF RegistryInv
<1> QED
  BY <1>1, RegistryInvAlways, PTL

\* No operation is inside the fsindex of a freed mount, and no list leads to
\* one (Cookfs_CookfsRemoveVfs before Cookfs_VfsFini).
THEOREM FreedMountIsUnused == RegistrySpec => []NothingFreedIsUsed
<1>1. RegistryInv => NothingFreedIsUsed
  BY DEF RegistryInv
<1> QED
  BY <1>1, RegistryInvAlways, PTL

\* Comparing globalChangeId with global.changeId tells whether a thread's cache
\* is complete and holds nothing stale (TCL_TSD_UPDATE).
THEOREM ChangeIdTellsStaleCaches == RegistrySpec => []CacheIsCurrent
<1>1. RegistryInv => CacheIsCurrent
  BY DEF RegistryInv
<1> QED
  BY <1>1, RegistryInvAlways, PTL

-----------------------------------------------------------------------------
(* An archive with passwords and keys: the parts of its invariant.         *)

\* What the variables are
VaultTypes ==
  /\ disk \in Archives \cup {NULL} /\ pages \in PagesObjects \cup {NULL}
  /\ cache \in CachedPages \cup {NULL}
  /\ index \in [Files -> Nat \cup {NULL}]
  /\ buffer \in Seq([file : Files, content : Contents]) /\ mounts \in Nat

Padded(c) == AddPadding(PageObjNewFromString(c))

\* Each page is as it was written: padded and under a key, or plain.
AsWritten(list) ==
  \A i \in DOMAIN list :
    LET g == list[i]
    IN IF g.encryption THEN g.stored.key \in Keys /\ g.stored.bytes = Padded(g.hash)
       ELSE g.stored = [bytes |-> g.hash, key |-> NULL]

PagesFit ==
  /\ disk # NULL => AsWritten(disk.list)
  /\ pages # NULL => AsWritten(pages.list)

CacheFits ==
  cache # NULL =>
    /\ pages # NULL /\ cache.page \in DOMAIN pages.list
    /\ cache.bytes = pages.list[cache.page].hash

\* A file that waits is in the buffer once, any other has a page.
FilesFit ==
  /\ \A k, l \in DOMAIN buffer : buffer[k].file = buffer[l].file => k = l
  /\ \A f \in Files : index[f] = PENDING <=> \E k \in DOMAIN buffer : buffer[k].file = f
  /\ pages = NULL => buffer = <<>>
  /\ \A f \in Files : index[f] \notin {NULL, PENDING} =>
       IF pages # NULL THEN index[f] \in DOMAIN pages.list
       ELSE disk # NULL /\ index[f] \in DOMAIN disk.list

\* What is not saved at an unmount is what was saved.
SavedFits ==
  pages # NULL /\ pages.pagesUptodate /\ ~pages.indexChanged =>
    /\ buffer = <<>>
    /\ IF disk = NULL THEN \A f \in Files : index[f] = NULL ELSE pages.list = disk.list

\* An archive's own key is random, and sealed by a password.
ArchiveFits ==
  disk # NULL =>
    /\ disk.encryption # "none" => disk.salt \in Nat
    /\ IF disk.encryption \in {"none", "file"} THEN disk.encryptedKey = NULL
       ELSE /\ disk.encryptedKey # NULL /\ disk.encryptedKey.key.password = NULL
            /\ disk.encryptedKey.by.password \in Passwords

\* The password and the key that a pages object has, in each mode
KeysOf(p) ==
  /\ p.isEncryptionActive => p.isPasswordSet
  /\ p.isPasswordSet => p.encryption # "none"
  /\ IF IsEncryptkey(p)
     THEN /\ p.isPasswordSet => p.isKeyDecrypted /\ p.encryptedKey # NULL
          /\ p.isKeyDecrypted => p.encryptionKey # NULL /\ p.encryptionKey.password = NULL
          /\ p.encryptedKey # NULL =>
               /\ p.encryptedKey.key.password = NULL
               /\ p.encryptedKey.by.password \in Passwords
               /\ p.isKeyDecrypted => p.encryptedKey.key = p.encryptionKey
          /\ ~p.isKeyDecrypted => p.encryption = "key" /\ p.encryptedKey # NULL
     ELSE /\ ~p.isKeyDecrypted
          /\ p.isEncryptionActive =>
               /\ p.encryptionKey # NULL /\ p.encryptionKey.password \in Passwords
               /\ p.encryptionKey.salt = p.passwordSalt

\* With a key of its own no page of an archive has another one.
OwnKey(p) ==
  IsEncryptkey(p) =>
    \A i \in DOMAIN p.list : p.list[i].encryption =>
      p.list[i].stored.key = IF p.isKeyDecrypted THEN p.encryptionKey ELSE p.encryptedKey.key

\* An archive keeps its mode, its salt and its key while it is mounted.
SealOf(d, p) ==
  IF d = NULL THEN IsEncryptkey(p) => p.isKeyDecrypted
  ELSE IF d.encryption = "none" THEN ~IsEncryptkey(p)
  ELSE /\ p.encryption = d.encryption /\ p.passwordSalt = d.salt
       /\ IsEncryptkey(p) => p.encryptedKey # NULL /\ p.encryptedKey.key = d.encryptedKey.key

KeysFit == pages # NULL => KeysOf(pages)

SealFits == pages # NULL => SealOf(disk, pages)

\* Only file encryption meets pages that it cannot read (the comment in
\* Cookfs_PageAddRaw): with a key of its own an archive has no other.
OneKey ==
  /\ pages # NULL => OwnKey(pages)
  /\ disk # NULL /\ disk.encryptedKey # NULL =>
       \A i \in DOMAIN disk.list : disk.list[i].encryption =>
         disk.list[i].stored.key = disk.encryptedKey.key

VaultInv ==
  /\ VaultTypes /\ PagesFit /\ CacheFits /\ FilesFit /\ SavedFits /\ ArchiveFits
  /\ KeysFit /\ SealFits /\ OneKey

Plain(list) == \A i \in DOMAIN list : ~list[i].encryption

\* Nothing is protected that nobody gave a password for.
PlainFits ==
  /\ disk # NULL /\ disk.encryption = "none" => Plain(disk.list)
  /\ pages # NULL /\ ~pages.isPasswordSet /\ (disk = NULL \/ disk.encryption = "none") => Plain(pages.list)

\* No file that waits is equal to a page in the cache that another key protects.
Unshared(list, held, key, c) ==
  held # NULL /\ held.bytes = c /\ list[held.page].encryption => list[held.page].stored.key = key

BufferUnshared ==
  \A k \in DOMAIN buffer : Unshared(pages.list, cache, pages.encryptionKey, buffer[k].content)

CarefulInv == PlainFits /\ BufferUnshared

-----------------------------------------------------------------------------
(* Padding and the cipher.                                                 *)

LEMMA BlockSizeFits == BlockSize \in Nat \ {0}
BY EncryptionAssumption

LEMMA Remainder ==
  ASSUME NEW n \in Nat, NEW d \in Nat \ {0}
  PROVE  n % d \in 0 .. d - 1
OBVIOUS

LEMMA PadByteFits ==
  ASSUME NEW n \in Nat
  PROVE  PadByte(n) \in 1 .. BlockSize
<1>1. n % BlockSize \in 0 .. BlockSize - 1
  BY BlockSizeFits, Remainder
<1> QED
  BY <1>1, BlockSizeFits DEF PadByte

\* The room of a page object is enough for its padding.
LEMMA PaddedIs ==
  ASSUME NEW c \in Seq(Nat)
  PROVE  LET n == PadByte(Len(c))
         IN  /\ n \in 1 .. BlockSize /\ Padded(c) \in Seq(Nat) /\ Len(Padded(c)) = Len(c) + n
             /\ \A i \in 1 .. Len(c) : Padded(c)[i] = c[i]
             /\ \A i \in Len(c) + 1 .. Len(c) + n : Padded(c)[i] = n
<1> DEFINE n == PadByte(Len(c))
           t == [i \in 1 .. n |-> n]
           pg == PageObjNewFromString(c)
<1>1. Len(c) \in Nat
  BY LenProperties
<1>2. n \in 1 .. BlockSize /\ BlockSize \in Nat
  BY <1>1, PadByteFits, BlockSizeFits
<1>3. pg.bytes = c /\ pg.bufferSize = Len(c) + n
  BY DEF PageObjNewFromString, CalculateSize
<1> HIDE DEF n, pg
<1>4. n \in Nat /\ t \in Seq(Nat) /\ Len(t) = n /\ \A i \in 1 .. n : t[i] = n
  BY <1>2
<1> HIDE DEF t
<1>5. /\ c \o t \in Seq(Nat) /\ Len(c \o t) = Len(c) + n
      /\ \A i \in 1 .. Len(c) + n : (c \o t)[i] = IF i <= Len(c) THEN c[i] ELSE t[i - Len(c)]
  BY <1>4, ConcatProperties
<1>6. Padded(c) = c \o t
  <2>1. n = PadByte(Len(pg.bytes))
    BY <1>3 DEF n
  <2> QED
    BY <1>1, <1>3, <1>4, <1>5, <2>1 DEF Padded, AddPadding, t, pg
<1>7. \A i \in 1 .. Len(c) : (c \o t)[i] = c[i]
  BY <1>1, <1>4, <1>5
<1>8. \A i \in Len(c) + 1 .. Len(c) + n : (c \o t)[i] = n
  <2> SUFFICES ASSUME NEW i \in Len(c) + 1 .. Len(c) + n PROVE (c \o t)[i] = n
    OBVIOUS
  <2>1. i \in 1 .. Len(c) + n /\ ~(i <= Len(c)) /\ i - Len(c) \in 1 .. n
    BY <1>1, <1>4
  <2> QED
    BY <1>4, <1>5, <2>1
<1> QED
  BY <1>2, <1>5, <1>6, <1>7, <1>8 DEF n

LEMMA ContentIsBytes ==
  ASSUME NEW c \in Contents
  PROVE  c \in Seq(Nat) /\ Len(c) \in Nat \ {0} /\ c[1] \in Nat \ {0}
<1>1. c \in Seq(1 .. BlockSize) /\ c # <<>>
  BY EncryptionAssumption
<1>2. Len(c) \in Nat \ {0}
  BY <1>1, EmptySeq
<1>3. c[1] \in 1 .. BlockSize
  <2>1. 1 \in 1 .. Len(c)
    BY <1>2
  <2> QED
    BY <1>1, <2>1, ElementOfSeq
<1>4. 1 .. BlockSize \subseteq Nat
  BY BlockSizeFits
<1>5. c \in Seq(Nat)
  BY <1>1, <1>4, SeqMonotonic
<1> QED
  BY <1>2, <1>3, <1>5, BlockSizeFits

\* A content of whole blocks, or one that ends like padding, comes back too
\* (Cookfs_PageObjAddPadding, Cookfs_PageObjRemovePadding).
LEMMA PaddingIsRemoved ==
  ASSUME NEW c \in Contents
  PROVE  RemovePadding(Padded(c)) = c
<1> DEFINE n == PadByte(Len(c))
           b == Padded(c)
<1>1. c \in Seq(Nat) /\ Len(c) \in Nat \ {0}
  BY ContentIsBytes
<1>2. /\ n \in 1 .. BlockSize /\ b \in Seq(Nat) /\ Len(b) = Len(c) + n
      /\ \A i \in 1 .. Len(c) : b[i] = c[i]
      /\ \A i \in Len(c) + 1 .. Len(c) + n : b[i] = n
  BY <1>1, PaddedIs
<1>0. BlockSize \in Nat \ {0}
  BY BlockSizeFits
<1> HIDE DEF n, b
<1>3. Last(b) = n
  <2>1. Len(b) \in Len(c) + 1 .. Len(c) + n
    BY <1>0, <1>1, <1>2
  <2> QED
    BY <1>2, <2>1 DEF Last
<1>4. /\ n <= Len(b) /\ Len(b) - n + 1 = Len(c) + 1 /\ Len(b) - n = Len(c)
  BY <1>0, <1>1, <1>2
<1>5. RemovePadding(b) = SubSeq(b, 1, Len(c))
  <2>1. \A i \in (Len(b) - n + 1) .. Len(b) : b[i] = n
    BY <1>2, <1>4
  <2>2. ~(n > Len(b))
    BY <1>0, <1>1, <1>2, <1>4
  <2> QED
    BY <1>2, <1>3, <1>4, <2>1, <2>2 DEF RemovePadding
<1>6. SubSeq(b, 1, Len(c)) = c
  <2>1. Len(c) <= Len(b)
    BY <1>0, <1>1, <1>2
  <2>2. \A i \in 1 .. Len(c) : b[i] \in Nat
    BY <1>1, <1>2, ElementOfSeq
  <2>3. /\ SubSeq(b, 1, Len(c)) \in Seq(Nat) /\ Len(SubSeq(b, 1, Len(c))) = Len(c)
        /\ \A i \in 1 .. Len(c) : SubSeq(b, 1, Len(c))[i] = b[i]
    BY <1>1, <2>2, SubSeqProperties
  <2> QED
    BY <1>1, <1>2, <2>3, SeqEqual
<1> QED
  BY <1>5, <1>6 DEF b

\* What a wrong key makes of a page is not its content.
LEMMA WrongKeyIsNoticed ==
  ASSUME NEW c \in Contents
  PROVE  RemovePadding([Padded(c) EXCEPT ![1] = 0, ![Len(Padded(c))] = 1]) # c
<1> DEFINE b == Padded(c)
           w == [b EXCEPT ![1] = 0, ![Len(b)] = 1]
<1>1. c \in Seq(Nat) /\ Len(c) \in Nat \ {0} /\ c[1] # 0 /\ BlockSize \in Nat \ {0}
  BY ContentIsBytes, BlockSizeFits
<1>2. b \in Seq(Nat) /\ Len(b) \in Nat /\ Len(b) > 1 /\ 1 \in DOMAIN b /\ Len(b) \in DOMAIN b
  <2>1. b \in Seq(Nat) /\ Len(b) = Len(c) + PadByte(Len(c)) /\ PadByte(Len(c)) \in 1 .. BlockSize
    BY <1>1, PaddedIs
  <2>2. Len(b) \in Nat /\ Len(b) > 1
    BY <1>1, <2>1
  <2> QED
    BY <2>1, <2>2, LenProperties
<1> HIDE DEF b
<1>3. w \in Seq(Nat) /\ Len(w) = Len(b) /\ w[1] = 0 /\ w[Len(b)] = 1
  <2>1. [b EXCEPT ![1] = 0] \in Seq(Nat) /\ Len([b EXCEPT ![1] = 0]) = Len(b)
        /\ [b EXCEPT ![1] = 0][1] = 0
    BY <1>2, ExceptSeq
  <2>2. w = [[b EXCEPT ![1] = 0] EXCEPT ![Len(b)] = 1]
    OBVIOUS
  <2> QED
    BY <1>2, <2>1, <2>2, ExceptSeq
<1> HIDE DEF w
<1>4. Last(w) = 1
  BY <1>3 DEF Last
<1> SUFFICES ASSUME RemovePadding(w) = c PROVE FALSE
  BY DEF w, b
<1>5. c = NULL \/ c = SubSeq(w, 1, Len(w) - 1)
  BY <1>4 DEF RemovePadding
<1>6. c # NULL
  BY EncryptionAssumption
<1>7. SubSeq(w, 1, Len(w) - 1)[1] = 0
  <2>1. \A i \in 1 .. Len(w) - 1 : w[i] \in Nat
    BY <1>2, <1>3, ElementOfSeq
  <2>2. 1 \in 1 .. Len(w) - 1 /\ Len(w) - 1 \in Int
    BY <1>2, <1>3
  <2>3. SubSeq(w, 1, Len(w) - 1)[1] = w[1]
    BY <2>1, <2>2, SubSeqProperties
  <2> QED
    BY <1>3, <2>3
<1> QED
  BY <1>1, <1>5, <1>6, <1>7

-----------------------------------------------------------------------------
(* Numbers and recursion.                                                  *)

\* Of a set of natural numbers one is the least.
LEMMA LeastPage ==
  ASSUME NEW T, T \subseteq Nat, T # {}
  PROVE  \E n \in T : \A m \in T : n <= m
<1> DEFINE Initial == {0 .. n : n \in T}
<1>1. IsWellFoundedOn(StrictSubsetOrdering(Nat), FiniteSubsetsOf(Nat))
  BY FS_StrictSubsetOrderingWellFounded
<1>2. Initial \subseteq FiniteSubsetsOf(Nat)
  <2> SUFFICES ASSUME NEW n \in T PROVE 0 .. n \in FiniteSubsetsOf(Nat)
    OBVIOUS
  <2> QED
    BY FS_Interval, 0 \in Int, n \in Int DEF FiniteSubsetsOf
<1>3. Initial # {}
  OBVIOUS
<1> HIDE DEF Initial
<1>4. PICK B \in Initial : \A C \in Initial : ~(<<C, B>> \in StrictSubsetOrdering(Nat))
  BY <1>1, <1>2, <1>3, WFMin
<1>5. PICK n \in T : B = 0 .. n
  BY <1>4 DEF Initial
<1>6. ASSUME NEW m \in T, m < n
      PROVE FALSE
  <2>1. 0 .. m \in Initial
    BY DEF Initial
  <2>2. 0 .. m \subseteq 0 .. n /\ 0 .. m # 0 .. n /\ 0 .. n \subseteq Nat
    BY <1>6
  <2>3. <<0 .. m, 0 .. n>> \in StrictSubsetOrdering(Nat)
    BY <2>2 DEF StrictSubsetOrdering
  <2> QED
    BY <1>4, <1>5, <2>1, <2>3
<1> QED
  BY <1>6

\* What holds at the start and goes on from each number to the next holds up to
\* any: the least number where it does not hold has none before it.
LEMMA UpToAll ==
  ASSUME NEW n \in Nat, NEW T, 0 \in T, \A k \in 1 .. n : k - 1 \in T => k \in T
  PROVE  0 .. n \subseteq T
<1> SUFFICES ASSUME (0 .. n) \ T # {} PROVE FALSE
  OBVIOUS
<1> DEFINE Out == (0 .. n) \ T
<1>1. Out \subseteq Nat /\ Out # {}
  OBVIOUS
<1> HIDE DEF Out
<1>2. PICK m \in Out : \A k \in Out : m <= k
  BY <1>1, LeastPage
<1>3. m \in 1 .. n /\ m - 1 \in 0 .. n
  BY <1>2 DEF Out
<1>4. m - 1 \in T
  BY <1>2, <1>3 DEF Out
<1> QED
  BY <1>2, <1>3, <1>4 DEF Out

\* f goes from v on by steps.
Recurses(f, n, Z, v, step) ==
  f \in [0 .. n -> Z] /\ f[0] = v /\ \A k \in 1 .. n : f[k] = step[k][f[k - 1]]

\* A function is defined from one number to the next.
LEMMA RecursionExists ==
  ASSUME NEW n \in Nat, NEW Z, NEW v \in Z, NEW step \in [1 .. n -> [Z -> Z]]
  PROVE  \E f : Recurses(f, n, Z, v, step)
<1> DEFINE T == {m \in 0 .. n : \E f : Recurses(f, m, Z, v, step)}
<1>1. 0 \in T
  <2>1. Recurses([k \in 0 .. 0 |-> v], 0, Z, v, step)
    BY DEF Recurses
  <2> QED
    BY <2>1
<1>2. \A m \in 1 .. n : m - 1 \in T => m \in T
  <2> SUFFICES ASSUME NEW m \in 1 .. n, m - 1 \in T PROVE m \in T
    OBVIOUS
  <2>1. PICK f : Recurses(f, m - 1, Z, v, step)
    OBVIOUS
  <2> DEFINE g == [k \in 0 .. m |-> IF k = m THEN step[m][f[m - 1]] ELSE f[k]]
  <2>2. /\ m - 1 \in 0 .. m - 1 /\ m # 0 /\ 0 \in 0 .. m - 1
        /\ \A k \in 0 .. m : k = m \/ k \in 0 .. m - 1
        /\ \A k \in 1 .. m : k - 1 \in 0 .. m /\ k - 1 # m /\ k \in 0 .. m /\ (k = m \/ k \in 1 .. m - 1)
    OBVIOUS
  <2>3. f[m - 1] \in Z /\ step[m] \in [Z -> Z]
    BY <2>1, <2>2 DEF Recurses
  <2>4. g \in [0 .. m -> Z]
    BY <2>1, <2>2, <2>3 DEF Recurses
  <2>5. g[0] = v
    BY <2>1, <2>2 DEF Recurses
  <2>6. ASSUME NEW k \in 1 .. m PROVE g[k] = step[k][g[k - 1]]
    BY <2>1, <2>2 DEF Recurses
  <2>7. Recurses(g, m, Z, v, step)
    BY <2>4, <2>5, <2>6 DEF Recurses
  <2> HIDE DEF g
  <2> QED
    BY <2>7
<1>3. n \in T
  <2> HIDE DEF T
  <2>1. 0 .. n \subseteq T
    BY <1>1, <1>2, UpToAll
  <2> QED
    BY <2>1
<1> QED
  BY <1>3


-----------------------------------------------------------------------------
(* Reading and writing a page.                                             *)

LEMMA NullIsNone ==
  /\ NULL \notin Passwords /\ NULL \notin Nat /\ NULL \notin Contents /\ NULL \notin Keys
  /\ NULL \notin SealedKeys /\ NULL \notin Archives /\ NULL \notin PagesObjects
  /\ NULL \notin CachedPages
BY EncryptionAssumption

\* A page is given to whoever has its key, and to nobody else (Cookfs_ReadPage).
LEMMA ReadPageIs ==
  ASSUME NEW p, NEW list \in Seq(StoredPages), AsWritten(list), NEW i \in 1 .. Len(list)
  PROVE  ReadPage(p, list[i]) =
           IF list[i].encryption /\ (~p.isEncryptionActive \/ list[i].stored.key # p.encryptionKey)
           THEN NULL ELSE list[i].hash
<1> DEFINE g == list[i]
           c == g.hash
<1>1. g \in StoredPages /\ i \in DOMAIN list
  BY ElementOfSeq, LenProperties
<1>2. c \in Contents /\ g.encryption \in BOOLEAN
  BY <1>1 DEF StoredPages
<1>3. IF g.encryption THEN g.stored.bytes = Padded(c) ELSE g.stored.bytes = c
  <2>1. IF list[i].encryption THEN list[i].stored.bytes = Padded(list[i].hash)
        ELSE list[i].stored = [bytes |-> list[i].hash, key |-> NULL]
    BY <1>1 DEF AsWritten
  <2> QED
    BY <2>1
<1> HIDE DEF g, c
<1>4. CASE ~g.encryption
  BY <1>3, <1>4 DEF ReadPage, g, c
<1>5. CASE g.encryption /\ ~p.isEncryptionActive
  BY <1>5 DEF ReadPage, g, c
<1>6. CASE g.encryption /\ p.isEncryptionActive /\ g.stored.key = p.encryptionKey
  <2>1. AesDecrypt(g.stored, p.encryptionKey) = c
    BY <1>2, <1>3, <1>6, PaddingIsRemoved DEF AesDecrypt
  <2> QED
    BY <1>6, <2>1 DEF ReadPage, g, c
<1>7. CASE g.encryption /\ p.isEncryptionActive /\ g.stored.key # p.encryptionKey
  <2>1. AesDecrypt(g.stored, p.encryptionKey) # c
    BY <1>2, <1>3, <1>7, WrongKeyIsNoticed DEF AesDecrypt
  <2> QED
    BY <1>7, <2>1 DEF ReadPage, g, c
<1> QED
  BY <1>2, <1>4, <1>5, <1>6, <1>7 DEF g, c

\* Pages are what a page object in that state would write.
InForceIn(p, g) ==
  g.encryption = p.isEncryptionActive /\ (g.encryption => g.stored.key = p.encryptionKey)

LEMMA WritePageIs ==
  ASSUME NEW p \in PagesObjects, p.isEncryptionActive => p.encryptionKey # NULL,
         NEW c \in Contents
  PROVE  LET g == WritePage(p, c)
         IN /\ g \in StoredPages /\ g.hash = c /\ InForceIn(p, g)
            /\ IF g.encryption THEN g.stored.key \in Keys /\ g.stored.bytes = Padded(c)
               ELSE g.stored = [bytes |-> c, key |-> NULL]
<1>1. /\ p.isEncryptionActive \in BOOLEAN /\ p.encryptionKey \in Keys \cup {NULL}
  BY DEF PagesObjects
<1>2. c \in Seq(Nat) /\ Padded(c) \in Seq(Nat)
  BY ContentIsBytes, PaddedIs
<1>3. CASE p.isEncryptionActive
  <2>1. WritePage(p, c) = [hash |-> c, encryption |-> TRUE,
                           stored |-> [bytes |-> Padded(c), key |-> p.encryptionKey]]
    BY <1>3 DEF WritePage, AesEncrypt, Padded
  <2> QED
    BY <1>1, <1>2, <1>3, <2>1 DEF StoredPages, InForceIn
<1>4. CASE ~p.isEncryptionActive
  <2>1. WritePage(p, c) = [hash |-> c, encryption |-> FALSE, stored |-> [bytes |-> c, key |-> NULL]]
    BY <1>1, <1>4 DEF WritePage
  <2> DEFINE g == [hash |-> c, encryption |-> FALSE, stored |-> [bytes |-> c, key |-> NULL]]
  <2>2. p.isEncryptionActive = FALSE
    BY <1>1, <1>4
  <2>3. g \in StoredPages
    BY <1>2 DEF StoredPages
  <2>4. g.hash = c /\ g.encryption = FALSE /\ g.stored = [bytes |-> c, key |-> NULL]
    OBVIOUS
  <2> HIDE DEF g
  <2>5. InForceIn(p, g)
    BY <2>2, <2>4 DEF InForceIn
  <2>6. WritePage(p, c) = g
    BY <2>1 DEF g
  <2> QED
    BY <2>3, <2>4, <2>5, <2>6
<1> QED
  BY <1>1, <1>3, <1>4

\* The page object that has these pages instead
Grows(p, q) ==
  /\ q \in PagesObjects /\ AsWritten(q.list)
  /\ q = [p EXCEPT !.list = q.list, !.pagesUptodate = q.pagesUptodate]
  /\ Len(p.list) <= Len(q.list) /\ \A i \in 1 .. Len(p.list) : q.list[i] = p.list[i]
  /\ \A i \in Len(p.list) + 1 .. Len(q.list) : InForceIn(p, q.list[i])
  /\ q.pagesUptodate => p.pagesUptodate /\ q.list = p.list

HeldFits(held, list) ==
  held = NULL \/
    /\ held \in CachedPages /\ held.page \in 1 .. Len(list) /\ held.bytes = list[held.page].hash

\* The cache holds what it held, or a page that is in force.
HeldAfter(p, held, now, list) ==
  now = held \/ (now # NULL /\ InForceIn(p, list[now.page]))

\* The page that an equal one is stored as, or a new one behind the others: it
\* has the content, and unless the cache holds it under another key it is
\* protected as a new one would be (Cookfs_PageAddRaw).
LEMMA PageAddIs ==
  ASSUME NEW p \in PagesObjects, AsWritten(p.list), NEW held, HeldFits(held, p.list),
         p.isEncryptionActive => p.encryptionKey # NULL, NEW c \in Contents
  PROVE  LET r == PageAdd(p, held, c)
         IN /\ Grows(p, r.pages) /\ HeldFits(r.cache, r.pages.list)
            /\ r.page \in 1 .. Len(r.pages.list) /\ r.pages.list[r.page].hash = c
            /\ r.pages.list[r.page].encryption = p.isEncryptionActive
            /\ Unshared(p.list, held, p.encryptionKey, c) =>
                 /\ InForceIn(p, r.pages.list[r.page])
                 /\ HeldAfter(p, held, r.cache, r.pages.list)
<1> DEFINE equal == {j \in SearchByMD5(p, c) :
                       /\ p.list[j].encryption = p.isEncryptionActive
                       /\ PageGet(p, held, j) = c}
           first == CHOOSE j \in equal : \A k \in equal : j <= k
           r == PageAdd(p, held, c)
           new == WritePage(p, c)
           n == Len(p.list)
<1>1. /\ p.list \in Seq(StoredPages) /\ p.encryptionKey \in Keys \cup {NULL}
      /\ p.isEncryptionActive \in BOOLEAN
  BY DEF PagesObjects
<1>2. n \in Nat /\ DOMAIN p.list = 1 .. n
  BY <1>1, LenProperties
<1>3. CASE equal # {}
  <2>1. equal \subseteq Nat
    BY <1>2 DEF SearchByMD5
  <2>2. \E j \in equal : \A k \in equal : j <= k
    <3> HIDE DEF equal
    <3> QED
      BY <1>3, <2>1, LeastPage
  <2>3. first \in equal
    BY <2>2
  <2>4. /\ first \in 1 .. n /\ p.list[first].hash = c
        /\ p.list[first].encryption = p.isEncryptionActive /\ PageGet(p, held, first) = c
    BY <1>2, <2>3 DEF SearchByMD5
  <2>5. r = [pages |-> p, cache |-> CacheSet(held, first, c), page |-> first]
    BY <1>3 DEF PageAdd
  <2> HIDE DEF equal, first, r
  <2>6. r.pages = p /\ r.page = first /\ r.cache = [page |-> first, bytes |-> c]
    BY <2>5, NullIsNone DEF CacheSet
  <2>7. Grows(p, p)
    <3>1. p = [p EXCEPT !.list = p.list, !.pagesUptodate = p.pagesUptodate]
      BY DEF PagesObjects
    <3>2. p.pagesUptodate \in BOOLEAN
      BY DEF PagesObjects
    <3> QED
      BY <1>2, <3>1, <3>2 DEF Grows
  <2>8. r.cache \in CachedPages
    BY <1>2, <2>4, <2>6 DEF CachedPages
  <2>9. ASSUME Unshared(p.list, held, p.encryptionKey, c) PROVE InForceIn(p, p.list[first])
    <3>1. CASE held # NULL /\ held.page = first
      <4>1. held.bytes = c
        BY <2>4, <3>1 DEF HeldFits
      <4> QED
        BY <2>4, <2>9, <3>1, <4>1 DEF Unshared, InForceIn
    <3>2. CASE ~(held # NULL /\ held.page = first)
      <4>1. ReadPage(p, p.list[first]) = c
        BY <2>4, <3>2 DEF PageGet
      <4>2. ~(p.list[first].encryption /\ p.list[first].stored.key # p.encryptionKey)
        BY <1>1, <2>4, <4>1, ReadPageIs, NullIsNone
      <4> QED
        BY <2>4, <4>2 DEF InForceIn
    <3> QED
      BY <3>1, <3>2
  <2>10. HeldFits(r.cache, r.pages.list)
    BY <2>4, <2>6, <2>8 DEF HeldFits
  <2>11. r.cache # NULL /\ r.cache.page = first
    BY <2>6, <2>8, NullIsNone
  <2> QED
    BY <2>4, <2>6, <2>7, <2>9, <2>10, <2>11 DEF HeldAfter, r
<1>4. CASE equal = {}
  <2> DEFINE q == [p EXCEPT !.list = Append(@, new), !.pagesUptodate = FALSE]
  <2>1. r = [pages |-> q, cache |-> held, page |-> n + 1]
    BY <1>4 DEF PageAdd
  <2>2. /\ new \in StoredPages /\ new.hash = c /\ InForceIn(p, new)
        /\ IF new.encryption THEN new.stored.key \in Keys /\ new.stored.bytes = Padded(c)
           ELSE new.stored = [bytes |-> c, key |-> NULL]
    BY WritePageIs
  <2> HIDE DEF equal, first, r, new
  <2>3. q.list = Append(p.list, new) /\ q.pagesUptodate = FALSE /\ q \in PagesObjects
        /\ q = [p EXCEPT !.list = q.list, !.pagesUptodate = q.pagesUptodate]
    <3>1. Append(p.list, new) \in Seq(StoredPages)
      BY <1>1, <2>2, AppendProperties
    <3> QED
      BY <3>1 DEF PagesObjects
  <2>4. /\ Len(q.list) = n + 1 /\ DOMAIN q.list = 1 .. n + 1
        /\ \A i \in 1 .. n : q.list[i] = p.list[i]
        /\ q.list[n + 1] = new
    BY <1>1, <1>2, <2>2, <2>3, AppendProperties
  <2> HIDE DEF q
  <2>5. AsWritten(q.list)
    <3> SUFFICES ASSUME NEW i \in 1 .. n + 1
                 PROVE  LET g == q.list[i]
                        IN IF g.encryption THEN g.stored.key \in Keys /\ g.stored.bytes = Padded(g.hash)
                           ELSE g.stored = [bytes |-> g.hash, key |-> NULL]
      BY <2>4 DEF AsWritten
    <3>1. CASE i \in 1 .. n
      BY <1>2, <2>4, <3>1 DEF AsWritten
    <3>2. CASE i = n + 1
      BY <2>2, <2>4, <3>2
    <3> QED
      BY <1>2, <3>1, <3>2
  <2>6. Grows(p, q)
    <3>1. n <= Len(q.list) /\ ~q.pagesUptodate
      BY <1>2, <2>3, <2>4
    <3>2. \A i \in n + 1 .. Len(q.list) : InForceIn(p, q.list[i])
      BY <1>2, <2>2, <2>4
    <3> QED
      BY <2>3, <2>4, <2>5, <3>1, <3>2 DEF Grows
  <2>7. HeldFits(held, q.list)
    <3>1. ASSUME held # NULL PROVE HeldFits(held, q.list)
      <4>1. held.page \in 1 .. n /\ held.page \in 1 .. n + 1
        BY <1>2, <3>1 DEF HeldFits
      <4> QED
        BY <2>4, <3>1, <4>1 DEF HeldFits
    <3> QED
      BY <3>1 DEF HeldFits
  <2>8. n + 1 \in 1 .. n + 1 /\ r.pages = q /\ r.cache = held /\ r.page = n + 1
    BY <1>2, <2>1
  <2>9. q.list[n + 1].encryption = p.isEncryptionActive
    BY <2>2, <2>4 DEF InForceIn
  <2> QED
    BY <2>2, <2>4, <2>6, <2>7, <2>8, <2>9 DEF HeldAfter, r
<1> QED
  BY <1>3, <1>4

-----------------------------------------------------------------------------
(* The files that wait get their pages.                                    *)

LEMMA GrowsSame ==
  ASSUME NEW p \in PagesObjects, AsWritten(p.list)
  PROVE  Grows(p, p)
<1>1. p = [p EXCEPT !.list = p.list, !.pagesUptodate = p.pagesUptodate]
  BY DEF PagesObjects
<1>2. p.pagesUptodate \in BOOLEAN /\ p.list \in Seq(StoredPages)
  BY DEF PagesObjects
<1>3. Len(p.list) \in Nat
  BY <1>2, LenProperties
<1> QED
  BY <1>1, <1>2, <1>3 DEF Grows

LEMMA GrowsOn ==
  ASSUME NEW p \in PagesObjects, NEW q \in PagesObjects, NEW r \in PagesObjects,
         Grows(p, q), Grows(q, r)
  PROVE  Grows(p, r)
<1>1. /\ p.list \in Seq(StoredPages) /\ q.list \in Seq(StoredPages) /\ r.list \in Seq(StoredPages)
      /\ p.pagesUptodate \in BOOLEAN /\ q.pagesUptodate \in BOOLEAN /\ r.pagesUptodate \in BOOLEAN
  BY DEF PagesObjects
<1>2. Len(p.list) \in Nat /\ Len(q.list) \in Nat /\ Len(r.list) \in Nat
  BY <1>1, LenProperties
<1>3. /\ q.isEncryptionActive = p.isEncryptionActive /\ q.encryptionKey = p.encryptionKey
      /\ r = [p EXCEPT !.list = r.list, !.pagesUptodate = r.pagesUptodate]
  <2>1. q = [p EXCEPT !.list = q.list, !.pagesUptodate = q.pagesUptodate]
    BY DEF Grows
  <2>2. r = [q EXCEPT !.list = r.list, !.pagesUptodate = r.pagesUptodate]
    BY DEF Grows
  <2> QED
    BY <2>1, <2>2 DEF PagesObjects
<1>4. Len(p.list) <= Len(r.list) /\ \A i \in 1 .. Len(p.list) : r.list[i] = p.list[i]
  BY <1>2 DEF Grows
<1>5. ASSUME NEW i \in Len(p.list) + 1 .. Len(r.list) PROVE InForceIn(p, r.list[i])
  <2>1. CASE i <= Len(q.list)
    <3>1. i \in Len(p.list) + 1 .. Len(q.list) /\ i \in 1 .. Len(q.list)
      BY <1>2, <2>1
    <3> QED
      BY <3>1 DEF Grows
  <2>2. CASE ~(i <= Len(q.list))
    <3>1. i \in Len(q.list) + 1 .. Len(r.list)
      BY <1>2, <2>2
    <3>2. InForceIn(q, r.list[i])
      BY <3>1 DEF Grows
    <3> QED
      BY <1>3, <3>2 DEF InForceIn
  <2> QED
    BY <2>1, <2>2
<1> QED
  BY <1>3, <1>4, <1>5 DEF Grows

\* What the states between two files that are written fit in
PurgeStates(p) ==
  {st \in [pages : PagesObjects, cache : CachedPages \cup {NULL}, index : [Files -> Nat \cup {NULL}]] :
     Grows(p, st.pages) /\ HeldFits(st.cache, st.pages.list)}

\* What is known of one of them when the first k files that wait are written
PurgedTo(k, st, p, held, idx, waiting) ==
  /\ st \in PurgeStates(p)
  /\ \A f \in Files : (\A i \in 1 .. k : waiting[i].file # f) => st.index[f] = idx[f]
  /\ \A i \in 1 .. k :
       LET j == st.index[waiting[i].file]
       IN /\ j \in 1 .. Len(st.pages.list) /\ st.pages.list[j].hash = waiting[i].content
          /\ st.pages.list[j].encryption = p.isEncryptionActive
  /\ (\A i \in 1 .. Len(waiting) : Unshared(p.list, held, p.encryptionKey, waiting[i].content)) =>
       /\ \A i \in 1 .. k : InForceIn(p, st.pages.list[st.index[waiting[i].file]])
       /\ \A i \in 1 .. Len(waiting) :
            Unshared(st.pages.list, st.cache, p.encryptionKey, waiting[i].content)

Waiting1 == [file : Files, content : Contents]

LEMMA BufferSavedIs ==
  ASSUME NEW p \in PagesObjects, p.isEncryptionActive => p.encryptionKey # NULL,
         NEW st \in PurgeStates(p), NEW b \in Waiting1
  PROVE  LET s == BufferSaved(st, b)
             j == s.index[b.file]
         IN /\ s \in PurgeStates(p) /\ Grows(st.pages, s.pages)
            /\ \A f \in Files \ {b.file} : s.index[f] = st.index[f]
            /\ j \in 1 .. Len(s.pages.list) /\ s.pages.list[j].hash = b.content
            /\ s.pages.list[j].encryption = p.isEncryptionActive
            /\ Unshared(st.pages.list, st.cache, p.encryptionKey, b.content) =>
                 /\ InForceIn(p, s.pages.list[j])
                 /\ HeldAfter(p, st.cache, s.cache, s.pages.list)
<1> DEFINE q == st.pages
           r == PageAdd(q, st.cache, b.content)
           s == BufferSaved(st, b)
<1>1. /\ q \in PagesObjects /\ st.cache \in CachedPages \cup {NULL}
      /\ st.index \in [Files -> Nat \cup {NULL}]
      /\ Grows(p, q) /\ HeldFits(st.cache, q.list)
  BY DEF PurgeStates
<1>2. b.file \in Files /\ b.content \in Contents
  BY DEF Waiting1
<1>3. q.isEncryptionActive = p.isEncryptionActive /\ q.encryptionKey = p.encryptionKey
  <2>1. q = [p EXCEPT !.list = q.list, !.pagesUptodate = q.pagesUptodate]
    BY <1>1 DEF Grows
  <2> QED
    BY <2>1 DEF PagesObjects
<1>4. /\ Grows(q, r.pages) /\ HeldFits(r.cache, r.pages.list)
      /\ r.page \in 1 .. Len(r.pages.list) /\ r.pages.list[r.page].hash = b.content
      /\ r.pages.list[r.page].encryption = q.isEncryptionActive
      /\ Unshared(q.list, st.cache, q.encryptionKey, b.content) =>
           /\ InForceIn(q, r.pages.list[r.page])
           /\ HeldAfter(q, st.cache, r.cache, r.pages.list)
  <2>1. AsWritten(q.list)
    BY <1>1 DEF Grows
  <2> HIDE DEF q
  <2> QED
    BY <1>1, <1>2, <1>3, <2>1, PageAddIs
<1>5. s = [pages |-> r.pages, cache |-> r.cache, index |-> [st.index EXCEPT ![b.file] = r.page]]
  BY DEF BufferSaved
<1> HIDE DEF r, s, q
<1>6. /\ s.pages = r.pages /\ s.cache = r.cache /\ s.index[b.file] = r.page
      /\ \A f \in Files \ {b.file} : s.index[f] = st.index[f]
  BY <1>1, <1>2, <1>5
<1>7. r.pages \in PagesObjects /\ r.pages.list \in Seq(StoredPages) /\ Len(r.pages.list) \in Nat
  <2>1. r.pages \in PagesObjects
    BY <1>4 DEF Grows
  <2>2. r.pages.list \in Seq(StoredPages)
    BY <2>1 DEF PagesObjects
  <2> QED
    BY <2>1, <2>2, LenProperties
<1>8. s \in PurgeStates(p)
  <2>1. Grows(p, r.pages)
    BY <1>1, <1>4, <1>7, GrowsOn
  <2>2. r.cache \in CachedPages \cup {NULL}
    BY <1>4 DEF HeldFits
  <2>3. [st.index EXCEPT ![b.file] = r.page] \in [Files -> Nat \cup {NULL}]
    BY <1>1, <1>2, <1>4, <1>7
  <2> QED
    BY <1>4, <1>5, <1>7, <2>1, <2>2, <2>3 DEF PurgeStates
<1>9. ASSUME Unshared(q.list, st.cache, p.encryptionKey, b.content)
      PROVE  InForceIn(p, r.pages.list[r.page]) /\ HeldAfter(p, st.cache, r.cache, r.pages.list)
  BY <1>3, <1>4, <1>9 DEF InForceIn, HeldAfter
<1> QED
  BY <1>3, <1>4, <1>6, <1>8, <1>9 DEF s, q

Distinctly(waiting) == \A k, l \in DOMAIN waiting : waiting[k].file = waiting[l].file => k = l

LEMMA PurgedNext ==
  ASSUME NEW p \in PagesObjects, p.isEncryptionActive => p.encryptionKey # NULL,
         NEW held, NEW idx, NEW waiting \in Seq(Waiting1), Distinctly(waiting),
         NEW k \in 1 .. Len(waiting), NEW st, PurgedTo(k - 1, st, p, held, idx, waiting)
  PROVE  PurgedTo(k, BufferSaved(st, waiting[k]), p, held, idx, waiting)
<1> DEFINE n == Len(waiting)
           b == waiting[k]
           s == BufferSaved(st, b)
           old == st.pages.list
           list == s.pages.list
<1>1. /\ n \in Nat /\ DOMAIN waiting = 1 .. n /\ k \in 1 .. n
      /\ \A i \in 1 .. n : waiting[i] \in Waiting1
  BY LenProperties, ElementOfSeq
<1>2. /\ st \in PurgeStates(p)
      /\ \A f \in Files : (\A i \in 1 .. k - 1 : waiting[i].file # f) => st.index[f] = idx[f]
      /\ \A i \in 1 .. k - 1 :
           /\ st.index[waiting[i].file] \in 1 .. Len(old)
           /\ old[st.index[waiting[i].file]].hash = waiting[i].content
           /\ old[st.index[waiting[i].file]].encryption = p.isEncryptionActive
  BY DEF PurgedTo
<1>3. /\ s \in PurgeStates(p) /\ Grows(st.pages, s.pages)
      /\ \A f \in Files \ {b.file} : s.index[f] = st.index[f]
      /\ s.index[b.file] \in 1 .. Len(list) /\ list[s.index[b.file]].hash = b.content
      /\ list[s.index[b.file]].encryption = p.isEncryptionActive
      /\ Unshared(old, st.cache, p.encryptionKey, b.content) =>
           /\ InForceIn(p, list[s.index[b.file]])
           /\ HeldAfter(p, st.cache, s.cache, list)
  BY <1>1, <1>2, BufferSavedIs
<1>4. /\ Len(old) \in Nat /\ Len(list) \in Nat /\ Len(old) <= Len(list)
      /\ \A i \in 1 .. Len(old) : list[i] = old[i]
  <2>1. st.pages \in PagesObjects /\ s.pages \in PagesObjects
    BY <1>2, <1>3 DEF PurgeStates
  <2>2. old \in Seq(StoredPages) /\ list \in Seq(StoredPages)
    BY <2>1 DEF PagesObjects
  <2> QED
    BY <1>3, <2>2, LenProperties DEF Grows
<1> HIDE DEF s, old, list, n
<1>5. \A i \in 1 .. k - 1 : waiting[i].file # b.file /\ waiting[i].file \in Files
  <2> SUFFICES ASSUME NEW i \in 1 .. k - 1 PROVE waiting[i].file # b.file /\ waiting[i].file \in Files
    OBVIOUS
  <2>1. i \in 1 .. n /\ i # k
    BY <1>1
  <2> QED
    BY <1>1, <2>1 DEF Distinctly, Waiting1
<1>6. ASSUME NEW f \in Files, \A i \in 1 .. k : waiting[i].file # f
      PROVE  s.index[f] = idx[f]
  <2>1. k \in 1 .. k /\ \A i \in 1 .. k - 1 : i \in 1 .. k
    BY <1>1
  <2> QED
    BY <1>2, <1>3, <1>6, <2>1
<1>7. ASSUME NEW i \in 1 .. k
      PROVE  /\ s.index[waiting[i].file] \in 1 .. Len(list)
             /\ list[s.index[waiting[i].file]].hash = waiting[i].content
             /\ list[s.index[waiting[i].file]].encryption = p.isEncryptionActive
  <2>1. CASE i = k
    BY <1>3, <2>1
  <2>2. CASE i \in 1 .. k - 1
    <3>1. s.index[waiting[i].file] = st.index[waiting[i].file]
      BY <1>3, <1>5, <2>2
    <3>2. st.index[waiting[i].file] \in 1 .. Len(list)
      BY <1>2, <1>4, <2>2
    <3> QED
      BY <1>2, <1>4, <2>2, <3>1, <3>2
  <2> QED
    BY <1>1, <2>1, <2>2
<1>8. ASSUME \A i \in 1 .. n : Unshared(p.list, held, p.encryptionKey, waiting[i].content)
      PROVE  /\ \A i \in 1 .. k : InForceIn(p, list[s.index[waiting[i].file]])
             /\ \A i \in 1 .. n : Unshared(list, s.cache, p.encryptionKey, waiting[i].content)
  <2>1. /\ \A i \in 1 .. k - 1 : InForceIn(p, old[st.index[waiting[i].file]])
        /\ \A i \in 1 .. n : Unshared(old, st.cache, p.encryptionKey, waiting[i].content)
    BY <1>8 DEF PurgedTo, old, n
  <2>2. InForceIn(p, list[s.index[b.file]]) /\ HeldAfter(p, st.cache, s.cache, list)
    BY <1>1, <1>3, <2>1
  <2>3. ASSUME NEW i \in 1 .. k PROVE InForceIn(p, list[s.index[waiting[i].file]])
    <3>1. CASE i = k
      BY <2>2, <3>1
    <3>2. CASE i \in 1 .. k - 1
      <4>1. s.index[waiting[i].file] = st.index[waiting[i].file]
        BY <1>3, <1>5, <3>2
      <4> QED
        BY <1>2, <1>4, <2>1, <3>2, <4>1
    <3> QED
      BY <1>1, <3>1, <3>2
  <2>4. ASSUME NEW i \in 1 .. n
        PROVE  Unshared(list, s.cache, p.encryptionKey, waiting[i].content)
    <3>1. CASE s.cache = st.cache
      <4>1. st.cache # NULL => list[st.cache.page] = old[st.cache.page]
        <5>1. HeldFits(st.cache, old)
          BY <1>2 DEF PurgeStates, old
        <5> QED
          BY <1>4, <5>1 DEF HeldFits
      <4> QED
        BY <2>1, <3>1, <4>1 DEF Unshared
    <3>2. CASE InForceIn(p, list[s.cache.page])
      BY <3>2 DEF Unshared, InForceIn
    <3> QED
      BY <2>2, <3>1, <3>2 DEF HeldAfter
  <2> QED
    BY <2>3, <2>4
<1>9. \A f \in Files : (\A i \in 1 .. k : waiting[i].file # f) => s.index[f] = idx[f]
  BY <1>6
<1>10. (\A i \in 1 .. n : Unshared(p.list, held, p.encryptionKey, waiting[i].content)) =>
         /\ \A i \in 1 .. k : InForceIn(p, list[s.index[waiting[i].file]])
         /\ \A i \in 1 .. n : Unshared(list, s.cache, p.encryptionKey, waiting[i].content)
  BY <1>8
<1>11. PurgedTo(k, s, p, held, idx, waiting)
  <2> USE DEF list, n
  <2> QED
    BY <1>3, <1>7, <1>9, <1>10, Zenon DEF PurgedTo
<1> QED
  BY <1>11 DEF s, b

\* Whatever waits, the purge gives each file a page with its content that is
\* protected as the file was to be (Cookfs_WriterPurge).
LEMMA WriterPurgeIs ==
  ASSUME NEW p \in PagesObjects, AsWritten(p.list), p.isEncryptionActive => p.encryptionKey # NULL,
         NEW held, HeldFits(held, p.list), NEW idx \in [Files -> Nat \cup {NULL}],
         NEW waiting \in Seq(Waiting1), Distinctly(waiting)
  PROVE  PurgedTo(Len(waiting), WriterPurge(p, held, idx, waiting), p, held, idx, waiting)
<1> DEFINE n == Len(waiting)
           Z == PurgeStates(p)
           v == [pages |-> p, cache |-> held, index |-> idx]
           step == [k \in 1 .. n |-> [st \in Z |-> BufferSaved(st, waiting[k])]]
           Body(f) == [k \in 0 .. n |-> IF k = 0 THEN v ELSE BufferSaved(f[k - 1], waiting[k])]
<1>1. n \in Nat /\ \A k \in 1 .. n : waiting[k] \in Waiting1
  BY LenProperties, ElementOfSeq
<1>2. ASSUME NEW k \in 1 .. n, NEW st \in Z PROVE BufferSaved(st, waiting[k]) \in Z
  BY <1>1, <1>2, BufferSavedIs
<1>3. v \in Z
  <2>1. Grows(p, p)
    BY GrowsSame
  <2>2. held \in CachedPages \cup {NULL}
    BY DEF HeldFits
  <2> QED
    BY <2>1, <2>2 DEF PurgeStates
<1>4. PurgedTo(0, v, p, held, idx, waiting)
  BY <1>3 DEF PurgedTo
<1> HIDE DEF n, Z, v
<1>5. step \in [1 .. n -> [Z -> Z]]
  BY <1>2
<1> HIDE DEF step
<1>6. PICK g : Recurses(g, n, Z, v, step)
  BY <1>1, <1>3, <1>5, RecursionExists, Zenon
<1>7. g = Body(g)
  <2>1. ASSUME NEW k \in 0 .. n PROVE g[k] = IF k = 0 THEN v ELSE BufferSaved(g[k - 1], waiting[k])
    <3>1. CASE k # 0
      <4>1. k \in 1 .. n /\ k - 1 \in 0 .. n
        BY <3>1, <1>1
      <4>2. g[k - 1] \in Z
        BY <4>1, <1>6 DEF Recurses
      <4>3. step[k] = [st \in Z |-> BufferSaved(st, waiting[k])]
        BY <4>1 DEF step
      <4> QED
        BY <4>1, <4>2, <4>3, <1>6, <3>1 DEF Recurses
    <3> QED
      BY <3>1, <1>6 DEF Recurses
  <2>2. g = [k \in 0 .. n |-> g[k]]
    BY <1>6 DEF Recurses
  <2> QED
    BY <2>1, <2>2
<1> DEFINE f == CHOOSE f : f = Body(f)
<1>8. f = Body(f)
  <2> HIDE DEF Body
  <2> QED
    BY <1>7
<1>9. WriterPurge(p, held, idx, waiting) = f[n]
  BY DEF WriterPurge, n, v
<1> HIDE DEF f
<1>10. f[0] = v /\ \A k \in 1 .. n : f[k] = BufferSaved(f[k - 1], waiting[k])
  BY <1>1, <1>8
<1> DEFINE T == {k \in 0 .. n : PurgedTo(k, f[k], p, held, idx, waiting)}
<1>11. 0 \in T
  BY <1>1, <1>4, <1>10
<1>12. ASSUME NEW k \in 1 .. n, k - 1 \in T PROVE k \in T
  <2>1. k \in 0 .. n /\ k \in 1 .. Len(waiting) /\ PurgedTo(k - 1, f[k - 1], p, held, idx, waiting)
    BY <1>1, <1>12 DEF n
  <2>2. PurgedTo(k, BufferSaved(f[k - 1], waiting[k]), p, held, idx, waiting)
    BY <2>1, PurgedNext
  <2> QED
    BY <1>10, <2>1, <2>2
<1> HIDE DEF T
<1>13. 0 .. n \subseteq T
  BY <1>1, <1>11, <1>12, UpToAll
<1>14. PurgedTo(n, f[n], p, held, idx, waiting)
  BY <1>1, <1>13 DEF T
<1> QED
  BY <1>9, <1>14 DEF n

-----------------------------------------------------------------------------
(* Passwords and keys.                                                     *)

\* Two pages objects that have the same pages but for new ones have the same
\* password and key.
SameKeys(p, q) ==
  /\ q.encryption = p.encryption /\ q.passwordSalt = p.passwordSalt
  /\ q.encryptionKey = p.encryptionKey /\ q.encryptedKey = p.encryptedKey
  /\ q.isKeyDecrypted = p.isKeyDecrypted /\ q.isPasswordSet = p.isPasswordSet
  /\ q.isEncryptionActive = p.isEncryptionActive /\ q.fileReadOnly = p.fileReadOnly

LEMMA SameKeysFit ==
  ASSUME NEW p, NEW q, SameKeys(p, q), KeysOf(p), SealOf(disk, p)
  PROVE  KeysOf(q) /\ SealOf(disk, q)
<1>1. IsEncryptkey(q) <=> IsEncryptkey(p)
  BY DEF SameKeys, IsEncryptkey
<1>2. KeysOf(q)
  BY <1>1 DEF SameKeys, KeysOf
<1>3. SealOf(disk, q)
  BY <1>1 DEF SameKeys, SealOf
<1> QED
  BY <1>2, <1>3

LEMMA KeyIsThere ==
  ASSUME NEW p, KeysOf(p), p.isEncryptionActive
  PROVE  p.encryptionKey # NULL /\ (IsEncryptkey(p) => p.isKeyDecrypted)
BY DEF KeysOf

LEMMA GrowsKeepsKeys ==
  ASSUME NEW p \in PagesObjects, NEW q, Grows(p, q)
  PROVE  SameKeys(p, q) /\ q.indexChanged = p.indexChanged
<1>1. q = [p EXCEPT !.list = q.list, !.pagesUptodate = q.pagesUptodate]
  BY DEF Grows
<1> QED
  BY <1>1 DEF SameKeys, PagesObjects

\* New pages are under the archive's own key as the others are.
LEMMA GrowsKeepsOwnKey ==
  ASSUME NEW p \in PagesObjects, NEW q, Grows(p, q), KeysOf(p), OwnKey(p)
  PROVE  OwnKey(q)
<1>1. SameKeys(p, q) /\ q \in PagesObjects
  BY GrowsKeepsKeys DEF Grows
<1>2. p.list \in Seq(StoredPages) /\ q.list \in Seq(StoredPages)
  BY <1>1 DEF PagesObjects
<1>3. /\ DOMAIN p.list = 1 .. Len(p.list) /\ DOMAIN q.list = 1 .. Len(q.list)
      /\ Len(p.list) \in Nat /\ Len(q.list) \in Nat
  BY <1>2, LenProperties
<1>4. IsEncryptkey(q) <=> IsEncryptkey(p)
  BY <1>1 DEF SameKeys, IsEncryptkey
<1> SUFFICES ASSUME IsEncryptkey(q), NEW i \in 1 .. Len(q.list), q.list[i].encryption
             PROVE  q.list[i].stored.key =
                      IF q.isKeyDecrypted THEN q.encryptionKey ELSE q.encryptedKey.key
  BY <1>3 DEF OwnKey
<1>5. CASE i \in 1 .. Len(p.list)
  <2>1. q.list[i] = p.list[i]
    BY <1>5 DEF Grows
  <2> QED
    BY <1>1, <1>3, <1>4, <1>5, <2>1 DEF OwnKey, SameKeys
<1>6. CASE i \in Len(p.list) + 1 .. Len(q.list)
  <2>1. InForceIn(p, q.list[i])
    BY <1>6 DEF Grows
  <2>2. p.isEncryptionActive /\ q.list[i].stored.key = p.encryptionKey
    BY <2>1 DEF InForceIn
  <2>3. p.isKeyDecrypted
    BY <1>4, <2>2, KeyIsThere
  <2> QED
    BY <1>1, <2>2, <2>3 DEF SameKeys
<1> QED
  BY <1>3, <1>5, <1>6

\* Opening the key with a password (Cookfs_PagesDecryptKey)
LEMMA DecryptKeyIs ==
  ASSUME NEW p \in PagesObjects, NEW password \in Passwords, IsEncryptkey(p),
         p.encryptedKey # NULL, p.encryptedKey.key.password = NULL,
         p.encryptedKey.by.password \in Passwords, DecryptKey(p, password) # NULL
  PROVE  LET q == DecryptKey(p, password)
         IN /\ q \in PagesObjects /\ KeysOf(q) /\ q.isKeyDecrypted /\ q.encryptionKey = p.encryptedKey.key
            /\ q.encryption = p.encryption /\ q.encryptedKey = p.encryptedKey
            /\ q.isPasswordSet /\ q.passwordSalt = p.passwordSalt /\ q.list = p.list
            /\ q.fileReadOnly = p.fileReadOnly /\ q.pagesUptodate = p.pagesUptodate
            /\ q.indexChanged = p.indexChanged
<1> DEFINE q == [p EXCEPT !.encryptionKey = p.encryptedKey.key,
                          !.isPasswordSet = TRUE, !.isEncryptionActive = TRUE,
                          !.isKeyDecrypted = TRUE]
<1>1. DecryptKey(p, password) = q
  BY DEF DecryptKey
<1>3. p.encryptedKey \in SealedKeys /\ p.encryptedKey.key \in Keys
  BY DEF PagesObjects, SealedKeys
<1>4. q \in PagesObjects
  BY <1>3 DEF PagesObjects
<1>5. /\ q.isKeyDecrypted /\ q.encryptionKey = p.encryptedKey.key
      /\ q.encryption = p.encryption /\ q.encryptedKey = p.encryptedKey
      /\ q.isPasswordSet /\ q.passwordSalt = p.passwordSalt /\ q.list = p.list
      /\ q.fileReadOnly = p.fileReadOnly /\ q.pagesUptodate = p.pagesUptodate
      /\ q.indexChanged = p.indexChanged /\ q.isEncryptionActive
  BY DEF PagesObjects
<1> HIDE DEF q
<1>6. KeysOf(q)
  <2>1. IsEncryptkey(q) /\ q.encryption # "none"
    BY <1>5 DEF IsEncryptkey
  <2>2. p.encryptedKey.key # NULL
    BY <1>3, NullIsNone
  <2> QED
    BY <1>5, <2>1, <2>2 DEF KeysOf
<1> QED
  BY <1>1, <1>4, <1>5, <1>6

LEMMA PasswordIsOne ==
  ASSUME NEW password \in Passwords
  PROVE  password # "" /\ password # NULL /\ password # "none" /\ password # "key" /\ password # "lost"
BY EncryptionAssumption

\* Giving a password and taking it back (Cookfs_PagesSetPassword): mode, salt,
\* key and pages of the archive stay.
LEMMA SetPasswordIs ==
  ASSUME NEW p \in PagesObjects, NEW password \in Passwords \cup {""},
         KeysOf(p), OwnKey(p), SetPassword(p, password) # NULL
  PROVE  LET q == SetPassword(p, password)
         IN /\ q \in PagesObjects /\ KeysOf(q) /\ OwnKey(q) /\ q.list = p.list
            /\ p.isPasswordSet => q.isPasswordSet
            /\ password # "" => q.isPasswordSet
            /\ q.passwordSalt = p.passwordSalt /\ q.fileReadOnly = p.fileReadOnly
            /\ q.indexChanged = p.indexChanged /\ (q.pagesUptodate => p.pagesUptodate)
            /\ q.encryption # p.encryption => p.encryption = "none" /\ q.encryption = "file"
            /\ p.encryptedKey # NULL => q.encryptedKey # NULL
            /\ IsEncryptkey(p) /\ p.encryptedKey # NULL => q.encryptedKey.key = p.encryptedKey.key
            /\ p.isKeyDecrypted => q.isKeyDecrypted /\ q.encryptionKey = p.encryptionKey
            /\ ~p.isKeyDecrypted /\ q.isKeyDecrypted =>
                 IsEncryptkey(p) /\ q.encryptionKey = p.encryptedKey.key
<1> DEFINE q == SetPassword(p, password)
           mode == IF p.encryption = "none" THEN "file" ELSE p.encryption
           derived == Pbkdf2Hmac(password, p.passwordSalt)
<1>1. CASE password = ""
  <2>1. q = [p EXCEPT !.isEncryptionActive = FALSE]
    BY <1>1 DEF SetPassword
  <2> HIDE DEF q
  <2>2. q \in PagesObjects
    BY <2>1 DEF PagesObjects
  <2>3. /\ q.encryption = p.encryption /\ q.passwordSalt = p.passwordSalt
        /\ q.encryptionKey = p.encryptionKey /\ q.encryptedKey = p.encryptedKey
        /\ q.isKeyDecrypted = p.isKeyDecrypted /\ q.isPasswordSet = p.isPasswordSet
        /\ q.fileReadOnly = p.fileReadOnly /\ q.list = p.list /\ ~q.isEncryptionActive
        /\ q.indexChanged = p.indexChanged /\ q.pagesUptodate = p.pagesUptodate
    BY <2>1 DEF PagesObjects
  <2>4. IsEncryptkey(q) <=> IsEncryptkey(p)
    BY <2>3 DEF IsEncryptkey
  <2>5. KeysOf(q)
    BY <2>3, <2>4 DEF KeysOf
  <2>6. OwnKey(q)
    BY <2>3, <2>4 DEF OwnKey
  <2>7. q.isKeyDecrypted => p.isKeyDecrypted
    BY <2>3
  <2> QED
    BY <1>1, <2>2, <2>3, <2>5, <2>6, <2>7 DEF q
<1>2. CASE password # "" /\ p.encryption = "key" /\ ~p.isKeyDecrypted
  <2>1. q = DecryptKey(p, password) /\ password \in Passwords
    BY <1>2 DEF SetPassword
  <2>2. IsEncryptkey(p)
    BY <1>2 DEF IsEncryptkey
  <2> HIDE DEF q
  <2>3. /\ q \in PagesObjects /\ KeysOf(q) /\ q.isKeyDecrypted /\ q.encryptionKey = p.encryptedKey.key
        /\ q.encryption = p.encryption /\ q.encryptedKey = p.encryptedKey
        /\ q.isPasswordSet /\ q.passwordSalt = p.passwordSalt /\ q.list = p.list
        /\ q.fileReadOnly = p.fileReadOnly /\ q.pagesUptodate = p.pagesUptodate
        /\ q.indexChanged = p.indexChanged
    <3>1. DecryptKey(p, password) # NULL
      BY <2>1 DEF q
    <3>2. /\ p.encryptedKey # NULL /\ p.encryptedKey.key.password = NULL
          /\ p.encryptedKey.by.password \in Passwords
      BY <1>2, <2>2 DEF KeysOf
    <3> QED
      BY <2>1, <2>2, <3>1, <3>2, DecryptKeyIs
  <2>4. OwnKey(q)
    BY <1>2, <2>2, <2>3 DEF OwnKey
  <2> QED
    BY <1>2, <2>2, <2>3, <2>4 DEF q
<1>3. CASE password # "" /\ ~(p.encryption = "key" /\ ~p.isKeyDecrypted) /\ mode = "file"
  <2>1. q = [p EXCEPT !.encryption = mode, !.isPasswordSet = TRUE, !.isEncryptionActive = TRUE,
                      !.encryptionKey = derived]
    BY <1>3 DEF SetPassword
  <2>2. /\ password \in Passwords /\ ~IsEncryptkey(p)
        /\ (p.encryption = "none" \/ p.encryption = "file")
    BY <1>3 DEF IsEncryptkey
  <2>3. derived \in Keys /\ derived.password = password /\ derived.salt = p.passwordSalt
    BY <2>2 DEF Pbkdf2Hmac, Keys, PagesObjects
  <2> HIDE DEF q, derived
  <2>4. q \in PagesObjects
    BY <1>3, <2>1, <2>3 DEF PagesObjects, Modes
  <2>5. /\ q.encryption = "file" /\ q.passwordSalt = p.passwordSalt
        /\ q.encryptionKey = derived /\ q.encryptedKey = p.encryptedKey
        /\ q.isKeyDecrypted = p.isKeyDecrypted /\ q.isPasswordSet
        /\ q.fileReadOnly = p.fileReadOnly /\ q.list = p.list
        /\ q.indexChanged = p.indexChanged /\ q.pagesUptodate = p.pagesUptodate
    BY <1>3, <2>1 DEF PagesObjects
  <2>6. ~IsEncryptkey(q)
    BY <2>5 DEF IsEncryptkey
  <2>7. ~p.isKeyDecrypted
    BY <2>2 DEF KeysOf
  <2>8. KeysOf(q)
    BY <2>2, <2>3, <2>5, <2>6, <2>7, NullIsNone DEF KeysOf
  <2>9. OwnKey(q)
    BY <2>6 DEF OwnKey
  <2> QED
    BY <2>2, <2>4, <2>5, <2>7, <2>8, <2>9 DEF q
<1>4. CASE password # "" /\ ~(p.encryption = "key" /\ ~p.isKeyDecrypted) /\ mode # "file"
  <2> DEFINE e == [key |-> p.encryptionKey, by |-> derived]
             up == p.pagesUptodate /\ p.fileReadOnly
  <2>1. q = [p EXCEPT !.encryption = mode, !.isPasswordSet = TRUE, !.isEncryptionActive = TRUE,
                      !.encryptedKey = e, !.pagesUptodate = up]
    <3>1. [[p EXCEPT !.encryption = mode, !.isPasswordSet = TRUE, !.isEncryptionActive = TRUE]
             EXCEPT !.encryptedKey = e, !.pagesUptodate = @ /\ p.fileReadOnly] =
          [p EXCEPT !.encryption = mode, !.isPasswordSet = TRUE, !.isEncryptionActive = TRUE,
                      !.encryptedKey = e, !.pagesUptodate = up]
      BY DEF PagesObjects
    <3> QED
      BY <1>4, <3>1 DEF SetPassword
  <2>2. password \in Passwords /\ mode = p.encryption /\ IsEncryptkey(p)
    BY <1>4 DEF IsEncryptkey, PagesObjects, Modes
  <2>3. p.isKeyDecrypted /\ p.encryptionKey # NULL /\ p.encryptionKey.password = NULL
    BY <1>4, <2>2 DEF KeysOf
  <2>4. derived \in Keys /\ derived.password = password
    BY <2>2 DEF Pbkdf2Hmac, Keys, PagesObjects
  <2>5. p.encryptionKey \in Keys
    BY <2>3 DEF PagesObjects
  <2>6. e \in SealedKeys /\ e.key = p.encryptionKey /\ e.by = derived /\ e # NULL
    <3>1. derived \in Keys
      BY <2>4
    <3> HIDE DEF derived
    <3>2. e \in SealedKeys /\ e.key = p.encryptionKey /\ e.by = derived
      BY <2>5, <3>1 DEF SealedKeys
    <3> QED
      BY <3>2, NullIsNone
  <2>7. up \in BOOLEAN /\ (up => p.pagesUptodate)
    BY DEF PagesObjects
  <2> HIDE DEF q, derived, e, up
  <2>8. q \in PagesObjects
    BY <2>1, <2>2, <2>6, <2>7 DEF PagesObjects
  <2>9. /\ q.encryption = p.encryption /\ q.passwordSalt = p.passwordSalt
        /\ q.encryptionKey = p.encryptionKey /\ q.encryptedKey = e
        /\ q.isKeyDecrypted = p.isKeyDecrypted /\ q.isPasswordSet
        /\ q.fileReadOnly = p.fileReadOnly /\ q.list = p.list
        /\ q.indexChanged = p.indexChanged /\ q.pagesUptodate = up
    BY <2>1, <2>2 DEF PagesObjects
  <2>10. IsEncryptkey(q) /\ q.encryption # "none"
    BY <2>2, <2>9 DEF IsEncryptkey
  <2>11. KeysOf(q)
    BY <2>2, <2>3, <2>4, <2>6, <2>9, <2>10 DEF KeysOf
  <2>12. OwnKey(q)
    BY <2>2, <2>3, <2>9 DEF OwnKey
  <2>13. p.encryptedKey # NULL => q.encryptedKey.key = p.encryptedKey.key
    BY <2>2, <2>3, <2>6, <2>9 DEF KeysOf
  <2> QED
    BY <2>3, <2>6, <2>7, <2>8, <2>9, <2>11, <2>12, <2>13 DEF q
<1> QED
  BY <1>1, <1>2, <1>3, <1>4

-----------------------------------------------------------------------------
(* The invariant.                                                          *)

\* What a purge leaves (Cookfs_WriterPurge)
Purged == WriterPurge(pages, cache, index, buffer)

LEMMA ReadyToPurge ==
  ASSUME VaultInv, pages # NULL
  PROVE  /\ pages \in PagesObjects /\ AsWritten(pages.list) /\ HeldFits(cache, pages.list)
         /\ pages.isEncryptionActive => pages.encryptionKey # NULL
         /\ index \in [Files -> Nat \cup {NULL}]
         /\ buffer \in Seq(Waiting1) /\ Distinctly(buffer)
         /\ pages.list \in Seq(StoredPages) /\ Len(pages.list) \in Nat
         /\ DOMAIN pages.list = 1 .. Len(pages.list)
<1>1. pages \in PagesObjects /\ cache \in CachedPages \cup {NULL}
  BY DEF VaultInv, VaultTypes
<1>2. pages.list \in Seq(StoredPages)
  BY <1>1 DEF PagesObjects
<1>3. Len(pages.list) \in Nat /\ DOMAIN pages.list = 1 .. Len(pages.list)
  BY <1>2, LenProperties
<1>4. HeldFits(cache, pages.list)
  BY <1>1, <1>3 DEF VaultInv, CacheFits, HeldFits
<1>5. pages.isEncryptionActive => pages.encryptionKey # NULL
  BY KeyIsThere DEF VaultInv, KeysFit
<1>6. buffer \in Seq(Waiting1) /\ Distinctly(buffer)
  BY DEF VaultInv, VaultTypes, FilesFit, Waiting1, Distinctly
<1> QED
  BY <1>1, <1>2, <1>3, <1>4, <1>5, <1>6 DEF VaultInv, VaultTypes, PagesFit

LEMMA PurgedFits ==
  ASSUME VaultInv, pages # NULL
  PROVE  LET s == Purged
             q == s.pages
         IN /\ q \in PagesObjects /\ AsWritten(q.list) /\ Grows(pages, q)
            /\ SameKeys(pages, q) /\ q.indexChanged = pages.indexChanged
            /\ KeysOf(q) /\ SealOf(disk, q) /\ OwnKey(q)
            /\ HeldFits(s.cache, q.list) /\ s.cache \in CachedPages \cup {NULL}
            /\ s.index \in [Files -> Nat \cup {NULL}]
            /\ \A f \in Files : s.index[f] # NULL => s.index[f] \in DOMAIN q.list /\ s.index[f] # PENDING
            /\ \A f \in Files : index[f] # PENDING => s.index[f] = index[f]
            /\ q.pagesUptodate /\ ~q.indexChanged =>
                 buffer = <<>> /\ s.index = index /\ q.list = pages.list
            /\ PurgedTo(Len(buffer), s, pages, cache, index, buffer)
<1> DEFINE s == Purged
           q == s.pages
<1>1. PurgedTo(Len(buffer), s, pages, cache, index, buffer)
  BY ReadyToPurge, WriterPurgeIs DEF Purged
<1> HIDE DEF s
<1>2. s \in PurgeStates(pages)
  BY <1>1 DEF PurgedTo
<1>3. /\ q \in PagesObjects /\ Grows(pages, q) /\ AsWritten(q.list)
      /\ HeldFits(s.cache, q.list) /\ s.cache \in CachedPages \cup {NULL}
      /\ s.index \in [Files -> Nat \cup {NULL}]
  BY <1>2 DEF PurgeStates, Grows
<1> HIDE DEF q
<1>4. SameKeys(pages, q) /\ q.indexChanged = pages.indexChanged /\ KeysOf(q) /\ SealOf(disk, q) /\ OwnKey(q)
  <2>1. KeysOf(pages) /\ SealOf(disk, pages) /\ OwnKey(pages) /\ pages \in PagesObjects
    BY ReadyToPurge DEF VaultInv, KeysFit, SealFits, OneKey
  <2> QED
    BY <1>3, <2>1, GrowsKeepsKeys, GrowsKeepsOwnKey, SameKeysFit
<1>5. /\ q.list \in Seq(StoredPages) /\ Len(q.list) \in Nat /\ DOMAIN q.list = 1 .. Len(q.list)
      /\ Len(pages.list) \in Nat /\ DOMAIN pages.list = 1 .. Len(pages.list)
      /\ Len(buffer) \in Nat /\ DOMAIN buffer = 1 .. Len(buffer)
      /\ Len(pages.list) <= Len(q.list)
  <2>1. q.list \in Seq(StoredPages)
    BY <1>3 DEF PagesObjects
  <2> QED
    BY <1>3, <2>1, ReadyToPurge, LenProperties DEF Grows
<1>6. /\ \A f \in Files : (\A i \in 1 .. Len(buffer) : buffer[i].file # f) => s.index[f] = index[f]
      /\ \A i \in 1 .. Len(buffer) : s.index[buffer[i].file] \in 1 .. Len(q.list)
  BY <1>1 DEF PurgedTo, q
<1>7. \A f \in Files : index[f] # PENDING => s.index[f] = index[f]
  BY <1>5, <1>6 DEF VaultInv, FilesFit
<1>8. ASSUME NEW f \in Files, s.index[f] # NULL
      PROVE  s.index[f] \in DOMAIN q.list /\ s.index[f] # PENDING
  <2>1. CASE index[f] = PENDING
    <3>1. PICK i \in DOMAIN buffer : buffer[i].file = f
      BY <2>1 DEF VaultInv, FilesFit
    <3> QED
      BY <1>5, <1>6, <3>1 DEF PENDING
  <2>2. CASE index[f] # PENDING
    <3>1. index[f] \in DOMAIN pages.list
      BY <1>7, <1>8, <2>2 DEF VaultInv, FilesFit
    <3>2. index[f] \in DOMAIN q.list
      BY <1>5, <3>1
    <3> QED
      BY <1>7, <2>2, <3>2
  <2> QED
    BY <2>1, <2>2
<1>9. ASSUME q.pagesUptodate, ~q.indexChanged
      PROVE  buffer = <<>> /\ s.index = index /\ q.list = pages.list
  <2>1. pages.pagesUptodate /\ ~pages.indexChanged /\ q.list = pages.list
    BY <1>3, <1>4, <1>9 DEF Grows
  <2>2. buffer = <<>>
    BY <2>1 DEF VaultInv, SavedFits
  <2>3. \A f \in Files : index[f] # PENDING
    BY <2>2 DEF VaultInv, FilesFit
  <2>4. index \in [Files -> Nat \cup {NULL}]
    BY ReadyToPurge
  <2> QED
    BY <1>3, <1>7, <2>1, <2>2, <2>3, <2>4
<1> QED
  BY <1>1, <1>3, <1>4, <1>7, <1>8, <1>9 DEF s, q

\* What is saved is enough for the invariant when there is no pages object.
LEMMA UnmountedFits ==
  ASSUME pages' = NULL, cache' = NULL, VaultTypes', buffer' = <<>>, ArchiveFits',
         disk' # NULL => AsWritten(disk'.list),
         \A f \in Files : index'[f] # NULL => disk' # NULL /\ index'[f] \in DOMAIN disk'.list,
         disk' # NULL /\ disk'.encryptedKey # NULL =>
           \A i \in DOMAIN disk'.list : disk'.list[i].encryption =>
             disk'.list[i].stored.key = disk'.encryptedKey.key
  PROVE  VaultInv'
<1>1. \A f \in Files : index'[f] # PENDING
  <2> SUFFICES ASSUME NEW f \in Files, index'[f] = PENDING PROVE FALSE
    OBVIOUS
  <2>1. disk' # NULL /\ 0 \in DOMAIN disk'.list
    BY NullIsNone DEF PENDING
  <2>2. disk'.list \in Seq(StoredPages)
    BY <2>1 DEF VaultTypes, Archives
  <2>3. DOMAIN disk'.list = 1 .. Len(disk'.list) /\ Len(disk'.list) \in Nat
    BY <2>2, LenProperties
  <2> QED
    BY <2>1, <2>3
<1>2. FilesFit'
  BY <1>1 DEF FilesFit
<1>3. PagesFit' /\ CacheFits' /\ SavedFits' /\ KeysFit' /\ SealFits'
  BY DEF PagesFit, CacheFits, SavedFits, KeysFit, SealFits
<1>4. OneKey'
  BY DEF OneKey
<1> QED
  BY <1>2, <1>3, <1>4 DEF VaultInv

LEMMA VaultInit ==
  ASSUME Init
  PROVE  VaultInv
<1>1. VaultTypes
  <2>1. buffer \in Seq([file : Files, content : Contents])
    BY DEF Init
  <2> QED
    BY <2>1 DEF Init, VaultTypes
<1>2. FilesFit
  BY NullIsNone DEF Init, FilesFit, PENDING
<1>3. PagesFit /\ CacheFits /\ SavedFits /\ ArchiveFits /\ KeysFit /\ SealFits /\ OneKey
  BY DEF Init, PagesFit, CacheFits, SavedFits, ArchiveFits, KeysFit, SealFits, OneKey
<1> QED
  BY <1>1, <1>2, <1>3 DEF VaultInv

-----------------------------------------------------------------------------
(* Mounting.                                                               *)

LEMMA NewPagesIs ==
  ASSUME NEW password \in Passwords \cup {NULL}, NEW encryptkey \in BOOLEAN,
         NEW readonly \in BOOLEAN, mounts \in Nat
  PROVE  LET p == NewPages(password, encryptkey, readonly)
         IN /\ p \in PagesObjects /\ KeysOf(p) /\ OwnKey(p) /\ p.list = <<>>
            /\ ~p.indexChanged /\ ~p.isPasswordSet /\ p.pagesUptodate
            /\ IsEncryptkey(p) => p.isKeyDecrypted
            /\ password = NULL /\ ~encryptkey => p.encryptionKey = NULL /\ ~p.isKeyDecrypted
            /\ ~p.isEncryptionActive /\ p.fileReadOnly = readonly
<1> DEFINE p == NewPages(password, encryptkey, readonly)
           mode == IF password = NULL THEN IF encryptkey THEN "key" ELSE "none"
                   ELSE IF encryptkey THEN "key_index" ELSE "file"
           random == IF encryptkey THEN Pbkdf2Hmac(NULL, mounts + 1) ELSE NULL
<1>1. p = [encryption |-> mode, passwordSalt |-> mounts + 1, encryptionKey |-> random,
           encryptedKey |-> NULL, isKeyDecrypted |-> encryptkey, isPasswordSet |-> FALSE,
           isEncryptionActive |-> FALSE, fileReadOnly |-> readonly, pagesUptodate |-> TRUE,
           indexChanged |-> FALSE, list |-> <<>>]
  BY DEF NewPages, RandomGenerate
<1>2. /\ mode \in Modes /\ mounts + 1 \in Nat
      /\ (mode = "key" \/ mode = "key_index") <=> encryptkey
  BY DEF Modes
<1>3. random \in Keys \cup {NULL} /\ (encryptkey => random \in Keys /\ random.password = NULL)
  BY DEF Keys, Pbkdf2Hmac
<1>4. ~encryptkey => random = NULL
  OBVIOUS
<1> HIDE DEF p, mode, random
<1>5. p \in PagesObjects
  BY <1>1, <1>2, <1>3 DEF PagesObjects
<1>6. IsEncryptkey(p) <=> encryptkey
  BY <1>1, <1>2 DEF IsEncryptkey
<1>7. KeysOf(p)
  BY <1>1, <1>3, <1>6, NullIsNone DEF KeysOf
<1>8. OwnKey(p)
  BY <1>1 DEF OwnKey
<1> QED
  BY <1>1, <1>4, <1>5, <1>6, <1>7, <1>8 DEF p

\* An archive that is read has the mode, the pages and the keys that were saved.
LEMMA ReadIndexIs ==
  ASSUME VaultInv, disk # NULL, NEW password \in Passwords \cup {NULL}, NEW readonly \in BOOLEAN,
         ReadIndex(password, readonly) # NULL
  PROVE  LET p == ReadIndex(password, readonly)
         IN /\ p \in PagesObjects /\ KeysOf(p) /\ OwnKey(p) /\ SealOf(disk, p) /\ p.list = disk.list
            /\ ~p.indexChanged /\ p.fileReadOnly = readonly
            /\ disk.encryption = "none" => p.encryption = "none"
            /\ IsEncryptkey(p) /\ password # NULL => p.isPasswordSet
<1> DEFINE p == ReadIndex(password, readonly)
           new == NewPages(NULL, FALSE, readonly)
           salt == IF disk.encryption = "none" THEN new.passwordSalt ELSE disk.salt
           read == [new EXCEPT !.encryption = disk.encryption, !.list = disk.list,
                               !.passwordSalt = salt, !.encryptedKey = disk.encryptedKey]
<1>1. /\ disk.encryption \in Modes /\ disk.list \in Seq(StoredPages)
      /\ disk.salt \in Nat \cup {NULL} /\ disk.encryptedKey \in SealedKeys \cup {NULL}
  BY DEF VaultInv, VaultTypes, Archives
<1>2. IF disk.encryption \in {"none", "file"} THEN disk.encryptedKey = NULL
      ELSE /\ disk.encryptedKey # NULL /\ disk.encryptedKey.key.password = NULL
           /\ disk.encryptedKey.by.password \in Passwords
  BY DEF VaultInv, ArchiveFits
<1>3. /\ new \in PagesObjects /\ ~new.indexChanged /\ ~new.isPasswordSet /\ new.encryptionKey = NULL
      /\ ~new.isKeyDecrypted /\ ~new.isEncryptionActive /\ new.fileReadOnly = readonly
  BY NewPagesIs DEF VaultInv, VaultTypes
<1>4. salt \in Nat
  BY <1>1, <1>3 DEF VaultInv, ArchiveFits, PagesObjects
<1>5. p = IF disk.encryption = "key_index" /\ password = NULL THEN NULL
          ELSE IF IsEncryptkey(read) /\ password # NULL THEN DecryptKey(read, password) ELSE read
  <2>1. read = [NewPages(NULL, FALSE, readonly) EXCEPT
                 !.encryption = disk.encryption, !.list = disk.list,
                 !.passwordSalt = IF disk.encryption = "none" THEN @ ELSE disk.salt,
                 !.encryptedKey = disk.encryptedKey]
    BY <1>3 DEF PagesObjects
  <2> HIDE DEF read
  <2> QED
    BY <2>1 DEF ReadIndex
<1> HIDE DEF p, new, salt
<1>6. read \in PagesObjects
  BY <1>1, <1>3, <1>4 DEF PagesObjects
<1>7. /\ read.encryption = disk.encryption /\ read.list = disk.list /\ read.passwordSalt = salt
      /\ read.encryptedKey = disk.encryptedKey /\ read.encryptionKey = NULL
      /\ ~read.isKeyDecrypted /\ ~read.isEncryptionActive /\ ~read.isPasswordSet
      /\ read.fileReadOnly = readonly /\ ~read.indexChanged
  BY <1>3 DEF PagesObjects
<1> HIDE DEF read
<1>8. \A i \in DOMAIN disk.list : disk.list[i].encryption /\ disk.encryptedKey # NULL =>
        disk.list[i].stored.key = disk.encryptedKey.key
  BY DEF VaultInv, OneKey
<1>9. disk.encryption # "none" => salt = disk.salt
  BY DEF salt
<1>10. CASE ~IsEncryptkey(read)
  <2>1. p = read
    BY <1>5, <1>7, <1>10 DEF p, IsEncryptkey
  <2>2. KeysOf(read) /\ OwnKey(read)
    BY <1>7, <1>10 DEF KeysOf, OwnKey
  <2>3. SealOf(disk, read)
    BY <1>7, <1>9, <1>10 DEF SealOf
  <2> QED
    BY <1>6, <1>7, <1>10, <2>1, <2>2, <2>3 DEF p
<1>11. CASE IsEncryptkey(read) /\ password # NULL
  <2>1. p = DecryptKey(read, password) /\ password \in Passwords /\ p # NULL
    BY <1>5, <1>11 DEF p
  <2>2. disk.encryption # "none" /\ disk.encryption \notin {"none", "file"}
    BY <1>7, <1>11 DEF IsEncryptkey
  <2>3. /\ p \in PagesObjects /\ KeysOf(p) /\ p.isKeyDecrypted /\ p.encryptionKey = read.encryptedKey.key
        /\ p.encryption = read.encryption /\ p.encryptedKey = read.encryptedKey
        /\ p.isPasswordSet /\ p.passwordSalt = read.passwordSalt /\ p.list = read.list
        /\ p.fileReadOnly = read.fileReadOnly /\ p.pagesUptodate = read.pagesUptodate
        /\ p.indexChanged = read.indexChanged
    BY <1>2, <1>6, <1>7, <1>11, <2>1, <2>2, DecryptKeyIs
  <2>4. OwnKey(p)
    BY <1>2, <1>7, <1>8, <2>2, <2>3 DEF OwnKey
  <2>5. SealOf(disk, p)
    BY <1>2, <1>7, <1>9, <2>2, <2>3 DEF SealOf
  <2> QED
    BY <1>7, <2>2, <2>3, <2>4, <2>5 DEF p
<1>12. CASE IsEncryptkey(read) /\ password = NULL
  <2>1. p = read /\ disk.encryption = "key"
    BY <1>5, <1>7, <1>12 DEF p, IsEncryptkey
  <2>2. disk.encryption # "none" /\ disk.encryption \notin {"none", "file"}
    BY <2>1
  <2>3. KeysOf(read)
    BY <1>2, <1>7, <1>12, <2>1, <2>2 DEF KeysOf
  <2>4. OwnKey(read)
    BY <1>2, <1>7, <1>8, <2>2 DEF OwnKey
  <2>5. SealOf(disk, read)
    BY <1>2, <1>7, <1>9, <2>2 DEF SealOf
  <2> QED
    BY <1>6, <1>7, <1>12, <2>1, <2>3, <2>4, <2>5 DEF p
<1> QED
  BY <1>10, <1>11, <1>12

\* What a mount makes of a new archive or of the one that was saved
Opened(password, encryptkey, readonly) ==
  IF disk = NULL THEN NewPages(password, encryptkey, readonly) ELSE ReadIndex(password, readonly)

LEMMA MountedIs ==
  ASSUME VaultInv, NEW password \in Passwords \cup {NULL}, NEW encryptkey \in BOOLEAN,
         NEW readonly \in BOOLEAN, Mount(password, encryptkey, readonly)
  PROVE  /\ pages' \in PagesObjects /\ KeysOf(pages') /\ OwnKey(pages') /\ SealOf(disk, pages')
         /\ pages'.list = (IF disk = NULL THEN <<>> ELSE disk.list) /\ ~pages'.indexChanged
         /\ disk = NULL \/ disk.encryption = "none" =>
              ~pages'.isPasswordSet \/ pages'.encryption # "none"
<1> DEFINE o == Opened(password, encryptkey, readonly)
           g == IF o = NULL \/ password = NULL THEN o
                ELSE IF o.isPasswordSet THEN o ELSE SetPassword(o, password)
<1>1. g # NULL /\ pages' = [g EXCEPT !.pagesUptodate = TRUE]
  BY DEF Mount, Opened
<1>2. o # NULL
  BY <1>1
<1> HIDE DEF o
<1>3. /\ o \in PagesObjects /\ KeysOf(o) /\ OwnKey(o) /\ SealOf(disk, o)
      /\ o.list = (IF disk = NULL THEN <<>> ELSE disk.list) /\ ~o.indexChanged
  <2>1. CASE disk = NULL
    <3>1. o = NewPages(password, encryptkey, readonly)
      BY <2>1 DEF o, Opened
    <3>2. /\ o \in PagesObjects /\ KeysOf(o) /\ OwnKey(o) /\ o.list = <<>> /\ ~o.indexChanged
          /\ IsEncryptkey(o) => o.isKeyDecrypted
      BY <3>1, NewPagesIs DEF VaultInv, VaultTypes
    <3> QED
      BY <2>1, <3>2 DEF SealOf
  <2>2. CASE disk # NULL
    <3>1. o = ReadIndex(password, readonly)
      BY <2>2 DEF o, Opened
    <3> QED
      BY <1>2, <2>2, <3>1, ReadIndexIs
  <2> QED
    BY <2>1, <2>2
<1>4. /\ g \in PagesObjects /\ KeysOf(g) /\ OwnKey(g) /\ SealOf(disk, g)
      /\ g.list = o.list /\ ~g.indexChanged
  <2>1. CASE g = o
    BY <1>3, <2>1
  <2>2. CASE g # o
    <3>1. g = SetPassword(o, password) /\ password \in Passwords \cup {""} /\ password # NULL
      BY <2>2
    <3> HIDE DEF g
    <3>2. /\ g \in PagesObjects /\ KeysOf(g) /\ OwnKey(g) /\ g.list = o.list
          /\ g.passwordSalt = o.passwordSalt /\ g.indexChanged = o.indexChanged
          /\ g.encryption # o.encryption => o.encryption = "none" /\ g.encryption = "file"
          /\ o.encryptedKey # NULL => g.encryptedKey # NULL
          /\ IsEncryptkey(o) /\ o.encryptedKey # NULL => g.encryptedKey.key = o.encryptedKey.key
          /\ o.isKeyDecrypted => g.isKeyDecrypted
      BY <1>1, <1>3, <3>1, SetPasswordIs
    <3>3. SealOf(disk, g)
      BY <1>3, <3>2 DEF SealOf, IsEncryptkey
    <3> QED
      BY <1>3, <3>2, <3>3
  <2> QED
    BY <2>1, <2>2
<1> HIDE DEF g
<1>5. pages' \in PagesObjects
  BY <1>1, <1>4 DEF PagesObjects
<1>6. SameKeys(g, pages') /\ pages'.list = g.list /\ ~pages'.indexChanged
  BY <1>1, <1>4 DEF PagesObjects, SameKeys
<1>7. KeysOf(pages') /\ SealOf(disk, pages')
  BY <1>4, <1>6, SameKeysFit
<1>8. OwnKey(pages')
  <2>1. IsEncryptkey(pages') <=> IsEncryptkey(g)
    BY <1>6 DEF SameKeys, IsEncryptkey
  <2> QED
    BY <1>4, <1>6, <2>1 DEF OwnKey, SameKeys
<1>9. pages'.isPasswordSet => pages'.encryption # "none"
  BY <1>7 DEF KeysOf
<1> QED
  BY <1>3, <1>4, <1>5, <1>6, <1>7, <1>8, <1>9

\* The saved archive stays as it was.
LEMMA SavedStays ==
  ASSUME VaultInv, disk' = disk
  PROVE  /\ disk' \in Archives \cup {NULL} /\ ArchiveFits'
         /\ disk' # NULL => AsWritten(disk'.list)
         /\ disk' # NULL /\ disk'.encryptedKey # NULL =>
              \A i \in DOMAIN disk'.list : disk'.list[i].encryption =>
                disk'.list[i].stored.key = disk'.encryptedKey.key
BY DEF VaultInv, VaultTypes, PagesFit, ArchiveFits, OneKey

\* A pages object that fits is enough for the rest of the invariant.
LEMMA MountedFits ==
  ASSUME disk' \in Archives \cup {NULL}, ArchiveFits', mounts' \in Nat,
         disk' # NULL => AsWritten(disk'.list),
         disk' # NULL /\ disk'.encryptedKey # NULL =>
           \A i \in DOMAIN disk'.list : disk'.list[i].encryption =>
             disk'.list[i].stored.key = disk'.encryptedKey.key,
         pages' \in PagesObjects, AsWritten(pages'.list), KeysOf(pages'), OwnKey(pages'),
         SealOf(disk', pages'),
         cache' \in CachedPages \cup {NULL}, CacheFits',
         index' \in [Files -> Nat \cup {NULL}], buffer' \in Seq(Waiting1), FilesFit', SavedFits'
  PROVE  VaultInv'
<1>1. pages' # NULL
  BY NullIsNone
<1>2. VaultTypes'
  BY DEF VaultTypes, Waiting1
<1>3. PagesFit' /\ KeysFit' /\ SealFits' /\ OneKey'
  BY <1>1 DEF PagesFit, KeysFit, SealFits, OneKey
<1> QED
  BY <1>2, <1>3 DEF VaultInv

LEMMA EmptyBuffer ==
  /\ <<>> \in Seq(Waiting1) /\ DOMAIN <<>> = {}
OBVIOUS

LEMMA VaultMount ==
  ASSUME VaultInv, NEW password \in Passwords \cup {NULL}, NEW encryptkey \in BOOLEAN,
         NEW readonly \in BOOLEAN, Mount(password, encryptkey, readonly)
  PROVE  VaultInv'
<1>1. /\ pages = NULL /\ pages' # NULL /\ cache' = NULL /\ mounts' = mounts + 1
      /\ disk' = disk /\ index' = index /\ buffer' = buffer
  BY MountedIs, NullIsNone DEF Mount
<1>2. /\ pages' \in PagesObjects /\ KeysOf(pages') /\ OwnKey(pages') /\ SealOf(disk, pages')
      /\ pages'.list = (IF disk = NULL THEN <<>> ELSE disk.list) /\ ~pages'.indexChanged
  BY MountedIs
<1>3. buffer = <<>> /\ DOMAIN buffer = {}
  BY <1>1, EmptyBuffer DEF VaultInv, FilesFit
<1>4. AsWritten(pages'.list)
  BY <1>2 DEF VaultInv, PagesFit, AsWritten
<1>5. \A f \in Files : index[f] # PENDING
  BY <1>3 DEF VaultInv, FilesFit
<1>6. \A f \in Files : index[f] # NULL => disk # NULL /\ index[f] \in DOMAIN disk.list
  BY <1>1, <1>5 DEF VaultInv, FilesFit
<1>7. FilesFit'
  BY <1>1, <1>2, <1>3, <1>5, <1>6 DEF FilesFit
<1>8. SavedFits'
  BY <1>1, <1>2, <1>3, <1>6 DEF SavedFits
<1>9. CacheFits'
  BY <1>1 DEF CacheFits
<1>10. index' \in [Files -> Nat \cup {NULL}] /\ buffer' \in Seq(Waiting1) /\ mounts' \in Nat
  BY <1>1, <1>3, EmptyBuffer DEF VaultInv, VaultTypes
<1> QED
  BY <1>1, <1>2, <1>4, <1>7, <1>8, <1>9, <1>10, SavedStays, MountedFits

-----------------------------------------------------------------------------
(* Reading a file, passwords and unmounting.                               *)

LEMMA ReadFileIs ==
  ASSUME VaultInv, NEW f \in Files, ReadFile(f)
  PROVE  /\ HeldFits(cache', pages.list) /\ cache' \in CachedPages \cup {NULL}
         /\ \/ cache' = cache
            \/ /\ cache' # NULL
               /\ pages.list[cache'.page].encryption =>
                    pages.list[cache'.page].stored.key = pages.encryptionKey
<1> DEFINE i == index[f]
           g == pages.list[i]
           got == PageGet(pages, cache, i)
<1>1. pages # NULL /\ i \notin {NULL, PENDING} /\ cache' = CacheSet(cache, i, got)
  BY DEF ReadFile
<1>2. /\ pages.list \in Seq(StoredPages) /\ AsWritten(pages.list) /\ HeldFits(cache, pages.list)
      /\ i \in 1 .. Len(pages.list) /\ Len(pages.list) \in Nat /\ cache \in CachedPages \cup {NULL}
      /\ pages.isEncryptionActive \in BOOLEAN
  BY <1>1, ReadyToPurge DEF VaultInv, FilesFit, VaultTypes, PagesObjects
<1>3. g \in StoredPages /\ g.hash \in Contents /\ g.encryption \in BOOLEAN
  <2>1. g \in StoredPages
    BY <1>2, ElementOfSeq
  <2> QED
    BY <2>1 DEF StoredPages
<1> HIDE DEF i, g
<1>4. CASE got = NULL
  <2>1. cache' = cache
    BY <1>1, <1>4 DEF CacheSet
  <2> QED
    BY <1>2, <2>1
<1>5. CASE got # NULL /\ cache # NULL /\ cache.page = i
  <2>1. got = cache.bytes
    BY <1>5 DEF PageGet
  <2>2. cache = [page |-> i, bytes |-> got]
    BY <1>2, <1>5, <2>1, NullIsNone DEF CachedPages
  <2>3. cache' = cache
    BY <1>1, <1>5, <2>2 DEF CacheSet
  <2> QED
    BY <1>2, <2>3
<1>6. CASE got # NULL /\ ~(cache # NULL /\ cache.page = i)
  <2>1. got = ReadPage(pages, g)
    BY <1>6 DEF PageGet, g
  <2>2. ~(g.encryption /\ (~pages.isEncryptionActive \/ g.stored.key # pages.encryptionKey)) /\ got = g.hash
    BY <1>2, <1>6, <2>1, ReadPageIs DEF g
  <2>3. cache' = [page |-> i, bytes |-> g.hash] /\ cache' \in CachedPages
    BY <1>1, <1>2, <1>3, <1>6, <2>2 DEF CacheSet, CachedPages
  <2>4. cache'.page = i /\ cache'.bytes = g.hash /\ cache' # NULL
    BY <2>3, NullIsNone
  <2> QED
    BY <1>2, <2>2, <2>3, <2>4 DEF HeldFits, g
<1> QED
  BY <1>4, <1>5, <1>6

LEMMA VaultReadFile ==
  ASSUME VaultInv, NEW f \in Files, ReadFile(f)
  PROVE  VaultInv'
<1>1. /\ pages # NULL /\ pages' = pages /\ disk' = disk /\ index' = index
      /\ buffer' = buffer /\ mounts' = mounts
  BY DEF ReadFile
<1>2. HeldFits(cache', pages.list) /\ cache' \in CachedPages \cup {NULL}
  BY ReadFileIs
<1>3. CacheFits'
  BY <1>1, <1>2, ReadyToPurge DEF CacheFits, HeldFits
<1>4. FilesFit' /\ SavedFits'
  BY <1>1 DEF VaultInv, FilesFit, SavedFits
<1>5. /\ pages' \in PagesObjects /\ AsWritten(pages'.list) /\ KeysOf(pages') /\ OwnKey(pages')
      /\ SealOf(disk', pages') /\ mounts' \in Nat
      /\ index' \in [Files -> Nat \cup {NULL}] /\ buffer' \in Seq(Waiting1)
  BY <1>1, ReadyToPurge DEF VaultInv, VaultTypes, KeysFit, OneKey, SealFits
<1> QED
  BY <1>1, <1>2, <1>3, <1>4, <1>5, SavedStays, MountedFits

\* The pages object after the password command
Given(password) ==
  LET given == SetPassword(Purged.pages, password)
  IN  IF given = NULL THEN Purged.pages ELSE given

LEMMA GivenIs ==
  ASSUME VaultInv, pages # NULL, NEW password \in Passwords \cup {""}
  PROVE  LET q == Purged.pages
             g == Given(password)
         IN /\ g \in PagesObjects /\ KeysOf(g) /\ OwnKey(g) /\ SealOf(disk, g) /\ g.list = q.list
            /\ q.isPasswordSet => g.isPasswordSet
            /\ g.passwordSalt = q.passwordSalt /\ g.indexChanged = q.indexChanged
            /\ (g.pagesUptodate => q.pagesUptodate) /\ g.fileReadOnly = q.fileReadOnly
            /\ q.isKeyDecrypted => g.isKeyDecrypted /\ g.encryptionKey = q.encryptionKey
            /\ ~q.isKeyDecrypted /\ g.isKeyDecrypted =>
                 IsEncryptkey(q) /\ g.encryptionKey = q.encryptedKey.key
<1> DEFINE q == Purged.pages
           g == SetPassword(q, password)
<1>1. q \in PagesObjects /\ KeysOf(q) /\ OwnKey(q) /\ SealOf(disk, q)
  BY PurgedFits
<1> HIDE DEF q
<1>2. CASE g = NULL
  <2>1. Given(password) = q
    BY <1>2 DEF Given, q
  <2> QED
    BY <1>1, <2>1 DEF q
<1>3. CASE g # NULL
  <2>1. Given(password) = g
    BY <1>3 DEF Given, q
  <2>2. /\ g \in PagesObjects /\ KeysOf(g) /\ OwnKey(g) /\ g.list = q.list
        /\ q.isPasswordSet => g.isPasswordSet
        /\ g.passwordSalt = q.passwordSalt /\ g.fileReadOnly = q.fileReadOnly
        /\ g.indexChanged = q.indexChanged /\ (g.pagesUptodate => q.pagesUptodate)
        /\ g.encryption # q.encryption => q.encryption = "none" /\ g.encryption = "file"
        /\ q.encryptedKey # NULL => g.encryptedKey # NULL
        /\ IsEncryptkey(q) /\ q.encryptedKey # NULL => g.encryptedKey.key = q.encryptedKey.key
        /\ q.isKeyDecrypted => g.isKeyDecrypted /\ g.encryptionKey = q.encryptionKey
        /\ ~q.isKeyDecrypted /\ g.isKeyDecrypted =>
             IsEncryptkey(q) /\ g.encryptionKey = q.encryptedKey.key
    <3>1. g = SetPassword(q, password)
      OBVIOUS
    <3>2. q \in PagesObjects /\ KeysOf(q) /\ OwnKey(q) /\ SetPassword(q, password) # NULL
      BY <1>1, <1>3
    <3> HIDE DEF g
    <3> QED
      BY <3>1, <3>2, SetPasswordIs
  <2> HIDE DEF g
  <2>3. SealOf(disk, g)
    BY <1>1, <2>2 DEF SealOf, IsEncryptkey
  <2> QED
    BY <2>1, <2>2, <2>3 DEF q
<1> QED
  BY <1>2, <1>3

LEMMA VaultPassword ==
  ASSUME VaultInv, NEW password \in Passwords \cup {""}, HandleCommandPassword(password)
  PROVE  VaultInv'
<1> DEFINE s == Purged
           q == s.pages
<1>1. /\ pages # NULL /\ pages' = Given(password) /\ cache' = s.cache /\ index' = s.index
      /\ buffer' = <<>> /\ disk' = disk /\ mounts' = mounts
  BY DEF HandleCommandPassword, Given, Purged
<1>2. /\ AsWritten(q.list) /\ HeldFits(s.cache, q.list) /\ s.cache \in CachedPages \cup {NULL}
      /\ s.index \in [Files -> Nat \cup {NULL}] /\ q \in PagesObjects
      /\ \A f \in Files : s.index[f] # NULL => s.index[f] \in DOMAIN q.list /\ s.index[f] # PENDING
      /\ q.indexChanged = pages.indexChanged /\ Grows(pages, q)
      /\ q.pagesUptodate /\ ~q.indexChanged =>
           buffer = <<>> /\ s.index = index /\ q.list = pages.list
  BY <1>1, PurgedFits
<1>3. /\ pages' \in PagesObjects /\ KeysOf(pages') /\ OwnKey(pages') /\ SealOf(disk, pages')
      /\ pages'.list = q.list /\ pages'.indexChanged = q.indexChanged
      /\ pages'.pagesUptodate => q.pagesUptodate
  BY <1>1, GivenIs
<1> HIDE DEF s, q
<1>4. pages' # NULL
  BY <1>3, NullIsNone
<1>5. CacheFits'
  <2>1. q.list \in Seq(StoredPages)
    BY <1>2 DEF PagesObjects
  <2>2. DOMAIN q.list = 1 .. Len(q.list)
    BY <2>1, LenProperties
  <2> QED
    BY <1>1, <1>2, <1>3, <1>4, <2>2 DEF CacheFits, HeldFits
<1>6. FilesFit'
  <2>1. \A f \in Files : index'[f] # PENDING
    <3>1. NULL # PENDING
      BY NullIsNone, 0 \in Nat DEF PENDING
    <3> QED
      BY <1>1, <1>2, <3>1
  <2>2. DOMAIN buffer' = {}
    BY <1>1, EmptyBuffer
  <2>3. \A f \in Files : index'[f] \notin {NULL, PENDING} => index'[f] \in DOMAIN pages'.list
    BY <1>1, <1>2, <1>3
  <2> QED
    BY <1>4, <2>1, <2>2, <2>3 DEF FilesFit
<1>7. SavedFits'
  <2> SUFFICES ASSUME pages'.pagesUptodate, ~pages'.indexChanged
               PROVE  IF disk = NULL THEN \A f \in Files : index'[f] = NULL
                      ELSE pages'.list = disk.list
    BY <1>1 DEF SavedFits
  <2>1. /\ q.pagesUptodate /\ ~q.indexChanged /\ q.list = pages.list /\ s.index = index
        /\ pages.pagesUptodate /\ ~pages.indexChanged
    BY <1>2, <1>3 DEF Grows
  <2> QED
    BY <1>1, <1>3, <2>1 DEF VaultInv, SavedFits
<1>8. index' \in [Files -> Nat \cup {NULL}] /\ buffer' \in Seq(Waiting1) /\ mounts' \in Nat
      /\ cache' \in CachedPages \cup {NULL} /\ AsWritten(pages'.list)
  BY <1>1, <1>2, <1>3, EmptyBuffer DEF VaultInv, VaultTypes
<1> QED
  BY <1>1, <1>3, <1>5, <1>6, <1>7, <1>8, SavedStays, MountedFits

LEMMA VaultUnmount ==
  ASSUME VaultInv, Unmount
  PROVE  VaultInv'
<1> DEFINE s == Purged
           q == s.pages
           changed == ~q.pagesUptodate \/ q.indexChanged
<1>1. /\ pages # NULL /\ pages' = NULL /\ cache' = NULL /\ buffer' = <<>> /\ index' = s.index
      /\ disk' = IF changed THEN SavedSuffix(q) ELSE disk
      /\ mounts' = mounts
  BY DEF Unmount, Purged
<1>2. /\ AsWritten(q.list) /\ q \in PagesObjects /\ KeysOf(q) /\ OwnKey(q)
      /\ s.index \in [Files -> Nat \cup {NULL}]
      /\ \A f \in Files : s.index[f] # NULL => s.index[f] \in DOMAIN q.list
      /\ q.indexChanged = pages.indexChanged /\ Grows(pages, q)
      /\ q.pagesUptodate /\ ~q.indexChanged =>
           buffer = <<>> /\ s.index = index /\ q.list = pages.list
  BY <1>1, PurgedFits
<1> HIDE DEF s, q
<1>3. buffer' = <<>> /\ buffer' \in Seq(Waiting1) /\ mounts' \in Nat /\ index' \in [Files -> Nat \cup {NULL}]
  BY <1>1, <1>2, EmptyBuffer DEF VaultInv, VaultTypes
<1>4. CASE ~changed
  <2>1. /\ disk' = disk /\ s.index = index /\ buffer = <<>> /\ q.list = pages.list
        /\ pages.pagesUptodate /\ ~pages.indexChanged
    BY <1>1, <1>2, <1>4 DEF Grows
  <2>2. /\ disk' \in Archives \cup {NULL} /\ ArchiveFits'
        /\ disk' # NULL => AsWritten(disk'.list)
        /\ disk' # NULL /\ disk'.encryptedKey # NULL =>
             \A i \in DOMAIN disk'.list : disk'.list[i].encryption =>
               disk'.list[i].stored.key = disk'.encryptedKey.key
    BY <2>1, SavedStays
  <2>3. \A f \in Files : index'[f] # NULL => disk' # NULL /\ index'[f] \in DOMAIN disk'.list
    BY <1>1, <1>2, <2>1 DEF VaultInv, SavedFits
  <2>4. VaultTypes'
    BY <1>1, <1>3, <2>2 DEF VaultTypes, Waiting1
  <2> QED
    BY <1>1, <1>3, <2>2, <2>3, <2>4, UnmountedFits
<1>5. CASE changed
  <2> DEFINE mode == SavedEncryption(q)
             salt == IF mode = "none" THEN NULL ELSE q.passwordSalt
             sealed == IF mode \in {"none", "file"} THEN NULL ELSE q.encryptedKey
  <2>1. disk' = [encryption |-> mode, list |-> q.list, salt |-> salt, encryptedKey |-> sealed]
    BY <1>1, <1>5 DEF SavedSuffix
  <2>2. /\ q.encryption \in Modes /\ q.list \in Seq(StoredPages)
        /\ q.passwordSalt \in Nat /\ q.encryptedKey \in SealedKeys \cup {NULL}
    BY <1>2 DEF PagesObjects
  <2>3. mode = IF q.isPasswordSet THEN q.encryption ELSE "none"
    BY DEF SavedEncryption
  <2>4. mode \in Modes
    BY <2>2, <2>3 DEF Modes
  <2> HIDE DEF mode
  <2>5. disk' \in Archives
    BY <2>1, <2>2, <2>4 DEF Archives
  <2>6. disk' # NULL /\ disk'.encryption = mode /\ disk'.list = q.list
        /\ disk'.salt = salt /\ disk'.encryptedKey = sealed
    BY <2>1, <2>5, NullIsNone
  <2>7. mode \notin {"none", "file"} =>
          /\ IsEncryptkey(q) /\ q.isPasswordSet /\ q.isKeyDecrypted /\ q.encryptedKey # NULL
          /\ q.encryptedKey.key.password = NULL /\ q.encryptedKey.by.password \in Passwords
          /\ q.encryptedKey.key = q.encryptionKey
    BY <1>2, <2>3, <2>4 DEF IsEncryptkey, Modes, KeysOf
  <2>8. ArchiveFits'
    BY <2>2, <2>6, <2>7 DEF ArchiveFits
  <2>9. ASSUME disk'.encryptedKey # NULL, NEW i \in DOMAIN disk'.list, disk'.list[i].encryption
        PROVE  disk'.list[i].stored.key = disk'.encryptedKey.key
    <3>1. mode \notin {"none", "file"} /\ sealed = q.encryptedKey
      BY <2>6, <2>9
    <3> QED
      BY <1>2, <2>6, <2>7, <2>9, <3>1 DEF OwnKey
  <2>10. \A f \in Files : index'[f] # NULL => disk' # NULL /\ index'[f] \in DOMAIN disk'.list
    BY <1>1, <1>2, <2>6
  <2>11. VaultTypes'
    BY <1>1, <1>3, <2>5 DEF VaultTypes, Waiting1
  <2> QED
    BY <1>1, <1>2, <1>3, <2>6, <2>8, <2>9, <2>10, <2>11, UnmountedFits
<1> QED
  BY <1>4, <1>5

-----------------------------------------------------------------------------
(* A file gets a new content.                                              *)

\* An element is taken out of a sequence.
LEMMA RemovedAt ==
  ASSUME NEW S, NEW s \in Seq(S), NEW k \in 1 .. Len(s)
  PROVE  /\ RemoveAt(s, k) \in Seq(S) /\ Len(RemoveAt(s, k)) = Len(s) - 1
         /\ \A l \in 1 .. Len(s) - 1 : RemoveAt(s, k)[l] = IF l < k THEN s[l] ELSE s[l + 1]
<1> DEFINE n == Len(s)
           a == SubSeq(s, 1, k - 1)
           b == SubSeq(s, k + 1, n)
<1>1. n \in Nat /\ \A l \in 1 .. n : s[l] \in S
  BY LenProperties, ElementOfSeq
<1>2. k \in 1 .. n
  OBVIOUS
<1>3. a \in Seq(S) /\ Len(a) = k - 1 /\ \A l \in 1 .. k - 1 : a[l] = s[l]
  <2>1. CASE k = 1
    <3>1. a = <<>>
      BY <2>1, SubSeqEmpty
    <3> QED
      BY <2>1, <3>1, EmptySeq
  <2>2. CASE k # 1
    <3>1. 1 <= k - 1 /\ k - 1 \in Int /\ \A l \in 1 .. k - 1 : l \in 1 .. n
      BY <1>1, <1>2, <2>2
    <3>2. a \in Seq(S) /\ Len(a) = (k - 1) - 1 + 1
          /\ \A l \in 1 .. (k - 1) - 1 + 1 : a[l] = s[1 + l - 1]
      BY <1>1, <3>1, SubSeqProperties
    <3>3. (k - 1) - 1 + 1 = k - 1 /\ \A l \in 1 .. k - 1 : 1 + l - 1 = l
      BY <3>1
    <3> HIDE DEF a
    <3> QED
      BY <3>2, <3>3
  <2> QED
    BY <2>1, <2>2
<1>4. b \in Seq(S) /\ Len(b) = n - k /\ \A l \in 1 .. n - k : b[l] = s[k + l]
  <2>1. CASE k = n
    <3>1. b = <<>>
      BY <1>1, <2>1, SubSeqEmpty
    <3> QED
      BY <1>1, <2>1, <3>1, EmptySeq
  <2>2. CASE k # n
    <3>1. k + 1 <= n /\ k + 1 \in Int /\ \A l \in k + 1 .. n : l \in 1 .. n
      BY <1>1, <1>2, <2>2
    <3>2. b \in Seq(S) /\ Len(b) = n - (k + 1) + 1
          /\ \A l \in 1 .. n - (k + 1) + 1 : b[l] = s[k + 1 + l - 1]
      BY <1>1, <3>1, SubSeqProperties
    <3>3. n - (k + 1) + 1 = n - k /\ \A l \in 1 .. n - k : k + 1 + l - 1 = k + l
      BY <1>1, <3>1
    <3> HIDE DEF b
    <3> QED
      BY <3>2, <3>3
  <2> QED
    BY <2>1, <2>2
<1>5. RemoveAt(s, k) = a \o b
  BY DEF RemoveAt
<1> HIDE DEF a, b, n
<1>6. /\ a \o b \in Seq(S) /\ Len(a \o b) = (k - 1) + (n - k)
      /\ \A l \in 1 .. (k - 1) + (n - k) :
           (a \o b)[l] = IF l <= k - 1 THEN a[l] ELSE b[l - (k - 1)]
  <2>1. /\ a \o b \in Seq(S) /\ Len(a \o b) = Len(a) + Len(b)
        /\ \A l \in 1 .. Len(a) + Len(b) : (a \o b)[l] = IF l <= Len(a) THEN a[l] ELSE b[l - Len(a)]
    BY <1>3, <1>4, ConcatProperties
  <2> QED
    BY <1>3, <1>4, <2>1
<1>7. (k - 1) + (n - k) = n - 1
  BY <1>1, <1>2
<1>8. ASSUME NEW l \in 1 .. n - 1 PROVE (a \o b)[l] = IF l < k THEN s[l] ELSE s[l + 1]
  <2>1. (a \o b)[l] = IF l <= k - 1 THEN a[l] ELSE b[l - (k - 1)]
    BY <1>6, <1>7
  <2>2. CASE l < k
    <3>1. l <= k - 1 /\ l \in 1 .. k - 1
      BY <1>1, <1>2, <2>2
    <3> QED
      BY <1>3, <2>1, <2>2, <3>1
  <2>3. CASE ~(l < k)
    <3>1. ~(l <= k - 1) /\ l - (k - 1) \in 1 .. n - k /\ k + (l - (k - 1)) = l + 1
      BY <1>1, <1>2, <2>3
    <3> QED
      BY <1>4, <2>1, <2>3, <3>1
  <2> QED
    BY <2>2, <2>3
<1> QED
  BY <1>5, <1>6, <1>7, <1>8 DEF n

\* What waits in the writer without the file itself
WaitingWithout(f) ==
  LET same == {k \in DOMAIN buffer : buffer[k].file = f}
  IN  IF same = {} THEN buffer ELSE RemoveAt(buffer, CHOOSE k \in same : TRUE)

LEMMA WaitingIs ==
  ASSUME VaultInv, NEW f \in Files
  PROVE  LET w == WaitingWithout(f)
         IN /\ w \in Seq(Waiting1) /\ Distinctly(w) /\ Len(w) \in Nat /\ DOMAIN w = 1 .. Len(w)
            /\ \A j \in DOMAIN w : w[j].file # f /\ \E k \in DOMAIN buffer : w[j] = buffer[k]
            /\ \A k \in DOMAIN buffer : buffer[k].file # f => \E j \in DOMAIN w : w[j] = buffer[k]
<1> DEFINE same == {k \in DOMAIN buffer : buffer[k].file = f}
           n == Len(buffer)
           w == WaitingWithout(f)
<1>1. buffer \in Seq(Waiting1) /\ Distinctly(buffer)
  BY DEF VaultInv, VaultTypes, FilesFit, Waiting1, Distinctly
<1>2. n \in Nat /\ DOMAIN buffer = 1 .. n
  BY <1>1, LenProperties
<1>3. CASE same = {}
  <2>1. w = buffer
    BY <1>3 DEF WaitingWithout
  <2> QED
    BY <1>1, <1>2, <1>3, <2>1
<1>4. CASE same # {}
  <2> DEFINE k == CHOOSE k \in same : TRUE
  <2>1. k \in same
    BY <1>4
  <2>2. w = RemoveAt(buffer, k)
    BY <1>4 DEF WaitingWithout
  <2> HIDE DEF k
  <2>3. k \in 1 .. n /\ buffer[k].file = f
    BY <1>2, <2>1
  <2>4. \A l \in 1 .. n : buffer[l].file = f => l = k
    BY <1>1, <1>2, <2>3 DEF Distinctly
  <2> HIDE DEF w, same
  <2>5. /\ w \in Seq(Waiting1) /\ Len(w) = n - 1
        /\ \A l \in 1 .. n - 1 : w[l] = IF l < k THEN buffer[l] ELSE buffer[l + 1]
    BY <1>1, <2>2, <2>3, RemovedAt
  <2>6. Len(w) \in Nat /\ DOMAIN w = 1 .. n - 1
    BY <2>5, LenProperties
  <2> DEFINE place(l) == IF l < k THEN l ELSE l + 1
  <2>7. \A l \in 1 .. n - 1 : place(l) \in 1 .. n /\ place(l) # k /\ w[l] = buffer[place(l)]
    BY <1>2, <2>3, <2>5
  <2>8. \A l, m \in 1 .. n - 1 : place(l) = place(m) => l = m
    BY <1>2, <2>3
  <2> HIDE DEF place
  <2>9. Distinctly(w)
    BY <1>1, <1>2, <2>6, <2>7, <2>8 DEF Distinctly
  <2>10. \A j \in DOMAIN w : w[j].file # f /\ \E l \in DOMAIN buffer : w[j] = buffer[l]
    BY <1>2, <2>4, <2>6, <2>7
  <2>11. ASSUME NEW l \in DOMAIN buffer, buffer[l].file # f
         PROVE  \E j \in DOMAIN w : w[j] = buffer[l]
    <3>1. l \in 1 .. n /\ l # k
      BY <1>2, <2>3, <2>11
    <3>2. CASE l < k
      <4>1. l \in 1 .. n - 1 /\ place(l) = l
        BY <1>2, <2>3, <3>1, <3>2 DEF place
      <4> QED
        BY <2>6, <2>7, <4>1
    <3>3. CASE ~(l < k)
      <4>1. l - 1 \in 1 .. n - 1 /\ place(l - 1) = l
        BY <1>2, <2>3, <3>1, <3>3 DEF place
      <4> QED
        BY <2>6, <2>7, <4>1
    <3> QED
      BY <3>2, <3>3
  <2> QED
    BY <2>5, <2>6, <2>9, <2>10, <2>11 DEF w
<1> QED
  BY <1>3, <1>4

\* The page a big file is stored in
Added(c) == PageAdd(pages, cache, c)

LEMMA AddedIs ==
  ASSUME VaultInv, pages # NULL, NEW c \in Contents
  PROVE  LET r == Added(c)
             q == r.pages
         IN /\ q \in PagesObjects /\ AsWritten(q.list) /\ Grows(pages, q)
            /\ SameKeys(pages, q) /\ KeysOf(q) /\ SealOf(disk, q) /\ OwnKey(q)
            /\ HeldFits(r.cache, q.list) /\ r.cache \in CachedPages \cup {NULL}
            /\ r.page \in DOMAIN q.list /\ r.page \in Nat \ {PENDING} /\ q.list[r.page].hash = c
            /\ q.list[r.page].encryption = pages.isEncryptionActive
            /\ Unshared(pages.list, cache, pages.encryptionKey, c) =>
                 /\ InForceIn(pages, q.list[r.page])
                 /\ HeldAfter(pages, cache, r.cache, q.list)
<1> DEFINE r == Added(c)
           q == r.pages
<1>1. /\ pages \in PagesObjects /\ AsWritten(pages.list) /\ HeldFits(cache, pages.list)
      /\ pages.isEncryptionActive => pages.encryptionKey # NULL
  BY ReadyToPurge
<1>2. /\ Grows(pages, q) /\ HeldFits(r.cache, q.list)
      /\ r.page \in 1 .. Len(q.list) /\ q.list[r.page].hash = c
      /\ q.list[r.page].encryption = pages.isEncryptionActive
      /\ Unshared(pages.list, cache, pages.encryptionKey, c) =>
           /\ InForceIn(pages, q.list[r.page])
           /\ HeldAfter(pages, cache, r.cache, q.list)
  BY <1>1, PageAddIs DEF Added
<1> HIDE DEF r, q
<1>3. q \in PagesObjects /\ AsWritten(q.list)
  BY <1>2 DEF Grows
<1>4. KeysOf(pages) /\ SealOf(disk, pages) /\ OwnKey(pages)
  BY DEF VaultInv, KeysFit, SealFits, OneKey
<1>5. SameKeys(pages, q) /\ KeysOf(q) /\ SealOf(disk, q) /\ OwnKey(q)
  BY <1>1, <1>2, <1>4, GrowsKeepsKeys, GrowsKeepsOwnKey, SameKeysFit
<1>6. q.list \in Seq(StoredPages)
  BY <1>3 DEF PagesObjects
<1>7. r.page \in DOMAIN q.list /\ r.page \in Nat \ {0}
  BY <1>2, <1>6, LenProperties
<1>8. r.cache \in CachedPages \cup {NULL}
  BY <1>2 DEF HeldFits
<1> QED
  BY <1>2, <1>3, <1>5, <1>7, <1>8 DEF r, q, PENDING

\* The pages object after a file is closed
LEMMA ChangedIs ==
  ASSUME NEW q \in PagesObjects, KeysOf(q), SealOf(disk, q), OwnKey(q)
  PROVE  LET g == [q EXCEPT !.indexChanged = TRUE]
         IN /\ g \in PagesObjects /\ SameKeys(q, g) /\ KeysOf(g) /\ SealOf(disk, g) /\ OwnKey(g)
            /\ g.list = q.list /\ g.indexChanged
<1> DEFINE g == [q EXCEPT !.indexChanged = TRUE]
<1>1. g \in PagesObjects /\ SameKeys(q, g) /\ g.list = q.list /\ g.indexChanged
  BY DEF PagesObjects, SameKeys
<1> HIDE DEF g
<1>2. KeysOf(g) /\ SealOf(disk, g)
  BY <1>1, SameKeysFit
<1>3. IsEncryptkey(g) <=> IsEncryptkey(q)
  BY <1>1 DEF SameKeys, IsEncryptkey
<1>4. OwnKey(g)
  BY <1>1, <1>3 DEF OwnKey, SameKeys
<1> QED
  BY <1>1, <1>2, <1>4 DEF g

\* A file of the buffer appended to what waits
LEMMA WaitsIs ==
  ASSUME NEW w \in Seq(Waiting1), NEW b \in Waiting1
  PROVE  LET v == Append(w, b)
         IN /\ v \in Seq(Waiting1) /\ Len(w) \in Nat /\ DOMAIN w = 1 .. Len(w)
            /\ Len(v) = Len(w) + 1 /\ DOMAIN v = 1 .. Len(w) + 1
            /\ \A j \in 1 .. Len(w) : v[j] = w[j]
            /\ v[Len(w) + 1] = b
<1> DEFINE v == Append(w, b)
<1>1. /\ v \in Seq(Waiting1) /\ Len(v) = Len(w) + 1
      /\ \A j \in 1 .. Len(w) : v[j] = w[j] /\ v[Len(w) + 1] = b
  BY AppendProperties
<1>2. v[Len(w) + 1] = b
  BY AppendProperties
<1>3. Len(w) \in Nat /\ DOMAIN w = 1 .. Len(w) /\ DOMAIN v = 1 .. Len(v)
  BY <1>1, LenProperties
<1> QED
  BY <1>1, <1>2, <1>3

\* Files with a page keep it when the pages object grows.
LEMMA PagesStay ==
  ASSUME VaultInv, pages # NULL, NEW q, Grows(pages, q)
  PROVE  /\ DOMAIN pages.list \subseteq DOMAIN q.list
         /\ \A i \in DOMAIN pages.list : q.list[i] = pages.list[i]
<1>1. q \in PagesObjects
  BY DEF Grows
<1>2. q.list \in Seq(StoredPages)
  BY <1>1 DEF PagesObjects
<1>3. DOMAIN q.list = 1 .. Len(q.list) /\ Len(q.list) \in Nat
  BY <1>2, LenProperties
<1> QED
  BY <1>3, ReadyToPurge DEF Grows

LEMMA VaultCloseFile ==
  ASSUME VaultInv, NEW f \in Files, NEW c \in Contents, NEW small \in BOOLEAN, CloseFile(f, c, small)
  PROVE  VaultInv'
<1> DEFINE w == WaitingWithout(f)
           r == Added(c)
<1>1. /\ pages # NULL /\ disk' = disk /\ mounts' = mounts
  BY DEF CloseFile
<1>2. /\ w \in Seq(Waiting1) /\ Distinctly(w) /\ Len(w) \in Nat /\ DOMAIN w = 1 .. Len(w)
      /\ \A j \in DOMAIN w : w[j].file # f /\ \E k \in DOMAIN buffer : w[j] = buffer[k]
      /\ \A k \in DOMAIN buffer : buffer[k].file # f => \E j \in DOMAIN w : w[j] = buffer[k]
  BY WaitingIs
<1>3. /\ pages \in PagesObjects /\ AsWritten(pages.list) /\ HeldFits(cache, pages.list)
      /\ index \in [Files -> Nat \cup {NULL}] /\ cache \in CachedPages \cup {NULL}
      /\ KeysOf(pages) /\ SealOf(disk, pages) /\ OwnKey(pages) /\ mounts' \in Nat
  BY <1>1, ReadyToPurge DEF VaultInv, VaultTypes, KeysFit, SealFits, OneKey
<1>4. \A g \in Files \ {f} : index[g] = PENDING <=> \E j \in DOMAIN w : w[j].file = g
  BY <1>2 DEF VaultInv, FilesFit
<1>5. \A g \in Files : index[g] \notin {NULL, PENDING} => index[g] \in DOMAIN pages.list
  BY <1>1 DEF VaultInv, FilesFit
<1>6. CASE small
  <2> DEFINE b == [file |-> f, content |-> c]
             g == [pages EXCEPT !.indexChanged = TRUE]
  <2>1. /\ buffer' = Append(w, b) /\ index' = [index EXCEPT ![f] = PENDING]
        /\ pages' = g /\ cache' = cache
    BY <1>6 DEF CloseFile, WaitingWithout
  <2>2. b \in Waiting1 /\ b.file = f
    BY DEF Waiting1
  <2>3. /\ g \in PagesObjects /\ KeysOf(g) /\ OwnKey(g) /\ SealOf(disk, g)
        /\ g.list = pages.list /\ g.indexChanged
    BY <1>3, ChangedIs
  <2> HIDE DEF w, b, g
  <2>4. /\ buffer' \in Seq(Waiting1) /\ DOMAIN buffer' = 1 .. Len(w) + 1
        /\ \A j \in 1 .. Len(w) : buffer'[j] = w[j]
        /\ buffer'[Len(w) + 1] = b
    BY <1>2, <2>1, <2>2, WaitsIs
  <2>5. index' \in [Files -> Nat \cup {NULL}] /\ index'[f] = PENDING
        /\ \A h \in Files \ {f} : index'[h] = index[h]
    BY <1>3, <2>1 DEF PENDING
  <2>6. \A k, l \in DOMAIN buffer' : buffer'[k].file = buffer'[l].file => k = l
    BY <1>2, <2>2, <2>4 DEF Distinctly
  <2>7. ASSUME NEW h \in Files
        PROVE  index'[h] = PENDING <=> \E k \in DOMAIN buffer' : buffer'[k].file = h
    <3>1. CASE h = f
      BY <1>2, <2>2, <2>4, <2>5, <3>1
    <3>2. CASE h # f
      <4>1. (\E k \in DOMAIN buffer' : buffer'[k].file = h) <=> \E j \in DOMAIN w : w[j].file = h
        BY <1>2, <2>2, <2>4, <3>2
      <4> QED
        BY <1>4, <2>5, <3>2, <4>1
    <3> QED
      BY <3>1, <3>2
  <2>8. pages' # NULL /\ pages'.list = pages.list
    BY <2>1, <2>3, NullIsNone
  <2>9. FilesFit'
    <3>1. \A h \in Files : index'[h] \notin {NULL, PENDING} => index'[h] \in DOMAIN pages'.list
      BY <1>5, <2>5, <2>8
    <3> QED
      BY <2>6, <2>7, <2>8, <3>1 DEF FilesFit
  <2>10. SavedFits' /\ CacheFits'
    BY <1>1, <2>1, <2>3, <2>8 DEF SavedFits, CacheFits, VaultInv
  <2> QED
    BY <1>1, <1>3, <2>1, <2>3, <2>4, <2>5, <2>8, <2>9, <2>10, SavedStays, MountedFits
<1>7. CASE ~small
  <2> DEFINE q == r.pages
             g == [q EXCEPT !.indexChanged = TRUE]
  <2>1. /\ buffer' = w /\ index' = [index EXCEPT ![f] = r.page]
        /\ pages' = g /\ cache' = r.cache
    BY <1>7 DEF CloseFile, WaitingWithout, Added
  <2>2. /\ q \in PagesObjects /\ AsWritten(q.list) /\ Grows(pages, q)
        /\ KeysOf(q) /\ SealOf(disk, q) /\ OwnKey(q)
        /\ HeldFits(r.cache, q.list) /\ r.cache \in CachedPages \cup {NULL}
        /\ r.page \in DOMAIN q.list /\ r.page \in Nat \ {PENDING}
    BY <1>1, AddedIs
  <2>3. /\ g \in PagesObjects /\ KeysOf(g) /\ OwnKey(g) /\ SealOf(disk, g)
        /\ g.list = q.list /\ g.indexChanged
    <3> HIDE DEF q
    <3> QED
      BY <2>2, ChangedIs
  <2> HIDE DEF w, r, q, g
  <2>4. index' \in [Files -> Nat \cup {NULL}] /\ index'[f] = r.page
        /\ \A h \in Files \ {f} : index'[h] = index[h]
    BY <1>3, <2>1, <2>2
  <2>5. ASSUME NEW h \in Files
        PROVE  index'[h] = PENDING <=> \E k \in DOMAIN buffer' : buffer'[k].file = h
    <3>1. CASE h = f
      BY <1>2, <2>1, <2>2, <2>4, <3>1
    <3>2. CASE h # f
      BY <1>4, <2>1, <2>4, <3>2
    <3> QED
      BY <3>1, <3>2
  <2>6. pages' # NULL /\ pages'.list = q.list
    BY <2>1, <2>3, NullIsNone
  <2>7. FilesFit'
    <3>1. DOMAIN pages.list \subseteq DOMAIN q.list
      BY <1>1, <2>2, PagesStay
    <3>2. \A h \in Files : index'[h] \notin {NULL, PENDING} => index'[h] \in DOMAIN pages'.list
      BY <1>5, <2>2, <2>4, <2>6, <3>1
    <3> QED
      BY <1>2, <2>1, <2>5, <2>6, <3>2 DEF FilesFit, Distinctly
  <2>8. CacheFits'
    <3>1. q.list \in Seq(StoredPages)
      BY <2>2 DEF PagesObjects
    <3>2. DOMAIN q.list = 1 .. Len(q.list)
      BY <3>1, LenProperties
    <3> QED
      BY <2>1, <2>2, <2>6, <3>2 DEF CacheFits, HeldFits
  <2>9. SavedFits'
    BY <2>1, <2>3 DEF SavedFits
  <2>10. AsWritten(pages'.list) /\ buffer' \in Seq(Waiting1) /\ cache' \in CachedPages \cup {NULL}
    BY <1>2, <2>1, <2>2, <2>6
  <2> QED
    BY <1>1, <1>3, <2>1, <2>3, <2>4, <2>7, <2>8, <2>9, <2>10, SavedStays, MountedFits
<1> QED
  BY <1>6, <1>7

LEMMA VaultStutters ==
  ASSUME VaultInv, UNCHANGED vars
  PROVE  VaultInv'
BY DEF vars, VaultInv, VaultTypes, PagesFit, CacheFits, FilesFit, SavedFits, ArchiveFits,
       KeysFit, SealFits, OneKey

\* The vault invariant holds in every state, whoever is careless.
THEOREM VaultInvariant ==
  Spec => []VaultInv
<1>1. Init => VaultInv
  BY VaultInit
<1>2. VaultInv /\ [Next]_vars => VaultInv'
  <2> SUFFICES ASSUME VaultInv, [Next]_vars PROVE VaultInv'
    OBVIOUS
  <2>1. ASSUME NEW password \in Passwords \cup {NULL}, NEW encryptkey \in BOOLEAN,
               NEW readonly \in BOOLEAN, Mount(password, encryptkey, readonly)
        PROVE  VaultInv'
    BY <2>1, VaultMount
  <2>2. ASSUME NEW f \in Files, NEW c \in Contents, NEW small \in BOOLEAN, CloseFile(f, c, small)
        PROVE  VaultInv'
    BY <2>2, VaultCloseFile
  <2>3. ASSUME NEW f \in Files, ReadFile(f) PROVE VaultInv'
    BY <2>3, VaultReadFile
  <2>4. ASSUME NEW password \in Passwords \cup {""}, HandleCommandPassword(password) PROVE VaultInv'
    BY <2>4, VaultPassword
  <2>5. CASE Unmount
    BY <2>5, VaultUnmount
  <2>6. CASE UNCHANGED vars
    BY <2>6, VaultStutters
  <2> QED
    BY <2>1, <2>2, <2>3, <2>4, <2>5, <2>6 DEF Next
<1> QED
  BY <1>1, <1>2, PTL DEF Spec

\* Only file encryption meets pages that cannot be read: under a key of its own
\* every protected page of an archive has that key (Cookfs_PageAddRaw).
THEOREM OneKeyProtectsAll ==
  Spec => []OneKey
<1>1. VaultInv => OneKey
  BY DEF VaultInv
<1> QED
  BY <1>1, VaultInvariant, PTL

-----------------------------------------------------------------------------
(* What protects a page.                                                   *)

\* The salt and the key by which LockOf tells what protects a page
SaltOf == IF pages # NULL THEN pages.passwordSalt
          ELSE IF disk # NULL THEN disk.salt ELSE NULL

KeyOf == IF pages # NULL /\ pages.isKeyDecrypted THEN pages.encryptionKey
         ELSE IF disk # NULL /\ disk.encryptedKey # NULL THEN disk.encryptedKey.key ELSE NULL

\* What a key protects an archive by that has this salt and key
Lock(k, salt, sealed) ==
  IF k = NULL THEN "none"
  ELSE IF k = sealed THEN "key"
  ELSE IF k.password # NULL /\ k.salt = salt THEN k.password ELSE "lost"

LEMMA LockOfIs ==
  ASSUME NEW page
  PROVE  LockOf(page) = Lock(page.stored.key, SaltOf, KeyOf)
BY DEF LockOf, Lock, SaltOf, KeyOf

LEMMA LockOfIsPrimed ==
  ASSUME NEW page
  PROVE  LockOf(page)' = Lock(page.stored.key, SaltOf', KeyOf')
BY DEF LockOf, Lock, SaltOf, KeyOf

\* A page that is not encrypted is under no key.
LEMMA PlainPage ==
  ASSUME NEW list, AsWritten(list), NEW i \in DOMAIN list
  PROVE  IF list[i].encryption THEN list[i].stored.key \in Keys ELSE list[i].stored.key = NULL
<1>1. IF list[i].encryption THEN list[i].stored.key \in Keys /\ list[i].stored.bytes = Padded(list[i].hash)
      ELSE list[i].stored = [bytes |-> list[i].hash, key |-> NULL]
  BY DEF AsWritten
<1>2. ASSUME ~list[i].encryption PROVE list[i].stored.key = NULL
  <2>1. list[i].stored = [bytes |-> list[i].hash, key |-> NULL]
    BY <1>1, <1>2
  <2> QED
    BY <2>1
<1> QED
  BY <1>1, <1>2

\* Of the keys in Keys one alone is locked by what is in force: that with which
\* a page would be written now.
LEMMA InForceIsOne ==
  ASSUME VaultInv, pages # NULL, NEW k \in Keys
  PROVE  /\ Lock(k, SaltOf, KeyOf) # "none"
         /\ Lock(k, SaltOf, KeyOf) = InForce <=> pages.isEncryptionActive /\ k = pages.encryptionKey
<1>1. /\ pages \in PagesObjects /\ KeysOf(pages) /\ SealOf(disk, pages)
      /\ k # NULL /\ k.password \in Passwords \cup {NULL}
  BY ReadyToPurge, NullIsNone DEF VaultInv, KeysFit, SealFits, Keys
<1>2. Passwords \cap {"", "none", "key", "lost"} = {} /\ NULL \notin Passwords
  BY EncryptionAssumption
<1>3. Lock(k, SaltOf, KeyOf) = IF k = KeyOf THEN "key"
                               ELSE IF k.password # NULL /\ k.salt = SaltOf THEN k.password ELSE "lost"
  BY <1>1 DEF Lock
<1>4. Lock(k, SaltOf, KeyOf) # "none"
  BY <1>1, <1>2, <1>3
<1>5. CASE ~pages.isEncryptionActive
  <2>1. InForce = "none"
    BY <1>5 DEF InForce
  <2> QED
    BY <1>4, <1>5, <2>1
<1>6. CASE pages.isEncryptionActive /\ IsEncryptkey(pages)
  <2>1. InForce = "key"
    BY <1>6 DEF InForce
  <2>2. KeyOf = pages.encryptionKey
    BY <1>1, <1>6 DEF KeyOf, KeysOf
  <2>3. Lock(k, SaltOf, KeyOf) = "key" <=> k = KeyOf
    BY <1>1, <1>2, <1>3
  <2> QED
    BY <1>4, <1>6, <2>1, <2>2, <2>3
<1>7. CASE pages.isEncryptionActive /\ ~IsEncryptkey(pages)
  <2>1. InForce = pages.encryptionKey.password
    BY <1>7 DEF InForce
  <2>2. /\ pages.encryptionKey # NULL /\ pages.encryptionKey.password \in Passwords
        /\ pages.encryptionKey.salt = pages.passwordSalt /\ ~pages.isKeyDecrypted
    BY <1>1, <1>7 DEF KeysOf
  <2>3. pages.encryptionKey \in Keys
    BY <1>1, <2>2 DEF PagesObjects
  <2>4. SaltOf = pages.passwordSalt
    BY DEF SaltOf
  <2>5. KeyOf = NULL
    <3>1. disk # NULL => disk.encryption \in {"none", "file"}
      BY <1>1, <1>7 DEF SealOf, IsEncryptkey, VaultInv, VaultTypes, Archives, Modes
    <3>2. disk # NULL => disk.encryptedKey = NULL
      BY <3>1 DEF VaultInv, ArchiveFits
    <3> QED
      BY <2>2, <3>2 DEF KeyOf
  <2>6. k = pages.encryptionKey <=>
          k.password = pages.encryptionKey.password /\ k.salt = pages.encryptionKey.salt
    BY <2>3 DEF Keys
  <2>7. Lock(k, SaltOf, KeyOf) = InForce <=> k = pages.encryptionKey
    BY <1>1, <1>2, <1>3, <2>1, <2>2, <2>4, <2>5, <2>6
  <2> QED
    BY <1>4, <1>7, <2>7
<1> QED
  BY <1>5, <1>6, <1>7

LEMMA VaultReads ==
  VaultInv => ReadsRightOrRefuses
<1> SUFFICES ASSUME VaultInv, NEW f \in Files, pages # NULL, index[f] \notin {NULL, PENDING}
             PROVE  LET page == pages.list[index[f]]
                        got == PageGet(pages, cache, index[f])
                    IN  IF LockOf(page) \in {"none", InForce}
                        THEN got = page.hash
                        ELSE got = NULL \/ (cache # NULL /\ cache.page = index[f] /\ got = page.hash)
  BY DEF ReadsRightOrRefuses
<1> DEFINE i == index[f]
           g == pages.list[i]
           k == g.stored.key
           got == PageGet(pages, cache, i)
<1>1. /\ pages.list \in Seq(StoredPages) /\ AsWritten(pages.list) /\ HeldFits(cache, pages.list)
      /\ i \in DOMAIN pages.list /\ DOMAIN pages.list = 1 .. Len(pages.list)
  BY ReadyToPurge DEF VaultInv, FilesFit
<1>2. LockOf(g) = Lock(k, SaltOf, KeyOf)
  BY LockOfIs
<1>3. IF g.encryption THEN k \in Keys ELSE k = NULL
  BY <1>1, PlainPage
<1>4. CASE cache # NULL /\ cache.page = i
  <2>1. got = g.hash
    BY <1>1, <1>4 DEF PageGet, HeldFits
  <2> QED
    BY <1>4, <2>1
<1>5. CASE ~(cache # NULL /\ cache.page = i)
  <2>1. got = IF g.encryption /\ (~pages.isEncryptionActive \/ k # pages.encryptionKey)
              THEN NULL ELSE g.hash
    BY <1>1, <1>5, ReadPageIs DEF PageGet
  <2>2. CASE ~g.encryption
    <3>1. LockOf(g) = "none" /\ got = g.hash
      BY <1>2, <1>3, <2>1, <2>2 DEF Lock
    <3> QED
      BY <3>1
  <2>3. CASE g.encryption
    <3>1. /\ LockOf(g) # "none"
          /\ LockOf(g) = InForce <=> pages.isEncryptionActive /\ k = pages.encryptionKey
      BY <1>2, <1>3, <2>3, InForceIsOne
    <3> HIDE DEF g, k, got, i
    <3>2. IF LockOf(g) \in {"none", InForce} THEN got = g.hash ELSE got = NULL
      BY <2>1, <2>3, <3>1
    <3> QED
      BY <3>2 DEF g, got, i
  <2> QED
    BY <2>2, <2>3
<1> QED
  BY <1>4, <1>5

\* A file is read right or refused: whatever was done with passwords, keys,
\* pages and files that wait, no bytes are given that are not its own, and its
\* own are given to whoever has what protects it (Cookfs_ReadPage,
\* Cookfs_AesDecrypt, Cookfs_PageObjRemovePadding).
THEOREM NobodyReadsOthers ==
  Spec => []ReadsRightOrRefuses
BY VaultReads, VaultInvariant, PTL

-----------------------------------------------------------------------------
(* With callers that take care.                                            *)

LEMMA CarefulInit ==
  ASSUME Init
  PROVE  CarefulInv
BY DEF Init, CarefulInv, PlainFits, BufferUnshared

\* A pages object nobody gave a password for writes plain pages.
LEMMA PlainGrows ==
  ASSUME NEW p \in PagesObjects, NEW q, Grows(p, q), KeysOf(p), ~p.isPasswordSet, Plain(p.list)
  PROVE  Plain(q.list)
<1>1. q \in PagesObjects
  BY DEF Grows
<1>2. p.list \in Seq(StoredPages) /\ q.list \in Seq(StoredPages)
  BY <1>1 DEF PagesObjects
<1>3. /\ DOMAIN p.list = 1 .. Len(p.list) /\ DOMAIN q.list = 1 .. Len(q.list)
      /\ Len(p.list) \in Nat /\ Len(q.list) \in Nat
  BY <1>2, LenProperties
<1>4. ~p.isEncryptionActive
  BY DEF KeysOf
<1>5. ASSUME NEW i \in 1 .. Len(q.list) PROVE ~q.list[i].encryption
  <2>1. CASE i \in 1 .. Len(p.list)
    BY <1>3, <2>1 DEF Grows, Plain
  <2>2. CASE i \in Len(p.list) + 1 .. Len(q.list)
    <3>1. InForceIn(p, q.list[i])
      BY <2>2 DEF Grows
    <3>2. q.list[i].encryption = p.isEncryptionActive
      BY <3>1 DEF InForceIn
    <3> QED
      BY <1>4, <3>2
  <2> QED
    BY <1>3, <2>1, <2>2
<1> QED
  BY <1>3, <1>5 DEF Plain

LEMMA CarefulMount ==
  ASSUME VaultInv, CarefulInv, NEW password \in Passwords \cup {NULL}, NEW encryptkey \in BOOLEAN,
         NEW readonly \in BOOLEAN, Mount(password, encryptkey, readonly)
  PROVE  CarefulInv'
<1>1. pages = NULL /\ cache' = NULL /\ disk' = disk /\ buffer' = buffer
  BY DEF Mount
<1>2. pages'.list = IF disk = NULL THEN <<>> ELSE disk.list
  BY MountedIs
<1>3. Plain(<<>>)
  BY DEF Plain
<1>4. PlainFits'
  BY <1>1, <1>2, <1>3 DEF CarefulInv, PlainFits
<1>5. BufferUnshared'
  BY <1>1 DEF BufferUnshared, Unshared
<1> QED
  BY <1>4, <1>5 DEF CarefulInv

LEMMA CarefulReadFile ==
  ASSUME VaultInv, CarefulInv, NEW f \in Files, ReadFile(f)
  PROVE  CarefulInv'
<1>1. pages' = pages /\ disk' = disk /\ buffer' = buffer
  BY DEF ReadFile
<1>2. \/ cache' = cache
      \/ pages.list[cache'.page].encryption => pages.list[cache'.page].stored.key = pages.encryptionKey
  BY ReadFileIs
<1>3. PlainFits'
  BY <1>1 DEF CarefulInv, PlainFits
<1>4. BufferUnshared'
  BY <1>1, <1>2 DEF CarefulInv, BufferUnshared, Unshared
<1> QED
  BY <1>3, <1>4 DEF CarefulInv

LEMMA CarefulPassword ==
  ASSUME VaultInv, CarefulInv, NEW password \in Passwords \cup {""}, HandleCommandPassword(password)
  PROVE  CarefulInv'
<1> DEFINE q == Purged.pages
<1>1. pages # NULL /\ pages' = Given(password) /\ buffer' = <<>> /\ disk' = disk
  BY DEF HandleCommandPassword, Given, Purged
<1>2. /\ q \in PagesObjects /\ Grows(pages, q) /\ SameKeys(pages, q)
      /\ pages'.list = q.list /\ (q.isPasswordSet => pages'.isPasswordSet)
  BY <1>1, PurgedFits, GivenIs
<1> HIDE DEF q
<1>3. pages \in PagesObjects /\ KeysOf(pages)
  BY <1>1, ReadyToPurge DEF VaultInv, KeysFit
<1>4. PlainFits'
  <2>1. ASSUME ~pages'.isPasswordSet, disk = NULL \/ disk.encryption = "none" PROVE Plain(pages'.list)
    <3>1. ~pages.isPasswordSet
      BY <1>2, <2>1 DEF SameKeys
    <3>2. Plain(pages.list)
      BY <1>1, <2>1, <3>1 DEF CarefulInv, PlainFits
    <3> QED
      BY <1>2, <1>3, <3>1, <3>2, PlainGrows
  <2> QED
    BY <1>1, <2>1 DEF CarefulInv, PlainFits
<1>5. BufferUnshared'
  BY <1>1, EmptyBuffer DEF BufferUnshared
<1> QED
  BY <1>4, <1>5 DEF CarefulInv

\* Nobody changes and saves an archive with protected pages without a password.
LEMMA UnmountIsCareful ==
  ASSUME VaultInv, CarefulInv, Careless = {}, Unmount, ~Purged.pages.pagesUptodate \/ Purged.pages.indexChanged,
         ~pages.isPasswordSet
  PROVE  Plain(pages.list) /\ Plain(Purged.pages.list)
<1>1. pages # NULL /\ "unset" \notin Careless
  BY DEF Unmount
<1>2. Plain(pages.list)
  BY <1>1 DEF Unmount, Plain, Purged
<1>3. pages \in PagesObjects /\ KeysOf(pages) /\ Grows(pages, Purged.pages)
  BY <1>1, ReadyToPurge, PurgedFits DEF VaultInv, KeysFit
<1> QED
  BY <1>2, <1>3, PlainGrows

LEMMA CarefulUnmount ==
  ASSUME VaultInv, CarefulInv, Careless = {}, Unmount
  PROVE  CarefulInv'
<1> DEFINE q == Purged.pages
           changed == ~q.pagesUptodate \/ q.indexChanged
<1>1. /\ pages # NULL /\ pages' = NULL /\ cache' = NULL /\ buffer' = <<>>
      /\ disk' = IF changed THEN SavedSuffix(q) ELSE disk
  BY DEF Unmount, Purged
<1>2. SameKeys(pages, q) /\ KeysOf(q)
  BY <1>1, PurgedFits
<1>3. changed /\ ~pages.isPasswordSet => Plain(q.list)
  BY UnmountIsCareful
<1> HIDE DEF q
<1>4. PlainFits'
  <2>1. CASE ~changed
    BY <1>1, <2>1 DEF CarefulInv, PlainFits
  <2>2. CASE changed
    <3>1. disk'.list = q.list /\ disk'.encryption = SavedEncryption(q)
      BY <1>1, <2>2 DEF SavedSuffix
    <3>2. disk'.encryption = "none" => ~pages.isPasswordSet
      BY <1>2, <3>1 DEF SavedEncryption, SameKeys, KeysOf
    <3> QED
      BY <1>1, <1>3, <2>2, <3>1, <3>2 DEF PlainFits
  <2> QED
    BY <2>1, <2>2
<1>5. BufferUnshared'
  BY <1>1, EmptyBuffer DEF BufferUnshared
<1> QED
  BY <1>4, <1>5 DEF CarefulInv

\* Nobody stores what the cache holds under another key.
LEMMA CloseFileIsCareful ==
  ASSUME Careless = {}, NEW f, NEW c, NEW small, CloseFile(f, c, small)
  PROVE  Unshared(pages.list, cache, pages.encryptionKey, c)
BY DEF CloseFile, Unshared

LEMMA CarefulCloseFile ==
  ASSUME VaultInv, CarefulInv, Careless = {},
         NEW f \in Files, NEW c \in Contents, NEW small \in BOOLEAN, CloseFile(f, c, small)
  PROVE  CarefulInv'
<1> DEFINE w == WaitingWithout(f)
           r == Added(c)
           key == pages.encryptionKey
<1>1. pages # NULL /\ disk' = disk
  BY DEF CloseFile
<1>2. /\ w \in Seq(Waiting1) /\ Len(w) \in Nat /\ DOMAIN w = 1 .. Len(w)
      /\ \A j \in DOMAIN w : \E k \in DOMAIN buffer : w[j] = buffer[k]
  BY WaitingIs
<1>3. Unshared(pages.list, cache, key, c)
  BY CloseFileIsCareful
<1>4. \A j \in DOMAIN w : Unshared(pages.list, cache, key, w[j].content)
  BY <1>2 DEF CarefulInv, BufferUnshared
<1>5. pages \in PagesObjects /\ KeysOf(pages) /\ SealOf(disk, pages) /\ OwnKey(pages)
  BY <1>1, ReadyToPurge DEF VaultInv, KeysFit, SealFits, OneKey
<1>6. CASE small
  <2> DEFINE b == [file |-> f, content |-> c]
             g == [pages EXCEPT !.indexChanged = TRUE]
  <2>1. buffer' = Append(w, b) /\ pages' = g /\ cache' = cache
    BY <1>6 DEF CloseFile, WaitingWithout
  <2>2. b \in Waiting1 /\ b.content = c
    BY DEF Waiting1
  <2>3. g.list = pages.list /\ SameKeys(pages, g)
    BY <1>5, ChangedIs
  <2> HIDE DEF w, b, g
  <2>4. /\ DOMAIN buffer' = 1 .. Len(w) + 1
        /\ \A j \in 1 .. Len(w) : buffer'[j] = w[j]
        /\ buffer'[Len(w) + 1] = b
    BY <1>2, <2>1, <2>2, WaitsIs
  <2>5. pages'.list = pages.list /\ pages'.encryptionKey = key /\ pages'.isPasswordSet = pages.isPasswordSet
    BY <2>1, <2>3 DEF SameKeys
  <2>6. PlainFits'
    BY <1>1, <2>5 DEF CarefulInv, PlainFits
  <2>7. ASSUME NEW j \in DOMAIN buffer'
        PROVE  Unshared(pages'.list, cache', pages'.encryptionKey, buffer'[j].content)
    <3>1. CASE j \in DOMAIN w
      BY <1>2, <1>4, <2>1, <2>4, <2>5, <3>1
    <3>2. CASE j = Len(w) + 1
      BY <1>3, <2>1, <2>2, <2>4, <2>5, <3>2
    <3> QED
      BY <1>2, <2>4, <3>1, <3>2
  <2> QED
    BY <2>6, <2>7 DEF CarefulInv, BufferUnshared
<1>7. CASE ~small
  <2> DEFINE q == r.pages
             g == [q EXCEPT !.indexChanged = TRUE]
  <2>1. buffer' = w /\ pages' = g /\ cache' = r.cache
    BY <1>7 DEF CloseFile, WaitingWithout, Added
  <2>2. /\ q \in PagesObjects /\ Grows(pages, q) /\ SameKeys(pages, q)
        /\ KeysOf(q) /\ SealOf(disk, q) /\ OwnKey(q)
        /\ HeldAfter(pages, cache, r.cache, q.list)
    BY <1>1, <1>3, AddedIs
  <2>3. g.list = q.list /\ SameKeys(q, g)
    <3> HIDE DEF q
    <3> QED
      BY <2>2, ChangedIs
  <2> HIDE DEF w, r, q, g
  <2>4. pages'.list = q.list /\ pages'.encryptionKey = key /\ pages'.isPasswordSet = pages.isPasswordSet
    BY <2>1, <2>2, <2>3 DEF SameKeys
  <2>5. PlainFits'
    BY <1>1, <1>5, <2>2, <2>4, PlainGrows DEF CarefulInv, PlainFits
  <2>6. ASSUME NEW j \in DOMAIN w PROVE Unshared(q.list, r.cache, key, w[j].content)
    <3>1. CASE r.cache = cache
      <4>1. cache # NULL => q.list[cache.page] = pages.list[cache.page]
        BY <1>1, <2>2, PagesStay DEF VaultInv, CacheFits
      <4> QED
        BY <1>4, <3>1, <4>1 DEF Unshared
    <3>2. CASE InForceIn(pages, q.list[r.cache.page])
      BY <3>2 DEF Unshared, InForceIn
    <3> QED
      BY <2>2, <3>1, <3>2 DEF HeldAfter
  <2> QED
    BY <2>1, <2>4, <2>5, <2>6 DEF CarefulInv, BufferUnshared
<1> QED
  BY <1>6, <1>7

LEMMA CarefulStutters ==
  ASSUME CarefulInv, UNCHANGED vars
  PROVE  CarefulInv'
BY DEF vars, CarefulInv, PlainFits, BufferUnshared

\* Callers take care: nobody saves protected pages without a password, and
\* nobody stores content that the cache holds under another key.
LEMMA CarefulInvariant ==
  ASSUME Careless = {}
  PROVE  Spec => []CarefulInv
<1>1. Init => CarefulInv
  BY CarefulInit
<1>2. VaultInv /\ CarefulInv /\ [Next]_vars => CarefulInv'
  <2> SUFFICES ASSUME VaultInv, CarefulInv, [Next]_vars PROVE CarefulInv'
    OBVIOUS
  <2>1. ASSUME NEW password \in Passwords \cup {NULL}, NEW encryptkey \in BOOLEAN,
               NEW readonly \in BOOLEAN, Mount(password, encryptkey, readonly)
        PROVE  CarefulInv'
    BY <2>1, CarefulMount
  <2>2. ASSUME NEW f \in Files, NEW c \in Contents, NEW small \in BOOLEAN, CloseFile(f, c, small)
        PROVE  CarefulInv'
    BY <2>2, CarefulCloseFile
  <2>3. ASSUME NEW f \in Files, ReadFile(f) PROVE CarefulInv'
    BY <2>3, CarefulReadFile
  <2>4. ASSUME NEW password \in Passwords \cup {""}, HandleCommandPassword(password) PROVE CarefulInv'
    BY <2>4, CarefulPassword
  <2>5. CASE Unmount
    BY <2>5, CarefulUnmount
  <2>6. CASE UNCHANGED vars
    BY <2>6, CarefulStutters
  <2> QED
    BY <2>1, <2>2, <2>3, <2>4, <2>5, <2>6 DEF Next
<1> QED
  BY <1>1, <1>2, VaultInvariant, PTL DEF Spec

-----------------------------------------------------------------------------
(* What a file is, and what protects it.                                   *)

Current == (IF pages # NULL THEN pages ELSE disk).list

StoredAt(i, list, salt, sealed) ==
  [content |-> list[i].hash, by |-> Lock(list[i].stored.key, salt, sealed)]

LEMMA PageStored ==
  ASSUME NEW f \in Files, index[f] \notin {NULL, PENDING}
  PROVE  StoredFile(f) = StoredAt(index[f], Current, SaltOf, KeyOf)
BY DEF StoredFile, StoredAt, Current, LockOf, Lock, SaltOf, KeyOf

LEMMA PageStoredNext ==
  ASSUME NEW f \in Files, index'[f] \notin {NULL, PENDING}
  PROVE  StoredFile(f)' = StoredAt(index'[f], Current', SaltOf', KeyOf')
BY DEF StoredFile, StoredAt, Current, LockOf, Lock, SaltOf, KeyOf

LEMMA NothingStored ==
  ASSUME NEW f \in Files
  PROVE  /\ index[f] = NULL => StoredFile(f) = NULL
         /\ index'[f] = NULL => StoredFile(f)' = NULL
BY DEF StoredFile

LEMMA ChosenIs ==
  ASSUME NEW w, Distinctly(w), NEW k \in DOMAIN w
  PROVE  (CHOOSE b \in ToSet(w) : b.file = w[k].file) = w[k]
<1>1. ToSet(w) = {w[j] : j \in DOMAIN w}
  BY DEF ToSet
<1>2. \A b \in ToSet(w) : b.file = w[k].file => b = w[k]
  BY <1>1 DEF Distinctly
<1>3. w[k] \in ToSet(w)
  BY <1>1
<1> QED
  BY <1>2, <1>3

LEMMA WaitStored ==
  ASSUME VaultInv, NEW k \in DOMAIN buffer, NEW f \in Files, buffer[k].file = f
  PROVE  StoredFile(f) = [content |-> buffer[k].content, by |-> InForce]
<1>1. Distinctly(buffer) /\ index[f] = PENDING
  BY DEF VaultInv, FilesFit, Distinctly
<1>2. (CHOOSE b \in ToSet(buffer) : b.file = f) = buffer[k]
  BY <1>1, ChosenIs
<1>3. PENDING # NULL
  BY NullIsNone, 0 \in Nat DEF PENDING
<1> QED
  BY <1>1, <1>2, <1>3 DEF StoredFile

LEMMA WaitStoredNext ==
  ASSUME VaultInv', NEW k \in DOMAIN buffer', NEW f \in Files, buffer'[k].file = f
  PROVE  StoredFile(f)' = [content |-> buffer'[k].content, by |-> InForce']
<1>1. Distinctly(buffer') /\ index'[f] = PENDING
  BY DEF VaultInv, FilesFit, Distinctly
<1>2. (CHOOSE b \in ToSet(buffer') : b.file = f) = buffer'[k]
  BY <1>1, ChosenIs
<1>3. PENDING # NULL
  BY NullIsNone, 0 \in Nat DEF PENDING
<1> QED
  BY <1>1, <1>2, <1>3 DEF StoredFile

LEMMA PlainStored ==
  ASSUME NEW list, AsWritten(list), NEW i \in DOMAIN list, ~list[i].encryption,
         NEW salt, NEW sealed, NEW salt2, NEW sealed2
  PROVE  /\ StoredAt(i, list, salt, sealed) = StoredAt(i, list, salt2, sealed2)
         /\ StoredAt(i, list, salt, sealed).by = "none"
<1>1. list[i].stored.key = NULL
  BY PlainPage
<1> QED
  BY <1>1 DEF StoredAt, Lock

\* A page that would be written like this now is protected by what is in force.
LEMMA InForceLocks ==
  ASSUME VaultInv, pages # NULL, NEW list, AsWritten(list), NEW i \in DOMAIN list,
         InForceIn(pages, list[i])
  PROVE  Lock(list[i].stored.key, SaltOf, KeyOf) = InForce
<1>1. IF list[i].encryption THEN list[i].stored.key \in Keys ELSE list[i].stored.key = NULL
  BY PlainPage
<1>2. CASE list[i].encryption
  BY <1>1, <1>2, InForceIsOne DEF InForceIn
<1>3. CASE ~list[i].encryption
  <2>1. ~pages.isEncryptionActive
    BY <1>3 DEF InForceIn
  <2>2. InForce = "none"
    BY <2>1 DEF InForce
  <2> QED
    BY <1>1, <1>3, <2>2 DEF Lock
<1> QED
  BY <1>2, <1>3

\* The purge gives a file the page of what it was (Cookfs_WriterPurge).
LEMMA PurgedStored ==
  ASSUME VaultInv, CarefulInv, pages # NULL, NEW f \in Files
  PROVE  StoredFile(f) = IF Purged.index[f] = NULL THEN NULL
                         ELSE StoredAt(Purged.index[f], Purged.pages.list, SaltOf, KeyOf)
<1> DEFINE s == Purged
           list == s.pages.list
<1>1. /\ AsWritten(list) /\ Grows(pages, s.pages)
      /\ \A g \in Files : s.index[g] # NULL => s.index[g] \in DOMAIN list
      /\ \A g \in Files : index[g] # PENDING => s.index[g] = index[g]
      /\ PurgedTo(Len(buffer), s, pages, cache, index, buffer)
  BY PurgedFits
<1> HIDE DEF s
<1>2. buffer \in Seq(Waiting1) /\ Len(buffer) \in Nat /\ DOMAIN buffer = 1 .. Len(buffer)
  BY ReadyToPurge, LenProperties
<1>3. CASE index[f] = NULL
  <2>1. index[f] # PENDING
    BY <1>3, NullIsNone, 0 \in Nat DEF PENDING
  <2>2. s.index[f] = NULL
    BY <1>1, <1>3, <2>1
  <2> QED
    BY <1>3, <2>2, NothingStored DEF s
<1>4. CASE index[f] \notin {NULL, PENDING}
  <2>1. s.index[f] = index[f] /\ index[f] \in DOMAIN pages.list
    BY <1>1, <1>4 DEF VaultInv, FilesFit
  <2>2. list[index[f]] = pages.list[index[f]]
    BY <1>1, <2>1, PagesStay
  <2>3. StoredFile(f) = StoredAt(index[f], pages.list, SaltOf, KeyOf)
    BY <1>4, PageStored DEF Current
  <2>4. StoredAt(index[f], pages.list, SaltOf, KeyOf) = StoredAt(index[f], list, SaltOf, KeyOf)
    BY <2>2 DEF StoredAt
  <2> QED
    BY <1>4, <2>1, <2>3, <2>4 DEF s
<1>5. CASE index[f] = PENDING
  <2>1. PICK k \in DOMAIN buffer : buffer[k].file = f
    BY <1>5 DEF VaultInv, FilesFit
  <2>2. StoredFile(f) = [content |-> buffer[k].content, by |-> InForce]
    BY <2>1, WaitStored
  <2>3. \A i \in 1 .. Len(buffer) : Unshared(pages.list, cache, pages.encryptionKey, buffer[i].content)
    BY <1>2 DEF CarefulInv, BufferUnshared
  <2>4. /\ s.index[f] \in 1 .. Len(list) /\ list[s.index[f]].hash = buffer[k].content
        /\ InForceIn(pages, list[s.index[f]])
    BY <1>1, <1>2, <2>1, <2>3 DEF PurgedTo
  <2>5. s.index[f] \in Nat
    BY <2>4
  <2>6. s.index[f] # NULL /\ s.index[f] \in DOMAIN list
    BY <1>1, <2>5, NullIsNone
  <2> HIDE DEF list
  <2>7. Lock(list[s.index[f]].stored.key, SaltOf, KeyOf) = InForce
    BY <1>1, <2>4, <2>6, InForceLocks
  <2>8. StoredFile(f) = StoredAt(s.index[f], list, SaltOf, KeyOf)
    BY <2>2, <2>4, <2>7 DEF StoredAt
  <2> QED
    BY <2>6, <2>8 DEF s, list
<1> QED
  BY <1>3, <1>4, <1>5

-----------------------------------------------------------------------------
(* The vault that the archive implements.                                  *)

InForceAt == IF pages = NULL \/ pages.fileReadOnly THEN NULL ELSE InForce

ForceFits == InForceAt \in V!Locks \cup {NULL} /\ ArchiveKey.open \in BOOLEAN

\* What is in force is one of the locks.
LEMMA InForceFits ==
  VaultInv => /\ pages # NULL => InForce \in V!Locks
              /\ InForceAt \in V!Locks \cup {NULL}
              /\ ArchiveKey.open \in BOOLEAN
<1> SUFFICES ASSUME VaultInv
             PROVE  /\ pages # NULL => InForce \in V!Locks
                    /\ InForceAt \in V!Locks \cup {NULL}
                    /\ ArchiveKey.open \in BOOLEAN
  OBVIOUS
<1>1. ArchiveKey.open \in BOOLEAN
  BY DEF ArchiveKey
<1>2. ASSUME pages # NULL PROVE InForce \in V!Locks
  <2>1. KeysOf(pages)
    BY <1>2 DEF VaultInv, KeysFit
  <2>2. CASE pages.isEncryptionActive /\ ~IsEncryptkey(pages)
    <3>1. InForce = pages.encryptionKey.password /\ pages.encryptionKey.password \in Passwords
      BY <1>2, <2>1, <2>2 DEF InForce, KeysOf
    <3> QED
      BY <3>1 DEF V!Locks
  <2>3. CASE ~(pages.isEncryptionActive /\ ~IsEncryptkey(pages))
    <3>1. InForce = "none" \/ InForce = "key"
      BY <1>2, <2>3 DEF InForce
    <3> QED
      BY <3>1 DEF V!Locks
  <2> QED
    BY <2>2, <2>3
<1> QED
  BY <1>1, <1>2 DEF InForceAt

LEMMA InForceFitsNext ==
  VaultInv' => ForceFits'
<1>1. VaultInv => ForceFits
  BY InForceFits DEF ForceFits
<1> QED
  BY <1>1, PTL

\* Who has the archive changes, and no file.
LEMMA Turns ==
  ASSUME VaultInv', \A f \in Files : StoredFile(f)' = StoredFile(f),
         ArchiveKey'.password = ArchiveKey.password
  PROVE  V!Next
<1>1. InForceAt' \in V!Locks \cup {NULL} /\ ArchiveKey'.open \in BOOLEAN
  BY InForceFitsNext DEF ForceFits
<1>2. [f \in Files |-> StoredFile(f)]' = [f \in Files |-> StoredFile(f)]
  OBVIOUS
<1>3. ArchiveKey' = [ArchiveKey EXCEPT !.open = ArchiveKey'.open]
  BY DEF ArchiveKey
<1>4. V!Turn
  BY <1>1, <1>2, <1>3 DEF V!Turn, InForceAt
<1> QED
  BY <1>4 DEF V!Next

\* While it is mounted an archive has the salt and the key that were saved.
LEMMA SealKeeps ==
  ASSUME VaultInv, disk # NULL, disk.encryption # "none",
         NEW p \in PagesObjects, KeysOf(p), SealOf(disk, p)
  PROVE  /\ p.passwordSalt = disk.salt
         /\ p.isKeyDecrypted => disk.encryptedKey # NULL /\ p.encryptionKey = disk.encryptedKey.key
<1>1. p.passwordSalt = disk.salt /\ p.encryption = disk.encryption
  BY DEF SealOf
<1>2. ASSUME p.isKeyDecrypted PROVE disk.encryptedKey # NULL /\ p.encryptionKey = disk.encryptedKey.key
  <2>1. IsEncryptkey(p)
    BY <1>2 DEF KeysOf
  <2>2. disk.encryption \notin {"none", "file"}
    BY <1>1, <2>1 DEF IsEncryptkey
  <2>3. disk.encryptedKey # NULL
    BY <2>2 DEF VaultInv, ArchiveFits
  <2>4. p.encryptedKey # NULL /\ p.encryptedKey.key = disk.encryptedKey.key
    BY <2>1 DEF SealOf
  <2> QED
    BY <1>2, <2>1, <2>3, <2>4 DEF KeysOf
<1> QED
  BY <1>1, <1>2

LEMMA MountTurns ==
  ASSUME VaultInv, CarefulInv, NEW password \in Passwords \cup {NULL}, NEW encryptkey \in BOOLEAN,
         NEW readonly \in BOOLEAN, Mount(password, encryptkey, readonly)
  PROVE  V!Next
<1>1. pages = NULL /\ disk' = disk /\ index' = index /\ buffer = <<>>
  BY DEF Mount, VaultInv, FilesFit
<1>2. /\ pages' \in PagesObjects /\ KeysOf(pages') /\ SealOf(disk, pages')
      /\ pages'.list = (IF disk = NULL THEN <<>> ELSE disk.list) /\ pages' # NULL
  BY MountedIs, NullIsNone
<1>3. ASSUME NEW f \in Files PROVE StoredFile(f)' = StoredFile(f)
  <2>1. CASE index[f] = NULL
    BY <1>1, <2>1, NothingStored
  <2>2. CASE index[f] # NULL
    <3>1. index[f] # PENDING
      BY <1>1, EmptyBuffer DEF VaultInv, FilesFit
    <3>2. disk # NULL /\ index[f] \in DOMAIN disk.list
      BY <1>1, <2>2, <3>1 DEF VaultInv, FilesFit
    <3>3. Current = disk.list /\ Current' = disk.list
      BY <1>1, <1>2, <3>2 DEF Current
    <3>4. /\ StoredFile(f) = StoredAt(index[f], disk.list, SaltOf, KeyOf)
          /\ StoredFile(f)' = StoredAt(index[f], disk.list, SaltOf', KeyOf')
      BY <1>1, <2>2, <3>1, <3>3, PageStored, PageStoredNext
    <3>5. CASE disk.encryption = "none"
      <4>1. ~disk.list[index[f]].encryption /\ AsWritten(disk.list)
        BY <3>2, <3>5 DEF CarefulInv, PlainFits, Plain, VaultInv, PagesFit
      <4> QED
        BY <3>2, <3>4, <4>1, PlainStored
    <3>6. CASE disk.encryption # "none"
      <4>1. /\ pages'.passwordSalt = disk.salt
            /\ pages'.isKeyDecrypted =>
                 disk.encryptedKey # NULL /\ pages'.encryptionKey = disk.encryptedKey.key
        BY <1>2, <3>2, <3>6, SealKeeps
      <4>2. SaltOf' = SaltOf /\ KeyOf' = KeyOf
        BY <1>1, <1>2, <3>2, <4>1 DEF SaltOf, KeyOf
      <4> QED
        BY <3>4, <4>2
    <3> QED
      BY <3>5, <3>6
  <2> QED
    BY <2>1, <2>2
<1>4. ArchiveKey'.password = ArchiveKey.password
  BY <1>1 DEF ArchiveKey
<1>5. VaultInv'
  BY VaultMount
<1> QED
  BY <1>3, <1>4, <1>5, Turns

LEMMA PasswordTurns ==
  ASSUME VaultInv, CarefulInv, NEW password \in Passwords \cup {""}, HandleCommandPassword(password)
  PROVE  V!Next
<1> DEFINE s == Purged
           q == s.pages
<1>1. /\ pages # NULL /\ pages' = Given(password) /\ index' = s.index /\ disk' = disk
  BY DEF HandleCommandPassword, Given, Purged
<1>2. /\ SameKeys(pages, q) /\ KeysOf(q) /\ SealOf(disk, q)
      /\ \A f \in Files : s.index[f] # NULL => s.index[f] # PENDING
  BY <1>1, PurgedFits
<1>3. /\ pages' \in PagesObjects /\ pages' # NULL /\ pages'.list = q.list
      /\ pages'.passwordSalt = q.passwordSalt
      /\ q.isKeyDecrypted => pages'.isKeyDecrypted /\ pages'.encryptionKey = q.encryptionKey
      /\ ~q.isKeyDecrypted /\ pages'.isKeyDecrypted =>
           IsEncryptkey(q) /\ pages'.encryptionKey = q.encryptedKey.key
  BY <1>1, GivenIs, NullIsNone
<1> HIDE DEF s, q
<1>4. SaltOf' = SaltOf
  BY <1>1, <1>2, <1>3 DEF SaltOf, SameKeys
<1>5. KeyOf' = KeyOf
  <2>1. CASE q.isKeyDecrypted
    BY <1>1, <1>2, <1>3, <2>1 DEF KeyOf, SameKeys
  <2>2. CASE ~q.isKeyDecrypted /\ pages'.isKeyDecrypted
    <3>1. IsEncryptkey(q) /\ pages'.encryptionKey = q.encryptedKey.key
      BY <1>3, <2>2
    <3>2. disk # NULL /\ disk.encryption # "none"
      BY <1>2, <2>2, <3>1 DEF SealOf
    <3>3. q.encryptedKey.key = disk.encryptedKey.key /\ q.encryption = disk.encryption
      BY <1>2, <3>1, <3>2 DEF SealOf
    <3>4. disk.encryptedKey # NULL
      BY <3>1, <3>2, <3>3 DEF VaultInv, ArchiveFits, IsEncryptkey
    <3> QED
      BY <1>1, <1>2, <1>3, <2>2, <3>1, <3>2, <3>3, <3>4 DEF KeyOf, SameKeys
  <2>3. CASE ~q.isKeyDecrypted /\ ~pages'.isKeyDecrypted
    BY <1>1, <1>2, <1>3, <2>3 DEF KeyOf, SameKeys
  <2> QED
    BY <2>1, <2>2, <2>3
<1>6. ASSUME NEW f \in Files PROVE StoredFile(f)' = StoredFile(f)
  <2>1. StoredFile(f) = IF s.index[f] = NULL THEN NULL ELSE StoredAt(s.index[f], q.list, SaltOf, KeyOf)
    BY <1>1, PurgedStored DEF s, q
  <2>2. Current' = q.list
    BY <1>3 DEF Current
  <2>3. StoredFile(f)' = IF s.index[f] = NULL THEN NULL ELSE StoredAt(s.index[f], q.list, SaltOf', KeyOf')
    BY <1>1, <1>2, <2>2, NothingStored, PageStoredNext
  <2> QED
    BY <1>4, <1>5, <2>1, <2>3
<1>7. ArchiveKey'.password = ArchiveKey.password
  BY <1>1 DEF ArchiveKey
<1>8. VaultInv'
  BY VaultPassword
<1> QED
  BY <1>6, <1>7, <1>8, Turns

LEMMA UnmountTurns ==
  ASSUME VaultInv, CarefulInv, Careless = {}, Unmount
  PROVE  V!Next
<1> DEFINE s == Purged
           q == s.pages
           changed == ~q.pagesUptodate \/ q.indexChanged
<1>1. /\ pages # NULL /\ pages' = NULL /\ index' = s.index
      /\ disk' = IF changed THEN SavedSuffix(q) ELSE disk
  BY DEF Unmount, Purged
<1>2. /\ SameKeys(pages, q) /\ KeysOf(q) /\ SealOf(disk, q) /\ q \in PagesObjects /\ AsWritten(q.list)
      /\ \A f \in Files : s.index[f] # NULL => s.index[f] # PENDING /\ s.index[f] \in DOMAIN q.list
      /\ Grows(pages, q) /\ q.indexChanged = pages.indexChanged
      /\ q.pagesUptodate /\ ~q.indexChanged => s.index = index /\ q.list = pages.list
  BY <1>1, PurgedFits
<1>3. changed /\ ~pages.isPasswordSet => Plain(q.list)
  BY UnmountIsCareful
<1>4. VaultInv'
  BY VaultUnmount
<1>5. ASSUME NEW f \in Files
      PROVE  StoredFile(f) = IF s.index[f] = NULL THEN NULL
                             ELSE StoredAt(s.index[f], q.list, SaltOf, KeyOf)
  BY <1>1, PurgedStored
<1> HIDE DEF s, q
<1>6. ASSUME NEW f \in Files, disk' # NULL => disk'.list = q.list, s.index[f] # NULL => disk' # NULL
      PROVE  StoredFile(f)' = IF s.index[f] = NULL THEN NULL
                              ELSE StoredAt(s.index[f], q.list, SaltOf', KeyOf')
  <2>1. s.index[f] # NULL => Current' = q.list
    BY <1>1, <1>6 DEF Current
  <2> QED
    BY <1>1, <1>2, <2>1, NothingStored, PageStoredNext
<1>7. pages.passwordSalt = q.passwordSalt /\ SaltOf = q.passwordSalt
      /\ KeyOf = IF q.isKeyDecrypted THEN q.encryptionKey
                 ELSE IF disk # NULL /\ disk.encryptedKey # NULL THEN disk.encryptedKey.key ELSE NULL
  BY <1>1, <1>2 DEF SaltOf, KeyOf, SameKeys
<1>8. CASE ~changed
  <2>1. disk' = disk /\ s.index = index /\ q.list = pages.list /\ pages.pagesUptodate /\ ~pages.indexChanged
    BY <1>1, <1>2, <1>8 DEF Grows
  <2>2. IF disk = NULL THEN \A f \in Files : index[f] = NULL ELSE q.list = disk.list
    BY <1>1, <2>1 DEF VaultInv, SavedFits
  <2>3. ASSUME NEW f \in Files PROVE StoredFile(f)' = StoredFile(f)
    <3>1. StoredFile(f)' = IF s.index[f] = NULL THEN NULL
                           ELSE StoredAt(s.index[f], q.list, SaltOf', KeyOf')
      BY <1>6, <2>1, <2>2
    <3>2. CASE s.index[f] = NULL
      BY <1>5, <3>1, <3>2
    <3>3. CASE s.index[f] # NULL /\ disk.encryption = "none"
      <4>1. disk # NULL
        BY <2>1, <2>2, <3>3
      <4>2. ~q.list[s.index[f]].encryption
        BY <1>2, <2>2, <3>3, <4>1 DEF CarefulInv, PlainFits, Plain
      <4> QED
        BY <1>2, <1>5, <3>1, <3>3, <4>2, PlainStored
    <3>4. CASE s.index[f] # NULL /\ disk.encryption # "none"
      <4>1. disk # NULL
        BY <2>1, <2>2, <3>4
      <4>2. /\ q.passwordSalt = disk.salt
            /\ q.isKeyDecrypted => disk.encryptedKey # NULL /\ q.encryptionKey = disk.encryptedKey.key
        BY <1>2, <3>4, <4>1, SealKeeps
      <4>3. SaltOf' = SaltOf /\ KeyOf' = KeyOf
        BY <1>1, <1>7, <2>1, <4>1, <4>2 DEF SaltOf, KeyOf
      <4> QED
        BY <1>5, <3>1, <3>4, <4>3
    <3> QED
      BY <3>2, <3>3, <3>4
  <2>4. ArchiveKey'.password = ArchiveKey.password
    BY <2>1 DEF ArchiveKey
  <2> QED
    BY <1>4, <2>3, <2>4, Turns
<1>9. CASE changed
  <2>1. disk' = SavedSuffix(q)
    BY <1>1, <1>9
  <2>2. disk' # NULL
    <3>1. disk' \in Archives
      <4>1. /\ q.encryption \in Modes /\ q.list \in Seq(StoredPages) /\ q.passwordSalt \in Nat
            /\ q.encryptedKey \in SealedKeys \cup {NULL}
        BY <1>2 DEF PagesObjects
      <4>2. SavedEncryption(q) \in Modes
        BY <4>1 DEF SavedEncryption, Modes
      <4> QED
        BY <2>1, <4>1, <4>2 DEF SavedSuffix, Archives
    <3> QED
      BY <3>1, NullIsNone
  <2>3. /\ disk'.encryption = SavedEncryption(q) /\ disk'.list = q.list
        /\ disk'.salt = IF SavedEncryption(q) = "none" THEN NULL ELSE q.passwordSalt
        /\ disk'.encryptedKey = IF SavedEncryption(q) \in {"none", "file"} THEN NULL ELSE q.encryptedKey
    BY <2>1 DEF SavedSuffix
  <2>4. ASSUME NEW f \in Files
        PROVE  StoredFile(f)' = IF s.index[f] = NULL THEN NULL
                                ELSE StoredAt(s.index[f], q.list, SaltOf', KeyOf')
    BY <1>6, <2>2, <2>3
  <2>5. SaltOf' = disk'.salt /\ KeyOf' = IF disk'.encryptedKey # NULL THEN disk'.encryptedKey.key ELSE NULL
    BY <1>1, <2>2 DEF SaltOf, KeyOf
  <2>6. /\ InForceAt' = NULL
        /\ ArchiveKey' = [password |-> IF disk'.encryptedKey = NULL THEN NULL
                                       ELSE disk'.encryptedKey.by.password, open |-> FALSE]
    BY <1>1, <2>2 DEF InForceAt, ArchiveKey
  <2>7. CASE ~q.isPasswordSet
    <3>1. Plain(q.list) /\ SavedEncryption(q) = "none"
      BY <1>2, <1>3, <1>9, <2>7 DEF SameKeys, SavedEncryption
    <3>2. ASSUME NEW f \in Files
          PROVE  StoredFile(f)' = StoredFile(f) /\ (StoredFile(f) # NULL => StoredFile(f).by # "key")
      <4>1. CASE s.index[f] = NULL
        BY <1>5, <2>4, <4>1
      <4>2. CASE s.index[f] # NULL
        <5>1. s.index[f] \in DOMAIN q.list /\ ~q.list[s.index[f]].encryption
          BY <1>2, <3>1, <4>2 DEF Plain
        <5> QED
          BY <1>2, <1>5, <2>4, <4>2, <5>1, PlainStored
      <4> QED
        BY <4>1, <4>2
    <3>3. ArchiveKey' = [password |-> NULL, open |-> FALSE]
      BY <2>3, <2>6, <3>1
    <3>4. V!Forget
      <4>1. [f \in Files |-> StoredFile(f)]' = [f \in Files |-> StoredFile(f)]
        BY <3>2
      <4>2. \A f \in Files : [g \in Files |-> StoredFile(g)][f] # NULL =>
                               [g \in Files |-> StoredFile(g)][f].by # "key"
        BY <3>2
      <4> QED
        BY <2>6, <3>3, <4>1, <4>2 DEF V!Forget, InForceAt
    <3> QED
      BY <3>4 DEF V!Next
  <2>8. CASE q.isPasswordSet
    <3>1. SavedEncryption(q) = q.encryption /\ q.encryption # "none" /\ q.encryption \in Modes
      BY <1>2, <2>8 DEF SavedEncryption, KeysOf, PagesObjects
    <3>2. SaltOf' = SaltOf
      BY <1>7, <2>3, <2>5, <3>1
    <3>3. CASE ~IsEncryptkey(q)
      <4>1. disk'.encryptedKey = NULL /\ ~q.isKeyDecrypted
        BY <1>2, <2>3, <3>1, <3>3 DEF IsEncryptkey, Modes, KeysOf
      <4>2. disk # NULL => disk.encryptedKey = NULL
        <5>1. disk # NULL => disk.encryption \in {"none", "file"}
          BY <1>2, <3>3 DEF SealOf, IsEncryptkey, VaultInv, VaultTypes, Archives, Modes
        <5> QED
          BY <5>1 DEF VaultInv, ArchiveFits
      <4>3. KeyOf' = KeyOf
        BY <1>7, <2>5, <4>1, <4>2
      <4>4. \A f \in Files : StoredFile(f)' = StoredFile(f)
        BY <1>5, <2>4, <3>2, <4>3
      <4>5. ArchiveKey'.password = ArchiveKey.password
        BY <2>6, <4>1, <4>2 DEF ArchiveKey
      <4> QED
        BY <1>4, <4>4, <4>5, Turns
    <3>4. CASE IsEncryptkey(q)
      <4>1. /\ q.isKeyDecrypted /\ q.encryptedKey # NULL /\ q.encryptedKey.key = q.encryptionKey
            /\ q.encryptedKey.by.password \in Passwords
        BY <1>2, <2>8, <3>4 DEF KeysOf
      <4>2. disk'.encryptedKey = q.encryptedKey
        BY <2>3, <3>1, <3>4 DEF IsEncryptkey
      <4>3. KeyOf' = KeyOf
        BY <1>7, <2>5, <4>1, <4>2
      <4>4. \A f \in Files : StoredFile(f)' = StoredFile(f)
        BY <1>5, <2>4, <3>2, <4>3
      <4>5. ArchiveKey.open
        BY <1>1, <1>2, <4>1 DEF ArchiveKey, SameKeys
      <4>6. V!Reseal(q.encryptedKey.by.password)
        <5>1. [f \in Files |-> StoredFile(f)]' = [f \in Files |-> StoredFile(f)]
          BY <4>4
        <5> QED
          BY <2>6, <4>1, <4>2, <4>5, <5>1 DEF V!Reseal, InForceAt
      <4> QED
        BY <4>1, <4>6 DEF V!Next
    <3> QED
      BY <3>3, <3>4
  <2> QED
    BY <2>7, <2>8
<1> QED
  BY <1>8, <1>9

LEMMA SameKeysLock ==
  ASSUME pages # NULL, pages' # NULL, disk' = disk, SameKeys(pages, pages')
  PROVE  /\ SaltOf' = SaltOf /\ KeyOf' = KeyOf /\ InForce' = InForce
         /\ InForceAt' = InForceAt /\ ArchiveKey' = ArchiveKey
<1>1. InForce' = InForce
  BY DEF SameKeys, InForce, IsEncryptkey
<1>2. SaltOf' = SaltOf /\ KeyOf' = KeyOf
  BY DEF SameKeys, SaltOf, KeyOf
<1>3. InForceAt' = InForceAt
  BY <1>1 DEF SameKeys, InForceAt
<1>4. ArchiveKey' = ArchiveKey
  BY DEF SameKeys, ArchiveKey
<1> QED
  BY <1>1, <1>2, <1>3, <1>4

LEMMA Stores ==
  ASSUME NEW f \in Files, NEW c \in Contents, InForceAt \in V!Locks,
         \A h \in Files \ {f} : StoredFile(h)' = StoredFile(h),
         StoredFile(f)' = [content |-> c, by |-> InForceAt],
         InForceAt' = InForceAt, ArchiveKey' = ArchiveKey
  PROVE  V!Next
<1>1. [g \in Files |-> StoredFile(g)]' =
        [[g \in Files |-> StoredFile(g)] EXCEPT ![f] = [content |-> c, by |-> InForceAt]]
  OBVIOUS
<1>2. V!Store(f, c)
  BY <1>1 DEF V!Store, InForceAt
<1> QED
  BY <1>2 DEF V!Next

LEMMA CloseFileStores ==
  ASSUME VaultInv, CarefulInv, Careless = {},
         NEW f \in Files, NEW c \in Contents, NEW small \in BOOLEAN, CloseFile(f, c, small)
  PROVE  V!Next
<1> DEFINE w == WaitingWithout(f)
           r == Added(c)
<1>1. pages # NULL /\ disk' = disk /\ ~pages.fileReadOnly
  BY DEF CloseFile
<1>2. /\ w \in Seq(Waiting1) /\ Len(w) \in Nat /\ DOMAIN w = 1 .. Len(w)
      /\ \A j \in DOMAIN w : w[j].file # f
      /\ \A k \in DOMAIN buffer : buffer[k].file # f => \E j \in DOMAIN w : w[j] = buffer[k]
  BY WaitingIs
<1>3. Unshared(pages.list, cache, pages.encryptionKey, c)
  BY CloseFileIsCareful
<1>4. /\ pages \in PagesObjects /\ KeysOf(pages) /\ SealOf(disk, pages) /\ OwnKey(pages)
      /\ index \in [Files -> Nat \cup {NULL}] /\ AsWritten(pages.list)
  BY <1>1, ReadyToPurge DEF VaultInv, KeysFit, SealFits, OneKey
<1>5. VaultInv'
  BY VaultCloseFile
<1>6. InForceAt = InForce /\ InForceAt \in V!Locks
  BY <1>1, InForceFits DEF InForceAt
<1>7. NULL # PENDING
  BY NullIsNone, 0 \in Nat DEF PENDING
<1>8. \A h \in Files : index[h] \notin {NULL, PENDING} => index[h] \in DOMAIN pages.list
  BY <1>1 DEF VaultInv, FilesFit
\* Of the other files those that wait go on waiting, and no page changes.
<1>9. ASSUME SameKeys(pages, pages'), pages' # NULL, index'[f] \in Nat,
             \A h \in Files \ {f} : index'[h] = index[h],
             \A i \in DOMAIN pages.list : pages'.list[i] = pages.list[i],
             \A j \in DOMAIN w : \E k \in DOMAIN buffer' : buffer'[k] = w[j],
             NEW h \in Files \ {f}
      PROVE  StoredFile(h)' = StoredFile(h)
  <2>1. SaltOf' = SaltOf /\ KeyOf' = KeyOf /\ InForce' = InForce
    BY <1>1, <1>9, SameKeysLock
  <2>2. CASE index[h] = NULL
    BY <1>9, <2>2, NothingStored
  <2>3. CASE index[h] = PENDING
    <3>1. PICK k \in DOMAIN buffer : buffer[k].file = h
      BY <2>3 DEF VaultInv, FilesFit
    <3>2. PICK j \in DOMAIN w : w[j] = buffer[k]
      BY <1>2, <3>1
    <3>3. PICK l \in DOMAIN buffer' : buffer'[l] = w[j]
      BY <1>9
    <3>4. StoredFile(h) = [content |-> buffer[k].content, by |-> InForce]
      BY <3>1, WaitStored
    <3>5. StoredFile(h)' = [content |-> buffer'[l].content, by |-> InForce']
      <4>1. buffer'[l].file = h /\ h \in Files
        BY <3>1, <3>2, <3>3
      <4> QED
        BY <1>5, <4>1, WaitStoredNext
    <3> QED
      BY <2>1, <3>2, <3>3, <3>4, <3>5
  <2>4. CASE index[h] \notin {NULL, PENDING}
    <3>1. /\ StoredFile(h) = StoredAt(index[h], pages.list, SaltOf, KeyOf)
          /\ StoredFile(h)' = StoredAt(index[h], pages'.list, SaltOf', KeyOf')
      BY <1>1, <1>9, <2>4, PageStored, PageStoredNext DEF Current
    <3>2. pages'.list[index[h]] = pages.list[index[h]]
      BY <1>8, <1>9, <2>4
    <3> QED
      BY <2>1, <3>1, <3>2 DEF StoredAt
  <2> QED
    BY <2>2, <2>3, <2>4
<1>10. CASE small
  <2> DEFINE b == [file |-> f, content |-> c]
             g == [pages EXCEPT !.indexChanged = TRUE]
  <2>1. buffer' = Append(w, b) /\ pages' = g /\ index' = [index EXCEPT ![f] = PENDING]
    BY <1>10 DEF CloseFile, WaitingWithout
  <2>2. b \in Waiting1 /\ b.content = c /\ b.file = f
    BY DEF Waiting1
  <2>3. g.list = pages.list /\ SameKeys(pages, g) /\ g # NULL
    BY <1>4, ChangedIs, NullIsNone
  <2> HIDE DEF w, b, g
  <2>4. /\ DOMAIN buffer' = 1 .. Len(w) + 1
        /\ \A j \in 1 .. Len(w) : buffer'[j] = w[j]
        /\ buffer'[Len(w) + 1] = b
    BY <1>2, <2>1, <2>2, WaitsIs
  <2>5. Len(w) + 1 \in DOMAIN buffer' /\ \A j \in DOMAIN w : j \in DOMAIN buffer'
    BY <1>2, <2>4
  <2>6. SameKeys(pages, pages') /\ pages' # NULL /\ pages'.list = pages.list
    BY <2>1, <2>3
  <2>7. ASSUME NEW h \in Files \ {f} PROVE StoredFile(h)' = StoredFile(h)
    <3>1. index'[f] \in Nat /\ \A e \in Files \ {f} : index'[e] = index[e]
      BY <1>4, <2>1 DEF PENDING
    <3>2. \A j \in DOMAIN w : \E k \in DOMAIN buffer' : buffer'[k] = w[j]
      BY <1>2, <2>4, <2>5
    <3> QED
      BY <1>9, <2>6, <3>1, <3>2
  <2>8. SaltOf' = SaltOf /\ KeyOf' = KeyOf /\ InForce' = InForce
        /\ InForceAt' = InForceAt /\ ArchiveKey' = ArchiveKey
    BY <1>1, <2>6, SameKeysLock
  <2>9. StoredFile(f)' = [content |-> c, by |-> InForceAt]
    <3>1. StoredFile(f)' = [content |-> buffer'[Len(w) + 1].content, by |-> InForce']
      BY <1>5, <2>2, <2>4, <2>5, WaitStoredNext
    <3> QED
      BY <1>6, <2>2, <2>4, <2>8, <3>1
  <2> QED
    BY <1>6, <2>7, <2>8, <2>9, Stores
<1>11. CASE ~small
  <2> DEFINE q == r.pages
             g == [q EXCEPT !.indexChanged = TRUE]
  <2>1. buffer' = w /\ pages' = g /\ index' = [index EXCEPT ![f] = r.page]
    BY <1>11 DEF CloseFile, WaitingWithout, Added
  <2>2. /\ q \in PagesObjects /\ AsWritten(q.list) /\ Grows(pages, q) /\ SameKeys(pages, q)
        /\ KeysOf(q) /\ SealOf(disk, q) /\ OwnKey(q)
        /\ r.page \in DOMAIN q.list /\ r.page \in Nat \ {PENDING} /\ q.list[r.page].hash = c
        /\ InForceIn(pages, q.list[r.page])
    BY <1>1, <1>3, AddedIs
  <2>3. g.list = q.list /\ SameKeys(q, g) /\ g # NULL
    <3> HIDE DEF q
    <3> QED
      BY <2>2, ChangedIs, NullIsNone
  <2> HIDE DEF w, r, q, g
  <2>4. SameKeys(pages, pages') /\ pages' # NULL /\ pages'.list = q.list
    BY <2>1, <2>2, <2>3 DEF SameKeys
  <2>5. index'[f] = r.page /\ index'[f] \in Nat /\ index'[f] \notin {NULL, PENDING}
    BY <1>4, <2>1, <2>2, NullIsNone
  <2>6. ASSUME NEW h \in Files \ {f} PROVE StoredFile(h)' = StoredFile(h)
    <3>1. \A e \in Files \ {f} : index'[e] = index[e]
      BY <1>4, <2>1
    <3>2. \A j \in DOMAIN w : \E k \in DOMAIN buffer' : buffer'[k] = w[j]
      BY <2>1
    <3>3. \A i \in DOMAIN pages.list : pages'.list[i] = pages.list[i]
      BY <1>1, <2>2, <2>4, PagesStay
    <3> QED
      BY <1>9, <2>4, <2>5, <3>1, <3>2, <3>3
  <2>7. SaltOf' = SaltOf /\ KeyOf' = KeyOf /\ InForceAt' = InForceAt /\ ArchiveKey' = ArchiveKey
    BY <1>1, <2>4, SameKeysLock
  <2>8. StoredFile(f)' = [content |-> c, by |-> InForceAt]
    <3>1. StoredFile(f)' = StoredAt(r.page, q.list, SaltOf, KeyOf)
      BY <2>4, <2>5, <2>7, PageStoredNext DEF Current
    <3>2. Lock(q.list[r.page].stored.key, SaltOf, KeyOf) = InForce
      BY <1>1, <2>2, InForceLocks
    <3> QED
      BY <1>6, <2>2, <3>1, <3>2 DEF StoredAt
  <2> QED
    BY <1>6, <2>6, <2>7, <2>8, Stores
<1> QED
  BY <1>10, <1>11

\* Reading a file changes the cache only.
LEMMA ReadFileStutters ==
  ASSUME NEW f \in Files, ReadFile(f)
  PROVE  UNCHANGED V!absVars
BY DEF ReadFile, V!absVars, StoredFile, LockOf, InForce, IsEncryptkey, ArchiveKey

LEMMA VarsStutter ==
  ASSUME UNCHANGED vars
  PROVE  UNCHANGED V!absVars
BY DEF vars, V!absVars, StoredFile, LockOf, InForce, IsEncryptkey, ArchiveKey

\* Whatever is done with passwords, keys and pages, each file keeps its content
\* and what protects it, if callers take care: nobody saves protected pages
\* without a password, and nobody stores content that the cache holds under
\* another key (Cookfs_PagesSetPassword, CookfsReadIndex, Cookfs_PagesClose,
\* Cookfs_PageAddRaw, Cookfs_WriterPurge).
THEOREM EncryptionImplementsVault ==
  ASSUME Careless = {}
  PROVE  Spec => ImplementsVault
<1>1. Init => V!Init
  BY DEF Init, V!Init, StoredFile, ArchiveKey
<1>2. VaultInv /\ CarefulInv /\ [Next]_vars => [V!Next]_(V!absVars)
  <2> SUFFICES ASSUME VaultInv, CarefulInv, [Next]_vars PROVE [V!Next]_(V!absVars)
    OBVIOUS
  <2>1. ASSUME NEW password \in Passwords \cup {NULL}, NEW encryptkey \in BOOLEAN,
               NEW readonly \in BOOLEAN, Mount(password, encryptkey, readonly)
        PROVE  V!Next
    BY <2>1, MountTurns
  <2>2. ASSUME NEW f \in Files, NEW c \in Contents, NEW small \in BOOLEAN, CloseFile(f, c, small)
        PROVE  V!Next
    BY <2>2, CloseFileStores
  <2>3. ASSUME NEW f \in Files, ReadFile(f) PROVE UNCHANGED V!absVars
    BY <2>3, ReadFileStutters
  <2>4. ASSUME NEW password \in Passwords \cup {""}, HandleCommandPassword(password) PROVE V!Next
    BY <2>4, PasswordTurns
  <2>5. ASSUME Unmount PROVE V!Next
    BY <2>5, UnmountTurns
  <2>6. ASSUME UNCHANGED vars PROVE UNCHANGED V!absVars
    BY <2>6, VarsStutter
  <2>7. CASE Next
    BY <2>1, <2>2, <2>3, <2>4, <2>5, <2>7 DEF Next
  <2>8. CASE UNCHANGED vars
    BY <2>6, <2>8
  <2> QED
    BY <2>7, <2>8
<1> QED
  BY <1>1, <1>2, VaultInvariant, CarefulInvariant, PTL DEF Spec, ImplementsVault, V!Spec
=============================================================================
