------------------------------- MODULE RWMutex -------------------------------
(***************************************************************************)
(* src/generic/threads.c: the reader-writer mutex every pages, fsindex and *)
(* writer object is locked with.  Code between Tcl_MutexLock(&mx->mx) and  *)
(* the matching unlock, or a Tcl_ConditionWait, is one action.  numRWait   *)
(* and numWWait count the threads that have not come back from their wait, *)
(* notified ones included; they are read off "at".                         *)
(*                                                                         *)
(* The build modelled is the default one (NDEBUG): assert() has no effect. *)
(* What the asserts say is stated as properties.  No name is one of        *)
(* VfsRegistry or Encryption: Access_proofs extends all three.             *)
(***************************************************************************)
EXTENDS Integers, FiniteSets

CONSTANTS Lockers, Exclusives, Depth, NoThread

ASSUME RWMutexAssumption ==
  /\ IsFiniteSet(Lockers)
  /\ Exclusives \subseteq Lockers
  /\ Depth \in Nat \ {0}
  /\ NoThread \notin Lockers

VARIABLES
  numLocks,  \* > 0: read locks, -1: write locked, 0: free
  threadId,  \* the thread that locked exclusively, or NoThread
  at,        \* where each thread is in its call
  wantEx,    \* threads whose LockWrite is the one inside LockExclusive
  readers,   \* read locks granted and not given back: <<thread, nesting>>
  writers,   \* threads granted the write lock that did not give it back
  own        \* nested locks of the exclusive owner

mutexVars == <<numLocks, threadId, at, wantEx, readers, writers, own>>

-----------------------------------------------------------------------------
Waiting(where) == {t \in Lockers : at[t] = where}

\* numWWait, as far as Unlock looks at it
WritersWait == Waiting("condWrite") \cup Waiting("wokenWrite")

\* Tcl_ConditionNotify wakes every thread that waits on the condition.
Notified(asleep, woken) ==
  [t \in Lockers |-> IF at[t] = asleep THEN woken ELSE at[t]]

Nested(t) == {k \in 1 .. Depth : <<t, k>> \in readers}

MutexInit ==
  /\ numLocks = 0
  /\ threadId = NoThread
  /\ at = [t \in Lockers |-> "idle"]
  /\ wantEx = {}
  /\ readers = {}
  /\ writers = {}
  /\ own = [t \in Lockers |-> 0]

GoTo(t, where) == at' = [at EXCEPT ![t] = where]

-----------------------------------------------------------------------------
\* A call that finds threadId set to another thread returns 0 at once and
\* changes nothing, so it is no step of the model.

\* The body of the loop of Cookfs_RWMutexLockRead and what follows it.
ReadOrWait(t) ==
  \/ /\ numLocks < 0
     /\ GoTo(t, "condRead")
     /\ UNCHANGED <<numLocks, readers>>
  \/ /\ numLocks >= 0
     /\ numLocks' = numLocks + 1
     /\ \E k \in (1 .. Depth) \ Nested(t) : readers' = readers \cup {<<t, k>>}
     /\ GoTo(t, "idle")

\* A thread nests read locks (open holds one while it creates a channel) but
\* asks for none while it holds the write lock.
LockRead(t) ==
  /\ at[t] = "idle" /\ threadId = NoThread
  /\ t \notin writers /\ Nested(t) # 1 .. Depth
  /\ ReadOrWait(t)
  /\ UNCHANGED <<threadId, wantEx, writers, own>>

\* Mutant: the wait is over, so the lock is free.
LockReadWokenUnchecked(t) ==
  /\ at[t] = "wokenRead"
  /\ ReadOrWait(t)
  /\ UNCHANGED <<threadId, wantEx, writers, own>>

\* After the wait an exclusive lock makes the call return 0.
LockReadWoken(t) ==
  /\ at[t] = "wokenRead"
  /\ \/ /\ threadId # NoThread
        /\ GoTo(t, "idle")
        /\ UNCHANGED <<numLocks, readers>>
     \/ threadId = NoThread /\ ReadOrWait(t)
  /\ UNCHANGED <<threadId, wantEx, writers, own>>

\* Mutant: the writer waits for another writer only.
WriteBesideReaders(t, exclusive) ==
  \/ numLocks < 0 /\ GoTo(t, "condWrite") /\ UNCHANGED <<numLocks, writers>>
  \/ /\ numLocks >= 0
     /\ numLocks' = -1
     /\ writers' = writers \cup {t}
     /\ GoTo(t, IF exclusive THEN "setOwner" ELSE "idle")

\* The loop of Cookfs_RWMutexLockWrite; threadId is not looked at in it.
WriteOrWait(t, exclusive) ==
  \/ /\ numLocks # 0
     /\ GoTo(t, "condWrite")
     /\ UNCHANGED <<numLocks, writers>>
  \/ /\ numLocks = 0
     /\ numLocks' = -1
     /\ writers' = writers \cup {t}
     /\ GoTo(t, IF exclusive THEN "setOwner" ELSE "idle")

LockWrite(t, exclusive) ==
  /\ at[t] = "idle" /\ threadId = NoThread
  /\ t \notin writers /\ Nested(t) = {}
  /\ exclusive => t \in Exclusives
  /\ wantEx' = IF exclusive THEN wantEx \cup {t} ELSE wantEx
  /\ WriteOrWait(t, exclusive)
  /\ UNCHANGED <<threadId, readers, own>>

LockWriteWoken(t) ==
  /\ at[t] = "wokenWrite"
  /\ WriteOrWait(t, t \in wantEx)
  /\ UNCHANGED <<threadId, wantEx, readers, own>>

\* LockExclusive writes threadId after LockWrite has released mx->mx.
LockExclusiveOwn(t) ==
  /\ at[t] = "setOwner"
  /\ threadId' = t
  /\ own' = [own EXCEPT ![t] = 1]
  /\ writers' = writers \ {t}
  /\ wantEx' = wantEx \ {t}
  /\ GoTo(t, "idle")
  /\ UNCHANGED <<numLocks, readers>>

\* Any lock call of the owner succeeds and leaves the mutex as it is.
LockAsOwner(t) ==
  /\ at[t] = "idle" /\ threadId = t
  /\ own[t] < Depth
  /\ own' = [own EXCEPT ![t] = @ + 1]
  /\ UNCHANGED <<numLocks, threadId, at, wantEx, readers, writers>>

\* Mutant: readers are not woken.
UnlockWakesWriters ==
  /\ numLocks' = IF numLocks <= 0 THEN 0 ELSE numLocks - 1
  /\ at' = Notified("condWrite", "wokenWrite")
  /\ UNCHANGED <<threadId, wantEx>>

\* Cookfs_RWMutexUnlock's own effect: waiting writers are woken in
\* preference to waiting readers.
UnlockMutex ==
  /\ numLocks' = IF numLocks <= 0 THEN 0 ELSE numLocks - 1
  /\ at' = IF WritersWait # {} THEN Notified("condWrite", "wokenWrite")
                               ELSE Notified("condRead", "wokenRead")
  /\ UNCHANGED <<threadId, wantEx>>

UnlockRead(t) ==
  /\ at[t] = "idle"
  /\ \E k \in Nested(t) : readers' = readers \ {<<t, k>>}
  /\ UnlockMutex
  /\ UNCHANGED <<writers, own>>

UnlockWrite(t) ==
  /\ at[t] = "idle" /\ t \in writers
  /\ writers' = writers \ {t}
  /\ UnlockMutex
  /\ UNCHANGED <<readers, own>>

UnlockAsOwner(t) ==
  /\ at[t] = "idle" /\ own[t] > 0
  /\ own' = [own EXCEPT ![t] = @ - 1]
  /\ UnlockMutex
  /\ UNCHANGED <<readers, writers>>

\* A condition variable may wake a thread nobody notified.
SpuriousWakeup(t) ==
  /\ \/ at[t] = "condRead" /\ GoTo(t, "wokenRead")
     \/ at[t] = "condWrite" /\ GoTo(t, "wokenWrite")
  /\ UNCHANGED <<numLocks, threadId, wantEx, readers, writers, own>>

-----------------------------------------------------------------------------
NewLockCall(t) ==
  \/ LockRead(t)
  \/ \E exclusive \in BOOLEAN : LockWrite(t, exclusive)
  \/ LockAsOwner(t)

Resume(t) ==
  \/ LockReadWoken(t)
  \/ LockWriteWoken(t)
  \/ LockExclusiveOwn(t)

Unlock(t) ==
  \/ UnlockRead(t)
  \/ UnlockWrite(t)
  \/ UnlockAsOwner(t)

MutexNext == \E t \in Lockers : NewLockCall(t) \/ Resume(t) \/ Unlock(t) \/ SpuriousWakeup(t)

MutexSpec == MutexInit /\ [][MutexNext]_mutexVars

\* A thread that was notified runs again, and one that holds a lock comes to
\* the Unlock that follows in its code.  Nothing obliges a thread to make a
\* new call, and nothing is assumed of spurious wakeups.
FairMutexSpec == MutexSpec /\ \A t \in Lockers : WF_mutexVars(Resume(t)) /\ WF_mutexVars(Unlock(t))
-----------------------------------------------------------------------------
\* Properties

MutexTypeOK ==
  /\ numLocks \in Nat \cup {-1}
  /\ threadId \in Lockers \cup {NoThread}
  /\ at \in [Lockers -> {"idle", "condRead", "wokenRead",
                          "condWrite", "wokenWrite", "setOwner"}]
  /\ wantEx \subseteq Exclusives
  /\ readers \subseteq Lockers \X (1 .. Depth)
  /\ writers \subseteq Lockers
  /\ own \in [Lockers -> Nat]

\* Until somebody locks exclusively, the one counter numLocks tells exactly who
\* is inside: -1 is one writer and nobody else, n >= 0 are n read locks and no
\* writer (the comment and the assert of Cookfs_RWMutexUnlock rely on it).
LockAccounting ==
  threadId = NoThread =>
    \/ /\ numLocks = -1 /\ readers = {}
       /\ \E t \in Lockers : writers = {t}
    \/ numLocks = Cardinality(readers) /\ writers = {}

\* A free mutex never has a thread asleep that nobody will wake: Unlock wakes
\* writers or else readers, never both, so a reader may sleep only if a woken
\* writer is on its way, and its Unlock will be the one that wakes readers.
NoLostWakeup ==
  numLocks = 0 =>
    /\ Waiting("condWrite") = {}
    /\ Waiting("condRead") # {} => Waiting("wokenWrite") # {}

\* An exclusive lock ends all reading: none is in progress and none starts.
\* Cookfs_RWMutexLockRead checks threadId before and after its wait for this.
ExclusiveStopsReaders == threadId # NoThread => readers = {}

\* Nobody is stranded in a lock call: once no new calls are made, every thread
\* that waits for the mutex comes back, with the lock or with a refusal.
EveryLockReturns ==
  <>[][\A t \in Lockers : ~NewLockCall(t)]_mutexVars
    => \A t \in Lockers : []<>(at[t] = "idle")

\* The counter, the conditions and the wake-up rule implement the contract.
Contract == INSTANCE RWLock WITH
  Threads <- Lockers,
  NULL <- NoThread,
  queued <- Waiting("condWrite") \cup Waiting("wokenWrite"),
  owner <- threadId

ImplementsContract == Contract!Spec
=============================================================================
