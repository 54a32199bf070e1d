------------------------------- MODULE RWLock -------------------------------
(***************************************************************************)
(* What src/generic/threads.c promises its callers, without the counter    *)
(* and the condition variables: a reader-writer lock that one thread can   *)
(* turn into its own for good ("exclusive").  Once it has an owner, no     *)
(* call of another thread is granted, except to a thread that already      *)
(* waited for the write lock: Cookfs_RWMutexLockWrite does not look at     *)
(* threadId again after its wait.  Module RWMutex implements this one.     *)
(***************************************************************************)
EXTENDS Naturals, FiniteSets

CONSTANTS
  Threads,     \* the threads that share the object the lock protects
  Exclusives,  \* those that finalize it (they call LockExclusive)
  Depth,       \* bound: how deep one thread nests its calls
  NULL         \* no thread (threadId == NULL)

VARIABLES
  readers,   \* granted read locks: <<t, k>> is the k-th nested one of t
  writers,   \* threads granted the write lock
  queued,    \* threads that wait for the write lock
  owner,     \* the thread that made the lock its own, or NULL
  own        \* locks the owner has taken and not yet given back

absVars == <<readers, writers, queued, owner, own>>

Free == readers = {} /\ writers = {}

Init ==
  /\ readers = {}
  /\ writers = {}
  /\ queued = {}
  /\ owner = NULL
  /\ own = [t \in Threads |-> 0]

\* A read lock is granted while nobody writes and the lock has no owner.
GrantRead(t, k) ==
  /\ owner = NULL /\ writers = {}
  /\ <<t, k>> \notin readers
  /\ readers' = readers \cup {<<t, k>>}
  /\ UNCHANGED <<writers, queued, owner, own>>

Queue(t) ==
  /\ owner = NULL
  /\ queued' = queued \cup {t}
  /\ UNCHANGED <<readers, writers, owner, own>>

\* The write lock is granted to one thread alone; the only thread that can
\* still get it once there is an owner is one that was queued before.
GrantWrite(t) ==
  /\ \/ owner = NULL /\ Free
     \/ owner # NULL /\ t \in queued
  /\ writers' = writers \cup {t}
  /\ queued' = queued \ {t}
  /\ UNCHANGED <<readers, owner, own>>

TakeOver(t) ==
  /\ t \in Exclusives \cap writers
  /\ owner' = t
  /\ own' = [own EXCEPT ![t] = 1]
  /\ writers' = writers \ {t}
  /\ UNCHANGED <<readers, queued>>

OwnerAgain(t) ==
  /\ owner = t /\ own[t] < Depth
  /\ own' = [own EXCEPT ![t] = @ + 1]
  /\ UNCHANGED <<readers, writers, queued, owner>>

Release(t) ==
  /\ \/ /\ \E k \in 1 .. Depth : readers' = readers \ {<<t, k>>}
        /\ UNCHANGED <<writers, own>>
     \/ writers' = writers \ {t} /\ UNCHANGED <<readers, own>>
     \/ /\ own[t] > 0
        /\ own' = [own EXCEPT ![t] = @ - 1]
        /\ UNCHANGED <<readers, writers>>
  /\ UNCHANGED <<queued, owner>>

Next ==
  \E t \in Threads :
    \/ \E k \in 1 .. Depth : GrantRead(t, k)
    \/ Queue(t)
    \/ GrantWrite(t)
    \/ TakeOver(t)
    \/ OwnerAgain(t)
    \/ Release(t)

Spec == Init /\ [][Next]_absVars
=============================================================================
