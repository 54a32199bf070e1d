------------------------------ MODULE PageCache ------------------------------
(***************************************************************************)
(* The cache of pages of a pages object (pages.c) and the reference counts *)
(* of what is in it (pageObj.c).  Clients are the channels that read: each *)
(* asks for a page, is given a reference to its data and gives it back     *)
(* some time later.  What happens under mxCache is one action.             *)
(*                                                                         *)
(* An object that was freed may be allocated again for another page.       *)
(* Preloading pages (COOKFS_USECALLBACKS) and the aside pages are left     *)
(* out: the cache sees their indexes and objects like any other.           *)
(***************************************************************************)
EXTENDS Integers, FiniteSets

CONSTANTS
  Clients,
  PageIndexes,\* page indexes
  Objs,      \* addresses a page object may have
  MaxSize,   \* COOKFS_MAX_CACHE_PAGES
  Weights,   \* weights pages are asked for with
  MaxAges,   \* ages the cache is set to forget weights at
  AgeBound,  \* bound: no slot gets older
  None

ASSUME CacheAssumption ==
  /\ MaxSize \in Nat \ {0} /\ AgeBound \in Nat
  /\ Weights \subseteq Int /\ MaxAges \subseteq Nat /\ MaxAges # {}
  /\ IsFiniteSet(Objs) /\ IsFiniteSet(Clients) /\ None \notin Objs \cup PageIndexes

VARIABLES
  isShared,    \* is the mount -shared, its channels of several threads?
  cache,       \* the slots, most recently used first
  cacheSize,
  cacheMaxAge,
  refCount,    \* of each object; 0 when it is free memory
  pageOf,      \* the page whose data is at each address
  pc, want,    \* where each client is, the page and the weight it asks for
  rc           \* the object each client has or is about to have

slots == <<cache, cacheSize, cacheMaxAge>>
objects == <<refCount, pageOf>>
clients == <<pc, want, rc>>
cacheVars == <<isShared, slots, objects, clients>>

Slots == 1 .. MaxSize
InUse == 1 .. cacheSize
EmptySlot == [page |-> None, obj |-> None, weight |-> 0, age |-> 0]

CacheInit ==
  /\ isShared \in BOOLEAN
  /\ cache = [i \in Slots |-> EmptySlot]
  /\ cacheSize = 0
  /\ cacheMaxAge \in MaxAges
  /\ refCount = [o \in Objs |-> 0]
  /\ pageOf = [o \in Objs |-> None]
  /\ pc = [c \in Clients |-> "idle"]
  /\ want = [c \in Clients |-> None]
  /\ rc = [c \in Clients |-> None]

Go(c, where, obj) ==
  /\ pc' = [pc EXCEPT ![c] = where]
  /\ rc' = [rc EXCEPT ![c] = obj]

\* A mount that is not shared belongs to one thread.
MayRun(c) == isShared \/ \A d \in Clients \ {c} : pc[d] \in {"idle", "have"}

-----------------------------------------------------------------------------
Weighing(slot, w) == [slot EXCEPT !.weight = w]

\* A tick makes a slot older, and one that is too old loses its weight.
Older(slot) ==
  LET age == slot.age + 1
      weight == IF age >= cacheMaxAge THEN 0 ELSE slot.weight
  IN [page |-> slot.page, obj |-> slot.obj, weight |-> weight, age |-> age]

Absent(page) == \A i \in InUse : cache[i].page # page

\* CookfsPagesPageCacheGet stops at the first slot that has the page.
FoundIn(i, page) ==
  cache[i].page = page /\ \A j \in 1 .. i - 1 : cache[j].page # page

Renewed(slot) == [slot EXCEPT !.age = 0]

\* CookfsPagesPageCacheMoveToTop, of an entry that may be new
MoveToTop(i, entry) ==
  [j \in Slots |-> IF j = 1 THEN Renewed(entry)
                   ELSE IF j <= i THEN cache[j - 1]
                   ELSE cache[j]]

\* Mutant: where slots do not differ the earlier one is kept
BetterEarlier(i, j) ==
  \/ cache[i].obj = None /\ (cache[j].obj = None => i >= j)
  \/ /\ cache[i].obj # None /\ cache[j].obj # None
     /\ \/ cache[i].weight < cache[j].weight
        \/ /\ cache[i].weight = cache[j].weight
           /\ \/ cache[i].age > cache[j].age
              \/ cache[i].age = cache[j].age /\ i <= j

\* Cookfs_PageCacheSet goes from the last slot to the first and looks for an
\* empty one, or else for the least weight and, among equals, for the greatest
\* age; where slots do not differ it stays with the later one.
Better(i, j) ==
  \/ cache[i].obj = None /\ (cache[j].obj = None => i >= j)
  \/ /\ cache[i].obj # None /\ cache[j].obj # None
     /\ \/ cache[i].weight < cache[j].weight
        \/ /\ cache[i].weight = cache[j].weight
           /\ \/ cache[i].age > cache[j].age
              \/ cache[i].age = cache[j].age /\ i >= j

IsVictim(i) == \A j \in InUse : Better(i, j)

\* Cookfs_PageObjDecrRefCount; None stands for no object.
Decr(count, obj) == [o \in Objs |-> IF o = obj THEN count[o] - 1 ELSE count[o]]
Incr(count, obj) == [o \in Objs |-> IF o = obj THEN count[o] + 1 ELSE count[o]]

-----------------------------------------------------------------------------
\* Cookfs_PageGet as far as the end of Cookfs_PageCacheGet
PageGet(c, page, weight) ==
  /\ pc[c] = "idle" /\ MayRun(c)
  /\ want' = [want EXCEPT ![c] = [page |-> page, weight |-> weight]]
  /\ \/ /\ cacheSize = 0
        /\ Go(c, "direct", None)
        /\ UNCHANGED cache
     \/ /\ cacheSize > 0 /\ Absent(page)
        /\ Go(c, "read", None)
        /\ UNCHANGED cache
     \/ \E i \in InUse :
          /\ FoundIn(i, page)
          /\ cache' = MoveToTop(i, Weighing(cache[i], weight))
          /\ Go(c, "hit", cache[i].obj)
  /\ UNCHANGED <<cacheSize, cacheMaxAge, objects>>

\* Cookfs_PageObjIncrRefCount after mxCache was released
TakeReference(c) ==
  /\ pc[c] = "hit"
  /\ refCount' = Incr(refCount, rc[c])
  /\ Go(c, "have", rc[c])
  /\ UNCHANGED <<slots, pageOf, want>>

\* CookfsPagesPageGetInt: a new object with a reference for the caller,
ReadPage(c) ==
  /\ pc[c] \in {"read", "direct"}
  /\ \E o \in Objs :
       /\ refCount[o] = 0
       /\ refCount' = Incr(refCount, o)
       /\ pageOf' = [pageOf EXCEPT ![o] = want[c].page]
       /\ Go(c, IF pc[c] = "read" THEN "got" ELSE "have", o)
  /\ UNCHANGED <<slots, want>>

\* or none.
ReadFails(c) ==
  /\ pc[c] \in {"read", "direct"}
  /\ Go(c, "idle", None)
  /\ want' = [want EXCEPT ![c] = None]
  /\ UNCHANGED <<slots, objects>>

\* Mutant: the cache takes no reference.
StoreUncounted(c, i) ==
  /\ Absent(want[c].page) /\ IsVictim(i)
  /\ cache' = MoveToTop(i, [page |-> want[c].page, obj |-> rc[c],
                            weight |-> want[c].weight, age |-> 0])
  /\ refCount' = Decr(refCount, cache[i].obj)

\* The slot of the victim gets the page, and a reference of its own.
Store(c, i) ==
  /\ Absent(want[c].page) /\ IsVictim(i)
  /\ cache' = MoveToTop(i, [page |-> want[c].page, obj |-> rc[c],
                            weight |-> want[c].weight, age |-> 0])
  /\ refCount' = Incr(Decr(refCount, cache[i].obj), rc[c])

\* Cookfs_PageCacheSet: another client may have cached the page meanwhile.
PageCacheSet(c) ==
  /\ pc[c] = "got"
  /\ \/ cacheSize = 0 /\ UNCHANGED <<cache, refCount>>
     \/ \E i \in InUse :
          /\ FoundIn(i, want[c].page)
          /\ cache' = MoveToTop(i, Weighing(cache[i], want[c].weight))
          /\ UNCHANGED refCount
     \/ \E i \in InUse : Store(c, i)
  /\ Go(c, "have", rc[c])
  /\ UNCHANGED <<cacheSize, cacheMaxAge, pageOf, want>>

\* The client has read what it needs: Cookfs_PageObjDecrRefCount.
Release(c) ==
  /\ pc[c] = "have" /\ MayRun(c)
  /\ refCount' = Decr(refCount, rc[c])
  /\ Go(c, "idle", None)
  /\ want' = [want EXCEPT ![c] = None]
  /\ UNCHANGED <<slots, pageOf>>

\* Cookfs_PagesTickTock
TickTock ==
  /\ \A i \in InUse : cache[i].age < AgeBound
  /\ cache' = [i \in Slots |-> IF i \in InUse THEN Older(cache[i]) ELSE cache[i]]
  /\ UNCHANGED <<cacheSize, cacheMaxAge, objects, clients>>

\* Cookfs_PagesSetMaxAge
SetMaxAge(age) ==
  /\ cacheMaxAge' = age
  /\ UNCHANGED <<cache, cacheSize, objects, clients>>

\* Mutant: the cache is made smaller and keeps its slots
SetCacheSizeKeeping(size) ==
  /\ cacheSize' = size
  /\ refCount' = [o \in Objs |->
                    refCount[o] - Cardinality({i \in Slots : cache[i].obj = o})]
  /\ UNCHANGED <<cache, cacheMaxAge, pageOf, clients>>

\* Cookfs_PagesSetCacheSize empties the cache.
SetCacheSize(size) ==
  /\ cache' = [i \in Slots |-> EmptySlot]
  /\ cacheSize' = size
  /\ refCount' = [o \in Objs |->
                    refCount[o] - Cardinality({i \in Slots : cache[i].obj = o})]
  /\ UNCHANGED <<cacheMaxAge, pageOf, clients>>

\* Nothing of a mount that is not shared runs while a client is in a call.
Settings ==
  /\ isShared \/ \A c \in Clients : pc[c] \in {"idle", "have"}
  /\ \/ TickTock
     \/ \E age \in MaxAges : SetMaxAge(age)
     \/ \E size \in 0 .. MaxSize : SetCacheSize(size)

CacheNext ==
  /\ \/ \E c \in Clients :
          \/ \E page \in PageIndexes, weight \in Weights : PageGet(c, page, weight)
          \/ TakeReference(c) \/ ReadPage(c) \/ ReadFails(c)
          \/ PageCacheSet(c) \/ Release(c)
     \/ Settings
  /\ UNCHANGED isShared

CacheSpec == CacheInit /\ [][CacheNext]_cacheVars
-----------------------------------------------------------------------------
\* Properties

CacheTypeOK ==
  /\ isShared \in BOOLEAN
  /\ cache \in [Slots -> [page : PageIndexes \cup {None}, obj : Objs \cup {None},
                          weight : Weights \cup {0}, age : Nat]]
  /\ cacheSize \in 0 .. MaxSize
  /\ cacheMaxAge \in MaxAges
  /\ refCount \in [Objs -> Int]
  /\ pageOf \in [Objs -> PageIndexes \cup {None}]
  /\ pc \in [Clients -> {"idle", "hit", "read", "direct", "got", "have"}]
  /\ want \in [Clients -> [page : PageIndexes, weight : Weights] \cup {None}]
  /\ rc \in [Clients -> Objs \cup {None}]

\* Two clients that miss the same page both read it, and one copy is cached:
\* no page is in two slots.
OneCopyCached ==
  \A i, j \in InUse :
    cache[i].page = cache[j].page => i = j \/ cache[i].obj = None

\* Ages are only an estimate of recency, they are equal between ticks; but a
\* slot is never older than the ones behind it, empty slots included, and the
\* empty ones are at the end.
AgesRise ==
  \A i, j \in InUse :
    i < j => /\ cache[i].age <= cache[j].age
             /\ cache[i].obj = None => cache[j].obj = None

\* What is dropped for a new page is the least recently used of the lightest:
\* every page with less weight, and every one with the same weight that was
\* used before it, is gone already.  The code compares ages; the slots are in
\* the order of use.
EvictsOldestOfLightest ==
  [][\A c \in Clients, i \in InUse :
       /\ PageCacheSet(c)
       /\ cache[i].obj # None
       /\ \A j \in InUse : cache'[j].page # cache[i].page
       => \A j \in InUse \ {i} :
            \/ cache[j].weight > cache[i].weight
            \/ cache[j].weight = cache[i].weight /\ j < i]_cacheVars

\* In a mount of one thread every reference is somebody's: the count of an object
\* is the number of slots that have it and of clients that were given it, so it
\* is freed when the last of them lets go, and not before.
RefsCounted ==
  ~isShared => \A o \in Objs :
    refCount[o] = Cardinality({i \in Slots : cache[i].obj = o})
                    + Cardinality({c \in Clients : pc[c] \in {"got", "have"}
                                                     /\ rc[c] = o})

\* In a mount of one thread a client that was given a page has the data of the
\* page it asked for until it gives the page back, whatever the cache does.
PageStays ==
  \A c \in Clients :
    ~isShared /\ pc[c] = "have" => refCount[rc[c]] > 0 /\ pageOf[rc[c]] = want[c].page

\* In a mount of one thread a page taken from the cache is that page.
CachedIsThatPage ==
  \A i \in InUse :
    ~isShared /\ cache[i].obj # None =>
      refCount[cache[i].obj] > 0 /\ pageOf[cache[i].obj] = cache[i].page

\* The cache is sound: its slots and the references to its pages fit each other
\* and the clients, and in a mount of one thread a page that a client holds
\* stays (Cookfs_PageCacheSet, Cookfs_PageObjIncrRefCount).
CacheSound == CacheTypeOK /\ OneCopyCached /\ AgesRise /\ RefsCounted /\ PageStays
=============================================================================
