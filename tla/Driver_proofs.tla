---------------------------- MODULE Driver_proofs ----------------------------
(* Proofs about Driver: who holds an entry and what is in the tree fit each   *)
(* other, the calls of the driver agree, and the threads see one tree.        *)
EXTENDS Driver, FiniteSetTheorems, SequenceTheorems, WellFoundedInduction, TLAPS

\* The entry a reader channel has open is of the file it opened.
OpenedKept ==
  \A ch \in Channels :
    channels[ch] # NULL /\ channels[ch].kind = "reader" =>
      /\ entries[channels[ch].entry] # NULL
      /\ entries[channels[ch].entry].data = channels[ch].opened

\* A writer channel without a path was opened on an entry.
PathOrEntry ==
  \A ch \in Channels :
    channels[ch] # NULL /\ channels[ch].kind = "writer" /\ channels[ch].path = NULL
      => channels[ch].entry # NULL

\* Who uses an entry has it, and the entry counts them.
Counted ==
  \A e \in Entries : IF entries[e] = NULL THEN Users(e) = 0
                     ELSE entries[e].refcount >= Users(e)

\* What is in the tree is in use there, in a directory and in no other place.
TreeSound ==
  \A p \in Paths : tree[p] # NULL =>
    /\ entries[tree[p]] # NULL
    /\ ~entries[tree[p]].isInactive
    /\ Stat(Parent(p)) = "directory"
    /\ \A q \in Paths \ {p} : tree[q] # tree[p]

IInv == TypeOK /\ Counted /\ TreeSound /\ OpenedKept /\ PathOrEntry

-----------------------------------------------------------------------------
(* Entries.                                                                *)

\* An entry that is given back loses a user, or its place when it was freed and
\* had no other (Cookfs_FsindexEntryUnlock).
LEMMA ReleasedEntry ==
  ASSUME NEW x \in Entry, x.refcount >= 1
  PROVE  /\ Released(x) \in Entry \cup {NULL}
         /\ IF x.isInactive /\ x.refcount = 1 THEN Released(x) = NULL
            ELSE /\ Released(x) \in Entry /\ Released(x) # NULL
                 /\ Released(x).data = x.data /\ Released(x).place = x.place
                 /\ Released(x).isInactive = x.isInactive
                 /\ Released(x).refcount = x.refcount - 1
BY NamesAssumption DEF Released, Entry

\* Entries that are freed stay while they have users (Cookfs_FsindexEntryFree).
LEMMA FreedEntry ==
  ASSUME NEW es \in [Entries -> Entry \cup {NULL}], NEW S, NEW e \in Entries,
         e \in S => es[e] # NULL
  PROVE  /\ Freed(es, S)[e] \in Entry \cup {NULL}
         /\ e \notin S => Freed(es, S)[e] = es[e]
         /\ e \in S => IF es[e].refcount > 0
                       THEN /\ Freed(es, S)[e] \in Entry /\ Freed(es, S)[e] # NULL
                            /\ Freed(es, S)[e].data = es[e].data
                            /\ Freed(es, S)[e].place = es[e].place
                            /\ Freed(es, S)[e].refcount = es[e].refcount
                            /\ Freed(es, S)[e].isInactive
                       ELSE Freed(es, S)[e] = NULL
<1>1. Freed(es, S)[e] = IF e \notin S THEN es[e]
                        ELSE IF es[e].refcount > 0 THEN [es[e] EXCEPT !.isInactive = TRUE]
                        ELSE NULL
  BY DEF Freed
<1>2. CASE e \in S
  <2>1. es[e] \in Entry
    BY <1>2
  <2>2. [es[e] EXCEPT !.isInactive = TRUE] \in Entry
    BY <2>1 DEF Entry
  <2>3. /\ [es[e] EXCEPT !.isInactive = TRUE].data = es[e].data
        /\ [es[e] EXCEPT !.isInactive = TRUE].place = es[e].place
        /\ [es[e] EXCEPT !.isInactive = TRUE].refcount = es[e].refcount
        /\ [es[e] EXCEPT !.isInactive = TRUE].isInactive
    BY <2>1 DEF Entry
  <2> QED
    BY <1>1, <1>2, <2>1, <2>2, <2>3, NamesAssumption
<1>3. CASE e \notin S
  BY <1>1, <1>3
<1> QED
  BY <1>2, <1>3

\* What a place is when nobody has it, and otherwise how often it is counted.
Enough(x, n) == IF x = NULL THEN n = 0 ELSE x.refcount >= n

-----------------------------------------------------------------------------
(* Users.                                                                  *)

Using(e) == {ch \in Channels : channels[ch] # NULL /\ channels[ch].entry = e}

LEMMA UsingFinite ==
  ASSUME NEW e
  PROVE  IsFiniteSet(Using(e)) /\ Cardinality(Using(e)) \in Nat
         /\ Users(e) = Cardinality(Using(e)) + (IF e \in buffered THEN 1 ELSE 0)
         /\ Users(e) \in Nat
<1>1. Using(e) \subseteq Channels
  BY DEF Using
<1>2. IsFiniteSet(Using(e))
  BY <1>1, FS_Subset, NamesAssumption
<1>3. Cardinality(Using(e)) \in Nat
  BY <1>2, FS_CardinalityType
<1> QED
  BY <1>2, <1>3 DEF Users, Using

\* A channel that is open on an entry is one of its users, and so is the buffer.
LEMMA UsersAtLeast ==
  ASSUME NEW e, NEW ch \in Channels, channels[ch] # NULL, channels[ch].entry = e
  PROVE  Users(e) >= 1 + (IF e \in buffered THEN 1 ELSE 0)
<1>1. ch \in Using(e)
  BY DEF Using
<1>2. Cardinality(Using(e)) # 0
  BY <1>1, UsingFinite, FS_EmptySet
<1> QED
  BY <1>2, UsingFinite

\* Opening, changing or closing a channel changes the users of two entries at most.
LEMMA UsersChange ==
  ASSUME TypeOK, NEW ch \in Channels, NEW x, channels' = [channels EXCEPT ![ch] = x], NEW e
  PROVE  Users(e)' = Users(e)
           - (IF channels[ch] # NULL /\ channels[ch].entry = e THEN 1 ELSE 0)
           + (IF x # NULL /\ x.entry = e THEN 1 ELSE 0)
           - (IF e \in buffered THEN 1 ELSE 0) + (IF e \in buffered' THEN 1 ELSE 0)
<1> DEFINE S == Using(e) \ {ch}
<1>1. IsFiniteSet(S) /\ Cardinality(S) \in Nat
        /\ Cardinality(S) = Cardinality(Using(e))
             - (IF channels[ch] # NULL /\ channels[ch].entry = e THEN 1 ELSE 0)
  <2>1. ch \in Using(e) <=> channels[ch] # NULL /\ channels[ch].entry = e
    BY DEF Using
  <2> QED
    BY <2>1, UsingFinite, FS_RemoveElement, FS_CardinalityType
<1>2. Using(e)' = IF x # NULL /\ x.entry = e THEN S \cup {ch} ELSE S
  <2>1. channels'[ch] = x /\ \A d \in Channels \ {ch} : channels'[d] = channels[d]
    BY DEF TypeOK
  <2> QED
    BY <2>1 DEF Using
<1>3. Cardinality(S \cup {ch}) = Cardinality(S) + 1
  <2>1. ch \notin S
    OBVIOUS
  <2> HIDE DEF S
  <2> QED
    BY <1>1, <2>1, FS_AddElement
<1>4. Users(e)' = Cardinality(Using(e)') + (IF e \in buffered' THEN 1 ELSE 0)
  BY DEF Users, Using
<1> HIDE DEF S
<1> QED
  BY <1>1, <1>2, <1>3, <1>4, UsingFinite

\* Without a channel that changes only the buffer does.
LEMMA UsersSame ==
  ASSUME UNCHANGED channels, NEW e
  PROVE  Users(e)' = Users(e)
           - (IF e \in buffered THEN 1 ELSE 0) + (IF e \in buffered' THEN 1 ELSE 0)
<1>1. Users(e)' = Cardinality(Using(e)) + (IF e \in buffered' THEN 1 ELSE 0)
  BY DEF Users, Using
<1> QED
  BY <1>1, UsingFinite

\* The same as UsersAtLeast after a step.
LEMMA UsersAtLeastNext ==
  ASSUME NEW e, NEW ch \in Channels, channels'[ch] # NULL, channels'[ch].entry = e
  PROVE  Users(e)' \in Nat /\ Users(e)' >= 1
<1>1. ch \in Using(e)' /\ Using(e)' \subseteq Channels
  BY DEF Using
<1>2. IsFiniteSet(Using(e)')
  BY <1>1, FS_Subset, NamesAssumption
<1>3. Cardinality(Using(e)') \in Nat
  BY <1>2, FS_CardinalityType
<1>4. Cardinality(Using(e)') # 0
  BY <1>1, <1>2, FS_EmptySet
<1>5. Users(e)' = Cardinality(Using(e)') + (IF e \in buffered' THEN 1 ELSE 0)
  BY DEF Users, Using
<1> HIDE DEF Using
<1> QED
  BY <1>3, <1>4, <1>5

\* While the tree stays and what is in it is not freed, the tree is sound.
LEMMA TreeKept ==
  ASSUME TypeOK, TreeSound, UNCHANGED tree,
         \A p \in Paths : tree[p] # NULL =>
           /\ entries'[tree[p]] # NULL /\ ~entries'[tree[p]].isInactive
           /\ entries'[tree[p]].data = entries[tree[p]].data
  PROVE  TreeSound'
<1>1. \A p \in Paths : Stat(p)' = Stat(p) /\ Parent(p) \in Paths \cup {Root}
  BY PathsAssumption DEF Stat, IsDirectory
<1>2. Stat(Root)' = Stat(Root)
  BY DEF Stat
<1> QED
  BY <1>1, <1>2 DEF TreeSound

\* A channel keeps the entry of its file, because a place with a user is used for
\* no other entry.
LEMMA OpenKept ==
  ASSUME TypeOK, OpenedKept, Counted', channels' \in [Channels -> Reader \cup Writer \cup {NULL}],
         \A e \in Entries : entries[e] # NULL /\ entries'[e] # NULL
                              => entries'[e].data = entries[e].data,
         \A ch \in Channels : channels'[ch] # NULL /\ channels'[ch].kind = "reader" =>
            \/ channels'[ch] = channels[ch]
            \/ /\ entries[channels'[ch].entry] # NULL
               /\ entries[channels'[ch].entry].data = channels'[ch].opened
  PROVE  OpenedKept'
<1> SUFFICES ASSUME NEW ch \in Channels, channels'[ch] # NULL, channels'[ch].kind = "reader",
                    NEW e, e = channels'[ch].entry
             PROVE  entries'[e] # NULL /\ entries'[e].data = channels'[ch].opened
  BY DEF OpenedKept
<1>1. e \in Entries
  BY DEF Reader, Writer
<1>2. entries[e] # NULL /\ entries[e].data = channels'[ch].opened
  BY DEF OpenedKept
<1>3. Users(e)' \in Nat /\ Users(e)' >= 1
  BY UsersAtLeastNext
<1>4. entries'[e] # NULL
  BY <1>1, <1>3 DEF Counted
<1> QED
  BY <1>1, <1>2, <1>4

-----------------------------------------------------------------------------
(* Each step keeps the invariant.                                          *)

\* What is at a path that is in use.
LEMMA AtPath ==
  ASSUME TypeOK, TreeSound, NEW p \in Paths
  PROVE  /\ tree[p] \in Entries \cup {NULL} /\ Parent(p) \in Paths \cup {Root} /\ p # Root
         /\ tree[p] # NULL => entries[tree[p]] \in Entry /\ entries[tree[p]] # NULL
         /\ Stat(p) = "file" => tree[p] # NULL /\ entries[tree[p]].data \in Contents
         /\ Stat(p) = "directory" => tree[p] # NULL /\ entries[tree[p]].data = NULL
         /\ Stat(p) = "ENOENT" <=> tree[p] = NULL
         /\ Stat(p) \in {"file", "directory", "ENOENT"}
BY PathsAssumption, NamesAssumption DEF TypeOK, TreeSound, Stat, IsDirectory, Entry

\* What a channel is opened on.
LEMMA Opening ==
  ASSUME TypeOK, TreeSound, NEW p \in Paths, NEW mode \in Modes,
         OpenOutcome(p, mode) \in {"reader", "buffer", "write"}
  PROVE  /\ Stat(p) \in {"file", "ENOENT"}
         /\ OpenOutcome(p, mode) \in {"reader", "buffer"} => Stat(p) = "file" /\ mode = "r"
BY AtPath DEF OpenOutcome, Modes

LEMMA OpenStep ==
  ASSUME IInv, NEW ch \in Channels, NEW p \in Paths, NEW mode \in Modes, Open(ch, p, mode)
  PROVE  IInv'
<1> DEFINE outcome == OpenOutcome(p, mode)
           e == IF mode = "w" THEN NULL ELSE tree[p]
           path == IF outcome = "write" THEN p ELSE NULL
           x == IF outcome = "reader" THEN ReaderChannel(e)
                ELSE WriterChannel(e, path, IF e = NULL THEN Empty ELSE entries[e].data)
<1>1. /\ outcome \in {"reader", "buffer", "write"} /\ channels[ch] = NULL
      /\ channels' = [channels EXCEPT ![ch] = x]
      /\ entries' = IF e = NULL THEN entries ELSE [entries EXCEPT ![e].refcount = @ + 1]
      /\ UNCHANGED <<tree, buffered, readonly, inMemory, hung>>
  BY DEF Open
<1>2. TypeOK /\ TreeSound /\ Counted /\ OpenedKept /\ PathOrEntry
  BY DEF IInv
<1>3. /\ e \in Entries \cup {NULL}
      /\ outcome \in {"reader", "buffer"} => e # NULL
      /\ e # NULL => entries[e] \in Entry /\ entries[e] # NULL /\ entries[e].data \in Contents
  <2>1. Stat(p) \in {"file", "ENOENT"}
          /\ (outcome \in {"reader", "buffer"} => Stat(p) = "file" /\ mode = "r")
    BY <1>1, <1>2, Opening
  <2> QED
    BY <1>2, <2>1, AtPath
<1>4. /\ x \in Reader \cup Writer /\ x # NULL /\ x.entry = e
      /\ x.kind = "reader" => e # NULL /\ x.opened = entries[e].data
      /\ x.kind = "writer" /\ x.path = NULL => e # NULL
  <2>1. CASE outcome = "reader"
    BY <1>3, <2>1, NamesAssumption DEF ReaderChannel, Reader
  <2>2. CASE outcome # "reader"
    <3> DEFINE data == IF e = NULL THEN Empty ELSE entries[e].data
    <3>1. data \in Contents
      BY <1>3, ContentsAssumption
    <3>2. path \in Paths \cup {NULL} /\ (path = NULL => outcome = "buffer")
      BY <1>1, <2>2, NamesAssumption
    <3>3. x = WriterChannel(e, path, data)
      BY <2>2
    <3> HIDE DEF data, path, e, outcome, x
    <3> QED
      BY <1>3, <3>1, <3>2, <3>3, NamesAssumption DEF WriterChannel, Writer
  <2> QED
    BY <2>1, <2>2
<1> HIDE DEF e, x, outcome
<1>5. e # NULL => /\ [entries[e] EXCEPT !.refcount = @ + 1] \in Entry
                  /\ entries' = [entries EXCEPT ![e] = [entries[e] EXCEPT !.refcount = @ + 1]]
  BY <1>1, <1>3 DEF Entry
<1>6. \A d \in Entries :
        IF d # e THEN entries'[d] = entries[d]
        ELSE /\ entries'[d] \in Entry /\ entries'[d] # NULL
             /\ entries'[d].data = entries[d].data
             /\ entries'[d].isInactive = entries[d].isInactive
             /\ entries'[d].refcount = entries[d].refcount + 1
             /\ entries[d] \in Entry /\ entries[d] # NULL
  <2> SUFFICES ASSUME NEW d \in Entries
               PROVE  IF d # e THEN entries'[d] = entries[d]
                      ELSE /\ entries'[d] \in Entry /\ entries'[d] # NULL
                           /\ entries'[d].data = entries[d].data
                           /\ entries'[d].isInactive = entries[d].isInactive
                           /\ entries'[d].refcount = entries[d].refcount + 1
                           /\ entries[d] \in Entry /\ entries[d] # NULL
    OBVIOUS
  <2>1. CASE d # e
    BY <1>1, <1>2, <1>5, <2>1 DEF TypeOK
  <2>2. CASE d = e
    <3>1. d # NULL
      BY NamesAssumption
    <3>2. entries'[d] = [entries[d] EXCEPT !.refcount = @ + 1] /\ entries[d] \in Entry
      BY <1>2, <1>3, <1>5, <2>2, <3>1 DEF TypeOK
    <3> QED
      BY <1>3, <1>5, <2>2, <3>1, <3>2, NamesAssumption DEF Entry
  <2> QED
    BY <2>1, <2>2
<1>7. TypeOK'
  <2>1. entries' \in [Entries -> Entry \cup {NULL}]
    BY <1>1, <1>2, <1>5 DEF TypeOK
  <2>2. channels' \in [Channels -> Reader \cup Writer \cup {NULL}]
    BY <1>1, <1>2, <1>4 DEF TypeOK
  <2> QED
    BY <1>1, <1>2, <2>1, <2>2 DEF TypeOK
<1>8. Counted'
  <2> SUFFICES ASSUME NEW d \in Entries
               PROVE  IF entries'[d] = NULL THEN Users(d)' = 0 ELSE entries'[d].refcount >= Users(d)'
    BY DEF Counted
  <2>4. Users(d) \in Nat
    BY UsingFinite
  <2>5. Users(d)' = Users(d)
           - (IF channels[ch] # NULL /\ channels[ch].entry = d THEN 1 ELSE 0)
           + (IF x # NULL /\ x.entry = d THEN 1 ELSE 0)
           - (IF d \in buffered THEN 1 ELSE 0) + (IF d \in buffered' THEN 1 ELSE 0)
    BY ZenonT(60), <1>1, <1>2, UsersChange
  <2>1. Users(d)' = Users(d) + (IF e = d THEN 1 ELSE 0) /\ Users(d) \in Nat
    BY <1>1, <1>4, <2>4, <2>5
  <2>2. IF entries[d] = NULL THEN Users(d) = 0 ELSE entries[d].refcount >= Users(d)
    BY <1>2 DEF Counted
  <2>3. entries[d] \in Entry \cup {NULL} /\ (entries[d] # NULL => entries[d].refcount \in Nat)
    BY <1>2 DEF TypeOK, Entry
  <2> QED
    BY <1>6, <2>1, <2>2, <2>3
<1>9. TreeSound'
  <2>1. \A q \in Paths : tree[q] # NULL => tree[q] \in Entries
    BY <1>2 DEF TypeOK
  <2> QED
    BY <1>1, <1>2, <1>6, <2>1, TreeKept DEF TreeSound
<1>10. OpenedKept'
  BY <1>1, <1>2, <1>3, <1>4, <1>6, <1>7, <1>8, OpenKept DEF TypeOK
<1>11. PathOrEntry'
  BY <1>1, <1>2, <1>4 DEF PathOrEntry, TypeOK
<1> QED
  BY <1>7, <1>8, <1>9, <1>10, <1>11 DEF IInv

\* What happens to an entry that is given back by one of its users.
LEMMA UnlockedEntries ==
  ASSUME NEW es \in [Entries -> Entry \cup {NULL}], NEW e \in Entries, es[e] # NULL,
         es[e].refcount >= 1
  PROVE  /\ Unlocked(es, e) \in [Entries -> Entry \cup {NULL}]
         /\ \A d \in Entries \ {e} : Unlocked(es, e)[d] = es[d]
         /\ LET x == Unlocked(es, e)[e]
            IN IF es[e].isInactive /\ es[e].refcount = 1 THEN x = NULL
               ELSE /\ x # NULL /\ x.data = es[e].data /\ x.place = es[e].place
                    /\ x.isInactive = es[e].isInactive /\ x.refcount = es[e].refcount - 1
<1>1. es[e] \in Entry
  OBVIOUS
<1>2. Unlocked(es, e) = [es EXCEPT ![e] = Released(es[e])]
  BY DEF Unlocked
<1> QED
  BY <1>1, <1>2, ReleasedEntry

\* The user that a closing channel was is gone, with the channel.
LEMMA GiveBack ==
  ASSUME IInv, NEW ch \in Channels, channels[ch] # NULL, channels[ch].entry \in Entries,
         entries' = Unlocked(entries, channels[ch].entry),
         channels' = [channels EXCEPT ![ch] = NULL],
         UNCHANGED <<tree, buffered, readonly, inMemory, hung>>
  PROVE  IInv'
<1>1. PICK e \in Entries : e = channels[ch].entry
  OBVIOUS
<1>2. TypeOK /\ TreeSound /\ Counted /\ OpenedKept /\ PathOrEntry
  BY DEF IInv
<1>3. entries[e] \in Entry /\ entries[e] # NULL /\ entries[e].refcount >= 1
        /\ \A d : Users(d) \in Nat
  <2>1. Users(e) >= 1 /\ Users(e) \in Nat
    BY <1>1, UsersAtLeast, UsingFinite
  <2>2. entries[e] # NULL /\ entries[e].refcount >= Users(e)
    BY <1>2, <2>1 DEF Counted
  <2>3. entries[e] \in Entry /\ entries[e].refcount \in Nat
    BY <1>2, <2>2 DEF TypeOK, Entry
  <2> QED
    BY <2>1, <2>2, <2>3, UsingFinite
<1>4. /\ entries' \in [Entries -> Entry \cup {NULL}]
      /\ \A d \in Entries \ {e} : entries'[d] = entries[d]
      /\ IF entries[e].isInactive /\ entries[e].refcount = 1 THEN entries'[e] = NULL
         ELSE /\ entries'[e] # NULL /\ entries'[e].data = entries[e].data
              /\ entries'[e].isInactive = entries[e].isInactive
              /\ entries'[e].refcount = entries[e].refcount - 1
  BY <1>1, <1>2, <1>3, UnlockedEntries DEF TypeOK
<1>5. TypeOK'
  BY <1>2, <1>4 DEF TypeOK
<1>6. Counted'
  <2> SUFFICES ASSUME NEW d \in Entries
               PROVE  IF entries'[d] = NULL THEN Users(d)' = 0 ELSE entries'[d].refcount >= Users(d)'
    BY DEF Counted
  <2>1. Users(d)' = Users(d)
           - (IF channels[ch] # NULL /\ channels[ch].entry = d THEN 1 ELSE 0)
           + (IF NULL # NULL /\ NULL.entry = d THEN 1 ELSE 0)
           - (IF d \in buffered THEN 1 ELSE 0) + (IF d \in buffered' THEN 1 ELSE 0)
    BY <1>2, UsersChange
  <2>2. Users(d)' = Users(d) - (IF d = e THEN 1 ELSE 0)
    BY <1>1, <1>3, <2>1
  <2>3. IF entries[d] = NULL THEN Users(d) = 0 ELSE entries[d].refcount >= Users(d)
    BY <1>2 DEF Counted
  <2>4. entries[d] # NULL => entries[d].refcount \in Nat
    BY <1>2 DEF TypeOK, Entry
  <2>5. CASE d = e
    <3>1. Users(e) >= 1
      BY <1>1, UsersAtLeast, UsingFinite
    <3> QED
      BY <1>3, <1>4, <2>2, <2>3, <2>4, <2>5, <3>1
  <2>6. CASE d # e
    BY <1>3, <1>4, <2>2, <2>3, <2>6
  <2> QED
    BY <2>5, <2>6
<1>7. TreeSound'
  <2>1. \A q \in Paths : tree[q] # NULL => tree[q] \in Entries
    BY <1>2 DEF TypeOK
  <2> QED
    BY <1>2, <1>4, <2>1, TreeKept DEF TreeSound
<1>8. OpenedKept'
  <2>1. \A d \in Channels : channels'[d] # NULL => channels'[d] = channels[d]
    BY <1>2 DEF TypeOK
  <2> QED
    BY <1>2, <1>4, <1>5, <1>6, <2>1, OpenKept DEF TypeOK
<1>9. PathOrEntry'
  BY <1>2 DEF PathOrEntry, TypeOK
<1> QED
  BY <1>5, <1>6, <1>7, <1>8, <1>9 DEF IInv

\* Nothing the invariant speaks of changes.
LEMMA Unmoved ==
  ASSUME IInv, TypeOK', UNCHANGED <<entries, tree, buffered, channels>>
  PROVE  IInv'
<1>1. \A d : Users(d)' = Users(d)
  BY DEF Users
<1>2. \A q : Stat(q)' = Stat(q)
  BY DEF Stat, IsDirectory
<1> QED
  BY <1>1, <1>2 DEF IInv, Counted, TreeSound, OpenedKept, PathOrEntry

\* A channel is closed that has no entry, or changes what it will store.
LEMMA ChannelOnly ==
  ASSUME IInv, NEW ch \in Channels, channels[ch] # NULL, channels[ch].kind = "writer",
         NEW x, \/ x = NULL /\ channels[ch].entry = NULL
                \/ /\ x # NULL /\ x \in Writer
                   /\ x.entry = channels[ch].entry /\ x.path = channels[ch].path,
         channels' = [channels EXCEPT ![ch] = x], UNCHANGED <<entries, tree, buffered>>,
         {readonly', inMemory', hung'} \subseteq BOOLEAN
  PROVE  IInv'
<1>1. TypeOK /\ TreeSound /\ Counted /\ OpenedKept /\ PathOrEntry
  BY DEF IInv
<1>2. TypeOK'
  BY <1>1 DEF TypeOK
<1>3. \A d \in Entries : Users(d)' = Users(d)
  <2> SUFFICES ASSUME NEW d \in Entries PROVE Users(d)' = Users(d)
    OBVIOUS
  <2>1. Users(d)' = Users(d)
           - (IF channels[ch] # NULL /\ channels[ch].entry = d THEN 1 ELSE 0)
           + (IF x # NULL /\ x.entry = d THEN 1 ELSE 0)
           - (IF d \in buffered THEN 1 ELSE 0) + (IF d \in buffered' THEN 1 ELSE 0)
    BY <1>1, UsersChange
  <2>2. Users(d) \in Nat /\ d # NULL
    BY UsingFinite, NamesAssumption
  <2> QED
    BY <2>1, <2>2
<1>4. Counted'
  BY <1>1, <1>3 DEF Counted
<1>5. TreeSound'
  BY <1>1, TreeKept DEF TreeSound
<1>6. \A d \in Channels : channels'[d] # NULL /\ channels'[d].kind = "reader"
                            => channels'[d] = channels[d]
  BY <1>1 DEF TypeOK, Writer
<1>7. OpenedKept'
  BY <1>1, <1>2, <1>4, <1>6, OpenKept DEF TypeOK
<1>8. PathOrEntry'
  BY <1>1 DEF PathOrEntry, TypeOK
<1> QED
  BY <1>2, <1>4, <1>5, <1>7, <1>8 DEF IInv

\* The files in the buffer go to pages: each loses the user that the buffer was.
LEMMA PurgeStep ==
  ASSUME IInv, Purge, UNCHANGED <<tree, channels, readonly, inMemory, hung>>
  PROVE  IInv'
<1> DEFINE place == IF inMemory THEN "lost" ELSE "pages"
<1>1. TypeOK /\ TreeSound /\ Counted /\ OpenedKept /\ PathOrEntry
  BY DEF IInv
<1>2. \A d : Users(d)' = Users(d) - (IF d \in buffered THEN 1 ELSE 0) /\ Users(d) \in Nat
  BY UsersSame, UsingFinite DEF Purge
<1>3. ASSUME NEW d \in Entries
      PROVE  /\ entries'[d] \in Entry \cup {NULL}
             /\ d \notin buffered => entries'[d] = entries[d]
             /\ d \in buffered =>
                  /\ entries[d] # NULL /\ entries[d].refcount >= Users(d)
                  /\ entries[d].refcount \in Nat /\ Users(d) >= 1
                  /\ IF entries[d].isInactive /\ entries[d].refcount = 1
                     THEN entries'[d] = NULL
                     ELSE /\ entries'[d] # NULL /\ entries'[d].data = entries[d].data
                          /\ entries'[d].isInactive = entries[d].isInactive
                          /\ entries'[d].refcount = entries[d].refcount - 1
  <2>1. CASE d \notin buffered
    BY <1>1, <2>1 DEF Purge, TypeOK
  <2>2. CASE d \in buffered
    <3>1. Users(d) >= 1 /\ Users(d) \in Nat
      BY <2>2, UsingFinite
    <3>2. entries[d] # NULL /\ entries[d].refcount >= Users(d)
      BY <1>1, <3>1 DEF Counted
    <3>3. entries[d] \in Entry /\ entries[d].refcount \in Nat
      BY <1>1, <3>2 DEF TypeOK, Entry
    <3> DEFINE x == [entries[d] EXCEPT !.place = place]
    <3>4. /\ x \in Entry /\ x.data = entries[d].data /\ x.isInactive = entries[d].isInactive
          /\ x.refcount = entries[d].refcount
      BY <3>3 DEF Entry, Places
    <3>5. entries'[d] = Released(x)
      BY <2>2 DEF Purge
    <3> HIDE DEF x
    <3>6. x.refcount >= 1
      BY <3>1, <3>2, <3>3, <3>4
    <3> QED
      BY <2>2, <3>1, <3>2, <3>3, <3>4, <3>5, <3>6, ReleasedEntry
  <2> QED
    BY <2>1, <2>2
<1>4. TypeOK'
  <2>1. entries' \in [Entries -> Entry \cup {NULL}]
    <3>1. DOMAIN entries' = Entries /\ entries' = [d \in Entries |-> entries'[d]]
      BY DEF Purge
    <3> QED
      BY <1>3, <3>1
  <2> QED
    BY <1>1, <2>1 DEF TypeOK, Purge
<1>5. Counted'
  <2> SUFFICES ASSUME NEW d \in Entries
               PROVE  IF entries'[d] = NULL THEN Users(d)' = 0 ELSE entries'[d].refcount >= Users(d)'
    BY DEF Counted
  <2>1. IF entries[d] = NULL THEN Users(d) = 0 ELSE entries[d].refcount >= Users(d)
    BY <1>1 DEF Counted
  <2> QED
    BY <1>2, <1>3, <2>1
<1>6. TreeSound'
  <2>1. \A q \in Paths : tree[q] # NULL => tree[q] \in Entries
    BY <1>1 DEF TypeOK
  <2> QED
    BY <1>1, <1>3, <2>1, TreeKept DEF TreeSound
<1>7. OpenedKept'
  BY <1>1, <1>3, <1>4, <1>5, OpenKept DEF TypeOK
<1>8. PathOrEntry'
  BY <1>1 DEF PathOrEntry
<1> QED
  BY <1>4, <1>5, <1>6, <1>7, <1>8 DEF IInv

\* What is below a path and what is not: the parent of what stays stays.
LEMMA BelowPath ==
  ASSUME TypeOK, TreeSound, NEW p \in Paths, NEW q \in Paths, q \notin Below(p), tree[q] # NULL
  PROVE  /\ Parent(q) = Root \/ (Parent(q) \in Paths /\ Parent(q) \notin Below(p))
         /\ tree[q] \in Entries \ EntriesBelow(p)
BY PathsAssumption, NamesAssumption DEF Below, EntriesBelow, TreeSound, TypeOK

\* Removing a path and what is below it: the entries that are freed are those of
\* the tree that goes.
LEMMA SubtreeGone ==
  ASSUME IInv, NEW p \in Paths
  PROVE  LET es == Freed(entries, EntriesBelow(p))
         IN /\ es \in [Entries -> Entry \cup {NULL}]
            /\ \A d \in Entries : entries[d] = NULL => es[d] = NULL
            /\ \A d \in Entries : entries[d] # NULL =>
                 /\ es[d] # NULL => /\ es[d].data = entries[d].data
                                    /\ es[d].place = entries[d].place
                                    /\ es[d].refcount = entries[d].refcount
                 /\ es[d] = NULL => Users(d) = 0
            /\ \A q \in Paths : q \notin Below(p) /\ tree[q] # NULL =>
                 es[tree[q]] = entries[tree[q]]
<1> DEFINE es == Freed(entries, EntriesBelow(p))
<1>1. TypeOK /\ TreeSound /\ Counted
  BY DEF IInv
<1>2. EntriesBelow(p) \subseteq Entries /\ \A d \in EntriesBelow(p) : entries[d] # NULL
  BY <1>1 DEF EntriesBelow, Below, TypeOK, TreeSound
<1>3. \A d \in Entries : es[d] \in Entry \cup {NULL}
  BY <1>1, <1>2, FreedEntry DEF TypeOK
<1>4. es \in [Entries -> Entry \cup {NULL}]
  BY <1>3 DEF Freed
<1>5. ASSUME NEW d \in Entries
      PROVE  /\ entries[d] = NULL => es[d] = NULL
             /\ entries[d] # NULL =>
                 /\ es[d] # NULL => /\ es[d].data = entries[d].data
                                    /\ es[d].place = entries[d].place
                                    /\ es[d].refcount = entries[d].refcount
                 /\ es[d] = NULL => Users(d) = 0
  <2>1. CASE d \notin EntriesBelow(p)
    BY <1>1, <1>2, <2>1, FreedEntry DEF TypeOK
  <2>2. CASE d \in EntriesBelow(p)
    <3>1. /\ entries[d] # NULL /\ entries[d] \in Entry /\ entries[d].refcount \in Nat
          /\ entries[d].refcount >= Users(d) /\ Users(d) \in Nat
      BY <1>1, <1>2, <2>2, UsingFinite DEF TypeOK, Counted, Entry
    <3>2. IF entries[d].refcount > 0
          THEN /\ es[d] # NULL /\ es[d].data = entries[d].data
               /\ es[d].place = entries[d].place /\ es[d].refcount = entries[d].refcount
          ELSE es[d] = NULL
      BY <1>1, <1>2, <2>2, FreedEntry DEF TypeOK
    <3> QED
      BY <3>1, <3>2
  <2> QED
    BY <2>1, <2>2
<1>6. ASSUME NEW q \in Paths, q \notin Below(p), tree[q] # NULL
      PROVE  es[tree[q]] = entries[tree[q]]
  <2>1. tree[q] \in Entries \ EntriesBelow(p)
    BY <1>1, <1>6, BelowPath
  <2> QED
    BY <1>1, <2>1, FreedEntry DEF TypeOK
<1> QED
  BY <1>4, <1>5, <1>6

\* Removing a directory.
LEMMA RemoveDirectoryStep ==
  ASSUME IInv, NEW p \in Paths, NEW recursive \in BOOLEAN, RemoveDirectory(p, recursive)
  PROVE  IInv'
<1>1. TypeOK /\ TreeSound /\ Counted /\ OpenedKept /\ PathOrEntry
  BY DEF IInv
<1>2. /\ entries' = Freed(entries, EntriesBelow(p)) /\ tree' = Without(p)
      /\ UNCHANGED <<buffered, channels, readonly, inMemory, hung>>
  BY DEF RemoveDirectory
<1>3. TypeOK'
  <2>1. tree' \in [Paths -> Entries \cup {NULL}]
    BY <1>1, <1>2 DEF TypeOK, Without
  <2> QED
    BY <1>1, <1>2, <2>1, SubtreeGone DEF TypeOK
<1>4. Counted'
  <2> SUFFICES ASSUME NEW d \in Entries
               PROVE  IF entries'[d] = NULL THEN Users(d)' = 0 ELSE entries'[d].refcount >= Users(d)'
    BY DEF Counted
  <2>1. Users(d)' = Users(d)
    BY <1>2, UsersSame, UsingFinite
  <2> QED
    BY <1>1, <1>2, <2>1, SubtreeGone DEF Counted
<1>5. \A q \in Paths : /\ tree'[q] = IF q \in Below(p) THEN NULL ELSE tree[q]
                       /\ tree'[q] # NULL => entries'[tree[q]] = entries[tree[q]]
  BY <1>2, SubtreeGone DEF Without
<1>6. TreeSound'
  <2> SUFFICES ASSUME NEW q \in Paths, tree'[q] # NULL
               PROVE  /\ entries'[tree'[q]] # NULL /\ ~entries'[tree'[q]].isInactive
                      /\ Stat(Parent(q))' = "directory"
                      /\ \A r \in Paths \ {q} : tree'[r] # tree'[q]
    BY DEF TreeSound
  <2>1. q \notin Below(p) /\ tree'[q] = tree[q] /\ entries'[tree[q]] = entries[tree[q]]
    BY <1>5
  <2>2. Parent(q) = Root \/ (Parent(q) \in Paths /\ Parent(q) \notin Below(p))
    BY <1>1, <2>1, BelowPath
  <2>3. Stat(Parent(q)) = "directory"
    BY <1>1, <2>1 DEF TreeSound
  <2>4. Stat(Parent(q))' = "directory"
    <3>1. CASE Parent(q) = Root
      BY <3>1 DEF Stat
    <3>2. CASE Parent(q) # Root
      BY <1>1, <1>5, <2>2, <2>3, <3>2, AtPath DEF Stat, IsDirectory
    <3> QED
      BY <3>1, <3>2
  <2> QED
    BY <1>1, <1>5, <2>1, <2>4 DEF TreeSound
<1>7. OpenedKept'
  BY <1>1, <1>2, <1>3, <1>4, SubtreeGone, OpenKept DEF TypeOK
<1>8. PathOrEntry'
  BY <1>1, <1>2 DEF PathOrEntry
<1> QED
  BY <1>3, <1>4, <1>6, <1>7, <1>8 DEF IInv

\* A new entry.
LEMMA Fresh ==
  ASSUME TypeOK, HasRoom
  PROVE  Unused(entries) \in Entries /\ entries[Unused(entries)] = NULL
BY DEF HasRoom, Unused

\* Making a directory.
LEMMA CreateDirectoryStep ==
  ASSUME IInv, NEW p \in Paths, CreateDirectory(p)
  PROVE  IInv'
<1> DEFINE es == Freed(entries, EntriesBelow(p))
           x == NewEntry(NULL, NULL, FALSE)
<1>1. TypeOK /\ TreeSound /\ Counted /\ OpenedKept /\ PathOrEntry
  BY DEF IInv
<1>2. PICK new \in Entries :
        /\ entries[new] = NULL /\ new # NULL
        /\ entries' = [es EXCEPT ![new] = x]
        /\ tree' = [Without(p) EXCEPT ![p] = new]
  BY <1>1, Fresh, NamesAssumption DEF CreateDirectory
<1>3. UNCHANGED <<buffered, channels, readonly, inMemory, hung>>
        /\ Stat(Parent(p)) = "directory"
  BY DEF CreateDirectory, MaySet
<1>4. x \in Entry /\ x # NULL /\ x.data = NULL /\ ~x.isInactive /\ x.refcount = 0
  <2>1. x \in Entry
    BY DEF NewEntry, Entry
  <2>2. x # NULL
    BY <2>1, NamesAssumption
  <2> QED
    BY <2>1, <2>2 DEF NewEntry
<1>5. /\ es \in [Entries -> Entry \cup {NULL}]
      /\ \A d \in Entries : entries[d] = NULL => es[d] = NULL
      /\ \A d \in Entries : entries[d] # NULL =>
           /\ es[d] # NULL => /\ es[d].data = entries[d].data
                              /\ es[d].refcount = entries[d].refcount
           /\ es[d] = NULL => Users(d) = 0
      /\ \A q \in Paths : q \notin Below(p) /\ tree[q] # NULL => es[tree[q]] = entries[tree[q]]
  BY SubtreeGone
<1> HIDE DEF es, x
<1>6. \A d \in Entries : entries'[d] = IF d = new THEN x ELSE es[d]
  BY <1>2, <1>5
<1>7. \A q \in Paths : tree'[q] = IF q = p THEN new ELSE IF q \in Below(p) THEN NULL ELSE tree[q]
  BY <1>2 DEF Without
<1>8. TypeOK'
  <2>1. tree' \in [Paths -> Entries \cup {NULL}]
    BY <1>1, <1>2 DEF TypeOK, Without
  <2>2. entries' \in [Entries -> Entry \cup {NULL}]
    BY <1>2, <1>4, <1>5
  <2> QED
    BY <1>1, <1>3, <2>1, <2>2 DEF TypeOK
<1>9. Counted'
  <2> SUFFICES ASSUME NEW d \in Entries
               PROVE  IF entries'[d] = NULL THEN Users(d)' = 0 ELSE entries'[d].refcount >= Users(d)'
    BY DEF Counted
  <2>1. Users(d)' = Users(d)
    BY <1>3, UsersSame, UsingFinite
  <2>2. IF entries[d] = NULL THEN Users(d) = 0 ELSE entries[d].refcount >= Users(d)
    BY <1>1 DEF Counted
  <2> QED
    BY <1>2, <1>4, <1>5, <1>6, <2>1, <2>2
<1>10. TreeSound'
  <2> SUFFICES ASSUME NEW q \in Paths, tree'[q] # NULL
               PROVE  /\ entries'[tree'[q]] # NULL /\ ~entries'[tree'[q]].isInactive
                      /\ Stat(Parent(q))' = "directory"
                      /\ \A r \in Paths \ {q} : tree'[r] # tree'[q]
    BY DEF TreeSound
  <2>1. \A r \in Paths : tree[r] # NULL => tree[r] # new /\ tree[r] \in Entries
    BY <1>1, <1>2 DEF TreeSound, TypeOK
  <2>2. CASE q = p
    <3>1. Parent(p) = Root \/ (Parent(p) \in Paths /\ Parent(p) # p /\ Parent(p) \notin Below(p))
      BY PathsAssumption, NamesAssumption DEF Below
    <3>2. Stat(Parent(p))' = "directory"
      <4>1. CASE Parent(p) = Root
        BY <4>1 DEF Stat
      <4>2. CASE Parent(p) # Root
        <5>1. tree[Parent(p)] # NULL /\ entries[tree[Parent(p)]].data = NULL
          BY <1>1, <1>3, <3>1, <4>2, AtPath
        <5>2. tree'[Parent(p)] = tree[Parent(p)]
                /\ entries'[tree[Parent(p)]] = entries[tree[Parent(p)]]
          BY <1>5, <1>6, <1>7, <2>1, <3>1, <4>2, <5>1
        <5> QED
          BY <4>2, <5>1, <5>2 DEF Stat, IsDirectory
      <4> QED
        BY <4>1, <4>2
    <3> QED
      BY <1>2, <1>4, <1>6, <1>7, <2>1, <2>2, <3>2
  <2>3. CASE q # p
    <3>1. /\ q \notin Below(p) /\ tree'[q] = tree[q] /\ tree[q] # NULL
          /\ entries'[tree[q]] = entries[tree[q]]
      BY <1>5, <1>6, <1>7, <2>1, <2>3
    <3>2. Parent(q) = Root \/ (Parent(q) \in Paths /\ Parent(q) \notin Below(p))
      BY <1>1, <3>1, BelowPath
    <3>3. Stat(Parent(q))' = "directory"
      <4>1. CASE Parent(q) = Root
        BY <4>1 DEF Stat
      <4>2. CASE Parent(q) # Root
        <5>1. tree[Parent(q)] # NULL /\ entries[tree[Parent(q)]].data = NULL
          BY <1>1, <3>1, <3>2, <4>2, AtPath DEF TreeSound
        <5>2. Parent(q) # p
          BY <3>2, <4>2 DEF Below
        <5>3. tree'[Parent(q)] = tree[Parent(q)]
                /\ entries'[tree[Parent(q)]] = entries[tree[Parent(q)]]
          BY <1>5, <1>6, <1>7, <2>1, <3>2, <4>2, <5>1, <5>2
        <5> QED
          BY <4>2, <5>1, <5>3 DEF Stat, IsDirectory
      <4> QED
        BY <4>1, <4>2
    <3> QED
      BY <1>1, <1>7, <2>1, <2>3, <3>1, <3>3 DEF TreeSound
  <2> QED
    BY <2>2, <2>3
<1>11. OpenedKept'
  <2>1. \A d \in Entries : entries[d] # NULL /\ entries'[d] # NULL
                             => entries'[d].data = entries[d].data
    BY <1>2, <1>5, <1>6
  <2> QED
    BY <1>1, <1>3, <1>8, <1>9, <2>1, OpenKept DEF TypeOK
<1>12. PathOrEntry'
  BY <1>1, <1>3 DEF PathOrEntry
<1> QED
  BY <1>8, <1>9, <1>10, <1>11, <1>12 DEF IInv

\* The entry of a file leaves the tree: first the user that the buffer was, if it
\* was in it, then the entry, unless a channel still has it.
LEMMA FileGone ==
  ASSUME IInv, NEW p \in Paths, NEW old \in Entries, old = tree[p]
  PROVE  LET es == Freed(IF old \in buffered THEN Unlocked(entries, old) ELSE entries, {old})
         IN /\ es \in [Entries -> Entry \cup {NULL}]
            /\ \A d \in Entries \ {old} : es[d] = entries[d]
            /\ IF es[old] = NULL THEN Users(old) - (IF old \in buffered THEN 1 ELSE 0) = 0
               ELSE /\ es[old].data = entries[old].data /\ es[old].place = entries[old].place
                    /\ es[old].refcount >= Users(old) - (IF old \in buffered THEN 1 ELSE 0)
            /\ entries[old] # NULL
<1> DEFINE es1 == IF old \in buffered THEN Unlocked(entries, old) ELSE entries
           es == Freed(es1, {old})
<1>1. /\ entries \in [Entries -> Entry \cup {NULL}]
      /\ entries[old] # NULL /\ entries[old] \in Entry /\ ~entries[old].isInactive
      /\ entries[old].refcount \in Nat /\ entries[old].refcount >= Users(old)
      /\ Users(old) \in Nat
  BY NamesAssumption, UsingFinite DEF IInv, TypeOK, TreeSound, Counted, Entry
<1>2. old \in buffered => entries[old].refcount >= 1
  BY <1>1, UsingFinite
<1>3. /\ es1 \in [Entries -> Entry \cup {NULL}]
      /\ \A d \in Entries \ {old} : es1[d] = entries[d]
      /\ es1[old] # NULL /\ es1[old].data = entries[old].data
      /\ es1[old].place = entries[old].place
      /\ es1[old].refcount = entries[old].refcount - (IF old \in buffered THEN 1 ELSE 0)
  BY <1>1, <1>2, UnlockedEntries
<1> HIDE DEF es1
<1>4. \A d \in Entries : es[d] \in Entry \cup {NULL}
  BY <1>3, FreedEntry
<1>5. es \in [Entries -> Entry \cup {NULL}]
  BY <1>4 DEF Freed
<1>6. \A d \in Entries \ {old} : es[d] = es1[d]
  BY <1>3, FreedEntry
<1>7. IF es1[old].refcount > 0
      THEN /\ es[old] # NULL /\ es[old].data = es1[old].data
           /\ es[old].place = es1[old].place /\ es[old].refcount = es1[old].refcount
      ELSE es[old] = NULL
  <2> DEFINE S == {old}
  <2>1. old \in S
    OBVIOUS
  <2>2. es = Freed(es1, S)
    OBVIOUS
  <2> HIDE DEF S, es
  <2> QED
    BY <1>3, <2>1, <2>2, FreedEntry
<1>8. old \in buffered => Users(old) >= 1
  BY UsingFinite
<1> HIDE DEF es
<1>9. IF es[old] = NULL THEN Users(old) - (IF old \in buffered THEN 1 ELSE 0) = 0
      ELSE /\ es[old].data = entries[old].data /\ es[old].place = entries[old].place
           /\ es[old].refcount >= Users(old) - (IF old \in buffered THEN 1 ELSE 0)
  BY <1>1, <1>3, <1>7, <1>8
<1> QED
  BY ZenonT(60), <1>1, <1>3, <1>5, <1>6, <1>9 DEF es1, es

\* Deleting a file.
LEMMA DeleteFileStep ==
  ASSUME IInv, NEW p \in Paths, DeleteFile(p)
  PROVE  IInv'
<1>1. TypeOK /\ TreeSound /\ Counted /\ OpenedKept /\ PathOrEntry
  BY DEF IInv
<1>2. PICK old \in Entries : old = tree[p] /\ old # NULL
  BY <1>1, NamesAssumption DEF DeleteFile, TypeOK
<1>3. /\ entries' = Freed(IF old \in buffered THEN Unlocked(entries, old) ELSE entries, {old})
      /\ buffered' = buffered \ {old} /\ tree' = [tree EXCEPT ![p] = NULL]
      /\ UNCHANGED <<channels, readonly, inMemory, hung>>
      /\ entries[old].data # NULL
  BY <1>2 DEF DeleteFile, IsDirectory
<1>4. /\ entries' \in [Entries -> Entry \cup {NULL}]
      /\ \A d \in Entries \ {old} : entries'[d] = entries[d]
      /\ IF entries'[old] = NULL THEN Users(old) - (IF old \in buffered THEN 1 ELSE 0) = 0
         ELSE /\ entries'[old].data = entries[old].data
              /\ entries'[old].refcount >= Users(old) - (IF old \in buffered THEN 1 ELSE 0)
      /\ entries[old] # NULL
  BY <1>2, <1>3, FileGone
<1>5. TypeOK'
  BY <1>1, <1>3, <1>4 DEF TypeOK
<1>6. Counted'
  <2> SUFFICES ASSUME NEW d \in Entries
               PROVE  IF entries'[d] = NULL THEN Users(d)' = 0 ELSE entries'[d].refcount >= Users(d)'
    BY DEF Counted
  <2>1. Users(d)' = Users(d)
           - (IF d \in buffered THEN 1 ELSE 0) + (IF d \in buffered' THEN 1 ELSE 0)
    BY <1>3, UsersSame
  <2>2. Users(d) \in Nat
    BY UsingFinite
  <2>3. CASE d = old
    BY <1>3, <1>4, <2>1, <2>2, <2>3
  <2>4. CASE d # old
    <3>1. Users(d)' = Users(d)
      BY <1>3, <2>1, <2>2, <2>4
    <3>2. entries'[d] = entries[d]
      BY <1>4, <2>4
    <3> QED
      BY <1>1, <3>1, <3>2 DEF Counted
  <2> QED
    BY <2>3, <2>4
<1>7. TreeSound'
  <2>1. \A q \in Paths : /\ tree'[q] = IF q = p THEN NULL ELSE tree[q]
                         /\ tree'[q] # NULL => tree[q] \in Entries \ {old}
    BY <1>1, <1>2, <1>3 DEF TypeOK, TreeSound
  <2> SUFFICES ASSUME NEW q \in Paths, tree'[q] # NULL
               PROVE  /\ entries'[tree'[q]] # NULL /\ ~entries'[tree'[q]].isInactive
                      /\ Stat(Parent(q))' = "directory"
                      /\ \A r \in Paths \ {q} : tree'[r] # tree'[q]
    BY DEF TreeSound
  <2>2. entries'[tree'[q]] = entries[tree[q]] /\ tree'[q] = tree[q] /\ tree[q] # NULL
    BY <1>4, <2>1
  <2>3. Stat(Parent(q))' = "directory"
    <3>1. CASE Parent(q) = Root
      BY <3>1 DEF Stat
    <3>2. CASE Parent(q) # Root
      <4>1. /\ Parent(q) \in Paths /\ tree[Parent(q)] # NULL
            /\ entries[tree[Parent(q)]].data = NULL
        BY <1>1, <2>2, <3>2, AtPath DEF TreeSound
      <4>2. Parent(q) # p
        BY <1>2, <1>3, <4>1
      <4>3. tree'[Parent(q)] = tree[Parent(q)]
              /\ entries'[tree[Parent(q)]] = entries[tree[Parent(q)]]
        BY <1>4, <2>1, <4>1, <4>2
      <4> QED
        BY <3>2, <4>1, <4>3 DEF Stat, IsDirectory
    <3> QED
      BY <3>1, <3>2
  <2> QED
    BY <1>1, <2>1, <2>2, <2>3 DEF TreeSound
<1>8. OpenedKept'
  <2>1. \A d \in Entries : entries[d] # NULL /\ entries'[d] # NULL
                             => entries'[d].data = entries[d].data
    BY <1>4
  <2> QED
    BY <1>1, <1>3, <1>5, <1>6, <2>1, OpenKept DEF TypeOK
<1>9. PathOrEntry'
  BY <1>1, <1>3 DEF PathOrEntry
<1> QED
  BY <1>5, <1>6, <1>7, <1>8, <1>9 DEF IInv

\* Storing a file: what it is about, and what happens to each entry.
LEMMA Storing ==
  ASSUME IInv, NEW ch \in Channels, CloseStored(ch)
  PROVE  \E p \in Paths, u \in Entries, new \in Entry, data \in Contents :
           /\ p = channels[ch].path /\ data = channels[ch].data
           /\ channels[ch] # NULL /\ channels' = [channels EXCEPT ![ch] = NULL]
           /\ Stat(Parent(p)) = "directory" /\ Stat(p) \in {"file", "ENOENT"}
           /\ entries[u] = NULL /\ tree' = [tree EXCEPT ![p] = u]
           /\ new.data = data /\ ~new.isInactive /\ new.place \in Places \ {"lost"}
           /\ new.refcount >= IF u \in buffered' THEN 1 ELSE 0
           /\ \A d \in Entries \ {u} : d \in buffered' <=> d \in buffered /\ d # tree[p]
           /\ buffered' \subseteq Entries
           /\ entries' \in [Entries -> Entry \cup {NULL}] /\ entries'[u] = new
           /\ \A d \in Entries \ {u} :
                /\ entries[d] = NULL => entries'[d] = NULL
                /\ entries[d] # NULL /\ entries'[d] # NULL =>
                     /\ entries'[d].data = entries[d].data
                     /\ entries'[d].place = entries[d].place
                /\ d # tree[p] /\ entries[d] # NULL /\ ~entries[d].isInactive =>
                     entries'[d] # NULL /\ ~entries'[d].isInactive
                /\ IF entries'[d] = NULL THEN Users(d)' = 0
                   ELSE entries'[d].refcount >= Users(d)'
           /\ Users(u)' = IF u \in buffered' THEN 1 ELSE 0
<1>1. TypeOK /\ TreeSound /\ Counted /\ OpenedKept /\ PathOrEntry
  BY DEF IInv
<1>2. PICK c \in Writer : c = channels[ch]
  BY <1>1 DEF CloseStored, TypeOK, Reader
<1>3. PICK p \in Paths, data \in Contents, ce \in Entries \cup {NULL} :
        p = c.path /\ data = c.data /\ ce = c.entry
  BY <1>2 DEF CloseStored, Writer
<1>4. PICK u \in Entries : u = Unused(entries) /\ entries[u] = NULL /\ u # NULL
  BY <1>1, Fresh, NamesAssumption DEF CloseStored
<1>5. PICK at \in Placed(data) :
        LET new == [NewEntry(data, at.place, FALSE) EXCEPT !.refcount = at.refcount]
            es == Replaced(p, new)
        IN /\ entries' = IF ce = NULL THEN es ELSE Unlocked(es, ce)
           /\ tree' = [tree EXCEPT ![p] = u]
           /\ buffered' = (buffered \ {tree[p]}) \cup (IF at.place = "buffer" THEN {u} ELSE {})
  BY <1>2, <1>3, <1>4 DEF CloseStored
<1> DEFINE new == [NewEntry(data, at.place, FALSE) EXCEPT !.refcount = at.refcount]
           old == tree[p]
           es0 == IF old = NULL THEN entries
                  ELSE Freed(IF old \in buffered THEN Unlocked(entries, old) ELSE entries, {old})
           es1 == [es0 EXCEPT ![u] = new]
           B(d) == IF d = old /\ d \in buffered THEN 1 ELSE 0
<1>6. /\ entries' = IF ce = NULL THEN es1 ELSE Unlocked(es1, ce)
      /\ tree' = [tree EXCEPT ![p] = u]
      /\ buffered' = (buffered \ {old}) \cup (IF at.place = "buffer" THEN {u} ELSE {})
  BY <1>4, <1>5 DEF Replaced
<1>7. /\ at.place \in Places \ {"lost"} /\ at.refcount \in {0, 1}
      /\ at.place = "buffer" => at.refcount = 1
  BY DEF Placed, Places
<1>8. /\ new \in Entry /\ new # NULL /\ new.data = data /\ ~new.isInactive
      /\ new.place = at.place /\ new.refcount = at.refcount
  <2>1. NewEntry(data, at.place, FALSE) \in Entry
    BY <1>7 DEF NewEntry, Entry
  <2>2. NewEntry(data, at.place, FALSE).data = data
          /\ ~NewEntry(data, at.place, FALSE).isInactive
          /\ NewEntry(data, at.place, FALSE).place = at.place
    BY DEF NewEntry
  <2>3. new \in Entry
    <3> DEFINE y == NewEntry(data, at.place, FALSE)
    <3>1. y \in Entry
      BY <2>1
    <3>3. at.refcount \in Nat
      BY <1>7
    <3>2. new = [y EXCEPT !.refcount = at.refcount]
      OBVIOUS
    <3> HIDE DEF y, new
    <3> QED
      BY <3>1, <3>2, <3>3 DEF Entry
  <2>4. new.data = data /\ ~new.isInactive /\ new.refcount = at.refcount /\ new.place = at.place
    BY <2>1, <2>2 DEF Entry
  <2> QED
    BY <2>3, <2>4, NamesAssumption
<1>9. /\ channels[ch] # NULL /\ channels' = [channels EXCEPT ![ch] = NULL]
      /\ Stat(Parent(p)) = "directory" /\ (ce # NULL => ~entries[ce].isInactive)
      /\ Stat(p) \in {"file", "ENOENT"}
  <2>1. MaySet(p, FALSE) /\ Closed(ch) /\ channels[ch] # NULL
          /\ (ce # NULL => ~entries[ce].isInactive)
    BY <1>2, <1>3 DEF CloseStored
  <2> QED
    BY <1>1, <2>1, AtPath DEF MaySet, Closed, IsDirectory
<1>10. /\ \A d : Users(d) \in Nat
       /\ u \notin buffered /\ Users(u) = 0 /\ ce # u /\ u # old
       /\ ce # NULL => Users(ce) >= 1 + (IF ce \in buffered THEN 1 ELSE 0)
  <2>1. Users(u) = 0
    BY <1>1, <1>4 DEF Counted
  <2>2. u \notin buffered
    BY <2>1, UsingFinite
  <2>3. ce # u
    BY <1>2, <1>3, <1>9, <2>1, UsersAtLeast, UsingFinite
  <2>4. u # old
    BY <1>1, <1>4 DEF TreeSound
  <2> QED
    BY <1>2, <1>3, <1>9, <2>1, <2>2, <2>3, <2>4, UsersAtLeast, UsingFinite
<1>11. /\ es0 \in [Entries -> Entry \cup {NULL}]
       /\ \A d \in Entries : d # old => es0[d] = entries[d]
       /\ \A d \in Entries :
            /\ entries[d] = NULL => es0[d] = NULL
            /\ IF es0[d] = NULL THEN Users(d) - B(d) = 0
               ELSE /\ es0[d].data = entries[d].data /\ es0[d].place = entries[d].place
                    /\ es0[d].refcount >= Users(d) - B(d)
  <2>1. \A d \in Entries : IF entries[d] = NULL THEN Users(d) = 0
                           ELSE entries[d].refcount >= Users(d)
    BY <1>1 DEF Counted
  <2>2. CASE old = NULL
    <3>1. \A d \in Entries : d # old /\ B(d) = 0
      BY <2>2, NamesAssumption
    <3> QED
      BY <1>1, <1>10, <2>1, <2>2, <3>1 DEF TypeOK
  <2>3. CASE old # NULL
    <3>1. PICK o \in Entries : o = old
      BY <1>1, <2>3 DEF TypeOK
    <3>2. es0 = Freed(IF o \in buffered THEN Unlocked(entries, o) ELSE entries, {o})
      BY <2>3, <3>1
    <3> HIDE DEF es0
    <3>3. /\ es0 \in [Entries -> Entry \cup {NULL}]
          /\ \A d \in Entries \ {o} : es0[d] = entries[d]
          /\ IF es0[o] = NULL THEN Users(o) - (IF o \in buffered THEN 1 ELSE 0) = 0
             ELSE /\ es0[o].data = entries[o].data /\ es0[o].place = entries[o].place
                  /\ es0[o].refcount >= Users(o) - (IF o \in buffered THEN 1 ELSE 0)
          /\ entries[o] # NULL
      BY SMTT(60), <3>1, <3>2, FileGone
    <3> QED
      BY <1>10, <2>1, <3>1, <3>3
  <2> QED
    BY <2>2, <2>3
<1> HIDE DEF new, old, es0, es1
<1>12. /\ es1 \in [Entries -> Entry \cup {NULL}] /\ es1[u] = new
       /\ \A d \in Entries \ {u} : es1[d] = es0[d]
  BY <1>8, <1>11 DEF es1
<1>13. ce # NULL => es1[ce] # NULL /\ es1[ce].refcount >= 1 /\ es1[ce].refcount \in Nat
  <2> SUFFICES ASSUME ce # NULL
               PROVE  es1[ce] # NULL /\ es1[ce].refcount >= 1 /\ es1[ce].refcount \in Nat
    OBVIOUS
  <2>1. Users(ce) - B(ce) >= 1 /\ Users(ce) - B(ce) \in Int
    BY <1>10
  <2>2. es1[ce] = es0[ce] /\ es0[ce] \in Entry \cup {NULL}
    BY <1>10, <1>11, <1>12
  <2>3. es0[ce] # NULL /\ es0[ce].refcount >= Users(ce) - B(ce)
    BY <1>11, <2>1
  <2>4. es0[ce].refcount \in Nat
    BY <2>2, <2>3 DEF Entry
  <2> HIDE DEF B
  <2> QED
    BY <2>1, <2>2, <2>3, <2>4
<1>14. /\ entries' \in [Entries -> Entry \cup {NULL}]
       /\ \A d \in Entries : d # ce => entries'[d] = es1[d]
       /\ ce # NULL => IF es1[ce].isInactive /\ es1[ce].refcount = 1 THEN entries'[ce] = NULL
                       ELSE /\ entries'[ce] # NULL /\ entries'[ce].data = es1[ce].data
                            /\ entries'[ce].place = es1[ce].place
                            /\ entries'[ce].isInactive = es1[ce].isInactive
                            /\ entries'[ce].refcount = es1[ce].refcount - 1
  <2>1. CASE ce = NULL
    BY <1>6, <1>12, <2>1
  <2>2. CASE ce # NULL
    <3>1. PICK e \in Entries : e = ce
      BY <2>2
    <3>2. entries' = Unlocked(es1, e) /\ es1[e] # NULL /\ es1[e].refcount >= 1
      BY <1>6, <1>13, <2>2, <3>1
    <3> QED
      BY <1>12, <2>2, <3>1, <3>2, UnlockedEntries
  <2> QED
    BY <2>1, <2>2
<1>15. ASSUME NEW d \in Entries
       PROVE  Users(d)' = Users(d) - (IF d = ce THEN 1 ELSE 0)
                - (IF d \in buffered THEN 1 ELSE 0) + (IF d \in buffered' THEN 1 ELSE 0)
  <2>1. Users(d)' = Users(d)
           - (IF channels[ch] # NULL /\ channels[ch].entry = d THEN 1 ELSE 0)
           + (IF NULL # NULL /\ NULL.entry = d THEN 1 ELSE 0)
           - (IF d \in buffered THEN 1 ELSE 0) + (IF d \in buffered' THEN 1 ELSE 0)
    BY <1>1, <1>9, UsersChange
  <2> QED
    BY <1>2, <1>3, <1>9, <1>10, <2>1
<1>16. /\ \A d \in Entries \ {u} : d \in buffered' <=> d \in buffered /\ d # old
       /\ buffered' \subseteq Entries
       /\ u \in buffered' <=> at.place = "buffer"
  BY <1>1, <1>6, <1>10 DEF TypeOK
<1>17. ASSUME NEW d \in Entries \ {u}
       PROVE  /\ entries[d] = NULL => entries'[d] = NULL
              /\ entries[d] # NULL /\ entries'[d] # NULL =>
                   entries'[d].data = entries[d].data /\ entries'[d].place = entries[d].place
              /\ d # old /\ entries[d] # NULL /\ ~entries[d].isInactive =>
                   entries'[d] # NULL /\ ~entries'[d].isInactive
              /\ IF entries'[d] = NULL THEN Users(d)' = 0 ELSE entries'[d].refcount >= Users(d)'
  <2>1. Users(d)' = Users(d) - (IF d = ce THEN 1 ELSE 0) - B(d) /\ Users(d) \in Nat
    BY <1>10, <1>15, <1>16
  <2>2. /\ es1[d] = es0[d] /\ (d # old => es0[d] = entries[d])
        /\ entries[d] = NULL => es0[d] = NULL
        /\ IF es0[d] = NULL THEN Users(d) - B(d) = 0
           ELSE /\ es0[d].data = entries[d].data /\ es0[d].place = entries[d].place
                /\ es0[d].refcount >= Users(d) - B(d)
    BY <1>11, <1>12
  <2>3. es1[d] # NULL => es1[d].refcount \in Nat
    BY <1>12 DEF Entry
  <2>4. CASE d # ce
    BY <1>14, <2>1, <2>2, <2>4
  <2>5. CASE d = ce
    <3>1. d # NULL /\ ~entries[d].isInactive /\ es1[d] # NULL
      BY <1>9, <1>13, <2>5, NamesAssumption
    <3>2. IF es1[d].isInactive /\ es1[d].refcount = 1 THEN entries'[d] = NULL
          ELSE /\ entries'[d] # NULL /\ entries'[d].data = es1[d].data
               /\ entries'[d].place = es1[d].place
               /\ entries'[d].isInactive = es1[d].isInactive
               /\ entries'[d].refcount = es1[d].refcount - 1
      BY <1>14, <2>5, <3>1
    <3>3. Users(d) - B(d) >= 1
      BY <1>10, <2>5, <3>1
    <3> QED
      BY SMTT(60), <2>1, <2>2, <2>3, <2>5, <3>1, <3>2, <3>3
  <2> QED
    BY <2>4, <2>5
<1>18. Users(u)' = (IF u \in buffered' THEN 1 ELSE 0) /\ entries'[u] = new
  BY <1>10, <1>12, <1>14, <1>15
<1>19. new.refcount >= IF u \in buffered' THEN 1 ELSE 0
  BY <1>7, <1>8, <1>16
<1>20. new \in Entry
  BY <1>8
<1> WITNESS p \in Paths, u \in Entries, new \in Entry, data \in Contents
<1> QED
  BY <1>2, <1>3, <1>4, <1>6, <1>7, <1>8, <1>9, <1>14, <1>16, <1>17, <1>18, <1>19 DEF old

\* A file is stored.
LEMMA CloseStoredStep ==
  ASSUME IInv, NEW ch \in Channels, CloseStored(ch)
  PROVE  IInv'
<1>1. TypeOK /\ TreeSound /\ Counted /\ OpenedKept /\ PathOrEntry
  BY DEF IInv
<1>2. PICK p \in Paths, u \in Entries, new \in Entry :
        /\ channels' = [channels EXCEPT ![ch] = NULL]
        /\ Stat(Parent(p)) = "directory" /\ Stat(p) \in {"file", "ENOENT"}
        /\ entries[u] = NULL /\ tree' = [tree EXCEPT ![p] = u]
        /\ ~new.isInactive
        /\ new.refcount >= IF u \in buffered' THEN 1 ELSE 0
        /\ buffered' \subseteq Entries
        /\ entries' \in [Entries -> Entry \cup {NULL}] /\ entries'[u] = new
        /\ \A d \in Entries \ {u} :
             /\ entries[d] = NULL => entries'[d] = NULL
             /\ entries[d] # NULL /\ entries'[d] # NULL => entries'[d].data = entries[d].data
             /\ d # tree[p] /\ entries[d] # NULL /\ ~entries[d].isInactive =>
                  entries'[d] # NULL /\ ~entries'[d].isInactive
             /\ IF entries'[d] = NULL THEN Users(d)' = 0
                ELSE entries'[d].refcount >= Users(d)'
        /\ Users(u)' = IF u \in buffered' THEN 1 ELSE 0
  <2>1. PICK p \in Paths, u \in Entries, new \in Entry, data \in Contents :
           /\ channels' = [channels EXCEPT ![ch] = NULL]
           /\ Stat(Parent(p)) = "directory" /\ Stat(p) \in {"file", "ENOENT"}
           /\ entries[u] = NULL /\ tree' = [tree EXCEPT ![p] = u]
           /\ ~new.isInactive
           /\ new.refcount >= IF u \in buffered' THEN 1 ELSE 0
           /\ buffered' \subseteq Entries
           /\ entries' \in [Entries -> Entry \cup {NULL}] /\ entries'[u] = new
           /\ \A d \in Entries \ {u} :
                /\ entries[d] = NULL => entries'[d] = NULL
                /\ entries[d] # NULL /\ entries'[d] # NULL =>
                     /\ entries'[d].data = entries[d].data
                     /\ entries'[d].place = entries[d].place
                /\ d # tree[p] /\ entries[d] # NULL /\ ~entries[d].isInactive =>
                     entries'[d] # NULL /\ ~entries'[d].isInactive
                /\ IF entries'[d] = NULL THEN Users(d)' = 0
                   ELSE entries'[d].refcount >= Users(d)'
           /\ Users(u)' = IF u \in buffered' THEN 1 ELSE 0
    BY Storing
  <2> QED
    BY ZenonT(60), <2>1
<1>3. UNCHANGED <<readonly, inMemory, hung>>
  BY DEF CloseStored
<1>4. TypeOK'
  BY <1>1, <1>2, <1>3 DEF TypeOK
<1>5. new # NULL
  BY NamesAssumption
<1>6. Counted'
  BY <1>2, <1>5 DEF Counted
<1>7. TreeSound'
  <2>1. \A q \in Paths : /\ tree'[q] = IF q = p THEN u ELSE tree[q]
                         /\ q # p /\ tree[q] # NULL => tree[q] \in Entries \ {u, tree[p]}
    BY <1>1, <1>2 DEF TypeOK, TreeSound
  <2> SUFFICES ASSUME NEW q \in Paths, tree'[q] # NULL
               PROVE  /\ entries'[tree'[q]] # NULL /\ ~entries'[tree'[q]].isInactive
                      /\ Stat(Parent(q))' = "directory"
                      /\ \A r \in Paths \ {q} : tree'[r] # tree'[q]
    BY DEF TreeSound
  <2>2. ASSUME NEW r \in Paths, r # p, tree[r] # NULL
        PROVE  /\ entries'[tree[r]] # NULL /\ ~entries'[tree[r]].isInactive
               /\ entries'[tree[r]].data = entries[tree[r]].data
    BY <1>1, <1>2, <2>1, <2>2 DEF TreeSound
  <2>3. Stat(Parent(q)) = "directory"
    BY <1>1, <1>2, <2>1 DEF TreeSound
  <2>4. Stat(Parent(q))' = "directory"
    <3>1. CASE Parent(q) = Root
      BY <3>1 DEF Stat
    <3>2. CASE Parent(q) # Root
      <4>1. Parent(q) \in Paths /\ tree[Parent(q)] # NULL /\ entries[tree[Parent(q)]].data = NULL
        BY <1>1, <2>3, <3>2, AtPath
      <4>2. Parent(q) # p
        BY <1>2, <2>3
      <4>3. tree'[Parent(q)] = tree[Parent(q)] /\ entries'[tree[Parent(q)]].data = NULL
        BY <2>1, <2>2, <4>1, <4>2
      <4> QED
        BY <3>2, <4>1, <4>3 DEF Stat, IsDirectory
    <3> QED
      BY <3>1, <3>2
  <2>5. entries'[tree'[q]] # NULL /\ ~entries'[tree'[q]].isInactive
    BY <1>2, <1>5, <2>1, <2>2
  <2>6. \A r \in Paths \ {q} : tree'[r] # tree'[q]
    BY <1>1, <2>1, NamesAssumption DEF TreeSound, TypeOK
  <2> QED
    BY <2>4, <2>5, <2>6
<1>8. OpenedKept'
  <2>1. \A d \in Entries : entries[d] # NULL /\ entries'[d] # NULL
                             => entries'[d].data = entries[d].data
    BY <1>2
  <2>2. \A d \in Channels : channels'[d] # NULL => channels'[d] = channels[d]
    BY <1>1, <1>2 DEF TypeOK
  <2> QED
    BY <1>1, <1>4, <1>6, <2>1, <2>2, OpenKept DEF TypeOK
<1>9. PathOrEntry'
  BY <1>1, <1>2 DEF PathOrEntry, TypeOK
<1> QED
  BY <1>4, <1>6, <1>7, <1>8, <1>9 DEF IInv

\* Each step keeps the invariant.
LEMMA StepInv == IInv /\ [Next]_vars => IInv'
<1> SUFFICES ASSUME IInv, [Next]_vars PROVE IInv'
  OBVIOUS
<1>0. TypeOK /\ PathOrEntry
  BY DEF IInv
<1>1. ASSUME NEW ch \in Channels, CloseUnchanged(ch) PROVE IInv'
  <2>1. /\ channels[ch] # NULL
        /\ channels[ch].kind = "writer" => channels[ch].path = NULL
        /\ entries' = Unlocked(entries, channels[ch].entry)
        /\ channels' = [channels EXCEPT ![ch] = NULL]
        /\ UNCHANGED <<tree, buffered, readonly, inMemory, hung>>
    BY <1>1 DEF CloseUnchanged, Closed
  <2>2. channels[ch].entry \in Entries
    BY <1>0, <2>1 DEF TypeOK, PathOrEntry, Reader, Writer
  <2> QED
    BY <2>1, <2>2, GiveBack
<1>2. ASSUME NEW ch \in Channels, CloseDropped(ch) PROVE IInv'
  <2>1. /\ channels[ch] # NULL /\ channels[ch].entry # NULL
        /\ entries' = Unlocked(entries, channels[ch].entry)
        /\ channels' = [channels EXCEPT ![ch] = NULL]
        /\ UNCHANGED <<tree, buffered, readonly, inMemory, hung>>
    BY <1>2 DEF CloseDropped, Closed
  <2>2. channels[ch].entry \in Entries
    BY <1>0, <2>1 DEF TypeOK, Reader, Writer
  <2> QED
    BY <2>1, <2>2, GiveBack
<1>3. ASSUME NEW ch \in Channels, CloseRefused(ch) PROVE IInv'
  <2> DEFINE x == NULL
  <2>1. /\ channels[ch] # NULL /\ channels[ch].kind = "writer"
        /\ x = NULL /\ channels[ch].entry = NULL
        /\ channels' = [channels EXCEPT ![ch] = x]
        /\ UNCHANGED <<entries, tree, buffered, readonly, inMemory>> /\ hung' \in BOOLEAN
    BY <1>3 DEF CloseRefused, Closed
  <2>2. {readonly', inMemory', hung'} \subseteq BOOLEAN
    BY <1>0, <2>1 DEF TypeOK
  <2> HIDE DEF x
  <2> QED
    BY <2>1, <2>2, ChannelOnly
<1>4. ASSUME NEW ch \in Channels, NEW c \in Contents, Write(ch, c) PROVE IInv'
  <2> DEFINE x == [channels[ch] EXCEPT !.data = c]
  <2>1. /\ channels[ch] # NULL /\ channels[ch].kind = "writer"
        /\ channels' = [channels EXCEPT ![ch].data = c]
        /\ UNCHANGED <<entries, tree, buffered, readonly, inMemory, hung>>
    BY <1>4 DEF Write
  <2>2. channels[ch] \in Writer
    BY <1>0, <2>1 DEF TypeOK, Reader
  <2>3. x \in Writer /\ x.entry = channels[ch].entry /\ x.path = channels[ch].path
    BY <2>2 DEF Writer
  <2>4. channels' = [channels EXCEPT ![ch] = x]
    BY <2>1
  <2>5. x # NULL /\ {readonly', inMemory', hung'} \subseteq BOOLEAN
    BY <1>0, <2>1, <2>3, NamesAssumption DEF TypeOK
  <2> HIDE DEF x
  <2> QED
    BY <2>1, <2>3, <2>4, <2>5, ChannelOnly
<1>5. ASSUME NEW ch \in Channels, NEW n, NEW good, Input(ch, n, good) PROVE IInv'
  BY <1>0, <1>5, Unmoved DEF Input, TypeOK
<1>6. ASSUME NEW ch \in Channels, NEW offset, WideSeek(ch, offset) PROVE IInv'
  BY <1>0, <1>6, Unmoved DEF WideSeek, TypeOK
<1>7. CASE SetCompression
  BY <1>7, PurgeStep DEF SetCompression
<1>8. CASE SetWritetomemory
  BY <1>0, <1>8, Unmoved DEF SetWritetomemory, TypeOK
<1>9. CASE UNCHANGED vars
  BY <1>0, <1>9, Unmoved DEF vars, TypeOK
<1> QED
  BY <1>1, <1>2, <1>3, <1>4, <1>5, <1>6, <1>7, <1>8, <1>9, OpenStep, CloseStoredStep,
     CreateDirectoryStep, RemoveDirectoryStep, DeleteFileStep DEF Next

\* At the start nothing is open and the tree is the one of the archive.
LEMMA InitInv == Init => IInv
<1> SUFFICES ASSUME Init PROVE IInv
  OBVIOUS
<1> DEFINE place(e) == IF Imported[e] = Empty THEN "empty" ELSE "pages"
<1>1. ASSUME NEW e \in Entries
      PROVE  /\ entries[e] \in Entry \cup {NULL}
             /\ e \in {Mounted[p] : p \in Paths} => entries[e] # NULL /\ ~entries[e].isInactive
             /\ e \in {Mounted[p] : p \in Paths} /\ e \notin DOMAIN Imported => IsDirectory(e)
             /\ entries[e] # NULL => entries[e].refcount = 0
  <2>1. CASE e \notin {Mounted[p] : p \in Paths}
    BY <2>1 DEF Init
  <2>2. CASE e \in {Mounted[p] : p \in Paths} /\ e \in DOMAIN Imported
    <3>1. entries[e] = NewEntry(Imported[e], place(e), TRUE)
      BY <2>2 DEF Init
    <3>2. Imported[e] \in Contents /\ place(e) \in Places
      BY <2>2, MountedAssumption DEF Places
    <3> HIDE DEF place
    <3>3. entries[e] \in Entry /\ ~entries[e].isInactive /\ entries[e].refcount = 0
      BY <3>1, <3>2 DEF NewEntry, Entry
    <3> QED
      BY <2>2, <3>3, NamesAssumption
  <2>3. CASE e \in {Mounted[p] : p \in Paths} /\ e \notin DOMAIN Imported
    <3>1. entries[e] = NewEntry(NULL, NULL, FALSE)
      BY <2>3 DEF Init
    <3>2. entries[e] \in Entry
      BY <3>1 DEF NewEntry, Entry
    <3>3. entries[e].data = NULL /\ ~entries[e].isInactive /\ entries[e].refcount = 0
      BY <3>1 DEF NewEntry
    <3> QED
      BY <2>3, <3>2, <3>3, NamesAssumption DEF IsDirectory
  <2> QED
    BY <2>1, <2>2, <2>3
<1>2. /\ tree = Mounted /\ buffered = {} /\ {readonly, inMemory, hung} \subseteq BOOLEAN
      /\ channels = [ch \in Channels |-> NULL] /\ DOMAIN entries = Entries
      /\ entries = [e \in Entries |-> entries[e]]
  BY DEF Init
<1>3. TypeOK
  BY <1>1, <1>2, MountedAssumption DEF TypeOK
<1>4. Counted
  <2> SUFFICES ASSUME NEW e \in Entries
               PROVE  IF entries[e] = NULL THEN Users(e) = 0 ELSE entries[e].refcount >= Users(e)
    BY DEF Counted
  <2>1. Using(e) = {}
    BY <1>2 DEF Using
  <2>2. Users(e) = 0
    BY <1>2, <2>1, UsingFinite, FS_EmptySet
  <2> QED
    BY <1>1, <2>2
<1>5. TreeSound
  <2> SUFFICES ASSUME NEW p \in Paths, tree[p] # NULL
               PROVE  /\ entries[tree[p]] # NULL
                      /\ ~entries[tree[p]].isInactive
                      /\ Stat(Parent(p)) = "directory"
                      /\ \A q \in Paths \ {p} : tree[q] # tree[p]
    BY DEF TreeSound
  <2>1. Stat(Parent(p)) = "directory"
    <3>1. CASE Parent(p) = Root
      BY <3>1 DEF Stat
    <3>2. CASE Parent(p) # Root
      <4>1. Parent(p) \in Paths /\ Mounted[Parent(p)] \in Entries \ DOMAIN Imported
        BY <1>2, <3>2, PathsAssumption, MountedAssumption
      <4>2. tree[Parent(p)] # NULL /\ IsDirectory(tree[Parent(p)])
        BY <1>1, <1>2, <4>1, NamesAssumption
      <4> QED
        BY <3>2, <4>2 DEF Stat
    <3> QED
      BY <3>1, <3>2
  <2>2. tree[p] \in Entries /\ tree[p] \in {Mounted[q] : q \in Paths}
    BY <1>2, MountedAssumption
  <2> QED
    BY <1>1, <1>2, <2>1, <2>2, MountedAssumption
<1>6. OpenedKept /\ PathOrEntry
  BY <1>2 DEF OpenedKept, PathOrEntry
<1> QED
  BY <1>3, <1>4, <1>5, <1>6 DEF IInv

\* The invariant holds in every reachable state.
THEOREM DriverInvariant == Spec => []IInv
<1>1. Init => IInv
  BY InitInv
<1>2. IInv /\ [Next]_vars => IInv'
  BY StepInv
<1> QED
  BY <1>1, <1>2, PTL DEF Spec

\* Entries that channels or the buffer of the writer have are not freed, whatever
\* other threads delete, replace or purge (Cookfs_FsindexEntryFree, Unlock).
THEOREM EntriesLive == Spec => []HeldEntriesLive
<1>1. IInv => HeldEntriesLive
  BY DEF IInv, HeldEntriesLive, Counted, TreeSound
<1> QED
  BY <1>1, DriverInvariant, PTL

\* A reader channel keeps the entry of the file it opened, and the place of that
\* entry in memory is not used for another (Cookfs_CreateReaderchannelAlloc).
THEOREM ReadersKeepTheirFile == Spec => []OpenedKept
<1>1. IInv => OpenedKept
  BY DEF IInv
<1> QED
  BY <1>1, DriverInvariant, PTL

\* What stat, access and glob tell a program is true of opening the file
\* (CookfsStat, CookfsAccess, CookfsMatchInDirectory, CookfsOpenFileChannel).
THEOREM AnswersAreTrue == Spec => []AnswersAgree
<1>1. IInv => AnswersAgree
  <2> SUFFICES ASSUME IInv, NEW p \in Paths
               PROVE  /\ Access(p, TRUE) = "ok" => OpenOutcome(p, "r+") = "write"
                      /\ Access(p, FALSE) = "ok" <=> Stat(p) # "ENOENT"
                      /\ Stat(p) = "file" <=> OpenOutcome(p, "r") \in {"reader", "buffer"}
                      /\ \A type \in {"file", "directory"} :
                           Stat(p) = type <=> p \in MatchInDirectory(Parent(p), {type})
    BY DEF AnswersAgree
  <2>1. /\ Stat(p) \in {"file", "directory", "ENOENT"}
        /\ Stat(p) = "ENOENT" <=> tree[p] = NULL
        /\ tree[p] # NULL => Stat(Parent(p)) = "directory"
    BY AtPath DEF IInv, TreeSound
  <2>2. Access(p, TRUE) = "ok" => OpenOutcome(p, "r+") = "write"
    BY <2>1 DEF Access, OpenOutcome
  <2>3. Access(p, FALSE) = "ok" <=> Stat(p) # "ENOENT"
    BY DEF Access
  <2>4. Stat(p) = "file" <=> OpenOutcome(p, "r") \in {"reader", "buffer"}
    BY <2>1 DEF OpenOutcome
  <2>5. \A type \in {"file", "directory"} :
          Stat(p) = type <=> p \in MatchInDirectory(Parent(p), {type})
    BY <2>1 DEF MatchInDirectory
  <2> QED
    BY <2>2, <2>3, <2>4, <2>5
<1> QED
  BY <1>1, DriverInvariant, PTL

-----------------------------------------------------------------------------
(* What a reader reads.                                                    *)

\* Of a set of natural numbers one is the least.
LEMMA Least ==
  ASSUME NEW T, T \subseteq Nat, T # {}
  PROVE  \E n \in T : \A m \in T : n <= m
<1> DEFINE Initial == {0 .. n : n \in T}
<1>1. IsWellFoundedOn(StrictSubsetOrdering(Nat), FiniteSubsetsOf(Nat))
  BY FS_StrictSubsetOrderingWellFounded
<1>2. Initial \subseteq FiniteSubsetsOf(Nat)
  <2> SUFFICES ASSUME NEW n \in T PROVE 0 .. n \in FiniteSubsetsOf(Nat)
    OBVIOUS
  <2> QED
    BY FS_Interval, 0 \in Int, n \in Int DEF FiniteSubsetsOf
<1>3. Initial # {}
  OBVIOUS
<1> HIDE DEF Initial
<1>4. PICK B \in Initial : \A C \in Initial : ~(<<C, B>> \in StrictSubsetOrdering(Nat))
  BY <1>1, <1>2, <1>3, WFMin
<1>5. PICK n \in T : B = 0 .. n
  BY <1>4 DEF Initial
<1>6. ASSUME NEW m \in T, m < n
      PROVE FALSE
  <2>1. 0 .. m \in Initial
    BY DEF Initial
  <2>2. 0 .. m \subseteq 0 .. n /\ 0 .. m # 0 .. n /\ 0 .. n \subseteq Nat
    BY <1>6
  <2>3. <<0 .. m, 0 .. n>> \in StrictSubsetOrdering(Nat)
    BY <2>2 DEF StrictSubsetOrdering
  <2> QED
    BY <1>4, <1>5, <2>1, <2>3
<1> QED
  BY <1>6

\* What holds at the start and goes on from each number to the next holds up to
\* any: the least number where it does not hold has none before it.
LEMMA Inductive ==
  ASSUME NEW n \in Nat, NEW T, 0 \in T, \A k \in 1 .. n : k - 1 \in T => k \in T
  PROVE  0 .. n \subseteq T
<1> SUFFICES ASSUME (0 .. n) \ T # {} PROVE FALSE
  OBVIOUS
<1> DEFINE Out == (0 .. n) \ T
<1>1. Out \subseteq Nat /\ Out # {}
  OBVIOUS
<1> HIDE DEF Out
<1>2. PICK m \in Out : \A k \in Out : m <= k
  BY <1>1, Least
<1>3. m \in 1 .. n /\ m - 1 \in 0 .. n
  BY <1>2 DEF Out
<1>4. m - 1 \in T
  BY <1>2, <1>3 DEF Out
<1> QED
  BY <1>2, <1>3, <1>4 DEF Out

\* Every block ends so many bytes after the one before it.
LEMMA EndsOfBlocks ==
  ASSUME NEW sizes \in Seq(Nat)
  PROVE  /\ Ends(sizes)[0] = 0
         /\ \A k \in 1 .. Len(sizes) : Ends(sizes)[k] = Ends(sizes)[k - 1] + sizes[k]
         /\ \A k \in 0 .. Len(sizes) : Ends(sizes)[k] \in Nat
<1> DEFINE n == Len(sizes)
           Body(f, m) == [k \in 0 .. m |-> IF k = 0 THEN 0 ELSE f[k - 1] + sizes[k]]
           T == {m \in 0 .. n : \E f : f = Body(f, m)}
<1>1. 0 \in T
  <2>1. [k \in 0 .. 0 |-> 0] = Body([k \in 0 .. 0 |-> 0], 0)
    OBVIOUS
  <2> HIDE DEF Body
  <2> QED
    BY <2>1
<1>2. ASSUME NEW m \in 1 .. n, m - 1 \in T PROVE m \in T
  <2>1. PICK f : f = Body(f, m - 1)
    BY <1>2
  <2> DEFINE g == [k \in 0 .. m |-> IF k = m THEN f[m - 1] + sizes[m] ELSE f[k]]
  <2>2. g = Body(g, m)
    BY <2>1
  <2> HIDE DEF Body, g
  <2> QED
    BY <2>2
<1>3. n \in T
  <2>1. \A m \in 1 .. n : m - 1 \in T => m \in T
    BY <1>2
  <2>2. n \in Nat
    OBVIOUS
  <2> HIDE DEF T, n
  <2>3. 0 .. n \subseteq T
    BY <1>1, <2>1, <2>2, Inductive
  <2> QED
    BY <2>2, <2>3
<1>4. \E f : f = Body(f, n)
  BY <1>3
<1>5. Ends(sizes) = CHOOSE f : f = Body(f, n)
  BY DEF Ends
<1>6. Ends(sizes) = Body(Ends(sizes), n)
  BY <1>4, <1>5
<1>7. Ends(sizes)[0] = 0 /\ \A k \in 1 .. n : Ends(sizes)[k] = Ends(sizes)[k - 1] + sizes[k]
  BY SMTT(30), <1>6
<1> DEFINE N == {k \in 0 .. n : Ends(sizes)[k] \in Nat}
<1>8. 0 .. n \subseteq N
  <2>1. 0 \in N
    BY <1>7
  <2>2. \A k \in 1 .. n : k - 1 \in N => k \in N
    <3> SUFFICES ASSUME NEW k \in 1 .. n, k - 1 \in N PROVE k \in N
      OBVIOUS
    <3>1. sizes[k] \in Nat /\ Ends(sizes)[k - 1] \in Nat
      OBVIOUS
    <3> QED
      BY <1>7, <3>1
  <2>3. n \in Nat
    OBVIOUS
  <2> HIDE DEF N, n
  <2> QED
    BY <2>1, <2>2, <2>3, Inductive
<1> QED
  BY <1>7, <1>8

\* A block that comes later ends later.
LEMMA EndsRise ==
  ASSUME NEW sizes \in Seq(Nat), NEW k \in 0 .. Len(sizes)
  PROVE  Ends(sizes)[k] <= Ends(sizes)[Len(sizes)]
<1> DEFINE n == Len(sizes)
           E == Ends(sizes)
           T == {d \in 0 .. n : E[n - d] <= E[n]}
<1>1. /\ \A i \in 1 .. n : E[i] = E[i - 1] + sizes[i]
      /\ \A i \in 0 .. n : E[i] \in Nat
  BY EndsOfBlocks
<1> HIDE DEF E
<1>2. 0 \in T
  BY <1>1
<1>3. \A d \in 1 .. n : d - 1 \in T => d \in T
  <2> SUFFICES ASSUME NEW d \in 1 .. n, d - 1 \in T PROVE d \in T
    OBVIOUS
  <2>1. n - d + 1 \in 1 .. n /\ n - (d - 1) = n - d + 1 /\ (n - d + 1) - 1 = n - d
    OBVIOUS
  <2>2. sizes[n - d + 1] \in Nat /\ E[n - d + 1] = E[n - d] + sizes[n - d + 1]
    BY SMTT(30), <1>1, <2>1
  <2>3. E[n - d + 1] <= E[n]
    BY <2>1
  <2>4. E[n - d] \in Nat /\ E[n - d + 1] \in Nat /\ E[n] \in Nat
    BY <1>1, <2>1
  <2>5. E[n - d] <= E[n]
    BY SMTT(30), <2>2, <2>3, <2>4
  <2> QED
    BY <2>5
<1>4. 0 .. n \subseteq T
  <2>1. n \in Nat
    OBVIOUS
  <2> HIDE DEF T, n
  <2> QED
    BY <1>2, <1>3, <2>1, Inductive
<1>5. n - k \in T /\ n - (n - k) = k
  <2>1. n - k \in 0 .. n /\ n - (n - k) = k
    OBVIOUS
  <2> HIDE DEF T
  <2> QED
    BY <1>4, <2>1
<1> QED
  BY <1>5 DEF E

\* The place of an offset is in a block, or behind the last one.
Inside(sizes, offset, block, blockOffset) ==
  /\ block \in 0 .. Len(sizes) /\ blockOffset \in Nat
  /\ block = Len(sizes) => blockOffset = 0
  /\ block < Len(sizes) => blockOffset <= sizes[block + 1]
  /\ offset = Ends(sizes)[block] + blockOffset

\* No place is behind the end of the file.
LEMMA InsideFile ==
  ASSUME NEW sizes \in Seq(Nat), NEW offset, NEW block, NEW blockOffset,
         Inside(sizes, offset, block, blockOffset)
  PROVE  offset \in Nat /\ offset <= Ends(sizes)[Len(sizes)]
<1>1. /\ Ends(sizes)[block] \in Nat /\ Ends(sizes)[Len(sizes)] \in Nat
      /\ Ends(sizes)[block] <= Ends(sizes)[Len(sizes)]
  BY EndsOfBlocks, EndsRise DEF Inside
<1>2. CASE block = Len(sizes)
  BY <1>1, <1>2 DEF Inside
<1>3. CASE block < Len(sizes)
  <2>1. block + 1 \in 1 .. Len(sizes) /\ sizes[block + 1] \in Nat /\ (block + 1) - 1 = block
    BY <1>3 DEF Inside
  <2>2. Ends(sizes)[block + 1] = Ends(sizes)[block] + sizes[block + 1]
    BY <2>1, EndsOfBlocks
  <2>3. Ends(sizes)[block + 1] <= Ends(sizes)[Len(sizes)]
    BY <2>1, EndsRise
  <2> QED
    BY <1>1, <1>3, <2>1, <2>2, <2>3 DEF Inside
<1> QED
  BY <1>2, <1>3 DEF Inside

\* So many bytes behind the offset.
Following(offset, m) == [j \in 1 .. m |-> offset + j]

Shorter(m, n) == IF m < n THEN m ELSE n

\* What is known after the block k: so many bytes were read, those behind the
\* offset, and where the reading stands; it goes on while more is wanted.
ReadSoFar(r, sizes, from, toRead, good, k, m) ==
  /\ m \in 0 .. toRead
  /\ r.left = toRead - m
  /\ r.bytes = Following(from.offset, m)
  /\ Inside(sizes, from.offset + m, r.block, r.blockOffset)
  /\ r.left > 0 /\ k <= good => r.block = IF k <= from.block THEN from.block ELSE k

\* What is read from one block is put behind what was read before it.
LEMMA Joined ==
  ASSUME NEW s \in Seq(Nat), NEW t \in Seq(Nat), NEW u \in Seq(Nat),
         Len(u) = Len(s) + Len(t),
         \A j \in 1 .. Len(s) : u[j] = s[j],
         \A j \in 1 .. Len(t) : u[Len(s) + j] = t[j]
  PROVE  s \o t = u
<1>1. s \o t \in Seq(Nat) /\ Len(s \o t) = Len(s) + Len(t)
  BY ConcatProperties
<1>2. ASSUME NEW j \in 1 .. Len(s) + Len(t) PROVE (s \o t)[j] = u[j]
  <2>1. (s \o t)[j] = IF j <= Len(s) THEN s[j] ELSE t[j - Len(s)]
    BY ConcatProperties
  <2>2. CASE j <= Len(s)
    BY <2>1, <2>2
  <2>3. CASE j > Len(s)
    <3>1. j - Len(s) \in 1 .. Len(t) /\ Len(s) + (j - Len(s)) = j
      BY <2>3
    <3>2. u[Len(s) + (j - Len(s))] = t[j - Len(s)]
      BY <3>1
    <3>3. (s \o t)[j] = t[j - Len(s)]
      BY <2>1, <2>3
    <3> QED
      BY <3>1, <3>2, <3>3
  <2> QED
    BY <2>2, <2>3
<1> QED
  BY <1>1, <1>2, SeqEqual

LEMMA BytesJoined ==
  ASSUME NEW a \in Nat, NEW m \in Nat, NEW n \in Nat
  PROVE  [j \in 1 .. m |-> a + j] \o [j \in 1 .. n |-> a + m + j] = [j \in 1 .. m + n |-> a + j]
<1> DEFINE s == [j \in 1 .. m |-> a + j]
           t == [j \in 1 .. n |-> a + m + j]
           u == [j \in 1 .. m + n |-> a + j]
<1>1. s \in Seq(Nat) /\ t \in Seq(Nat) /\ u \in Seq(Nat)
  OBVIOUS
<1>2. Len(s) = m /\ Len(t) = n /\ Len(u) = m + n
  OBVIOUS
<1>3. \A j \in 1 .. m : u[j] = s[j]
  OBVIOUS
<1>4. \A j \in 1 .. n : u[m + j] = t[j]
  OBVIOUS
<1> HIDE DEF s, t, u
<1>5. s \o t = u
  BY <1>1, <1>2, <1>3, <1>4, Joined
<1> QED
  BY <1>5 DEF s, t, u

\* One block more (the loop of Cookfs_Readerchannel_Input).
LEMMA OneBlock ==
  ASSUME NEW sizes \in Seq(Nat), NEW from, from.offset \in Nat, from.block \in Nat,
         NEW toRead \in Nat, NEW good \in Nat, NEW k \in 1 .. Len(sizes), k > from.block,
         NEW r, NEW m, ReadSoFar(r, sizes, from, toRead, good, k - 1, m)
  PROVE  \E l : ReadSoFar(ReadBlock(r, sizes, k, good), sizes, from, toRead, good, k, l)
<1>1. CASE r.left = 0 \/ k > good
  <2>1. ReadBlock(r, sizes, k, good) = r
    BY <1>1 DEF ReadBlock
  <2>2. ReadSoFar(r, sizes, from, toRead, good, k, m)
    BY <1>1 DEF ReadSoFar
  <2> QED
    BY <2>1, <2>2
<1>2. CASE ~(r.left = 0 \/ k > good)
  <2> DEFINE blockLeft == sizes[k] - r.blockOffset
             n == IF r.left < blockLeft THEN r.left ELSE blockLeft
             start == Ends(sizes)[k - 1] + r.blockOffset
             x == [block |-> IF r.left > blockLeft THEN k ELSE k - 1,
                   blockOffset |-> IF r.left > blockLeft THEN 0 ELSE r.blockOffset + n,
                   left |-> r.left - n,
                   bytes |-> r.bytes \o [j \in 1..n |-> start + j]]
  <2>1. m \in Nat /\ r.left \in Nat /\ r.left > 0 /\ r.left = toRead - m /\ m <= toRead
    BY <1>2 DEF ReadSoFar
  <2>2. r.block = k - 1
    <3>1. k <= good /\ k - 1 <= good /\ (k - 1 <= from.block => from.block = k - 1)
      BY <1>2
    <3>2. r.block = IF k - 1 <= from.block THEN from.block ELSE k - 1
      BY <2>1, <3>1 DEF ReadSoFar
    <3> QED
      BY <3>1, <3>2
  <2>3. /\ r.blockOffset \in Nat /\ r.blockOffset <= sizes[k] /\ sizes[k] \in Nat
        /\ from.offset + m = Ends(sizes)[k - 1] + r.blockOffset
    BY <2>2 DEF ReadSoFar, Inside
  <2>4. /\ Ends(sizes)[k - 1] \in Nat /\ Ends(sizes)[k] \in Nat
        /\ Ends(sizes)[k] = Ends(sizes)[k - 1] + sizes[k]
    BY EndsOfBlocks
  <2>5. n \in Nat /\ n <= r.left /\ start = from.offset + m
    BY <2>1, <2>3
  <2>5a. from.offset + (m + n) = Ends(sizes)[k - 1] + (r.blockOffset + n)
    <3> DEFINE a == from.offset
               b == Ends(sizes)[k - 1]
               c == r.blockOffset
    <3>1. a \in Nat /\ b \in Nat /\ c \in Nat /\ m \in Nat /\ n \in Nat /\ a + m = b + c
      BY <2>1, <2>3, <2>4, <2>5
    <3> HIDE DEF a, b, c, n
    <3>2. a + (m + n) = b + (c + n)
      BY <3>1
    <3> QED
      BY <3>2 DEF a, b, c
  <2>6. ReadBlock(r, sizes, k, good) = x
    BY <1>2 DEF ReadBlock
  <2>7. x.bytes = [j \in 1 .. m + n |-> from.offset + j]
    <3>1. r.bytes = [j \in 1 .. m |-> from.offset + j]
      BY DEF ReadSoFar, Following
    <3>2. [j \in 1..n |-> start + j] = [j \in 1..n |-> from.offset + m + j]
      BY <2>5
    <3> HIDE DEF n, start
    <3>3. [j \in 1 .. m |-> from.offset + j] \o [j \in 1..n |-> from.offset + m + j]
            = [j \in 1 .. m + n |-> from.offset + j]
      BY <2>1, <2>5, BytesJoined
    <3> QED
      BY <3>1, <3>2, <3>3
  <2>8. Inside(sizes, from.offset + (m + n), x.block, x.blockOffset)
    <3>1. CASE r.left > blockLeft
      <4>1. x.block = k /\ x.blockOffset = 0 /\ n = blockLeft
        BY <2>1, <2>3, <3>1
      <4>2. from.offset + (m + n) = Ends(sizes)[k]
        <5>1. n = sizes[k] - r.blockOffset
          BY <4>1
        <5> HIDE DEF n, x, start
        <5> QED
          BY SMTT(30), <2>3, <2>4, <2>5a, <5>1
      <4>3. k < Len(sizes) => 0 <= sizes[k + 1]
        OBVIOUS
      <4> HIDE DEF x, n, blockLeft, start
      <4> QED
        BY <2>4, <4>1, <4>2, <4>3 DEF Inside
    <3>2. CASE ~(r.left > blockLeft)
      <4>1. x.block = k - 1 /\ x.blockOffset = r.blockOffset + n /\ n = r.left
            /\ r.blockOffset + n <= sizes[k]
        BY <2>1, <2>3, <3>2
      <4>2. from.offset + (m + n) = Ends(sizes)[k - 1] + (r.blockOffset + n)
        <5> QED
          BY <2>5a
      <4>3. (k - 1) + 1 = k /\ k - 1 \in 0 .. Len(sizes) /\ k - 1 # Len(sizes)
        OBVIOUS
      <4> HIDE DEF x, n, blockLeft, start
      <4> QED
        BY SMTT(30), <2>1, <2>3, <2>5, <4>1, <4>2, <4>3 DEF Inside
    <3> QED
      BY <3>1, <3>2
  <2>9. /\ m + n \in 0 .. toRead /\ x.left = toRead - (m + n)
        /\ x.left > 0 /\ k <= good => x.block = k
    BY SMTT(30), <2>1, <2>3, <2>5
  <2>10. ReadSoFar(x, sizes, from, toRead, good, k, m + n)
    <3> HIDE DEF x, n
    <3> QED
      BY <2>7, <2>8, <2>9 DEF ReadSoFar, Following
  <2> QED
    BY <2>6, <2>10
<1> QED
  BY <1>1, <1>2

\* The reading is the one its steps make, from the place it begins.
LEMMA ReadingSteps ==
  ASSUME NEW c, NEW from, from.block \in Nat, NEW toRead, NEW good, NEW sizes \in Seq(Nat),
         sizes = BlocksOf(c.entry)
  PROVE  \E read : /\ Reading(c, from, toRead, good) = read[Len(sizes)]
                   /\ \A k \in 0 .. Len(sizes) :
                        read[k] = IF k <= from.block
                                  THEN [block |-> from.block, blockOffset |-> from.blockOffset,
                                        left |-> toRead, bytes |-> <<>>]
                                  ELSE ReadBlock(read[k - 1], sizes, k, good)
<1> DEFINE n == Len(sizes)
           first == [block |-> from.block, blockOffset |-> from.blockOffset,
                     left |-> toRead, bytes |-> <<>>]
           Body(f, m) == [k \in 0 .. m |-> IF k <= from.block THEN first
                                           ELSE ReadBlock(f[k - 1], sizes, k, good)]
           T == {m \in 0 .. n : \E f : f = Body(f, m)}
<1>1. 0 \in T
  <2>1. [k \in 0 .. 0 |-> first] = Body([k \in 0 .. 0 |-> first], 0)
    OBVIOUS
  <2> HIDE DEF Body, first
  <2> QED
    BY <2>1
<1>2. \A m \in 1 .. n : m - 1 \in T => m \in T
  <2> SUFFICES ASSUME NEW m \in 1 .. n, m - 1 \in T PROVE m \in T
    OBVIOUS
  <2>1. PICK f : f = Body(f, m - 1)
    OBVIOUS
  <2> DEFINE last == IF m <= from.block THEN first ELSE ReadBlock(f[m - 1], sizes, m, good)
             g == [k \in 0 .. m |-> IF k = m THEN last ELSE f[k]]
  <2> HIDE DEF first
  <2>2. g = Body(g, m)
    <3>1. ASSUME NEW k \in 0 .. m
          PROVE  g[k] = IF k <= from.block THEN first ELSE ReadBlock(g[k - 1], sizes, k, good)
      <4>1. CASE k = m
        <5>1. m - 1 \in 0 .. m /\ m - 1 # m
          OBVIOUS
        <5>2. g[m - 1] = f[m - 1] /\ g[m] = last
          BY <5>1
        <5> QED
          BY <4>1, <5>2
      <4>2. CASE k # m
        <5>1. k \in 0 .. m - 1 /\ g[k] = f[k]
          BY <4>2
        <5>2. f[k] = IF k <= from.block THEN first ELSE ReadBlock(f[k - 1], sizes, k, good)
          BY <2>1, <5>1
        <5>3. k > from.block => k - 1 \in 0 .. m /\ k - 1 # m
          BY <5>1
        <5>4. k > from.block => g[k - 1] = f[k - 1]
          BY <5>3
        <5> HIDE DEF g
        <5> QED
          BY <5>1, <5>2, <5>4
      <4> QED
        BY <4>1, <4>2
    <3>2. g = [k \in 0 .. m |-> g[k]]
      OBVIOUS
    <3> HIDE DEF g
    <3> QED
      BY <3>1, <3>2
  <2> HIDE DEF Body, g
  <2> QED
    BY <2>2
<1>3. n \in T
  <2>1. n \in Nat
    OBVIOUS
  <2> HIDE DEF T, n
  <2>2. 0 .. n \subseteq T
    BY <1>1, <1>2, <2>1, Inductive
  <2> QED
    BY <2>1, <2>2
<1> DEFINE read == CHOOSE f : f = Body(f, n)
<1>4. read = Body(read, n)
  <2>1. \E f : f = Body(f, n)
    BY <1>3
  <2> HIDE DEF Body, T
  <2> QED
    BY <2>1
<1>5. Reading(c, from, toRead, good) = read[n]
  BY DEF Reading
<1> HIDE DEF read
<1> QED
  BY <1>4, <1>5

\* What is known in the end: with no page that cannot be read, as much was read as
\* is wanted or as there is.
ReadInAll(r, sizes, from, toRead, good, m) ==
  /\ ReadSoFar(r, sizes, from, toRead, good, Len(sizes), m)
  /\ good >= Len(sizes) => m = Shorter(toRead, Ends(sizes)[Len(sizes)] - from.offset)

\* A reading gives the bytes behind the offset, as many as are wanted or as
\* there are, and leaves the channel behind them (Cookfs_Readerchannel_Input).
LEMMA ReadingIsRight ==
  ASSUME NEW c, NEW sizes \in Seq(Nat), sizes = BlocksOf(c.entry),
         NEW from, Inside(sizes, from.offset, from.block, from.blockOffset),
         NEW toRead \in Nat, NEW good \in Nat
  PROVE  \E m \in 0 .. toRead :
           ReadInAll(Reading(c, from, toRead, good), sizes, from, toRead, good, m)
<1>0. from.offset \in Nat /\ from.block \in 0 .. Len(sizes) /\ from.block \in Nat
  BY InsideFile DEF Inside
<1> DEFINE n == Len(sizes)
           first == [block |-> from.block, blockOffset |-> from.blockOffset,
                     left |-> toRead, bytes |-> <<>>]
           r == Reading(c, from, toRead, good)
           total == Ends(sizes)[Len(sizes)]
<1>1. PICK read : /\ Reading(c, from, toRead, good) = read[n]
                  /\ \A k \in 0 .. n : read[k] = IF k <= from.block THEN first
                                                 ELSE ReadBlock(read[k - 1], sizes, k, good)
  <2>1. \E read : /\ Reading(c, from, toRead, good) = read[Len(sizes)]
                  /\ \A k \in 0 .. Len(sizes) :
                       read[k] = IF k <= from.block
                                 THEN [block |-> from.block, blockOffset |-> from.blockOffset,
                                       left |-> toRead, bytes |-> <<>>]
                                 ELSE ReadBlock(read[k - 1], sizes, k, good)
    BY <1>0, ReadingSteps
  <2> QED
    BY <2>1
<1> DEFINE T == {k \in 0 .. n : \E m : ReadSoFar(read[k], sizes, from, toRead, good, k, m)}
<1>2. ASSUME NEW k \in 0 .. n, k <= from.block PROVE k \in T
  <2>1. read[k] = first
    BY <1>1, <1>2
  <2>2. first.bytes = [j \in 1 .. 0 |-> from.offset + j]
    OBVIOUS
  <2>3. from.offset + 0 = from.offset /\ toRead - 0 = toRead /\ 0 \in 0 .. toRead
    BY <1>0
  <2>4. ReadSoFar(first, sizes, from, toRead, good, k, 0)
    BY <1>2, <2>2, <2>3 DEF ReadSoFar, Following
  <2> QED
    BY <2>1, <2>4
<1>3. \A k \in 1 .. n : k - 1 \in T => k \in T
  <2> SUFFICES ASSUME NEW k \in 1 .. n, k - 1 \in T PROVE k \in T
    OBVIOUS
  <2>1. CASE k <= from.block
    <3>1. k \in 0 .. n
      OBVIOUS
    <3> QED
      BY <1>2, <2>1, <3>1
  <2>2. CASE k > from.block
    <3>1. PICK m : ReadSoFar(read[k - 1], sizes, from, toRead, good, k - 1, m)
      OBVIOUS
    <3>2. read[k] = ReadBlock(read[k - 1], sizes, k, good)
      <4>1. k \in 0 .. n /\ ~(k <= from.block)
        BY <1>0, <2>2
      <4> HIDE DEF first
      <4> QED
        BY <1>1, <4>1
    <3>3. k \in 1 .. Len(sizes)
      OBVIOUS
    <3>4. PICK q : q = read[k - 1]
      OBVIOUS
    <3>5. ReadSoFar(q, sizes, from, toRead, good, k - 1, m)
      BY <3>1, <3>4
    <3>6. \E l : ReadSoFar(ReadBlock(q, sizes, k, good), sizes, from, toRead, good, k, l)
      BY <1>0, <2>2, <3>3, <3>5, OneBlock
    <3> QED
      BY <3>2, <3>4, <3>6
  <2> QED
    BY <1>0, <2>1, <2>2
<1>4. n \in T
  <2>1. n \in Nat
    OBVIOUS
  <2>2. 0 \in T
    BY <1>0, <1>2
  <2> HIDE DEF T, n
  <2>3. 0 .. n \subseteq T
    BY <1>3, <2>1, <2>2, Inductive
  <2> QED
    BY <2>1, <2>3
<1>5. PICK m : ReadSoFar(r, sizes, from, toRead, good, n, m)
  BY <1>1, <1>4
<1> HIDE DEF r
<1>6. m \in 0 .. toRead
  BY <1>5 DEF ReadSoFar
<1>7. ASSUME good >= n
      PROVE  m = IF toRead < total - from.offset THEN toRead ELSE total - from.offset
  <2>1. Inside(sizes, from.offset + m, r.block, r.blockOffset)
    BY <1>5 DEF ReadSoFar
  <2>2. from.offset + m <= total /\ total \in Nat
    BY <2>1, InsideFile, EndsOfBlocks
  <2>3. CASE r.left = 0
    <3>1. m = toRead
      BY <1>5, <1>6, <2>3 DEF ReadSoFar
    <3> HIDE DEF total
    <3> QED
      BY <1>0, <1>6, <2>2, <3>1
  <2>4. CASE r.left # 0
    <3>1. r.left > 0 /\ m < toRead
      BY <1>5, <1>6, <2>4 DEF ReadSoFar
    <3>2. r.block = n
      BY <1>0, <1>5, <1>7, <3>1 DEF ReadSoFar
    <3>3. from.offset + m = total
      <4>1. from.offset + m = Ends(sizes)[n] + 0
        BY <2>1, <3>2 DEF Inside
      <4> QED
        BY <2>2, <4>1
    <3> HIDE DEF total
    <3> QED
      BY <1>0, <1>6, <2>2, <3>1, <3>3
  <2> QED
    BY <2>3, <2>4
<1>8. good >= n => m = Shorter(toRead, total - from.offset)
  BY <1>7 DEF Shorter
<1> QED
  BY <1>5, <1>6, <1>8 DEF r, total, ReadInAll

\* The walk is the one its steps make, from the start of the file.
LEMMA WalkSteps ==
  ASSUME NEW sizes \in Seq(Nat), NEW offset
  PROVE  \E walk : /\ Walk(sizes, offset) = walk[Len(sizes)]
                   /\ walk[0] = [block |-> 0, left |-> offset, at |-> 0]
                   /\ \A k \in 1 .. Len(sizes) : walk[k] = WalkBlock(walk[k - 1], sizes[k])
<1> DEFINE n == Len(sizes)
           first == [block |-> 0, left |-> offset, at |-> 0]
           Body(f, m) == [k \in 0 .. m |-> IF k = 0 THEN first ELSE WalkBlock(f[k - 1], sizes[k])]
           T == {m \in 0 .. n : \E f : f = Body(f, m)}
<1>1. 0 \in T
  <2>1. [k \in 0 .. 0 |-> first] = Body([k \in 0 .. 0 |-> first], 0)
    OBVIOUS
  <2> HIDE DEF Body, first
  <2> QED
    BY <2>1
<1>2. \A m \in 1 .. n : m - 1 \in T => m \in T
  <2> SUFFICES ASSUME NEW m \in 1 .. n, m - 1 \in T PROVE m \in T
    OBVIOUS
  <2>1. PICK f : f = Body(f, m - 1)
    OBVIOUS
  <2> DEFINE last == WalkBlock(f[m - 1], sizes[m])
             g == [k \in 0 .. m |-> IF k = m THEN last ELSE f[k]]
  <2> HIDE DEF first
  <2>2. g = Body(g, m)
    <3>1. ASSUME NEW k \in 0 .. m
          PROVE  g[k] = IF k = 0 THEN first ELSE WalkBlock(g[k - 1], sizes[k])
      <4>1. CASE k = m
        <5>1. m - 1 \in 0 .. m /\ m - 1 # m
          OBVIOUS
        <5>2. g[m - 1] = f[m - 1] /\ g[m] = last
          BY <5>1
        <5> QED
          BY <4>1, <5>2
      <4>2. CASE k # m
        <5>1. k \in 0 .. m - 1 /\ g[k] = f[k]
          BY <4>2
        <5>2. f[k] = IF k = 0 THEN first ELSE WalkBlock(f[k - 1], sizes[k])
          BY <2>1, <5>1
        <5>3. k # 0 => k - 1 \in 0 .. m /\ k - 1 # m
          BY <5>1
        <5>4. k # 0 => g[k - 1] = f[k - 1]
          BY <5>3
        <5> HIDE DEF g
        <5> QED
          BY <5>1, <5>2, <5>4
      <4> QED
        BY <4>1, <4>2
    <3>2. g = [k \in 0 .. m |-> g[k]]
      OBVIOUS
    <3> HIDE DEF g
    <3> QED
      BY <3>1, <3>2
  <2> HIDE DEF Body, g
  <2> QED
    BY <2>2
<1>3. n \in T
  <2>1. n \in Nat
    OBVIOUS
  <2> HIDE DEF T, n
  <2>2. 0 .. n \subseteq T
    BY <1>1, <1>2, <2>1, Inductive
  <2> QED
    BY <2>1, <2>2
<1> DEFINE walk == CHOOSE f : f = Body(f, n)
<1>4. walk = Body(walk, n)
  <2>1. \E f : f = Body(f, n)
    BY <1>3
  <2> HIDE DEF Body, T
  <2> QED
    BY <2>1
<1>5. Walk(sizes, offset) = walk[n]
  BY DEF Walk
<1> HIDE DEF walk
<1>6. walk[0] = first /\ \A k \in 1 .. n : walk[k] = WalkBlock(walk[k - 1], sizes[k])
  <2>1. n \in Nat
    OBVIOUS
  <2> HIDE DEF first, n
  <2>2. \A k \in 0 .. n : walk[k] = IF k = 0 THEN first ELSE WalkBlock(walk[k - 1], sizes[k])
    BY <1>4
  <2> QED
    BY <2>1, <2>2
<1> QED
  BY <1>5, <1>6

\* What is known after k blocks: as long as more is left the walk is at the end
\* of the last of them, and then it stays where the offset is.
WalkedSoFar(w, all, offset, k) ==
  /\ w.left \in 0 .. offset
  /\ w.left > 0 => w.block = k /\ w.at = 0 /\ offset - w.left = Ends(all)[k]
  /\ w.left = 0 => Inside(all, offset, w.block, w.at)

\* The walk ends where the offset is, or at the end of the blocks that are left,
\* which are the first of the file (Cookfs_Readerchannel_WideSeek).
LEMMA WalkIsRight ==
  ASSUME NEW all \in Seq(Nat), NEW sizes \in Seq(Nat), Len(sizes) <= Len(all),
         \A k \in 1 .. Len(sizes) : sizes[k] = all[k],
         NEW offset \in Nat
  PROVE  LET w == Walk(sizes, offset) IN Inside(all, offset - w.left, w.block, w.at)
<1> DEFINE n == Len(sizes)
<1>1. PICK walk : /\ Walk(sizes, offset) = walk[n]
                  /\ walk[0] = [block |-> 0, left |-> offset, at |-> 0]
                  /\ \A k \in 1 .. n : walk[k] = WalkBlock(walk[k - 1], sizes[k])
  BY SMTT(30), WalkSteps
<1> DEFINE T == {k \in 0 .. n : WalkedSoFar(walk[k], all, offset, k)}
<1>2. 0 \in T
  <2>1. Ends(all)[0] = 0 /\ (0 < Len(all) => 0 <= all[0 + 1])
    BY EndsOfBlocks
  <2>2. Inside(all, 0, 0, 0)
    BY <2>1 DEF Inside
  <2>3. /\ walk[0].left = offset /\ walk[0].block = 0 /\ walk[0].at = 0
    BY <1>1
  <2> QED
    BY <2>1, <2>2, <2>3 DEF WalkedSoFar
<1>3. \A k \in 1 .. n : k - 1 \in T => k \in T
  <2> SUFFICES ASSUME NEW k \in 1 .. n, k - 1 \in T PROVE k \in T
    OBVIOUS
  <2>1. PICK w : w = walk[k - 1]
    OBVIOUS
  <2>2. PICK v : v = walk[k]
    OBVIOUS
  <2>2a. WalkedSoFar(w, all, offset, k - 1) /\ v = WalkBlock(w, all[k])
    BY <1>1, <2>1, <2>2
  <2>2b. SUFFICES WalkedSoFar(v, all, offset, k)
    BY <2>2
  <2>3. k \in 1 .. Len(all) /\ all[k] \in Nat /\ k - 1 \in 0 .. Len(all) /\ (k - 1) + 1 = k
        /\ k - 1 # Len(all)
    OBVIOUS
  <2>4. /\ Ends(all)[k - 1] \in Nat /\ Ends(all)[k] \in Nat
        /\ Ends(all)[k] = Ends(all)[k - 1] + all[k]
    BY <2>3, EndsOfBlocks
  <2>4a. w.left \in Nat /\ w.left <= offset
    BY <2>2a DEF WalkedSoFar
  <2>5. CASE w.left > all[k]
    <3>1. /\ v.block = k /\ v.left = w.left - all[k] /\ v.at = 0
          /\ w.left \in 0 .. offset /\ offset - w.left = Ends(all)[k - 1]
      BY SMTT(30), <2>2a, <2>3, <2>4a, <2>5 DEF WalkBlock, WalkedSoFar
    <3>2. v.left \in 0 .. offset /\ v.left > 0 /\ offset - v.left = Ends(all)[k]
      <4> DEFINE l == w.left
                 x == v.left
                 size == all[k]
                 before == Ends(all)[k - 1]
                 after == Ends(all)[k]
      <4>1. /\ l \in Nat /\ l <= offset /\ size \in Nat /\ before \in Nat /\ after = before + size
            /\ l > size /\ x = l - size /\ offset - l = before
        BY <2>3, <2>4, <2>4a, <2>5, <3>1
      <4> HIDE DEF l, x, size, before, after
      <4>2. x \in 0 .. offset /\ x > 0 /\ offset - x = after
        BY <4>1
      <4> QED
        BY <4>2 DEF x, after
    <3> QED
      BY <3>1, <3>2 DEF WalkedSoFar
  <2>6. CASE w.left <= all[k] /\ w.left > 0
    <3>1. /\ v.block = k - 1 /\ v.left = 0 /\ v.at = w.left
          /\ w.left \in 0 .. offset /\ offset - w.left = Ends(all)[k - 1]
      <4>1. v = [block |-> w.block, left |-> 0, at |-> w.at + w.left]
        BY SMTT(30), <2>2a, <2>3, <2>4a, <2>6 DEF WalkBlock
      <4>2. w.block = k - 1 /\ w.at = 0 /\ offset - w.left = Ends(all)[k - 1]
        BY <2>2a, <2>6 DEF WalkedSoFar
      <4> QED
        BY <2>4a, <4>1, <4>2
    <3>2. w.left \in Nat /\ offset = Ends(all)[k - 1] + w.left
      BY SMTT(30), <2>4, <3>1
    <3>3. Inside(all, offset, k - 1, w.left)
      BY <2>3, <2>6, <3>2 DEF Inside
    <3> QED
      BY <3>1, <3>3 DEF WalkedSoFar
  <2>7. CASE w.left = 0
    <3>1. Inside(all, offset, w.block, w.at) /\ w.at \in Nat /\ w.at + 0 = w.at
      BY <2>2a, <2>7 DEF WalkedSoFar, Inside
    <3>2. v.block = w.block /\ v.left = 0 /\ v.at = w.at
      BY SMTT(30), <2>2a, <2>3, <2>7, <3>1 DEF WalkBlock
    <3> QED
      BY <3>1, <3>2 DEF WalkedSoFar
  <2> QED
    BY SMTT(30), <2>3, <2>4a, <2>5, <2>6, <2>7
<1>4. n \in T
  <2>1. n \in Nat
    OBVIOUS
  <2> HIDE DEF T, n
  <2>2. 0 .. n \subseteq T
    BY <1>2, <1>3, <2>1, Inductive
  <2> QED
    BY <2>1, <2>2
<1>5. PICK w : w = Walk(sizes, offset)
  OBVIOUS
<1>6. WalkedSoFar(w, all, offset, n)
  BY <1>1, <1>4, <1>5
<1>7. CASE w.left = 0
  <2>1. offset - w.left = offset
    BY <1>7
  <2> QED
    BY <1>5, <1>6, <1>7, <2>1 DEF WalkedSoFar
<1>8. CASE w.left > 0
  <2>1. w.block = n /\ w.at = 0 /\ offset - w.left = Ends(all)[n]
    BY <1>6, <1>8 DEF WalkedSoFar
  <2>2. n \in 0 .. Len(all) /\ Ends(all)[n] \in Nat /\ (n < Len(all) => 0 <= all[n + 1])
    BY EndsOfBlocks
  <2>3. Inside(all, Ends(all)[n], n, 0)
    BY <2>2 DEF Inside
  <2> QED
    BY <1>5, <2>1, <2>3
<1> QED
  BY <1>6, <1>7, <1>8 DEF WalkedSoFar

\* Every reader stands where its offset is in the file it opened; a channel that
\* is not a reader has not moved.
PositionsInside ==
  /\ position \in [Channels -> [offset : Nat, block : Nat, blockOffset : Nat]]
  /\ \A ch \in Channels :
       IF channels[ch] # NULL /\ channels[ch].kind = "reader"
       THEN Inside(Blocks[channels[ch].opened],
                   position[ch].offset, position[ch].block, position[ch].blockOffset)
       ELSE position[ch] = Start

IsReader(ch) == channels[ch] # NULL /\ channels[ch].kind = "reader"

\* The start of a file is in it.
LEMMA StartInside ==
  ASSUME NEW sizes \in Seq(Nat)
  PROVE  Inside(sizes, Start.offset, Start.block, Start.blockOffset)
<1>1. Ends(sizes)[0] = 0 /\ (0 < Len(sizes) => 0 <= sizes[0 + 1])
  BY EndsOfBlocks
<1> QED
  BY <1>1 DEF Inside, Start

\* A channel that is opened or closed is at the start.
LEMMA NoneMoved ==
  ASSUME TypeOK', PositionsInside, position' = position,
         \A ch \in Channels : IsReader(ch) => IsReader(ch)' /\ channels'[ch].opened = channels[ch].opened
  PROVE  PositionsInside'
<1> SUFFICES ASSUME NEW ch \in Channels
             PROVE  IF IsReader(ch)'
                    THEN Inside(Blocks[channels'[ch].opened],
                                position[ch].offset, position[ch].block, position[ch].blockOffset)
                    ELSE position[ch] = Start
  BY DEF PositionsInside, IsReader
<1>1. CASE IsReader(ch)
  BY <1>1 DEF PositionsInside, IsReader
<1>2. CASE ~IsReader(ch) /\ IsReader(ch)'
  <2>1. position[ch] = Start
    BY <1>2 DEF PositionsInside, IsReader
  <2>2. channels'[ch] \in Reader
    BY <1>2 DEF IsReader, TypeOK, Writer
  <2>3. Blocks[channels'[ch].opened] \in Seq(Nat)
    BY <2>2, ContentsAssumption DEF Reader
  <2> QED
    BY <1>2, <2>1, <2>3, StartInside
<1>3. CASE ~IsReader(ch) /\ ~IsReader(ch)'
  BY <1>3 DEF PositionsInside, IsReader
<1> QED
  BY <1>1, <1>2, <1>3

LEMMA ClosedAtStart ==
  ASSUME TypeOK, PositionsInside, NEW ch \in Channels, Closed(ch)
  PROVE  PositionsInside'
<1>1. /\ channels' = [channels EXCEPT ![ch] = NULL]
      /\ position' = [position EXCEPT ![ch] = Start]
  BY DEF Closed
<1>2. channels'[ch] = NULL /\ position'[ch] = Start
      /\ \A d \in Channels \ {ch} : channels'[d] = channels[d] /\ position'[d] = position[d]
  BY <1>1 DEF TypeOK, PositionsInside
<1>3. position' \in [Channels -> [offset : Nat, block : Nat, blockOffset : Nat]]
  BY <1>1 DEF PositionsInside, Start
<1> QED
  BY <1>2, <1>3 DEF PositionsInside

\* A reader that moves to a place in its file leaves the others where they are.
LEMMA ReaderMoved ==
  ASSUME TypeOK, PositionsInside, NEW ch \in Channels, IsReader(ch), UNCHANGED channels,
         NEW offset, NEW block, NEW blockOffset,
         position' = [position EXCEPT ![ch] =
                        [offset |-> offset, block |-> block, blockOffset |-> blockOffset]],
         Inside(Blocks[channels[ch].opened], offset, block, blockOffset)
  PROVE  PositionsInside'
<1>1. channels[ch] \in Reader /\ Blocks[channels[ch].opened] \in Seq(Nat)
  BY ContentsAssumption DEF IsReader, TypeOK, Reader, Writer
<1>2. offset \in Nat /\ block \in Nat /\ blockOffset \in Nat
  <2>1. offset \in Nat
    BY <1>1, InsideFile
  <2> QED
    BY <2>1 DEF Inside
<1> DEFINE x == [offset |-> offset, block |-> block, blockOffset |-> blockOffset]
<1>3. x \in [offset : Nat, block : Nat, blockOffset : Nat]
  BY <1>2
<1>4. x.offset = offset /\ x.block = block /\ x.blockOffset = blockOffset
  OBVIOUS
<1>5. position' = [position EXCEPT ![ch] = x]
  OBVIOUS
<1> HIDE DEF x
<1>6. /\ position'[ch] = x /\ \A d \in Channels \ {ch} : position'[d] = position[d]
      /\ position' \in [Channels -> [offset : Nat, block : Nat, blockOffset : Nat]]
  BY <1>3, <1>5 DEF PositionsInside
<1> QED
  BY <1>4, <1>6 DEF PositionsInside, IsReader

\* Reading and seeking move a channel to a place in its file, also when the
\* entry has lost its blocks.
LEMMA ReadingStep ==
  ASSUME IInv, PositionsInside, NEW ch \in Channels, NEW toRead \in Nat, NEW good \in Nat,
         Input(ch, toRead, good)
  PROVE  PositionsInside'
<1> DEFINE c == channels[ch]
           all == Blocks[c.opened]
           at == position[ch]
           r == Reading(c, at, toRead, good)
<1>1. IsReader(ch) /\ c \in Reader /\ all \in Seq(Nat) /\ entries[c.entry].data = c.opened
  BY ContentsAssumption DEF Input, IsReader, IInv, TypeOK, Reader, Writer, OpenedKept
<1>2. Inside(all, at.offset, at.block, at.blockOffset)
  BY <1>1 DEF PositionsInside, IsReader
<1>3. at.offset \in Nat /\ at.block \in Nat
  BY SMTT(30), <1>1, <1>2, InsideFile DEF Inside
<1>4. /\ position' = [position EXCEPT ![ch] =
           [offset |-> at.offset + Len(r.bytes), block |-> r.block, blockOffset |-> r.blockOffset]]
      /\ UNCHANGED channels
  BY DEF Input
<1>5. Inside(all, at.offset + Len(r.bytes), r.block, r.blockOffset)
  <2>1. CASE BlocksOf(c.entry) = <<>>
    <3>1. PICK sizes : sizes = BlocksOf(c.entry)
      OBVIOUS
    <3>2. sizes \in Seq(Nat) /\ Len(sizes) = 0
      BY <2>1, <3>1
    <3>3. PICK read : /\ Reading(c, at, toRead, good) = read[Len(sizes)]
                      /\ \A k \in 0 .. Len(sizes) :
                           read[k] = IF k <= at.block
                                     THEN [block |-> at.block, blockOffset |-> at.blockOffset,
                                           left |-> toRead, bytes |-> <<>>]
                                     ELSE ReadBlock(read[k - 1], sizes, k, good)
      <4> HIDE DEF c, at
      <4> QED
        BY <1>3, <3>1, <3>2, ReadingSteps
    <3>4. r = [block |-> at.block, blockOffset |-> at.blockOffset, left |-> toRead, bytes |-> <<>>]
      <4>1. 0 \in 0 .. Len(sizes) /\ 0 <= at.block
        BY <1>3, <3>2
      <4> QED
        BY <3>2, <3>3, <4>1
    <3>5. r.block = at.block /\ r.blockOffset = at.blockOffset /\ Len(r.bytes) = 0
      BY <3>4
    <3>6. at.offset + 0 = at.offset
      BY <1>3
    <3> HIDE DEF r, at
    <3> QED
      BY <1>2, <3>5, <3>6
  <2>2. CASE BlocksOf(c.entry) = all
    <3> HIDE DEF c, at, r
    <3>1. \E m \in 0 .. toRead :
            ReadInAll(Reading(c, at, toRead, good), all, at, toRead, good, m)
      BY <1>1, <1>2, <2>2, ReadingIsRight
    <3>2. PICK m \in 0 .. toRead : ReadSoFar(r, all, at, toRead, good, Len(all), m)
      BY <3>1 DEF r, ReadInAll
    <3>3. r.bytes = [j \in 1 .. m |-> at.offset + j]
      BY <3>2 DEF ReadSoFar, Following
    <3>4. Len(r.bytes) = m
      BY <3>2, <3>3
    <3> QED
      BY <3>2, <3>4 DEF ReadSoFar
  <2> QED
    BY <1>1, <2>1, <2>2 DEF BlocksOf
<1> HIDE DEF c, at, r, all
<1>6. TypeOK /\ Inside(Blocks[channels[ch].opened], at.offset + Len(r.bytes), r.block, r.blockOffset)
  BY <1>5 DEF IInv, all, c
<1> QED
  BY <1>1, <1>4, <1>6, ReaderMoved

LEMMA SeekingStep ==
  ASSUME IInv, PositionsInside, NEW ch \in Channels, NEW offset, WideSeek(ch, offset)
  PROVE  PositionsInside'
<1> DEFINE c == channels[ch]
           all == Blocks[c.opened]
           sizes == IF BlocksOf(c.entry) = <<>> THEN SubSeq(all, 1, 1) ELSE all
           w == Walk(sizes, offset)
<1>1. IsReader(ch) /\ c \in Reader /\ all \in Seq(Nat)
  BY ContentsAssumption DEF WideSeek, IsReader, IInv, TypeOK, Reader, Writer
<1>2. offset \in Nat
  <2>1. Size(c.opened) \in Nat
    BY <1>1, EndsOfBlocks DEF Size
  <2>2. offset \in 0..Size(c.opened)
    BY DEF WideSeek
  <2> QED
    BY <2>1, <2>2
<1>3. /\ position' = [position EXCEPT ![ch] =
           [offset |-> offset - w.left, block |-> w.block, blockOffset |-> w.at]]
      /\ UNCHANGED channels
  BY DEF WideSeek
<1>4. /\ sizes \in Seq(Nat) /\ Len(sizes) <= Len(all)
      /\ \A k \in 1 .. Len(sizes) : sizes[k] = all[k]
  <2> HIDE DEF all
  <2>1. CASE BlocksOf(c.entry) = <<>> /\ Len(all) > 0
    <3>1. SubSeq(all, 1, 1) \in Seq(Nat) /\ Len(SubSeq(all, 1, 1)) = 1 /\ SubSeq(all, 1, 1)[1] = all[1]
      BY <1>1, <2>1
    <3> QED
      BY <1>1, <2>1, <3>1
  <2>2. CASE BlocksOf(c.entry) = <<>> /\ Len(all) = 0
    <3>1. Ends(all)[Len(all)] = 0
      BY <1>1, <2>2, EndsOfBlocks
    <3>2. offset \in 0..0 /\ offset # position[ch].offset
      BY <3>1 DEF WideSeek, Size, all
    <3>3. position[ch].offset \in Nat /\ position[ch].offset <= 0
      <4>1. Inside(all, position[ch].offset, position[ch].block, position[ch].blockOffset)
        BY <1>1 DEF PositionsInside, IsReader, all
      <4> QED
        BY <1>1, <3>1, <4>1, InsideFile
    <3> QED
      BY <3>2, <3>3
  <2>3. CASE BlocksOf(c.entry) # <<>>
    BY <1>1, <2>3
  <2> QED
    BY <1>1, <2>1, <2>2, <2>3
<1> HIDE DEF c, all, sizes
<1>5. Inside(all, offset - w.left, w.block, w.at)
  BY <1>1, <1>2, <1>4, WalkIsRight
<1> HIDE DEF w
<1>6. TypeOK /\ Inside(Blocks[channels[ch].opened], offset - w.left, w.block, w.at)
  BY <1>5 DEF IInv, all, c
<1> QED
  BY <1>1, <1>3, <1>6, ReaderMoved

\* Whatever is called, every reader stands in the file it opened.
LEMMA PositionsKept == IInv /\ TypeOK' /\ PositionsInside /\ [Next]_vars => PositionsInside'
<1> SUFFICES ASSUME IInv, TypeOK', PositionsInside, [Next]_vars PROVE PositionsInside'
  OBVIOUS
<1>0. TypeOK
  BY DEF IInv
<1>1. ASSUME UNCHANGED <<channels, position>> PROVE PositionsInside'
  BY <1>1, NoneMoved DEF IsReader
<1>2. ASSUME NEW ch \in Channels, Closed(ch) PROVE PositionsInside'
  BY <1>0, <1>2, ClosedAtStart
<1>3. ASSUME NEW ch \in Channels, NEW x, ~IsReader(ch), UNCHANGED position,
             channels' = [channels EXCEPT ![ch] = x]
      PROVE  PositionsInside'
  <2>1. \A d \in Channels \ {ch} : channels'[d] = channels[d]
    BY <1>0, <1>3 DEF TypeOK
  <2>2. \A d \in Channels : IsReader(d) => IsReader(d)' /\ channels'[d].opened = channels[d].opened
    BY <1>3, <2>1 DEF IsReader
  <2> QED
    BY <1>3, <2>2, NoneMoved
<1>4. ASSUME NEW ch \in Channels, NEW p, NEW mode, Open(ch, p, mode) PROVE PositionsInside'
  <2>1. ~IsReader(ch) /\ UNCHANGED position
    BY <1>4 DEF Open, IsReader
  <2>2. \E x : channels' = [channels EXCEPT ![ch] = x]
    BY <1>4 DEF Open
  <2> QED
    BY <1>3, <2>1, <2>2
<1>5. ASSUME NEW ch \in Channels, NEW c, Write(ch, c) PROVE PositionsInside'
  <2>1. ~IsReader(ch) /\ UNCHANGED position
    BY <1>5 DEF Write, IsReader
  <2>2. \E x : channels' = [channels EXCEPT ![ch] = x]
    BY <1>5 DEF Write
  <2> QED
    BY <1>3, <2>1, <2>2
<1>6. ASSUME NEW ch \in Channels,
             CloseUnchanged(ch) \/ CloseDropped(ch) \/ CloseStored(ch) \/ CloseRefused(ch)
      PROVE  PositionsInside'
  <2>1. Closed(ch)
    BY <1>6 DEF CloseUnchanged, CloseDropped, CloseStored, CloseRefused
  <2> QED
    BY <1>2, <2>1
<1>7. ASSUME NEW ch \in Channels, NEW n \in 1..Size(channels[ch].opened),
             NEW good \in 0..Len(Blocks[channels[ch].opened]), Input(ch, n, good)
      PROVE  PositionsInside'
  <2>1. channels[ch] \in Reader
    BY <1>0, <1>7 DEF Input, TypeOK, Writer
  <2>2. Blocks[channels[ch].opened] \in Seq(Nat)
    BY <2>1, ContentsAssumption DEF Reader
  <2>3. n \in Nat /\ good \in Nat
    <3>1. Size(channels[ch].opened) \in Nat
      BY <2>2, EndsOfBlocks DEF Size
    <3> QED
      BY <2>2, <3>1
  <2> QED
    BY <1>7, <2>3, ReadingStep
<1>8. ASSUME NEW ch \in Channels, NEW offset, WideSeek(ch, offset) PROVE PositionsInside'
  BY <1>8, SeekingStep
<1>9. ASSUME NEW p, \/ CreateDirectory(p) \/ DeleteFile(p)
                    \/ \E recursive \in BOOLEAN : RemoveDirectory(p, recursive)
      PROVE  PositionsInside'
  BY <1>1, <1>9 DEF CreateDirectory, DeleteFile, RemoveDirectory
<1>10. CASE SetCompression \/ SetWritetomemory \/ UNCHANGED vars
  BY <1>1, <1>10 DEF SetCompression, SetWritetomemory, vars
<1> QED
  BY <1>4, <1>5, <1>6, <1>7, <1>8, <1>9, <1>10 DEF Next

\* However a program reads and seeks, a reader channel answers the bytes of the
\* file it opened at the position it reports (readerchannelIO.c), though the file
\* was replaced or deleted meanwhile.
THEOREM ReadersReadTheirFile == Spec => []ReadsWhatItOpened
<1>1. Init => PositionsInside
  <2> SUFFICES ASSUME Init PROVE PositionsInside
    OBVIOUS
  <2>1. Start \in [offset : Nat, block : Nat, blockOffset : Nat]
    BY DEF Start
  <2> QED
    BY <2>1 DEF Init, PositionsInside
<1>2. IInv => TypeOK
  BY DEF IInv
<1>3. IInv /\ PositionsInside => ReadsWhatItOpened
  <2> SUFFICES ASSUME IInv, PositionsInside, NEW ch \in Channels, IsReader(ch)
               PROVE  LET c == channels[ch]
                          at == position[ch]
                          left == Size(c.opened) - at.offset
                      IN /\ entries[c.entry].data = c.opened
                         /\ \A n \in 1..Size(c.opened) :
                              LET bytes == Reading(c, at, n, Len(Blocks[c.opened])).bytes
                              IN bytes = [k \in 1..(IF BlocksOf(c.entry) = <<>> THEN 0
                                                    ELSE IF n < left THEN n ELSE left)
                                            |-> at.offset + k]
    BY DEF ReadsWhatItOpened, IsReader
  <2> DEFINE c == channels[ch]
             at == position[ch]
             all == Blocks[c.opened]
             left == Size(c.opened) - at.offset
  <2>1. c \in Reader /\ entries[c.entry].data = c.opened
    BY DEF IInv, TypeOK, IsReader, Writer, OpenedKept
  <2>2. all \in Seq(Nat)
    BY <2>1, ContentsAssumption DEF Reader
  <2>3. Inside(all, at.offset, at.block, at.blockOffset)
    BY DEF PositionsInside, IsReader
  <2>4. at.offset \in Nat /\ at.block \in Nat
    BY <2>2, <2>3, InsideFile DEF Inside
  <2>5. Size(c.opened) = Ends(all)[Len(all)] /\ Size(c.opened) \in Nat
    BY <2>2, EndsOfBlocks DEF Size
  <2>6. ASSUME NEW n \in 1..Size(c.opened)
        PROVE  Reading(c, at, n, Len(all)).bytes
                 = [k \in 1..(IF BlocksOf(c.entry) = <<>> THEN 0
                              ELSE IF n < left THEN n ELSE left) |-> at.offset + k]
    <3>0. n \in Nat /\ Len(all) \in Nat
      BY <2>2, <2>5
    <3>1. CASE BlocksOf(c.entry) = <<>>
      <4>1. PICK sizes : sizes = BlocksOf(c.entry)
        OBVIOUS
      <4>2. sizes \in Seq(Nat) /\ Len(sizes) = 0
        BY <3>1, <4>1
      <4>3. PICK read : /\ Reading(c, at, n, Len(all)) = read[Len(sizes)]
                        /\ \A k \in 0 .. Len(sizes) :
                             read[k] = IF k <= at.block
                                       THEN [block |-> at.block, blockOffset |-> at.blockOffset,
                                             left |-> n, bytes |-> <<>>]
                                       ELSE ReadBlock(read[k - 1], sizes, k, Len(all))
        <5> HIDE DEF c, at, all
        <5> QED
          BY <2>4, <4>1, <4>2, ReadingSteps
      <4>4. 0 \in 0 .. Len(sizes) /\ 0 <= at.block
        BY <2>4, <4>2
      <4>5. Reading(c, at, n, Len(all)).bytes = <<>>
        BY <4>2, <4>3, <4>4
      <4>6. <<>> = [k \in 1..0 |-> at.offset + k]
        OBVIOUS
      <4> HIDE DEF c, at, all, left
      <4> QED
        BY <3>1, <4>5, <4>6
    <3>2. CASE BlocksOf(c.entry) # <<>>
      <4>1. BlocksOf(c.entry) = all
        BY <2>1, <3>2 DEF BlocksOf
      <4> HIDE DEF c, at, all
      <4>3. PICK good : good = Len(all)
        OBVIOUS
      <4>4. good \in Nat /\ good >= Len(all) /\ all = BlocksOf(c.entry)
        BY <3>0, <4>1, <4>3
      <4>5. Reading(c, at, n, good).bytes
              = Following(at.offset, Shorter(n, Ends(all)[Len(all)] - at.offset))
        <5>1. /\ all \in Seq(Nat) /\ all = BlocksOf(c.entry)
              /\ Inside(all, at.offset, at.block, at.blockOffset)
              /\ n \in Nat /\ good \in Nat
          BY <2>2, <2>3, <3>0, <4>4
        <5>2. PICK m \in 0 .. n :
                ReadInAll(Reading(c, at, n, good), all, at, n, good, m)
          BY <5>1, ReadingIsRight
        <5> QED
          BY <4>4, <5>2 DEF ReadInAll, ReadSoFar
      <4>6. Shorter(n, Ends(all)[Len(all)] - at.offset)
              = IF BlocksOf(c.entry) = <<>> THEN 0 ELSE IF n < left THEN n ELSE left
        BY <2>5, <3>2 DEF Shorter
      <4> QED
        BY <4>3, <4>5, <4>6 DEF Following
    <3> QED
      BY <3>1, <3>2
  <2> QED
    BY <2>1, <2>6
<1>4. IInv /\ TypeOK' /\ PositionsInside /\ [Next]_vars => PositionsInside'
  BY PositionsKept
<1>5. Spec => []PositionsInside
  <2>1. Spec => []IInv
    BY DriverInvariant
  <2>2. IInv' => TypeOK'
    BY DEF IInv
  <2> QED
    BY <1>1, <1>2, <1>4, <2>1, <2>2, PTL DEF Spec
<1> QED
  BY <1>3, <1>5, DriverInvariant, PTL

-----------------------------------------------------------------------------
(* The threads see one tree.                                               *)

\* No file is lost.  In write-to-memory mode setting the compression loses the
\* files in the buffer ("memory").
NoneLost == \A e \in Entries : entries[e] # NULL => entries[e].place # "lost"

\* An entry that stays is of the same file, and a step loses none.
EntryKept(e) ==
  /\ entries[e] # NULL /\ entries'[e] # NULL => entries'[e].data = entries[e].data
  /\ entries'[e] # NULL /\ entries'[e].place = "lost"
       => entries[e] # NULL /\ entries[e].place = "lost"

\* A channel that closes gives its entry back, and that is all.
LEMMA KeptByClosing ==
  ASSUME IInv, NEW ch \in Channels, channels[ch] # NULL, channels[ch].entry \in Entries,
         entries' = Unlocked(entries, channels[ch].entry), NEW d \in Entries
  PROVE  EntryKept(d)
<1>1. PICK e \in Entries : e = channels[ch].entry
  OBVIOUS
<1>2. entries[e] # NULL /\ entries[e].refcount >= 1
  <2>1. Users(e) >= 1 /\ Users(e) \in Nat
    BY <1>1, UsersAtLeast, UsingFinite
  <2>2. entries[e] # NULL /\ entries[e].refcount >= Users(e)
    BY <2>1 DEF IInv, Counted
  <2>3. entries[e].refcount \in Nat
    BY <2>2 DEF IInv, TypeOK, Entry
  <2> QED
    BY <2>1, <2>2, <2>3
<1>3. entries \in [Entries -> Entry \cup {NULL}]
  BY DEF IInv, TypeOK
<1> QED
  BY <1>1, <1>2, <1>3, UnlockedEntries DEF EntryKept

\* Every step keeps the entries.
LEMMA EntriesKept ==
  ASSUME IInv, "memory" \notin Careless, [Next]_vars, NEW d \in Entries
  PROVE  EntryKept(d)
<1>1. TypeOK /\ TreeSound /\ PathOrEntry
  BY DEF IInv
<1>2. ASSUME entries' = entries PROVE EntryKept(d)
  BY <1>2 DEF EntryKept
<1>3. ASSUME NEW ch \in Channels, NEW p \in Paths, NEW mode \in Modes, Open(ch, p, mode)
      PROVE  EntryKept(d)
  <2> DEFINE e == IF mode = "w" THEN NULL ELSE tree[p]
  <2>1. entries' = IF e = NULL THEN entries ELSE [entries EXCEPT ![e].refcount = @ + 1]
    BY <1>3 DEF Open
  <2>2. e # NULL => e \in Entries /\ entries[e] \in Entry
    BY <1>1, AtPath
  <2> HIDE DEF e
  <2>3. CASE e = NULL
    BY <1>2, <2>1, <2>3
  <2>4. CASE e # NULL
    <3>1. entries' = [entries EXCEPT ![e] = [entries[e] EXCEPT !.refcount = @ + 1]]
      BY <2>1, <2>4
    <3> DEFINE x == [entries[e] EXCEPT !.refcount = @ + 1]
    <3>2. x.data = entries[e].data /\ x.place = entries[e].place /\ entries[e] # NULL
      BY <2>2, <2>4, NamesAssumption DEF Entry
    <3> HIDE DEF x
    <3>3. entries'[d] = IF d = e THEN x ELSE entries[d]
      BY <1>1, <2>2, <2>4, <3>1 DEF TypeOK, x
    <3> QED
      BY <3>2, <3>3 DEF EntryKept
  <2> QED
    BY <2>3, <2>4
<1>4. ASSUME NEW ch \in Channels, CloseUnchanged(ch) PROVE EntryKept(d)
  <2>1. channels[ch].entry \in Entries /\ channels[ch] # NULL
    BY <1>1, <1>4 DEF CloseUnchanged, TypeOK, PathOrEntry, Reader, Writer
  <2> QED
    BY <1>4, <2>1, KeptByClosing DEF CloseUnchanged
<1>5. ASSUME NEW ch \in Channels, CloseDropped(ch) PROVE EntryKept(d)
  <2>1. channels[ch].entry \in Entries /\ channels[ch] # NULL
    BY <1>1, <1>5 DEF CloseDropped, TypeOK, Reader, Writer
  <2> QED
    BY <1>5, <2>1, KeptByClosing DEF CloseDropped
<1>6. ASSUME NEW ch \in Channels, CloseStored(ch) PROVE EntryKept(d)
  <2>1. PICK u \in Entries, new \in Entry :
          /\ entries[u] = NULL /\ entries'[u] = new /\ new.place \in Places \ {"lost"}
          /\ d # u => /\ entries[d] = NULL => entries'[d] = NULL
                      /\ entries[d] # NULL /\ entries'[d] # NULL =>
                           /\ entries'[d].data = entries[d].data
                           /\ entries'[d].place = entries[d].place
    BY <1>6, Storing
  <2> QED
    BY <2>1 DEF EntryKept
<1>7. ASSUME NEW p \in Paths, CreateDirectory(p) PROVE EntryKept(d)
  <2> DEFINE es == Freed(entries, EntriesBelow(p))
             x == NewEntry(NULL, NULL, FALSE)
  <2>1. PICK new \in Entries : entries[new] = NULL /\ entries' = [es EXCEPT ![new] = x]
    BY <1>1, <1>7, Fresh DEF CreateDirectory
  <2>2. /\ es \in [Entries -> Entry \cup {NULL}]
        /\ entries[d] = NULL => es[d] = NULL
        /\ entries[d] # NULL /\ es[d] # NULL =>
             es[d].data = entries[d].data /\ es[d].place = entries[d].place
    BY SubtreeGone
  <2>3. x.place = NULL
    BY DEF NewEntry
  <2> HIDE DEF es, x
  <2>4. entries'[d] = IF d = new THEN x ELSE es[d]
    BY <2>1, <2>2
  <2>5. NULL # "lost"
    BY NamesAssumption DEF Places
  <2> QED
    BY <2>1, <2>2, <2>3, <2>4, <2>5 DEF EntryKept
<1>8. ASSUME NEW p \in Paths, NEW recursive \in BOOLEAN, RemoveDirectory(p, recursive)
      PROVE  EntryKept(d)
  <2>1. entries' = Freed(entries, EntriesBelow(p))
    BY <1>8 DEF RemoveDirectory
  <2> QED
    BY <2>1, SubtreeGone DEF EntryKept
<1>9. ASSUME NEW p \in Paths, DeleteFile(p) PROVE EntryKept(d)
  <2>1. PICK old \in Entries :
          /\ old = tree[p]
          /\ entries' = Freed(IF old \in buffered THEN Unlocked(entries, old) ELSE entries, {old})
    BY <1>1, <1>9 DEF DeleteFile, TypeOK
  <2> QED
    BY SMTT(60), <2>1, FileGone DEF EntryKept
<1>10. CASE SetCompression
  <2>1. CASE d \notin buffered
    BY <1>10, <2>1 DEF SetCompression, Purge, EntryKept
  <2>2. CASE d \in buffered
    <3>1. Users(d) >= 1 /\ Users(d) \in Nat
      BY <2>2, UsingFinite
    <3>2. entries[d] # NULL /\ entries[d].refcount >= Users(d)
      BY <3>1 DEF IInv, Counted
    <3>3. entries[d] \in Entry /\ entries[d].refcount \in Nat
      BY <1>1, <3>2 DEF TypeOK, Entry
    <3> DEFINE x == [entries[d] EXCEPT !.place = "pages"]
    <3>4. /\ x \in Entry /\ x.data = entries[d].data /\ x.place = "pages"
          /\ x.refcount = entries[d].refcount
      BY <3>3 DEF Entry, Places
    <3>5. entries'[d] = Released(x)
      BY <1>10, <2>2 DEF SetCompression, Purge
    <3> HIDE DEF x
    <3>6. x.refcount >= 1
      BY <3>1, <3>2, <3>3, <3>4
    <3> QED
      BY <3>4, <3>5, <3>6, ReleasedEntry DEF EntryKept
  <2> QED
    BY <2>1, <2>2
<1>11. ASSUME NEW ch \in Channels, CloseRefused(ch) PROVE EntryKept(d)
  BY <1>2, <1>11 DEF CloseRefused
<1>12. ASSUME NEW ch \in Channels, NEW c \in Contents, Write(ch, c) PROVE EntryKept(d)
  BY <1>2, <1>12 DEF Write
<1>13. ASSUME NEW ch \in Channels, NEW n, NEW good, Input(ch, n, good) PROVE EntryKept(d)
  BY <1>2, <1>13 DEF Input
<1>14. ASSUME NEW ch \in Channels, NEW offset, WideSeek(ch, offset) PROVE EntryKept(d)
  BY <1>2, <1>14 DEF WideSeek
<1>15. CASE SetWritetomemory
  BY <1>2, <1>15 DEF SetWritetomemory
<1>16. CASE UNCHANGED vars
  BY <1>2, <1>16 DEF vars
<1> QED
  BY <1>3, <1>4, <1>5, <1>6, <1>7, <1>8, <1>9, <1>10, <1>11, <1>12, <1>13, <1>14, <1>15, <1>16
     DEF Next

\* What is at a path in a mount that lost no file.
View(p) ==
  IF tree[p] = NULL THEN "none"
  ELSE IF entries[tree[p]].data = NULL THEN "dir"
  ELSE entries[tree[p]].data

\* A thread sees this at each path, and a directory where stat tells of one.
Shown ==
  /\ Seen = [p \in Paths |-> View(p)]
  /\ Seen \in [Paths -> {"none", "dir"} \cup Contents]
  /\ \A q \in Paths \cup {Root} : Tree!IsDir(q) <=> Stat(q) = "directory"

\* When no file is lost it is so.
LEMMA SeenIsView == IInv /\ NoneLost => Shown
<1> SUFFICES ASSUME IInv, NoneLost PROVE Shown
  OBVIOUS
<1>1. TypeOK /\ TreeSound
  BY DEF IInv
<1>2. ASSUME NEW p \in Paths
      PROVE  /\ Seen[p] = View(p) /\ View(p) \in {"none", "dir"} \cup Contents
             /\ View(p) = "dir" <=> tree[p] # NULL /\ IsDirectory(tree[p])
  <2>1. CASE tree[p] = NULL
    BY <2>1, NamesAssumption DEF Seen, View
  <2>2. CASE tree[p] # NULL
    <3>1. tree[p] \in Entries /\ entries[tree[p]] # NULL
      BY <1>1, <2>2 DEF TypeOK, TreeSound
    <3>2. entries[tree[p]] \in Entry
      BY <1>1, <3>1 DEF TypeOK
    <3>3. entries[tree[p]].data \in Contents \cup {NULL} /\ entries[tree[p]].place # "lost"
      BY <3>1, <3>2 DEF Entry, NoneLost
    <3> QED
      BY <2>2, <3>3, NamesAssumption DEF Seen, View, IsDirectory
  <2> QED
    BY <2>1, <2>2
<1>3. Seen = [p \in Paths |-> View(p)] /\ Seen \in [Paths -> {"none", "dir"} \cup Contents]
  <2>1. Seen = [p \in Paths |-> Seen[p]]
    BY DEF Seen
  <2> QED
    BY <1>2, <2>1
<1>4. ASSUME NEW q \in Paths \cup {Root} PROVE Tree!IsDir(q) <=> Stat(q) = "directory"
  <2>1. CASE q = Root
    BY <2>1 DEF Stat, Tree!IsDir
  <2>2. CASE q \in Paths
    <3>1. q # Root
      BY <2>2, NamesAssumption
    <3>2. Tree!IsDir(q) <=> View(q) = "dir"
      BY <1>2, <2>2, <3>1 DEF Tree!IsDir
    <3> QED
      BY <1>2, <2>2, <3>1, <3>2 DEF Stat
  <2> QED
    BY <2>1, <2>2
<1> QED
  BY <1>3, <1>4 DEF Shown

\* So it is after a step that loses none.
LEMMA SeenIsViewNext == IInv' /\ NoneLost' => Shown'
  BY SeenIsView, PTL

\* A step after which the tree has the same entries changes nothing to see.
LEMMA NothingSeen ==
  ASSUME IInv, IInv', NoneLost, NoneLost', tree' = tree, \A d \in Entries : EntryKept(d)
  PROVE  Seen' = Seen
<1>1. Seen = [p \in Paths |-> View(p)] /\ Seen' = [p \in Paths |-> View(p)']
  BY SeenIsView, SeenIsViewNext DEF Shown
<1>2. ASSUME NEW p \in Paths, tree[p] # NULL PROVE View(p)' = View(p)
  <2>1. tree[p] \in Entries /\ entries[tree[p]] # NULL /\ entries'[tree[p]] # NULL
    BY <1>2 DEF IInv, TypeOK, TreeSound
  <2>2. entries'[tree[p]].data = entries[tree[p]].data
    BY <2>1 DEF EntryKept
  <2> QED
    BY <1>2, <2>2 DEF View
<1>3. ASSUME NEW p \in Paths, tree[p] = NULL PROVE View(p)' = View(p)
  BY <1>3 DEF View
<1> QED
  BY <1>1, <1>2, <1>3

\* Closing a written file puts it into the tree as a whole.
LEMMA StoringSeen ==
  ASSUME IInv, IInv', NoneLost, NoneLost', NEW ch \in Channels, CloseStored(ch)
  PROVE  \E p \in Paths, c \in Contents : Tree!Put(p, c)
<1>1. PICK p \in Paths, u \in Entries, new \in Entry, data \in Contents :
        /\ Stat(Parent(p)) = "directory" /\ Stat(p) \in {"file", "ENOENT"}
        /\ entries[u] = NULL /\ tree' = [tree EXCEPT ![p] = u]
        /\ new.data = data /\ entries'[u] = new
        /\ \A d \in Entries \ {u} :
             /\ entries[d] # NULL /\ entries'[d] # NULL =>
                  entries'[d].data = entries[d].data
             /\ d # tree[p] /\ entries[d] # NULL /\ ~entries[d].isInactive =>
                  entries'[d] # NULL /\ ~entries'[d].isInactive
  BY Storing
<1>2. /\ Seen = [q \in Paths |-> View(q)] /\ Seen' = [q \in Paths |-> View(q)']
      /\ \A q \in Paths \cup {Root} : Tree!IsDir(q) <=> Stat(q) = "directory"
  BY SeenIsView, SeenIsViewNext DEF Shown
<1>3. Tree!IsDir(Parent(p)) /\ ~Tree!IsDir(p)
  BY <1>1, <1>2, PathsAssumption
<1>4. tree'[p] = u /\ \A q \in Paths \ {p} : tree'[q] = tree[q]
  BY <1>1 DEF IInv, TypeOK
<1>5. View(p)' = data
  BY <1>1, <1>4, NamesAssumption DEF View
<1>6. ASSUME NEW q \in Paths, q # p PROVE View(q)' = View(q)
  <2>1. CASE tree[q] = NULL
    BY <1>4, <1>6, <2>1 DEF View
  <2>2. CASE tree[q] # NULL
    <3>1. /\ tree[q] \in Entries /\ entries[tree[q]] # NULL
          /\ ~entries[tree[q]].isInactive /\ tree[p] # tree[q]
      BY <1>6, <2>2 DEF IInv, TypeOK, TreeSound
    <3>2. entries'[tree[q]].data = entries[tree[q]].data
      BY <1>1, <3>1
    <3> QED
      BY <1>4, <1>6, <2>2, <3>2 DEF View
  <2> QED
    BY <2>1, <2>2
<1>7. Seen' = [Seen EXCEPT ![p] = data]
  BY <1>2, <1>5, <1>6
<1>8. Tree!Put(p, data)
  BY <1>3, <1>7 DEF Tree!Put
<1> QED
  BY <1>8

\* Making a directory makes one where nothing was.
LEMMA MakingSeen ==
  ASSUME IInv, IInv', NoneLost, NoneLost', "mkdir" \notin Careless,
         NEW p \in Paths, CreateDirectory(p)
  PROVE  Tree!MakeDir(p)
<1>1. TypeOK /\ TreeSound
  BY DEF IInv
<1>2. tree[p] = NULL /\ Stat(Parent(p)) = "directory"
  BY DEF CreateDirectory, MaySet
<1>3. \A q \in Below(p) : tree[q] = NULL
  <2>1. Stat(p) = "ENOENT"
    BY <1>2, NamesAssumption DEF Stat
  <2> QED
    BY <1>1, <1>2, <2>1 DEF Below, TreeSound
<1>4. EntriesBelow(p) = {}
  BY <1>3 DEF EntriesBelow
<1>5. Freed(entries, {}) = entries
  BY <1>1 DEF Freed, TypeOK
<1>6. Without(p) = tree
  BY <1>1, <1>3 DEF Without, TypeOK
<1>7. PICK new \in Entries :
        /\ entries[new] = NULL /\ tree' = [tree EXCEPT ![p] = new]
        /\ entries' = [entries EXCEPT ![new] = NewEntry(NULL, NULL, FALSE)]
  <2>1. HasRoom /\ tree' = [tree EXCEPT ![p] = Unused(entries)]
    BY <1>6 DEF CreateDirectory
  <2>2. entries' = [entries EXCEPT ![Unused(entries)] = NewEntry(NULL, NULL, FALSE)]
    BY <1>4, <1>5 DEF CreateDirectory
  <2>3. PICK new \in Entries : new = Unused(entries) /\ entries[new] = NULL
    BY <1>1, <2>1, Fresh
  <2> QED
    BY <2>1, <2>2, <2>3
<1>8. /\ Seen = [q \in Paths |-> View(q)] /\ Seen' = [q \in Paths |-> View(q)']
      /\ Tree!IsDir(Parent(p))
  <2>1. /\ Seen = [q \in Paths |-> View(q)] /\ Seen' = [q \in Paths |-> View(q)']
        /\ \A q \in Paths \cup {Root} : Tree!IsDir(q) <=> Stat(q) = "directory"
    BY SeenIsView, SeenIsViewNext DEF Shown
  <2> QED
    BY <1>2, <2>1, PathsAssumption
<1>9. View(p) = "none" /\ View(p)' = "dir"
  <2>1. tree'[p] = new /\ entries'[new] = NewEntry(NULL, NULL, FALSE)
    BY <1>1, <1>7 DEF TypeOK
  <2>2. new # NULL /\ NewEntry(NULL, NULL, FALSE).data = NULL
    BY NamesAssumption DEF NewEntry
  <2> QED
    BY <1>2, <2>1, <2>2 DEF View
<1>10. ASSUME NEW q \in Paths, q # p PROVE View(q)' = View(q)
  <2>1. tree'[q] = tree[q]
    BY <1>1, <1>7, <1>10 DEF TypeOK
  <2>2. tree[q] # NULL => entries'[tree[q]] = entries[tree[q]]
    BY <1>1, <1>7 DEF TypeOK, TreeSound
  <2> QED
    BY <2>1, <2>2 DEF View
<1>11. Seen[p] = "none" /\ Seen' = [Seen EXCEPT ![p] = "dir"]
  BY <1>8, <1>9, <1>10
<1> QED
  BY <1>8, <1>11 DEF Tree!MakeDir

\* Removing a directory removes it with all it has, and nothing else.
LEMMA RemovingSeen ==
  ASSUME IInv, IInv', NoneLost, NoneLost',
         NEW p \in Paths, NEW recursive \in BOOLEAN, RemoveDirectory(p, recursive)
  PROVE  Tree!RemoveTree(p)
<1>1. TypeOK /\ TreeSound
  BY DEF IInv
<1>2. Seen = [q \in Paths |-> View(q)] /\ Seen' = [q \in Paths |-> View(q)']
  BY SeenIsView, SeenIsViewNext DEF Shown
<1>3. View(p) = "dir"
  BY DEF RemoveDirectory, IsDirectory, View
<1>4. entries' = Freed(entries, EntriesBelow(p)) /\ tree' = Without(p)
  BY DEF RemoveDirectory
<1>5. ASSUME NEW q \in Paths
      PROVE  View(q)' = IF q = p \/ Parent(q) = p THEN "none" ELSE View(q)
  <2>1. q \in Below(p) <=> q = p \/ Parent(q) = p
    BY DEF Below
  <2>2. CASE q \in Below(p)
    BY <1>4, <2>1, <2>2 DEF View, Without
  <2>3. CASE q \notin Below(p)
    <3>1. tree'[q] = tree[q]
      BY <1>4, <2>3 DEF Without
    <3>2. tree[q] # NULL => entries'[tree[q]] = entries[tree[q]]
      BY <1>4, <2>3, SubtreeGone
    <3> QED
      BY <2>1, <2>3, <3>1, <3>2 DEF View
  <2> QED
    BY <2>2, <2>3
<1>6. Seen' = [q \in Paths |-> IF q = p \/ Parent(q) = p THEN "none" ELSE Seen[q]]
  BY <1>2, <1>5
<1> QED
  BY <1>2, <1>3, <1>6 DEF Tree!RemoveTree

\* Deleting a file removes that file and nothing else.
LEMMA DeletingSeen ==
  ASSUME IInv, IInv', NoneLost, NoneLost', NEW p \in Paths, DeleteFile(p)
  PROVE  Tree!Remove(p)
<1>1. TypeOK /\ TreeSound
  BY DEF IInv
<1>2. Seen = [q \in Paths |-> View(q)] /\ Seen' = [q \in Paths |-> View(q)']
  BY SeenIsView, SeenIsViewNext DEF Shown
<1>3. PICK old \in Entries :
        /\ old = tree[p] /\ entries[old].data # NULL
        /\ entries' = Freed(IF old \in buffered THEN Unlocked(entries, old) ELSE entries, {old})
        /\ tree' = [tree EXCEPT ![p] = NULL]
  BY <1>1 DEF DeleteFile, TypeOK, IsDirectory
<1>4. entries[old] # NULL /\ \A d \in Entries \ {old} : entries'[d] = entries[d]
  BY <1>3, FileGone
<1>5. View(p) \notin {"none", "dir"}
  <2>1. entries[old] \in Entry /\ tree[p] # NULL
    BY <1>1, <1>3, <1>4, NamesAssumption DEF TypeOK
  <2>2. entries[old].data \in Contents
    BY <1>3, <2>1 DEF Entry
  <2> QED
    BY <1>3, <2>1, <2>2, NamesAssumption DEF View
<1>6. View(p)' = "none"
  BY <1>1, <1>3 DEF View, TypeOK
<1>7. ASSUME NEW q \in Paths, q # p PROVE View(q)' = View(q)
  <2>1. tree'[q] = tree[q]
    BY <1>1, <1>3, <1>7 DEF TypeOK
  <2>2. tree[q] # NULL => tree[q] \in Entries \ {old}
    BY <1>1, <1>3, <1>7 DEF TypeOK, TreeSound
  <2> QED
    BY <1>4, <2>1, <2>2 DEF View
<1>8. Seen' = [Seen EXCEPT ![p] = "none"] /\ Seen[p] = View(p)
  BY <1>2, <1>6, <1>7
<1> QED
  BY <1>5, <1>8 DEF Tree!Remove

\* Each step of the driver is a step of the tree, or changes nothing to see.
LEMMA TreeStep ==
  ASSUME {"mkdir", "memory"} \cap Careless = {}, IInv, IInv', NoneLost, NoneLost', [Next]_vars
  PROVE  [Tree!Next]_Seen
<1>1. \A d \in Entries : EntryKept(d)
  BY EntriesKept
<1>2. ASSUME tree' = tree PROVE Seen' = Seen
  BY <1>1, <1>2, NothingSeen
<1>3. ASSUME NEW ch \in Channels, CloseStored(ch) PROVE Tree!Next
  BY <1>3, StoringSeen DEF Tree!Next
<1>4. ASSUME NEW p \in Paths, CreateDirectory(p) PROVE Tree!Next
  BY <1>4, MakingSeen DEF Tree!Next
<1>5. ASSUME NEW p \in Paths, NEW recursive \in BOOLEAN, RemoveDirectory(p, recursive)
      PROVE  Tree!Next
  BY <1>5, RemovingSeen DEF Tree!Next
<1>6. ASSUME NEW p \in Paths, DeleteFile(p) PROVE Tree!Next
  BY <1>6, DeletingSeen DEF Tree!Next
<1>7. ASSUME NEW ch \in Channels,
             \/ \E p \in Paths, mode \in Modes : Open(ch, p, mode)
             \/ \E c \in Contents : Write(ch, c)
             \/ CloseUnchanged(ch) \/ CloseDropped(ch) \/ CloseRefused(ch)
             \/ \E n, good : Input(ch, n, good)
             \/ \E offset : WideSeek(ch, offset)
      PROVE  Seen' = Seen
  BY <1>2, <1>7 DEF Open, Write, CloseUnchanged, CloseDropped, CloseRefused, Input, WideSeek
<1>8. ASSUME SetCompression \/ SetWritetomemory \/ UNCHANGED vars PROVE Seen' = Seen
  BY <1>2, <1>8 DEF SetCompression, SetWritetomemory, vars
<1> QED
  BY <1>3, <1>4, <1>5, <1>6, <1>7, <1>8 DEF Next

\* The mount that starts is a tree.
LEMMA TreeInit == Init => NoneLost /\ Tree!Init
<1> SUFFICES ASSUME Init PROVE NoneLost /\ Tree!Init
  OBVIOUS
<1>1. NoneLost
  <2> SUFFICES ASSUME NEW e \in Entries, entries[e] # NULL PROVE entries[e].place # "lost"
    BY DEF NoneLost
  <2>1. \/ entries[e] = NewEntry(NULL, NULL, FALSE)
        \/ \E place \in {"empty", "pages"} : entries[e] = NewEntry(Imported[e], place, TRUE)
    BY DEF Init
  <2> QED
    BY <2>1, NamesAssumption DEF NewEntry, Places
<1>2. IInv
  BY InitInv
<1>3. /\ Seen = [p \in Paths |-> View(p)]
      /\ Seen \in [Paths -> {"none", "dir"} \cup Contents]
      /\ \A q \in Paths \cup {Root} : Tree!IsDir(q) <=> Stat(q) = "directory"
  BY <1>1, <1>2, SeenIsView DEF Shown
<1>4. ASSUME NEW p \in Paths, Seen[p] # "none" PROVE Tree!IsDir(Parent(p))
  <2>1. tree[p] # NULL
    BY <1>3, <1>4 DEF View
  <2> QED
    BY <1>2, <1>3, <2>1, PathsAssumption DEF IInv, TreeSound
<1> QED
  BY <1>1, <1>3, <1>4 DEF Tree!Init

\* The threads of an application see one tree (module SharedTree): unless a thread
\* makes a directory that is there already ("mkdir"), or sets the compression in
\* write-to-memory mode ("memory"), no file is lost but those that are removed,
\* and making a directory only makes one (vfsDriver.c:705-866, writer.c:897-1320).
THEOREM TreeIsShared ==
  ASSUME {"mkdir", "memory"} \cap Careless = {}
  PROVE  Spec => ImplementsTree
<1>1. Init => NoneLost /\ Tree!Init
  BY TreeInit
<1>2. IInv /\ NoneLost /\ [Next]_vars => NoneLost'
  <2> SUFFICES ASSUME IInv, NoneLost, [Next]_vars PROVE NoneLost'
    OBVIOUS
  <2>1. \A d \in Entries : EntryKept(d)
    BY EntriesKept
  <2> QED
    BY <2>1 DEF NoneLost, EntryKept
<1>3. IInv /\ IInv' /\ NoneLost /\ NoneLost' /\ [Next]_vars => [Tree!Next]_Seen
  BY TreeStep
<1>4. IInv /\ IInv' /\ NoneLost /\ NoneLost' /\ [Next]_vars
        => [\A p \in Paths : CreateDirectory(p) => Tree!MakeDir(p)]_vars
  BY MakingSeen
<1> QED
  BY <1>1, <1>2, <1>3, <1>4, DriverInvariant, PTL DEF Spec, ImplementsTree, Tree!Spec

=============================================================================
