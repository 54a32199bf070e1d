-------------------------- MODULE Mounting_proofs --------------------------
(* Proofs about Mounting: mounts have their objects, the pages of a mount     *)
(* have the hash they were stored with, and Mounting implements Cabinet.      *)
EXTENDS Mounting, TLAPS

\* A mount has its objects, and they are locked hard.
Whole ==
  \A m \in Mounts : mounts[m] # NULL =>
    /\ indexes[mounts[m].index] # NULL /\ indexes[mounts[m].index].hard
    /\ mounts[m].pages # NULL =>
         pages[mounts[m].pages] # NULL /\ pages[mounts[m].pages].hard

\* No object is in two mounts, or in a mount and left behind.
Apart ==
  /\ \A m, n \in Mounts : m # n /\ mounts[m] # NULL /\ mounts[n] # NULL =>
       /\ mounts[m].index # mounts[n].index
       /\ mounts[m].pages # NULL => mounts[m].pages # mounts[n].pages
  /\ \A m \in Mounts : mounts[m] # NULL => {mounts[m].pages, mounts[m].index} \cap left = {}
  /\ \A p \in Pages \cap left : pages[p] # NULL /\ pages[p].hard
  /\ \A i \in Indexes \cap left : indexes[i] # NULL /\ indexes[i].hard

\* Without pages a mount is in memory; what does not write has nothing pending.
Modes ==
  \A m \in Mounts : mounts[m] # NULL =>
    /\ mounts[m].pages = NULL => mounts[m].toMemory
    /\ mounts[m].pending => ~mounts[m].readonly

ObjectsInv == TypeOK /\ Whole /\ Apart /\ Modes

\* An object that no mount has is a command, or was left behind.
Owned ==
  /\ \A p \in Pages : pages[p] # NULL =>
       InUse(p) \/ p \in left \/ (pages[p].command /\ ~pages[p].hard)
  /\ \A i \in Indexes : indexes[i] # NULL =>
       InUse(i) \/ i \in left \/ (indexes[i].command /\ ~indexes[i].hard)

\* Pages that were all stored with one hash
AllWith(stored, h) == \A k \in DOMAIN stored : stored[k] = h

\* The hash that metadata names
Named(meta) ==
  IF meta = NULL THEN "md5" ELSE IF meta.hash \in Hashes THEN meta.hash ELSE "md5"

\* What may be saved is stored with the hash it names.
Fits(P) == AllWith(P.stored, Named(P.index))

\* Pages in nobody's hand but the user's: those that have no name for their hash
\* have the one of a new archive.
FitsFree(P) ==
  /\ Fits(P)
  /\ P.stored # <<>> /\ (P.index = NULL \/ P.index.hash \notin Hashes) => P.hash = "md5"

\* The pages P and the index I of mount M
FitsMount(M, P, I) ==
  /\ AllWith(P.stored, P.hash)
  /\ Keeps(M) => Named(I.meta) = P.hash /\ (~I.changes => Named(P.index) = P.hash)
  /\ ~Keeps(M) /\ P.changed /\ ~P.readonly => Fits(P)

HashInv ==
  /\ archive # NULL => Fits(archive)
  /\ \A p \in Pages : pages[p] # NULL /\ ~InUse(p) /\ p \notin left => FitsFree(pages[p])
  /\ \A m \in Mounts : mounts[m] # NULL /\ mounts[m].pages # NULL =>
       FitsMount(mounts[m], pages[mounts[m].pages], indexes[mounts[m].index])

-----------------------------------------------------------------------------
(* Objects.                                                                *)

\* Setting metadata marks the index as changed and leaves the rest of it.
LEMMA MetadataSet ==
  ASSUME NEW I \in IndexObjects, NEW key \in {"size", "hash"}, NEW v,
         key = "size" => v \in Values \cup {Bad, NULL},
         key = "hash" => v \in Hashes \cup {Bad, NULL}
  PROVE  LET J == SetMetadata(I, key, v)
         IN /\ J \in IndexObjects /\ J.changes
            /\ J.hard = I.hard /\ J.command = I.command
            /\ J.meta.hash = IF key = "hash" THEN v ELSE I.meta.hash
            /\ J.meta.size = IF key = "size" THEN v ELSE I.meta.size
<1> DEFINE M == [I.meta EXCEPT ![key] = v]
<1>1. I.meta \in Metadata
  BY DEF IndexObjects
<1>2. /\ M \in Metadata
      /\ M.hash = IF key = "hash" THEN v ELSE I.meta.hash
      /\ M.size = IF key = "size" THEN v ELSE I.meta.size
  BY <1>1 DEF Metadata
<1>3. SetMetadata(I, key, v) = [I EXCEPT !.meta = M, !.changes = TRUE]
  BY DEF SetMetadata, IndexObjects
<1> HIDE DEF M
<1> QED
  BY <1>2, <1>3 DEF IndexObjects

\* Adding a page stores it with the hash of the object.
LEMMA PageAdded ==
  ASSUME NEW P \in PageObjects
  PROVE  LET Q == WithPage(P)
         IN /\ Q \in PageObjects /\ Q.stored = Append(P.stored, P.hash) /\ Q.changed
            /\ Q.stored # <<>>
            /\ Q.hash = P.hash /\ Q.index = P.index /\ Q.hard = P.hard
            /\ Q.readonly = P.readonly /\ Q.command = P.command
            /\ AllWith(P.stored, P.hash) => AllWith(Q.stored, P.hash)
<1> DEFINE s == Append(P.stored, P.hash)
<1>1. P.stored \in Seq(Hashes) /\ P.hash \in Hashes
  BY DEF PageObjects
<1>2. s \in Seq(Hashes) /\ s # <<>>
  BY <1>1
<1>3. AllWith(P.stored, P.hash) => AllWith(s, P.hash)
  BY <1>1 DEF AllWith
<1>4. WithPage(P) = [P EXCEPT !.stored = s, !.changed = TRUE]
  BY DEF WithPage
<1> HIDE DEF s
<1>5. /\ WithPage(P) \in PageObjects /\ WithPage(P).stored = s /\ WithPage(P).changed
      /\ WithPage(P).hash = P.hash /\ WithPage(P).index = P.index
      /\ WithPage(P).hard = P.hard /\ WithPage(P).readonly = P.readonly
      /\ WithPage(P).command = P.command
  BY <1>2, <1>4 DEF PageObjects
<1> QED
  BY <1>2, <1>3, <1>5 DEF s

\* What is opened has what the archive has.
LEMMA PagesOpened ==
  ASSUME TypeOK, NEW readonly \in BOOLEAN
  PROVE  LET P == OpenedPages(readonly)
         IN /\ P \in PageObjects /\ P.hash = "md5" /\ ~P.hard /\ P.readonly = readonly
            /\ P.stored = IF archive = NULL THEN <<>> ELSE archive.stored
            /\ P.index = IF archive = NULL THEN NULL ELSE archive.index
            /\ P.changed = (archive = NULL)
<1>1. archive # NULL => archive.stored \in Seq(Hashes) /\ archive.index \in Metadata \cup {NULL}
  BY DEF TypeOK, Archives
<1>2. <<>> \in Seq(Hashes)
  OBVIOUS
<1> QED
  BY <1>1, <1>2 DEF OpenedPages, PageObjects, Hashes

\* A new index has the metadata it is made of.
LEMMA IndexMade ==
  ASSUME NEW data \in Metadata \cup {NULL}
  PROVE  LET I == NewIndex(data)
         IN /\ I \in IndexObjects /\ ~I.hard /\ ~I.changes
            /\ I.meta = IF data = NULL THEN NoMetadata ELSE data
            /\ Named(I.meta) = Named(data)
<1>1. NoMetadata \in Metadata /\ NoMetadata.hash = NULL
  BY DEF Metadata, NoMetadata
<1>2. NewIndex(data) \in IndexObjects
  BY <1>1 DEF NewIndex, IndexObjects
<1>3. NoMetadata # NULL /\ NULL \notin Hashes
  BY <1>1, NamesAssumption
<1> QED
  BY <1>1, <1>2, <1>3 DEF NewIndex, Named

\* Closed pages are saved as they are, or the archive stays.
LEMMA PagesSaved ==
  ASSUME TypeOK, NEW P \in PageObjects
  PROVE  /\ Saved(P) \in Archives \cup {NULL}
         /\ (archive # NULL => Fits(archive)) /\ (P.changed /\ ~P.readonly => Fits(P))
              => (Saved(P) # NULL => Fits(Saved(P)))
BY DEF TypeOK, Saved, Archives, PageObjects, Fits

-----------------------------------------------------------------------------
(* What a mount makes of its options.                                      *)

\* Storing the setting, or the default, leaves the hash in the metadata.
LEMMA SizeStored ==
  ASSUME NEW o \in Options, NEW I \in IndexObjects
  PROVE  /\ Sized(o, I) \in IndexObjects /\ Sized(o, I).hard = I.hard
         /\ Sized(o, I).meta.hash = I.meta.hash
         /\ I.changes => Sized(o, I).changes
         /\ SizeUsed(o, I) \in Values
<1>1. o.size \in Values \cup {NULL} /\ Default \in Values
  BY MountingAssumption DEF Options
<1>2. CASE o.size # NULL
  BY <1>1, <1>2, MetadataSet DEF Sized, SizeUsed
<1>3. CASE o.size = NULL
  BY <1>1, <1>3, MetadataSet DEF Sized, SizeUsed
<1> QED
  BY <1>2, <1>3

\* So does what -setmetadata tells.
LEMMA SizeTold ==
  ASSUME NEW o \in Options, NEW I \in IndexObjects
  PROVE  /\ Told(o, I) \in IndexObjects /\ Told(o, I).hard = I.hard
         /\ Told(o, I).meta.hash = I.meta.hash
         /\ I.changes => Told(o, I).changes
<1>1. o.told \in {Bad, NULL}
  BY DEF Options
<1> QED
  BY <1>1, MetadataSet DEF Told

\* Choosing the hash of pages P with index I: pages with data have the one that
\* is named, empty ones get one that the index then names.
Chosen(o, P, I, H) ==
  /\ H.pages \in PageObjects /\ H.pages.hard = P.hard
  /\ H.pages.readonly = P.readonly /\ H.pages.index = P.index
  /\ H.index \in IndexObjects /\ H.index.hard = I.hard
  /\ I.changes => H.index.changes
  /\ P.stored # <<>> =>
       /\ H.pages.stored = P.stored /\ H.pages.changed = P.changed
       /\ H.index = I
       /\ H.pages.hash = IF I.meta.hash \in Hashes THEN I.meta.hash ELSE P.hash
  /\ P.stored = <<>> /\ H.ok =>
       /\ (o.bootstrap => o.hash = "md5") => AllWith(H.pages.stored, H.pages.hash)
       /\ H.index.changes /\ H.index.meta.hash = H.pages.hash
  /\ ~H.ok => H.pages = P /\ H.index = I
  /\ ~o.bootstrap => H.pages.stored = P.stored /\ H.pages.changed = P.changed

\* It is chosen so.
LEMMA HashChosen ==
  ASSUME NEW o \in Options, NEW P \in PageObjects, NEW I \in IndexObjects
  PROVE  Chosen(o, P, I, Hashed(o, P, I))
<1> SUFFICES ASSUME NEW H, H = Hashed(o, P, I) PROVE Chosen(o, P, I, H)
  OBVIOUS
<1> USE DEF Chosen
<1> DEFINE B == IF o.bootstrap THEN WithPage(P) ELSE P
           h == IF o.hash # "md5" THEN o.hash ELSE B.hash
<1>1. /\ B \in PageObjects /\ B.hash = P.hash /\ B.hard = P.hard
      /\ B.readonly = P.readonly /\ B.index = P.index
      /\ P.stored = <<>> => AllWith(B.stored, P.hash)
  <2>1. P.stored = <<>> => AllWith(P.stored, P.hash)
    BY DEF AllWith
  <2> QED
    BY <2>1, PageAdded
<1>2. h \in Hashes
  BY <1>1 DEF Options, PageObjects
<1>3. CASE P.stored # <<>>
  <2>1. /\ H.ok = (I.meta.hash # Bad) /\ H.index = I
        /\ H.pages = IF I.meta.hash \in Hashes THEN [P EXCEPT !.hash = I.meta.hash] ELSE P
    BY <1>3 DEF Hashed
  <2>2. CASE I.meta.hash \in Hashes
    <3>1. H.pages = [P EXCEPT !.hash = I.meta.hash] /\ H.ok
      BY <2>1, <2>2, NamesAssumption
    <3>2. /\ H.pages \in PageObjects /\ H.pages.hash = I.meta.hash
          /\ H.pages.stored = P.stored /\ H.pages.changed = P.changed
          /\ H.pages.hard = P.hard /\ H.pages.readonly = P.readonly
          /\ H.pages.index = P.index
      BY <2>2, <3>1 DEF PageObjects
    <3> QED
      BY <1>3, <2>1, <2>2, <3>1, <3>2
  <2>3. CASE I.meta.hash \notin Hashes
    <3> QED
      BY <1>3, <2>1, <2>3
  <2> QED
    BY <2>2, <2>3
<1>4. CASE P.stored = <<>> /\ o.bootstrap /\ P.readonly
  <2>1. H = [ok |-> FALSE, pages |-> P, index |-> I]
    BY <1>4 DEF Hashed
  <2>2. H.ok = FALSE /\ H.pages = P /\ H.index = I
    BY <2>1
  <2> QED
    BY <1>4, <2>2
<1>5. CASE P.stored = <<>> /\ ~(o.bootstrap /\ P.readonly)
  <2> DEFINE Q == [B EXCEPT !.hash = h]
             J == SetMetadata(I, "hash", h)
  <2>1. H.ok = TRUE /\ H.pages = Q /\ H.index = J
    BY <1>5 DEF Hashed
  <2>2. /\ Q \in PageObjects /\ Q.hash = h /\ Q.stored = B.stored
        /\ Q.hard = P.hard /\ Q.readonly = P.readonly /\ Q.index = P.index
        /\ Q.changed = B.changed
    BY <1>1, <1>2 DEF PageObjects
  <2>3. J \in IndexObjects /\ J.changes /\ J.hard = I.hard /\ J.meta.hash = h
    BY <1>2, MetadataSet
  <2>4. (o.bootstrap => o.hash = "md5") => AllWith(Q.stored, h)
    BY <1>1, <1>5, <2>2 DEF AllWith
  <2>5. ~o.bootstrap => Q.stored = P.stored /\ Q.changed = P.changed
    BY <2>2
  <2> HIDE DEF Q, J
  <2> QED
    BY <1>5, <2>1, <2>2, <2>3, <2>4, <2>5 DEF h
<1> QED
  BY <1>3, <1>4, <1>5

\* The objects a mount begins with
LEMMA ObjectsFound ==
  ASSUME TypeOK, NEW o \in Options, IsSensible(o)
  PROVE  /\ PagesOf(o) \in PageObjects \cup {NULL}
         /\ PagesOf(o) # NULL =>
              /\ PagesOf(o).hard
              /\ IF o.pages # NULL
                   THEN /\ pages[o.pages] \in PageObjects
                        /\ PagesOf(o) = [pages[o.pages] EXCEPT !.hard = TRUE]
                   ELSE PagesOf(o) = [OpenedPages(Readonly(o)) EXCEPT !.hard = TRUE]
         /\ o.pages # NULL => PagesOf(o) # NULL
         /\ IndexOf(o, PagesOf(o)) \in IndexObjects /\ IndexOf(o, PagesOf(o)).hard
         /\ IF o.index # NULL
              THEN /\ indexes[o.index] \in IndexObjects
                   /\ IndexOf(o, PagesOf(o)) = [indexes[o.index] EXCEPT !.hard = TRUE]
              ELSE IndexOf(o, PagesOf(o)) =
                     [NewIndex(IF PagesOf(o) = NULL THEN NULL ELSE PagesOf(o).index)
                        EXCEPT !.hard = TRUE]
<1>1. o.pages \in Pages \cup {NULL} /\ o.index \in Indexes \cup {NULL}
  BY DEF Options
<1>2. /\ o.pages # NULL => pages[o.pages] \in PageObjects
      /\ o.index # NULL => indexes[o.index] \in IndexObjects
  BY <1>1 DEF IsSensible, TypeOK
<1>3. ASSUME NEW Q \in PageObjects
      PROVE  [Q EXCEPT !.hard = TRUE] \in PageObjects /\ [Q EXCEPT !.hard = TRUE].hard
  BY DEF PageObjects
<1>4. ASSUME NEW J \in IndexObjects
      PROVE  [J EXCEPT !.hard = TRUE] \in IndexObjects /\ [J EXCEPT !.hard = TRUE].hard
  BY DEF IndexObjects
<1>5. Readonly(o) \in BOOLEAN
  BY DEF Readonly
<1>6. /\ PagesOf(o) \in PageObjects \cup {NULL}
      /\ PagesOf(o) # NULL =>
           /\ PagesOf(o).hard
           /\ IF o.pages # NULL
                THEN PagesOf(o) = [pages[o.pages] EXCEPT !.hard = TRUE]
                ELSE PagesOf(o) = [OpenedPages(Readonly(o)) EXCEPT !.hard = TRUE]
      /\ o.pages # NULL => PagesOf(o) # NULL
  <2>1. CASE o.pages # NULL
    BY <1>2, <1>3, <2>1, NamesAssumption DEF PagesOf
  <2>2. CASE o.pages = NULL /\ CanOpen(Readonly(o))
    <3>1. OpenedPages(Readonly(o)) \in PageObjects
      BY <1>5, PagesOpened
    <3> QED
      BY <1>3, <2>2, <3>1 DEF PagesOf
  <2>3. CASE o.pages = NULL /\ ~CanOpen(Readonly(o))
    BY <2>3 DEF PagesOf
  <2> QED
    BY <2>1, <2>2, <2>3
<1>7. PICK P \in PageObjects \cup {NULL} : P = PagesOf(o)
  BY <1>6
<1>8. NewIndex(IF P = NULL THEN NULL ELSE P.index) \in IndexObjects
  BY IndexMade DEF PageObjects
<1>9. IndexOf(o, P) \in IndexObjects /\ IndexOf(o, P).hard
  BY <1>2, <1>4, <1>8 DEF IndexOf
<1>10. IF o.index # NULL
         THEN IndexOf(o, P) = [indexes[o.index] EXCEPT !.hard = TRUE]
         ELSE IndexOf(o, P) = [NewIndex(IF P = NULL THEN NULL ELSE P.index) EXCEPT !.hard = TRUE]
  BY DEF IndexOf
<1> QED
  BY <1>2, <1>6, <1>7, <1>9, <1>10

-----------------------------------------------------------------------------
(* Mounts have their objects.                                              *)

\* A step that starts no mount keeps what the mounts need that stay, and what is
\* left behind.
LEMMA ObjectsKept ==
  ASSUME ObjectsInv, TypeOK',
         \A m \in Mounts : mounts'[m] # NULL =>
           /\ mounts[m] # NULL
           /\ mounts'[m].pages = mounts[m].pages /\ mounts'[m].index = mounts[m].index
           /\ mounts[m].toMemory => mounts'[m].toMemory
           /\ mounts'[m].pending => ~mounts'[m].readonly,
         \A o \in left' : o \in left \/
           \E m \in Mounts : mounts[m] # NULL /\ mounts'[m] = NULL
                             /\ o \in {mounts[m].pages, mounts[m].index},
         \A p \in Pages : pages[p] # NULL /\ pages[p].hard /\ (InUse(p)' \/ p \in left') =>
           pages'[p] # NULL /\ pages'[p].hard,
         \A i \in Indexes : indexes[i] # NULL /\ indexes[i].hard /\ (InUse(i)' \/ i \in left') =>
           indexes'[i] # NULL /\ indexes'[i].hard
  PROVE  ObjectsInv'
<1>1. \A m \in Mounts : mounts[m] # NULL =>
        mounts[m].index \in Indexes /\ mounts[m].pages \in Pages \cup {NULL}
  BY DEF ObjectsInv, TypeOK, MountObjects
<1>2. \A m \in Mounts : mounts'[m] # NULL =>
        /\ InUse(mounts[m].index)'
        /\ mounts[m].pages # NULL => InUse(mounts[m].pages)'
  BY DEF InUse
<1>3. Whole'
  BY <1>1, <1>2 DEF ObjectsInv, Whole
<1>4. \A m, n \in Mounts : m # n /\ mounts'[m] # NULL /\ mounts'[n] # NULL =>
        /\ mounts'[m].index # mounts'[n].index
        /\ mounts'[m].pages # NULL => mounts'[m].pages # mounts'[n].pages
  BY DEF ObjectsInv, Apart
<1>5. ASSUME NEW m \in Mounts, mounts'[m] # NULL, NEW o \in left',
             o \in {mounts'[m].pages, mounts'[m].index}
      PROVE  FALSE
  <2>1. o # NULL /\ o \in {mounts[m].pages, mounts[m].index} /\ mounts[m] # NULL
    BY <1>5, MountingAssumption DEF TypeOK
  <2>2. o \notin left
    BY <2>1 DEF ObjectsInv, Apart
  <2>3. PICK n \in Mounts : /\ mounts[n] # NULL /\ mounts'[n] = NULL
                            /\ o \in {mounts[n].pages, mounts[n].index}
    BY <2>2
  <2>4. n # m
    BY <1>5, <2>3
  <2>5. /\ mounts[m].index # mounts[n].index
        /\ mounts[m].pages # NULL => mounts[m].pages # mounts[n].pages
    BY <2>1, <2>3, <2>4 DEF ObjectsInv, Apart
  <2> QED
    BY <1>1, <2>1, <2>3, <2>5, MountingAssumption
<1>6. ASSUME NEW o \in left'
      PROVE  /\ o \in Pages => pages[o] # NULL /\ pages[o].hard
             /\ o \in Indexes => indexes[o] # NULL /\ indexes[o].hard
  <2>1. CASE o \in left
    BY <2>1 DEF ObjectsInv, Apart
  <2>2. CASE o \notin left
    <3>1. PICK m \in Mounts : mounts[m] # NULL /\ o \in {mounts[m].pages, mounts[m].index}
      BY <2>2
    <3>2. o # NULL
      BY MountingAssumption DEF TypeOK
    <3> QED
      BY <1>1, <3>1, <3>2, MountingAssumption DEF ObjectsInv, Whole
  <2> QED
    BY <2>1, <2>2
<1>7. /\ \A p \in Pages \cap left' : pages'[p] # NULL /\ pages'[p].hard
      /\ \A i \in Indexes \cap left' : indexes'[i] # NULL /\ indexes'[i].hard
  BY <1>6
<1>8. Apart'
  BY <1>4, <1>5, <1>7 DEF Apart
<1>9. Modes'
  BY DEF ObjectsInv, Modes
<1> QED
  BY <1>3, <1>8, <1>9 DEF ObjectsInv

\* One pages object changes, or becomes one, or is closed.
LEMMA OnePages ==
  ASSUME ObjectsInv, NEW p \in Pages, NEW Q \in PageObjects \cup {NULL},
         pages' = [pages EXCEPT ![p] = Q], archive' \in Archives \cup {NULL},
         pages[p] # NULL /\ pages[p].hard => Q # NULL /\ Q.hard,
         UNCHANGED <<indexes, mounts, left>>
  PROVE  /\ ObjectsInv'
         /\ Owned /\ (Q # NULL => InUse(p) \/ p \in left \/ (Q.command /\ ~Q.hard)) => Owned'
<1>1. \A q \in Pages : pages'[q] = IF q = p THEN Q ELSE pages[q]
  BY DEF ObjectsInv, TypeOK
<1>2. TypeOK'
  BY DEF ObjectsInv, TypeOK
<1>3. ObjectsInv'
  BY <1>1, <1>2, ObjectsKept DEF ObjectsInv, Modes
<1>4. \A o : InUse(o)' = InUse(o)
  BY DEF InUse
<1> QED
  BY <1>1, <1>3, <1>4 DEF Owned

\* One index changes, or becomes one, or is freed.
LEMMA OneIndex ==
  ASSUME ObjectsInv, NEW i \in Indexes, NEW J \in IndexObjects \cup {NULL},
         indexes' = [indexes EXCEPT ![i] = J],
         indexes[i] # NULL /\ indexes[i].hard => J # NULL /\ J.hard,
         UNCHANGED <<archive, pages, mounts, left>>
  PROVE  /\ ObjectsInv'
         /\ Owned /\ (J # NULL => InUse(i) \/ i \in left \/ (J.command /\ ~J.hard)) => Owned'
<1>1. \A j \in Indexes : indexes'[j] = IF j = i THEN J ELSE indexes[j]
  BY DEF ObjectsInv, TypeOK
<1>2. TypeOK'
  BY DEF ObjectsInv, TypeOK
<1>3. ObjectsInv'
  BY <1>1, <1>2, ObjectsKept DEF ObjectsInv, Modes
<1>4. \A o : InUse(o)' = InUse(o)
  BY DEF InUse
<1> QED
  BY <1>1, <1>3, <1>4 DEF Owned

\* The flags of a mount change.
LEMMA OneMount ==
  ASSUME ObjectsInv, NEW m \in Mounts, mounts[m] # NULL, NEW M \in MountObjects,
         mounts' = [mounts EXCEPT ![m] = M],
         M.pages = mounts[m].pages, M.index = mounts[m].index,
         mounts[m].toMemory => M.toMemory, M.pending => ~M.readonly,
         UNCHANGED <<archive, pages, indexes, left>>
  PROVE  ObjectsInv' /\ (Owned => Owned')
<1>1. M # NULL /\ \A n \in Mounts : mounts'[n] = IF n = m THEN M ELSE mounts[n]
  BY NamesAssumption DEF ObjectsInv, TypeOK
<1>2. TypeOK'
  BY DEF ObjectsInv, TypeOK
<1>3. ObjectsInv'
  BY <1>1, <1>2, ObjectsKept DEF ObjectsInv, Modes
<1>4. \A o : InUse(o)' = InUse(o)
  BY <1>1 DEF InUse
<1> QED
  BY <1>3, <1>4 DEF Owned

\* What a mount has
LEMMA MountHas ==
  ASSUME ObjectsInv, NEW m \in Mounts, mounts[m] # NULL
  PROVE  /\ mounts[m] \in MountObjects /\ IsMounted(m)
         /\ mounts[m].index \in Indexes
         /\ indexes[mounts[m].index] \in IndexObjects /\ indexes[mounts[m].index].hard
         /\ mounts[m].pages \in Pages \cup {NULL}
         /\ mounts[m].pages # NULL =>
              pages[mounts[m].pages] \in PageObjects /\ pages[mounts[m].pages].hard
<1>1. mounts[m] \in MountObjects
  BY DEF ObjectsInv, TypeOK
<1> QED
  BY <1>1 DEF ObjectsInv, TypeOK, Whole, MountObjects, IsMounted

\* Setting a field
LEMMA Commanded ==
  /\ \A P \in PageObjects, b \in BOOLEAN :
       /\ [P EXCEPT !.command = b] \in PageObjects
       /\ [P EXCEPT !.command = b].hard = P.hard
       /\ [P EXCEPT !.command = b].command = b
  /\ \A I \in IndexObjects, b \in BOOLEAN :
       /\ [I EXCEPT !.command = b] \in IndexObjects
       /\ [I EXCEPT !.command = b].hard = I.hard
       /\ [I EXCEPT !.command = b].command = b
BY DEF PageObjects, IndexObjects

\* The commands of pages objects
LEMMA PagesCommands ==
  ASSUME ObjectsInv, NEW p \in Pages,
         RegisterPages(p) \/ PagesCmdAdd(p) \/ CookfsPagesCmdHash(p) \/ PagesDelete(p)
  PROVE  ObjectsInv' /\ (Owned => Owned')
<1>1. TypeOK /\ (pages[p] # NULL => pages[p] \in PageObjects)
  BY DEF ObjectsInv, TypeOK
<1>2. CASE RegisterPages(p)
  <2>1. PICK readonly \in BOOLEAN :
          pages' = [pages EXCEPT ![p] = [OpenedPages(readonly) EXCEPT !.command = TRUE]]
    BY <1>2 DEF RegisterPages
  <2>2. /\ [OpenedPages(readonly) EXCEPT !.command = TRUE] \in PageObjects
        /\ [OpenedPages(readonly) EXCEPT !.command = TRUE].command
        /\ ~[OpenedPages(readonly) EXCEPT !.command = TRUE].hard
    BY <1>1, PagesOpened, Commanded
  <2> QED
    BY <1>1, <1>2, <2>1, <2>2, OnePages DEF RegisterPages, TypeOK
<1>3. CASE PagesCmdAdd(p)
  <2>1. /\ pages[p] # NULL /\ pages' = [pages EXCEPT ![p] = WithPage(pages[p])]
        /\ UNCHANGED <<archive, indexes, mounts, left>>
    BY <1>3 DEF PagesCmdAdd
  <2>2. /\ WithPage(pages[p]) \in PageObjects /\ WithPage(pages[p]).hard = pages[p].hard
        /\ WithPage(pages[p]).command = pages[p].command
    BY <1>1, <2>1, PageAdded
  <2>3. WithPage(pages[p]) # NULL
    BY <2>2, NamesAssumption
  <2> QED
    BY <1>1, <2>1, <2>2, <2>3, OnePages DEF TypeOK, Owned
<1>4. CASE CookfsPagesCmdHash(p)
  <2>1. PICK h \in Hashes :
          /\ pages[p] # NULL /\ pages' = [pages EXCEPT ![p] = [pages[p] EXCEPT !.hash = h]]
          /\ UNCHANGED <<archive, indexes, mounts, left>>
    BY <1>4 DEF CookfsPagesCmdHash
  <2> DEFINE Q == [pages[p] EXCEPT !.hash = h]
  <2>2. Q \in PageObjects /\ Q.hard = pages[p].hard /\ Q.command = pages[p].command
    BY <1>1, <2>1 DEF PageObjects
  <2>3. Q # NULL
    BY <2>2, NamesAssumption
  <2> QED
    BY <1>1, <2>1, <2>2, <2>3, OnePages DEF TypeOK, Owned
<1>5. CASE PagesDelete(p)
  <2>1. CASE pages[p].hard
    <3>1. /\ pages[p] # NULL
          /\ pages' = [pages EXCEPT ![p] = [pages[p] EXCEPT !.command = FALSE]]
          /\ UNCHANGED <<archive, indexes, mounts, left>>
      BY <1>5, <2>1 DEF PagesDelete
    <3>2. PICK Q \in PageObjects : Q = [pages[p] EXCEPT !.command = FALSE] /\ Q.hard
      BY <1>1, <2>1, <3>1, Commanded
    <3>3. Q # NULL
      BY <3>2, NamesAssumption
    <3> QED
      BY <1>1, <2>1, <3>1, <3>2, <3>3, OnePages DEF TypeOK, Owned
  <2>2. CASE ~pages[p].hard
    <3>1. /\ pages[p] # NULL /\ pages' = [pages EXCEPT ![p] = NULL]
          /\ archive' = Saved(pages[p]) /\ UNCHANGED <<indexes, mounts, left>>
      BY <1>5, <2>2 DEF PagesDelete
    <3>2. archive' \in Archives \cup {NULL}
      BY <1>1, <3>1, PagesSaved
    <3> QED
      BY <2>2, <3>1, <3>2, OnePages
  <2> QED
    BY <2>1, <2>2
<1> QED
  BY <1>2, <1>3, <1>4, <1>5

\* Data that a user can have
LEMMA DataIs ==
  ASSUME TypeOK
  PROVE  DataInHand \subseteq Metadata
<1>1. NoMetadata \in Metadata
  BY DEF NoMetadata, Metadata
<1>2. \A p \in Pages : pages[p] # NULL => pages[p].index \in Metadata \cup {NULL}
  BY DEF TypeOK, PageObjects
<1>3. \A i \in Indexes : indexes[i] # NULL => indexes[i].meta \in Metadata
  BY DEF TypeOK, IndexObjects
<1> QED
  BY <1>1, <1>2, <1>3 DEF DataInHand

\* The commands of an index that change what is in it
IndexTold(i) ==
  \/ IndexCmdExport(i) \/ IndexCmdImport(i) \/ IndexCmdSet(i)
  \/ IndexCmdSetMetadata(i) \/ IndexCmdUnsetMetadata(i)

\* What they leave: the index counts as changed, or what it has is in the archive;
\* and it names the hash that it may.
LEMMA ToldIs ==
  ASSUME ObjectsInv, NEW i \in Indexes, IndexTold(i)
  PROVE  /\ indexes[i] # NULL /\ indexes[i] \in IndexObjects
         /\ UNCHANGED <<archive, pages, mounts, left>>
         /\ \E J \in IndexObjects :
              /\ indexes' = [indexes EXCEPT ![i] = J]
              /\ J.hard = indexes[i].hard /\ J.command = indexes[i].command
              /\ J.changes \/ "exports" \in Careless \/ IsInArchive(i, J.meta)
              /\ MayName(i, J.meta.hash)
<1> DEFINE I == indexes[i]
<1>1. I # NULL /\ UNCHANGED <<archive, pages, mounts, left>>
  BY DEF IndexTold, IndexCmdExport, IndexCmdImport, IndexCmdSet, IndexCmdSetMetadata,
         IndexCmdUnsetMetadata, HasCommand
<1>2. I \in IndexObjects
  BY <1>1 DEF ObjectsInv, TypeOK
<1>3. MayName(i, I.meta.hash)
  BY DEF MayName
<1>4. CASE IndexCmdExport(i)
  <2> DEFINE J == [I EXCEPT !.changes = FALSE]
  <2>1. /\ J \in IndexObjects /\ J.hard = I.hard /\ J.command = I.command
        /\ J.meta = I.meta
    BY <1>2 DEF IndexObjects
  <2>2. /\ indexes' = [indexes EXCEPT ![i] = J]
        /\ "exports" \in Careless \/ IsInArchive(i, I.meta)
    BY <1>4 DEF IndexCmdExport
  <2> HIDE DEF J
  <2> QED
    BY <1>1, <1>2, <1>3, <2>1, <2>2
<1>5. CASE IndexCmdImport(i)
  <2>1. PICK data \in DataInHand :
          /\ "exports" \in Careless \/ IsInArchive(i, data)
          /\ MayName(i, data.hash)
          /\ indexes' = [indexes EXCEPT ![i].meta = data, ![i].changes = FALSE]
    BY <1>5 DEF IndexCmdImport
  <2> DEFINE J == [I EXCEPT !.meta = data, !.changes = FALSE]
  <2>2. data \in Metadata
    BY DataIs DEF ObjectsInv
  <2>3. /\ J \in IndexObjects /\ J.hard = I.hard /\ J.command = I.command
        /\ J.meta = data
    BY <1>2, <2>2 DEF IndexObjects
  <2>4. indexes' = [indexes EXCEPT ![i] = J]
    BY <2>1 DEF ObjectsInv, TypeOK
  <2> HIDE DEF J
  <2> QED
    BY <1>1, <1>2, <2>1, <2>3, <2>4
<1>6. CASE IndexCmdSet(i)
  <2> DEFINE J == [I EXCEPT !.changes = TRUE]
  <2>1. /\ J \in IndexObjects /\ J.hard = I.hard /\ J.command = I.command
        /\ J.meta = I.meta /\ J.changes
    BY <1>2 DEF IndexObjects
  <2>2. indexes' = [indexes EXCEPT ![i] = J]
    BY <1>6 DEF IndexCmdSet
  <2> HIDE DEF J
  <2> QED
    BY <1>1, <1>2, <1>3, <2>1, <2>2
<1>7. CASE IndexCmdSetMetadata(i) \/ IndexCmdUnsetMetadata(i)
  <2>1. PICK key \in {"size", "hash"}, v \in Values \cup Hashes \cup {Bad, NULL} :
          /\ key = "size" => v \in Values \cup {Bad, NULL}
          /\ key = "hash" => v \in Hashes \cup {Bad, NULL} /\ MayName(i, v)
          /\ indexes' = [indexes EXCEPT ![i] = SetMetadata(I, key, v)]
    BY <1>7 DEF IndexCmdSetMetadata, IndexCmdUnsetMetadata
  <2> DEFINE J == SetMetadata(I, key, v)
  <2>2. /\ J \in IndexObjects /\ J.changes /\ J.hard = I.hard /\ J.command = I.command
        /\ J.meta.hash = IF key = "hash" THEN v ELSE I.meta.hash
    BY <1>2, <2>1, MetadataSet
  <2> HIDE DEF J
  <2>3. MayName(i, J.meta.hash)
    BY <1>3, <2>1, <2>2
  <2>4. indexes' = [indexes EXCEPT ![i] = J]
    BY <2>1 DEF J
  <2> QED
    BY <1>1, <1>2, <2>2, <2>3, <2>4
<1> QED
  BY <1>4, <1>5, <1>6, <1>7 DEF IndexTold

\* The commands of index objects
LEMMA IndexCommands ==
  ASSUME ObjectsInv, NEW i \in Indexes, RegisterIndex(i) \/ IndexDelete(i) \/ IndexTold(i)
  PROVE  ObjectsInv' /\ (Owned => Owned')
<1>1. TypeOK /\ (indexes[i] # NULL => indexes[i] \in IndexObjects)
  BY DEF ObjectsInv, TypeOK
<1>2. CASE RegisterIndex(i)
  <2>1. PICK data \in DataInHand :
          indexes' = [indexes EXCEPT ![i] = [NewIndex(data) EXCEPT !.command = TRUE]]
    BY <1>2 DEF RegisterIndex
  <2>2. data \in Metadata
    BY <1>1, DataIs
  <2>3. /\ [NewIndex(data) EXCEPT !.command = TRUE] \in IndexObjects
        /\ [NewIndex(data) EXCEPT !.command = TRUE].command
        /\ ~[NewIndex(data) EXCEPT !.command = TRUE].hard
    BY <2>2, IndexMade, Commanded
  <2> QED
    BY <1>2, <2>1, <2>3, OneIndex DEF RegisterIndex
<1>3. CASE IndexDelete(i)
  <2> DEFINE J == IF indexes[i].hard THEN [indexes[i] EXCEPT !.command = FALSE] ELSE NULL
  <2>1. /\ indexes[i] # NULL /\ indexes' = [indexes EXCEPT ![i] = J]
        /\ UNCHANGED <<archive, pages, mounts, left>>
    BY <1>3 DEF IndexDelete
  <2>2. J \in IndexObjects \cup {NULL} /\ (indexes[i].hard => J # NULL /\ J.hard)
    <3>1. /\ [indexes[i] EXCEPT !.command = FALSE] \in IndexObjects
          /\ [indexes[i] EXCEPT !.command = FALSE].hard = indexes[i].hard
      BY <1>1, <2>1, Commanded
    <3> QED
      BY <3>1, NamesAssumption
  <2>3. J # NULL => indexes[i].hard
    OBVIOUS
  <2> HIDE DEF J
  <2> QED
    BY <2>1, <2>2, <2>3, OneIndex DEF Owned
<1>4. CASE IndexTold(i)
  <2>1. PICK J \in IndexObjects :
          /\ indexes[i] # NULL /\ indexes' = [indexes EXCEPT ![i] = J]
          /\ J.hard = indexes[i].hard /\ J.command = indexes[i].command
          /\ UNCHANGED <<archive, pages, mounts, left>>
    BY <1>4, ToldIs
  <2>2. J # NULL
    BY NamesAssumption
  <2> QED
    BY <2>1, <2>2, OneIndex DEF Owned
<1> QED
  BY <1>2, <1>3, <1>4

\* The handle of a mount, and closing a file in it
LEMMA HandleCommands ==
  ASSUME ObjectsInv, NEW m \in Mounts,
         \/ GetPages(m) \/ GetIndex(m) \/ HandleDelete(m)
         \/ HandleSetMetadata(m) \/ HandleWritetomemory(m)
  PROVE  ObjectsInv' /\ (Owned => Owned')
<1> DEFINE p == mounts[m].pages
           i == mounts[m].index
<1>1. mounts[m] # NULL
  BY DEF GetPages, GetIndex, HandleDelete, HandleSetMetadata, HandleWritetomemory,
         HasHandle, IsMounted
<1>2. /\ mounts[m] \in MountObjects
      /\ i \in Indexes /\ indexes[i] \in IndexObjects /\ indexes[i].hard
      /\ p \in Pages \cup {NULL}
      /\ p # NULL => pages[p] \in PageObjects /\ pages[p].hard
  BY <1>1, MountHas
<1>9. InUse(i) /\ (p # NULL => InUse(p))
  BY <1>1 DEF InUse
<1> HIDE DEF p, i
<1>3. CASE GetPages(m)
  <2>1. /\ p \in Pages /\ pages' = [pages EXCEPT ![p] = [pages[p] EXCEPT !.command = TRUE]]
        /\ UNCHANGED <<archive, indexes, mounts, left>>
    BY <1>2, <1>3 DEF GetPages, p
  <2>2. /\ [pages[p] EXCEPT !.command = TRUE] \in PageObjects
        /\ [pages[p] EXCEPT !.command = TRUE].hard = pages[p].hard
    BY <1>2, <2>1, Commanded, NamesAssumption, MountingAssumption
  <2>3. [pages[p] EXCEPT !.command = TRUE] # NULL /\ pages[p].hard
    BY <1>2, <2>1, <2>2, NamesAssumption, MountingAssumption
  <2>4. archive' \in Archives \cup {NULL}
    BY <2>1 DEF ObjectsInv, TypeOK
  <2> QED
    BY <1>9, <2>1, <2>2, <2>3, <2>4, MountingAssumption, OnePages
<1>4. CASE GetIndex(m)
  <2>1. /\ indexes' = [indexes EXCEPT ![i] = [indexes[i] EXCEPT !.command = TRUE]]
        /\ UNCHANGED <<archive, pages, mounts, left>>
    BY <1>4 DEF GetIndex, i
  <2>2. /\ [indexes[i] EXCEPT !.command = TRUE] \in IndexObjects
        /\ [indexes[i] EXCEPT !.command = TRUE].hard = indexes[i].hard
    BY <1>2, Commanded
  <2>3. [indexes[i] EXCEPT !.command = TRUE] # NULL
    BY <2>2, NamesAssumption
  <2> QED
    BY <1>2, <1>9, <2>1, <2>2, <2>3, OneIndex
<1>5. CASE HandleSetMetadata(m)
  <2>1. PICK key \in {"size", "hash"}, v \in Values \cup Hashes \cup {Bad} :
          /\ key = "size" => v \in Values \cup {Bad}
          /\ key = "hash" => v \in Hashes \cup {Bad}
          /\ indexes' = [indexes EXCEPT ![i] = SetMetadata(indexes[i], key, v)]
    BY <1>5 DEF HandleSetMetadata, i
  <2>2. SetMetadata(indexes[i], key, v) \in IndexObjects
    BY <1>2, <2>1, MetadataSet
  <2>3. SetMetadata(indexes[i], key, v).hard
    BY <1>2, <2>1, MetadataSet
  <2>4. SetMetadata(indexes[i], key, v) # NULL
    BY <2>2, NamesAssumption
  <2>5. UNCHANGED <<archive, pages, mounts, left>>
    BY <1>5 DEF HandleSetMetadata
  <2> QED
    BY <1>2, <1>9, <2>1, <2>2, <2>3, <2>4, <2>5, OneIndex
<1>6. CASE HandleWritetomemory(m)
  <2> DEFINE M == [mounts[m] EXCEPT !.toMemory = TRUE, !.readonly = FALSE]
  <2>1. mounts' = [mounts EXCEPT ![m] = M] /\ UNCHANGED <<archive, pages, indexes, left>>
    BY <1>6 DEF HandleWritetomemory, ObjectsInv, TypeOK
  <2>2. /\ M \in MountObjects /\ M.pages = mounts[m].pages /\ M.index = mounts[m].index
        /\ M.toMemory = TRUE /\ M.readonly = FALSE
    BY <1>2 DEF MountObjects
  <2> HIDE DEF M
  <2> QED
    BY <1>1, <2>1, <2>2, OneMount
<1>7. CASE HandleDelete(m)
  <2> DEFINE M == [mounts[m] EXCEPT !.command = FALSE]
  <2>1. mounts' = [mounts EXCEPT ![m] = M] /\ UNCHANGED <<archive, pages, indexes, left>>
    BY <1>7 DEF HandleDelete
  <2>2. /\ M \in MountObjects /\ M.pages = mounts[m].pages /\ M.index = mounts[m].index
        /\ M.toMemory = mounts[m].toMemory /\ M.readonly = mounts[m].readonly
        /\ M.pending = mounts[m].pending
    BY <1>2 DEF MountObjects
  <2>3. M.pending => ~M.readonly
    BY <1>1, <2>2 DEF ObjectsInv, Modes
  <2> HIDE DEF M
  <2> QED
    BY <1>1, <2>1, <2>2, <2>3, OneMount
<1> QED
  BY <1>3, <1>4, <1>5, <1>6, <1>7

\* Closing a file: the index changes, and a page is added or the buffer has it.
LEMMA FileStored ==
  ASSUME ObjectsInv, NEW m \in Mounts, StoreFile(m)
  PROVE  /\ ObjectsInv' /\ (Owned => Owned')
         /\ mounts[m] # NULL /\ ~mounts[m].readonly
         /\ \E i \in Indexes, J \in IndexObjects :
              /\ i = mounts[m].index /\ indexes' = [indexes EXCEPT ![i] = J]
              /\ J.changes /\ J.meta = indexes[i].meta /\ J.hard
              /\ J.command = indexes[i].command
         /\ \/ pages' = pages
            \/ /\ Keeps(mounts[m])
               /\ pages' = [pages EXCEPT ![mounts[m].pages] = WithPage(pages[mounts[m].pages])]
         /\ \E M \in MountObjects :
              /\ mounts' = [mounts EXCEPT ![m] = M]
              /\ M.pages = mounts[m].pages /\ M.index = mounts[m].index
              /\ M.readonly = mounts[m].readonly /\ M.toMemory = mounts[m].toMemory
              /\ M.asked = mounts[m].asked /\ M.size = mounts[m].size
         /\ UNCHANGED <<archive, left>>
<1> DEFINE p == mounts[m].pages
           i == mounts[m].index
           J == [indexes[i] EXCEPT !.changes = TRUE]
<1>1. mounts[m] # NULL /\ ~mounts[m].readonly /\ UNCHANGED <<archive, left>>
  BY DEF StoreFile, IsMounted
<1>2. /\ mounts[m] \in MountObjects
      /\ i \in Indexes /\ indexes[i] \in IndexObjects /\ indexes[i].hard
      /\ p \in Pages \cup {NULL}
      /\ p # NULL => pages[p] \in PageObjects /\ pages[p].hard
  BY <1>1, MountHas
<1>3. ~mounts[m].toMemory => p # NULL
  BY <1>1 DEF ObjectsInv, Modes
<1>4. /\ J \in IndexObjects /\ J.changes /\ J.meta = indexes[i].meta /\ J.hard
      /\ J.command = indexes[i].command
  BY <1>2 DEF IndexObjects
<1>5. indexes' = [indexes EXCEPT ![i] = J]
  BY DEF StoreFile
<1>6. \/ pages' = pages /\ (mounts' = mounts \/ ~mounts[m].toMemory)
      \/ /\ ~mounts[m].toMemory
         /\ pages' = [pages EXCEPT ![p] = WithPage(pages[p])]
  BY DEF StoreFile
<1>7. \/ mounts' = mounts
      \/ \E b \in BOOLEAN : mounts' = [mounts EXCEPT ![m].pending = @ \/ b]
  BY DEF StoreFile
<1>8. PICK M \in MountObjects :
        /\ mounts' = [mounts EXCEPT ![m] = M]
        /\ M.pages = mounts[m].pages /\ M.index = mounts[m].index
        /\ M.readonly = mounts[m].readonly /\ M.toMemory = mounts[m].toMemory
        /\ M.asked = mounts[m].asked /\ M.size = mounts[m].size
  <2>1. CASE mounts' = mounts
    <3>1. mounts' = [mounts EXCEPT ![m] = mounts[m]]
      BY <2>1 DEF ObjectsInv, TypeOK
    <3> QED
      BY <1>2, <3>1
  <2>2. ASSUME NEW b \in BOOLEAN, mounts' = [mounts EXCEPT ![m].pending = @ \/ b]
        PROVE  \E M \in MountObjects :
                 /\ mounts' = [mounts EXCEPT ![m] = M]
                 /\ M.pages = mounts[m].pages /\ M.index = mounts[m].index
                 /\ M.readonly = mounts[m].readonly /\ M.toMemory = mounts[m].toMemory
                 /\ M.asked = mounts[m].asked /\ M.size = mounts[m].size
    <3> DEFINE c == mounts[m].pending \/ b
               M == [mounts[m] EXCEPT !.pending = c]
    <3>1. mounts' = [mounts EXCEPT ![m] = M]
      BY <2>2
    <3>2. c \in BOOLEAN
      BY <1>2 DEF MountObjects
    <3> HIDE DEF c
    <3>3. /\ M \in MountObjects /\ M.pages = mounts[m].pages /\ M.index = mounts[m].index
          /\ M.readonly = mounts[m].readonly /\ M.toMemory = mounts[m].toMemory
          /\ M.asked = mounts[m].asked /\ M.size = mounts[m].size
      BY <1>2, <3>2 DEF MountObjects
    <3> QED
      BY <3>1, <3>3
  <2> QED
    BY <1>7, <2>1, <2>2
<1>9. \/ pages' = pages
      \/ /\ Keeps(mounts[m])
         /\ pages' = [pages EXCEPT ![p] = WithPage(pages[p])]
  BY <1>1, <1>3, <1>6 DEF Keeps
<1>10. ~mounts[m].toMemory =>
         /\ WithPage(pages[p]) \in PageObjects /\ WithPage(pages[p]).hard
         /\ WithPage(pages[p]) # NULL
  <2> SUFFICES ASSUME ~mounts[m].toMemory
               PROVE  /\ WithPage(pages[p]) \in PageObjects /\ WithPage(pages[p]).hard
                      /\ WithPage(pages[p]) # NULL
    OBVIOUS
  <2>1. pages[p] \in PageObjects /\ pages[p].hard
    BY <1>2, <1>3
  <2>2. WithPage(pages[p]) \in PageObjects /\ WithPage(pages[p]).hard
    BY <2>1, PageAdded
  <2> QED
    BY <2>2, NamesAssumption
<1> HIDE DEF p, i, J
<1>11. TypeOK /\ M # NULL /\ J # NULL
  BY <1>4, NamesAssumption DEF ObjectsInv
<1>12. pages' \in [Pages -> PageObjects \cup {NULL}]
  BY <1>2, <1>3, <1>6, <1>10, <1>11 DEF TypeOK
<1>13. TypeOK'
  BY <1>1, <1>2, <1>4, <1>5, <1>8, <1>11, <1>12 DEF TypeOK
<1>14. \A n \in Mounts : mounts'[n] = IF n = m THEN M ELSE mounts[n]
  BY <1>8, <1>11 DEF TypeOK
<1>15. \A j \in Indexes : indexes'[j] = IF j = i THEN J ELSE indexes[j]
  BY <1>5, <1>11 DEF TypeOK
<1>16. \A q \in Pages : pages[q] # NULL /\ pages[q].hard => pages'[q] # NULL /\ pages'[q].hard
  BY <1>6, <1>10, <1>11 DEF TypeOK
<1>17. ObjectsInv'
  BY <1>1, <1>4, <1>8, <1>11, <1>13, <1>14, <1>15, <1>16, ObjectsKept DEF ObjectsInv, Modes
<1>18. Owned => Owned'
  <2>1. \A o : InUse(o)' = InUse(o)
    BY <1>1, <1>8, <1>11, <1>14 DEF InUse
  <2>2. InUse(i) /\ (p # NULL => InUse(p))
    BY <1>1 DEF InUse, p, i
  <2>3. \A q \in Pages : q = p \/ pages'[q] = pages[q]
    BY <1>6, <1>11 DEF TypeOK
  <2> QED
    BY <1>1, <1>15, <2>1, <2>2, <2>3, MountingAssumption DEF Owned
<1> QED
  BY <1>1, <1>2, <1>4, <1>5, <1>8, <1>9, <1>17, <1>18 DEF p, i

\* The purge leaves the metadata of the index.
LEMMA RecountedIs ==
  ASSUME NEW m \in Mounts, NEW I \in IndexObjects, mounts[m] \in MountObjects
  PROVE  /\ Recounted(m, I) \in IndexObjects /\ Recounted(m, I).meta = I.meta
         /\ I.changes => Recounted(m, I).changes
<1>1. Buffered(m) \in BOOLEAN
  BY DEF Buffered, MountObjects
<1> QED
  BY <1>1 DEF Recounted, IndexObjects

\* Unmounting frees what the mount has, or leaves it behind.
LEMMA Unmounted ==
  ASSUME ObjectsInv, NEW m \in Mounts, Unmount(m)
  PROVE  /\ ObjectsInv' /\ (Owned => Owned')
         /\ \E p \in Pages \cup {NULL}, i \in Indexes :
              /\ mounts[m] # NULL /\ p = mounts[m].pages /\ i = mounts[m].index
              /\ mounts' = [mounts EXCEPT ![m] = NULL]
              /\ \/ /\ pages' = At(pages, p, NULL) /\ indexes' = At(indexes, i, NULL)
                    /\ left' = left
                    /\ archive' = IF p = NULL THEN archive
                                  ELSE Saved(WithIndex(Purged(m, pages[p]), Recounted(m, indexes[i]),
                                               mounts[m].readonly, mounts[m].toMemory))
                 \/ left' = left \cup {p, i} /\ p # NULL /\ UNCHANGED <<archive, pages, indexes>>
<1>1. mounts[m] # NULL /\ mounts' = [mounts EXCEPT ![m] = NULL]
  BY DEF Unmount, IsMounted
<1>2. PICK p \in Pages \cup {NULL}, i \in Indexes : p = mounts[m].pages /\ i = mounts[m].index
  BY <1>1, MountHas
<1>3. /\ indexes[i] \in IndexObjects /\ indexes[i].hard
      /\ p # NULL => pages[p] \in PageObjects /\ pages[p].hard
  BY <1>1, <1>2, MountHas
<1>4. p # NULL => Purged(m, pages[p]) \in PageObjects
  BY <1>3, PageAdded DEF Purged, Buffered
<1>5. \/ /\ pages' = At(pages, p, NULL) /\ indexes' = At(indexes, i, NULL)
         /\ left' = left
         /\ archive' = IF p = NULL THEN archive
                       ELSE Saved(WithIndex(Purged(m, pages[p]), Recounted(m, indexes[i]),
                                    mounts[m].readonly, mounts[m].toMemory))
      \/ left' = left \cup {p, i} /\ p # NULL /\ UNCHANGED <<archive, pages, indexes>>
  <2>1. PICK purged \in BOOLEAN :
          /\ ~purged => mounts[m].pending /\ ~mounts[m].toMemory
          /\ IF purged
               THEN Finished(p, i, IF p = NULL THEN NULL ELSE Purged(m, pages[p]),
                             Recounted(m, indexes[i]), mounts[m].readonly, mounts[m].toMemory)
               ELSE left' = left \cup {p, i} /\ UNCHANGED <<archive, pages, indexes>>
    BY <1>2 DEF Unmount, Buffered
  <2>2. CASE ~purged
    BY <1>1, <1>2, <2>1, <2>2 DEF ObjectsInv, Modes
  <2>3. CASE purged
    BY <1>4, <2>1, <2>3, NamesAssumption DEF Finished
  <2> QED
    BY <2>2, <2>3
<1>6. \A n \in Mounts : mounts'[n] = IF n = m THEN NULL ELSE mounts[n]
  BY <1>1 DEF ObjectsInv, TypeOK
<1>7. \A n \in Mounts : mounts'[n] # NULL =>
        /\ mounts[n].index # i /\ mounts[n].pages # i
        /\ p # NULL => mounts[n].index # p /\ mounts[n].pages # p
        /\ mounts[n].index \in Indexes /\ mounts[n].pages \in Pages \cup {NULL}
  BY <1>1, <1>2, <1>6, MountHas, MountingAssumption DEF ObjectsInv, Apart
<1>8. ~InUse(i)' /\ (p # NULL => ~InUse(p)') /\ i \notin left /\ (p # NULL => p \notin left)
  <2>1. i \notin left /\ (p # NULL => p \notin left)
    BY <1>1, <1>2 DEF ObjectsInv, Apart
  <2> QED
    BY <1>6, <1>7, <2>1 DEF InUse
<1>11. \A o : InUse(o) /\ o \notin {p, i} => InUse(o)'
  BY <1>1, <1>2, <1>6 DEF InUse
<1>9. CASE /\ pages' = At(pages, p, NULL) /\ indexes' = At(indexes, i, NULL)
           /\ left' = left
           /\ archive' = IF p = NULL THEN archive
                         ELSE Saved(WithIndex(Purged(m, pages[p]), Recounted(m, indexes[i]),
                                      mounts[m].readonly, mounts[m].toMemory))
  <2>1. TypeOK
    BY DEF ObjectsInv
  <2>2. archive' \in Archives \cup {NULL}
    <3>1. CASE p = NULL
      BY <1>9, <2>1, <3>1 DEF TypeOK
    <3>2. CASE p # NULL
      <4> DEFINE Q == WithIndex(Purged(m, pages[p]), Recounted(m, indexes[i]),
                                mounts[m].readonly, mounts[m].toMemory)
      <4>1. Q \in PageObjects
        <5>1. Recounted(m, indexes[i]).meta \in Metadata
          BY <1>1, <1>3, MountHas, RecountedIs DEF IndexObjects
        <5> QED
          BY <1>4, <3>2, <5>1 DEF WithIndex, PageObjects
      <4>2. archive' = Saved(Q)
        BY <1>9, <3>2
      <4> HIDE DEF Q
      <4> QED
        BY <2>1, <4>1, <4>2, PagesSaved
    <3> QED
      BY <3>1, <3>2
  <2>3. /\ i # NULL
        /\ pages' \in [Pages -> PageObjects \cup {NULL}]
        /\ indexes' \in [Indexes -> IndexObjects \cup {NULL}]
        /\ \A q \in Pages : pages'[q] = IF q = p THEN NULL ELSE pages[q]
        /\ \A j \in Indexes : indexes'[j] = IF j = i THEN NULL ELSE indexes[j]
    BY <1>9, <2>1, MountingAssumption DEF At, TypeOK
  <2>4. TypeOK'
    BY <1>1, <1>9, <2>1, <2>2, <2>3 DEF TypeOK
  <2>5. ObjectsInv'
    <3>1. \A q \in Pages : (InUse(q)' \/ q \in left') => q # p
      BY <1>8, <1>9, MountingAssumption
    <3>2. \A j \in Indexes : (InUse(j)' \/ j \in left') => j # i
      BY <1>8, <1>9
    <3> QED
      BY <1>6, <1>9, <2>3, <2>4, <3>1, <3>2, ObjectsKept DEF ObjectsInv, Modes
  <2>6. Owned => Owned'
    BY <1>9, <1>11, <2>3, MountingAssumption DEF Owned
  <2> QED
    BY <1>1, <1>2, <1>9, <2>5, <2>6
<1>10. CASE left' = left \cup {p, i} /\ p # NULL /\ UNCHANGED <<archive, pages, indexes>>
  <2>1. TypeOK'
    BY <1>1, <1>10 DEF ObjectsInv, TypeOK
  <2>2. ObjectsInv'
    BY <1>1, <1>2, <1>6, <1>10, <2>1, ObjectsKept DEF ObjectsInv, Modes
  <2>3. Owned => Owned'
    BY <1>10, <1>11 DEF Owned
  <2> QED
    BY <1>1, <1>2, <1>10, <2>2, <2>3
<1> QED
  BY <1>5, <1>9, <1>10

\* What a call of mount comes to: nothing, a failure with objects P and I that are
\* undone or finished, or a mount with them; I is the index as it was found.
Failed(o, P, I) ==
  /\ Undone(o, P, I)
  /\ "supplies" \in Careless \/ Given(o) = {}

Registered(o, P, I) ==
  /\ mounts' = mounts
  /\ Finished(o.pages, o.index, P, I, o.mode = "read", o.mode = "memory")

Begun(m, o, I, P, J) ==
  \E p \in Pages \cup {NULL}, i \in Indexes, M \in MountObjects :
    /\ p = NULL <=> P = NULL
    /\ p # NULL => (IF o.pages # NULL THEN p = o.pages ELSE pages[p] = NULL)
    /\ IF o.index # NULL THEN i = o.index ELSE indexes[i] = NULL
    /\ M.pages = p /\ M.index = i /\ ~M.pending
    /\ M.asked = o.size /\ M.size = SizeUsed(o, I)
    /\ M.readonly = (o.mode = "read") /\ M.toMemory = (o.mode = "memory")
    /\ pages' = At(pages, p, P) /\ indexes' = At(indexes, i, J)
    /\ mounts' = [mounts EXCEPT ![m] = M]
    /\ UNCHANGED <<archive, left>>

\* What a mount makes of the objects it begins with
Hashing(o, P, S) ==
  IF P = NULL THEN [ok |-> TRUE, pages |-> NULL, index |-> S] ELSE Hashed(o, P, S)

Tried(m, o, P, I, S, Q, J, T, ok) ==
  /\ o \in Options /\ {P, Q} \subseteq PageObjects \cup {NULL}
  /\ {I, S, J, T} \subseteq IndexObjects /\ ok \in BOOLEAN
  /\ mounts[m] = NULL /\ IsSensible(o)
  /\ P = PagesOf(o) /\ I = IndexOf(o, P)
  /\ S = Sized(o, I) /\ T = Told(o, J)
  /\ IF P = NULL THEN ok /\ Q = NULL /\ J = S
     ELSE ok = Hashed(o, P, S).ok /\ Q = Hashed(o, P, S).pages
          /\ J = Hashed(o, P, S).index
  /\ P # NULL => P.hard /\ Q # NULL /\ Q.hard
  /\ I.hard /\ S.hard /\ J.hard /\ T.hard
  /\ \/ UNCHANGED vars
     \/ /\ P = NULL => o.mode = "memory"
        /\ \/ Failed(o, P, I)
           \/ (~ok \/ o.fails = "told") /\ Failed(o, Q, J)
           \/ ok /\ Registered(o, Q, T)
           \/ ok /\ Begun(m, o, I, Q, T)

\* A call of mount comes to one of these.
LEMMA MountTried ==
  ASSUME TypeOK, NEW m \in Mounts, Mount(m)
  PROVE  \E o, P, I, S, Q, J, T, ok : Tried(m, o, P, I, S, Q, J, T, ok)
<1>1. mounts[m] = NULL
  BY DEF Mount
<1>2. PICK o \in {x \in Options : IsSensible(x)} :
        LET P == PagesOf(o)
            I == IndexOf(o, P)
            S == Sized(o, I)
            H == Hashing(o, P, S)
            T == Told(o, H.index)
        IN /\ ~H.ok => (IF "supplies" \in Careless THEN TRUE ELSE Given(o) = {})
           /\ IF P = NULL /\ o.mode # "memory"
                THEN o.index = NULL /\ UNCHANGED vars
              ELSE IF o.fails = "fileset" THEN Undone(o, P, I)
              ELSE IF ~H.ok \/ o.fails = "told" THEN Undone(o, H.pages, H.index)
              ELSE IF o.fails = "register"
                THEN /\ mounts' = mounts
                     /\ Finished(o.pages, o.index, H.pages, T,
                                 o.mode = "read", o.mode = "memory")
              ELSE \E p \in (IF P = NULL THEN {NULL}
                             ELSE IF o.pages # NULL THEN {o.pages}
                             ELSE {q \in Pages : pages[q] = NULL}),
                      i \in (IF o.index # NULL THEN {o.index}
                             ELSE {j \in Indexes : indexes[j] = NULL}) :
                     /\ pages' = At(pages, p, H.pages)
                     /\ indexes' = At(indexes, i, T)
                     /\ mounts' = [mounts EXCEPT ![m] =
                          [pages |-> p, index |-> i, size |-> SizeUsed(o, I),
                           asked |-> o.size, command |-> TRUE, pending |-> FALSE,
                           readonly |-> o.mode = "read", toMemory |-> o.mode = "memory"]]
                     /\ UNCHANGED <<archive, left>>
  BY DEF Mount, Hashing
<1>3. PICK P \in PageObjects \cup {NULL} : P = PagesOf(o) /\ (P # NULL => P.hard)
  BY <1>2, ObjectsFound
<1>4. PICK I \in IndexObjects : I = IndexOf(o, P) /\ I.hard
  BY <1>2, <1>3, ObjectsFound
<1>5. PICK S \in IndexObjects : S = Sized(o, I) /\ S.hard
  BY <1>2, <1>4, SizeStored
<1>6. PICK H : H = Hashing(o, P, S)
  OBVIOUS
<1>7. /\ H.ok \in BOOLEAN /\ H.pages \in PageObjects \cup {NULL} /\ H.index \in IndexObjects
      /\ H.index.hard /\ (P # NULL => H.pages # NULL /\ H.pages.hard)
      /\ IF P = NULL THEN H.ok /\ H.pages = NULL /\ H.index = S
         ELSE H = Hashed(o, P, S)
  <2>1. CASE P = NULL
    <3>1. H.ok = TRUE /\ H.pages = NULL /\ H.index = S
      BY <1>6, <2>1 DEF Hashing
    <3> QED
      BY <1>5, <2>1, <3>1
  <2>2. CASE P # NULL
    <3>1. H = Hashed(o, P, S)
      BY <1>6, <2>2 DEF Hashing
    <3>2. /\ H.pages \in PageObjects /\ H.pages.hard = P.hard
          /\ H.index \in IndexObjects /\ H.index.hard = S.hard
      <4>1. P \in PageObjects /\ o \in Options
        BY <1>2, <1>3, <2>2
      <4>2. Chosen(o, P, S, H)
        BY <3>1, <4>1, HashChosen
      <4> QED
        BY <4>2 DEF Chosen
    <3>3. H.ok \in BOOLEAN
      BY <3>1 DEF Hashed
    <3> QED
      BY <1>3, <1>5, <2>2, <3>1, <3>2, <3>3, NamesAssumption
  <2> QED
    BY <2>1, <2>2
<1>8. PICK T \in IndexObjects : T = Told(o, H.index) /\ T.hard
  BY <1>2, <1>7, SizeTold
<1>9. /\ ~H.ok => "supplies" \in Careless \/ Given(o) = {}
      /\ o.fails \notin {"no", "register"} => "supplies" \in Careless \/ Given(o) = {}
  BY <1>2, <1>3, <1>4, <1>5, <1>6 DEF IsSensible
<1>10. \/ UNCHANGED vars
       \/ /\ P = NULL => o.mode = "memory"
          /\ \/ Failed(o, P, I)
             \/ (~H.ok \/ o.fails = "told") /\ Failed(o, H.pages, H.index)
             \/ H.ok /\ Registered(o, H.pages, T)
             \/ H.ok /\ Begun(m, o, I, H.pages, T)
  <2>1. CASE P = NULL /\ o.mode # "memory"
    BY <1>2, <1>3, <1>4, <1>5, <1>6, <1>8, <2>1
  <2>2. CASE ~(P = NULL /\ o.mode # "memory") /\ o.fails = "fileset"
    <3>1. Undone(o, P, I)
      BY <1>2, <1>3, <1>4, <2>2
    <3> QED
      BY <1>9, <2>2, <3>1 DEF Failed
  <2>3. CASE /\ ~(P = NULL /\ o.mode # "memory") /\ o.fails # "fileset"
             /\ ~H.ok \/ o.fails = "told"
    <3>1. Undone(o, H.pages, H.index)
      BY <1>2, <1>3, <1>4, <1>5, <1>6, <2>3
    <3> QED
      BY <1>9, <2>3, <3>1 DEF Failed
  <2>4. CASE /\ ~(P = NULL /\ o.mode # "memory") /\ H.ok /\ o.fails = "register"
    <3>1. Registered(o, H.pages, T)
      BY <1>2, <1>3, <1>4, <1>5, <1>6, <1>8, <2>4 DEF Registered
    <3> QED
      BY <2>4, <3>1
  <2>5. CASE /\ ~(P = NULL /\ o.mode # "memory") /\ H.ok
             /\ o.fails \notin {"fileset", "told", "register"}
    <3>1. PICK p \in (IF P = NULL THEN {NULL}
                      ELSE IF o.pages # NULL THEN {o.pages}
                      ELSE {q \in Pages : pages[q] = NULL}),
               i \in (IF o.index # NULL THEN {o.index}
                      ELSE {j \in Indexes : indexes[j] = NULL}) :
            /\ pages' = At(pages, p, H.pages)
            /\ indexes' = At(indexes, i, T)
            /\ mounts' = [mounts EXCEPT ![m] =
                 [pages |-> p, index |-> i, size |-> SizeUsed(o, I),
                  asked |-> o.size, command |-> TRUE, pending |-> FALSE,
                  readonly |-> o.mode = "read", toMemory |-> o.mode = "memory"]]
            /\ UNCHANGED <<archive, left>>
      BY <1>2, <1>3, <1>4, <1>5, <1>6, <1>8, <2>5
    <3> DEFINE M == [pages |-> p, index |-> i, size |-> SizeUsed(o, I),
                     asked |-> o.size, command |-> TRUE, pending |-> FALSE,
                     readonly |-> o.mode = "read", toMemory |-> o.mode = "memory"]
    <3>2. /\ o.pages \in Pages \cup {NULL} /\ o.index \in Indexes \cup {NULL}
          /\ o.size \in Values \cup {NULL}
      BY <1>2 DEF Options
    <3>3. p \in Pages \cup {NULL} /\ i \in Indexes
      BY <3>1, <3>2
    <3>4. SizeUsed(o, I) \in Values
      BY <1>2, SizeStored
    <3>5. M \in MountObjects
      BY <3>2, <3>3, <3>4 DEF MountObjects
    <3>6. /\ M.pages = p /\ M.index = i /\ M.pending = FALSE
          /\ M.asked = o.size /\ M.size = SizeUsed(o, I)
          /\ M.readonly = (o.mode = "read") /\ M.toMemory = (o.mode = "memory")
      OBVIOUS
    <3>7. mounts' = [mounts EXCEPT ![m] = M]
      BY <3>1
    <3>8. p = NULL <=> H.pages = NULL
      BY <1>7, <3>1, <3>2, MountingAssumption
    <3>9. /\ p # NULL => (IF o.pages # NULL THEN p = o.pages ELSE pages[p] = NULL)
          /\ IF o.index # NULL THEN i = o.index ELSE indexes[i] = NULL
      BY <3>1
    <3> HIDE DEF M
    <3>10. Begun(m, o, I, H.pages, T)
      BY <3>1, <3>3, <3>5, <3>6, <3>7, <3>8, <3>9 DEF Begun
    <3> QED
      BY <2>5, <3>10
  <2> QED
    BY <2>1, <2>2, <2>3, <2>4, <2>5
<1>11. o \in Options /\ IsSensible(o)
  BY <1>2
<1>12. IF P = NULL THEN H.ok /\ H.pages = NULL /\ H.index = S
       ELSE H.ok = Hashed(o, P, S).ok /\ H.pages = Hashed(o, P, S).pages
            /\ H.index = Hashed(o, P, S).index
  BY <1>7
<1>13. PICK Q \in PageObjects \cup {NULL}, J \in IndexObjects, ok \in BOOLEAN :
         Q = H.pages /\ J = H.index /\ ok = H.ok
  BY <1>7
<1>14. /\ P # NULL => P.hard /\ Q # NULL /\ Q.hard
       /\ I.hard /\ S.hard /\ J.hard /\ T.hard
  BY <1>3, <1>4, <1>5, <1>7, <1>8, <1>13
<1>15. IF P = NULL THEN ok /\ Q = NULL /\ J = S
       ELSE ok = Hashed(o, P, S).ok /\ Q = Hashed(o, P, S).pages
            /\ J = Hashed(o, P, S).index
  BY <1>12, <1>13
<1>16. \/ UNCHANGED vars
       \/ /\ P = NULL => o.mode = "memory"
          /\ \/ Failed(o, P, I)
             \/ (~ok \/ o.fails = "told") /\ Failed(o, Q, J)
             \/ ok /\ Registered(o, Q, T)
             \/ ok /\ Begun(m, o, I, Q, T)
  BY <1>10, <1>13
<1>17. Tried(m, o, P, I, S, Q, J, T, ok)
  BY <1>1, <1>3, <1>4, <1>5, <1>8, <1>11, <1>13, <1>14, <1>15, <1>16 DEF Tried
<1> QED
  BY <1>17

\* A call of mount leaves what other mounts have alone, and has its own.
LEMMA MountStep ==
  ASSUME ObjectsInv, "shares" \notin Careless, NEW m \in Mounts, Mount(m)
  PROVE  ObjectsInv' /\ (Owned /\ "supplies" \notin Careless => Owned')
<1>1. TypeOK
  BY DEF ObjectsInv
<1>2. PICK o, P, I, S, Q, J, T, ok : Tried(m, o, P, I, S, Q, J, T, ok)
  BY <1>1, MountTried
<1>3. /\ o.pages \in Pages \cup {NULL} /\ o.index \in Indexes \cup {NULL}
      /\ {P, Q} \subseteq PageObjects \cup {NULL} /\ {I, S, J, T} \subseteq IndexObjects
      /\ P # NULL => P.hard /\ Q # NULL /\ Q.hard
      /\ P = NULL => Q = NULL
      /\ I.hard /\ J.hard /\ T.hard
  BY <1>2 DEF Tried, Options
<1>4. /\ o.pages # NULL => /\ pages[o.pages] \in PageObjects /\ ~InUse(o.pages)
                           /\ o.pages \notin left /\ P # NULL
      /\ o.index # NULL => /\ indexes[o.index] \in IndexObjects /\ ~InUse(o.index)
                           /\ o.index \notin left
  <2>1. o \in Options /\ IsSensible(o) /\ P = PagesOf(o)
    BY <1>2 DEF Tried
  <2>2. o.pages # NULL => P # NULL
    BY <1>1, <2>1, ObjectsFound
  <2>3. /\ o.pages # NULL => pages[o.pages] # NULL
        /\ o.index # NULL => indexes[o.index] # NULL
        /\ \A x \in Given(o) : ~InUse(x) /\ x \notin left
    BY <2>1 DEF IsSensible
  <2> QED
    BY <1>1, <1>3, <2>2, <2>3 DEF Given, TypeOK
<1>5. ASSUME UNCHANGED vars PROVE ObjectsInv' /\ (Owned => Owned')
  BY <1>5 DEF vars, ObjectsInv, TypeOK, Whole, Apart, Modes, Owned, InUse
<1>6. ASSUME NEW X \in PageObjects \cup {NULL}, NEW Y \in IndexObjects, Failed(o, X, Y),
             o.pages # NULL => X # NULL /\ X.hard, Y.hard, X = NULL \/ X \in {P, Q}
      PROVE  ObjectsInv' /\ (Owned /\ "supplies" \notin Careless => Owned')
  <2>1. /\ mounts' = mounts /\ left' = left
        /\ pages' = At(pages, o.pages, X) /\ indexes' = At(indexes, o.index, Y)
        /\ archive' = IF o.pages = NULL /\ X # NULL THEN Saved(X) ELSE archive
        /\ "supplies" \notin Careless => o.pages = NULL /\ o.index = NULL
    BY <1>6 DEF Failed, Undone, Given
  <2>2. archive' \in Archives \cup {NULL}
    <3>1. CASE o.pages = NULL /\ X # NULL
      BY <1>1, <2>1, <3>1, PagesSaved
    <3>2. CASE ~(o.pages = NULL /\ X # NULL)
      BY <1>1, <2>1, <3>2 DEF TypeOK
    <3> QED
      BY <3>1, <3>2
  <2>3. /\ pages' \in [Pages -> PageObjects \cup {NULL}]
        /\ \A q \in Pages : pages'[q] = IF q = o.pages THEN X ELSE pages[q]
    BY <1>1, <1>3, <2>1, MountingAssumption DEF At, TypeOK
  <2>4. /\ indexes' \in [Indexes -> IndexObjects \cup {NULL}]
        /\ \A j \in Indexes : indexes'[j] = IF j = o.index THEN Y ELSE indexes[j]
    BY <1>1, <1>3, <2>1, MountingAssumption DEF At, TypeOK
  <2>5. TypeOK' /\ Y # NULL
    BY <1>1, <2>1, <2>2, <2>3, <2>4, NamesAssumption DEF TypeOK
  <2>6. ObjectsInv'
    BY <1>6, <2>1, <2>3, <2>4, <2>5, MountingAssumption, ObjectsKept DEF ObjectsInv, Modes
  <2>7. ASSUME Owned, "supplies" \notin Careless PROVE Owned'
    <3>1. pages' = pages /\ indexes' = indexes
      BY <2>1, <2>7 DEF At
    <3> QED
      BY <2>1, <2>7, <3>1 DEF Owned, InUse
  <2> QED
    BY <2>6, <2>7
<1>7. ASSUME Registered(o, Q, T) PROVE ObjectsInv' /\ (Owned => Owned')
  <2>1. /\ mounts' = mounts /\ left' = left
        /\ pages' = At(pages, o.pages, NULL) /\ indexes' = At(indexes, o.index, NULL)
        /\ archive' = IF Q = NULL THEN archive
                      ELSE Saved(WithIndex(Q, T, o.mode = "read", o.mode = "memory"))
    BY <1>7 DEF Registered, Finished
  <2>2. archive' \in Archives \cup {NULL}
    <3>1. CASE Q = NULL
      BY <1>1, <2>1, <3>1 DEF TypeOK
    <3>2. CASE Q # NULL
      <4> DEFINE R == WithIndex(Q, T, o.mode = "read", o.mode = "memory")
      <4>1. R \in PageObjects
        BY <1>3, <3>2 DEF WithIndex, PageObjects, IndexObjects
      <4>2. archive' = Saved(R)
        BY <2>1, <3>2
      <4> HIDE DEF R
      <4> QED
        BY <1>1, <4>1, <4>2, PagesSaved
    <3> QED
      BY <3>1, <3>2
  <2>3. /\ pages' \in [Pages -> PageObjects \cup {NULL}]
        /\ \A q \in Pages : pages'[q] = IF q = o.pages THEN NULL ELSE pages[q]
    BY <1>1, <1>3, <2>1, MountingAssumption DEF At, TypeOK
  <2>4. /\ indexes' \in [Indexes -> IndexObjects \cup {NULL}]
        /\ \A j \in Indexes : indexes'[j] = IF j = o.index THEN NULL ELSE indexes[j]
    BY <1>1, <1>3, <2>1, MountingAssumption DEF At, TypeOK
  <2>5. TypeOK'
    BY <1>1, <2>1, <2>2, <2>3, <2>4 DEF TypeOK
  <2>6. \A x : InUse(x)' = InUse(x)
    BY <2>1 DEF InUse
  <2>7. /\ \A q \in Pages : InUse(q) \/ q \in left => q # o.pages
        /\ \A j \in Indexes : InUse(j) \/ j \in left => j # o.index
    BY <1>3, <1>4, MountingAssumption
  <2>8. ObjectsInv'
    BY <2>1, <2>3, <2>4, <2>5, <2>6, <2>7, ObjectsKept DEF ObjectsInv, Modes
  <2>9. Owned => Owned'
    BY <2>1, <2>3, <2>4, <2>6 DEF Owned
  <2> QED
    BY <2>8, <2>9
<1>8. ASSUME Begun(m, o, I, Q, T), P = NULL => o.mode = "memory", mounts[m] = NULL
      PROVE  ObjectsInv' /\ (Owned => Owned')
  <2>1. PICK p \in Pages \cup {NULL}, i \in Indexes, M \in MountObjects :
          /\ p = NULL <=> Q = NULL
          /\ p # NULL => (IF o.pages # NULL THEN p = o.pages ELSE pages[p] = NULL)
          /\ IF o.index # NULL THEN i = o.index ELSE indexes[i] = NULL
          /\ M.pages = p /\ M.index = i /\ ~M.pending
          /\ M.readonly = (o.mode = "read") /\ M.toMemory = (o.mode = "memory")
          /\ pages' = At(pages, p, Q) /\ indexes' = At(indexes, i, T)
          /\ mounts' = [mounts EXCEPT ![m] = M]
          /\ UNCHANGED <<archive, left>>
    BY <1>8 DEF Begun
  <2>2. /\ p # NULL => ~InUse(p) /\ p \notin left
        /\ ~InUse(i) /\ i \notin left
    <3>1. ASSUME NEW q \in Pages, pages[q] = NULL PROVE ~InUse(q) /\ q \notin left
      BY <3>1, MountHas, MountingAssumption, NamesAssumption
         DEF InUse, ObjectsInv, Apart
    <3>2. ASSUME NEW j \in Indexes, indexes[j] = NULL PROVE ~InUse(j) /\ j \notin left
      BY <3>2, MountHas, MountingAssumption, NamesAssumption
         DEF InUse, ObjectsInv, Apart
    <3> QED
      BY <1>4, <2>1, <3>1, <3>2
  <2>3. /\ pages' \in [Pages -> PageObjects \cup {NULL}]
        /\ \A q \in Pages : pages'[q] = IF q = p THEN Q ELSE pages[q]
    BY <1>1, <1>3, <2>1, MountingAssumption DEF At, TypeOK
  <2>4. /\ indexes' \in [Indexes -> IndexObjects \cup {NULL}]
        /\ \A j \in Indexes : indexes'[j] = IF j = i THEN T ELSE indexes[j]
    BY <1>1, <1>3, <2>1, MountingAssumption DEF At, TypeOK
  <2>5. M # NULL /\ T # NULL /\ \A n \in Mounts : mounts'[n] = IF n = m THEN M ELSE mounts[n]
    BY <1>1, <1>3, <2>1, NamesAssumption DEF TypeOK
  <2>6. TypeOK'
    BY <1>1, <2>1, <2>3, <2>4 DEF TypeOK
  <2>7. ASSUME NEW n \in Mounts, n # m, mounts'[n] # NULL
        PROVE  /\ mounts'[n] = mounts[n] /\ mounts[n] # NULL
               /\ mounts[n].index \in Indexes \ {i}
               /\ mounts[n].pages \in Pages \cup {NULL}
               /\ p # NULL => mounts[n].pages # p
    <3>1. mounts'[n] = mounts[n] /\ mounts[n] # NULL
      BY <2>5, <2>7
    <3>2. mounts[n].index \in Indexes /\ mounts[n].pages \in Pages \cup {NULL}
      BY <3>1, MountHas
    <3> QED
      BY <2>2, <3>1, <3>2 DEF InUse
  <2>8. Whole'
    <3>1. /\ indexes'[i] # NULL /\ indexes'[i].hard
          /\ p # NULL => pages'[p] # NULL /\ pages'[p].hard
      BY <1>3, <2>1, <2>3, <2>4, <2>5
    <3>2. ASSUME NEW n \in Mounts, n # m, mounts'[n] # NULL
          PROVE  /\ indexes'[mounts'[n].index] # NULL /\ indexes'[mounts'[n].index].hard
                 /\ mounts'[n].pages # NULL =>
                      pages'[mounts'[n].pages] # NULL /\ pages'[mounts'[n].pages].hard
      <4>1. /\ mounts'[n] = mounts[n] /\ mounts[n] # NULL
            /\ mounts[n].index \in Indexes \ {i}
            /\ mounts[n].pages \in Pages \cup {NULL}
            /\ p # NULL => mounts[n].pages # p
        BY <2>7, <3>2
      <4> QED
        BY <2>3, <2>4, <4>1 DEF ObjectsInv, Whole
    <3> QED
      BY <2>1, <2>5, <3>1, <3>2 DEF Whole
  <2>9. Apart'
    <3>1. \A n, k \in Mounts : n # k /\ mounts'[n] # NULL /\ mounts'[k] # NULL =>
            /\ mounts'[n].index # mounts'[k].index
            /\ mounts'[n].pages # NULL => mounts'[n].pages # mounts'[k].pages
      BY <2>1, <2>5, <2>7 DEF ObjectsInv, Apart
    <3>2. \A n \in Mounts : mounts'[n] # NULL =>
            {mounts'[n].pages, mounts'[n].index} \cap left' = {}
      <4>1. NULL \notin left
        BY <1>1, MountingAssumption DEF TypeOK
      <4>2. {p, i} \cap left = {}
        BY <2>2, <4>1
      <4> QED
        BY <2>1, <2>5, <2>7, <4>2 DEF ObjectsInv, Apart
    <3>3. /\ \A q \in Pages \cap left' : pages'[q] # NULL /\ pages'[q].hard
          /\ \A j \in Indexes \cap left' : indexes'[j] # NULL /\ indexes'[j].hard
      BY <2>1, <2>2, <2>3, <2>4, MountingAssumption DEF ObjectsInv, Apart
    <3> QED
      BY <3>1, <3>2, <3>3 DEF Apart
  <2>10. Modes'
    BY ZenonT(60), <1>3, <1>8, <2>1, <2>5, <2>7 DEF ObjectsInv, Modes
  <2>11. Owned => Owned'
    <3>1. \A x : InUse(x) => InUse(x)'
      BY <1>8, <2>5 DEF InUse
    <3>2. InUse(i)' /\ InUse(p)'
      BY <2>1, <2>5 DEF InUse
    <3> QED
      BY <2>1, <2>3, <2>4, <3>1, <3>2 DEF Owned
  <2> QED
    BY <2>6, <2>8, <2>9, <2>10, <2>11 DEF ObjectsInv
<1>9. \/ UNCHANGED vars
      \/ /\ P = NULL => o.mode = "memory"
         /\ \/ Failed(o, P, I) \/ Failed(o, Q, J)
            \/ Registered(o, Q, T) \/ Begun(m, o, I, Q, T)
  BY <1>2 DEF Tried
<1>10. mounts[m] = NULL
  BY <1>2 DEF Tried
<1>11. ASSUME Failed(o, P, I) PROVE ObjectsInv' /\ (Owned /\ "supplies" \notin Careless => Owned')
  BY <1>3, <1>4, <1>6, <1>11
<1>12. ASSUME Failed(o, Q, J) PROVE ObjectsInv' /\ (Owned /\ "supplies" \notin Careless => Owned')
  BY <1>3, <1>4, <1>6, <1>12
<1> QED
  BY <1>5, <1>7, <1>8, <1>9, <1>10, <1>11, <1>12

\* The objects are right when the program starts,
LEMMA ObjectsInit == Init => ObjectsInv /\ Owned
BY DEF Init, ObjectsInv, TypeOK, Whole, Apart, Modes, Owned

\* and after every step.
LEMMA ObjectsStep ==
  ASSUME ObjectsInv, "shares" \notin Careless, [Next]_vars
  PROVE  ObjectsInv' /\ (Owned /\ "supplies" \notin Careless => Owned')
<1>1. CASE UNCHANGED vars
  BY <1>1 DEF vars, ObjectsInv, TypeOK, Whole, Apart, Modes, Owned, InUse
<1>2. CASE Next
  BY <1>2, PagesCommands, IndexCommands, MountStep, Unmounted, FileStored, HandleCommands
     DEF Next, IndexTold
<1> QED
  BY <1>1, <1>2

\* The objects are right in every state, when no mount is given those of another.
THEOREM ObjectsInvariant ==
  ASSUME "shares" \notin Careless
  PROVE  Spec => []ObjectsInv
<1>1. Init => ObjectsInv
  BY ObjectsInit
<1>2. ObjectsInv /\ [Next]_vars => ObjectsInv'
  BY ObjectsStep
<1> QED
  BY <1>1, <1>2, PTL DEF Spec

\* Whatever is done with the commands of objects a mount has its pages and index
\* until it is unmounted, and then they are freed; unless a mount is given the
\* objects of another ("shares"), or fails with objects it was given ("supplies")
\* (CookfsPagesDeleteProc, Cookfs_VfsFini, Cookfs_Mount).
THEOREM MountsKeepTheirObjects ==
  ASSUME {"shares", "supplies"} \cap Careless = {}
  PROVE  Spec => []MountsAreWhole
<1>1. Init => ObjectsInv /\ Owned
  BY ObjectsInit
<1>2. ObjectsInv /\ Owned /\ [Next]_vars => ObjectsInv' /\ Owned'
  BY ObjectsStep
<1>3. ObjectsInv /\ Owned => MountsAreWhole
  BY DEF ObjectsInv, Whole, Owned, MountsAreWhole
<1> QED
  BY <1>1, <1>2, <1>3, PTL DEF Spec

-----------------------------------------------------------------------------
(* The pages of a mount have the hash they were stored with.               *)

\* What of an object its fitting depends on
LEMMA SameFit ==
  ASSUME NEW P \in PageObjects, NEW Q \in PageObjects,
         Q.stored = P.stored, Q.index = P.index, Q.hash = P.hash,
         Q.changed = P.changed, Q.readonly = P.readonly
  PROVE  /\ Fits(P) <=> Fits(Q)
         /\ FitsFree(P) <=> FitsFree(Q)
         /\ \A M, I : FitsMount(M, P, I) <=> FitsMount(M, Q, I)
BY DEF Fits, FitsFree, FitsMount

\* Setting the command, or locking hard, leaves it.
LEMMA FlagsSet ==
  ASSUME NEW P \in PageObjects, NEW b \in BOOLEAN
  PROVE  /\ [P EXCEPT !.command = b] \in PageObjects /\ [P EXCEPT !.hard = b] \in PageObjects
         /\ FitsFree(P) <=> FitsFree([P EXCEPT !.command = b])
         /\ FitsFree(P) <=> FitsFree([P EXCEPT !.hard = b])
         /\ \A M, I : FitsMount(M, P, I) <=> FitsMount(M, [P EXCEPT !.command = b], I)
<1> DEFINE Q == [P EXCEPT !.command = b]
           R == [P EXCEPT !.hard = b]
<1>1. /\ Q \in PageObjects /\ Q.stored = P.stored /\ Q.index = P.index /\ Q.hash = P.hash
      /\ Q.changed = P.changed /\ Q.readonly = P.readonly
  BY DEF PageObjects
<1>2. /\ R \in PageObjects /\ R.stored = P.stored /\ R.index = P.index /\ R.hash = P.hash
      /\ R.changed = P.changed /\ R.readonly = P.readonly
  BY DEF PageObjects
<1> HIDE DEF Q, R
<1>3. Q \in PageObjects /\ R \in PageObjects
      /\ (FitsFree(P) <=> FitsFree(Q)) /\ (FitsFree(P) <=> FitsFree(R))
      /\ \A M, I : FitsMount(M, P, I) <=> FitsMount(M, Q, I)
  BY <1>1, <1>2, SameFit
<1> QED
  BY <1>3 DEF Q, R

\* A file that is opened fits.
LEMMA OpenedFits ==
  ASSUME TypeOK, HashInv, NEW readonly \in BOOLEAN
  PROVE  FitsFree(OpenedPages(readonly))
<1> DEFINE P == OpenedPages(readonly)
<1>1. /\ P.hash = "md5"
      /\ P.stored = IF archive = NULL THEN <<>> ELSE archive.stored
      /\ P.index = IF archive = NULL THEN NULL ELSE archive.index
  BY PagesOpened
<1> HIDE DEF P
<1>2. Fits(P)
  BY <1>1 DEF HashInv, Fits, AllWith
<1> QED
  BY <1>1, <1>2 DEF FitsFree, P

\* One pages object changes.
LEMMA HashPages ==
  ASSUME ObjectsInv, HashInv, NEW p \in Pages, NEW Q \in PageObjects \cup {NULL},
         pages' = [pages EXCEPT ![p] = Q], UNCHANGED <<indexes, mounts, left>>,
         archive' # NULL => Fits(archive)',
         Q # NULL /\ ~InUse(p) /\ p \notin left => FitsFree(Q),
         \A m \in Mounts : mounts[m] # NULL /\ mounts[m].pages = p =>
           FitsMount(mounts[m], Q, indexes[mounts[m].index])
  PROVE  HashInv'
<1>1. \A q \in Pages : pages'[q] = IF q = p THEN Q ELSE pages[q]
  BY DEF ObjectsInv, TypeOK
<1>2. \A o : InUse(o)' = InUse(o)
  BY DEF InUse
<1>3. \A q \in Pages : pages'[q] # NULL /\ ~InUse(q)' /\ q \notin left' => FitsFree(pages'[q])
  BY <1>1, <1>2 DEF HashInv
<1>4. ASSUME NEW m \in Mounts, mounts'[m] # NULL, mounts'[m].pages # NULL
      PROVE  FitsMount(mounts'[m], pages'[mounts'[m].pages], indexes'[mounts'[m].index])
  <2>1. mounts[m].pages \in Pages
    BY <1>4, MountHas
  <2> QED
    BY <1>1, <1>4, <2>1 DEF HashInv
<1>5. archive' # NULL => Fits(archive')
  OBVIOUS
<1> QED
  BY <1>3, <1>4, <1>5 DEF HashInv

\* One index changes.
LEMMA HashIndex ==
  ASSUME ObjectsInv, HashInv, NEW i \in Indexes, NEW J,
         indexes' = [indexes EXCEPT ![i] = J], UNCHANGED <<archive, pages, mounts, left>>,
         \A m \in Mounts :
           mounts[m] # NULL /\ mounts[m].pages # NULL /\ mounts[m].index = i =>
             FitsMount(mounts[m], pages[mounts[m].pages], J)
  PROVE  HashInv'
<1>1. \A j \in Indexes : indexes'[j] = IF j = i THEN J ELSE indexes[j]
  BY DEF ObjectsInv, TypeOK
<1>2. \A o : InUse(o)' = InUse(o)
  BY DEF InUse
<1>3. ASSUME NEW m \in Mounts, mounts'[m] # NULL, mounts'[m].pages # NULL
      PROVE  FitsMount(mounts'[m], pages'[mounts'[m].pages], indexes'[mounts'[m].index])
  <2>1. mounts[m].index \in Indexes
    BY <1>3, MountHas
  <2> QED
    BY <1>1, <1>3, <2>1 DEF HashInv
<1> QED
  BY <1>2, <1>3 DEF HashInv

\* The flags of a mount change.
LEMMA HashMount ==
  ASSUME ObjectsInv, HashInv, NEW m \in Mounts, mounts[m] # NULL, NEW M \in MountObjects,
         mounts' = [mounts EXCEPT ![m] = M],
         M.pages = mounts[m].pages, M.index = mounts[m].index,
         UNCHANGED <<archive, pages, indexes, left>>,
         M.pages # NULL => FitsMount(M, pages[M.pages], indexes[M.index])
  PROVE  HashInv'
<1>1. M # NULL /\ \A n \in Mounts : mounts'[n] = IF n = m THEN M ELSE mounts[n]
  BY NamesAssumption DEF ObjectsInv, TypeOK
<1>2. \A o : InUse(o)' = InUse(o)
  BY <1>1 DEF InUse
<1>3. ASSUME NEW n \in Mounts, mounts'[n] # NULL, mounts'[n].pages # NULL
      PROVE  FitsMount(mounts'[n], pages'[mounts'[n].pages], indexes'[mounts'[n].index])
  BY <1>1, <1>3 DEF HashInv
<1> QED
  BY <1>2, <1>3 DEF HashInv

\* Pages that are not locked hard are in no mount and not left behind.
LEMMA NotHard ==
  ASSUME ObjectsInv, NEW p \in Pages, pages[p] # NULL
  PROVE  /\ ~pages[p].hard => ~InUse(p) /\ p \notin left
         /\ InUse(p) => \E m \in Mounts : mounts[m] # NULL /\ mounts[m].pages = p
         /\ \A m, n \in Mounts :
              {mounts[m], mounts[n]} \cap {NULL} = {} /\ mounts[m].pages = p
              /\ mounts[n].pages = p => m = n
<1>1. InUse(p) => \E m \in Mounts : mounts[m] # NULL /\ mounts[m].pages = p
  BY MountHas, MountingAssumption DEF InUse
<1>2. ~pages[p].hard => ~InUse(p) /\ p \notin left
  BY <1>1, MountingAssumption DEF ObjectsInv, Whole, Apart
<1>3. \A m, n \in Mounts :
        {mounts[m], mounts[n]} \cap {NULL} = {} /\ mounts[m].pages = p
        /\ mounts[n].pages = p => m = n
  <2>1. p # NULL
    BY MountingAssumption
  <2>2. ASSUME NEW m \in Mounts, NEW n \in Mounts, m # n,
               mounts[m] # NULL, mounts[m].pages = p, mounts[n] # NULL
        PROVE  mounts[n].pages # p
    BY <2>1, <2>2 DEF ObjectsInv, Apart
  <2> QED
    BY <2>2
<1> QED
  BY <1>1, <1>2, <1>3

\* The commands of pages objects
LEMMA HashOfCommands ==
  ASSUME ObjectsInv, HashInv, "hash" \notin Careless, NEW p \in Pages,
         RegisterPages(p) \/ PagesCmdAdd(p) \/ CookfsPagesCmdHash(p) \/ PagesDelete(p)
  PROVE  HashInv'
<1>1. TypeOK /\ (pages[p] # NULL => pages[p] \in PageObjects)
  BY DEF ObjectsInv, TypeOK
<1>2. archive # NULL => Fits(archive)
  BY DEF HashInv
<1>3. CASE RegisterPages(p)
  <2>1. PICK readonly \in BOOLEAN :
          /\ pages' = [pages EXCEPT ![p] = [OpenedPages(readonly) EXCEPT !.command = TRUE]]
          /\ pages[p] = NULL /\ UNCHANGED <<archive, indexes, mounts, left>>
    BY <1>3 DEF RegisterPages
  <2> DEFINE Q == [OpenedPages(readonly) EXCEPT !.command = TRUE]
  <2>2. OpenedPages(readonly) \in PageObjects /\ FitsFree(OpenedPages(readonly))
    BY <1>1, PagesOpened, OpenedFits
  <2>3. Q \in PageObjects /\ FitsFree(Q)
    BY <2>2, FlagsSet
  <2>4. pages' = [pages EXCEPT ![p] = Q]
    BY <2>1
  <2>5. \A m \in Mounts : mounts[m] # NULL => mounts[m].pages # p
    BY <2>1, MountingAssumption DEF ObjectsInv, Whole
  <2> HIDE DEF Q
  <2> QED
    BY <1>2, <2>1, <2>3, <2>4, <2>5, HashPages
<1>4. CASE PagesCmdAdd(p)
  <2>1. /\ pages[p] # NULL /\ pages' = [pages EXCEPT ![p] = WithPage(pages[p])]
        /\ HasItsHash(p) /\ UNCHANGED <<archive, indexes, mounts, left>>
    BY <1>4 DEF PagesCmdAdd
  <2> DEFINE Q == WithPage(pages[p])
  <2>2. /\ Q \in PageObjects /\ Q.hash = pages[p].hash /\ Q.index = pages[p].index
        /\ AllWith(pages[p].stored, pages[p].hash) => AllWith(Q.stored, pages[p].hash)
    BY <1>1, <2>1, PageAdded
  <2>3. ASSUME ~InUse(p), p \notin left PROVE FitsFree(Q)
    <3>1. FitsFree(pages[p])
      BY <2>1, <2>3 DEF HashInv
    <3>2. pages[p].hash = Named(pages[p].index)
      BY <2>1, <2>3, MountingAssumption DEF HasItsHash, NamedHash, Named, InUse
    <3>3. Fits(Q)
      BY <2>2, <3>1, <3>2 DEF FitsFree, Fits
    <3> HIDE DEF Q
    <3> QED
      BY <2>2, <3>2, <3>3 DEF FitsFree, Named
  <2>4. ASSUME NEW m \in Mounts, mounts[m] # NULL, mounts[m].pages = p
        PROVE  FitsMount(mounts[m], Q, indexes[mounts[m].index])
    <3>1. FitsMount(mounts[m], pages[p], indexes[mounts[m].index])
      BY <2>4, MountingAssumption DEF HashInv
    <3>2. pages[p].hard
      BY <2>4, MountHas, MountingAssumption
    <3>3. PICK n \in Mounts : mounts[n] # NULL /\ mounts[n].pages = p /\ Keeps(mounts[n])
      BY <2>1, <3>2 DEF HasItsHash
    <3>4. Keeps(mounts[m])
      BY <2>1, <2>4, <3>3, NotHard
    <3> HIDE DEF Q
    <3> QED
      BY <2>2, <3>1, <3>4 DEF FitsMount
  <2>5. pages' = [pages EXCEPT ![p] = Q]
    BY <2>1
  <2> HIDE DEF Q
  <2> QED
    BY ZenonT(60), <1>2, <2>1, <2>2, <2>3, <2>4, <2>5, HashPages
<1>5. CASE CookfsPagesCmdHash(p)
  <2>1. PICK h \in Hashes :
          /\ pages[p] # NULL /\ pages' = [pages EXCEPT ![p] = [pages[p] EXCEPT !.hash = h]]
          /\ pages[p].stored = <<>> /\ ~pages[p].hard
          /\ UNCHANGED <<archive, indexes, mounts, left>>
    BY <1>5 DEF CookfsPagesCmdHash
  <2> DEFINE Q == [pages[p] EXCEPT !.hash = h]
  <2>2. Q \in PageObjects /\ Q.stored = <<>>
    BY <1>1, <2>1 DEF PageObjects
  <2>3. FitsFree(Q)
    BY <2>2 DEF FitsFree, Fits, AllWith
  <2>4. \A m \in Mounts : mounts[m] # NULL => mounts[m].pages # p
    BY <2>1, NotHard DEF InUse
  <2>5. pages' = [pages EXCEPT ![p] = Q]
    BY <2>1
  <2> HIDE DEF Q
  <2> QED
    BY <1>2, <2>1, <2>2, <2>3, <2>4, <2>5, HashPages
<1>6. CASE PagesDelete(p) /\ pages[p].hard
  <2>1. /\ pages[p] # NULL
        /\ pages' = [pages EXCEPT ![p] = [pages[p] EXCEPT !.command = FALSE]]
        /\ UNCHANGED <<archive, indexes, mounts, left>>
    BY <1>6 DEF PagesDelete
  <2> DEFINE Q == [pages[p] EXCEPT !.command = FALSE]
  <2>2. /\ Q \in PageObjects /\ (FitsFree(pages[p]) <=> FitsFree(Q))
        /\ \A M, I : FitsMount(M, pages[p], I) <=> FitsMount(M, Q, I)
    BY <1>1, <2>1, FlagsSet
  <2>3. pages' = [pages EXCEPT ![p] = Q]
    BY <2>1
  <2>4. \A m \in Mounts : mounts[m] # NULL /\ mounts[m].pages = p =>
          FitsMount(mounts[m], Q, indexes[mounts[m].index])
    BY <2>2, MountingAssumption DEF HashInv
  <2>5. ~InUse(p) /\ p \notin left => FitsFree(Q)
    BY <2>1, <2>2 DEF HashInv
  <2> HIDE DEF Q
  <2> QED
    BY ZenonT(60), <1>2, <2>1, <2>2, <2>3, <2>4, <2>5, HashPages
<1>7. CASE PagesDelete(p) /\ ~pages[p].hard
  <2>1. /\ pages[p] # NULL /\ pages' = [pages EXCEPT ![p] = NULL]
        /\ archive' = Saved(pages[p]) /\ UNCHANGED <<indexes, mounts, left>>
    BY <1>7 DEF PagesDelete
  <2>2. ~InUse(p) /\ p \notin left
    BY <1>7, <2>1, NotHard
  <2>3. Fits(pages[p])
    BY <2>1, <2>2 DEF HashInv, FitsFree
  <2>4. archive' # NULL => Fits(archive')
    BY <1>1, <1>2, <2>1, <2>3, PagesSaved
  <2>5. \A m \in Mounts : mounts[m] # NULL => mounts[m].pages # p
    BY <2>2 DEF InUse
  <2> QED
    BY <2>1, <2>4, <2>5, HashPages
<1> QED
  BY <1>3, <1>4, <1>5, <1>6, <1>7

\* The commands of index objects
LEMMA HashOfIndexes ==
  ASSUME ObjectsInv, HashInv, {"hash", "exports"} \cap Careless = {}, NEW i \in Indexes,
         RegisterIndex(i) \/ IndexDelete(i) \/ IndexTold(i)
  PROVE  HashInv'
<1>1. CASE RegisterIndex(i) \/ (IndexDelete(i) /\ ~indexes[i].hard)
  <2>1. \A m \in Mounts : mounts[m] # NULL => mounts[m].index # i
    BY <1>1 DEF ObjectsInv, Whole, RegisterIndex
  <2>2. \E J : indexes' = [indexes EXCEPT ![i] = J]
    BY <1>1 DEF RegisterIndex, IndexDelete
  <2>3. UNCHANGED <<archive, pages, mounts, left>>
    BY <1>1 DEF RegisterIndex, IndexDelete
  <2> QED
    BY <2>1, <2>2, <2>3, HashIndex
<1>2. CASE IndexDelete(i) /\ indexes[i].hard
  <2> DEFINE J == [indexes[i] EXCEPT !.command = FALSE]
  <2>1. /\ indexes[i] # NULL /\ indexes' = [indexes EXCEPT ![i] = J]
        /\ UNCHANGED <<archive, pages, mounts, left>>
    BY <1>2 DEF IndexDelete
  <2>2. J.meta = indexes[i].meta /\ J.changes = indexes[i].changes
    BY <2>1 DEF ObjectsInv, TypeOK, IndexObjects
  <2> HIDE DEF J
  <2>3. \A m \in Mounts :
          mounts[m] # NULL /\ mounts[m].pages # NULL /\ mounts[m].index = i =>
            FitsMount(mounts[m], pages[mounts[m].pages], J)
    BY <2>2 DEF HashInv, FitsMount
  <2> QED
    BY <2>1, <2>3, HashIndex
<1>3. CASE IndexTold(i)
  <2>1. PICK J \in IndexObjects :
          /\ indexes' = [indexes EXCEPT ![i] = J] /\ UNCHANGED <<archive, pages, mounts, left>>
          /\ J.changes \/ IsInArchive(i, J.meta)
          /\ MayName(i, J.meta.hash)
    BY <1>3, ToldIs
  <2>2. ASSUME NEW m \in Mounts, mounts[m] # NULL, mounts[m].pages # NULL, mounts[m].index = i
        PROVE  FitsMount(mounts[m], pages[mounts[m].pages], J)
    <3> DEFINE P == pages[mounts[m].pages]
               I == indexes[i]
    <3>1. FitsMount(mounts[m], P, I) /\ P \in PageObjects /\ I \in IndexObjects
      BY <2>2, MountHas DEF HashInv
    <3>2. ASSUME Keeps(mounts[m])
          PROVE  Named(J.meta) = P.hash /\ (~J.changes => Named(P.index) = P.hash)
      <4>1. KeptBy(m, i)
        BY <2>2, <3>2 DEF KeptBy
      <4>2. J.meta.hash = I.meta.hash
        BY <2>1, <4>1 DEF MayName
      <4>3. Named(J.meta) = P.hash
        <5>1. J.meta # NULL /\ I.meta # NULL
          BY <3>1, NamesAssumption DEF IndexObjects
        <5> QED
          BY <3>1, <3>2, <4>2, <5>1 DEF FitsMount, Named
      <4>4. ~J.changes => J.meta = NewIndex(P.index).meta
        BY <2>1, <4>1 DEF IsInArchive
      <4>5. Named(NewIndex(P.index).meta) = Named(P.index)
        BY NamesAssumption DEF Named, NewIndex, NoMetadata, Hashes, Metadata
      <4> QED
        BY <4>3, <4>4, <4>5
    <3> HIDE DEF P, I
    <3> QED
      BY <3>1, <3>2 DEF FitsMount, P
  <2> QED
    BY <2>1, <2>2, HashIndex
<1> QED
  BY <1>1, <1>2, <1>3

\* The handle of a mount
LEMMA HashOfHandle ==
  ASSUME ObjectsInv, HashInv, {"hash", "switches"} \cap Careless = {}, NEW m \in Mounts,
         \/ GetPages(m) \/ GetIndex(m) \/ HandleDelete(m)
         \/ HandleSetMetadata(m) \/ HandleWritetomemory(m)
  PROVE  HashInv'
<1> DEFINE p == mounts[m].pages
           i == mounts[m].index
<1>1. mounts[m] # NULL
  BY DEF GetPages, GetIndex, HandleDelete, HandleSetMetadata, HandleWritetomemory,
         HasHandle, IsMounted
<1>2. /\ mounts[m] \in MountObjects
      /\ i \in Indexes /\ indexes[i] \in IndexObjects
      /\ p \in Pages \cup {NULL}
      /\ p # NULL => pages[p] \in PageObjects
  BY <1>1, MountHas
<1>3. /\ InUse(i) /\ (p # NULL => InUse(p))
      /\ p # NULL => FitsMount(mounts[m], pages[p], indexes[i])
  BY <1>1 DEF InUse, HashInv
<1>4. archive # NULL => Fits(archive)
  BY DEF HashInv
<1>5. CASE GetPages(m)
  <2> DEFINE Q == [pages[p] EXCEPT !.command = TRUE]
  <2>1. p # NULL /\ pages' = [pages EXCEPT ![p] = Q] /\ UNCHANGED <<archive, indexes, mounts, left>>
    BY <1>5 DEF GetPages
  <2>2. /\ Q \in PageObjects
        /\ \A M, I : FitsMount(M, pages[p], I) <=> FitsMount(M, Q, I)
    BY <1>2, <2>1, FlagsSet
  <2>3. \A n \in Mounts : mounts[n] # NULL /\ mounts[n].pages = p =>
          FitsMount(mounts[n], Q, indexes[mounts[n].index])
    BY <2>1, <2>2 DEF HashInv
  <2>4. p \in Pages
    BY <1>2, <2>1
  <2> HIDE DEF Q, p, i
  <2> QED
    BY <1>3, <1>4, <2>1, <2>2, <2>3, <2>4, HashPages
<1>6. CASE GetIndex(m)
  <2> DEFINE J == [indexes[i] EXCEPT !.command = TRUE]
  <2>1. indexes' = [indexes EXCEPT ![i] = J] /\ UNCHANGED <<archive, pages, mounts, left>>
    BY <1>6 DEF GetIndex
  <2>2. J.meta = indexes[i].meta /\ J.changes = indexes[i].changes
    BY <1>2 DEF IndexObjects
  <2> HIDE DEF J
  <2>3. \A n \in Mounts :
          mounts[n] # NULL /\ mounts[n].pages # NULL /\ mounts[n].index = i =>
            FitsMount(mounts[n], pages[mounts[n].pages], J)
    BY <2>2 DEF HashInv, FitsMount
  <2> QED
    BY <1>2, <2>1, <2>3, HashIndex
<1>7. CASE HandleSetMetadata(m)
  <2>1. PICK v \in Values \cup {Bad} :
          /\ indexes' = [indexes EXCEPT ![i] = SetMetadata(indexes[i], "size", v)]
          /\ UNCHANGED <<archive, pages, mounts, left>>
    BY <1>7 DEF HandleSetMetadata
  <2> DEFINE J == SetMetadata(indexes[i], "size", v)
  <2>2. /\ J \in IndexObjects /\ J.changes /\ J.meta.hash = indexes[i].meta.hash
    BY <1>2, <2>1, MetadataSet
  <2> HIDE DEF J
  <2>3. Named(J.meta) = Named(indexes[i].meta)
    BY <1>2, <2>2, NamesAssumption DEF Named, IndexObjects
  <2>4. \A n \in Mounts :
          mounts[n] # NULL /\ mounts[n].pages # NULL /\ mounts[n].index = i =>
            FitsMount(mounts[n], pages[mounts[n].pages], J)
    BY <2>2, <2>3 DEF HashInv, FitsMount
  <2>5. indexes' = [indexes EXCEPT ![i] = J]
    BY <2>1 DEF J
  <2> QED
    BY <1>2, <2>1, <2>4, <2>5, HashIndex
<1>8. CASE HandleWritetomemory(m)
  <2> DEFINE M == [mounts[m] EXCEPT !.toMemory = TRUE, !.readonly = FALSE]
  <2>1. /\ mounts' = [mounts EXCEPT ![m] = M] /\ UNCHANGED <<archive, pages, indexes, left>>
        /\ ~HasUnnamedPages(m)
    BY <1>8 DEF HandleWritetomemory, ObjectsInv, TypeOK
  <2>2. /\ M \in MountObjects /\ M.pages = mounts[m].pages /\ M.index = mounts[m].index
        /\ M.toMemory = TRUE
    BY <1>2 DEF MountObjects
  <2> HIDE DEF M
  <2>3. ASSUME p # NULL PROVE FitsMount(M, pages[p], indexes[i])
    <3>1. pages[p].changed => pages[p].hash = Named(pages[p].index)
      BY <2>1, <2>3 DEF HasUnnamedPages, NamedHash, Named
    <3> HIDE DEF p, i
    <3>2. FitsMount(mounts[m], pages[p], indexes[i])
      BY <1>3, <2>3
    <3> QED
      BY <2>2, <3>1, <3>2 DEF FitsMount, Fits, Keeps
  <2> QED
    BY <1>1, <2>1, <2>2, <2>3, HashMount
<1>9. CASE HandleDelete(m)
  <2> DEFINE M == [mounts[m] EXCEPT !.command = FALSE]
  <2>1. mounts' = [mounts EXCEPT ![m] = M] /\ UNCHANGED <<archive, pages, indexes, left>>
    BY <1>9 DEF HandleDelete
  <2>2. /\ M \in MountObjects /\ M.pages = mounts[m].pages /\ M.index = mounts[m].index
        /\ M.toMemory = mounts[m].toMemory /\ M.readonly = mounts[m].readonly
    BY <1>2 DEF MountObjects
  <2> HIDE DEF M
  <2>3. Keeps(M) <=> Keeps(mounts[m])
    BY <2>2 DEF Keeps
  <2>4. M.pages # NULL => FitsMount(M, pages[M.pages], indexes[M.index])
    BY <1>3, <2>2, <2>3 DEF FitsMount
  <2> QED
    BY <1>1, <2>1, <2>2, <2>4, HashMount
<1> QED
  BY <1>5, <1>6, <1>7, <1>8, <1>9

\* Closing a file: the page gets the hash of the mount.
LEMMA HashOfFile ==
  ASSUME ObjectsInv, HashInv, NEW m \in Mounts, StoreFile(m)
  PROVE  HashInv'
<1>1. /\ mounts[m] # NULL /\ UNCHANGED <<archive, left>>
      /\ \/ pages' = pages
         \/ /\ Keeps(mounts[m])
            /\ pages' = [pages EXCEPT ![mounts[m].pages] = WithPage(pages[mounts[m].pages])]
  BY FileStored
<1>2. PICK i \in Indexes, J \in IndexObjects :
        /\ i = mounts[m].index /\ indexes' = [indexes EXCEPT ![i] = J]
        /\ J.changes /\ J.meta = indexes[i].meta
  BY FileStored
<1>3. PICK M \in MountObjects :
        /\ mounts' = [mounts EXCEPT ![m] = M]
        /\ M.pages = mounts[m].pages /\ M.index = mounts[m].index
        /\ M.readonly = mounts[m].readonly /\ M.toMemory = mounts[m].toMemory
  BY FileStored
<1>4. PICK p \in Pages \cup {NULL} : p = mounts[m].pages /\ (p # NULL => pages[p] \in PageObjects)
  BY <1>1, MountHas
<1>5. /\ \A n \in Mounts : mounts'[n] = IF n = m THEN M ELSE mounts[n]
      /\ \A j \in Indexes : indexes'[j] = IF j = i THEN J ELSE indexes[j]
      /\ M # NULL
  BY <1>2, <1>3, NamesAssumption DEF ObjectsInv, TypeOK
<1>6. \A o : InUse(o)' = InUse(o)
  BY <1>1, <1>3, <1>5 DEF InUse
<1>7. \A q \in Pages : q # p => pages'[q] = pages[q]
  BY <1>1, <1>4 DEF ObjectsInv, TypeOK
<1>8. ASSUME p # NULL PROVE FitsMount(M, pages'[p], J)
  <2>1. FitsMount(mounts[m], pages[p], indexes[i])
    BY <1>1, <1>2, <1>4, <1>8 DEF HashInv
  <2>2. Keeps(M) <=> Keeps(mounts[m])
    BY <1>3 DEF Keeps
  <2>3. FitsMount(M, pages[p], J)
    BY <1>2, <2>1, <2>2 DEF FitsMount
  <2>4. CASE pages' = pages
    BY <2>3, <2>4
  <2>5. CASE Keeps(mounts[m]) /\ pages' = [pages EXCEPT ![p] = WithPage(pages[p])]
    <3> DEFINE Q == WithPage(pages[p])
    <3>1. pages'[p] = Q
      BY <1>4, <1>8, <2>5 DEF ObjectsInv, TypeOK
    <3>2. /\ Q.hash = pages[p].hash
          /\ AllWith(pages[p].stored, pages[p].hash) => AllWith(Q.stored, pages[p].hash)
      BY <1>4, <1>8, PageAdded
    <3> HIDE DEF Q
    <3> QED
      BY <1>2, <2>2, <2>3, <2>5, <3>1, <3>2 DEF FitsMount
  <2> QED
    BY <1>1, <1>4, <2>4, <2>5
<1>9. ASSUME NEW n \in Mounts, mounts'[n] # NULL, mounts'[n].pages # NULL
      PROVE  FitsMount(mounts'[n], pages'[mounts'[n].pages], indexes'[mounts'[n].index])
  <2>1. CASE n = m
    BY <1>2, <1>3, <1>4, <1>5, <1>8, <1>9, <2>1
  <2>2. CASE n # m
    <3>1. mounts'[n] = mounts[n]
      BY <1>5, <2>2
    <3>2. mounts[n].pages \in Pages /\ mounts[n].index \in Indexes
      BY <1>9, <3>1, MountHas
    <3>3. mounts[n].pages # p /\ mounts[n].index # i
      BY <1>1, <1>2, <1>4, <1>9, <2>2, <3>1 DEF ObjectsInv, Apart
    <3> QED
      BY <1>5, <1>7, <1>9, <3>1, <3>2, <3>3 DEF HashInv
  <2> QED
    BY <2>1, <2>2
<1>10. ASSUME NEW q \in Pages, pages'[q] # NULL, ~InUse(q)', q \notin left'
       PROVE  FitsFree(pages'[q])
  <2>1. ~InUse(q) /\ q # p
    BY ZenonT(60), <1>1, <1>4, <1>6, <1>10 DEF InUse
  <2> QED
    BY <1>1, <1>7, <1>10, <2>1 DEF HashInv
<1>11. archive' # NULL => Fits(archive')
  BY <1>1 DEF HashInv
<1> QED
  BY <1>9, <1>10, <1>11 DEF HashInv

\* Unmounting saves pages that the index, the new or the old one, names the hash of.
LEMMA HashOfUnmount ==
  ASSUME ObjectsInv, HashInv, NEW m \in Mounts, Unmount(m)
  PROVE  HashInv'
<1>1. PICK p \in Pages \cup {NULL}, i \in Indexes :
        /\ mounts[m] # NULL /\ p = mounts[m].pages /\ i = mounts[m].index
        /\ mounts' = [mounts EXCEPT ![m] = NULL]
        /\ \/ /\ pages' = At(pages, p, NULL) /\ indexes' = At(indexes, i, NULL)
              /\ left' = left
              /\ archive' = IF p = NULL THEN archive
                            ELSE Saved(WithIndex(Purged(m, pages[p]), Recounted(m, indexes[i]),
                                         mounts[m].readonly, mounts[m].toMemory))
           \/ left' = left \cup {p, i} /\ p # NULL /\ UNCHANGED <<archive, pages, indexes>>
  BY Unmounted
<1>2. TypeOK /\ i # NULL
  BY MountingAssumption DEF ObjectsInv
<1>3. indexes[i] \in IndexObjects /\ (p # NULL => pages[p] \in PageObjects)
  BY <1>1, MountHas
<1>4. \A n \in Mounts : mounts'[n] = IF n = m THEN NULL ELSE mounts[n]
  BY <1>1, <1>2 DEF TypeOK
<1>5. /\ \A q \in Pages : pages'[q] = pages[q] \/ (q = p /\ pages'[q] = NULL)
      /\ \A j \in Indexes : indexes'[j] = indexes[j] \/ (j = i /\ indexes'[j] = NULL)
  BY <1>1, <1>2 DEF At, TypeOK
<1>6. ASSUME p # NULL
      PROVE  LET W == WithIndex(Purged(m, pages[p]), Recounted(m, indexes[i]),
                                mounts[m].readonly, mounts[m].toMemory)
             IN W \in PageObjects /\ (W.changed /\ ~W.readonly => Fits(W))
  <2> DEFINE P == pages[p]
             I == Recounted(m, indexes[i])
             M == mounts[m]
             R == Purged(m, P)
  <2>1. FitsMount(M, P, I) /\ P \in PageObjects /\ I \in IndexObjects /\ M \in MountObjects
    <3>1. /\ P \in PageObjects /\ M \in MountObjects /\ I \in IndexObjects
          /\ I.meta = indexes[i].meta /\ (indexes[i].changes => I.changes)
      BY <1>1, <1>3, <1>6, MountHas, RecountedIs
    <3>2. FitsMount(M, P, indexes[i])
      BY <1>1, <1>6 DEF HashInv
    <3> HIDE DEF P, I, M
    <3>3. FitsMount(M, P, I)
      BY <3>1, <3>2 DEF FitsMount
    <3> QED
      BY <3>1, <3>3
  <2>2. /\ R \in PageObjects /\ R.index = P.index /\ R.readonly = P.readonly
        /\ AllWith(P.stored, P.hash) => AllWith(R.stored, P.hash)
        /\ ~Keeps(M) => R = P
    <3>1. M.pending => ~M.readonly
      BY <1>1 DEF ObjectsInv, Modes
    <3>2. M.pages # NULL
      BY <1>1, <1>6
    <3> QED
      BY <2>1, <3>1, <3>2, PageAdded DEF Purged, Buffered, Keeps
  <2>3. M.pages # NULL /\ M.readonly \in BOOLEAN /\ M.toMemory \in BOOLEAN
    BY <1>1, <1>6, <2>1 DEF MountObjects
  <2> HIDE DEF P, I, M, R
  <2>4. PICK W : W = WithIndex(R, I, M.readonly, M.toMemory)
    OBVIOUS
  <2>5. CASE Keeps(M) /\ I.changes
    <3>1. W = [R EXCEPT !.index = I.meta, !.changed = TRUE]
      BY <2>4, <2>5 DEF WithIndex, Keeps
    <3>2. /\ W \in PageObjects /\ W.index = I.meta /\ W.stored = R.stored
      BY <2>1, <2>2, <3>1 DEF PageObjects, IndexObjects
    <3>3. W \in PageObjects /\ Fits(W)
      BY <2>1, <2>2, <2>5, <3>2 DEF FitsMount, Fits
    <3> QED
      BY <2>4, <3>3 DEF P, I, M, R
  <2>6. CASE Keeps(M) /\ ~I.changes
    <3>1. W = R
      BY <2>4, <2>6 DEF WithIndex
    <3>2. W \in PageObjects /\ Fits(W)
      BY <2>1, <2>2, <2>6, <3>1 DEF FitsMount, Fits
    <3> QED
      BY <2>4, <3>2 DEF P, I, M, R
  <2>7. CASE ~Keeps(M)
    <3>1. W = P
      BY <2>2, <2>3, <2>4, <2>7 DEF WithIndex, Keeps
    <3>2. W \in PageObjects /\ (W.changed /\ ~W.readonly => Fits(W))
      BY <2>1, <2>7, <3>1 DEF FitsMount
    <3> QED
      BY <2>4, <3>2 DEF P, I, M, R
  <2> QED
    BY <2>5, <2>6, <2>7
<1>7. archive' # NULL => Fits(archive')
  <2>1. archive # NULL => Fits(archive)
    BY DEF HashInv
  <2>2. CASE archive' = archive
    BY <2>1, <2>2
  <2>3. CASE archive' # archive
    <3>1. p # NULL
      BY <1>1, <2>3
    <3>2. PICK W : W = WithIndex(Purged(m, pages[p]), Recounted(m, indexes[i]),
                                 mounts[m].readonly, mounts[m].toMemory)
      OBVIOUS
    <3>3. archive' = Saved(W)
      BY <1>1, <2>3, <3>1, <3>2
    <3>4. W \in PageObjects /\ (W.changed /\ ~W.readonly => Fits(W))
      BY <1>6, <3>1, <3>2
    <3> QED
      BY <1>2, <2>1, <3>3, <3>4, PagesSaved
  <2> QED
    BY <2>2, <2>3
<1>8. ASSUME NEW q \in Pages, pages'[q] # NULL, ~InUse(q)', q \notin left'
      PROVE  FitsFree(pages'[q])
  <2>1. q # i
    BY MountingAssumption
  <2>2. pages'[q] = pages[q] /\ q # p /\ q \notin left
    BY <1>1, <1>2, <1>5, <1>8, MountingAssumption DEF At, TypeOK
  <2>3. ~InUse(q)
    BY <1>1, <1>4, <1>8, <2>1, <2>2 DEF InUse
  <2> QED
    BY <1>8, <2>2, <2>3 DEF HashInv
<1>9. ASSUME NEW n \in Mounts, mounts'[n] # NULL, mounts'[n].pages # NULL
      PROVE  FitsMount(mounts'[n], pages'[mounts'[n].pages], indexes'[mounts'[n].index])
  <2>1. n # m /\ mounts'[n] = mounts[n]
    BY <1>4, <1>9
  <2>2. mounts[n].pages \in Pages /\ mounts[n].index \in Indexes
    BY <1>9, <2>1, MountHas
  <2>3. mounts[n].pages # p /\ mounts[n].index # i
    BY <1>1, <1>9, <2>1 DEF ObjectsInv, Apart
  <2> QED
    BY <1>5, <1>9, <2>1, <2>2, <2>3 DEF HashInv
<1> QED
  BY <1>7, <1>8, <1>9 DEF HashInv

\* The careless steps that the hash of pages does not survive
HashCare ==
  {"shares", "bootstrap", "mismatch", "switches", "hash", "exports"} \cap Careless = {}

\* The pages a mount begins with fit, and so do those that come of them; what the
\* index names is their hash.
LEMMA MountFits ==
  ASSUME ObjectsInv, HashInv, HashCare, NEW m \in Mounts, NEW o, NEW P, NEW I, NEW S,
         NEW Q, NEW J, NEW T, NEW ok, Tried(m, o, P, I, S, Q, J, T, ok), P # NULL
  PROVE  /\ FitsFree(P)
         /\ ~ok \/ ~o.bootstrap => FitsFree(Q)
         /\ o.mode # "write" \/ o.fails = "told" => ~o.bootstrap
         /\ ok => /\ AllWith(Q.stored, Q.hash) /\ Named(T.meta) = Q.hash
                  /\ ~T.changes => Named(Q.index) = Q.hash
<1>1. /\ o \in Options /\ IsSensible(o) /\ TypeOK
      /\ P \in PageObjects /\ Q \in PageObjects
      /\ {I, S, J, T} \subseteq IndexObjects
      /\ P = PagesOf(o) /\ I = IndexOf(o, P) /\ S = Sized(o, I) /\ T = Told(o, J)
      /\ ok = Hashed(o, P, S).ok /\ Q = Hashed(o, P, S).pages /\ J = Hashed(o, P, S).index
  BY DEF Tried, ObjectsInv
<1>2. o.pages \in Pages \cup {NULL} /\ o.index \in Indexes \cup {NULL}
  BY <1>1 DEF Options
<1>3. FitsFree(P)
  <2>1. CASE o.pages # NULL
    <3>1. pages[o.pages] \in PageObjects /\ P = [pages[o.pages] EXCEPT !.hard = TRUE]
      BY <1>1, <2>1, ObjectsFound
    <3>2. ~InUse(o.pages) /\ o.pages \notin left /\ pages[o.pages] # NULL
      BY <1>1, <2>1 DEF IsSensible, Given, HashCare
    <3>3. FitsFree(pages[o.pages])
      BY <1>2, <2>1, <3>2 DEF HashInv
    <3> QED
      BY <3>1, <3>3, FlagsSet
  <2>2. CASE o.pages = NULL
    <3>1. P = [OpenedPages(Readonly(o)) EXCEPT !.hard = TRUE]
      BY <1>1, <2>2, ObjectsFound
    <3>2. Readonly(o) \in BOOLEAN
      BY DEF Readonly
    <3>3. FitsFree(OpenedPages(Readonly(o))) /\ OpenedPages(Readonly(o)) \in PageObjects
      BY <1>1, <3>2, OpenedFits, PagesOpened
    <3> QED
      BY <3>1, <3>3, FlagsSet
  <2> QED
    BY <2>1, <2>2
<1>4. o.bootstrap => o.mode = "write" /\ o.hash = "md5" /\ o.fails # "told"
  BY <1>1 DEF IsSensible, HashCare
<1>5. S.meta.hash = I.meta.hash /\ T.meta.hash = J.meta.hash /\ (J.changes => T.changes)
  BY <1>1, SizeStored, SizeTold
<1>6. PICK H : H = Hashed(o, P, S) /\ Chosen(o, P, S, H)
  BY <1>1, HashChosen
<1>7. H.ok = ok /\ H.pages = Q /\ H.index = J
  BY <1>1, <1>6
<1>8. T.meta # NULL /\ I.meta # NULL /\ NULL \notin Hashes
  BY <1>1, NamesAssumption DEF IndexObjects
<1>9. Named(T.meta) = IF J.meta.hash \in Hashes THEN J.meta.hash ELSE "md5"
  BY <1>5, <1>8 DEF Named
<1>10. CASE P.stored # <<>>
  <2>1. PICK N : N = NewIndex(P.index) /\ N \in IndexObjects
                 /\ N.meta = IF P.index = NULL THEN NoMetadata ELSE P.index
    BY <1>1, IndexMade DEF PageObjects
  <2>2. I.meta = N.meta
    <3>1. CASE o.index = NULL
      <4>1. I = [N EXCEPT !.hard = TRUE]
        BY <1>1, <2>1, <3>1 DEF IndexOf
      <4> QED
        BY <2>1, <4>1 DEF IndexObjects
    <3>2. CASE o.index # NULL
      <4>1. indexes[o.index].meta = NewIndex(P.index).meta
        BY <1>1, <1>8, <1>10, <3>2 DEF IsSensible, Matches, HashCare
      <4>2. /\ indexes[o.index] \in IndexObjects
            /\ I = [indexes[o.index] EXCEPT !.hard = TRUE]
        BY <1>1, <3>2, ObjectsFound
      <4>3. I.meta = indexes[o.index].meta
        BY <4>2 DEF IndexObjects
      <4> QED
        BY <2>1, <4>1, <4>3
    <3> QED
      BY <3>1, <3>2
  <2>3. I.meta = IF P.index = NULL THEN NoMetadata ELSE P.index
    BY <2>1, <2>2
  <2>4. /\ Q.stored = P.stored /\ Q.index = P.index /\ J = S
        /\ Q.hash = IF I.meta.hash \in Hashes THEN I.meta.hash ELSE P.hash
    BY <1>5, <1>6, <1>7, <1>10 DEF Chosen
  <2>5. Q.hash = Named(P.index)
    BY <1>3, <1>8, <1>10, <2>3, <2>4 DEF FitsFree, Named, NoMetadata
  <2>6. Named(T.meta) = Named(P.index)
    BY <1>5, <1>8, <1>9, <2>3, <2>4 DEF Named, NoMetadata
  <2>7. FitsFree(Q)
    BY <1>3, <1>8, <1>10, <2>4, <2>5 DEF FitsFree, Fits, Named
  <2>8. AllWith(Q.stored, Q.hash)
    BY <1>3, <2>4, <2>5 DEF FitsFree, Fits
  <2> QED
    BY <1>3, <1>4, <2>4, <2>5, <2>6, <2>7, <2>8
<1>11. CASE P.stored = <<>>
  <2>1. /\ ok => AllWith(Q.stored, Q.hash) /\ J.changes /\ J.meta.hash = Q.hash
        /\ ~ok => Q = P
        /\ ~o.bootstrap => Q.stored = <<>>
    BY <1>4, <1>6, <1>7, <1>11 DEF Chosen
  <2>2. Q.hash \in Hashes
    BY <1>1 DEF PageObjects
  <2>3. ok => Named(T.meta) = Q.hash /\ T.changes
    BY <1>5, <1>9, <2>1, <2>2
  <2>4. Q.stored = <<>> => FitsFree(Q)
    BY DEF FitsFree, Fits, AllWith
  <2> QED
    BY <1>3, <1>4, <2>1, <2>3, <2>4
<1> QED
  BY <1>10, <1>11

\* Whatever comes of a call of mount
LEMMA HashOfMount ==
  ASSUME ObjectsInv, HashInv, HashCare, NEW m \in Mounts, Mount(m)
  PROVE  HashInv'
<1>1. TypeOK
  BY DEF ObjectsInv
<1>2. PICK o, P, I, S, Q, J, T, ok : Tried(m, o, P, I, S, Q, J, T, ok)
  BY <1>1, MountTried
<1>3. /\ o \in Options /\ IsSensible(o)
      /\ o.pages \in Pages \cup {NULL} /\ o.index \in Indexes \cup {NULL}
      /\ {P, Q} \subseteq PageObjects \cup {NULL} /\ {I, S, J, T} \subseteq IndexObjects
      /\ P = NULL <=> Q = NULL
      /\ P = PagesOf(o) /\ mounts[m] = NULL
  BY <1>2 DEF Tried, Options
<1>4. P # NULL =>
        /\ FitsFree(P)
        /\ ~ok \/ ~o.bootstrap => FitsFree(Q)
        /\ o.mode # "write" \/ o.fails = "told" => ~o.bootstrap
        /\ ok => /\ AllWith(Q.stored, Q.hash) /\ Named(T.meta) = Q.hash
                 /\ ~T.changes => Named(Q.index) = Q.hash
  BY <1>2, MountFits
<1>5. /\ o.pages # NULL => ~InUse(o.pages)
      /\ o.index # NULL => ~InUse(o.index)
  BY <1>3 DEF IsSensible, Given, HashCare
<1>6. archive # NULL => Fits(archive)
  BY DEF HashInv
<1>7. ASSUME NEW X \in PageObjects \cup {NULL}, NEW Y, Failed(o, X, Y), X # NULL => FitsFree(X)
      PROVE  HashInv'
  <2>1. /\ mounts' = mounts /\ left' = left
        /\ pages' = At(pages, o.pages, X) /\ indexes' = At(indexes, o.index, Y)
        /\ archive' = IF o.pages = NULL /\ X # NULL THEN Saved(X) ELSE archive
    BY <1>7 DEF Failed, Undone
  <2>2. archive' # NULL => Fits(archive')
    <3>1. CASE o.pages = NULL /\ X # NULL
      BY <1>1, <1>6, <1>7, <2>1, <3>1, PagesSaved DEF FitsFree
    <3>2. CASE ~(o.pages = NULL /\ X # NULL)
      BY <1>6, <2>1, <3>2
    <3> QED
      BY <3>1, <3>2
  <2>3. /\ \A q \in Pages : pages'[q] = IF q = o.pages THEN X ELSE pages[q]
        /\ \A j \in Indexes : j # o.index => indexes'[j] = indexes[j]
    BY <1>1, <2>1, MountingAssumption DEF At, TypeOK
  <2>4. \A x : InUse(x)' = InUse(x)
    BY <2>1 DEF InUse
  <2>5. \A q \in Pages : pages'[q] # NULL /\ ~InUse(q)' /\ q \notin left' => FitsFree(pages'[q])
    BY <1>7, <2>1, <2>3, <2>4 DEF HashInv
  <2>6. ASSUME NEW n \in Mounts, mounts[n] # NULL, mounts[n].pages # NULL
        PROVE  FitsMount(mounts'[n], pages'[mounts'[n].pages], indexes'[mounts'[n].index])
    <3>1. mounts[n].pages \in Pages /\ mounts[n].index \in Indexes
      BY <2>6, MountHas
    <3>2. mounts[n].pages # o.pages /\ mounts[n].index # o.index
      BY <1>5, <2>6, <3>1, MountingAssumption DEF InUse
    <3> QED
      BY <2>1, <2>3, <2>6, <3>1, <3>2 DEF HashInv
  <2> QED
    BY <2>1, <2>2, <2>5, <2>6 DEF HashInv
<1>8. ASSUME ok, Registered(o, Q, T) PROVE HashInv'
  <2>1. /\ mounts' = mounts /\ left' = left
        /\ pages' = At(pages, o.pages, NULL) /\ indexes' = At(indexes, o.index, NULL)
        /\ archive' = IF Q = NULL THEN archive
                      ELSE Saved(WithIndex(Q, T, o.mode = "read", o.mode = "memory"))
    BY <1>8 DEF Registered, Finished
  <2>2. archive' # NULL => Fits(archive')
    <3>1. CASE Q = NULL
      BY <1>6, <2>1, <3>1
    <3>2. CASE Q # NULL
      <4>1. PICK R : R = WithIndex(Q, T, o.mode = "read", o.mode = "memory")
        OBVIOUS
      <4>2. Q \in PageObjects /\ T \in IndexObjects
        BY <1>3, <3>2
      <4>3. R \in PageObjects /\ (R.changed /\ ~R.readonly => Fits(R))
        <5>1. CASE T.changes /\ o.mode \notin {"read", "memory"}
          <6>1. R = [Q EXCEPT !.index = T.meta, !.changed = TRUE]
            BY <4>1, <5>1 DEF WithIndex
          <6>2. R \in PageObjects /\ R.index = T.meta /\ R.stored = Q.stored
            BY <4>2, <6>1 DEF PageObjects, IndexObjects
          <6> QED
            BY <1>3, <1>4, <1>8, <3>2, <6>2 DEF Fits
        <5>2. CASE ~T.changes
          <6>1. R = Q
            BY <4>1, <5>2 DEF WithIndex
          <6> QED
            BY <1>3, <1>4, <1>8, <3>2, <4>2, <5>2, <6>1 DEF Fits
        <5>3. CASE o.mode \in {"read", "memory"}
          <6>1. R = Q
            BY <4>1, <5>3 DEF WithIndex
          <6> QED
            BY <1>3, <1>4, <3>2, <4>2, <5>3, <6>1 DEF FitsFree
        <5> QED
          BY <5>1, <5>2, <5>3
      <4>4. archive' = Saved(R)
        BY <2>1, <3>2, <4>1
      <4> QED
        BY <1>1, <1>6, <4>3, <4>4, PagesSaved
    <3> QED
      BY <3>1, <3>2
  <2>3. /\ \A q \in Pages : pages'[q] = IF q = o.pages THEN NULL ELSE pages[q]
        /\ \A j \in Indexes : j # o.index => indexes'[j] = indexes[j]
    BY <1>1, <2>1, MountingAssumption DEF At, TypeOK
  <2>4. \A x : InUse(x)' = InUse(x)
    BY <2>1 DEF InUse
  <2>5. \A q \in Pages : pages'[q] # NULL /\ ~InUse(q)' /\ q \notin left' => FitsFree(pages'[q])
    BY <2>1, <2>3, <2>4 DEF HashInv
  <2>6. ASSUME NEW n \in Mounts, mounts[n] # NULL, mounts[n].pages # NULL
        PROVE  FitsMount(mounts'[n], pages'[mounts'[n].pages], indexes'[mounts'[n].index])
    <3>1. mounts[n].pages \in Pages /\ mounts[n].index \in Indexes
      BY <2>6, MountHas
    <3>2. mounts[n].pages # o.pages /\ mounts[n].index # o.index
      BY <1>5, <2>6, <3>1, MountingAssumption DEF InUse
    <3> QED
      BY <2>1, <2>3, <2>6, <3>1, <3>2 DEF HashInv
  <2> QED
    BY <2>1, <2>2, <2>5, <2>6 DEF HashInv
<1>9. ASSUME ok, Begun(m, o, I, Q, T), P = NULL => o.mode = "memory" PROVE HashInv'
  <2>1. PICK p \in Pages \cup {NULL}, i \in Indexes, M \in MountObjects :
          /\ p = NULL <=> Q = NULL
          /\ p # NULL => (IF o.pages # NULL THEN p = o.pages ELSE pages[p] = NULL)
          /\ IF o.index # NULL THEN i = o.index ELSE indexes[i] = NULL
          /\ M.pages = p /\ M.index = i /\ ~M.pending
          /\ M.readonly = (o.mode = "read") /\ M.toMemory = (o.mode = "memory")
          /\ pages' = At(pages, p, Q) /\ indexes' = At(indexes, i, T)
          /\ mounts' = [mounts EXCEPT ![m] = M]
          /\ UNCHANGED <<archive, left>>
    BY <1>9 DEF Begun
  <2>2. /\ p # NULL => ~InUse(p)
        /\ ~InUse(i)
    <3>1. ASSUME NEW q \in Pages, pages[q] = NULL PROVE ~InUse(q)
      BY <3>1, MountHas, MountingAssumption, NamesAssumption DEF InUse
    <3>2. ASSUME NEW j \in Indexes, indexes[j] = NULL PROVE ~InUse(j)
      BY <3>2, MountHas, MountingAssumption, NamesAssumption DEF InUse
    <3> QED
      BY <1>5, <2>1, <3>1, <3>2
  <2>3. /\ \A q \in Pages : pages'[q] = IF q = p THEN Q ELSE pages[q]
        /\ \A j \in Indexes : indexes'[j] = IF j = i THEN T ELSE indexes[j]
    BY <1>1, <2>1, MountingAssumption DEF At, TypeOK
  <2>4. M # NULL /\ \A n \in Mounts : mounts'[n] = IF n = m THEN M ELSE mounts[n]
    BY <1>1, <2>1, NamesAssumption DEF TypeOK
  <2>5. ASSUME NEW q \in Pages, pages'[q] # NULL, ~InUse(q)', q \notin left'
        PROVE  FitsFree(pages'[q])
    <3>1. q # p
      BY <2>1, <2>4, <2>5 DEF InUse
    <3>2. ~InUse(q)
      BY <1>3, <2>4, <2>5 DEF InUse
    <3> QED
      BY <2>1, <2>3, <2>5, <3>1, <3>2 DEF HashInv
  <2>6. ASSUME p # NULL PROVE FitsMount(M, Q, T)
    <3>1. /\ AllWith(Q.stored, Q.hash) /\ Named(T.meta) = Q.hash
          /\ ~T.changes => Named(Q.index) = Q.hash
      BY <1>3, <1>4, <1>9, <2>1, <2>6
    <3>2. ~Keeps(M) => Fits(Q)
      <4>1. ~Keeps(M) => o.mode # "write"
        BY <2>1, <2>6 DEF Keeps
      <4> QED
        BY <1>3, <1>4, <2>1, <2>6, <4>1 DEF FitsFree
    <3> QED
      BY <3>1, <3>2 DEF FitsMount
  <2>7. ASSUME NEW n \in Mounts, mounts'[n] # NULL, mounts'[n].pages # NULL
        PROVE  FitsMount(mounts'[n], pages'[mounts'[n].pages], indexes'[mounts'[n].index])
    <3>1. CASE n = m
      BY <2>1, <2>3, <2>4, <2>6, <2>7, <3>1
    <3>2. CASE n # m
      <4>1. mounts'[n] = mounts[n]
        BY <2>4, <3>2
      <4>2. mounts[n].pages \in Pages /\ mounts[n].index \in Indexes
        BY <2>7, <4>1, MountHas
      <4>3. mounts[n].pages # p /\ mounts[n].index # i
        BY <2>2, <2>7, <4>1 DEF InUse
      <4> QED
        BY <2>3, <2>7, <4>1, <4>2, <4>3 DEF HashInv
    <3> QED
      BY <3>1, <3>2
  <2> QED
    BY <1>6, <2>1, <2>5, <2>7 DEF HashInv
<1>10. CASE UNCHANGED vars
  BY <1>10 DEF vars, HashInv, InUse
<1>11. \/ UNCHANGED vars
       \/ /\ P = NULL => o.mode = "memory"
          /\ \/ Failed(o, P, I)
             \/ (~ok \/ o.fails = "told") /\ Failed(o, Q, J)
             \/ ok /\ Registered(o, Q, T)
             \/ ok /\ Begun(m, o, I, Q, T)
  BY <1>2 DEF Tried
<1>12. ASSUME Failed(o, P, I) PROVE HashInv'
  BY <1>3, <1>4, <1>7, <1>12
<1>13. ASSUME ~ok \/ o.fails = "told", Failed(o, Q, J) PROVE HashInv'
  BY <1>3, <1>4, <1>7, <1>13
<1> QED
  BY <1>8, <1>9, <1>10, <1>11, <1>12, <1>13

\* The hash fits when the program starts, and after every step.
LEMMA HashInit == Init => HashInv
BY DEF Init, HashInv

LEMMA HashStep ==
  ASSUME ObjectsInv, HashInv, HashCare, [Next]_vars
  PROVE  HashInv'
<1>1. CASE UNCHANGED vars
  BY <1>1 DEF vars, HashInv, InUse
<1>2. CASE Next
  BY <1>2, HashOfCommands, HashOfIndexes, HashOfHandle, HashOfFile, HashOfUnmount, HashOfMount
     DEF Next, IndexTold, HashCare
<1> QED
  BY <1>1, <1>2

\* In every mount, however the archive came to be and whatever mounts, commands
\* and failures there were, each page was stored with the hash it is read with;
\* unless a user does what HashCare lists (Cookfs_Mount, Cookfs_VfsFini,
\* Cookfs_PagesInit and Cookfs_PagesClose).
THEOREM PagesKeepTheirHash ==
  ASSUME HashCare
  PROVE  Spec => []PagesVerify
<1>1. Init => ObjectsInv /\ HashInv
  BY ObjectsInit, HashInit
<1>2. ObjectsInv /\ HashInv /\ [Next]_vars => ObjectsInv' /\ HashInv'
  BY ObjectsStep, HashStep DEF HashCare
<1>3. ObjectsInv /\ HashInv => PagesVerify
  BY DEF HashInv, FitsMount, AllWith, PagesVerify, IsMounted
<1> QED
  BY <1>1, <1>2, <1>3, PTL DEF Spec

-----------------------------------------------------------------------------
(* Mounting implements Cabinet: the settings and the pages of an archive   *)
(* outlive its mounts.                                                     *)

\* The setting in the metadata that pages have
SizeOf(index) == IF index = NULL THEN NULL ELSE index.size

\* What an archive of pages P has
Content(P) == [pages |-> Len(P.stored), size |-> SizeOf(P.index)]

\* Pages P opened of archive a: what is not changed is as it was.
OpenOf(P, a) ==
  /\ Content(P).size = Known(a).size /\ Content(P).pages >= Known(a).pages
  /\ ~P.changed \/ P.readonly => Content(P) = Known(a)

\* Pages P and index I of mount M: what changes can be saved, and an index that
\* did not change is the one that the pages have.
Keeping(M, P, I) ==
  Keeps(M) => ~P.readonly /\ (~I.changes => I.meta.size = SizeOf(P.index))

OpenInv ==
  /\ \A p, q \in Pages : pages[p] # NULL /\ pages[q] # NULL => p = q
  /\ \A p \in Pages : pages[p] # NULL => OpenOf(pages[p], archive)
  /\ \A m \in Mounts : mounts[m] # NULL =>
       Keeping(mounts[m], pages[mounts[m].pages], indexes[mounts[m].index])

\* How Cabinet sees mount M with pages P and index I
Look(M, P, I) ==
  [asked |-> M.asked, uses |-> M.size, size |-> I.meta.size,
   pages |-> IF M.pages = NULL THEN 0 ELSE Len(P.stored), keeps |-> Keeps(M)]

SeenIs ==
  \A m \in Mounts :
    Seen(m) = IF mounts[m] = NULL THEN NULL
              ELSE Look(mounts[m], pages[mounts[m].pages], indexes[mounts[m].index])

SeenSame == \A m \in Mounts : Seen(m)' = Seen(m)

CabinetStep == [CabinetOfArchive!Next]_(CabinetOfArchive!absVars)

\* The careless steps that the settings do not survive
CabinetCare == {"shares", "mismatch", "exports"} \cap Careless = {}

-----------------------------------------------------------------------------
(* What Cabinet sees.                                                      *)

LEMMA SeenLooks == ObjectsInv => SeenIs
BY MountHas DEF SeenIs, Seen, Look, IsMounted

\* What it sees is no NULL.
LEMMA LookIsView ==
  ASSUME ObjectsInv, NEW m \in Mounts, mounts[m] # NULL
  PROVE  /\ Look(mounts[m], pages[mounts[m].pages], indexes[mounts[m].index]) \in MountViews
         /\ Look(mounts[m], pages[mounts[m].pages], indexes[mounts[m].index]) # NULL
         /\ Seen(m) = Look(mounts[m], pages[mounts[m].pages], indexes[mounts[m].index])
<1>1. /\ mounts[m] \in MountObjects
      /\ indexes[mounts[m].index] \in IndexObjects
      /\ mounts[m].pages # NULL => pages[mounts[m].pages] \in PageObjects
  BY MountHas
<1>2. /\ indexes[mounts[m].index].meta.size \in Values \cup {Bad, NULL}
      /\ mounts[m].pages # NULL => Len(pages[mounts[m].pages].stored) \in Nat
      /\ Keeps(mounts[m]) \in BOOLEAN
      /\ mounts[m].asked \in Values \cup {NULL} /\ mounts[m].size \in Values
  BY <1>1 DEF IndexObjects, Metadata, PageObjects, MountObjects, Keeps
<1>3. Look(mounts[m], pages[mounts[m].pages], indexes[mounts[m].index]) \in MountViews
  BY <1>2 DEF Look, MountViews
<1>4. SeenIs
  BY SeenLooks
<1> QED
  BY <1>3, <1>4, NamesAssumption DEF SeenIs

\* The fields of what it sees
LEMMA SeenFields ==
  ASSUME ObjectsInv, NEW m \in Mounts, mounts[m] # NULL
  PROVE  /\ Seen(m) \in MountViews /\ Seen(m) # NULL
         /\ Seen(m).asked = mounts[m].asked /\ Seen(m).uses = mounts[m].size
         /\ Seen(m).size = indexes[mounts[m].index].meta.size
         /\ Seen(m).keeps = Keeps(mounts[m])
         /\ mounts[m].pages = NULL => Seen(m).pages = 0
         /\ \A p \in Pages : mounts[m].pages = p => Seen(m).pages = Len(pages[p].stored)
<1>1. /\ Look(mounts[m], pages[mounts[m].pages], indexes[mounts[m].index]) \in MountViews
      /\ Look(mounts[m], pages[mounts[m].pages], indexes[mounts[m].index]) # NULL
      /\ Seen(m) = Look(mounts[m], pages[mounts[m].pages], indexes[mounts[m].index])
  BY LookIsView
<1>2. NULL \notin Pages
  BY MountingAssumption
<1> QED
  BY <1>1, <1>2 DEF Look

\* Numbers of pages are numbers, settings are settings.
LEMMA ContentType ==
  /\ \A P \in PageObjects : /\ Content(P).pages = Len(P.stored) /\ Len(P.stored) \in Nat
                            /\ Content(P).size = SizeOf(P.index)
                            /\ Content(P).size \in Values \cup {Bad, NULL}
  /\ \A a \in Archives \cup {NULL} :
       /\ Known(a) = [pages |-> Known(a).pages, size |-> Known(a).size]
       /\ Known(a).pages \in Nat /\ Known(a).size \in Values \cup {Bad, NULL}
BY DEF Content, SizeOf, PageObjects, Metadata, Known, Archives

\* The archive after pages were closed has what they have.
LEMMA SavedContent ==
  ASSUME NEW P \in PageObjects, OpenOf(P, archive)
  PROVE  Known(Saved(P)) = Content(P)
<1>1. CASE P.changed /\ ~P.readonly
  <2>1. Saved(P) = [stored |-> P.stored, index |-> P.index]
    BY <1>1 DEF Saved
  <2>2. P.stored \in Seq(Hashes) /\ P.index \in Metadata \cup {NULL}
    BY DEF PageObjects
  <2>3. [stored |-> P.stored, index |-> P.index] \in Archives
    BY <2>2 DEF Archives
  <2>4. Saved(P) # NULL
    BY <2>1, <2>3, NamesAssumption
  <2> QED
    BY <2>1, <2>4 DEF Known, Content, SizeOf
<1>2. CASE ~(P.changed /\ ~P.readonly)
  BY <1>2 DEF Saved, OpenOf, PageObjects
<1> QED
  BY <1>1, <1>2

\* Files are opened as they are.
LEMMA OpenedContent ==
  ASSUME TypeOK, NEW readonly \in BOOLEAN, CanOpen(readonly)
  PROVE  OpenOf(OpenedPages(readonly), archive)
<1> DEFINE P == OpenedPages(readonly)
<1>1. /\ P.stored = IF archive = NULL THEN <<>> ELSE archive.stored
      /\ P.index = IF archive = NULL THEN NULL ELSE archive.index
  BY PagesOpened
<1>2. Content(P) = Known(archive)
  BY <1>1 DEF Content, SizeOf, Known
<1> HIDE DEF P
<1>3. Known(archive).pages \in Nat
  BY ContentType DEF TypeOK
<1> QED
  BY <1>2, <1>3 DEF OpenOf, P

\* What depends on the number of pages and the index alone
LEMMA SameContent ==
  ASSUME NEW P \in PageObjects, NEW Q \in PageObjects,
         Q.stored = P.stored, Q.index = P.index,
         Q.changed = P.changed, Q.readonly = P.readonly
  PROVE  /\ Content(Q) = Content(P)
         /\ \A a : OpenOf(P, a) <=> OpenOf(Q, a)
         /\ \A M, I : Keeping(M, P, I) <=> Keeping(M, Q, I)
         /\ \A M, I : Look(M, P, I) = Look(M, Q, I)
BY DEF Content, OpenOf, Keeping, Look

\* Steps that no mount is seen to take: the archive stays, or is saved by a mount
\* that fails or by the user's own pages.
LEMMA OutsideStep ==
  ASSUME TypeOK, SeenSame, archive' \in Archives \cup {NULL},
         Known(archive').pages \in {Known(archive).pages, 1} \cup Hand.pages,
         Known(archive').pages >= Known(archive).pages,
         \/ Known(archive').size \in {Known(archive).size, Bad} \cup Hand.sizes \cup Values
  PROVE  CabinetStep
<1> DEFINE A == Known(archive)
           B == Known(archive')
<1>1. B = [pages |-> B.pages, size |-> B.size]
  BY ContentType
<1>2. [m \in Mounts |-> Seen(m)]' = [m \in Mounts |-> Seen(m)]
  BY DEF SeenSame
<1>3. B.size \in Values =>
        \E asked \in Values, had \in {A.size, NULL} \cup Hand.sizes :
          B.size = CabinetOfArchive!Chosen(asked, had)
  BY MountingAssumption DEF CabinetOfArchive!Chosen
<1>4. CabinetOfArchive!FailedMount
  BY <1>1, <1>2, <1>3 DEF CabinetOfArchive!FailedMount, CabinetOfArchive!PageCounts,
     CabinetOfArchive!SettingsFound
<1> QED
  BY <1>4 DEF CabinetStep, CabinetOfArchive!Next

\* The archive stays, and so does what is seen of the mounts.
LEMMA QuietStep ==
  ASSUME TypeOK, SeenSame, UNCHANGED archive
  PROVE  CabinetStep
<1>1. Known(archive).pages \in Nat /\ Known(archive).size \in Values \cup {Bad, NULL}
      /\ archive \in Archives \cup {NULL}
  BY ContentType DEF TypeOK
<1> QED
  BY <1>1, OutsideStep

-----------------------------------------------------------------------------
(* The commands.                                                           *)

\* Pages of a mount get one more.
LEMMA PageSeen ==
  ASSUME ObjectsInv, ObjectsInv', NEW m \in Mounts, mounts[m] # NULL, UNCHANGED archive,
         Seen(m)' = [Seen(m) EXCEPT !.pages = @ + 1],
         \A n \in Mounts : n # m => Seen(n)' = Seen(n)
  PROVE  CabinetStep
<1> DEFINE f == [n \in Mounts |-> Seen(n)]
<1>1. Seen(m) # NULL
  BY LookIsView
<1>2. f' = [f EXCEPT ![m].pages = @ + 1]
  OBVIOUS
<1>3. CabinetOfArchive!AddPage(m)
  BY <1>1, <1>2 DEF CabinetOfArchive!AddPage
<1> QED
  BY <1>3 DEF CabinetStep, CabinetOfArchive!Next

\* One pages object that stays open changes.
LEMMA OpenPages ==
  ASSUME ObjectsInv, OpenInv, NEW p \in Pages, pages[p] # NULL, NEW Q \in PageObjects,
         pages' = [pages EXCEPT ![p] = Q], UNCHANGED <<archive, indexes, mounts, left>>,
         OpenOf(Q, archive), Q.index = pages[p].index, Q.readonly = pages[p].readonly
  PROVE  OpenInv'
<1>1. \A q \in Pages : pages'[q] = IF q = p THEN Q ELSE pages[q]
  BY DEF ObjectsInv, TypeOK
<1>2. ASSUME NEW m \in Mounts, mounts'[m] # NULL
      PROVE  Keeping(mounts'[m], pages'[mounts'[m].pages], indexes'[mounts'[m].index])
  <2>1. Keeping(mounts[m], pages[mounts[m].pages], indexes[mounts[m].index])
    BY <1>2 DEF OpenInv
  <2>2. mounts[m].pages \in Pages \cup {NULL}
    BY <1>2, MountHas
  <2>3. Keeps(mounts[m]) => mounts[m].pages # NULL
    BY DEF Keeps
  <2> QED
    BY <1>1, <2>1, <2>2, <2>3 DEF Keeping
<1>3. \A q \in Pages : pages'[q] # NULL => OpenOf(pages'[q], archive')
  BY <1>1 DEF OpenInv
<1>4. \A q, r \in Pages : pages'[q] # NULL /\ pages'[r] # NULL => q = r
  BY <1>1 DEF OpenInv
<1> QED
  BY <1>2, <1>3, <1>4 DEF OpenInv

\* The mounts as they are seen when one pages object changes
LEMMA PagesSeen ==
  ASSUME ObjectsInv, ObjectsInv', NEW p \in Pages, pages[p] # NULL,
         NEW Q \in PageObjects \cup {NULL},
         pages' = [pages EXCEPT ![p] = Q], UNCHANGED <<indexes, mounts>>
  PROVE  /\ \A m \in Mounts :
              mounts[m] = NULL \/ mounts[m].pages # p => Seen(m)' = Seen(m)
         /\ \A m \in Mounts : mounts[m] # NULL /\ mounts[m].pages = p =>
              Seen(m)' = [Seen(m) EXCEPT !.pages = Len(Q.stored)]
<1>1. \A q \in Pages : pages'[q] = IF q = p THEN Q ELSE pages[q]
  BY DEF ObjectsInv, TypeOK
<1>2. SeenIs /\ SeenIs'
  <2>1. SeenIs
    BY SeenLooks
  <2>2. SeenIs'
    BY SeenLooks, PTL
  <2> QED
    BY <2>1, <2>2
<1>3. ASSUME NEW m \in Mounts, mounts[m] = NULL PROVE Seen(m)' = Seen(m)
  BY <1>2, <1>3 DEF SeenIs
<1>4. ASSUME NEW m \in Mounts, mounts[m] # NULL
      PROVE  /\ mounts[m].pages # p => Seen(m)' = Seen(m)
             /\ mounts[m].pages = p => Seen(m)' = [Seen(m) EXCEPT !.pages = Len(Q.stored)]
  <2>1. /\ Seen(m) = Look(mounts[m], pages[mounts[m].pages], indexes[mounts[m].index])
        /\ Seen(m)' = Look(mounts[m], pages'[mounts[m].pages], indexes[mounts[m].index])
    BY <1>2, <1>4 DEF SeenIs
  <2>2. mounts[m].pages \in Pages \cup {NULL}
    BY <1>4, MountHas
  <2>3. p # NULL
    BY MountingAssumption
  <2> QED
    BY <1>1, <2>1, <2>2, <2>3 DEF Look
<1> QED
  BY <1>3, <1>4

\* Adding a page, as the commands and the mounts do
LEMMA PageOpen ==
  ASSUME NEW P \in PageObjects, NEW a \in Archives \cup {NULL}, OpenOf(P, a), ~P.readonly
  PROVE  OpenOf(WithPage(P), a) /\ Len(WithPage(P).stored) = Len(P.stored) + 1
<1> DEFINE Q == WithPage(P)
<1>1. /\ Q.stored = Append(P.stored, P.hash) /\ Q.changed /\ Q.index = P.index
      /\ Q.readonly = P.readonly
  BY PageAdded
<1>2. P.stored \in Seq(Hashes) /\ P.hash \in Hashes
  BY DEF PageObjects
<1> HIDE DEF Q
<1>3. Len(Q.stored) = Len(P.stored) + 1 /\ Len(P.stored) \in Nat
  BY <1>1, <1>2
<1>4. Known(a).pages \in Nat
  BY ContentType
<1>5. OpenOf(Q, a)
  BY <1>1, <1>3, <1>4 DEF OpenOf, Content
<1> QED
  BY <1>3, <1>5 DEF Q

\* The commands of pages objects
LEMMA CabinetOfPages ==
  ASSUME ObjectsInv, ObjectsInv', OpenInv, NEW p \in Pages,
         RegisterPages(p) \/ PagesCmdAdd(p) \/ CookfsPagesCmdHash(p) \/ PagesDelete(p)
  PROVE  OpenInv' /\ CabinetStep
<1>1. TypeOK /\ (pages[p] # NULL => pages[p] \in PageObjects /\ OpenOf(pages[p], archive))
  BY DEF ObjectsInv, TypeOK, OpenInv
<1>2. CASE RegisterPages(p)
  <2>1. PICK readonly \in BOOLEAN :
          /\ CanOpen(readonly) /\ UNCHANGED <<archive, indexes, mounts, left>>
          /\ pages' = [pages EXCEPT ![p] = [OpenedPages(readonly) EXCEPT !.command = TRUE]]
    BY <1>2 DEF RegisterPages
  <2> DEFINE P == OpenedPages(readonly)
             Q == [P EXCEPT !.command = TRUE]
  <2>2. P \in PageObjects /\ OpenOf(P, archive)
    BY <1>1, <2>1, OpenedContent, PagesOpened
  <2>3. /\ Q \in PageObjects /\ Q.stored = P.stored /\ Q.index = P.index
        /\ Q.changed = P.changed /\ Q.readonly = P.readonly
    BY <2>2 DEF PageObjects
  <2>4. pages' = [pages EXCEPT ![p] = Q]
    BY <2>1
  <2> HIDE DEF P, Q
  <2>5. OpenOf(Q, archive)
    BY <2>2, <2>3, SameContent
  <2>6. \A q \in Pages : pages[q] = NULL
    BY <2>1 DEF CanOpen, IsOpen
  <2>7. \A q \in Pages : pages'[q] = IF q = p THEN Q ELSE NULL
    BY <1>1, <2>4, <2>6 DEF TypeOK
  <2>8. \A m \in Mounts : mounts[m] # NULL => mounts[m].pages = NULL
    BY <2>6, MountHas DEF ObjectsInv, Whole
  <2>9. OpenInv'
    BY ZenonT(60), <2>1, <2>5, <2>7, <2>8 DEF OpenInv, Keeping, Keeps
  <2>10. SeenSame
    <3>1. SeenIs
      BY SeenLooks
    <3>2. SeenIs'
      BY SeenLooks, PTL
    <3> QED
      BY <2>1, <2>8, <3>1, <3>2 DEF SeenIs, SeenSame, Look
  <2> QED
    BY <1>1, <2>1, <2>9, <2>10, QuietStep
<1>3. CASE PagesCmdAdd(p)
  <2>1. /\ pages[p] # NULL /\ ~pages[p].readonly
        /\ pages' = [pages EXCEPT ![p] = WithPage(pages[p])]
        /\ UNCHANGED <<archive, indexes, mounts, left>>
    BY <1>3 DEF PagesCmdAdd
  <2> DEFINE Q == WithPage(pages[p])
  <2>2. /\ Q \in PageObjects /\ Q.index = pages[p].index
        /\ Q.readonly = pages[p].readonly
    BY <1>1, <2>1, PageAdded
  <2>3. OpenOf(Q, archive) /\ Len(Q.stored) = Len(pages[p].stored) + 1
    BY <1>1, <2>1, PageOpen DEF TypeOK
  <2>4. pages' = [pages EXCEPT ![p] = Q]
    BY <2>1
  <2> HIDE DEF Q
  <2>5. OpenInv'
    BY <2>1, <2>2, <2>3, <2>4, OpenPages
  <2>6. /\ \A m \in Mounts :
             mounts[m] = NULL \/ mounts[m].pages # p => Seen(m)' = Seen(m)
        /\ \A m \in Mounts : mounts[m] # NULL /\ mounts[m].pages = p =>
             Seen(m)' = [Seen(m) EXCEPT !.pages = Len(Q.stored)]
    BY <2>1, <2>2, <2>4, PagesSeen
  <2>7. CASE \E m \in Mounts : mounts[m] # NULL /\ mounts[m].pages = p
    <3>1. PICK m \in Mounts : mounts[m] # NULL /\ mounts[m].pages = p
      BY <2>7
    <3>2. \A n \in Mounts : n # m => Seen(n)' = Seen(n)
      BY <2>1, <2>6, <3>1, NotHard
    <3>3. Seen(m).pages = Len(pages[p].stored)
      BY <3>1, SeenFields
    <3>4. Seen(m)' = [Seen(m) EXCEPT !.pages = @ + 1]
      BY <2>3, <2>6, <3>1, <3>3
    <3> QED
      BY <2>1, <2>5, <3>1, <3>2, <3>4, PageSeen
  <2>8. CASE ~\E m \in Mounts : mounts[m] # NULL /\ mounts[m].pages = p
    BY <1>1, <2>1, <2>5, <2>6, <2>8, QuietStep DEF SeenSame
  <2> QED
    BY <2>7, <2>8
<1>4. CASE CookfsPagesCmdHash(p) \/ (PagesDelete(p) /\ pages[p].hard)
  <2>1. PICK Q \in PageObjects :
          /\ pages' = [pages EXCEPT ![p] = Q] /\ Q.stored = pages[p].stored
          /\ Q.index = pages[p].index /\ Q.changed = pages[p].changed
          /\ Q.readonly = pages[p].readonly
    <3>1. ASSUME NEW h \in Hashes, pages[p] # NULL
          PROVE  LET Q == [pages[p] EXCEPT !.hash = h]
                 IN /\ Q \in PageObjects /\ Q.stored = pages[p].stored
                    /\ Q.index = pages[p].index /\ Q.changed = pages[p].changed
                    /\ Q.readonly = pages[p].readonly
      BY <1>1, <3>1 DEF PageObjects
    <3>2. ASSUME pages[p] # NULL
          PROVE  LET Q == [pages[p] EXCEPT !.command = FALSE]
                 IN /\ Q \in PageObjects /\ Q.stored = pages[p].stored
                    /\ Q.index = pages[p].index /\ Q.changed = pages[p].changed
                    /\ Q.readonly = pages[p].readonly
      BY <1>1, <3>2 DEF PageObjects
    <3>3. CASE CookfsPagesCmdHash(p)
      BY <3>1, <3>3 DEF CookfsPagesCmdHash
    <3>4. CASE PagesDelete(p) /\ pages[p].hard
      BY <3>2, <3>4 DEF PagesDelete
    <3> QED
      BY <1>4, <3>3, <3>4
  <2>2. pages[p] # NULL /\ UNCHANGED <<archive, indexes, mounts, left>>
    BY <1>4 DEF CookfsPagesCmdHash, PagesDelete
  <2>3. OpenOf(Q, archive)
    BY <1>1, <2>1, <2>2, SameContent
  <2>4. OpenInv'
    BY <2>1, <2>2, <2>3, OpenPages
  <2>5. /\ \A m \in Mounts :
             mounts[m] = NULL \/ mounts[m].pages # p => Seen(m)' = Seen(m)
        /\ \A m \in Mounts : mounts[m] # NULL /\ mounts[m].pages = p =>
             Seen(m)' = [Seen(m) EXCEPT !.pages = Len(Q.stored)]
    BY <2>1, <2>2, PagesSeen
  <2>6. ASSUME NEW m \in Mounts, mounts[m] # NULL, mounts[m].pages = p
        PROVE  Seen(m)' = Seen(m)
    <3>1. /\ Seen(m) \in MountViews /\ Seen(m).pages = Len(Q.stored)
      BY <2>1, <2>6, SeenFields
    <3> QED
      BY <2>5, <2>6, <3>1 DEF MountViews
  <2> QED
    BY <1>1, <2>2, <2>4, <2>5, <2>6, QuietStep DEF SeenSame
<1>5. CASE PagesDelete(p) /\ ~pages[p].hard
  <2>1. /\ pages[p] # NULL /\ pages[p].command
        /\ pages' = [pages EXCEPT ![p] = NULL]
        /\ archive' = Saved(pages[p]) /\ UNCHANGED <<indexes, mounts, left>>
    BY <1>5 DEF PagesDelete
  <2>2. ~InUse(p)
    BY <1>5, <2>1, NotHard
  <2>3. \A q \in Pages : pages'[q] = NULL
    BY <1>1, <2>1 DEF OpenInv, TypeOK
  <2>4. \A m \in Mounts : mounts[m] # NULL => mounts[m].pages = NULL
    BY <2>1, <2>2, MountHas DEF ObjectsInv, Whole, OpenInv, InUse
  <2>5. OpenInv'
    BY <2>1, <2>3, <2>4 DEF OpenInv, Keeping, Keeps
  <2>6. SeenSame
    <3>1. \A m \in Mounts :
            mounts[m] = NULL \/ mounts[m].pages # p => Seen(m)' = Seen(m)
      BY <2>1, PagesSeen
    <3> QED
      BY <2>4, <3>1, MountingAssumption DEF SeenSame
  <2>7. Known(archive') = Content(pages[p])
    BY <1>1, <2>1, SavedContent
  <2>8. Len(pages[p].stored) \in Hand.pages
    BY <2>1 DEF Hand
  <2>9. /\ Known(archive').pages \in Hand.pages
        /\ Known(archive').pages >= Known(archive).pages
        /\ Known(archive').size = Known(archive).size
    BY <1>1, <2>1, <2>7, <2>8, ContentType DEF OpenOf
  <2>10. archive' \in Archives \cup {NULL}
    BY DEF ObjectsInv, TypeOK
  <2> QED
    BY <1>1, <2>5, <2>6, <2>9, <2>10, OutsideStep
<1> QED
  BY <1>2, <1>3, <1>4, <1>5

\* One index changes, and no mount that has it sees it.
LEMMA IndexQuiet ==
  ASSUME ObjectsInv, ObjectsInv', OpenInv, NEW i \in Indexes, NEW J,
         indexes' = [indexes EXCEPT ![i] = J], UNCHANGED <<archive, pages, mounts, left>>,
         \A m \in Mounts : mounts[m] # NULL /\ mounts[m].index = i =>
           J.meta.size = indexes[i].meta.size /\ (indexes[i].changes => J.changes)
  PROVE  OpenInv' /\ CabinetStep
<1>1. \A j \in Indexes : indexes'[j] = IF j = i THEN J ELSE indexes[j]
  BY DEF ObjectsInv, TypeOK
<1>2. SeenIs /\ SeenIs'
  <2>1. SeenIs
    BY SeenLooks
  <2>2. SeenIs'
    BY SeenLooks, PTL
  <2> QED
    BY <2>1, <2>2
<1>3. ASSUME NEW m \in Mounts, mounts[m] # NULL
      PROVE  /\ Keeping(mounts'[m], pages'[mounts'[m].pages], indexes'[mounts'[m].index])
             /\ Look(mounts[m], pages[mounts[m].pages], indexes[mounts[m].index])
                  = Look(mounts'[m], pages'[mounts'[m].pages], indexes'[mounts'[m].index])
  <2>1. mounts[m].index \in Indexes
    BY <1>3, MountHas
  <2>2. Keeping(mounts[m], pages[mounts[m].pages], indexes[mounts[m].index])
    BY <1>3 DEF OpenInv
  <2> QED
    BY <1>1, <1>3, <2>1, <2>2 DEF Keeping, Look
<1>4. OpenInv'
  BY <1>3 DEF OpenInv
<1>5. SeenSame
  BY <1>2, <1>3 DEF SeenSame, SeenIs
<1> QED
  BY <1>4, <1>5, QuietStep DEF ObjectsInv

\* One index changes: the mount that has it, if one does, is told so.
LEMMA IndexSeen ==
  ASSUME ObjectsInv, ObjectsInv', OpenInv, NEW i \in Indexes, NEW J \in IndexObjects,
         indexes' = [indexes EXCEPT ![i] = J], UNCHANGED <<archive, pages, mounts, left>>,
         \A m \in Mounts : mounts[m] # NULL /\ mounts[m].index = i =>
           Keeping(mounts[m], pages[mounts[m].pages], J)
  PROVE  OpenInv' /\ CabinetStep
<1>1. CASE \A m \in Mounts : mounts[m] # NULL => mounts[m].index # i
  <2>1. \A m \in Mounts : mounts[m] # NULL /\ mounts[m].index = i =>
          J.meta.size = indexes[i].meta.size /\ (indexes[i].changes => J.changes)
    BY <1>1
  <2> QED
    BY <2>1, IndexQuiet
<1>2. ASSUME NEW m \in Mounts, mounts[m] # NULL, mounts[m].index = i
      PROVE  OpenInv' /\ CabinetStep
  <2> DEFINE f == [n \in Mounts |-> Seen(n)]
             P == pages[mounts[m].pages]
  <2>1. \A j \in Indexes : indexes'[j] = IF j = i THEN J ELSE indexes[j]
    BY DEF ObjectsInv, TypeOK
  <2>2. SeenIs /\ SeenIs'
    <3>1. SeenIs
      BY SeenLooks
    <3>2. SeenIs'
      BY SeenLooks, PTL
    <3> QED
      BY <3>1, <3>2
  <2>3. ASSUME NEW n \in Mounts, mounts[n] # NULL, n # m
        PROVE  mounts[n].index \in Indexes \ {i}
    BY <1>2, <2>3, MountHas DEF ObjectsInv, Apart
  <2>4. OpenInv'
    <3>1. ASSUME NEW n \in Mounts, mounts[n] # NULL
          PROVE  Keeping(mounts[n], pages[mounts[n].pages], indexes'[mounts[n].index])
      <4>1. CASE n = m
        BY <1>2, <2>1, <4>1
      <4>2. CASE n # m
        BY <2>1, <2>3, <3>1, <4>2 DEF OpenInv
      <4> QED
        BY <4>1, <4>2
    <3> QED
      BY <3>1 DEF OpenInv
  <2>5. \A n \in Mounts : n # m => Seen(n)' = Seen(n)
    BY <2>1, <2>2, <2>3 DEF SeenIs
  <2>6. Seen(m)' = [Seen(m) EXCEPT !.size = J.meta.size]
    <3>1. Seen(m) = Look(mounts[m], P, indexes[i]) /\ Seen(m)' = Look(mounts[m], P, J)
      BY <1>2, <2>1, <2>2 DEF SeenIs
    <3> QED
      BY <3>1 DEF Look
  <2>7. f' = [f EXCEPT ![m].size = J.meta.size]
    BY <2>5, <2>6
  <2>8. Seen(m) # NULL /\ J.meta.size \in Values \cup {Bad, NULL}
    BY <1>2, SeenFields DEF IndexObjects, Metadata
  <2>9. CabinetOfArchive!Tell(m)
    BY <2>7, <2>8 DEF CabinetOfArchive!Tell, CabinetOfArchive!Settings
  <2> QED
    BY <2>4, <2>9 DEF CabinetStep, CabinetOfArchive!Next
<1> QED
  BY <1>1, <1>2

\* The flags of a mount change.
LEMMA MountSeen ==
  ASSUME ObjectsInv, ObjectsInv', OpenInv, NEW m \in Mounts, mounts[m] # NULL,
         NEW M \in MountObjects, mounts' = [mounts EXCEPT ![m] = M],
         M.pages = mounts[m].pages, M.index = mounts[m].index,
         M.asked = mounts[m].asked, M.size = mounts[m].size,
         Keeps(M) => Keeps(mounts[m]), UNCHANGED <<archive, pages, indexes, left>>
  PROVE  /\ OpenInv'
         /\ Seen(m)' = [Seen(m) EXCEPT !.keeps = Keeps(M)]
         /\ \A n \in Mounts : n # m => Seen(n)' = Seen(n)
<1>1. M # NULL /\ \A n \in Mounts : mounts'[n] = IF n = m THEN M ELSE mounts[n]
  BY NamesAssumption DEF ObjectsInv, TypeOK
<1>2. SeenIs /\ SeenIs'
  <2>1. SeenIs
    BY SeenLooks
  <2>2. SeenIs'
    BY SeenLooks, PTL
  <2> QED
    BY <2>1, <2>2
<1>3. OpenInv'
  <2>1. Keeping(mounts[m], pages[mounts[m].pages], indexes[mounts[m].index])
    BY DEF OpenInv
  <2>2. Keeping(M, pages[M.pages], indexes[M.index])
    BY <2>1 DEF Keeping
  <2> QED
    BY <1>1, <2>2 DEF OpenInv
<1>4. /\ Seen(m) = Look(mounts[m], pages[M.pages], indexes[M.index])
      /\ Seen(m)' = Look(M, pages[M.pages], indexes[M.index])
  BY <1>1, <1>2 DEF SeenIs
<1>5. Seen(m)' = [Seen(m) EXCEPT !.keeps = Keeps(M)]
  BY <1>4 DEF Look
<1>6. \A n \in Mounts : n # m => Seen(n)' = Seen(n)
  BY <1>1, <1>2 DEF SeenIs
<1> QED
  BY <1>3, <1>5, <1>6

\* The commands of index objects
LEMMA CabinetOfIndexes ==
  ASSUME ObjectsInv, ObjectsInv', OpenInv, CabinetCare, NEW i \in Indexes,
         RegisterIndex(i) \/ IndexDelete(i) \/ IndexTold(i)
  PROVE  OpenInv' /\ CabinetStep
<1>1. CASE RegisterIndex(i) \/ (IndexDelete(i) /\ ~indexes[i].hard)
  <2>1. \A m \in Mounts : mounts[m] # NULL => mounts[m].index # i
    BY <1>1 DEF ObjectsInv, Whole, RegisterIndex
  <2>2. PICK J : indexes' = [indexes EXCEPT ![i] = J]
    BY <1>1 DEF RegisterIndex, IndexDelete
  <2>3. UNCHANGED <<archive, pages, mounts, left>>
    BY <1>1 DEF RegisterIndex, IndexDelete
  <2>4. \A m \in Mounts : mounts[m] # NULL /\ mounts[m].index = i =>
          J.meta.size = indexes[i].meta.size /\ (indexes[i].changes => J.changes)
    BY <2>1
  <2> QED
    BY <2>2, <2>3, <2>4, IndexQuiet
<1>2. CASE IndexDelete(i) /\ indexes[i].hard
  <2> DEFINE J == [indexes[i] EXCEPT !.command = FALSE]
  <2>1. /\ indexes[i] # NULL /\ indexes' = [indexes EXCEPT ![i] = J]
        /\ UNCHANGED <<archive, pages, mounts, left>>
    BY <1>2 DEF IndexDelete
  <2>2. J.meta = indexes[i].meta /\ J.changes = indexes[i].changes
    BY <2>1 DEF ObjectsInv, TypeOK, IndexObjects
  <2> HIDE DEF J
  <2> QED
    BY <2>1, <2>2, IndexQuiet
<1>3. CASE IndexTold(i)
  <2>1. PICK J \in IndexObjects :
          /\ indexes' = [indexes EXCEPT ![i] = J] /\ UNCHANGED <<archive, pages, mounts, left>>
          /\ J.changes \/ IsInArchive(i, J.meta)
    BY <1>3, ToldIs DEF CabinetCare
  <2>2. ASSUME NEW m \in Mounts, mounts[m] # NULL, mounts[m].index = i
        PROVE  Keeping(mounts[m], pages[mounts[m].pages], J)
    <3> DEFINE P == pages[mounts[m].pages]
    <3>1. Keeping(mounts[m], P, indexes[i])
      BY <2>2 DEF OpenInv
    <3>2. Keeps(mounts[m]) /\ ~J.changes => J.meta = NewIndex(P.index).meta
      BY <2>1, <2>2 DEF IsInArchive, KeptBy
    <3>3. NewIndex(P.index).meta.size = SizeOf(P.index)
      BY DEF NewIndex, NoMetadata, SizeOf
    <3> HIDE DEF P
    <3>4. Keeping(mounts[m], P, J)
      BY <3>1, <3>2, <3>3 DEF Keeping
    <3> QED
      BY <3>4 DEF P
  <2> QED
    BY <2>1, <2>2, IndexSeen
<1> QED
  BY <1>1, <1>2, <1>3

\* The handle of a mount
LEMMA CabinetOfHandle ==
  ASSUME ObjectsInv, ObjectsInv', OpenInv, NEW m \in Mounts,
         \/ GetPages(m) \/ GetIndex(m) \/ HandleDelete(m)
         \/ HandleSetMetadata(m) \/ HandleWritetomemory(m)
  PROVE  OpenInv' /\ CabinetStep
<1> DEFINE p == mounts[m].pages
           i == mounts[m].index
           f == [n \in Mounts |-> Seen(n)]
<1>1. mounts[m] # NULL /\ TypeOK
  BY DEF GetPages, GetIndex, HandleDelete, HandleSetMetadata, HandleWritetomemory,
         HasHandle, IsMounted, ObjectsInv
<1>2. /\ mounts[m] \in MountObjects
      /\ i \in Indexes /\ indexes[i] \in IndexObjects
      /\ p \in Pages \cup {NULL}
      /\ p # NULL => pages[p] \in PageObjects
  BY <1>1, MountHas
<1>3. Seen(m) \in MountViews /\ Seen(m) # NULL
  BY <1>1, SeenFields
<1>4. CASE GetPages(m)
  <2> DEFINE Q == [pages[p] EXCEPT !.command = TRUE]
  <2>1. p \in Pages /\ pages' = [pages EXCEPT ![p] = Q]
        /\ UNCHANGED <<archive, indexes, mounts, left>>
    BY <1>2, <1>4 DEF GetPages
  <2>2. p # NULL /\ pages[p] # NULL /\ pages[p] \in PageObjects
    BY <1>2, <2>1, MountingAssumption, NamesAssumption
  <2>3. /\ Q \in PageObjects /\ Q.stored = pages[p].stored /\ Q.index = pages[p].index
        /\ Q.changed = pages[p].changed /\ Q.readonly = pages[p].readonly
    BY <2>2 DEF PageObjects
  <2> HIDE DEF Q, p, i
  <2>4. OpenOf(Q, archive)
    BY <2>1, <2>2, <2>3, SameContent DEF OpenInv
  <2>5. OpenInv'
    BY <2>1, <2>2, <2>3, <2>4, OpenPages
  <2>6. /\ \A n \in Mounts :
             mounts[n] = NULL \/ mounts[n].pages # p => Seen(n)' = Seen(n)
        /\ \A n \in Mounts : mounts[n] # NULL /\ mounts[n].pages = p =>
             Seen(n)' = [Seen(n) EXCEPT !.pages = Len(Q.stored)]
    BY <2>1, <2>2, <2>3, PagesSeen
  <2>7. ASSUME NEW n \in Mounts, mounts[n] # NULL, mounts[n].pages = p
        PROVE  Seen(n)' = Seen(n)
    <3>1. Seen(n) \in MountViews /\ Seen(n).pages = Len(Q.stored)
      BY <2>1, <2>3, <2>7, SeenFields
    <3> QED
      BY <2>6, <2>7, <3>1 DEF MountViews
  <2> QED
    BY <1>1, <2>1, <2>5, <2>6, <2>7, QuietStep DEF SeenSame
<1>5. CASE GetIndex(m)
  <2> DEFINE J == [indexes[i] EXCEPT !.command = TRUE]
  <2>1. indexes' = [indexes EXCEPT ![i] = J] /\ UNCHANGED <<archive, pages, mounts, left>>
    BY <1>5 DEF GetIndex
  <2>2. J.meta = indexes[i].meta /\ J.changes = indexes[i].changes
    BY <1>2 DEF IndexObjects
  <2> HIDE DEF J, i
  <2> QED
    BY <1>2, <2>1, <2>2, IndexQuiet
<1>6. CASE HandleSetMetadata(m)
  <2>1. PICK key \in {"size", "hash"}, v \in Values \cup Hashes \cup {Bad} :
          /\ key = "size" => v \in Values \cup {Bad}
          /\ key = "hash" => v \in Hashes \cup {Bad}
          /\ indexes' = [indexes EXCEPT ![i] = SetMetadata(indexes[i], key, v)]
          /\ UNCHANGED <<archive, pages, mounts, left>>
    BY <1>6 DEF HandleSetMetadata
  <2> DEFINE J == SetMetadata(indexes[i], key, v)
  <2>2. /\ J \in IndexObjects /\ J.changes
        /\ J.meta.size = IF key = "size" THEN v ELSE indexes[i].meta.size
    BY <1>2, <2>1, MetadataSet
  <2> HIDE DEF J
  <2>3. indexes' = [indexes EXCEPT ![i] = J]
    BY <2>1 DEF J
  <2>4. CASE key = "hash"
    BY <1>2, <2>1, <2>2, <2>3, <2>4, IndexQuiet
  <2>5. CASE key = "size"
    <3>1. \A j \in Indexes : indexes'[j] = IF j = i THEN J ELSE indexes[j]
      BY <1>1, <2>3 DEF TypeOK
    <3>2. SeenIs /\ SeenIs'
      <4>1. SeenIs
        BY SeenLooks
      <4>2. SeenIs'
        BY SeenLooks, PTL
      <4> QED
        BY <4>1, <4>2
    <3>3. ASSUME NEW n \in Mounts, mounts[n] # NULL, n # m
          PROVE  mounts[n].index \in Indexes \ {i}
      BY <1>1, <3>3, MountHas DEF ObjectsInv, Apart
    <3>4. OpenInv'
      BY SMTT(60), <1>2, <2>1, <2>2, <3>1, <3>3 DEF OpenInv, Keeping
    <3>5. \A n \in Mounts : n # m => Seen(n)' = Seen(n)
      BY <2>1, <3>1, <3>2, <3>3 DEF SeenIs
    <3>6. Seen(m)' = [Seen(m) EXCEPT !.size = v]
      <4>1. /\ Seen(m) = Look(mounts[m], pages[p], indexes[i])
            /\ Seen(m)' = Look(mounts[m], pages[p], J)
        BY <1>1, <1>2, <2>1, <3>1, <3>2 DEF SeenIs
      <4> QED
        BY <2>2, <2>5, <4>1 DEF Look
    <3>7. f' = [f EXCEPT ![m].size = v]
      BY <3>5, <3>6
    <3>8. CabinetOfArchive!Tell(m)
      BY <1>3, <2>1, <2>5, <3>7 DEF CabinetOfArchive!Tell, CabinetOfArchive!Settings
    <3> QED
      BY <3>4, <3>8 DEF CabinetStep, CabinetOfArchive!Next
  <2> QED
    BY <2>1, <2>4, <2>5
<1>7. CASE HandleWritetomemory(m)
  <2> DEFINE M == [mounts[m] EXCEPT !.toMemory = TRUE, !.readonly = FALSE]
  <2>1. mounts' = [mounts EXCEPT ![m] = M] /\ UNCHANGED <<archive, pages, indexes, left>>
    BY <1>1, <1>7 DEF HandleWritetomemory, TypeOK
  <2>2. /\ M \in MountObjects /\ M.pages = mounts[m].pages /\ M.index = mounts[m].index
        /\ M.asked = mounts[m].asked /\ M.size = mounts[m].size /\ M.toMemory = TRUE
    BY <1>2 DEF MountObjects
  <2> HIDE DEF M
  <2>3. Keeps(M) = FALSE
    BY <2>2 DEF Keeps
  <2>4. /\ OpenInv' /\ Seen(m)' = [Seen(m) EXCEPT !.keeps = FALSE]
        /\ \A n \in Mounts : n # m => Seen(n)' = Seen(n)
    BY <1>1, <2>1, <2>2, <2>3, MountSeen
  <2>5. f' = [f EXCEPT ![m].keeps = FALSE]
    BY <2>4
  <2>6. CabinetOfArchive!KeepNoMore(m)
    BY <1>3, <2>1, <2>5 DEF CabinetOfArchive!KeepNoMore
  <2> QED
    BY <2>4, <2>6 DEF CabinetStep, CabinetOfArchive!Next
<1>8. CASE HandleDelete(m)
  <2> DEFINE M == [mounts[m] EXCEPT !.command = FALSE]
  <2>1. mounts' = [mounts EXCEPT ![m] = M] /\ UNCHANGED <<archive, pages, indexes, left>>
    BY <1>8 DEF HandleDelete
  <2>2. /\ M \in MountObjects /\ M.pages = mounts[m].pages /\ M.index = mounts[m].index
        /\ M.asked = mounts[m].asked /\ M.size = mounts[m].size
        /\ M.toMemory = mounts[m].toMemory /\ M.readonly = mounts[m].readonly
    BY <1>2 DEF MountObjects
  <2> HIDE DEF M
  <2>3. Keeps(M) = Keeps(mounts[m])
    BY <2>2 DEF Keeps
  <2>4. /\ OpenInv' /\ Seen(m)' = [Seen(m) EXCEPT !.keeps = Keeps(M)]
        /\ \A n \in Mounts : n # m => Seen(n)' = Seen(n)
    BY <1>1, <2>1, <2>2, <2>3, MountSeen
  <2>5. Seen(m).keeps = Keeps(M)
    BY <1>1, <2>3, SeenFields
  <2>6. Seen(m)' = Seen(m)
    BY <1>3, <2>4, <2>5 DEF MountViews
  <2> QED
    BY <1>1, <2>1, <2>4, <2>6, QuietStep DEF SeenSame
<1> QED
  BY <1>4, <1>5, <1>6, <1>7, <1>8

\* Closing a file
LEMMA CabinetOfFile ==
  ASSUME ObjectsInv, ObjectsInv', OpenInv, NEW m \in Mounts, StoreFile(m)
  PROVE  OpenInv' /\ CabinetStep
<1>1. /\ mounts[m] # NULL /\ UNCHANGED <<archive, left>>
      /\ \/ pages' = pages
         \/ /\ Keeps(mounts[m])
            /\ pages' = [pages EXCEPT ![mounts[m].pages] = WithPage(pages[mounts[m].pages])]
  BY FileStored
<1>2. PICK i \in Indexes, J \in IndexObjects :
        /\ i = mounts[m].index /\ indexes' = [indexes EXCEPT ![i] = J]
        /\ J.changes /\ J.meta = indexes[i].meta
  BY FileStored
<1>3. PICK M \in MountObjects :
        /\ mounts' = [mounts EXCEPT ![m] = M]
        /\ M.pages = mounts[m].pages /\ M.index = mounts[m].index
        /\ M.asked = mounts[m].asked /\ M.size = mounts[m].size
        /\ M.readonly = mounts[m].readonly /\ M.toMemory = mounts[m].toMemory
  BY FileStored
<1>4. PICK p \in Pages \cup {NULL} : p = mounts[m].pages /\ (p # NULL => pages[p] \in PageObjects)
  BY <1>1, MountHas
<1>5. /\ TypeOK
      /\ \A n \in Mounts : mounts'[n] = IF n = m THEN M ELSE mounts[n]
      /\ \A j \in Indexes : indexes'[j] = IF j = i THEN J ELSE indexes[j]
      /\ M # NULL
  BY <1>2, <1>3, NamesAssumption DEF ObjectsInv, TypeOK
<1>6. SeenIs /\ SeenIs'
  <2>1. SeenIs
    BY SeenLooks
  <2>2. SeenIs'
    BY SeenLooks, PTL
  <2> QED
    BY <2>1, <2>2
<1>7. Keeps(M) = Keeps(mounts[m])
  BY <1>3 DEF Keeps
<1>8. ASSUME NEW n \in Mounts, mounts[n] # NULL, n # m
      PROVE  /\ mounts[n].index # i /\ mounts[n].index \in Indexes
             /\ mounts[n].pages \in Pages \cup {NULL}
             /\ p # NULL => mounts[n].pages # p
  BY <1>1, <1>2, <1>4, <1>8, MountHas DEF ObjectsInv, Apart
<1>9. CASE pages' = pages
  <2>1. OpenInv'
    <3>1. Keeping(M, pages[M.pages], J)
      BY <1>1, <1>2, <1>3, <1>7 DEF OpenInv, Keeping
    <3>2. ASSUME NEW n \in Mounts, mounts'[n] # NULL
          PROVE  Keeping(mounts'[n], pages[mounts'[n].pages], indexes'[mounts'[n].index])
      BY <1>2, <1>3, <1>5, <1>8, <3>1, <3>2 DEF OpenInv
    <3> QED
      BY <1>1, <1>9, <3>2 DEF OpenInv
  <2>2. Seen(m)' = Seen(m)
    <3>1. /\ Seen(m) = Look(mounts[m], pages[p], indexes[i])
          /\ Seen(m)' = Look(M, pages[p], J)
      BY <1>1, <1>2, <1>3, <1>4, <1>5, <1>6, <1>9 DEF SeenIs
    <3> QED
      BY <1>2, <1>3, <1>7, <3>1 DEF Look
  <2>3. \A n \in Mounts : n # m => Seen(n)' = Seen(n)
    BY <1>5, <1>6, <1>8, <1>9 DEF SeenIs
  <2> QED
    BY <1>1, <1>5, <2>1, <2>2, <2>3, QuietStep DEF SeenSame
<1>10. CASE Keeps(mounts[m]) /\ pages' = [pages EXCEPT ![p] = WithPage(pages[p])]
  <2> DEFINE P == pages[p]
             Q == WithPage(P)
  <2>1. p # NULL /\ P \in PageObjects /\ P # NULL
    BY <1>4, <1>10, NamesAssumption DEF Keeps
  <2>2. OpenOf(P, archive) /\ ~P.readonly
    BY <1>1, <1>4, <1>10, <2>1 DEF OpenInv, Keeping
  <2>3. Q \in PageObjects /\ Q.index = P.index /\ Q.readonly = P.readonly
    BY <2>1, PageAdded
  <2>4. OpenOf(Q, archive) /\ Len(Q.stored) = Len(P.stored) + 1
    BY <1>5, <2>1, <2>2, PageOpen DEF TypeOK
  <2> HIDE DEF Q
  <2>5. pages' = [pages EXCEPT ![p] = Q]
    BY <1>10 DEF Q
  <2>6. \A q \in Pages : pages'[q] = IF q = p THEN Q ELSE pages[q]
    BY <1>5, <2>5 DEF TypeOK
  <2>7. OpenInv'
    <3>1. Keeping(M, Q, J)
      BY <1>2, <2>2, <2>3 DEF Keeping
    <3>2. ASSUME NEW n \in Mounts, mounts'[n] # NULL
          PROVE  Keeping(mounts'[n], pages'[mounts'[n].pages], indexes'[mounts'[n].index])
      <4>1. CASE n = m
        BY <1>2, <1>3, <1>4, <1>5, <2>1, <2>6, <3>1, <4>1
      <4>2. CASE n # m
        <5>1. Keeping(mounts[n], pages[mounts[n].pages], indexes[mounts[n].index])
          BY <1>5, <3>2, <4>2 DEF OpenInv
        <5> QED
          BY <1>5, <1>8, <2>1, <2>6, <3>2, <4>2, <5>1 DEF Keeping, Keeps
      <4> QED
        BY <4>1, <4>2
    <3>3. \A q \in Pages : pages'[q] # NULL => OpenOf(pages'[q], archive')
      BY <1>1, <2>4, <2>6 DEF OpenInv
    <3>4. \A q, r \in Pages : pages'[q] # NULL /\ pages'[r] # NULL => q = r
      BY <2>1, <2>6 DEF OpenInv
    <3> QED
      BY <3>2, <3>3, <3>4 DEF OpenInv
  <2>8. Seen(m)' = [Seen(m) EXCEPT !.pages = @ + 1]
    <3>1. /\ Seen(m) = Look(mounts[m], P, indexes[i])
          /\ Seen(m)' = Look(M, Q, J)
      BY <1>1, <1>2, <1>3, <1>4, <1>5, <1>6, <2>1, <2>6 DEF SeenIs
    <3>2. M.pages # NULL /\ mounts[m].pages # NULL
      BY <1>3, <1>4, <2>1
    <3> HIDE DEF P
    <3> QED
      BY <1>2, <1>3, <1>7, <2>4, <3>1, <3>2 DEF Look
  <2>9. ASSUME NEW n \in Mounts, n # m PROVE Seen(n)' = Seen(n)
    <3>1. CASE mounts[n] = NULL
      BY <1>5, <1>6, <2>9, <3>1 DEF SeenIs
    <3>2. CASE mounts[n] # NULL
      <4>1. /\ Seen(n) = Look(mounts[n], pages[mounts[n].pages], indexes[mounts[n].index])
            /\ Seen(n)' = Look(mounts[n], pages'[mounts[n].pages], indexes[mounts[n].index])
        BY <1>5, <1>6, <1>8, <2>9, <3>2 DEF SeenIs
      <4>2. mounts[n].pages # NULL => pages'[mounts[n].pages] = pages[mounts[n].pages]
        BY <1>8, <2>1, <2>6, <2>9, <3>2
      <4> QED
        BY <4>1, <4>2 DEF Look
    <3> QED
      BY <3>1, <3>2
  <2> QED
    BY <1>1, <2>7, <2>8, <2>9, PageSeen
<1> QED
  BY <1>1, <1>4, <1>9, <1>10

\* Unmounting leaves the archive with what the mount had last, when it keeps it.
LEMMA CabinetOfUnmount ==
  ASSUME ObjectsInv, ObjectsInv', OpenInv, NEW m \in Mounts, Unmount(m)
  PROVE  OpenInv' /\ CabinetStep
<1>1. PICK p \in Pages \cup {NULL}, i \in Indexes :
        /\ mounts[m] # NULL /\ p = mounts[m].pages /\ i = mounts[m].index
        /\ mounts' = [mounts EXCEPT ![m] = NULL]
        /\ \/ /\ pages' = At(pages, p, NULL) /\ indexes' = At(indexes, i, NULL)
              /\ left' = left
              /\ archive' = IF p = NULL THEN archive
                            ELSE Saved(WithIndex(Purged(m, pages[p]), Recounted(m, indexes[i]),
                                         mounts[m].readonly, mounts[m].toMemory))
           \/ left' = left \cup {p, i} /\ p # NULL /\ UNCHANGED <<archive, pages, indexes>>
  BY Unmounted
<1>2. TypeOK /\ i # NULL /\ NULL \notin Pages
  BY MountingAssumption DEF ObjectsInv
<1>3. /\ indexes[i] \in IndexObjects /\ (p # NULL => pages[p] \in PageObjects)
      /\ mounts[m] \in MountObjects
  BY <1>1, MountHas
<1>4. \A n \in Mounts : mounts'[n] = IF n = m THEN NULL ELSE mounts[n]
  BY <1>1, <1>2 DEF TypeOK
<1>5. /\ \A q \in Pages : pages'[q] = pages[q] \/ (q = p /\ pages'[q] = NULL)
      /\ \A j \in Indexes : indexes'[j] = indexes[j] \/ (j = i /\ indexes'[j] = NULL)
  BY <1>1, <1>2 DEF At, TypeOK
<1>6. SeenIs /\ SeenIs'
  <2>1. SeenIs
    BY SeenLooks
  <2>2. SeenIs'
    BY SeenLooks, PTL
  <2> QED
    BY <2>1, <2>2
<1>7. ASSUME NEW n \in Mounts, mounts[n] # NULL, n # m
      PROVE  /\ mounts[n].index # i /\ mounts[n].index \in Indexes
             /\ mounts[n].pages \in Pages \cup {NULL}
             /\ p # NULL => mounts[n].pages # p
             /\ indexes'[mounts[n].index] = indexes[mounts[n].index]
             /\ mounts[n].pages # NULL => pages'[mounts[n].pages] = pages[mounts[n].pages]
  <2>1. mounts[n].index \in Indexes /\ mounts[n].pages \in Pages \cup {NULL}
    BY <1>7, MountHas
  <2>2. mounts[n].index # i /\ (p # NULL => mounts[n].pages # p)
    BY <1>1, <1>7 DEF ObjectsInv, Apart
  <2> QED
    BY <1>5, <2>1, <2>2
<1>8. Seen(m)' = NULL /\ \A n \in Mounts : n # m => Seen(n)' = Seen(n)
  <2>1. Seen(m)' = NULL
    BY <1>4, <1>6 DEF SeenIs
  <2>2. ASSUME NEW n \in Mounts, n # m PROVE Seen(n)' = Seen(n)
    <3>1. CASE mounts[n] = NULL
      BY <1>4, <1>6, <2>2, <3>1 DEF SeenIs
    <3>2. CASE mounts[n] # NULL
      <4>1. /\ Seen(n) = Look(mounts[n], pages[mounts[n].pages], indexes[mounts[n].index])
            /\ Seen(n)' = Look(mounts[n], pages'[mounts[n].pages], indexes[mounts[n].index])
        BY <1>4, <1>6, <1>7, <2>2, <3>2 DEF SeenIs
      <4> QED
        BY <1>7, <2>2, <3>2, <4>1 DEF Look
    <3> QED
      BY <3>1, <3>2
  <2> QED
    BY <2>1, <2>2
<1> DEFINE f == [n \in Mounts |-> Seen(n)]
<1>9. f[m] # NULL /\ f' = [f EXCEPT ![m] = NULL]
  BY <1>1, <1>8, SeenFields
<1>10. /\ Known(archive) = [pages |-> Known(archive).pages, size |-> Known(archive).size]
       /\ Known(archive).pages \in Nat
  BY <1>2, ContentType DEF TypeOK
<1>11. \A n \in Mounts : mounts'[n] # NULL =>
         Keeping(mounts'[n], pages'[mounts'[n].pages], indexes'[mounts'[n].index])
  BY <1>4, <1>7 DEF OpenInv, Keeping, Keeps
<1>12. CASE left' = left \cup {p, i} /\ p # NULL /\ UNCHANGED <<archive, pages, indexes>>
  <2>1. OpenInv'
    BY <1>11, <1>12 DEF OpenInv
  <2>2. CabinetOfArchive!FailedUnmount(m)
    BY <1>9, <1>12 DEF CabinetOfArchive!FailedUnmount
  <2> QED
    BY <2>1, <2>2 DEF CabinetStep, CabinetOfArchive!Next
<1>13. CASE p = NULL /\ archive' = archive /\ pages' = pages
  <2>1. OpenInv'
    BY <1>11, <1>13 DEF OpenInv
  <2>2. Seen(m).keeps = FALSE
    BY <1>1, <1>13, SeenFields DEF Keeps
  <2>3. Known(archive') = [Known(archive) EXCEPT !.pages = Known(archive).pages]
    BY <1>10, <1>13
  <2>4. CabinetOfArchive!Unmount(m)
    BY <1>9, <1>10, <2>2, <2>3 DEF CabinetOfArchive!Unmount
  <2> QED
    BY <2>1, <2>4 DEF CabinetStep, CabinetOfArchive!Next
<1>14. CASE /\ p # NULL /\ pages' = At(pages, p, NULL)
            /\ archive' = Saved(WithIndex(Purged(m, pages[p]), Recounted(m, indexes[i]),
                                  mounts[m].readonly, mounts[m].toMemory))
  <2> DEFINE P == pages[p]
             I == Recounted(m, indexes[i])
             M == mounts[m]
             R == Purged(m, P)
  <2>1. /\ P \in PageObjects /\ P # NULL /\ I \in IndexObjects /\ M \in MountObjects
        /\ M.pages # NULL
    BY <1>1, <1>3, <1>14, RecountedIs, NamesAssumption
  <2>10. I.meta = indexes[i].meta /\ (indexes[i].changes => I.changes)
    BY <1>3, RecountedIs
  <2>2. OpenOf(P, archive) /\ Keeping(M, P, I)
    <3>1. OpenOf(P, archive) /\ Keeping(M, P, indexes[i])
      BY <1>1, <1>14, <2>1 DEF OpenInv
    <3> HIDE DEF P, I, M
    <3> QED
      BY <2>10, <3>1 DEF Keeping
  <2>3. /\ Seen(m).keeps = Keeps(M) /\ Seen(m).size = I.meta.size
        /\ Seen(m).pages = Len(P.stored)
    BY <1>1, <1>14, <2>10, SeenFields
  <2>4. /\ R \in PageObjects /\ R.index = P.index /\ R.readonly = P.readonly
        /\ ~Keeps(M) => R = P
        /\ Keeps(M) => OpenOf(R, archive)
        /\ Keeps(M) => \E n \in {0, 1} : Len(R.stored) = Len(P.stored) + n
    <3>1. M.pending => ~M.readonly
      BY <1>1 DEF ObjectsInv, Modes
    <3>2. CASE M.pending /\ ~M.toMemory
      <4>1. R = WithPage(P) /\ Keeps(M)
        BY <2>1, <3>1, <3>2 DEF Purged, Buffered, Keeps
      <4>2. ~P.readonly
        BY <2>2, <4>1 DEF Keeping
      <4>3. OpenOf(WithPage(P), archive) /\ Len(WithPage(P).stored) = Len(P.stored) + 1
        BY <1>2, <2>1, <2>2, <4>2, PageOpen DEF TypeOK
      <4> QED
        BY <2>1, <4>1, <4>3, PageAdded
    <3>3. CASE ~(M.pending /\ ~M.toMemory)
      <4>1. R = P
        BY <3>3 DEF Purged, Buffered
      <4>2. Len(P.stored) = Len(P.stored) + 0
        BY <2>1, ContentType
      <4> QED
        BY <2>1, <2>2, <4>1, <4>2
    <3> QED
      BY <3>2, <3>3
  <2> HIDE DEF P, I, M, R
  <2>5. PICK W : W = WithIndex(R, I, M.readonly, M.toMemory)
    OBVIOUS
  <2>6. archive' = Saved(W)
    BY <1>14, <2>5 DEF P, I, M, R
  <2>7. OpenInv'
    <3>1. \A q \in Pages : pages'[q] = NULL
      BY <1>2, <1>5, <1>14, <2>1 DEF OpenInv, At, TypeOK, P
    <3> QED
      BY <1>11, <3>1 DEF OpenInv
  <2>8. CASE Keeps(M)
    <3>1. Known(archive') = [pages |-> Len(R.stored), size |-> I.meta.size]
      <4>1. CASE I.changes
        <5>1. W = [R EXCEPT !.index = I.meta, !.changed = TRUE]
          BY <2>5, <2>8, <4>1 DEF WithIndex, Keeps
        <5>2. /\ W \in PageObjects /\ W.index = I.meta /\ W.stored = R.stored
              /\ W.changed = TRUE /\ W.readonly = R.readonly
          BY <2>1, <2>4, <5>1 DEF PageObjects, IndexObjects
        <5>3. ~W.readonly
          BY <2>2, <2>4, <2>8, <5>2 DEF Keeping
        <5>4. Saved(W) = [stored |-> W.stored, index |-> W.index]
          BY <5>2, <5>3 DEF Saved
        <5>5. Saved(W) \in Archives /\ I.meta \in Metadata
          BY <2>1, <2>4, <5>2, <5>4 DEF Archives, PageObjects, IndexObjects
        <5>6. Saved(W) # NULL /\ I.meta # NULL
          BY <5>5, NamesAssumption
        <5> QED
          BY <2>6, <5>2, <5>4, <5>6 DEF Known
      <4>2. CASE ~I.changes
        <5>1. W = R
          BY <2>5, <4>2 DEF WithIndex
        <5>2. Known(archive') = Content(R)
          BY <2>4, <2>6, <2>8, <5>1, SavedContent
        <5>3. SizeOf(R.index) = I.meta.size
          BY <2>2, <2>4, <2>8, <4>2 DEF Keeping
        <5> QED
          BY <5>2, <5>3 DEF Content
      <4> QED
        BY <4>1, <4>2
    <3>2. \E n \in {0, 1} : Known(archive') = [pages |-> Seen(m).pages + n, size |-> Seen(m).size]
      BY <2>3, <2>4, <2>8, <3>1
    <3>3. CabinetOfArchive!Unmount(m)
      BY <1>9, <2>3, <2>8, <3>2 DEF CabinetOfArchive!Unmount
    <3> QED
      BY <2>7, <3>3 DEF CabinetStep, CabinetOfArchive!Next
  <2>9. CASE ~Keeps(M)
    <3>1. W = P
      BY <2>1, <2>4, <2>5, <2>9 DEF WithIndex, Keeps, MountObjects
    <3>2. Known(archive') = Content(P)
      BY <2>1, <2>2, <2>6, <3>1, SavedContent
    <3>3. /\ Known(archive') = [Known(archive) EXCEPT !.pages = Seen(m).pages]
          /\ Seen(m).pages >= Known(archive).pages
      BY <1>10, <2>2, <2>3, <3>2 DEF OpenOf, Content
    <3>4. Seen(m).keeps = FALSE
      BY <2>3, <2>9
    <3>5. CabinetOfArchive!Unmount(m)
      BY <1>9, <3>3, <3>4 DEF CabinetOfArchive!Unmount
    <3> QED
      BY <2>7, <3>5 DEF CabinetStep, CabinetOfArchive!Next
  <2> QED
    BY <2>8, <2>9
<1> QED
  BY <1>1, <1>12, <1>13, <1>14 DEF At

-----------------------------------------------------------------------------
(* Mounting.                                                               *)

\* Choosing the hash leaves the pages as they are, or adds the bootstrap.
LEMMA HashCounted ==
  ASSUME NEW o \in Options, NEW P \in PageObjects, NEW I \in IndexObjects,
         NEW a \in Archives \cup {NULL}, OpenOf(P, a)
  PROVE  LET H == Hashed(o, P, I)
         IN /\ OpenOf(H.pages, a)
            /\ \/ Len(H.pages.stored) = Len(P.stored)
               \/ Len(H.pages.stored) = 1 /\ Len(P.stored) = 0
            /\ H.index.meta.size = I.meta.size
<1> SUFFICES ASSUME NEW H, H = Hashed(o, P, I)
             PROVE  /\ OpenOf(H.pages, a)
                    /\ \/ Len(H.pages.stored) = Len(P.stored)
                       \/ Len(H.pages.stored) = 1 /\ Len(P.stored) = 0
                    /\ H.index.meta.size = I.meta.size
  OBVIOUS
<1> DEFINE B == IF o.bootstrap THEN WithPage(P) ELSE P
           h == IF o.hash # "md5" THEN o.hash ELSE B.hash
<1>1. Len(P.stored) \in Nat /\ Known(a).pages \in Nat
  BY ContentType
<1>2. B \in PageObjects
  BY PageAdded
<1>3. h \in Hashes
  BY <1>2 DEF Options, PageObjects
<1>4. CASE P.stored # <<>>
  <2>1. /\ H.index = I
        /\ H.pages = IF I.meta.hash \in Hashes THEN [P EXCEPT !.hash = I.meta.hash] ELSE P
    BY <1>4 DEF Hashed
  <2>2. /\ H.pages \in PageObjects /\ H.pages.stored = P.stored
        /\ H.pages.changed = P.changed /\ H.pages.readonly = P.readonly
        /\ H.pages.index = P.index
    BY <2>1 DEF PageObjects
  <2>3. OpenOf(H.pages, a)
    BY <2>2, SameContent
  <2> QED
    BY <2>1, <2>2, <2>3
<1>5. CASE P.stored = <<>> /\ o.bootstrap /\ P.readonly
  <2>1. H = [ok |-> FALSE, pages |-> P, index |-> I]
    BY <1>5 DEF Hashed
  <2>2. H.pages = P /\ H.index = I
    BY <2>1
  <2> QED
    BY <2>2
<1>6. CASE P.stored = <<>> /\ ~(o.bootstrap /\ P.readonly)
  <2> DEFINE Q == [B EXCEPT !.hash = h]
             J == SetMetadata(I, "hash", h)
  <2>1. H.pages = Q /\ H.index = J
    BY <1>6 DEF Hashed
  <2>2. /\ Q \in PageObjects /\ Q.stored = B.stored /\ Q.index = B.index
        /\ Q.changed = B.changed /\ Q.readonly = B.readonly
    BY <1>2, <1>3 DEF PageObjects
  <2>3. J.meta.size = I.meta.size
    BY <1>3, MetadataSet
  <2>4. OpenOf(B, a) /\ (B = P \/ Len(B.stored) = Len(P.stored) + 1)
    BY <1>6, PageOpen
  <2> HIDE DEF B, Q, J
  <2>5. OpenOf(Q, a)
    BY <1>2, <2>2, <2>4, SameContent
  <2> QED
    BY <1>1, <1>6, <2>1, <2>2, <2>3, <2>4, <2>5
<1> QED
  BY <1>4, <1>5, <1>6

\* The pages a mount begins with
LEMMA FoundOpen ==
  ASSUME ObjectsInv, OpenInv, NEW o \in Options, IsSensible(o), PagesOf(o) # NULL
  PROVE  LET P == PagesOf(o)
         IN /\ OpenOf(P, archive) /\ (o.mode = "write" => ~P.readonly)
            /\ o.pages = NULL => \A q \in Pages : pages[q] = NULL
            /\ Len(P.stored) \in {Known(archive).pages} \cup Hand.pages
<1>1. TypeOK /\ o.pages \in Pages \cup {NULL} /\ Readonly(o) \in BOOLEAN
  BY DEF ObjectsInv, Options, Readonly
<1>2. PICK P \in PageObjects : P = PagesOf(o)
  BY <1>1, ObjectsFound
<1>3. CASE o.pages # NULL
  <2>1. /\ pages[o.pages] \in PageObjects /\ P = [pages[o.pages] EXCEPT !.hard = TRUE]
        /\ pages[o.pages] # NULL /\ pages[o.pages].command
        /\ o.mode = "write" => ~pages[o.pages].readonly
    BY <1>1, <1>2, <1>3, ObjectsFound DEF IsSensible
  <2>2. /\ P.stored = pages[o.pages].stored /\ P.index = pages[o.pages].index
        /\ P.changed = pages[o.pages].changed /\ P.readonly = pages[o.pages].readonly
    BY <2>1 DEF PageObjects
  <2>3. OpenOf(P, archive)
    BY <1>1, <1>2, <1>3, <2>1, <2>2, SameContent DEF OpenInv
  <2>4. Len(P.stored) \in Hand.pages
    BY <1>1, <1>3, <2>1, <2>2 DEF Hand
  <2> QED
    BY <1>2, <1>3, <2>1, <2>2, <2>3, <2>4
<1>4. CASE o.pages = NULL
  <2> DEFINE N == OpenedPages(Readonly(o))
  <2>1. CanOpen(Readonly(o)) /\ P = [N EXCEPT !.hard = TRUE]
    BY <1>1, <1>2, <1>4, ObjectsFound DEF PagesOf
  <2>2. /\ N \in PageObjects /\ N.readonly = Readonly(o)
        /\ N.stored = IF archive = NULL THEN <<>> ELSE archive.stored
    BY <1>1, PagesOpened
  <2>3. OpenOf(N, archive)
    BY <1>1, <2>1, OpenedContent
  <2> HIDE DEF N
  <2>4. /\ P.stored = N.stored /\ P.index = N.index
        /\ P.changed = N.changed /\ P.readonly = N.readonly
    BY <2>1, <2>2 DEF PageObjects
  <2>5. OpenOf(P, archive)
    BY <2>2, <2>3, <2>4, SameContent
  <2>6. Len(P.stored) = Known(archive).pages
    BY <2>2, <2>4 DEF Known
  <2>7. \A q \in Pages : pages[q] = NULL
    BY <2>1 DEF CanOpen, IsOpen
  <2>8. o.mode = "write" => ~P.readonly
    BY <2>2, <2>4 DEF Readonly
  <2> QED
    BY <1>2, <2>5, <2>6, <2>7, <2>8
<1> QED
  BY <1>3, <1>4

\* The setting a mount finds
LEMMA FoundSetting ==
  ASSUME ObjectsInv, OpenInv, CabinetCare, NEW o \in Options, IsSensible(o)
  PROVE  LET P == PagesOf(o)
             had == IndexOf(o, P).meta.size
         IN /\ had \in {Known(archive).size, NULL} \cup Hand.sizes
            /\ had = NULL /\ P # NULL => Known(archive).size = NULL \/ NULL \in Hand.sizes
            /\ P # NULL /\ P.stored # <<>> => had = SizeOf(P.index)
<1>1. TypeOK /\ o.index \in Indexes \cup {NULL}
  BY DEF ObjectsInv, Options
<1>2. PICK P \in PageObjects \cup {NULL}, I \in IndexObjects : P = PagesOf(o) /\ I = IndexOf(o, P)
  BY <1>1, ObjectsFound
<1>3. P # NULL => P.index \in Metadata \cup {NULL} /\ SizeOf(P.index) = Known(archive).size
  <2>1. SUFFICES ASSUME P # NULL PROVE P.index \in Metadata \cup {NULL}
                                       /\ SizeOf(P.index) = Known(archive).size
    OBVIOUS
  <2>2. OpenOf(P, archive) /\ P \in PageObjects
    BY <1>2, <2>1, FoundOpen
  <2> QED
    BY <2>2 DEF OpenOf, Content, PageObjects
<1>4. PICK data \in Metadata \cup {NULL} : data = IF P = NULL THEN NULL ELSE P.index
  BY <1>3
<1>5. /\ NewIndex(data) \in IndexObjects
      /\ NewIndex(data).meta.size = SizeOf(data)
  BY IndexMade DEF SizeOf, NoMetadata
<1>6. CASE o.index = NULL
  <2>1. I = [NewIndex(data) EXCEPT !.hard = TRUE]
    BY <1>2, <1>4, <1>6 DEF IndexOf
  <2>2. I.meta.size = SizeOf(data)
    BY <1>5, <2>1 DEF IndexObjects
  <2> QED
    BY <1>2, <1>3, <1>4, <2>2 DEF SizeOf
<1>7. CASE o.index # NULL
  <2>1. /\ indexes[o.index] \in IndexObjects /\ I = [indexes[o.index] EXCEPT !.hard = TRUE]
        /\ indexes[o.index] # NULL /\ indexes[o.index].command
    BY <1>1, <1>2, <1>7, ObjectsFound DEF IsSensible
  <2>2. I.meta = indexes[o.index].meta
    BY <2>1 DEF IndexObjects
  <2>3. I.meta.size \in Hand.sizes
    BY <1>1, <1>7, <2>1, <2>2 DEF Hand
  <2>4. P # NULL /\ P.stored # <<>> => I.meta.size = SizeOf(P.index)
    <3>1. ASSUME P # NULL, P.stored # <<>>
          PROVE  indexes[o.index].meta = NewIndex(P.index).meta
      BY <1>2, <1>7, <3>1 DEF IsSensible, Matches, CabinetCare
    <3> QED
      BY <1>4, <1>5, <2>2, <3>1
  <2> QED
    BY <1>2, <2>3, <2>4
<1> QED
  BY <1>6, <1>7

\* The setting a mount uses and leaves in the index
LEMMA SettingUsed ==
  ASSUME NEW o \in Options, NEW I \in IndexObjects
  PROVE  /\ Sized(o, I).meta.size = SizeUsed(o, I)
         /\ SizeUsed(o, I) = CabinetOfArchive!Chosen(o.size, I.meta.size)
         /\ ~Sized(o, I).changes => Sized(o, I).meta.size = I.meta.size
<1>1. o.size \in Values \cup {NULL} /\ Default \in Values
  BY MountingAssumption DEF Options
<1>2. CASE o.size # NULL
  BY <1>1, <1>2, MetadataSet DEF Sized, SizeUsed, CabinetOfArchive!Chosen
<1>3. CASE o.size = NULL
  BY <1>1, <1>3, MetadataSet DEF Sized, SizeUsed, CabinetOfArchive!Chosen
<1> QED
  BY <1>2, <1>3

LEMMA SettingTold ==
  ASSUME NEW o \in Options, NEW I \in IndexObjects
  PROVE  /\ Told(o, I).meta.size = IF o.told # NULL THEN o.told ELSE I.meta.size
         /\ ~Told(o, I).changes => o.told = NULL /\ ~I.changes
<1>1. o.told \in {Bad, NULL}
  BY DEF Options
<1> QED
  BY <1>1, MetadataSet DEF Told

\* What a call of mount finds and makes of it
LEMMA MountFound ==
  ASSUME ObjectsInv, OpenInv, CabinetCare, NEW m \in Mounts, NEW o, NEW P, NEW I, NEW S,
         NEW Q, NEW J, NEW T, NEW ok, Tried(m, o, P, I, S, Q, J, T, ok)
  PROVE  /\ P # NULL =>
              /\ OpenOf(P, archive) /\ OpenOf(Q, archive)
              /\ o.mode = "write" => ~Q.readonly
              /\ o.pages = NULL => \A q \in Pages : pages[q] = NULL
              /\ {Len(P.stored), Len(Q.stored)}
                   \subseteq {Known(archive).pages, 1} \cup Hand.pages
              /\ Len(Q.stored) \in {Known(archive).pages} \cup Hand.pages
                   \/ Known(archive).pages = 0
              /\ ok /\ ~T.changes => T.meta.size = SizeOf(Q.index)
         /\ I.meta.size \in {Known(archive).size, NULL} \cup Hand.sizes
         /\ I.meta.size = NULL /\ P # NULL => Known(archive).size = NULL \/ NULL \in Hand.sizes
         /\ SizeUsed(o, I) = CabinetOfArchive!Chosen(o.size, I.meta.size)
         /\ T.meta.size = IF o.told # NULL THEN o.told ELSE SizeUsed(o, I)
<1>1. /\ o \in Options /\ IsSensible(o) /\ TypeOK
      /\ {P, Q} \subseteq PageObjects \cup {NULL} /\ {I, S, J, T} \subseteq IndexObjects
      /\ P = PagesOf(o) /\ I = IndexOf(o, P) /\ S = Sized(o, I) /\ T = Told(o, J)
      /\ P = NULL => J = S
      /\ P # NULL => /\ ok = Hashed(o, P, S).ok /\ Q = Hashed(o, P, S).pages
                     /\ J = Hashed(o, P, S).index /\ Q # NULL
  BY DEF Tried, ObjectsInv
<1>2. /\ S.meta.size = SizeUsed(o, I) /\ (~S.changes => S.meta.size = I.meta.size)
      /\ SizeUsed(o, I) = CabinetOfArchive!Chosen(o.size, I.meta.size)
      /\ T.meta.size = IF o.told # NULL THEN o.told ELSE J.meta.size
      /\ ~T.changes => o.told = NULL /\ ~J.changes
  BY <1>1, SettingUsed, SettingTold
<1>3. /\ I.meta.size \in {Known(archive).size, NULL} \cup Hand.sizes
      /\ I.meta.size = NULL /\ P # NULL => Known(archive).size = NULL \/ NULL \in Hand.sizes
      /\ P # NULL /\ P.stored # <<>> => I.meta.size = SizeOf(P.index)
  BY <1>1, FoundSetting
<1>4. ASSUME P # NULL
      PROVE  /\ OpenOf(P, archive) /\ OpenOf(Q, archive)
             /\ o.mode = "write" => ~Q.readonly
             /\ o.pages = NULL => \A q \in Pages : pages[q] = NULL
             /\ {Len(P.stored), Len(Q.stored)}
                  \subseteq {Known(archive).pages, 1} \cup Hand.pages
             /\ Len(Q.stored) \in {Known(archive).pages} \cup Hand.pages
                  \/ Known(archive).pages = 0
             /\ ok /\ ~T.changes => T.meta.size = SizeOf(Q.index)
             /\ J.meta.size = S.meta.size
  <2>1. P \in PageObjects /\ Q \in PageObjects /\ archive \in Archives \cup {NULL}
    BY <1>1, <1>4 DEF TypeOK
  <2>2. /\ OpenOf(P, archive) /\ (o.mode = "write" => ~P.readonly)
        /\ o.pages = NULL => \A q \in Pages : pages[q] = NULL
        /\ Len(P.stored) \in {Known(archive).pages} \cup Hand.pages
    BY <1>1, <1>4, FoundOpen
  <2>3. /\ OpenOf(Q, archive) /\ J.meta.size = S.meta.size
        /\ Len(Q.stored) = Len(P.stored) \/ (Len(Q.stored) = 1 /\ Len(P.stored) = 0)
    BY <1>1, <1>4, <2>1, <2>2, HashCounted
  <2>4. PICK H : H = Hashed(o, P, S) /\ Chosen(o, P, S, H)
    BY <1>1, <2>1, HashChosen
  <2>5. /\ Q.readonly = P.readonly /\ Q.index = P.index
        /\ P.stored # <<>> => J = S
        /\ P.stored = <<>> /\ ok => J.changes
    BY <1>1, <1>4, <2>4 DEF Chosen
  <2>6. Known(archive).pages \in Nat /\ Known(archive).pages <= Len(P.stored)
        /\ Len(P.stored) \in Nat
    BY <2>1, <2>2, ContentType DEF OpenOf, Content
  <2>7. ok /\ ~T.changes => T.meta.size = SizeOf(Q.index)
    BY <1>2, <1>3, <1>4, <2>3, <2>5
  <2> QED
    BY <2>2, <2>3, <2>5, <2>6, <2>7
<1>5. J.meta.size = S.meta.size
  BY <1>1, <1>4
<1> QED
  BY <1>2, <1>3, <1>4, <1>5

\* What a call of mount was given is in no mount.
LEMMA GivenFree ==
  ASSUME CabinetCare, NEW o \in Options, IsSensible(o)
  PROVE  /\ o.pages # NULL => ~InUse(o.pages)
         /\ o.index # NULL => ~InUse(o.index)
BY DEF CabinetCare, IsSensible, Given

\* A step that leaves the mounts and the objects they have is not seen.
LEMMA MountsLeft ==
  ASSUME ObjectsInv, ObjectsInv', OpenInv, UNCHANGED mounts,
         \A i \in Indexes : InUse(i) => indexes'[i] = indexes[i],
         \A p \in Pages : InUse(p) => pages'[p] = pages[p]
  PROVE  /\ SeenSame
         /\ \A m \in Mounts : mounts'[m] # NULL =>
              Keeping(mounts'[m], pages'[mounts'[m].pages], indexes'[mounts'[m].index])
<1>1. SeenIs /\ SeenIs'
  <2>1. SeenIs
    BY SeenLooks
  <2>2. SeenIs'
    BY SeenLooks, PTL
  <2> QED
    BY <2>1, <2>2
<1>2. ASSUME NEW m \in Mounts, mounts[m] # NULL
      PROVE  /\ indexes'[mounts[m].index] = indexes[mounts[m].index]
             /\ mounts[m].pages # NULL => pages'[mounts[m].pages] = pages[mounts[m].pages]
  BY <1>2, MountHas DEF InUse
<1>3. ASSUME NEW m \in Mounts, mounts[m] # NULL
      PROVE  /\ Look(mounts[m], pages'[mounts[m].pages], indexes'[mounts[m].index])
                  = Look(mounts[m], pages[mounts[m].pages], indexes[mounts[m].index])
             /\ Keeping(mounts[m], pages'[mounts[m].pages], indexes'[mounts[m].index])
  <2>1. Keeping(mounts[m], pages[mounts[m].pages], indexes[mounts[m].index])
    BY <1>3 DEF OpenInv
  <2> QED
    BY <1>2, <1>3, <2>1 DEF Look, Keeping, Keeps
<1>4. SeenSame
  BY <1>1, <1>3 DEF SeenIs, SeenSame
<1> QED
  BY <1>3, <1>4

\* A mount that fails and is undone saves at most the bootstrap.
LEMMA CabinetOfFailed ==
  ASSUME ObjectsInv, ObjectsInv', OpenInv, CabinetCare, NEW o \in Options, IsSensible(o),
         NEW X \in PageObjects \cup {NULL}, NEW Y, Failed(o, X, Y),
         X # NULL => /\ OpenOf(X, archive)
                     /\ Len(X.stored) \in {Known(archive).pages, 1} \cup Hand.pages
                     /\ o.pages = NULL => \A q \in Pages : pages[q] = NULL,
         X = NULL => o.pages = NULL
  PROVE  OpenInv' /\ CabinetStep
<1>1. /\ mounts' = mounts /\ pages' = At(pages, o.pages, X) /\ indexes' = At(indexes, o.index, Y)
      /\ archive' = IF o.pages = NULL /\ X # NULL THEN Saved(X) ELSE archive
      /\ TypeOK /\ TypeOK' /\ NULL \notin Pages \cup Indexes
      /\ o.pages \in Pages \cup {NULL} /\ o.index \in Indexes \cup {NULL}
  BY MountingAssumption DEF Failed, Undone, ObjectsInv, Options
<1>2. /\ \A q \in Pages : pages'[q] = IF q = o.pages THEN X ELSE pages[q]
      /\ \A j \in Indexes : j # o.index => indexes'[j] = indexes[j]
  BY <1>1 DEF At, TypeOK
<1>3. /\ SeenSame
      /\ \A m \in Mounts : mounts'[m] # NULL =>
           Keeping(mounts'[m], pages'[mounts'[m].pages], indexes'[mounts'[m].index])
  <2>1. /\ \A i \in Indexes : InUse(i) => indexes'[i] = indexes[i]
        /\ \A p \in Pages : InUse(p) => pages'[p] = pages[p]
    BY <1>1, <1>2, GivenFree
  <2> QED
    BY <1>1, <2>1, MountsLeft
<1>4. CASE o.pages = NULL /\ X # NULL
  <2>1. \A q \in Pages : pages'[q] = NULL
    BY <1>1, <1>2, <1>4
  <2>2. OpenInv'
    BY <1>3, <2>1 DEF OpenInv
  <2>3. Known(archive') = Content(X) /\ X \in PageObjects
    BY <1>1, <1>4, SavedContent
  <2>4. /\ Known(archive').pages = Len(X.stored) /\ Known(archive').size = Known(archive).size
        /\ Known(archive').pages >= Known(archive).pages
    BY <1>4, <2>3 DEF OpenOf, Content
  <2>5. CabinetStep
    BY <1>1, <1>3, <1>4, <2>4, OutsideStep DEF TypeOK
  <2> QED
    BY <2>2, <2>5
<1>5. CASE ~(o.pages = NULL /\ X # NULL)
  <2>1. archive' = archive
    BY <1>1, <1>5
  <2>2. \A q \in Pages : pages'[q] # NULL => pages[q] # NULL /\ OpenOf(pages'[q], archive)
    BY <1>1, <1>2, <1>5 DEF OpenInv, IsSensible
  <2>3. OpenInv'
    BY <1>3, <2>1, <2>2 DEF OpenInv
  <2> QED
    BY <1>1, <1>3, <2>1, <2>3, QuietStep
<1> QED
  BY <1>4, <1>5

\* A mount that fails after it had its mount object saves what it was asked for.
LEMMA CabinetOfRegistered ==
  ASSUME ObjectsInv, ObjectsInv', OpenInv, CabinetCare, NEW o \in Options, IsSensible(o),
         NEW Q \in PageObjects \cup {NULL}, NEW T \in IndexObjects, Registered(o, Q, T),
         Q # NULL => /\ OpenOf(Q, archive)
                     /\ Len(Q.stored) \in {Known(archive).pages, 1} \cup Hand.pages
                     /\ o.pages = NULL => \A q \in Pages : pages[q] = NULL
                     /\ o.mode = "write" => ~Q.readonly,
         Q = NULL => o.pages = NULL,
         T.meta.size \in Values \cup {Bad}
  PROVE  OpenInv' /\ CabinetStep
<1>1. /\ mounts' = mounts /\ pages' = At(pages, o.pages, NULL)
      /\ indexes' = At(indexes, o.index, NULL)
      /\ archive' = IF Q = NULL THEN archive
                    ELSE Saved(WithIndex(Q, T, o.mode = "read", o.mode = "memory"))
      /\ TypeOK /\ TypeOK' /\ NULL \notin Pages \cup Indexes
      /\ o.pages \in Pages \cup {NULL} /\ o.index \in Indexes \cup {NULL}
      /\ o.mode \in {"write", "read", "memory"}
  BY MountingAssumption DEF Registered, Finished, ObjectsInv, Options
<1>2. /\ \A q \in Pages : pages'[q] = IF q = o.pages THEN NULL ELSE pages[q]
      /\ \A j \in Indexes : j # o.index => indexes'[j] = indexes[j]
  BY <1>1 DEF At, TypeOK
<1>3. /\ SeenSame
      /\ \A m \in Mounts : mounts'[m] # NULL =>
           Keeping(mounts'[m], pages'[mounts'[m].pages], indexes'[mounts'[m].index])
  <2>1. /\ \A i \in Indexes : InUse(i) => indexes'[i] = indexes[i]
        /\ \A p \in Pages : InUse(p) => pages'[p] = pages[p]
    BY <1>1, <1>2, GivenFree
  <2> QED
    BY <1>1, <2>1, MountsLeft
<1>4. CASE Q # NULL
  <2>1. \A q \in Pages : pages'[q] = NULL
    BY <1>1, <1>2, <1>4 DEF OpenInv, IsSensible
  <2>2. OpenInv'
    BY <1>3, <2>1 DEF OpenInv
  <2>3. PICK W : W = WithIndex(Q, T, o.mode = "read", o.mode = "memory")
    OBVIOUS
  <2>4. archive' = Saved(W) /\ Q \in PageObjects
    BY <1>1, <1>4, <2>3
  <2>5. /\ Known(archive').pages = Len(Q.stored)
        /\ Known(archive').size \in {Known(archive).size, Bad} \cup Values
    <3>1. CASE T.changes /\ o.mode = "write"
      <4>1. W = [Q EXCEPT !.index = T.meta, !.changed = TRUE]
        BY <2>3, <3>1 DEF WithIndex
      <4>2. /\ W \in PageObjects /\ W.index = T.meta /\ W.stored = Q.stored
            /\ W.changed = TRUE /\ W.readonly = Q.readonly
        BY <2>4, <4>1 DEF PageObjects, IndexObjects
      <4>3. ~W.readonly
        BY <1>4, <3>1, <4>2
      <4>4. Saved(W) = [stored |-> W.stored, index |-> W.index]
        BY <4>2, <4>3 DEF Saved
      <4>5. Saved(W) \in Archives /\ T.meta \in Metadata
        BY <2>4, <4>2, <4>4 DEF Archives, PageObjects, IndexObjects
      <4>6. Saved(W) # NULL /\ T.meta # NULL
        BY <4>5, NamesAssumption
      <4> QED
        BY <2>4, <4>2, <4>4, <4>6 DEF Known
    <3>2. CASE ~(T.changes /\ o.mode = "write")
      <4>1. W = Q
        BY <1>1, <2>3, <3>2 DEF WithIndex
      <4>2. Known(archive') = Content(Q)
        BY <1>4, <2>4, <4>1, SavedContent
      <4> QED
        BY <1>4, <4>2 DEF OpenOf, Content
    <3> QED
      BY <3>1, <3>2
  <2>6. Known(archive').pages >= Known(archive).pages
    BY <1>4, <2>5 DEF OpenOf, Content
  <2>7. CabinetStep
    BY <1>1, <1>3, <1>4, <2>5, <2>6, OutsideStep DEF TypeOK
  <2> QED
    BY <2>2, <2>7
<1>5. CASE Q = NULL
  <2>1. archive' = archive /\ \A q \in Pages : pages'[q] = pages[q]
    BY <1>1, <1>2, <1>5
  <2>2. OpenInv'
    BY <1>3, <2>1 DEF OpenInv
  <2> QED
    BY <1>1, <1>3, <2>1, <2>2, QuietStep
<1> QED
  BY <1>4, <1>5

\* A mount that begins uses what it was asked for, or what it found.
LEMMA CabinetOfBegun ==
  ASSUME ObjectsInv, ObjectsInv', OpenInv, CabinetCare, NEW m \in Mounts, mounts[m] = NULL,
         NEW o \in Options, IsSensible(o), NEW I \in IndexObjects,
         NEW Q \in PageObjects \cup {NULL}, NEW T \in IndexObjects, Begun(m, o, I, Q, T),
         Q # NULL => /\ OpenOf(Q, archive)
                     /\ Len(Q.stored) \in {Known(archive).pages, 1} \cup Hand.pages
                     /\ Len(Q.stored) \in {Known(archive).pages} \cup Hand.pages
                          \/ Known(archive).pages = 0
                     /\ o.pages = NULL => \A q \in Pages : pages[q] = NULL
                     /\ o.mode = "write" => ~Q.readonly
                     /\ ~T.changes => T.meta.size = SizeOf(Q.index)
                     /\ I.meta.size = NULL => Known(archive).size = NULL \/ NULL \in Hand.sizes,
         I.meta.size \in {Known(archive).size, NULL} \cup Hand.sizes,
         SizeUsed(o, I) = CabinetOfArchive!Chosen(o.size, I.meta.size),
         T.meta.size = IF o.told # NULL THEN o.told ELSE SizeUsed(o, I)
  PROVE  OpenInv' /\ CabinetStep
<1>1. PICK p \in Pages \cup {NULL}, i \in Indexes, M \in MountObjects :
        /\ p = NULL <=> Q = NULL
        /\ p # NULL => (IF o.pages # NULL THEN p = o.pages ELSE pages[p] = NULL)
        /\ IF o.index # NULL THEN i = o.index ELSE indexes[i] = NULL
        /\ M.pages = p /\ M.index = i /\ M.asked = o.size /\ M.size = SizeUsed(o, I)
        /\ M.readonly = (o.mode = "read") /\ M.toMemory = (o.mode = "memory")
        /\ pages' = At(pages, p, Q) /\ indexes' = At(indexes, i, T)
        /\ mounts' = [mounts EXCEPT ![m] = M]
        /\ UNCHANGED <<archive, left>>
  BY DEF Begun
<1>2. /\ TypeOK /\ NULL \notin Pages \cup Indexes
      /\ o.mode \in {"write", "read", "memory"}
      /\ o.size \in Values \cup {NULL} /\ o.told \in {Bad, NULL}
  BY MountingAssumption DEF ObjectsInv, Options
<1>3. /\ M # NULL /\ (Q # NULL => Q \in PageObjects) /\ T \in IndexObjects /\ T # NULL
      /\ \A n \in Mounts : mounts'[n] = IF n = m THEN M ELSE mounts[n]
      /\ \A q \in Pages : pages'[q] = IF q = p THEN Q ELSE pages[q]
      /\ \A j \in Indexes : indexes'[j] = IF j = i THEN T ELSE indexes[j]
  BY <1>1, <1>2, NamesAssumption DEF At, TypeOK
<1>4. ~InUse(i) /\ (p # NULL => ~InUse(p))
  <2>1. ASSUME NEW q \in Pages, pages[q] = NULL PROVE ~InUse(q)
    BY <2>1, MountHas, MountingAssumption, NamesAssumption DEF InUse
  <2>2. ASSUME NEW j \in Indexes, indexes[j] = NULL PROVE ~InUse(j)
    BY <2>2, MountHas, MountingAssumption, NamesAssumption DEF InUse
  <2> QED
    BY <1>1, <2>1, <2>2, GivenFree
<1>5. ASSUME NEW n \in Mounts, mounts[n] # NULL
      PROVE  /\ n # m /\ indexes'[mounts[n].index] = indexes[mounts[n].index]
             /\ mounts[n].pages # NULL => pages'[mounts[n].pages] = pages[mounts[n].pages]
  <2>1. mounts[n].index \in Indexes /\ mounts[n].pages \in Pages \cup {NULL}
    BY <1>5, MountHas
  <2>2. mounts[n].index # i /\ (p # NULL => mounts[n].pages # p)
    BY <1>4, <1>5 DEF InUse
  <2> QED
    BY <1>3, <1>5, <2>1, <2>2
<1>6. Keeps(M) => Q # NULL /\ o.mode = "write"
  BY <1>1, <1>2 DEF Keeps
<1>7. OpenInv'
  <2>1. Keeping(M, pages'[p], T)
    <3>1. SUFFICES ASSUME Keeps(M) PROVE ~Q.readonly /\ (~T.changes => T.meta.size = SizeOf(Q.index))
      BY <1>1, <1>3, <1>6 DEF Keeping
    <3> QED
      BY <1>6, <3>1
  <2>2. ASSUME NEW n \in Mounts, mounts'[n] # NULL
        PROVE  Keeping(mounts'[n], pages'[mounts'[n].pages], indexes'[mounts'[n].index])
    <3>1. CASE n = m
      BY <1>1, <1>3, <2>1, <3>1
    <3>2. CASE n # m
      BY <1>3, <1>5, <2>2, <3>2 DEF OpenInv, Keeping, Keeps
    <3> QED
      BY <3>1, <3>2
  <2>3. \A q \in Pages : pages'[q] # NULL => OpenOf(pages'[q], archive')
    BY <1>1, <1>3 DEF OpenInv
  <2>4. \A q, r \in Pages : pages'[q] # NULL /\ pages'[r] # NULL => q = r
    BY <1>1, <1>3 DEF OpenInv, IsSensible
  <2> QED
    BY <2>2, <2>3, <2>4 DEF OpenInv
<1>8. SeenIs /\ SeenIs'
  <2>1. SeenIs
    BY SeenLooks
  <2>2. SeenIs'
    BY SeenLooks, PTL
  <2> QED
    BY <2>1, <2>2
<1>9. \A n \in Mounts : n # m => Seen(n)' = Seen(n)
  <2>1. SUFFICES ASSUME NEW n \in Mounts, n # m PROVE Seen(n)' = Seen(n)
    OBVIOUS
  <2>2. CASE mounts[n] = NULL
    BY <1>3, <1>8, <2>1, <2>2 DEF SeenIs
  <2>3. CASE mounts[n] # NULL
    <3>1. /\ Seen(n) = Look(mounts[n], pages[mounts[n].pages], indexes[mounts[n].index])
          /\ Seen(n)' = Look(mounts[n], pages'[mounts[n].pages], indexes[mounts[n].index])
      BY <1>3, <1>5, <1>8, <2>1, <2>3 DEF SeenIs
    <3> QED
      BY <1>5, <2>3, <3>1 DEF Look
  <2> QED
    BY <2>2, <2>3
<1> DEFINE number == IF Q = NULL THEN 0 ELSE Len(Q.stored)
<1>10. Seen(m) = NULL
       /\ Seen(m)' = [asked |-> o.size, uses |-> SizeUsed(o, I), size |-> T.meta.size,
                      pages |-> number, keeps |-> Keeps(M)]
  <2>1. Seen(m) = NULL /\ Seen(m)' = Look(M, pages'[p], T)
    BY <1>1, <1>3, <1>8 DEF SeenIs
  <2>2. Q # NULL => pages'[p] = Q
    BY <1>1, <1>3
  <2> QED
    BY <1>1, <2>1, <2>2 DEF Look
<1>11. /\ Known(archive).pages \in Nat
       /\ Q # NULL => Len(Q.stored) >= Known(archive).pages /\ Len(Q.stored) \in Nat
  BY <1>2, <1>3, ContentType DEF TypeOK, OpenOf, Content
<1>12. /\ number \in CabinetOfArchive!PageCounts \cup {1}
       /\ number = 0 => Known(archive).pages = 0 \/ ~Keeps(M)
       /\ number \notin CabinetOfArchive!PageCounts => Known(archive).pages = 0
  <2>1. CASE Q = NULL
    BY <1>6, <2>1 DEF CabinetOfArchive!PageCounts
  <2>2. CASE Q # NULL
    <3>1. number = Len(Q.stored)
      BY <2>2
    <3> HIDE DEF number
    <3> QED
      BY <1>11, <2>2, <3>1 DEF CabinetOfArchive!PageCounts
  <2> QED
    BY <2>1, <2>2
<1> HIDE DEF number
<1>13. /\ Keeps(M) \in BOOLEAN /\ I.meta.size \in CabinetOfArchive!SettingsFound
       /\ I.meta.size = NULL => Known(archive).size = NULL \/ ~Keeps(M) \/ NULL \in Hand.sizes
  BY <1>1, <1>6 DEF CabinetOfArchive!SettingsFound, Keeps, MountObjects
<1> DEFINE f == [n \in Mounts |-> Seen(n)]
<1>14. f[m] = NULL
       /\ f' = [f EXCEPT ![m] =
                  [asked |-> o.size, uses |-> CabinetOfArchive!Chosen(o.size, I.meta.size),
                   pages |-> number,
                   size |-> IF o.told # NULL THEN o.told
                            ELSE CabinetOfArchive!Chosen(o.size, I.meta.size),
                   keeps |-> Keeps(M)]]
  BY <1>9, <1>10
<1>15. Known(archive)' = Known(archive)
  BY <1>1
<1>16. CabinetOfArchive!Mount(m)
  <2>1. PICK asked, told, had, keeps :
          /\ asked = o.size /\ told = o.told /\ had = I.meta.size /\ keeps = Keeps(M)
          /\ asked \in Values \cup {NULL} /\ told \in {Bad, NULL}
          /\ had \in CabinetOfArchive!SettingsFound /\ keeps \in BOOLEAN
    BY <1>2, <1>13
  <2>2. /\ had = NULL => Known(archive).size = NULL \/ ~keeps \/ NULL \in Hand.sizes
        /\ number = 0 => Known(archive).pages = 0 \/ ~keeps
        /\ f' = [f EXCEPT ![m] =
                   [asked |-> asked, uses |-> CabinetOfArchive!Chosen(asked, had),
                    pages |-> number,
                    size |-> IF told # NULL THEN told
                             ELSE CabinetOfArchive!Chosen(asked, had),
                    keeps |-> keeps]]
    BY <1>12, <1>13, <1>14, <2>1
  <2>3. f[m] = NULL
    BY <1>14
  <2> HIDE DEF f
  <2> DEFINE Begins(x, t, h, n, k) ==
               /\ h = NULL => Known(archive).size = NULL \/ ~k \/ NULL \in Hand.sizes
               /\ n = 0 => Known(archive).pages = 0 \/ ~k
               /\ n \notin CabinetOfArchive!PageCounts => Known(archive).pages = 0
               /\ f' = [f EXCEPT ![m] =
                          [asked |-> x, uses |-> CabinetOfArchive!Chosen(x, h), pages |-> n,
                           size |-> IF t # NULL THEN t ELSE CabinetOfArchive!Chosen(x, h),
                           keeps |-> k]]
  <2>4. Begins(asked, told, had, number, keeps)
    BY <1>12, <2>1, <2>2
  <2> HIDE DEF Begins
  <2>5. \E x \in Values \cup {NULL}, t \in {Bad, NULL}, h \in CabinetOfArchive!SettingsFound,
           n \in CabinetOfArchive!PageCounts \cup {1}, k \in BOOLEAN : Begins(x, t, h, n, k)
    <3> USE <1>12, <2>1
    <3> WITNESS asked \in Values \cup {NULL}, told \in {Bad, NULL},
                had \in CabinetOfArchive!SettingsFound,
                number \in CabinetOfArchive!PageCounts \cup {1}, keeps \in BOOLEAN
    <3> QED
      BY <2>4
  <2> QED
    BY <1>15, <2>3, <2>5 DEF CabinetOfArchive!Mount, f, Begins
<1> QED
  BY <1>7, <1>16 DEF CabinetStep, CabinetOfArchive!Next

\* Whatever comes of a call of mount
LEMMA CabinetOfMount ==
  ASSUME ObjectsInv, ObjectsInv', OpenInv, CabinetCare, NEW m \in Mounts, Mount(m)
  PROVE  OpenInv' /\ CabinetStep
<1>1. TypeOK
  BY DEF ObjectsInv
<1>2. PICK o, P, I, S, Q, J, T, ok : Tried(m, o, P, I, S, Q, J, T, ok)
  BY <1>1, MountTried
<1>3. /\ o \in Options /\ IsSensible(o) /\ mounts[m] = NULL
      /\ P \in PageObjects \cup {NULL} /\ Q \in PageObjects \cup {NULL}
      /\ I \in IndexObjects /\ T \in IndexObjects
      /\ P = NULL <=> Q = NULL
      /\ P = NULL => o.pages = NULL
      /\ \/ UNCHANGED vars
         \/ /\ P = NULL => o.mode = "memory"
            /\ \/ Failed(o, P, I)
               \/ (~ok \/ o.fails = "told") /\ Failed(o, Q, J)
               \/ ok /\ Registered(o, Q, T)
               \/ ok /\ Begun(m, o, I, Q, T)
  <2>1. o \in Options /\ IsSensible(o) /\ P = PagesOf(o)
    BY <1>2 DEF Tried
  <2>2. P = NULL => o.pages = NULL
    BY <1>1, <2>1, ObjectsFound
  <2> QED
    BY <1>2, <2>2 DEF Tried
<1>4. /\ P # NULL =>
           /\ OpenOf(P, archive) /\ OpenOf(Q, archive)
           /\ o.mode = "write" => ~Q.readonly
           /\ o.pages = NULL => \A q \in Pages : pages[q] = NULL
           /\ {Len(P.stored), Len(Q.stored)} \subseteq {Known(archive).pages, 1} \cup Hand.pages
           /\ Len(Q.stored) \in {Known(archive).pages} \cup Hand.pages \/ Known(archive).pages = 0
           /\ ok /\ ~T.changes => T.meta.size = SizeOf(Q.index)
      /\ I.meta.size \in {Known(archive).size, NULL} \cup Hand.sizes
      /\ I.meta.size = NULL /\ P # NULL => Known(archive).size = NULL \/ NULL \in Hand.sizes
      /\ SizeUsed(o, I) = CabinetOfArchive!Chosen(o.size, I.meta.size)
      /\ T.meta.size = IF o.told # NULL THEN o.told ELSE SizeUsed(o, I)
  BY <1>2, MountFound
<1>5. T.meta.size \in Values \cup {Bad}
  BY <1>3, <1>4, SizeStored DEF Options
<1>6. CASE UNCHANGED vars
  <2>1. OpenInv'
    BY <1>6 DEF vars, OpenInv
  <2>2. SeenSame
    BY <1>6 DEF vars, SeenSame, Seen, IsMounted
  <2> QED
    BY <1>1, <1>6, <2>1, <2>2, QuietStep DEF vars
<1>7. ASSUME Failed(o, P, I) PROVE OpenInv' /\ CabinetStep
  BY <1>3, <1>4, <1>7, CabinetOfFailed
<1>8. ASSUME Failed(o, Q, J) PROVE OpenInv' /\ CabinetStep
  BY <1>3, <1>4, <1>8, CabinetOfFailed
<1>9. ASSUME ok, Registered(o, Q, T) PROVE OpenInv' /\ CabinetStep
  BY <1>3, <1>4, <1>5, <1>9, CabinetOfRegistered
<1>10. ASSUME ok, Begun(m, o, I, Q, T) PROVE OpenInv' /\ CabinetStep
  BY <1>3, <1>4, <1>10, CabinetOfBegun
<1> QED
  BY <1>3, <1>6, <1>7, <1>8, <1>9, <1>10

-----------------------------------------------------------------------------
(* The refinement.                                                         *)

LEMMA CabinetInit == Init => OpenInv /\ CabinetOfArchive!Init
<1> SUFFICES ASSUME Init PROVE OpenInv /\ CabinetOfArchive!Init
  OBVIOUS
<1>1. OpenInv
  BY DEF Init, OpenInv
<1>2. Known(archive) = [pages |-> 0, size |-> NULL]
  BY DEF Init, Known
<1>3. Hand.pages = {} /\ Hand.sizes = {} /\ Hand = [pages |-> {}, sizes |-> {}]
  BY DEF Init, Hand
<1>4. [m \in Mounts |-> Seen(m)] = [m \in Mounts |-> NULL]
  BY DEF Init, Seen, IsMounted
<1> QED
  BY <1>1, <1>2, <1>3, <1>4 DEF CabinetOfArchive!Init

LEMMA CabinetOfNext ==
  ASSUME ObjectsInv, ObjectsInv', OpenInv, CabinetCare, [Next]_vars
  PROVE  OpenInv' /\ CabinetStep
<1>1. CASE UNCHANGED vars
  <2>1. OpenInv'
    BY <1>1 DEF vars, OpenInv
  <2>2. SeenSame
    BY <1>1 DEF vars, SeenSame, Seen, IsMounted
  <2> QED
    BY <1>1, <2>1, <2>2, QuietStep DEF vars, ObjectsInv
<1>2. CASE Next
  BY <1>2, CabinetOfPages, CabinetOfIndexes, CabinetOfHandle, CabinetOfFile,
     CabinetOfUnmount, CabinetOfMount DEF Next, IndexTold
<1> QED
  BY <1>1, <1>2

\* Whatever mounts, commands and failures there were, unless mounts share objects,
\* an index is given that is not the one of its pages, or what is not in the
\* archive yet is taken for saved by an export or import: a mount uses the setting
\* it was asked for or else what the archive was left with, the archive is left
\* with what the last mount that may write had, and has all the pages there were
\* (Cookfs_Mount, Cookfs_VfsFini, CookfsUnmountCmd and Cookfs_PagesClose).
THEOREM SettingsOutliveMounts ==
  ASSUME CabinetCare
  PROVE  Spec => ImplementsCabinet
<1>1. Init => ObjectsInv /\ OpenInv /\ CabinetOfArchive!Init
  BY ObjectsInit, CabinetInit
<1>2. ObjectsInv /\ [Next]_vars => ObjectsInv'
  BY ObjectsStep DEF CabinetCare
<1>3. ObjectsInv /\ ObjectsInv' /\ OpenInv /\ [Next]_vars => OpenInv' /\ CabinetStep
  BY CabinetOfNext
<1> QED
  BY <1>1, <1>2, <1>3, PTL DEF Spec, ImplementsCabinet, CabinetOfArchive!Spec, CabinetStep
=============================================================================
