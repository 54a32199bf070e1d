------------------------------ MODULE Mounting ------------------------------
(***************************************************************************)
(* Mounting and unmounting an archive (vfsCmd.c, vfs.c): the options of    *)
(* cookfs::Mount, the objects it makes or is given, the settings it finds  *)
(* in the metadata of the index or leaves there, what it undoes when a     *)
(* step fails, the handle of a mount, and the commands of pages and index  *)
(* objects (pagesCmd.c, fsindexCmd.c) that live beside it.                 *)
(*                                                                         *)
(* One thread, one archive file, open in one pages object at a time.  The  *)
(* three sizes of a mount (page, small file, small file buffer) are read,  *)
(* checked and stored by the same code three times and are one setting     *)
(* here; a page is the hash it was stored with; threads, the tree of files *)
(* and the bytes of the archive are in other modules.                      *)
(***************************************************************************)
EXTENDS Integers, Sequences

CONSTANTS
  Mounts,   \* mount points
  Pages, Indexes, \* the objects: an address each
  Values,   \* proper values of the setting
  Default,  \* the one of a mount that finds no other
  Bad,      \* a value of metadata that is not proper
  MaxPages, \* bound: pages in the archive; one more while a mount ends
  Careless, \* what users do against the grain of the code, see below
  NULL

\* What a careless user does:
\*   shares     mounts with an object of another mount,
\*   supplies   lets a mount fail that was given objects,
\*   bootstrap  asks for a bootstrap with a hash other than md5, in a mount that
\*              does not write, or in one that then fails,
\*   mismatch   gives an index with other settings than those of the archive,
\*   switches   switches a new archive with another hash than md5 to memory,
\*   hash       sets the hash of pages with data, or the metadata that keeps it,
\*              or adds a page with another hash than the index names,
\*   exports    exports the index of a mount, or imports another, while what the
\*              metadata has is not in the archive yet: nothing counts as changed
\*              then, and the index is not saved.
ASSUME MountingAssumption ==
  /\ Default \in Values /\ {Bad, NULL} \cap Values = {} /\ Bad # NULL
  /\ NULL \notin Pages \cup Indexes /\ Pages \cap Indexes = {}
  /\ MaxPages \in Nat
  /\ Careless \subseteq {"shares", "supplies", "bootstrap", "mismatch", "switches", "hash",
                  "exports"}

Hashes == {"md5", "crc32"}
Metadata == [size : Values \cup {Bad, NULL}, hash : Hashes \cup {Bad, NULL}]
NoMetadata == [size |-> NULL, hash |-> NULL]

\* What is in the file, and the objects
Archives == [stored : Seq(Hashes), index : Metadata \cup {NULL}]
PageObjects ==
  [stored : Seq(Hashes), index : Metadata \cup {NULL}, changed : BOOLEAN,
   readonly : BOOLEAN, hash : Hashes, hard : BOOLEAN, command : BOOLEAN]
IndexObjects ==
  [meta : Metadata, changes : BOOLEAN, hard : BOOLEAN, command : BOOLEAN]
MountObjects ==
  [pages : Pages \cup {NULL}, index : Indexes, size : Values, asked : Values \cup {NULL},
   command : BOOLEAN, pending : BOOLEAN, readonly : BOOLEAN, toMemory : BOOLEAN]

\* What Cabinet sees of a mount
MountViews ==
  [asked : Values \cup {NULL}, uses : Values, size : Values \cup {Bad, NULL},
   pages : Nat, keeps : BOOLEAN]

\* NULL is none of the objects and their data, and no value is a hash.
ASSUME NamesAssumption ==
  /\ NULL \notin Hashes \cup Metadata \cup Archives
  /\ NULL \notin PageObjects \cup IndexObjects \cup MountObjects \cup MountViews
  /\ Bad \notin Hashes

VARIABLES
  archive, \* the file: its pages and its index, or NULL without an archive
  pages, indexes, \* the objects, NULL while there is none
  mounts,  \* mounted: the objects, the setting in use and the handle; or NULL
  left     \* objects that an unmount that failed left behind

vars == <<archive, pages, indexes, mounts, left>>

-----------------------------------------------------------------------------
\* Objects

\* Only one pages object has the file open; what mounts without pages meanwhile
\* is a mount of a file that cannot be opened.
IsOpen == \E p \in Pages : pages[p] # NULL

\* Cookfs_PagesInit: a file without an archive will be one, unless it is opened
\* to read.
CanOpen(readonly) == ~IsOpen /\ (readonly => archive # NULL)
OpenedPages(readonly) ==
  [stored |-> IF archive = NULL THEN <<>> ELSE archive.stored,
   index |-> IF archive = NULL THEN NULL ELSE archive.index,
   changed |-> archive = NULL, readonly |-> readonly,
   hash |-> "md5", hard |-> FALSE, command |-> FALSE]

\* Cookfs_FsindexInit, or Cookfs_FsindexFromBytes of the data that pages have
NewIndex(data) ==
  [meta |-> IF data = NULL THEN NoMetadata ELSE data,
   changes |-> FALSE, hard |-> FALSE, command |-> FALSE]

\* Mutant: the counter of changes is left alone.
SetMetadataUncounted(I, key, v) == [I EXCEPT !.meta[key] = v]

\* Cookfs_FsindexSetMetadata
SetMetadata(I, key, v) == [I EXCEPT !.meta[key] = v, !.changes = TRUE]

\* Cookfs_PageAddRaw of a page that is not there yet
WithPage(P) == [P EXCEPT !.stored = Append(@, P.hash), !.changed = TRUE]

\* Cookfs_PagesClose: the archive after pages P were closed
Saved(P) ==
  IF P.changed /\ ~P.readonly THEN [stored |-> P.stored, index |-> P.index]
                              ELSE archive

\* What changes in mount M goes to the archive.
Keeps(M) == M.pages # NULL /\ ~M.readonly /\ ~M.toMemory

InUse(o) == \E m \in Mounts : mounts[m] # NULL /\ o \in {mounts[m].pages, mounts[m].index}

-----------------------------------------------------------------------------
\* The commands of objects.

\* cookfs::pages file
RegisterPages(p) ==
  /\ pages[p] = NULL
  /\ \E readonly \in BOOLEAN :
       /\ CanOpen(readonly)
       /\ pages' = [pages EXCEPT ![p] = [OpenedPages(readonly) EXCEPT !.command = TRUE]]
  /\ UNCHANGED <<archive, indexes, mounts, left>>

\* The data of an index that a user can have: of an empty one, what
\* "$pages index" returns, or what "$index export" does.
DataInHand ==
  {NoMetadata}
    \cup ({pages[p].index : p \in {q \in Pages : pages[q] # NULL /\ pages[q].command}} \ {NULL})
    \cup {indexes[i].meta : i \in {j \in Indexes : indexes[j] # NULL /\ indexes[j].command}}

\* cookfs::fsindex, of nothing or of data
RegisterIndex(i) ==
  /\ indexes[i] = NULL
  /\ \E data \in DataInHand :
       indexes' = [indexes EXCEPT ![i] = [NewIndex(data) EXCEPT !.command = TRUE]]
  /\ UNCHANGED <<archive, pages, mounts, left>>

\* The hash a mount will use for the pages of the archive as it is
NamedHash(P) ==
  IF P.index = NULL THEN "md5"
  ELSE IF P.index.hash \in Hashes THEN P.index.hash ELSE "md5"

\* The hash of pages is the one that the index they have, or will have, names.
HasItsHash(p) ==
  IF pages[p].hard
    THEN \E m \in Mounts : IF mounts[m] = NULL THEN FALSE
                          ELSE mounts[m].pages = p /\ Keeps(mounts[m])
  ELSE pages[p].hash = NamedHash(pages[p])

\* "$pages add"
PagesCmdAdd(p) ==
  /\ pages[p] # NULL /\ pages[p].command /\ p \notin left
  /\ ~pages[p].readonly /\ Len(pages[p].stored) < MaxPages
  /\ HasItsHash(p) \/ "hash" \in Careless
  /\ pages' = [pages EXCEPT ![p] = WithPage(@)]
  /\ UNCHANGED <<archive, indexes, mounts, left>>

\* "$pages hash"
CookfsPagesCmdHash(p) ==
  /\ pages[p] # NULL /\ pages[p].command /\ p \notin left
  /\ "hash" \in Careless \/ (pages[p].stored = <<>> /\ ~pages[p].hard)
  /\ \E h \in Hashes : pages' = [pages EXCEPT ![p].hash = h]
  /\ UNCHANGED <<archive, indexes, mounts, left>>

\* Mutant: the object is freed although a mount has it.
PagesDeleteAnyway(p) ==
  /\ pages[p] # NULL /\ pages[p].command
  /\ pages' = [pages EXCEPT ![p] = NULL] /\ archive' = Saved(pages[p])
  /\ UNCHANGED <<indexes, mounts, left>>

\* CookfsPagesDeleteProc: what is locked hard only loses its command.
PagesDelete(p) ==
  /\ pages[p] # NULL /\ pages[p].command
  /\ IF pages[p].hard
       THEN pages' = [pages EXCEPT ![p].command = FALSE] /\ UNCHANGED archive
       ELSE pages' = [pages EXCEPT ![p] = NULL] /\ archive' = Saved(pages[p])
  /\ UNCHANGED <<indexes, mounts, left>>

IndexDelete(i) ==
  /\ indexes[i] # NULL /\ indexes[i].command
  /\ indexes' = [indexes EXCEPT ![i] =
                   IF @.hard THEN [@ EXCEPT !.command = FALSE] ELSE NULL]
  /\ UNCHANGED <<archive, pages, mounts, left>>

HasCommand(i) == indexes[i] # NULL /\ indexes[i].command /\ i \notin left

\* A mount with index i may save it.
KeptBy(m, i) == IF mounts[m] = NULL THEN FALSE ELSE mounts[m].index = i /\ Keeps(mounts[m])

\* Metadata of index i that need not be saved: the archive has it.
IsInArchive(i, meta) ==
  \A m \in Mounts : KeptBy(m, i) => meta = NewIndex(pages[mounts[m].pages].index).meta

\* The hash of an index that may be saved is that of the pages.
MayName(i, h) ==
  "hash" \in Careless \/ indexes[i].meta.hash = h \/ \A m \in Mounts : ~KeptBy(m, i)

\* "$index export": what is exported counts as saved (Cookfs_FsindexToObject).
IndexCmdExport(i) ==
  /\ HasCommand(i)
  /\ "exports" \in Careless \/ IsInArchive(i, indexes[i].meta)
  /\ indexes' = [indexes EXCEPT ![i].changes = FALSE]
  /\ UNCHANGED <<archive, pages, mounts, left>>

\* "$index import": what is imported counts as saved (Cookfs_FsindexFromBytes),
\* as does the empty index that data leave which are refused.
IndexCmdImport(i) ==
  /\ HasCommand(i)
  /\ \E data \in DataInHand :
       /\ "exports" \in Careless \/ IsInArchive(i, data)
       /\ MayName(i, data.hash)
       /\ indexes' = [indexes EXCEPT ![i].meta = data, ![i].changes = FALSE]
  /\ UNCHANGED <<archive, pages, mounts, left>>

\* "$index setmetadata", whether the mount writes or not
IndexCmdSetMetadata(i) ==
  /\ HasCommand(i)
  /\ \E key \in {"size", "hash"}, v \in Values \cup Hashes \cup {Bad} :
       /\ key = "size" => v \in Values \cup {Bad}
       /\ key = "hash" => v \in Hashes \cup {Bad} /\ MayName(i, v)
       /\ indexes' = [indexes EXCEPT ![i] = SetMetadata(@, key, v)]
  /\ UNCHANGED <<archive, pages, mounts, left>>

\* "$index unsetmetadata"
IndexCmdUnsetMetadata(i) ==
  /\ HasCommand(i)
  /\ \E key \in {"size", "hash"} :
       /\ indexes[i].meta[key] # NULL
       /\ key = "hash" => MayName(i, NULL)
       /\ indexes' = [indexes EXCEPT ![i] = SetMetadata(@, key, NULL)]
  /\ UNCHANGED <<archive, pages, mounts, left>>

\* The commands that change the tree of files: set, setmtime, unset, fileset
IndexCmdSet(i) ==
  /\ HasCommand(i)
  /\ indexes' = [indexes EXCEPT ![i].changes = TRUE]
  /\ UNCHANGED <<archive, pages, mounts, left>>

-----------------------------------------------------------------------------
\* Mounting.  The steps of Cookfs_Mount work on the objects it has so far.

\* It may fail in selecting the fileset, in -setmetadata with an odd list, or,
\* after the mount object was made, in tclvfs; other failures follow from the
\* objects.
Failures == {"no", "fileset", "told", "register"}

Options ==
  [pages : Pages \cup {NULL}, index : Indexes \cup {NULL},
   mode : {"write", "read", "memory"}, size : Values \cup {NULL},
   hash : Hashes, bootstrap : BOOLEAN, told : {Bad, NULL}, fails : Failures]

\* The pages: those given, or the file opened
Readonly(o) == o.mode # "write"
PagesOf(o) ==
  IF o.pages # NULL THEN [pages[o.pages] EXCEPT !.hard = TRUE]
  ELSE IF CanOpen(Readonly(o)) THEN [OpenedPages(Readonly(o)) EXCEPT !.hard = TRUE]
  ELSE NULL

\* The index: the one given, or what the pages have
IndexOf(o, P) ==
  [IF o.index # NULL THEN indexes[o.index]
   ELSE NewIndex(IF P = NULL THEN NULL ELSE P.index) EXCEPT !.hard = TRUE]

\* The options that are given: not an object without a command, pages to read
\* only in a mount that writes, an index that does not know the hash of the
\* pages, or what else only a careless user does.
Given(o) == {o.pages, o.index} \ {NULL}
Matches(o, P) ==
  \/ o.index = NULL \/ P = NULL \/ "mismatch" \in Careless
  \/ P.stored = <<>>
  \/ indexes[o.index].meta = NewIndex(P.index).meta

IsSensible(o) ==
  /\ o.pages # NULL =>
       /\ pages[o.pages] # NULL /\ pages[o.pages].command
       /\ o.mode = "write" => ~pages[o.pages].readonly
  /\ o.index # NULL => indexes[o.index] # NULL /\ indexes[o.index].command
  /\ Matches(o, PagesOf(o))
  /\ Given(o) \cap left = {}
  /\ o.bootstrap => MaxPages > 0
  /\ "shares" \in Careless \/ \A x \in Given(o) : ~InUse(x)
  /\ \/ "bootstrap" \in Careless \/ ~o.bootstrap
     \/ o.mode = "write" /\ o.hash = "md5" /\ o.fails # "told"
  /\ "supplies" \in Careless \/ Given(o) = {} \/ o.fails \in {"no", "register"}
  /\ o.told # NULL => o.fails # "told"

\* The setting asked for is stored, and so is the default where there is none.
Sized(o, I) ==
  IF o.size # NULL THEN SetMetadata(I, "size", o.size)
  ELSE IF I.meta.size \in Values THEN I ELSE SetMetadata(I, "size", Default)

SizeUsed(o, I) ==
  IF o.size # NULL THEN o.size
  ELSE IF I.meta.size \in Values THEN I.meta.size ELSE Default

\* Mutant: the hash asked for is set whatever the pages have.
HashedAsAsked(o, P, I) ==
  [ok |-> TRUE, pages |-> [P EXCEPT !.hash = o.hash],
   index |-> SetMetadata(I, "hash", o.hash)]

\* Pages with data are used with the hash the metadata names; empty ones get
\* the bootstrap, then the hash asked for, which the metadata keeps.
Hashed(o, P, I) ==
  LET B == IF o.bootstrap THEN WithPage(P) ELSE P
      h == IF o.hash # "md5" THEN o.hash ELSE B.hash
  IN IF P.stored # <<>>
       THEN [ok |-> I.meta.hash # Bad, index |-> I,
             pages |-> IF I.meta.hash \in Hashes THEN [P EXCEPT !.hash = I.meta.hash]
                                                 ELSE P]
     ELSE IF o.bootstrap /\ P.readonly
       THEN [ok |-> FALSE, pages |-> P, index |-> I]
     ELSE [ok |-> TRUE, pages |-> [B EXCEPT !.hash = h],
           index |-> SetMetadata(I, "hash", h)]

Told(o, I) == IF o.told # NULL THEN SetMetadata(I, "size", o.told) ELSE I

\* Cookfs_VfsFini: the pages as they are closed, with the index if it changed
WithIndex(P, I, readonly, toMemory) ==
  IF I.changes /\ ~readonly /\ ~toMemory
    THEN [P EXCEPT !.index = I.meta, !.changed = TRUE] ELSE P

At(f, x, y) == IF x = NULL THEN f ELSE [f EXCEPT ![x] = y]

\* A call that fails before there is a mount object: what it made is freed, the
\* pages are closed; what it was given stays as it is by now, locked hard.
Undone(o, P, I) ==
  /\ mounts' = mounts /\ left' = left
  /\ pages' = At(pages, o.pages, P)
  /\ indexes' = At(indexes, o.index, I)
  /\ archive' = IF o.pages = NULL /\ P # NULL THEN Saved(P) ELSE archive

\* Cookfs_VfsFini frees pages and index, whoever made them.
Finished(p, i, P, I, readonly, toMemory) ==
  /\ pages' = At(pages, p, NULL)
  /\ indexes' = At(indexes, i, NULL)
  /\ archive' = IF P = NULL THEN archive ELSE Saved(WithIndex(P, I, readonly, toMemory))
  /\ left' = left

\* Cookfs_Mount
Mount(m) ==
  /\ mounts[m] = NULL
  /\ \E o \in {x \in Options : IsSensible(x)} :
       LET P == PagesOf(o)
           I == IndexOf(o, P)
           S == Sized(o, I)
           H == IF P = NULL THEN [ok |-> TRUE, pages |-> NULL, index |-> S]
                            ELSE Hashed(o, P, S)
           T == Told(o, H.index)
       IN /\ ~H.ok => (IF "supplies" \in Careless THEN TRUE ELSE Given(o) = {})
          /\ IF P = NULL /\ o.mode # "memory"
               THEN o.index = NULL /\ UNCHANGED vars
             ELSE IF o.fails = "fileset" THEN Undone(o, P, I)
             ELSE IF ~H.ok \/ o.fails = "told" THEN Undone(o, H.pages, H.index)
             ELSE IF o.fails = "register"
               THEN /\ mounts' = mounts
                    /\ Finished(o.pages, o.index, H.pages, T,
                                o.mode = "read", o.mode = "memory")
             ELSE \E p \in (IF P = NULL THEN {NULL}
                            ELSE IF o.pages # NULL THEN {o.pages}
                            ELSE {q \in Pages : pages[q] = NULL}),
                     i \in (IF o.index # NULL THEN {o.index}
                            ELSE {j \in Indexes : indexes[j] = NULL}) :
                    /\ pages' = At(pages, p, H.pages)
                    /\ indexes' = At(indexes, i, T)
                    /\ mounts' = [mounts EXCEPT ![m] =
                         [pages |-> p, index |-> i, size |-> SizeUsed(o, I),
                          asked |-> o.size, command |-> TRUE, pending |-> FALSE,
                          readonly |-> o.mode = "read", toMemory |-> o.mode = "memory"]]
                    /\ UNCHANGED <<archive, left>>

-----------------------------------------------------------------------------
\* A mount and its handle.  What becomes of a call on a freed object is left
\* out: MountsAreWhole says that none is made.
IsMounted(m) ==
  /\ mounts[m] # NULL /\ indexes[mounts[m].index] # NULL
  /\ mounts[m].pages # NULL => pages[mounts[m].pages] # NULL

HasHandle(m) == IsMounted(m) /\ mounts[m].command

\* The handle's getpages, which without pages would crash, and getindex
GetPages(m) ==
  /\ HasHandle(m) /\ mounts[m].pages # NULL
  /\ pages' = [pages EXCEPT ![mounts[m].pages].command = TRUE]
  /\ UNCHANGED <<archive, indexes, mounts, left>>

GetIndex(m) ==
  /\ HasHandle(m)
  /\ indexes' = [indexes EXCEPT ![mounts[m].index].command = TRUE]
  /\ UNCHANGED <<archive, pages, mounts, left>>

\* The handle's setmetadata
HandleSetMetadata(m) ==
  /\ HasHandle(m) /\ ~mounts[m].readonly
  /\ \E key \in {"size", "hash"}, v \in Values \cup Hashes \cup {Bad} :
       /\ key = "size" => v \in Values \cup {Bad}
       /\ key = "hash" => "hash" \in Careless /\ v \in Hashes \cup {Bad}
       /\ indexes' = [indexes EXCEPT ![mounts[m].index] = SetMetadata(@, key, v)]
  /\ UNCHANGED <<archive, pages, mounts, left>>

\* Pages that the archive's own index, the one that is saved if no other is,
\* does not name the hash of.
HasUnnamedPages(m) ==
  IF mounts[m].pages = NULL THEN FALSE
  ELSE LET P == pages[mounts[m].pages]
       IN P.changed /\ P.hash # NamedHash(P)

\* The handle's writetomemory
HandleWritetomemory(m) ==
  /\ HasHandle(m)
  /\ "switches" \in Careless \/ ~HasUnnamedPages(m)
  /\ mounts' = [mounts EXCEPT ![m].toMemory = TRUE, ![m].readonly = FALSE]
  /\ UNCHANGED <<archive, pages, indexes, left>>

\* The handle is deleted: the mount stays.
HandleDelete(m) ==
  /\ HasHandle(m)
  /\ mounts' = [mounts EXCEPT ![m].command = FALSE]
  /\ UNCHANGED <<archive, pages, indexes, left>>

\* A file is closed: the writer makes a page of it or keeps it in its buffer.
StoreFile(m) ==
  /\ IsMounted(m) /\ ~mounts[m].readonly
  /\ indexes' = [indexes EXCEPT ![mounts[m].index].changes = TRUE]
  /\ IF mounts[m].toMemory THEN UNCHANGED <<pages, mounts>>
       ELSE /\ Len(pages[mounts[m].pages].stored) < MaxPages
            /\ \E isSmall \in BOOLEAN :
                 /\ pages' = IF isSmall THEN pages
                             ELSE [pages EXCEPT ![mounts[m].pages] = WithPage(@)]
                 /\ mounts' = [mounts EXCEPT ![m].pending = @ \/ isSmall]
  /\ UNCHANGED <<archive, left>>

\* Cookfs_WriterPurge: the pages with what was kept in the buffer, and the index
\* where the files of the buffer change
Buffered(m) == mounts[m].pending /\ ~mounts[m].toMemory
Purged(m, P) == IF Buffered(m) THEN WithPage(P) ELSE P
Recounted(m, I) == [I EXCEPT !.changes = @ \/ Buffered(m)]

\* CookfsUnmountCmd, whether called by the user or by tclvfs.  A purge that fails
\* ends it with the mount no longer listed and everything locked.
Unmount(m) ==
  /\ IsMounted(m)
  /\ mounts' = [mounts EXCEPT ![m] = NULL]
  /\ LET p == mounts[m].pages
         i == mounts[m].index
         P == IF p = NULL THEN NULL ELSE Purged(m, pages[p])
     IN \E purged \in BOOLEAN :
          /\ ~purged => Buffered(m)
          /\ IF purged
               THEN Finished(p, i, P, Recounted(m, indexes[i]), mounts[m].readonly,
                             mounts[m].toMemory)
               ELSE /\ left' = left \cup {p, i}
                    /\ UNCHANGED <<archive, pages, indexes>>

-----------------------------------------------------------------------------
\* The program starts without an archive.
Init ==
  /\ archive = NULL
  /\ pages = [p \in Pages |-> NULL] /\ indexes = [i \in Indexes |-> NULL]
  /\ mounts = [m \in Mounts |-> NULL] /\ left = {}

Next ==
  \/ \E p \in Pages :
       RegisterPages(p) \/ PagesCmdAdd(p) \/ CookfsPagesCmdHash(p) \/ PagesDelete(p)
  \/ \E i \in Indexes :
       \/ RegisterIndex(i) \/ IndexDelete(i) \/ IndexCmdExport(i) \/ IndexCmdImport(i)
       \/ IndexCmdSetMetadata(i) \/ IndexCmdUnsetMetadata(i) \/ IndexCmdSet(i)
  \/ \E m \in Mounts :
       \/ Mount(m) \/ Unmount(m) \/ StoreFile(m)
       \/ GetPages(m) \/ GetIndex(m) \/ HandleDelete(m)
       \/ HandleSetMetadata(m) \/ HandleWritetomemory(m)

Spec == Init /\ [][Next]_vars
-----------------------------------------------------------------------------
\* Properties

\* The variables have these types.
TypeOK ==
  /\ archive \in Archives \cup {NULL}
  /\ pages \in [Pages -> PageObjects \cup {NULL}]
  /\ indexes \in [Indexes -> IndexObjects \cup {NULL}]
  /\ mounts \in [Mounts -> MountObjects \cup {NULL}]
  /\ left \subseteq Pages \cup Indexes

\* "could not remove locked object" (pages.c, fsindex.c): whatever the user does
\* with the commands of objects, a mount has its pages and its index until it is
\* unmounted, and then they are freed: an object without a mount and without a
\* command is one that a failed unmount left.
MountsAreWhole ==
  /\ TypeOK
  /\ \A m \in Mounts : mounts[m] # NULL =>
       /\ indexes[mounts[m].index] # NULL /\ indexes[mounts[m].index].hard
       /\ mounts[m].pages # NULL =>
            pages[mounts[m].pages] # NULL /\ pages[mounts[m].pages].hard
  /\ \A p \in Pages : pages[p] # NULL =>
       InUse(p) \/ p \in left \/ (pages[p].command /\ ~pages[p].hard)
  /\ \A i \in Indexes : indexes[i] # NULL =>
       InUse(i) \/ i \in left \/ (indexes[i].command /\ ~indexes[i].hard)

\* A page that is read is verified with the hash of its pages object
\* (pagesCompr.c).  The hash is chosen when an archive is made and found in the
\* metadata of its index afterwards: in every mount, however the archive came to
\* be, it is the one each page was stored with.
PagesVerify ==
  \A m \in Mounts :
    IsMounted(m) /\ mounts[m].pages # NULL =>
      \A k \in DOMAIN pages[mounts[m].pages].stored :
        pages[mounts[m].pages].stored[k] = pages[mounts[m].pages].hash

Known(a) ==
  IF a = NULL THEN [pages |-> 0, size |-> NULL]
  ELSE [pages |-> Len(a.stored), size |-> IF a.index = NULL THEN NULL ELSE a.index.size]

Hand ==
  [pages |-> {Len(pages[p].stored) :
                p \in {q \in Pages : pages[q] # NULL /\ pages[q].command}},
   sizes |-> {indexes[i].meta.size :
                i \in {j \in Indexes : indexes[j] # NULL /\ indexes[j].command}}]

Seen(m) ==
  IF ~IsMounted(m) THEN NULL
  ELSE [asked |-> mounts[m].asked, uses |-> mounts[m].size,
        size |-> indexes[mounts[m].index].meta.size,
        pages |-> IF mounts[m].pages = NULL THEN 0
                  ELSE Len(pages[mounts[m].pages].stored),
        keeps |-> Keeps(mounts[m])]

CabinetOfArchive ==
  INSTANCE Cabinet WITH archive <- Known(archive), hand <- Hand,
                        mounted <- [m \in Mounts |-> Seen(m)]

\* Settings stick: over any sequence of mounts, commands and failures a mount
\* uses what it was asked for or what the archive was left with, an archive is
\* left with what the last mount that may write had, and pages are never lost.
ImplementsCabinet == CabinetOfArchive!Spec
=============================================================================
