------------------------------- MODULE Fsindex -------------------------------
(***************************************************************************)
(* The file index (fsindex.c), its export and import (fsindexIO.c), the    *)
(* index command (fsindexCmd.c), and how a mount loads and saves it        *)
(* (vfsCmd.c, vfs.c).                                                      *)
(*                                                                         *)
(* An entry is named by its path from the root, filesets included, and     *)
(* tree holds the entries that are allocated.  A directory is a table of   *)
(* TableSize slots until it has too many children, and a hash afterwards;  *)
(* what a search finds depends on the slots only, so that an entry may be  *)
(* allocated and lost.  Operations hold the index's write lock (module     *)
(* RWMutex), so each is one step.  Times of entries, held entries and      *)
(* pending files have modules of their own (Driver, Writer).               *)
(***************************************************************************)
EXTENDS Integers, Sequences, SequencesExt, FiniteSets, FiniteSetsExt

CONSTANTS
  Names,      \* names of entries
  Hosts,      \* the names of the automatic fileset on different machines
  Automatic,  \* the mode "auto" of filesets
  Custom,     \* names given for a fileset
  Directories,\* paths of directories, from the fileset
  Commanded,  \* paths of files made by the index command
  Written,    \* paths of files made by the writer
  Pages,      \* page numbers that blocks have
  Lists,      \* the pages of the blocks of files, -1 for a block that has none
  Data,       \* images of other indexes, from exports
  TableSize,  \* COOKFS_FSINDEX_TABLE_MAXENTRIES
  MaxEntries, \* bound: entries of an index
  MaxUsage,   \* bound: files that use a page, or did
  MaxExported,\* bound: entries of an index that is exported or saved
  Events,     \* what may happen, see below
  NULL

\* What may happen:
\*   asideEmpty     changes go aside when there is no index yet,
\*   asideImported  changes go aside after an index without filesets was imported
\*                  in the place of one with filesets.
ASSUME FsindexAssumption ==
  /\ Hosts \subseteq Names /\ Custom \subseteq Names /\ Automatic \in Names
  /\ \A p \in Directories \cup Commanded \cup Written : p \in Seq(Names) /\ p # <<>>
  /\ Pages \subseteq Nat /\ \A l \in Lists : l \in Seq(Pages \cup {-1})
  /\ TableSize \in Nat \ {0} /\ MaxEntries \in Nat /\ MaxUsage \in Nat
  /\ MaxExported \in Nat
  /\ NULL \notin Names \cup {"automatic", "custom"}
  /\ Events \subseteq {"asideEmpty", "asideImported"}

VARIABLES
  index,    \* the Cookfs_Fsindex of the mount
  saved,    \* what the archive holds: the image of an index, or nothing
  given,    \* the image that the index command exported or imported, while no change
            \* is counted since and nothing was mounted; or nothing
  readonly, \* is the mount readonly?
  host      \* the machine that mounts

vars == <<index, saved, given, readonly, host>>

-----------------------------------------------------------------------------
\* Entries and directories

EmptyTable == [i \in 1 .. TableSize |-> NULL]

Directory ==
  [kind |-> "dir", isHash |-> FALSE, table |-> EmptyTable, children |-> {}, childCount |-> 0]

\* isCounted: isFileBlocksInitialized, the index counts the blocks when it is freed
File(blocks, isCounted) == [kind |-> "file", blocks |-> blocks, isCounted |-> isCounted]

\* A new entry, or another in its place
Place(tree, p, entry) == [q \in DOMAIN tree \cup {p} |-> IF q = p THEN entry ELSE tree[q]]

EmptyIndex ==
  [tree |-> [q \in {<<>>} |-> Directory], rootItemVirtual |-> <<>>,
   blockIndex |-> [g \in Pages |-> 0], isChanged |-> FALSE, metadata |-> NULL]

IsDirectory(t, p) == p \in DOMAIN t /\ t[p].kind = "dir"

Children(d) == IF d.isHash THEN d.children ELSE Range(d.table) \ {NULL}

FindChild(d, n) == n \in Children(d)

FindElement(ix, path) ==
  LET full == ix.rootItemVirtual \o path
      Up(k) == SubSeq(full, 1, k)
  IN IF \A k \in Len(ix.rootItemVirtual) .. Len(full) - 1 :
          IsDirectory(ix.tree, Up(k)) /\ FindChild(ix.tree[Up(k)], full[k + 1])
     THEN full ELSE NULL

\* The entry and what is below it
Subtree(t, p) ==
  {q \in DOMAIN t : /\ IsPrefix(p, q)
                    /\ \A k \in Len(p) .. Len(q) - 1 : q[k + 1] \in Children(t[SubSeq(q, 1, k)])}

\* How many blocks of files among S are page g
Uses(t, S, g) ==
  Cardinality(UNION {{q} \X {k \in DOMAIN t[q].blocks : t[q].blocks[k] = g} :
                       q \in {f \in S : t[f].kind = "file"}})

\* The files whose blocks are counted down when the entry is freed
FreedFiles(ix, p) ==
  {q \in Subtree(ix.tree, p) : ix.tree[q].kind = "file" /\ ix.tree[q].isCounted}

EntryFree(ix, p) ==
  [ix EXCEPT !.tree = [q \in DOMAIN @ \ Subtree(@, p) |-> @[q]],
             !.blockIndex = [g \in Pages |-> @[g] - Uses(ix.tree, FreedFiles(ix, p), g)]]

-----------------------------------------------------------------------------
\* Searching, creating and deleting in one directory

ChildtableToHash(d) ==
  [d EXCEPT !.isHash = TRUE, !.children = Children(d), !.table = EmptyTable]

Converted(d) == IF ~d.isHash /\ d.childCount >= TableSize - 1 THEN ChildtableToHash(d) ELSE d

\* Mutant: the slot behind the last child is taken, not the first free one
AppendedChild(d, n) ==
  IF d.isHash THEN [d EXCEPT !.children = @ \cup {n}, !.childCount = @ + 1]
  ELSE [d EXCEPT !.table[d.childCount + 1] = n, !.childCount = @ + 1]

AddChild(d, n) ==
  LET free == {i \in 1 .. TableSize : d.table[i] = NULL}
  IN IF d.isHash THEN [d EXCEPT !.children = @ \cup {n}, !.childCount = @ + 1]
     ELSE IF free = {} THEN [d EXCEPT !.childCount = @ + 1]
     ELSE [d EXCEPT !.table[Min(free)] = n, !.childCount = @ + 1]

InsertChild(d, n) == AddChild(Converted(d), n)

RemoveChild(d, n) ==
  [d EXCEPT !.childCount = @ - 1, !.children = @ \ {n},
            !.table = [i \in 1 .. TableSize |-> IF @[i] = n THEN NULL ELSE @[i]]]

\* COOKFSFSINDEX_FIND_CREATE: an entry of the same kind is replaced.  What may
\* be refused gives the set of what comes of it: an index, or nothing.
CreateIn(ix, dir, n, entry) ==
  LET p == Append(dir, n)
      d == ix.tree[dir]
  IN IF ~FindChild(d, n)
     THEN {[ix EXCEPT !.tree = Place([@ EXCEPT ![dir] = InsertChild(d, n)], p, entry)]}
     ELSE IF ix.tree[p].kind # entry.kind THEN {}
     ELSE {[EntryFree(ix, p) EXCEPT !.tree = Place(@, p, entry)]}

IsEmpty(e) == e.kind = "file" \/ e.childCount = 0

\* Mutant: a directory is deleted with what is in it though nobody asked for it
DeletesAll(ix, dir, n, recursive) ==
  LET p == Append(dir, n)
  IN IF ~FindChild(ix.tree[dir], n) THEN {}
     ELSE {[EntryFree(ix, p) EXCEPT !.tree[dir] = RemoveChild(@, n)]}

\* COOKFSFSINDEX_FIND_DELETE, and COOKFSFSINDEX_FIND_DELETE_RECURSIVE
DeleteIn(ix, dir, n, recursive) ==
  LET p == Append(dir, n)
  IN IF ~FindChild(ix.tree[dir], n) \/ (~recursive /\ ~IsEmpty(ix.tree[p])) THEN {}
     ELSE {[EntryFree(ix, p) EXCEPT !.tree[dir] = RemoveChild(@, n)]}

Changed(results) == {[r EXCEPT !.isChanged = TRUE] : r \in results}

\* Mutant: a deletion is not counted as a change
UncountedDelete(ix, path, recursive) ==
  LET dir == FindElement(ix, Front(path))
  IN IF dir = NULL \/ ~IsDirectory(ix.tree, dir) THEN {}
     ELSE DeleteIn(ix, dir, Last(path), recursive)

Unset(ix, path, recursive) ==
  LET dir == FindElement(ix, Front(path))
  IN IF dir = NULL \/ ~IsDirectory(ix.tree, dir) THEN {}
     ELSE Changed(DeleteIn(ix, dir, Last(path), recursive))

SetEntry(ix, path, entry) ==
  LET dir == FindElement(ix, Front(path))
  IN IF dir = NULL \/ ~IsDirectory(ix.tree, dir) THEN {}
     ELSE Changed(CreateIn(ix, dir, Last(path), entry))

ModifyBlockUsage(usage, g, count) ==
  IF g < 0 THEN usage ELSE [usage EXCEPT ![g] = @ + count]

EntrySetBlock(ix, p, k, g) ==
  [ix EXCEPT !.tree[p].blocks[k] = g, !.isChanged = TRUE,
             !.blockIndex = ModifyBlockUsage(ModifyBlockUsage(@, ix.tree[p].blocks[k], -1), g, 1)]

\* The blocks of a new file are counted all at once, by the index command and
\* an import
CountBlocks(ix, S) ==
  [ix EXCEPT !.blockIndex = [g \in Pages |-> @[g] + Uses(ix.tree, S, g)]]

-----------------------------------------------------------------------------
\* Export and import.  An image has the children of a directory in order.

\* The children of a table in the order of its slots
Present(s) ==
  LET upTo[k \in 0 .. Len(s)] ==
        IF k = 0 THEN <<>>
        ELSE IF s[k] = NULL THEN upTo[k - 1] ELSE Append(upTo[k - 1], s[k])
  IN upTo[Len(s)]

\* Mutant: as many slots are exported as there are children
OrdersToCount(d) ==
  IF d.isHash THEN SetToSeqs(d.children)
  ELSE {Present(SubSeq(d.table, 1, d.childCount))}

ChildOrders(d) == IF d.isHash THEN SetToSeqs(d.children) ELSE {Present(d.table)}

\* The images an export may give: a hash has its children in any order
ToObject(ix) ==
  LET entries == Subtree(ix.tree, <<>>)
      dirs == {q \in entries : IsDirectory(ix.tree, q)}
      orders == [q \in dirs |-> ChildOrders(ix.tree[q])]
  IN {[metadata |-> ix.metadata,
       tree |-> [q \in entries |->
                   IF q \in dirs THEN [kind |-> "dir", order |-> f[q]]
                   ELSE [kind |-> "file", blocks |-> ix.tree[q].blocks]]] :
        f \in {g \in [dirs -> UNION Range(orders)] : \A q \in dirs : g[q] \in orders[q]}}

\* An image: its directories name their entries, each once, and filesets are
\* directories
IsImage(image) ==
  LET t == image.tree
      Order(q) == t[q].order
  IN /\ image.metadata \in {NULL, "automatic", "custom"}
     /\ IsFiniteSet(DOMAIN t) /\ DOMAIN t \subseteq Seq(Names)
     /\ <<>> \in DOMAIN t /\ t[<<>>].kind = "dir"
     /\ \A q \in DOMAIN t :
          \/ /\ t[q].kind = "dir" /\ Order(q) \in Seq(Names)
             /\ \A i, j \in 1 .. Len(Order(q)) : Order(q)[i] = Order(q)[j] => i = j
             /\ \A i \in 1 .. Len(Order(q)) : Append(q, Order(q)[i]) \in DOMAIN t
          \/ t[q].kind = "file" /\ t[q].blocks \in Seq(Pages \cup {-1})
     /\ \A q \in DOMAIN t \ {<<>>} :
          /\ Front(q) \in DOMAIN t /\ t[Front(q)].kind = "dir"
          /\ \E i \in 1 .. Len(Order(Front(q))) : Order(Front(q))[i] = Last(q)
     /\ image.metadata # NULL =>
          /\ Order(<<>>) # <<>>
          /\ \A i \in 1 .. Len(Order(<<>>)) : t[<<Order(<<>>)[i]>>].kind = "dir"

ASSUME DataAssumption == \A image \in Data : IsImage(image)

ImportDirectory(order) ==
  LET d[k \in 0 .. Len(order)] == IF k = 0 THEN Directory ELSE InsertChild(d[k - 1], order[k])
  IN d[Len(order)]

FromBytes(image) ==
  LET tree == [q \in {r \in DOMAIN image.tree :
                        \A k \in 0 .. Len(r) - 1 :
                          r[k + 1] \in Range(image.tree[SubSeq(r, 1, k)].order)} |->
                 IF image.tree[q].kind = "dir" THEN ImportDirectory(image.tree[q].order)
                 ELSE File(image.tree[q].blocks, TRUE)]
  IN CountBlocks([EmptyIndex EXCEPT !.tree = tree, !.metadata = image.metadata], DOMAIN tree)

-----------------------------------------------------------------------------
\* Filesets: directories of the root, one of which is the root of the mount.
\* metadata is the mode, "automatic" or "custom".

SetFileset(ix, n) ==
  {[r EXCEPT !.rootItemVirtual = <<n>>] : r \in CreateIn(ix, <<>>, n, Directory)}

\* The fileset is looked up and, unless readonly, created
SelectOrCreate(ix, n, ro) ==
  IF n \in Children(ix.tree[<<>>]) THEN {[ix EXCEPT !.rootItemVirtual = <<n>>]}
  ELSE IF ro THEN {} ELSE SetFileset(ix, n)

\* The first fileset in the order of the root
FirstFilesets(ix) ==
  {[ix EXCEPT !.rootItemVirtual = <<order[1]>>] : order \in ChildOrders(ix.tree[<<>>])}

NewFileset(ix, type, h, ro) ==
  IF type = NULL THEN {ix}
  ELSE IF ro THEN {}
  ELSE LET name == IF type = Automatic THEN h ELSE type
           mode == IF type = Automatic THEN "automatic" ELSE "custom"
       IN {[r EXCEPT !.metadata = mode, !.isChanged = TRUE] : r \in SetFileset(ix, name)}

\* What selecting may result in; nothing when it is refused
FileSetSelect(ix, type, h, ro) ==
  IF ix.tree[<<>>].childCount = 0 THEN NewFileset(ix, type, h, ro)
  ELSE IF type # NULL
    THEN IF ix.metadata = NULL THEN {} ELSE SelectOrCreate(ix, type, ro)
  ELSE IF ix.metadata = NULL THEN {ix}
  ELSE IF ix.metadata = "custom" THEN FirstFilesets(ix)
  ELSE SelectOrCreate(ix, h, ro)

-----------------------------------------------------------------------------
\* The operations

Paths == Directories \cup Commanded \cup Written
Types == {NULL, Automatic} \cup Custom

HasRoot == <<>> \in DOMAIN index.tree

InBounds ==
  /\ Cardinality(DOMAIN index'.tree) <= MaxEntries + 1
  /\ \A g \in Pages : index'.blockIndex[g] <= MaxUsage

\* The changes of the next index are those since image, if there are none
CountsFrom(image) == given' = IF index'.isChanged THEN {} ELSE image

\* A change of the index of a mount that may be written
Change(results) ==
  ~readonly /\ HasRoot /\ index' \in results /\ InBounds /\ CountsFrom(given) /\ UNCHANGED <<saved, readonly, host>>

\* CookfsCreateDirectory, the index command set without blocks
CreateDirectory(path) == Change(SetEntry(index, path, Directory))

\* The index command set
CmdSet(path, list) ==
  Change({CountBlocks(r, {r.rootItemVirtual \o path}) : r \in SetEntry(index, path, File(list, TRUE))})

\* The command's last number is no integer: the entry is unset, and the one it
\* replaced with it
CmdSetFails(path) ==
  Change(UNION {Unset(r, path, FALSE) : r \in SetEntry(index, path, File(<<-1>>, FALSE))})

\* The writer makes an entry whose blocks have no page yet
WriteFile(path, list) ==
  Change(SetEntry(index, path, File([k \in DOMAIN list |-> -1], FALSE)))

\* The writer saves the page of a block that has none
SaveBlock(p, g) ==
  /\ index.tree[p].kind = "file" /\ ~index.tree[p].isCounted
  /\ \E k \in DOMAIN index.tree[p].blocks :
       index.tree[p].blocks[k] = -1 /\ Change({EntrySetBlock(index, p, k, g)})

\* The index command unset, CookfsDeleteFile
UnsetEntry(path) == Change(Unset(index, path, FALSE))

\* CookfsRemoveDirectory: not recursive means that it has children
RemoveDirectory(path, recursive) ==
  LET p == FindElement(index, path)
  IN /\ HasRoot /\ p # NULL /\ IsDirectory(index.tree, p)
     /\ recursive \/ ~IsEmpty(index.tree[p])
     /\ Change(Unset(index, path, TRUE))

\* Cookfs_VfsFilesetSelect, the index command fileset
SelectFileset(type) ==
  /\ HasRoot
  /\ index' \in FileSetSelect(index, type, host, readonly)
  /\ InBounds /\ CountsFrom(given)
  /\ UNCHANGED <<saved, readonly, host>>

IsExported == Cardinality(DOMAIN index.tree) <= MaxExported + 1

\* What the archive may have after an unmount, or when changes are to go aside
ToSave ==
  IF index.isChanged /\ ~readonly
  THEN IF IsExported THEN {{image} : image \in ToObject(index)} ELSE {}
  ELSE {saved}

Loaded(held) == IF held = {} THEN EmptyIndex ELSE FromBytes(CHOOSE image \in held : TRUE)

\* Unmounting saves the index if it was changed; mounting selects a fileset.
\* A mount that is refused is tried again.
Remount ==
  \E held \in ToSave :
    LET loaded == Loaded(held)
    IN \E type \in Types, h \in Hosts, ro \in BOOLEAN :
         /\ index' \in FileSetSelect(loaded, type, h, ro)
         /\ InBounds
         /\ saved' = held /\ given' = {} /\ readonly' = ro /\ host' = h

\* The mount's aside command: a new archive gets the index and the changes.
\* With no index at all the one of the mount is cleaned up and left so.
Aside ==
  \E held \in ToSave :
    /\ saved' = held /\ given' = {}
    /\ IF held = {}
       THEN /\ "asideEmpty" \in Events
            /\ index' = [index EXCEPT !.tree = [q \in {} |-> NULL], !.metadata = NULL]
       ELSE LET ix == Loaded(held)
                active == index.rootItemVirtual
                selected == IF active = <<>> THEN {ix}
                            ELSE FileSetSelect(ix, active[1], host, FALSE)
            IN /\ active = <<>> /\ ix.metadata # NULL => "asideImported" \in Events
               /\ index' \in IF selected = {} THEN {ix} ELSE selected
    /\ InBounds
    /\ readonly' = FALSE
    /\ UNCHANGED host

\* The index command export, of the index of a mount too: what is in the image
\* is not counted as a change any more, though the archive does not hold it
CmdExport ==
  /\ HasRoot /\ IsExported
  /\ index' = [index EXCEPT !.isChanged = FALSE]
  /\ \E image \in ToObject(index) : given' = {image}
  /\ UNCHANGED <<saved, readonly, host>>

\* The index command import, of what the archive holds, of data of another index,
\* or of data that is refused, which leaves an empty index
CmdImport ==
  /\ HasRoot
  /\ \E image \in saved \cup Data \cup ToObject(EmptyIndex) :
       /\ index' \in FileSetSelect(FromBytes(image), NULL, host, FALSE)
       /\ given' = {image}
  /\ InBounds
  /\ UNCHANGED <<saved, readonly, host>>

Init ==
  /\ index = EmptyIndex /\ saved = {} /\ given = {}
  /\ readonly = FALSE /\ host \in Hosts

Next ==
  \/ \E path \in Directories : CreateDirectory(path)
  \/ \E path \in Commanded : CmdSetFails(path) \/ \E list \in Lists : CmdSet(path, list)
  \/ \E path \in Written, list \in Lists : WriteFile(path, list)
  \/ \E p \in DOMAIN index.tree, g \in Pages : SaveBlock(p, g)
  \/ \E path \in Paths :
       UnsetEntry(path) \/ \E recursive \in BOOLEAN : RemoveDirectory(path, recursive)
  \/ \E type \in Types : SelectFileset(type)
  \/ Remount \/ Aside \/ CmdExport \/ CmdImport

Spec == Init /\ [][Next]_vars

-----------------------------------------------------------------------------
\* The types of the fields of Cookfs_Fsindex and of entries
TypeOK ==
  /\ \A p \in DOMAIN index.tree :
       LET e == index.tree[p]
       IN /\ p \in Seq(Names)
          /\ \/ /\ e.kind = "dir"
                /\ e.isHash \in BOOLEAN /\ e.childCount \in Nat
                /\ e.table \in [1 .. TableSize -> Names \cup {NULL}]
                /\ e.children \subseteq Names
             \/ /\ e.kind = "file"
                /\ e.isCounted \in BOOLEAN /\ e.blocks \in Seq(Pages \cup {-1})
  /\ index.rootItemVirtual \in Seq(Names)
  /\ index.blockIndex \in [Pages -> Nat]
  /\ index.isChanged \in BOOLEAN /\ index.metadata \in {NULL, "automatic", "custom"}
  /\ readonly \in BOOLEAN /\ host \in Hosts

\* However a directory got its children, over holes in its table and the
\* change to a hash: it has each once and counts them, and every entry that is
\* allocated is found (CookfsFsindexFindInDirectory).
TreeSound ==
  HasRoot =>
    /\ Subtree(index.tree, <<>>) = DOMAIN index.tree
    /\ \A p \in DOMAIN index.tree :
         IsDirectory(index.tree, p) =>
           LET d == index.tree[p]
           IN /\ d.childCount = Cardinality(Children(d))
              /\ \A n \in Children(d) : Append(p, n) \in DOMAIN index.tree
              /\ ~d.isHash =>
                   \A i, j \in 1 .. TableSize : d.table[i] = d.table[j] => i = j \/ d.table[i] = NULL

\* A page is never taken to be used by fewer blocks than it is: pages that
\* several files use stay in the cache (Cookfs_FsindexModifyBlockUsage).
UsageCovers ==
  \A g \in Pages : index.blockIndex[g] >= Uses(index.tree, DOMAIN index.tree, g)

\* Filesets and files do not mix: with filesets one of them is the root of the
\* mount and the root has nothing else, without them the root is the mount's,
\* whoever selects, mounts and imports (Cookfs_FsindexFileSetSelect).
FilesetsApart ==
  HasRoot =>
    /\ IsDirectory(index.tree, index.rootItemVirtual)
    /\ Len(index.rootItemVirtual) = IF index.metadata = NULL THEN 0 ELSE 1
    /\ index.metadata # NULL =>
         \A n \in Children(index.tree[<<>>]) : IsDirectory(index.tree, <<n>>)

\* The tree is sound: directories, blocks and filesets, each as above.
IndexSound == TypeOK /\ TreeSound /\ UsageCovers /\ FilesetsApart

\* The entries, without the filesets themselves
Kept(ix) ==
  LET depth == IF ix.metadata = NULL THEN 0 ELSE 1
  IN [q \in {r \in Subtree(ix.tree, <<>>) : Len(r) > depth} |->
        IF IsDirectory(ix.tree, q) THEN <<"dir">> ELSE <<"file", ix.tree[q].blocks>>]

\* When no change is counted the index has what it had when the counter was set
\* back: what the archive holds since the mount, so that nothing is lost by not
\* saving it, or else what the index command gave to the user or took.  Only
\* filesets that are empty may be missing (Cookfs_FsindexIncrChangeCount,
\* Cookfs_FsindexResetChangeCount, Cookfs_VfsFini).
NoChangeIsLost ==
  HasRoot /\ ~index.isChanged =>
    LET old == Loaded(IF given = {} THEN saved ELSE given)
    IN Kept(index) = Kept(old) /\ index.metadata = old.metadata

\* The next index has the entries of ix, and its filesets: an index that has
\* nothing may get its first
TakesOver(ix) ==
  /\ Kept(index') = Kept(ix)
  /\ index'.metadata \in {ix.metadata} \cup
       (IF ix.tree[<<>>].childCount = 0 THEN {"automatic", "custom"} ELSE {})

\* What is mounted next, on whatever machine and with whatever fileset, or
\* set aside, has the files of all filesets with their blocks, over export and
\* import of tables and hashes (fsindexIO.c).  Only what the index command
\* exported or imported, with no change counted since, gives way to what the
\* archive holds.
KeptOverMounts ==
  [][<<saved', readonly', host'>> # <<saved, readonly, host>> /\ HasRoot' =>
       TakesOver(IF given = {} THEN index ELSE Loaded(saved))]_vars

\* The entries as a map of paths, and what each operation is to do with it
Content(ix) ==
  [q \in Subtree(ix.tree, <<>>) |->
     IF IsDirectory(ix.tree, q) THEN <<"dir">> ELSE <<"file", ix.tree[q].blocks>>]

Cut(content, p) == [q \in {r \in DOMAIN content : ~IsPrefix(p, r)} |-> content[q]]

Put(content, p, value) ==
  IF Front(p) \in DOMAIN content /\ content[Front(p)] = <<"dir">>
  THEN Place(Cut(content, p), p, value)
  ELSE content

\* An operation does to the path what was asked, below the fileset that is
\* active, and nothing to any other file: a new file or directory replaces an
\* old one of its kind, deleting takes a file or an empty directory, and only
\* removing a directory takes what is in it (Cookfs_FsindexSet,
\* Cookfs_FsindexUnset, Cookfs_FsindexUnsetRecursive).
EachCallIsExact ==
  [][UNCHANGED <<saved, given, readonly, host>> =>
       LET At(path) == index.rootItemVirtual \o path
           now == Content(index)
           next == Content(index')
       IN /\ \A path \in Directories :
               CreateDirectory(path) => next = Put(now, At(path), <<"dir">>)
          /\ \A path \in Commanded, list \in Lists :
               CmdSet(path, list) => next = Put(now, At(path), <<"file", list>>)
          /\ \A path \in Written, list \in Lists :
               WriteFile(path, list) =>
                 next = Put(now, At(path), <<"file", [k \in DOMAIN list |-> -1]>>)
          /\ \A path \in Paths :
               /\ UnsetEntry(path) =>
                    /\ next = Cut(now, At(path))
                    /\ \A q \in DOMAIN now : IsPrefix(At(path), q) => q = At(path)
               /\ \A recursive \in BOOLEAN :
                    RemoveDirectory(path, recursive) => next = Cut(now, At(path))]_vars
=============================================================================
