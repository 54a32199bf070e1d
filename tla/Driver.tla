------------------------------- MODULE Driver -------------------------------
(***************************************************************************)
(* generic/vfsDriver.c with the reader channel (readerchannel.c,           *)
(* readerchannelIO.c) and what closing a written file does to the index:   *)
(* the calls Tcl makes for open, stat, access, glob, mkdir and delete, by  *)
(* any of the threads that share the mount.  Each call holds the lock of   *)
(* the index from its first look to its last change (module RWMutex), so   *)
(* it is one action; what Tcl or the program does in several calls is not. *)
(* Channels stay open over all of it and keep the entry of their file,     *)
(* which may meanwhile be replaced, deleted or purged to pages.            *)
(*                                                                         *)
(* An entry is a piece of memory that is used again once it was freed.     *)
(* Directories are one level deep.  The bytes of written files are those   *)
(* of module WriterChannel, the buffer and the pages those of Writer;      *)
(* unmounting is in MountLife.                                             *)
(***************************************************************************)
EXTENDS Integers, SequencesExt

CONSTANTS
  Paths,
  Parent(_), \* the directory a path is in
  Root,      \* the root of the archive, which is no path
  Contents,  \* what a file can contain
  Blocks,    \* for each content the sizes of the blocks of a file in pages
  Empty,     \* the content of an empty file
  Small,     \* the contents that go through the buffer of the writer
  Entries,   \* the places in memory for entries
  Channels,  \* the channels that can be open
  Mounted,   \* the archive that was mounted: the entry of each path, or NULL, and
  Imported,  \* for the entries that are files their content, in pages
  Careless,  \* interleavings in which files are lost or threads hang: see the guards
  NULL

ASSUME PathsAssumption ==
  \A p \in Paths : Parent(p) = Root \/ (Parent(p) \in Paths /\ Parent(Parent(p)) = Root)
ASSUME ContentsAssumption ==
  /\ Empty \in Contents /\ Small \subseteq Contents \ {Empty}
  /\ \A c \in Contents : Blocks[c] \in Seq(Nat)

\* The archive that was mounted is a tree, and each of its paths has an entry.
ASSUME MountedAssumption ==
  /\ Mounted \in [Paths -> Entries \cup {NULL}]
  /\ DOMAIN Imported \subseteq Entries /\ \A e \in DOMAIN Imported : Imported[e] \in Contents
  /\ \A p \in Paths : Mounted[p] # NULL =>
       /\ Parent(p) # Root => Mounted[Parent(p)] \notin DOMAIN Imported \cup {NULL}
       /\ \A q \in Paths \ {p} : Mounted[q] # Mounted[p]

Places == {"pages", "buffer", "empty", "lost"}
Entry == [data : Contents \cup {NULL}, place : Places \cup {NULL}, counted : BOOLEAN,
          refcount : Nat, isInactive : BOOLEAN]
Reader == [kind : {"reader"}, entry : Entries, opened : Contents]
Writer == [kind : {"writer"}, entry : Entries \cup {NULL}, path : Paths \cup {NULL},
           data : Contents]

\* Names of different kinds are different.
ASSUME NamesAssumption ==
  /\ NULL \notin Paths \cup Contents \cup Places \cup Entries \cup Entry \cup Reader \cup Writer
  /\ Root \notin Paths /\ {"none", "dir", "lost"} \cap Contents = {}
  /\ IsFiniteSet(Channels)

VARIABLES
  entries,  \* the entry at each place, or NULL
  tree,     \* the entry of each path, or NULL
  buffered, \* the entries whose files are in the buffer of the writer
  channels, \* each channel that is open, or NULL
  position, \* where each reader channel stands
  readonly, \* the mount takes no changes
  inMemory, \* write-to-memory mode: nothing goes to pages
  hung      \* a thread left the index locked for writing

vars == <<entries, tree, buffered, channels, position, readonly, inMemory, hung>>

Modes == {"r", "r+", "w", "a"}

-----------------------------------------------------------------------------
(* Entries of the index.                                                   *)

\* Cookfs_FsindexEntryAlloc.  A file is in pages, in the buffer of the writer,
\* or empty: then it has one block with the number -1 and counts as pending.
NewEntry(data, place, counted) ==
  [data |-> data, place |-> place, counted |-> counted, refcount |-> 0, isInactive |-> FALSE]

IsDirectory(e) == entries[e].data = NULL
IsPending(e) == ~IsDirectory(e) /\ entries[e].place # "pages"

\* Where each block ends, the blocks being counted from 1.
Ends(sizes) ==
  LET end[k \in 0..Len(sizes)] == IF k = 0 THEN 0 ELSE end[k - 1] + sizes[k] IN end

Size(c) == Ends(Blocks[c])[Len(Blocks[c])]

\* An entry whose blocks are counted loses the number of its blocks when it is
\* freed, and with it what a reader sees.
BlocksOf(e) ==
  IF entries[e].isInactive /\ entries[e].counted THEN <<>> ELSE Blocks[entries[e].data]

\* Cookfs_FsindexEntryFree: an entry in use is only marked.
Freed(es, freed) ==
  [e \in Entries |->
     IF e \notin freed THEN es[e]
     ELSE IF es[e].refcount > 0 THEN [es[e] EXCEPT !.isInactive = TRUE]
     ELSE NULL]

\* Cookfs_FsindexEntryUnlock.  An entry that was freed and has no user is left
\* alone until the index is freed: its place counts as unused.
Released(x) ==
  IF x.isInactive /\ x.refcount = 1 THEN NULL ELSE [x EXCEPT !.refcount = @ - 1]
Unlocked(es, e) == [es EXCEPT ![e] = Released(@)]

\* The entries at or below a path, and the tree without them.
Below(p) == {q \in Paths : q = p \/ Parent(q) = p}
EntriesBelow(p) == {tree[q] : q \in Below(p)} \ {NULL}
Without(p) == [q \in Paths |-> IF q \in Below(p) THEN NULL ELSE tree[q]]

\* CookfsFsindexFindElement, CookfsFsindexFind and Stat: what is at a path.
Stat(p) ==
  IF p = Root THEN "directory"
  ELSE IF tree[p] = NULL THEN "ENOENT"
  ELSE IF IsDirectory(tree[p]) THEN "directory"
  ELSE "file"

\* Mutant: the entry that is replaced may be of the other type.
MaySetAnyType(p, isDirectory) == Stat(Parent(p)) = "directory"

\* Cookfs_FsindexSet puts a new entry in the place of one of the same type.
MaySet(p, isDirectory) ==
  Stat(Parent(p)) = "directory" /\ (tree[p] # NULL => IsDirectory(tree[p]) = isDirectory)
Unused(es) == CHOOSE e \in Entries : es[e] = NULL
HasRoom == \E e \in Entries : entries[e] = NULL

-----------------------------------------------------------------------------
(* What the driver answers without changing anything.                      *)

\* Mutant: a path that may be read may be written on a read-only mount.
AccessAnyway(p, write) ==
  IF Stat(p) = "ENOENT" THEN "ENOENT"
  ELSE IF write /\ Stat(p) = "directory" THEN "EISDIR"
  ELSE "ok"

Access(p, write) ==
  IF write /\ readonly THEN "EROFS"
  ELSE IF Stat(p) = "ENOENT" THEN "ENOENT"
  ELSE IF write /\ Stat(p) = "directory" THEN "EISDIR"
  ELSE "ok"

MatchInDirectory(p, wanted) ==
  IF Stat(p) # "directory" THEN {}
  ELSE {q \in Paths : Parent(q) = p /\ tree[q] # NULL /\ Stat(q) \in wanted}

\* What CookfsOpenFileChannel does: the errors, or the channel it makes.
OpenOutcome(p, mode) ==
  CASE Stat(p) = "directory" -> "EISDIR"
    [] Stat(p) = "file" /\ mode = "r" ->
         IF IsPending(tree[p]) THEN "buffer" ELSE "reader"
    [] Stat(p) = "ENOENT" /\ (mode = "r" \/ Stat(Parent(p)) = "ENOENT") -> "ENOENT"
    [] Stat(p) = "ENOENT" /\ mode # "r" /\ Stat(Parent(p)) = "file" -> "ENOTDIR"
    [] OTHER -> IF readonly THEN "EROFS" ELSE "write"

-----------------------------------------------------------------------------
(* Channels.                                                               *)

ReaderChannel(e) == [kind |-> "reader", entry |-> e, opened |-> entries[e].data]
Start == [offset |-> 0, block |-> 0, blockOffset |-> 0]
WriterChannel(e, p, data) == [kind |-> "writer", entry |-> e, path |-> p, data |-> data]

\* Mutant: a channel does not count among the users of its entry.
OpenUncounted(ch, p, mode) ==
  /\ ~hung /\ channels[ch] = NULL
  /\ LET outcome == OpenOutcome(p, mode)
         e == IF mode = "w" THEN NULL ELSE tree[p]
     IN /\ outcome \in {"reader", "buffer", "write"}
        /\ channels' = [channels EXCEPT ![ch] =
             IF outcome = "reader" THEN ReaderChannel(e)
             ELSE WriterChannel(e, IF outcome = "write" THEN p ELSE NULL,
                                IF e = NULL THEN Empty ELSE entries[e].data)]
        /\ UNCHANGED entries
  /\ UNCHANGED <<tree, buffered, position, readonly, inMemory, hung>>

\* A file that is pending is read from a copy of its buffer, and so is one
\* that is changed; only a channel with a path stores what it has.  A file
\* written from scratch, or a new one, has no entry to keep.
Open(ch, p, mode) ==
  /\ ~hung /\ channels[ch] = NULL
  /\ LET outcome == OpenOutcome(p, mode)
         e == IF mode = "w" THEN NULL ELSE tree[p]
     IN /\ outcome \in {"reader", "buffer", "write"}
        /\ channels' = [channels EXCEPT ![ch] =
             IF outcome = "reader" THEN ReaderChannel(e)
             ELSE WriterChannel(e, IF outcome = "write" THEN p ELSE NULL,
                                IF e = NULL THEN Empty ELSE entries[e].data)]
        /\ entries' = IF e = NULL THEN entries ELSE [entries EXCEPT ![e].refcount = @ + 1]
  /\ UNCHANGED <<tree, buffered, position, readonly, inMemory, hung>>

\* The program writes: the channel holds another content.
Write(ch, c) ==
  /\ channels[ch] # NULL /\ channels[ch].kind = "writer"
  /\ channels' = [channels EXCEPT ![ch].data = c]
  /\ UNCHANGED <<entries, tree, buffered, position, readonly, inMemory, hung>>

\* Reading on from where a channel stands: block by block, as much as is
\* wanted; a block is left only when more is wanted than it has.  The blocks
\* after the first "good" ones cannot be read.
ReadBlock(r, sizes, k, good) ==
  LET blockLeft == sizes[k] - r.blockOffset
      n == IF r.left < blockLeft THEN r.left ELSE blockLeft
      start == Ends(sizes)[k - 1] + r.blockOffset
  IN IF r.left = 0 \/ k > good THEN r
     ELSE [block |-> IF r.left > blockLeft THEN k ELSE k - 1,
           blockOffset |-> IF r.left > blockLeft THEN 0 ELSE r.blockOffset + n,
           left |-> r.left - n,
           bytes |-> r.bytes \o [j \in 1..n |-> start + j]]

Reading(c, from, toRead, good) ==
  LET sizes == BlocksOf(c.entry)
      read[k \in 0..Len(sizes)] ==
        IF k <= from.block
        THEN [block |-> from.block, blockOffset |-> from.blockOffset,
              left |-> toRead, bytes |-> <<>>]
        ELSE ReadBlock(read[k - 1], sizes, k, good)
  IN read[Len(sizes)]

\* Cookfs_Readerchannel_Input.  When a page cannot be read the call fails,
\* but what was read before moved the position.
Input(ch, toRead, good) ==
  /\ ~hung /\ channels[ch] # NULL /\ channels[ch].kind = "reader"
  /\ LET at == position[ch]
         r == Reading(channels[ch], at, toRead, good)
     IN position' = [position EXCEPT ![ch] =
          [offset |-> at.offset + Len(r.bytes), block |-> r.block,
           blockOffset |-> r.blockOffset]]
  /\ UNCHANGED <<entries, tree, buffered, channels, readonly, inMemory, hung>>

\* The walk from the start of the file to a position inside it; it ends in the
\* block the byte before the position is in.
WalkBlock(w, size) ==
  IF w.left > size THEN [block |-> w.block + 1, left |-> w.left - size, at |-> 0]
  ELSE [block |-> w.block, left |-> 0, at |-> w.at + w.left]

Walk(sizes, offset) ==
  LET walk[k \in 0..Len(sizes)] ==
        IF k = 0 THEN [block |-> 0, left |-> offset, at |-> 0]
        ELSE WalkBlock(walk[k - 1], sizes[k])
  IN walk[Len(sizes)]

\* Mutant: a block that ends at the position is left, but its size is not counted.
WideSeekPastBlock(ch, offset) ==
  /\ ~hung /\ channels[ch] # NULL /\ channels[ch].kind = "reader"
  /\ LET c == channels[ch]
         w == Walk(BlocksOf(c.entry), offset)
     IN /\ offset \in 0..Size(c.opened)
        /\ position' = [position EXCEPT ![ch] =
             [offset |-> offset, block |-> w.block, blockOffset |-> 0]]
  /\ UNCHANGED <<entries, tree, buffered, channels, readonly, inMemory, hung>>

\* Cookfs_Readerchannel_WideSeek, with a position it has put into the file.
\* The walk is left out when the position does not change.  A file that was
\* removed has no blocks any more: the walk stops after the first.
WideSeek(ch, offset) ==
  /\ ~hung /\ channels[ch] # NULL /\ channels[ch].kind = "reader"
  /\ LET c == channels[ch]
         all == Blocks[c.opened]
         gone == BlocksOf(c.entry) = <<>>
         w == Walk(IF gone THEN SubSeq(all, 1, 1) ELSE all, offset)
     IN /\ offset \in 0..Size(c.opened) \ {position[ch].offset}
        /\ position' = [position EXCEPT ![ch] =
             [offset |-> offset - w.left, block |-> w.block, blockOffset |-> w.at]]
  /\ UNCHANGED <<entries, tree, buffered, channels, readonly, inMemory, hung>>

Closed(ch) ==
  /\ channels' = [channels EXCEPT ![ch] = NULL]
  /\ position' = [position EXCEPT ![ch] = Start]

\* Closing a reader, or a writer channel without a path, gives its entry back.
CloseUnchanged(ch) ==
  /\ channels[ch] # NULL
  /\ channels[ch].kind = "writer" => channels[ch].path = NULL
  /\ entries' = Unlocked(entries, channels[ch].entry)
  /\ Closed(ch)
  /\ UNCHANGED <<tree, buffered, readonly, inMemory, hung>>

\* A written file that was deleted or replaced since it was opened is dropped.
CloseDropped(ch) ==
  LET c == channels[ch]
  IN /\ ~hung /\ c # NULL
     /\ c.kind = "writer"
     /\ c.path # NULL /\ c.entry # NULL
     /\ entries[c.entry].isInactive
     /\ entries' = Unlocked(entries, c.entry)
     /\ Closed(ch)
     /\ UNCHANGED <<tree, buffered, readonly, inMemory, hung>>

\* The entries after the buffer entry of a file that is replaced was removed
\* and a new entry was put in its place with one user.
Replaced(p, new) ==
  LET old == tree[p]
      es == IF old = NULL THEN entries
            ELSE Freed(IF old \in buffered THEN Unlocked(entries, old) ELSE entries, {old})
  IN [es EXCEPT ![Unused(entries)] = new]

\* Where a file goes, and how many users are left of its entry: one in the
\* buffer has the writer; one found to be a duplicate keeps a user for ever.
Placed(c) ==
  IF c = Empty THEN {[place |-> "empty", refcount |-> 0]}
  ELSE IF inMemory THEN {[place |-> "buffer", refcount |-> 1]}
  ELSE IF c \in Small THEN {[place |-> "buffer", refcount |-> 1],
                            [place |-> "pages", refcount |-> 1]}
  ELSE {[place |-> "pages", refcount |-> 0]}

\* A written file is added to the index when it is closed (Cookfs_WriterAddFile).
CloseStored(ch) ==
  LET c == channels[ch]
  IN /\ ~hung /\ c # NULL
     /\ c.kind = "writer"
     /\ c.path # NULL
     /\ c.entry # NULL => ~entries[c.entry].isInactive
     /\ MaySet(c.path, FALSE) /\ HasRoom
     /\ \E at \in Placed(c.data) :
          LET new == [NewEntry(c.data, at.place, FALSE) EXCEPT !.refcount = at.refcount]
              e == Unused(entries)
              es == Replaced(c.path, new)
          IN /\ entries' = IF c.entry = NULL THEN es ELSE Unlocked(es, c.entry)
             /\ tree' = [tree EXCEPT ![c.path] = e]
             /\ buffered' = (buffered \ {tree[c.path]})
                              \cup (IF at.place = "buffer" THEN {e} ELSE {})
     /\ Closed(ch)
     /\ UNCHANGED <<readonly, inMemory, hung>>

\* Its directory is gone, or a directory is in its place: the file cannot be
\* added.  When it does not go to the buffer the index is not unlocked.
CloseRefused(ch) ==
  LET c == channels[ch]
  IN /\ ~hung /\ c # NULL
     /\ c.kind = "writer"
     /\ c.path # NULL /\ c.entry = NULL
     /\ ~MaySet(c.path, FALSE)
     /\ hung' = \A at \in Placed(c.data) : at.place # "buffer"
     /\ hung' => "nowhere" \in Careless
     /\ Closed(ch)
     /\ UNCHANGED <<entries, tree, buffered, readonly, inMemory>>

-----------------------------------------------------------------------------
(* Directories and deletion.                                               *)

\* Tcl calls it after a stat found nothing; another thread may have made the
\* directory since.  One that is there is replaced, with all it has.
CreateDirectory(p) ==
  /\ ~hung /\ ~readonly
  /\ MaySet(p, TRUE) /\ HasRoom
  /\ tree[p] # NULL => "mkdir" \in Careless
  /\ LET new == Unused(entries)
     IN /\ entries' = [Freed(entries, EntriesBelow(p)) EXCEPT ![new] = NewEntry(NULL, NULL, FALSE)]
        /\ tree' = [Without(p) EXCEPT ![p] = new]
  /\ UNCHANGED <<buffered, channels, position, readonly, inMemory, hung>>

\* Cookfs_FsindexEntryIsEmptyDirectory answers whether there are children, so
\* that only a directory with children is removed without recursion.
IsEmptyDirectory(p) == \E q \in Paths : Parent(q) = p /\ tree[q] # NULL

\* Files in the buffer of the writer stay there, with their entries.
RemoveDirectory(p, recursive) ==
  /\ ~hung /\ ~readonly
  /\ tree[p] # NULL
  /\ IsDirectory(tree[p])
  /\ recursive \/ IsEmptyDirectory(p)
  /\ entries' = Freed(entries, EntriesBelow(p))
  /\ tree' = Without(p)
  /\ UNCHANGED <<buffered, channels, position, readonly, inMemory, hung>>

DeleteFile(p) ==
  /\ ~hung /\ ~readonly
  /\ tree[p] # NULL
  /\ ~IsDirectory(tree[p])
  /\ LET e == tree[p]
         es == IF e \in buffered THEN Unlocked(entries, e) ELSE entries
     IN entries' = Freed(es, {e})
  /\ buffered' = buffered \ {tree[p]}
  /\ tree' = [tree EXCEPT ![p] = NULL]
  /\ UNCHANGED <<channels, position, readonly, inMemory, hung>>

-----------------------------------------------------------------------------
(* Attributes that change the state.                                       *)

\* Cookfs_WriterPurge: the files in the buffer go to pages, those too whose
\* directories were removed.  In write-to-memory mode they are lost.
Purge ==
  /\ buffered' = {}
  /\ entries' = [e \in Entries |->
       IF e \in buffered
       THEN Released([entries[e] EXCEPT !.place = IF inMemory THEN "lost" ELSE "pages"])
       ELSE entries[e]]

\* Setting -compression purges first.
SetCompression ==
  /\ ~hung /\ ~readonly
  /\ inMemory => "memory" \in Careless
  /\ Purge
  /\ UNCHANGED <<tree, channels, position, readonly, inMemory, hung>>

\* Setting -writetomemory makes a read-only mount writable; there is no way back.
SetWritetomemory ==
  /\ ~hung /\ ~inMemory
  /\ inMemory' = TRUE /\ readonly' = FALSE
  /\ UNCHANGED <<entries, tree, buffered, channels, position, hung>>

-----------------------------------------------------------------------------
Init ==
  /\ tree = Mounted
  /\ entries = [e \in Entries |->
       IF e \notin {Mounted[p] : p \in Paths} THEN NULL
       ELSE IF e \in DOMAIN Imported
       THEN NewEntry(Imported[e], IF Imported[e] = Empty THEN "empty" ELSE "pages", TRUE)
       ELSE NewEntry(NULL, NULL, FALSE)]
  /\ buffered = {}
  /\ channels = [ch \in Channels |-> NULL]
  /\ position = [ch \in Channels |-> Start]
  /\ readonly \in BOOLEAN
  /\ inMemory = FALSE
  /\ hung = FALSE

Next ==
  \/ \E ch \in Channels :
       \/ \E p \in Paths, mode \in Modes : Open(ch, p, mode)
       \/ \E c \in Contents : Write(ch, c)
       \/ CloseUnchanged(ch) \/ CloseDropped(ch) \/ CloseStored(ch) \/ CloseRefused(ch)
       \/ /\ channels[ch] # NULL
          /\ channels[ch].kind = "reader"
          /\ LET c == channels[ch]
             IN \/ \E n \in 1..Size(c.opened), good \in 0..Len(Blocks[c.opened]) : Input(ch, n, good)
                \/ \E offset \in 0..Size(c.opened) : WideSeek(ch, offset)
  \/ \E p \in Paths :
       \/ CreateDirectory(p) \/ DeleteFile(p)
       \/ \E recursive \in BOOLEAN : RemoveDirectory(p, recursive)
  \/ SetCompression \/ SetWritetomemory

Spec == Init /\ [][Next]_vars
-----------------------------------------------------------------------------
(* Properties.                                                             *)

\* The variables have these types.
TypeOK ==
  /\ entries \in [Entries -> Entry \cup {NULL}]
  /\ tree \in [Paths -> Entries \cup {NULL}]
  /\ buffered \subseteq Entries
  /\ channels \in [Channels -> Reader \cup Writer \cup {NULL}]
  /\ {readonly, inMemory, hung} \subseteq BOOLEAN

Users(e) ==
  Cardinality({ch \in Channels : channels[ch] # NULL /\ channels[ch].entry = e})
    + (IF e \in buffered THEN 1 ELSE 0)

\* The entry of a file that is open, or that waits in the buffer of the
\* writer, is not freed and not used for another file, whatever other threads
\* delete, replace or purge; and the tree holds only entries that are in use
\* there (fsindex.c:151-172, 1520-1563, readerchannel.c:184-223).
HeldEntriesLive ==
  /\ TypeOK
  /\ \A e \in Entries : IF entries[e] = NULL THEN Users(e) = 0
                        ELSE entries[e].refcount >= Users(e)
  /\ \A p \in Paths : tree[p] # NULL =>
       /\ entries[tree[p]] # NULL
       /\ ~entries[tree[p]].isInactive
       /\ Stat(Parent(p)) = "directory"
       /\ \A q \in Paths \ {p} : tree[q] # tree[p]

\* However a program reads and seeks, its reader channel answers the bytes of
\* the file it opened at the position it reports, though the file was replaced
\* or deleted meanwhile; or the end of the file, when the entry lost its
\* blocks (readerchannelIO.c:31-246).
ReadsWhatItOpened ==
  \A ch \in Channels :
    channels[ch] # NULL /\ channels[ch].kind = "reader" =>
      LET c == channels[ch]
          at == position[ch]
          left == Size(c.opened) - at.offset
      IN /\ entries[c.entry].data = c.opened
         /\ \A n \in 1..Size(c.opened) :
              LET bytes == Reading(c, at, n, Len(Blocks[c.opened])).bytes
              IN bytes = [k \in 1..(IF BlocksOf(c.entry) = <<>> THEN 0
                                    ELSE IF n < left THEN n ELSE left)
                            |-> at.offset + k]

\* What the calls a program makes before it opens a file tell it is true of
\* the opening: access allowed to write is not refused, a file that is listed
\* is there, and what stat calls a file can be read (vfsDriver.c:232-503, 503-660).
AnswersAgree ==
  \A p \in Paths :
    /\ Access(p, TRUE) = "ok" => OpenOutcome(p, "r+") = "write"
    /\ Access(p, FALSE) = "ok" <=> Stat(p) # "ENOENT"
    /\ Stat(p) = "file" <=> OpenOutcome(p, "r") \in {"reader", "buffer"}
    /\ \A type \in {"file", "directory"} :
         Stat(p) = type <=> p \in MatchInDirectory(Parent(p), {type})

\* What a thread sees at each path.
Seen ==
  [p \in Paths |->
     IF tree[p] = NULL THEN "none"
     ELSE IF IsDirectory(tree[p]) THEN "dir"
     ELSE IF entries[tree[p]].place = "lost" THEN "lost"
     ELSE entries[tree[p]].data]

Tree == INSTANCE SharedTree WITH seen <- Seen

\* The threads of an application see one tree: a file that was closed is there
\* with its content until a thread removes or replaces it, and no other call
\* takes it away; making a directory above all only makes one
\* (vfsDriver.c:705-866, writer.c:897-1320).
ImplementsTree ==
  Tree!Spec /\ [][\A p \in Paths : CreateDirectory(p) => Tree!MakeDir(p)]_vars
=============================================================================
