-------------------------------- MODULE Writer --------------------------------
(***************************************************************************)
(* src/generic/writer.c: files on their way into an archive, with the      *)
(* blocks of their fsindex entries.  Big files become pages at once.  Small*)
(* ones wait in buffers; their entry is pending, with block -k for the k-th*)
(* buffer, until Cookfs_WriterPurge packs the buffers into pages.  A map of*)
(* what the pages hold finds content that is already stored.               *)
(*                                                                         *)
(* The writer is write locked during every operation, so operations do not *)
(* interleave; a purge and a big file go page by page, as the fsindex is   *)
(* unlocked in between and any page may fail.  A content is a sequence of  *)
(* bytes.  Encrypted and aside pages are left out.                         *)
(***************************************************************************)
EXTENDS Integers, FiniteSets, SequencesExt

CONSTANTS
  Byte,          \* what contents are sequences of
  Files,         \* numbers: the order of their tails and full names
  Ext,           \* the order of their extensions
  Dir,           \* those that are in a directory that may be removed
  Given,         \* the contents that are written to each file
  PageSize, SmallFileSize, MaxBufferSize,
  MaxStored,     \* bound: no file is begun with so many pages and buffers
  Events,        \* what may happen besides (see below)
  NULL, Unreadable

Contents == UNION {Given[f] : f \in Files}

\* The types of the blocks of an entry and of a file that is added
Blocks == [page : Int, offset : Nat, size : Nat]
Requests == [file : Files, data : Contents]
Jobs ==
  [file : Files, data : Contents, was : Seq(Byte) \cup {NULL, Unreadable},
   wasPending : BOOLEAN, written : Nat]

ASSUME WriterAssumption ==
  /\ Files \subseteq Nat /\ IsFiniteSet(Files) /\ Ext \in [Files -> Nat] /\ Dir \subseteq Files
  /\ DOMAIN Given = Files /\ Contents \subseteq Seq(Byte)
  /\ NULL \notin Seq(Byte) \cup Seq(Blocks) \cup Requests \cup Jobs
  /\ Unreadable \notin Seq(Byte)
  /\ PageSize \in Nat \ {0}
  /\ SmallFileSize \in Nat /\ MaxBufferSize \in Nat
  /\ Events \subseteq
       {"source",          \* the source of a file cannot be read in full,
        "sourceOfPending", \* also when the file has a pending entry
        "page",            \* a page cannot be added
        "purgeInMemory"}   \* the buffers are purged in write-to-memory mode

VARIABLES
  index,     \* fsindex: the blocks of each file, or NULL
  buffers,   \* bufferFirst to bufferLast
  pages,     \* contents of the pages; page n is pages[n + 1]
  pageMap,   \* pageMapByPage: spans of pages; NULL before it is needed
  fatalError, isWriteToMemory,
  pc, job,   \* where the operation is, and the file it adds
  order,     \* Cookfs_WriterPurge: sortedWB, as places in the chain
  saved,     \* how many of them are saved (bufferIdx)
  slot       \* pageBlock and pageOffset of the last one saved

store == <<index, buffers, pages, pageMap>>
purge == <<order, saved, slot>>
modes == <<fatalError, isWriteToMemory>>
vars == <<store, modes, pc, job, purge>>

Min2(m, n) == IF m < n THEN m ELSE n

-----------------------------------------------------------------------------
Block(p, o, n) == [page |-> p, offset |-> o, size |-> n]

\* Cookfs_FsindexEntryIsPending, of a file
IsPending(f) == index[f] # NULL /\ \E i \in DOMAIN index[f] : index[f][i].page < 0

\* Cookfs_WriterGetBuffer gets the content of the k-th buffer.
GetBuffer(k) ==
  IF k \in DOMAIN buffers THEN buffers[k].data ELSE NULL

\* Cookfs_CreateWriterchannel and Cookfs_Readerchannel_Input: the bytes of a
\* block, unless it does not lie within its buffer or page
Within(data, b) ==
  IF data = NULL \/ b.offset + b.size > Len(data)
    THEN Unreadable ELSE SubSeq(data, b.offset + 1, b.offset + b.size)

ReadBlock(b) ==
  IF b.size = 0 THEN <<>>
  ELSE IF b.page < 0 THEN Within(GetBuffer(-b.page), b)
  ELSE Within(IF b.page < Len(pages) THEN pages[b.page + 1] ELSE NULL, b)

Concat(a, b) == IF Unreadable \in {a, b} THEN Unreadable ELSE a \o b

Joined(parts) ==
  LET upTo[i \in 0 .. Len(parts)] ==
        IF i = 0 THEN <<>> ELSE Concat(upTo[i - 1], parts[i])
  IN upTo[Len(parts)]

ReadFile(f) ==
  IF index[f] = NULL THEN NULL
  ELSE Joined([i \in DOMAIN index[f] |-> ReadBlock(index[f][i])])

-----------------------------------------------------------------------------
\* Cookfs_WriterInit, for a new archive
Init ==
  /\ index = [f \in Files |-> NULL]
  /\ buffers = <<>>
  /\ pages = <<>>
  /\ pageMap = NULL
  /\ fatalError = FALSE
  /\ isWriteToMemory \in BOOLEAN
  /\ pc = "idle" /\ job = NULL
  /\ order = <<>> /\ saved = 0 /\ slot = NULL

Total(lengths) ==
  LET upTo[k \in 0 .. Len(lengths)] ==
        IF k = 0 THEN 0 ELSE upTo[k - 1] + lengths[k]
  IN upTo[Len(lengths)]

BufferSize == Total([k \in DOMAIN buffers |-> buffers[k].length])

Go(where, what) == pc' = where /\ job' = what

\* The place of the buffer whose entry is that of the file
PlaceOf(f) == {k \in DOMAIN buffers : buffers[k].file = f /\ buffers[k].alive}

\* Cookfs_WriterRemoveFile, asked for a pending file: its buffer goes,
Removed(f) == IF IsPending(f) THEN PlaceOf(f) ELSE {}

BuffersWithout(f) ==
  IF Removed(f) = {} THEN buffers
                     ELSE RemoveAt(buffers, CHOOSE k \in Removed(f) : TRUE)

\* Mutant: the buffers that follow keep their numbers in the fsindex.
IndexWithoutUnshifted(f) == index

\* and the entries of the buffers behind it are renumbered.  The entry of the
\* file itself stays as it is.
IndexWithout(f) ==
  LET behind == {g \in Files : \E k \in Removed(f), j \in PlaceOf(g) : j > k}
  IN [g \in Files |-> IF g \in behind THEN [index[g] EXCEPT ![1].page = @ + 1]
                                     ELSE index[g]]

-----------------------------------------------------------------------------
\* Cookfs_WriterFillMap takes the files with one block.
Mapped == {f \in Files : index[f] # NULL /\ ~IsPending(f)
                           /\ Len(index[f]) = 1 /\ index[f][1].size # 0}

\* Their blocks by page and offset; those with one offset come in any order.
MapOrders ==
  {s \in [1 .. Cardinality(Mapped) -> Mapped] :
     \A i, j \in DOMAIN s : i < j =>
       LET x == index[s[i]][1]
           y == index[s[j]][1]
       IN /\ s[i] # s[j]
          /\ x.page < y.page \/ (x.page = y.page /\ x.offset <= y.offset)}

\* Cookfs_WriterInitPageMap: what is between a block and the one before it in
\* its page, or the start of the page, is a span too,
GapsBefore(s) ==
  LET at(i) == index[s[i]][1]
      start(i) == IF i > 1 /\ at(i - 1).page = at(i).page
                    THEN at(i - 1).offset + at(i - 1).size ELSE 0
  IN {Block(at(i).page, start(i), at(i).offset - start(i)) :
        i \in {i \in DOMAIN s : at(i).offset # start(i)}}

\* and so is what is behind the last one.
GapsBehind(s) ==
  LET at(i) == index[s[i]][1]
      end(i) == at(i).offset + at(i).size
  IN {Block(at(i).page, end(i), Len(pages[at(i).page + 1]) - end(i)) :
        i \in {i \in DOMAIN s : /\ \A j \in DOMAIN s : j > i => at(j).page # at(i).page
                                /\ end(i) # Len(pages[at(i).page + 1])}}

InitPageMap ==
  \/ (isWriteToMemory \/ pageMap # NULL) /\ UNCHANGED pageMap
  \/ /\ ~isWriteToMemory /\ pageMap = NULL
     /\ \E s \in MapOrders :
          pageMap' = {index[f][1] : f \in Mapped} \cup GapsBefore(s) \cup GapsBehind(s)

\* Mutant: the sizes are compared and not the bytes.
DuplicatesBySize(c) ==
  {s \in IF isWriteToMemory THEN {} ELSE pageMap : s.size = Len(c)}

\* Cookfs_WriterCheckDuplicate: the spans that hold the content.  Bytes behind
\* the end of a page, which a span of Purge may reach, are taken to differ.
Duplicates(c) ==
  {s \in IF isWriteToMemory THEN {} ELSE pageMap :
     s.size = Len(c) /\ Within(pages[s.page + 1], s) = c}

\* Cookfs_PageAddRaw: the page with that content, if there is one already
AddPage(content, n) ==
  \/ /\ n < Len(pages) /\ pages[n + 1] = content
     /\ UNCHANGED pages
  \/ /\ \A i \in DOMAIN pages : pages[i] # content
     /\ n = Len(pages)
     /\ pages' = Append(pages, content)

-----------------------------------------------------------------------------
\* Cookfs_WriterPurge, as far as the sorting of the buffers.  sortKey of a
\* buffer is the path of the first one with the same content, but only the
\* extension is taken from it.
SameContent(i, j) == buffers[i].data = buffers[j].data

KeyExt(i) ==
  Ext[buffers[CHOOSE j \in 1 .. i : /\ SameContent(i, j)
                                    /\ \A k \in 1 .. j - 1 : ~SameContent(i, k)].file]

Before(i, j) ==
  \/ KeyExt(i) < KeyExt(j)
  \/ KeyExt(i) = KeyExt(j) /\ buffers[i].file <= buffers[j].file

SortOrders ==
  LET n == Len(buffers)
  IN IF n < 3 THEN {[i \in 1 .. n |-> i]}
     ELSE {s \in [1 .. n -> 1 .. n] :
             \A i, j \in 1 .. n : i < j => s[i] # s[j] /\ Before(s[i], s[j])}

\* A purge goes on at "purge", or at "purgeFirst" when it makes room for a file.
StartPurge(where) ==
  /\ ~isWriteToMemory
  /\ order' \in SortOrders
  /\ saved' = 0
  /\ Go(where, job)
  /\ UNCHANGED <<store, modes, slot>>

Sorted(i) == buffers[order[i]]
Same(i) == i > 1 /\ SameContent(order[i], order[i - 1])
Bytes(i) == IF Sorted(i).data = NULL THEN <<>> ELSE Sorted(i).data

\* pageBuffer once the buffers up to the i-th are in it.  One that equals the
\* buffer before it takes no room.
PageBuffer ==
  [i \in saved .. Len(order) |-> 
     LET upTo[k \in saved .. Len(order)] ==
           IF k = saved THEN <<>>
           ELSE IF Same(k) THEN upTo[k - 1] ELSE upTo[k - 1] \o Bytes(k)
     IN upTo[i]]

\* The page ends with the first buffer whose follower would not fit, be it a
\* duplicate or not.
LastOfPage(last) ==
  LET full(i) == i < Len(order) => Len(PageBuffer[i]) + Len(Bytes(i + 1)) > PageSize
  IN /\ last \in saved + 1 .. Len(order) /\ full(last)
     /\ \A i \in saved + 1 .. last - 1 : ~full(i)

\* pageBlock and pageOffset of each buffer, with the page in block n
Slots(last, n) ==
  LET at[i \in saved .. last] ==
        IF i = saved THEN slot
        ELSE IF Same(i) THEN at[i - 1]
        ELSE [page |-> n, offset |-> Len(PageBuffer[i - 1])]
  IN at

\* The data of a buffer is freed when the next one has been compared with it.
Freed(last) ==
  [k \in DOMAIN buffers |->
     IF \E i \in 1 .. last - 1 : order[i] = k
       THEN [buffers[k] EXCEPT !.data = NULL] ELSE buffers[k]]

EndPurge ==
  /\ order' = <<>> /\ saved' = 0 /\ slot' = NULL

\* One page of a purge, and the entries of what is in it.  A buffer whose entry
\* was removed with its directory is saved too.
PurgePage ==
  /\ pc \in {"purge", "purgeFirst"}
  /\ \E last \in saved + 1 .. Len(order) :
       /\ LastOfPage(last)
       /\ \E n \in -1 .. Len(pages) :
            /\ IF PageBuffer[last] = <<>> THEN n = -1 /\ UNCHANGED pages
                                          ELSE n >= 0 /\ AddPage(PageBuffer[last], n)
            /\ LET at == Slots(last, n)
                   done == saved + 1 .. last
                   entry(f) == {i \in done : Sorted(i).file = f /\ Sorted(i).alive}
               IN /\ index' = [f \in Files |->
                                 IF entry(f) = {} THEN index[f]
                                 ELSE LET s == at[CHOOSE i \in entry(f) : TRUE]
                                      IN <<Block(s.page, s.offset, index[f][1].size)>>]
                  /\ pageMap' = IF n < 0 THEN pageMap
                                ELSE pageMap \cup {Block(n, at[i].offset, Sorted(i).length) :
                                                     i \in done}
                  /\ IF last = Len(order)
                       THEN /\ buffers' = <<>>
                            /\ EndPurge
                            /\ IF pc = "purge" THEN Go("idle", NULL) ELSE Go("add", job)
                       ELSE /\ buffers' = Freed(last)
                            /\ saved' = last /\ slot' = at[last]
                            /\ UNCHANGED <<order, pc, job>>
  /\ UNCHANGED modes

\* The page is not added: the operation ends, the file of it is not written.
PurgeFails ==
  /\ pc \in {"purge", "purgeFirst"} /\ "page" \in Events
  /\ \E last \in saved + 1 .. Len(order) :
       LastOfPage(last) /\ PageBuffer[last] # <<>> /\ buffers' = Freed(last)
  /\ fatalError' = TRUE
  /\ EndPurge
  /\ Go("idle", NULL)
  /\ UNCHANGED <<index, pages, pageMap, isWriteToMemory>>

-----------------------------------------------------------------------------
\* Cookfs_WriterAddFile, as far as the switch on the type of the data
AddFile(f, c) ==
  /\ pc = "idle" /\ ~fatalError
  /\ Len(pages) + Len(buffers) < MaxStored
  /\ buffers' = BuffersWithout(f) /\ index' = IndexWithout(f)
  /\ InitPageMap
  /\ Go("begin", [file |-> f, data |-> c, was |-> ReadFile(f),
                  wasPending |-> IsPending(f), written |-> 0])
  /\ UNCHANGED <<pages, modes, purge>>

\* The source cannot be read: the call fails and leaves the entry alone.
SourceFails ==
  /\ pc \in {"begin", "add"}
  /\ "source" \in Events
  /\ job.wasPending => "sourceOfPending" \in Events
  /\ Go("idle", NULL)
  /\ UNCHANGED <<store, modes, purge>>

SetEntry(f, blocks) == index' = [index EXCEPT ![f] = blocks]

\* An empty file has block -1 and no buffer.
AddEmpty ==
  /\ pc = "begin" /\ job.data = <<>>
  /\ SetEntry(job.file, <<Block(-1, 0, 0)>>)
  /\ Go("idle", NULL)
  /\ UNCHANGED <<buffers, pages, pageMap, modes, purge>>

IsSmall(c) == isWriteToMemory \/ (Len(c) <= SmallFileSize /\ Len(c) <= PageSize)

\* Small files: the buffers are purged when this one would not fit.
MakeRoom ==
  /\ pc = "begin" /\ job.data # <<>> /\ IsSmall(job.data)
  /\ LET fits == isWriteToMemory \/ buffers = <<>>
                   \/ BufferSize + Len(job.data) <= MaxBufferSize
     IN \/ ~fits /\ StartPurge("purgeFirst")
        \/ fits /\ Go("add", job) /\ UNCHANGED <<store, modes, purge>>

\* Mutant: an off-by-one
IsFullBeyond == ~isWriteToMemory /\ BufferSize + Len(job.data) > MaxBufferSize

\* The limit is reached with this file.
IsFull == ~isWriteToMemory /\ BufferSize + Len(job.data) >= MaxBufferSize

\* Cookfs_WriterAddBufferToSmallFiles.  A page that cannot be read is no
\* duplicate.
AddBuffer ==
  /\ pc = "add"
  /\ \/ /\ \E b \in Duplicates(job.data) : SetEntry(job.file, <<b>>)
        /\ Go("idle", NULL)
        /\ UNCHANGED <<buffers, purge>>
     \/ /\ Duplicates(job.data) = {} \/ "page" \in Events
        /\ SetEntry(job.file, <<Block(-Len(buffers) - 1, 0, Len(job.data))>>)
        /\ buffers' = Append(buffers, [file |-> job.file, data |-> job.data,
                                       length |-> Len(job.data), alive |-> TRUE])
        /\ Go(IF IsFull THEN "sort" ELSE "idle", NULL)
        /\ UNCHANGED purge
  /\ UNCHANGED <<pages, pageMap, modes>>

\* The purge after the file was added
PurgeFull ==
  /\ pc = "sort"
  /\ StartPurge("purge")

-----------------------------------------------------------------------------
\* Big files: an entry with blocks that are not set yet, then page after page.
AddEntry ==
  /\ pc = "begin" /\ job.data # <<>> /\ ~IsSmall(job.data)
  /\ LET numBlocks == (Len(job.data) + PageSize - 1) \div PageSize
     IN SetEntry(job.file, [i \in 1 .. numBlocks |-> Block(-1, 0, 0)])
  /\ Go("write", job)
  /\ UNCHANGED <<buffers, pages, pageMap, modes, purge>>

Written == job.written * PageSize
Piece == SubSeq(job.data, Written + 1, Min2(Written + PageSize, Len(job.data)))

WritePage ==
  /\ pc = "write"
  /\ LET next == job.written + 1
     IN \E n \in 0 .. Len(pages) :
          /\ AddPage(Piece, n)
          /\ index' = [index EXCEPT ![job.file][next] = Block(n, 0, Len(Piece))]
          /\ IF next = Len(index[job.file]) THEN Go("idle", NULL)
                                            ELSE Go("write", [job EXCEPT !.written = next])
  /\ UNCHANGED <<buffers, pageMap, modes, purge>>

\* The source ends early, or the page is not added: the entry is removed.
WriteFails ==
  /\ pc = "write"
  /\ \/ "source" \in Events /\ UNCHANGED fatalError
     \/ "page" \in Events /\ fatalError' = TRUE
  /\ SetEntry(job.file, NULL)
  /\ Go("idle", NULL)
  /\ UNCHANGED <<buffers, pages, pageMap, isWriteToMemory, purge>>

-----------------------------------------------------------------------------
\* The buffers are purged for a command (compression, aside, password, fileset)
\* or an unmount.  Nobody asks whether an error was fatal.
PurgeCommand ==
  /\ pc = "idle" /\ buffers # <<>>
  /\ StartPurge("purge")

\* In write-to-memory mode the purge drops the buffers.  Unless Events says so,
\* only those that no file needs.
PurgeInMemory ==
  /\ pc = "idle" /\ buffers # <<>> /\ isWriteToMemory
  /\ "purgeInMemory" \in Events \/ \A k \in DOMAIN buffers : ~buffers[k].alive
  /\ buffers' = <<>>
  /\ UNCHANGED <<index, pages, pageMap, modes, pc, job, purge>>

\* The command writetomemory: there is no way back.
SetWriteToMemory ==
  /\ pc = "idle"
  /\ isWriteToMemory' = TRUE
  /\ UNCHANGED <<store, fatalError, pc, job, purge>>

\* The entries of the files are unset; those of buffers live on, dead.
Unset(F, idx, bufs) ==
  /\ index' = [g \in Files |-> IF g \in F THEN NULL ELSE idx[g]]
  /\ buffers' = [k \in DOMAIN bufs |->
                    [bufs[k] EXCEPT !.alive = @ /\ bufs[k].file \notin F]]
  /\ UNCHANGED <<pages, pageMap, modes, pc, job, purge>>

\* CookfsDeleteFile
DeleteFile(f) ==
  /\ pc = "idle" /\ index[f] # NULL
  /\ Unset({f}, IndexWithout(f), BuffersWithout(f))

\* CookfsRemoveDirectory with all that is in it; the writer is not told.
RemoveDirectory ==
  /\ pc = "idle" /\ \E f \in Dir : index[f] # NULL
  /\ Unset(Dir, index, buffers)

\* The archive is unmounted, with the buffers purged, and mounted again.
Remount ==
  /\ pc = "idle" /\ buffers = <<>> /\ ~fatalError /\ ~isWriteToMemory
  /\ pageMap' = NULL
  /\ UNCHANGED <<index, buffers, pages, modes, pc, job, purge>>

Next ==
  \/ \E f \in Files : DeleteFile(f) \/ \E c \in Given[f] : AddFile(f, c)
  \/ SourceFails \/ AddEmpty \/ MakeRoom \/ AddBuffer \/ PurgeFull
  \/ AddEntry \/ WritePage \/ WriteFails
  \/ PurgePage \/ PurgeFails \/ PurgeCommand \/ PurgeInMemory
  \/ SetWriteToMemory \/ RemoveDirectory \/ Remount

Spec == Init /\ [][Next]_vars

-----------------------------------------------------------------------------
\* The types of the fields of Cookfs_Writer, of entries and of buffers
TypeOK ==
  /\ index \in [Files -> Seq(Blocks) \cup {NULL}]
  /\ \A f \in Files : index[f] # NULL => Len(index[f]) > 0
  /\ \A k \in DOMAIN buffers :
       buffers[k] \in [file : Files, data : Contents \cup {NULL}, length : Nat,
                      alive : BOOLEAN]
  /\ \A i \in DOMAIN pages : Len(pages[i]) \in 1 .. PageSize
  /\ fatalError \in BOOLEAN /\ isWriteToMemory \in BOOLEAN
  /\ pc \in {"idle", "begin", "purgeFirst", "add", "sort", "purge", "write"}
  /\ job \in Jobs \cup {NULL}
  /\ (job # NULL) <=> (pc \in {"begin", "purgeFirst", "add", "write"})
  /\ saved \in 0 .. Len(order) /\ DOMAIN order \in {{}, DOMAIN buffers}

\* Between operations, unless there was a fatal error, a file is pending with
\* block -k exactly when the k-th buffer is its own: removing, replacing and
\* purging renumber all the others (Cookfs_WriterRemoveFile).
PendingIsOwn ==
  pc = "idle" /\ ~fatalError =>
    /\ \A k \in DOMAIN buffers : buffers[k].alive =>
         index[buffers[k].file] = <<Block(-k, 0, buffers[k].length)>>
    /\ \A f \in Files : index[f] # NULL =>
         \A i \in DOMAIN index[f] :
           LET b == index[f][i]
           IN b.page < 0 /\ b.size > 0 => -b.page \in DOMAIN buffers /\ -b.page \in PlaceOf(f)

\* Between operations the buffers hold less than maxBufferSize, whatever the
\* sizes of the files were (Cookfs_WriterAddFile, before and after adding one).
BufferBounded ==
  /\ TypeOK
  /\ pc = "idle" /\ ~fatalError /\ ~isWriteToMemory /\ buffers # <<>> =>
       BufferSize < MaxBufferSize

\* What a reader of the file gets.  A file that is being written is not read:
\* its old content stands until the operation ends.
Visible ==
  [f \in Files |->
     IF fatalError THEN Unreadable
     ELSE IF job # NULL /\ f = job.file THEN job.was
     ELSE ReadFile(f)]

Asked == IF job = NULL THEN NULL ELSE [file |-> job.file, data |-> job.data]

Store ==
  INSTANCE FileStore WITH files <- Visible, request <- Asked, broken <- fatalError

\* The writer keeps every file: the content of a file is what was last written
\* to it, whether it waits in a buffer, was found to be a duplicate or was
\* packed into a page, whatever happens to other files, and however writing
\* ends (Cookfs_WriterAddFile, Cookfs_WriterPurge).
ImplementsStore == Store!Spec
=============================================================================
