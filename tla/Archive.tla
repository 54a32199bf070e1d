------------------------------- MODULE Archive -------------------------------
(***************************************************************************)
(* The archive file and the pages object that writes it (pages.c,          *)
(* pgindex.c, the reading and writing of pages in pagesCompr.c): where     *)
(* each byte goes, what is on disk when the program stops in the middle of *)
(* a write, how the file is opened again, and which key each page is       *)
(* encrypted with.                                                         *)
(*                                                                         *)
(* A file is a sequence of cells:                                          *)
(*   <<"other">>               a byte that is not cookfs's                 *)
(*   <<"stamp">>, <<"size", n>>                    COOKFS_STAMP_BYTES       *)
(*   <<"data", x, i, n, key>>  the i-th of n cells of page x               *)
(*   <<"fields", suffix>>, <<"sig">>               COOKFS_SUFFIX_BYTES      *)
(*   <<"salt", n>>, <<"ekey", pw, salt, key>>      the encryption data      *)
(* Channels write their buffers in order, and seeking writes them out, so  *)
(* an operation either finishes or the program stops when some of its      *)
(* writes are on disk.  A write that fails is such a stop (Tcl_Panic).     *)
(* Locks, the page cache, the aside pages and asynchronous compression are *)
(* left out: they have modules of their own.                               *)
(***************************************************************************)
EXTENDS Integers, Sequences, FiniteSets, FiniteSetsExt, TLC

CONSTANTS
  Before,          \* what may be in the file in front of the archive
  Contents,        \* contents a page may have
  Cells,           \* cells a page of each content takes
  Squeezed,        \* cells it takes when compressed
  Hash,            \* the MD5 sum of each content; sums may collide
  Indexes,         \* serialised file indexes
  IndexCells,      \* cells each takes
  Passwords,
  SearchWindow,    \* the signature is looked for in so many last cells: 65536
  MaxPages,        \* bound: pages of an archive
  MaxOpens,        \* bound: times the file is opened
  MaxChanges,      \* bound: pages added, indexes set and passwords changed
  MaxOther,        \* bound: cells other programs append
  Parts,           \* parts of the file that are copied, of "head", "data", "tail"
  ChangeUnlocked,  \* may an archive be changed whose key nobody gave?
  PartsAnyTime,    \* may a part be copied between two writes?
  None

ASSUME ArchiveAssumption ==
  /\ Cells \in [Contents -> Nat] /\ Squeezed \in [Contents -> Nat] /\ DOMAIN Hash = Contents
  /\ IndexCells \in [Indexes -> Nat \ {0}]
  /\ SearchWindow \in Nat \ {0} /\ MaxPages \in Nat /\ MaxOpens \in Nat /\ MaxChanges \in Nat /\ MaxOther \in Nat
  /\ ChangeUnlocked \in BOOLEAN /\ PartsAnyTime \in BOOLEAN
  /\ None \notin Contents \cup Indexes \cup Passwords

VARIABLES
  disk,    \* the file
  p,       \* the pages object, Closed when there is none
  last,    \* the archive the disk holds: what was saved or opened last
  saving,  \* the archive that was being saved when the program stopped
  clean,   \* is last the last thing written to the file?
  cut,     \* was the file truncated by somebody else?
  opens, changes, others

vars == <<disk, p, last, saving, clean, cut, opens, changes, others>>

StampCells == 2
SuffixCells == 2
Other == <<"other">>
Stamp == <<"stamp">>
Sig == <<"sig">>
Plain == <<"plain">>

\* What a page holds: a content, the index of pages or the file index.
Page(c) == <<"page", c>>
PgIndex(pages) == <<"pgindex", pages>>
FsIndex(x) == <<"fsindex", x>>

Sum(x) == IF x[1] = "page" THEN <<"page", Hash[x[2]]>> ELSE x
Size(x) ==
  CASE x[1] = "page" -> Cells[x[2]]
    [] x[1] = "fsindex" -> IndexCells[x[2]]
    [] OTHER -> 1

\* Compressed data that is not smaller is dropped: SHOULD_COMPRESS.
StoredSize(x) ==
  IF x[1] = "page" /\ Squeezed[x[2]] < Size(x) THEN Squeezed[x[2]] ELSE Size(x)

Encode(x, n, key) == [i \in 1 .. n |-> <<"data", x, i, n, key>>]

-----------------------------------------------------------------------------
(* The index of pages (pgindex.c): entries [sum, size, len, enc].           *)

GetStartOffset(pages, n) ==
  LET end[k \in 0 .. n - 1] == IF k = 0 THEN 0 ELSE end[k - 1] + pages[k].len
  IN end[n - 1]

\* Pages a new page is compared with: Cookfs_PgIndexSearchByMD5.
SearchByMD5(pages, x) ==
  {i \in DOMAIN pages : pages[i].sum = Sum(x) /\ pages[i].size = Size(x)}

PgIndexAddPage(pages, x, enc) ==
  Append(pages, [sum |-> Sum(x), size |-> Size(x), len |-> 0, enc |-> enc])

PageOffset(q, n) == q.initial + GetStartOffset(q.pages, n)

-----------------------------------------------------------------------------
(* Passwords and keys.  The key of file-based encryption is derived from   *)
(* the password and the salt; the key of key-based encryption is random    *)
(* and stored encrypted with such a derived key.                           *)

Derived(pw, salt) == <<"pw", pw, salt>>
Locked(pw, salt, key) == <<"ekey", pw, salt, key>>
KeyModes == {"key", "keyindex"}

\* Cookfs_PagesDecryptKey: on a wrong password the key is not usable.
DecryptKey(q, pw) ==
  IF q.ekey[1] = "ekey" /\ q.ekey[2] = pw /\ q.ekey[3] = q.salt
  THEN [q EXCEPT !.key = q.ekey[4], !.pwSet = TRUE, !.active = TRUE, !.keyDec = TRUE]
  ELSE [q EXCEPT !.key = <<"garbage">>]

SetPassword(q, pw) ==
  IF pw = None THEN [q EXCEPT !.active = FALSE]
  ELSE IF q.enc = "key" /\ ~q.keyDec THEN DecryptKey(q, pw)
  ELSE LET enc == IF q.enc = "none" THEN "file" ELSE q.enc
           r == [q EXCEPT !.enc = enc, !.pwSet = TRUE, !.active = TRUE]
       IN IF enc = "file" THEN [r EXCEPT !.key = Derived(pw, q.salt)]
          ELSE [r EXCEPT !.ekey = Locked(pw, q.salt, q.key),
                         !.uptodate = q.ro /\ q.uptodate]

-----------------------------------------------------------------------------
(* Reading the file.                                                        *)

Read(f, off, n) ==
  IF off >= 0 /\ off + n <= Len(f) THEN SubSeq(f, off + 1, off + n) ELSE <<>>

\* Mutant: what was read is not compared with its sum.
DecodedUnverified(got, e, key) ==
  IF /\ got # <<>> /\ got[1][1] = "data"
     /\ got = Encode(got[1][2], e.len, key)
     /\ got[1][2][1] = e.sum[1]
  THEN got[1][2]
  ELSE None

\* What was read is decrypted, decompressed and compared with its sum.
Decoded(got, e, key) ==
  IF /\ got # <<>> /\ got[1][1] = "data"
     /\ got = Encode(got[1][2], e.len, key)
     /\ Sum(got[1][2]) = e.sum
  THEN got[1][2]
  ELSE None

\* Cookfs_ReadPage: the data of the page entry e describes, or None.
ReadPage(f, off, e, q) ==
  IF e.enc /\ ~q.active THEN None
  ELSE IF e.size = 0 THEN Page(CHOOSE c \in Contents : Cells[c] = 0)
  ELSE Decoded(Read(f, off, e.len), e, IF e.enc THEN q.key ELSE Plain)

PageGet(f, q, i) == ReadPage(f, PageOffset(q, i), q.pages[i], q)

\* Where the suffix ends, 0 when there is none; off is -endoffset or None.
\* The mapped file has to go on behind the offset for another suffix.
FindSuffix(f, mapped, off) ==
  LET sigs == {i \in (IF Len(f) > SearchWindow THEN Len(f) - SearchWindow + 1 ELSE 1) .. Len(f) :
                 f[i] = Sig}
      end == IF off # None THEN off ELSE IF sigs = {} THEN 0 ELSE Max(sigs)
      room == IF mapped /\ off # None THEN SuffixCells ELSE 0
  IN IF end < SuffixCells \/ end + room > Len(f) THEN 0
     ELSE IF f[end] = Sig THEN end ELSE 0

\* Cookfs_PageSearchStamp on a mapped file: the size an archive should have.
\* A file that ends inside the stamp gives the offset of the stamp instead.
SearchStamp(f) ==
  LET stamps == {i \in DOMAIN f : f[i] = Stamp}
      at == Min(stamps)
  IN IF stamps = {} THEN None
     ELSE IF at < Len(f) /\ f[at + 1][1] = "size" THEN f[at + 1][2] ELSE at - 1

KeyCells(enc) == IF enc = "none" THEN 0 ELSE IF enc = "file" THEN 1 ELSE 2

Unread ==
  [ro |-> FALSE, mapped |-> FALSE, first |-> FALSE, initial |-> 0, pages |-> <<>>, fs |-> None,
   uptodate |-> TRUE, changed |-> FALSE, lastOp |-> "unknown", pos |-> 0,
   enc |-> "unset", pwSet |-> FALSE, active |-> FALSE, keyDec |-> FALSE,
   salt |-> <<"salt", 0>>, ekey |-> <<"none">>, key |-> <<"garbage">>,
   dataSize |-> 0, fileSize |-> 0, foffset |-> 0, content |-> <<>>, answer |-> None]

\* What the encryption data behind the suffix tells, the key being decrypted
\* with the password if there is one.
ReadEncryption(f, end, enc, pw) ==
  LET q == IF end + KeyCells(enc) > Len(f) THEN [Unread EXCEPT !.enc = enc]
           ELSE [Unread EXCEPT !.enc = enc,
                   !.salt = IF enc # "none" THEN f[end + 1] ELSE @,
                   !.ekey = IF enc \in KeyModes THEN f[end + 2] ELSE @]
  IN IF enc \in KeyModes /\ pw # None THEN DecryptKey(q, pw) ELSE q

Unlocked(q, pw) == IF pw = None THEN q.enc # "keyindex" ELSE q.enc \in KeyModes => q.keyDec

\* An index, of pages or of files, whose entry is in the suffix.
ReadIndexData(f, e, off, q) ==
  IF e = None THEN None ELSE ReadPage(f, off, [e EXCEPT !.enc = q.enc = "keyindex"], q)

\* Where the pages begin that end at start.
InitialOffset(pages, start) == start - GetStartOffset(pages, Len(pages) + 1)

EntryCells(e) == IF e = None THEN 0 ELSE e.len

NoSuffix == [st |-> "none", q |-> Unread]
Aborted == [st |-> "abort", q |-> Unread]

\* The suffix that ends at end, with the fields s, and the indexes pg and fs in
\* front of it, from start on.
Joined(f, end, s, q, pw, start, pg, fs) ==
  LET behind == end + KeyCells(s.enc)
      pages == IF pg = None THEN <<>> ELSE pg[2]
      initial == InitialOffset(pages, start)
  IN IF /\ behind <= Len(f) /\ Unlocked(q, pw) /\ start >= 0
        /\ (s.pg # None => pg # None) /\ (s.fs # None => fs # None)
        /\ initial >= StampCells
     THEN [st |-> "ok", q |-> [q EXCEPT !.pages = pages, !.fs = IF fs = None THEN None ELSE fs[2],
             !.initial = initial, !.pos = behind, !.foffset = end,
             !.lastOp = IF s.pg = None /\ s.fs = None THEN "unknown" ELSE "read",
             !.dataSize = behind - initial + StampCells]]
     ELSE Aborted

ReadIndexes(f, end, s, q, pw, start) ==
  Joined(f, end, s, q, pw, start,
         ReadIndexData(f, s.pg, start, q),
         ReadIndexData(f, s.fs, start + EntryCells(s.pg), q))

ReadSuffix(f, end, s, pw) ==
  ReadIndexes(f, end, s, ReadEncryption(f, end, s.enc, pw), pw,
              end - SuffixCells - EntryCells(s.pg) - EntryCells(s.fs))

\* What CookfsReadIndex returns: "ok", "none" when there is no suffix, and
\* "abort" when there is one and what it describes cannot be read.
ReadIndex(f, mapped, off, pw) ==
  LET end == FindSuffix(f, mapped, off)
  IN IF end = 0 THEN NoSuffix
     ELSE IF f[end - 1][1] # "fields" THEN Aborted
     ELSE ReadSuffix(f, end, f[end - 1][2], pw)

\* A file that has none gets an archive at its end.  n is what is random.
NewArchive(q, f, pw, encryptKey, n) ==
  LET enc == IF pw = None THEN (IF encryptKey THEN "key" ELSE "none")
             ELSE (IF encryptKey THEN "keyindex" ELSE "file")
  IN [q EXCEPT !.first = TRUE, !.initial = Len(f), !.pos = Len(f),
        !.uptodate = FALSE, !.changed = TRUE, !.enc = enc,
        !.salt = IF enc = "none" THEN @ ELSE <<"salt", n>>,
        !.key = IF enc \in KeyModes THEN <<"random", n>> ELSE @,
        !.keyDec = enc \in KeyModes]

Opening(r, f, ro, mapped, pw, encryptKey, n) ==
  LET q == [r.q EXCEPT !.ro = ro, !.mapped = mapped, !.fileSize = Len(f)]
      o == IF r.st = "ok" THEN q ELSE NewArchive(q, f, pw, encryptKey, n)
  IN IF r.st = "abort" \/ (r.st = "none" /\ ro) THEN None
     ELSE IF pw # None /\ ~o.pwSet THEN SetPassword(o, pw) ELSE o

\* Cookfs_PagesInit: the pages object, or None.
PagesInit(f, ro, mapped, off, pw, encryptKey, n) ==
  Opening(ReadIndex(f, mapped, off, pw), f, ro, mapped, pw, encryptKey, n)

-----------------------------------------------------------------------------
(* Writing.  An operation gives the object as it leaves it and its writes   *)
(* to the file, in order: <<"put", offset, cell>> or <<"truncate", offset>>.       *)

WriteAt(off, cells) == [i \in DOMAIN cells |-> <<"put", off + i - 1, cells[i]>>]

Written(f, ws) ==
  LET Put(g, w) == IF w[1] = "truncate" THEN SubSeq(g, 1, w[2])
                   ELSE IF w[2] < Len(g) THEN [g EXCEPT ![w[2] + 1] = w[3]]
                   ELSE g \o [i \in 1 .. w[2] - Len(g) |-> <<"zero">>] \o <<w[3]>>
      done[k \in 0 .. Len(ws)] == IF k = 0 THEN f ELSE Put(done[k - 1], ws[k])
  IN done[Len(ws)]

\* The initial stamp, in front of the first write of a new archive.
AddStamp(q, f) ==
  IF ~q.first THEN [q |-> q, ws |-> <<>>]
  ELSE [q |-> [q EXCEPT !.first = FALSE, !.initial = @ + StampCells,
                        !.lastOp = "write", !.pos = Len(f) + StampCells],
        ws |-> WriteAt(Len(f), <<Stamp, <<"size", 0>>>>)]

\* Mutant: there is no final stamp.
FinalStampMissing(q, end) == <<>>

\* The final stamp, when the size of the archive is known.
FinalStamp(q, end) == <<<<"put", q.initial - 1, <<"size", end>>>>>>

\* Mutant: pages are written where the channel is.
WritePageUnsought(o, n, x) ==
  LET len == StoredSize(x)
      key == IF o.q.active THEN o.q.key ELSE Plain
  IN [q |-> [o.q EXCEPT !.lastOp = "write", !.pos = o.q.pos + len, !.pages[n].len = len],
      ws |-> o.ws \o WriteAt(o.q.pos, Encode(x, len, key))]

\* Cookfs_WritePage behind what o has written: the page is compressed when
\* that makes it smaller, then encrypted, and written where it belongs, which
\* takes a seek unless the last operation was a write.
WritePage(o, n, x) ==
  LET at == IF o.q.lastOp = "write" THEN o.q.pos ELSE PageOffset(o.q, n)
      len == StoredSize(x)
      key == IF o.q.active THEN o.q.key ELSE Plain
  IN [q |-> [o.q EXCEPT !.lastOp = "write", !.pos = at + len, !.pages[n].len = len],
      ws |-> o.ws \o WriteAt(at, Encode(x, len, key))]

\* An index is added to the index of pages and written like a page.
WriteIndex(o, x) ==
  WritePage([o EXCEPT !.q.pages = PgIndexAddPage(@, x, FALSE)], Len(o.q.pages) + 1, x)

\* CookfsTruncateFileIfNeeded.
TruncateFile(end) == <<<<"truncate", end>>>>

\* Cookfs_PagesClose of an object that was changed.  An archive whose password
\* is not known is saved without encryption.
PagesClose(q, f) ==
  LET enc == IF q.pwSet THEN q.enc ELSE "none"
      stamped == AddStamp(q, f)
      a == [stamped EXCEPT !.q.enc = enc, !.q.active = enc = "keyindex"]
      b == IF q.pages = <<>> THEN a ELSE WriteIndex(a, PgIndex(q.pages))
      c == IF q.fs = None THEN b ELSE WriteIndex(b, FsIndex(q.fs))
      n == Len(q.pages)
      pgEntry == IF n = 0 THEN None ELSE c.q.pages[n + 1]
      fsEntry == IF q.fs = None THEN None ELSE c.q.pages[Len(c.q.pages)]
      keys == SubSeq(<<q.salt, q.ekey>>, 1, KeyCells(enc))
      tail == <<<<"fields", [enc |-> enc, pg |-> pgEntry, fs |-> fsEntry]>>, Sig>> \o keys
      end == c.q.pos + Len(tail)
  IN [q |-> [c.q EXCEPT !.foffset = end],
      ws |-> c.ws \o WriteAt(c.q.pos, tail) \o TruncateFile(end) \o FinalStamp(c.q, end)]

-----------------------------------------------------------------------------
(* What is remembered for the properties: the archive an object is, and     *)
(* for each page its content and the key of its cells.                      *)

Snapshot(q) ==
  [pages |-> q.pages, fs |-> q.fs, content |-> q.content, initial |-> q.initial, end |-> q.foffset]

ContentOnDisk(f, q) ==
  [i \in DOMAIN q.pages |->
     IF q.pages[i].len = 0 THEN <<CHOOSE c \in Contents : Cells[c] = 0, Plain>>
     ELSE LET cell == f[PageOffset(q, i) + 1] IN <<cell[2][2], cell[5]>>]

KeyOfNew(q, c) == IF q.active /\ Cells[c] > 0 THEN q.key ELSE Plain

IsOpen == p # None
Counted == changes < MaxChanges /\ changes' = changes + 1

\* The operation's writes reach the disk, or the program stops after some.
Finish(ws, q) ==
  /\ disk' = Written(disk, ws)
  /\ p' = q

StopWriting(ws) ==
  \E k \in 1 .. Len(ws) - 1 :
    /\ disk' = Written(disk, SubSeq(ws, 1, k))
    /\ p' = None

-----------------------------------------------------------------------------
(* The file is opened and closed.                                           *)

\* The file is mapped.  Only an archive just saved is opened for reading here:
\* the properties open every other file.
OpenReadonly(pw) ==
  LET q == PagesInit(disk, TRUE, TRUE, None, pw, FALSE, 0)
  IN /\ ~IsOpen /\ clean
     /\ opens < MaxOpens
     /\ q # None
     /\ p' = [q EXCEPT !.content = ContentOnDisk(disk, q)]
     /\ opens' = opens + 1
     /\ UNCHANGED <<disk, last, saving, clean, cut, changes, others>>

\* A file with no archive gets a new one at its end.
OpenForWriting(off, pw, encryptKey) ==
  LET q == PagesInit(disk, FALSE, FALSE, off, pw, encryptKey, opens + 1)
      r == [q EXCEPT !.content = ContentOnDisk(disk, q)]
  IN /\ ~IsOpen
     /\ opens < MaxOpens
     /\ q # None
     /\ p' = r
     /\ opens' = opens + 1
     /\ IF q.first THEN UNCHANGED <<last, saving>>
        ELSE last' = Snapshot(r) /\ saving' = None
     /\ UNCHANGED <<disk, clean, cut, changes, others>>

\* With no page and no index to write first, which takes a seek, the suffix goes
\* where reading, which is buffered, left the channel.
SuffixPositions ==
  IF p.lastOp # "write" /\ ~p.first /\ p.pages = <<>> /\ p.fs = None
  THEN p.pos .. Len(disk) ELSE {p.pos}

\* An object that was not changed writes nothing.
CloseUnchanged ==
  /\ IsOpen
  /\ p.ro \/ (p.uptodate /\ ~p.changed)
  /\ p' = None
  /\ UNCHANGED <<disk, last, saving, clean, cut, opens, changes, others>>

Close ==
  /\ IsOpen /\ ~p.ro
  /\ ~p.uptodate \/ p.changed
  /\ \E pos \in SuffixPositions :
       LET o == PagesClose([p EXCEPT !.pos = pos], disk)
           saved == [Snapshot(o.q) EXCEPT !.pages = p.pages]
       IN \/ /\ Finish(o.ws, None)
             /\ last' = saved /\ saving' = None /\ clean' = TRUE
          \/ /\ StopWriting(o.ws)
             /\ saving' = saved /\ clean' = FALSE
             /\ UNCHANGED last
  /\ UNCHANGED <<cut, opens, changes, others>>

Stop ==
  /\ IsOpen
  /\ p' = None
  /\ UNCHANGED <<disk, last, saving, clean, cut, opens, changes, others>>

-----------------------------------------------------------------------------
(* Operations of a pages object.                                            *)

\* An archive whose key was not given can be changed, but see KeptReadable.
MayChange == ChangeUnlocked \/ p.pwSet \/ p.enc = "none" \/ p.dataSize = 0

\* The pages a new one is read against; what ends the comparing is a page with
\* the same content or, unless each file has its password, one it cannot read.
\* Mutant: a plain page will do for one to be encrypted.
ComparedAny(x) == SearchByMD5(p.pages, x)

Compared(x) == {i \in SearchByMD5(p.pages, x) : p.pages[i].enc = p.active}
ComparingStops(x) ==
  {i \in Compared(x) : \/ PageGet(disk, p, i) = x
                       \/ PageGet(disk, p, i) = None /\ p.enc # "file"}

AfterComparing(x) == IF Compared(x) = {} THEN p ELSE [p EXCEPT !.lastOp = "read"]

\* Cookfs_PageAddRaw: the page is in the archive, or one it cannot be compared with.
AddKnown(c) ==
  LET x == Page(c)
      i == Min(ComparingStops(x))
  IN /\ IsOpen
     /\ ComparingStops(x) # {}
     /\ p' = [AfterComparing(x) EXCEPT !.answer =
                IF PageGet(disk, p, i) = x THEN [i |-> i, c |-> c, enc |-> p.active] ELSE None]
     /\ UNCHANGED <<disk, last, saving, clean, cut, opens, changes, others>>

AddNew(c) ==
  LET x == Page(c)
      n == Len(p.pages) + 1
      q == [AfterComparing(x) EXCEPT !.pages = PgIndexAddPage(@, x, p.active),
              !.content = Append(@, <<c, KeyOfNew(p, c)>>),
              !.answer = [i |-> n, c |-> c, enc |-> p.active],
              !.uptodate = FALSE]
      o == WritePage(AddStamp(q, disk), n, x)
  IN /\ IsOpen /\ ~p.ro
     /\ ComparingStops(x) = {}
     /\ n <= MaxPages
     /\ MayChange
     /\ Finish(o.ws, o.q) \/ StopWriting(o.ws)
     /\ clean' = (clean /\ o.ws = <<>>)
     /\ Counted
     /\ UNCHANGED <<last, saving, cut, opens, others>>

GetPage(i) ==
  /\ IsOpen
  /\ i \in DOMAIN p.pages
  /\ p' = [p EXCEPT !.lastOp = "read"]
  /\ UNCHANGED <<disk, last, saving, clean, cut, opens, changes, others>>

SetIndex(x) ==
  /\ IsOpen /\ ~p.ro
  /\ MayChange
  /\ p' = [p EXCEPT !.fs = x, !.changed = TRUE]
  /\ Counted
  /\ UNCHANGED <<disk, last, saving, clean, cut, opens, others>>

ChangePassword(pw) ==
  /\ IsOpen
  /\ p' = SetPassword(p, pw)
  /\ Counted
  /\ UNCHANGED <<disk, last, saving, clean, cut, opens, others>>

PartEnd(part) ==
  CASE part = "head" -> p.initial - StampCells
    [] part = "data" -> p.initial - StampCells + p.dataSize
    [] part = "tail" -> p.fileSize

PartSize(part) ==
  CASE part = "head" -> PartEnd("head")
    [] part = "data" -> p.dataSize
    [] part = "tail" -> PartEnd("tail") - PartEnd("data")

\* There are parts of an archive that was saved before; a mapped file is read
\* without a channel.
CopiesPart(part) ==
  /\ IsOpen /\ ~p.mapped
  /\ p.dataSize # 0 /\ PartSize(part) # 0

\* Cookfs_PagesGetPartObj, and Cookfs_PageGetTail for the whole archive.
GetPart(part) ==
  /\ CopiesPart(part)
  /\ PartsAnyTime \/ p.pages # <<>> \/ p.fs # None
  /\ p' = [p EXCEPT !.lastOp = "unknown"]
  /\ UNCHANGED <<disk, last, saving, clean, cut, opens, changes, others>>

\* Cookfs_PagesPutPartToChannel reads and leaves fileLastOp as it is.
PutPart(part) ==
  /\ CopiesPart(part)
  /\ PartsAnyTime \/ (p.lastOp # "write" /\ (p.pages # <<>> \/ p.fs # None))
  /\ p' = [p EXCEPT !.pos = PartEnd(part)]
  /\ UNCHANGED <<disk, last, saving, clean, cut, opens, changes, others>>

-----------------------------------------------------------------------------
(* What others do to the file while it is not open.                         *)

CutFile(n) ==
  /\ ~IsOpen /\ clean /\ ~cut
  /\ opens < MaxOpens
  /\ disk' = SubSeq(disk, 1, n)
  /\ cut' = TRUE /\ clean' = FALSE
  /\ UNCHANGED <<p, last, saving, opens, changes, others>>

AppendOther ==
  /\ ~IsOpen /\ clean
  /\ others < MaxOther
  /\ disk' = Append(disk, Other)
  /\ others' = others + 1
  /\ UNCHANGED <<p, last, saving, clean, cut, opens, changes>>

Init ==
  /\ disk \in Before
  /\ p = None /\ last = None /\ saving = None
  /\ clean = FALSE /\ cut = FALSE
  /\ opens = 0 /\ changes = 0 /\ others = 0

MaybePassword == Passwords \cup {None}

Next ==
  \/ \E pw \in MaybePassword : OpenReadonly(pw)
  \/ \E pw \in MaybePassword, encryptKey \in BOOLEAN : OpenForWriting(None, pw, encryptKey)
  \/ CloseUnchanged
  \/ Close
  \/ Stop
  \/ \E c \in Contents : AddKnown(c) \/ AddNew(c)
  \/ \E i \in 1 .. MaxPages : GetPage(i)
  \/ \E x \in Indexes : SetIndex(x)
  \/ \E pw \in MaybePassword : ChangePassword(pw)
  \/ \E part \in Parts : GetPart(part) \/ PutPart(part)
  \/ \E n \in 0 .. Len(disk) - 1 : CutFile(n)
  \/ AppendOther

Spec == Init /\ [][Next]_vars

-----------------------------------------------------------------------------
Opened(mapped, off, pw) == PagesInit(disk, TRUE, mapped, off, pw, FALSE, 0)

SameArchive(q, a) == a # None /\ q.pages = a.pages /\ q.fs = a.fs

PageCells(q, i) == Read(disk, PageOffset(q, i), q.pages[i].len)

Holds(q, i) ==
  LET e == q.pages[i]
      c == q.content[i]
  IN PageCells(q, i) = (IF e.len = 0 THEN <<>> ELSE Encode(Page(c[1]), e.len, c[2]))

TypeOK ==
  /\ \A i \in DOMAIN disk :
       disk[i][1] \in {"other", "stamp", "size", "data", "fields", "sig", "salt", "ekey", "none"}
  /\ p # None =>
       /\ p.enc \in {"none", "file", "key", "keyindex"} /\ p.lastOp \in {"unknown", "read", "write"}
       /\ p.initial \in 0 .. Len(disk) /\ p.pos \in 0 .. Len(disk)
       /\ DOMAIN p.content = DOMAIN p.pages /\ Len(p.pages) <= MaxPages
       /\ p.active => p.pwSet
  /\ clean \in BOOLEAN /\ cut \in BOOLEAN
  /\ opens \in 0 .. MaxOpens /\ changes \in 0 .. MaxChanges /\ others \in 0 .. MaxOther

\* Wherever writing stopped, a file that opens is the archive saved before or
\* the one that was being saved, never a mixture.
OpensWhatWasSaved ==
  ~cut => \A mapped \in BOOLEAN, pw \in MaybePassword :
    LET q == Opened(mapped, None, pw)
    IN q # None => SameArchive(q, last) \/ SameArchive(q, saving)

\* Until the file is truncated, the pages of the archive saved last stay where
\* they are, whatever is written behind them: who has it open can read them.
SavedPagesStay ==
  (last # None /\ ~cut) => \A i \in DOMAIN last.pages : Holds(last, i)

\* The pages of the open object are where its index says (Cookfs_WritePage),
\* and those of the archive saved last are still there.
PagesAreInPlace ==
  /\ TypeOK
  /\ IsOpen => \A i \in DOMAIN p.pages : Holds(p, i)
  /\ SavedPagesStay

\* The page Cookfs_PageAdd answers with has that content, and is encrypted if
\* and only if a page was to be.
AnswerIsThatPage ==
  (IsOpen /\ p.answer # None) =>
    /\ p.content[p.answer.i][1] = p.answer.c
    /\ p.pages[p.answer.i].enc = p.answer.enc
    /\ p.answer.enc /\ Cells[p.answer.c] > 0 => p.content[p.answer.i][2] # Plain

EndOfSuffix == Max({i \in 1 .. last.end : disk[i] = Sig})
Findable == EndOfSuffix > Len(disk) - SearchWindow

OpensAsLast(mapped, off) ==
  \E pw \in MaybePassword :
    LET q == Opened(mapped, off, pw) IN q # None /\ SameArchive(q, last)

\* An archive that was saved is found again, with some password: at the end of
\* the file, in front of what other programs appended, and in any case at its
\* -endoffset, unless the file is mapped and too little follows.
ClosedIsFound ==
  (clean /\ ~IsOpen) =>
    /\ Findable => \A mapped \in BOOLEAN : OpensAsLast(mapped, None)
    /\ OpensAsLast(FALSE, EndOfSuffix)
    /\ OpensAsLast(TRUE, EndOfSuffix) <=> Len(disk) >= EndOfSuffix + SuffixCells

\* Every encrypted page of a saved archive can be read with some password.
KeptReadable ==
  (clean /\ ~IsOpen /\ Findable) =>
    \A i \in DOMAIN last.pages : last.content[i][2] # Plain =>
      \E pw \in Passwords : LET q == Opened(TRUE, None, pw)
                            IN q # None /\ PageGet(disk, q, i) = Page(last.content[i][1])

\* What is left of the only archive of a file does not open, and when its
\* stamp is left the user is told the size it had.
CutIsNoticed ==
  (cut /\ opens = 1 /\ Len(disk) < last.end) =>
    /\ \A mapped \in BOOLEAN, pw \in MaybePassword : Opened(mapped, None, pw) = None
    /\ Len(disk) >= last.initial => SearchStamp(disk) = last.end

\* Who opens the file later finds in it what was saved and can read it, with
\* some password, or is told that it was cut (Cookfs_PagesInit).
FoundOrTold == ClosedIsFound /\ KeptReadable /\ CutIsNoticed
=============================================================================
