-------------------------------- MODULE Async --------------------------------
(***************************************************************************)
(* Compression and decompression of pages by callbacks that work beside    *)
(* the program (pagesAsync.c, with what pages.c, pgindex.c and             *)
(* pagesCompr.c do around it), and the callbacks that cookfs brings for    *)
(* threads and processes (scripts/asyncworker_*.tcl).                      *)
(*                                                                         *)
(* The thread of the archive makes one call at a time; a call that waits   *)
(* for a callback takes several steps, between which workers finish.  A    *)
(* callback is asked to "process" a page and to "wait" for one; what it    *)
(* was given it holds as busy, done or available.  Pages have a place in   *)
(* the file, because pages that are compressed out of order, or whose      *)
(* size is not known yet, must still be written where the index says.      *)
(***************************************************************************)
EXTENDS Integers, Sequences, FiniteSets, FiniteSetsExt, Functions

CONSTANTS
  Contents,   \* what pages may hold
  Raw,        \* the contents that are not worth compressing
  MaxPages,   \* bound: pages of the archive
  MaxAsync,   \* COOKFS_PAGES_MAX_ASYNC
  QueueSize,  \* -asyncdecompressqueuesize
  CacheSize,  \* -cachesize
  Workers,    \* -count of the callbacks of cookfs
  Held,       \* pages the callback of the tests holds before it gives one
  Kinds,      \* the callbacks: "thread", "process", "queue", "random"
  Events,     \* which of "fails", "rawPreloads", "earlyInfo" happen
  NULL

Calls ==
  [op : {"add", "compare", "get", "set", "close"}, idx : 0 .. MaxPages, to : 0 .. MaxPages + 1,
   at : {"collect", "room", "loading", "cached", "pending", "slot", "read",
         "drain", "preloads", "closed"}]

ASSUME AsyncAssumption ==
  /\ Raw \subseteq Contents
  /\ MaxPages \in Nat /\ MaxAsync \in Nat \ {0} /\ QueueSize \in Nat
  /\ CacheSize \in Nat /\ Workers \in Nat \ {0} /\ Held \in Nat \ {0}
  /\ Kinds \subseteq {"thread", "process", "queue", "random"}
  /\ NULL \notin Contents \cup Int \cup Calls

VARIABLES
  pages,  \* the Cookfs_Pages with its file and the state of the callback
  call,   \* the call that is being made, or NULL
  answer  \* what the last reading of a page gave: [idx, content], or NULL

vars == <<pages, call, answer>>

\* A queue, which has nothing twice, without some of what is in it
Kept(rest, x, gone) == IF x \in gone THEN rest ELSE Append(rest, x)

Without(queue, gone) ==
  LET rest[k \in 0 .. Len(queue)] ==
        IF k = 0 THEN <<>> ELSE Kept(rest[k - 1], queue[k], gone)
  IN rest[Len(queue)]

-----------------------------------------------------------------------------
\* Pages and the file

Size(c) == IF c \in Raw THEN 2 ELSE 1

NoWorker == [idle |-> Workers, busy |-> <<>>, stranded |-> {}, done |-> {}, failed |-> {},
             available |-> {}]

\* Cookfs_PagesInit
Opened(index, file, mode, kind) ==
  [index |-> [i \in DOMAIN index |-> [index[i] EXCEPT !.offset = IF i = 1 THEN 0 ELSE -1]],
   file |-> file, position |-> 0, fileLastOp |-> "unknown", isUptodate |-> TRUE,
   isCustom |-> TRUE, mode |-> mode, kind |-> kind,
   asyncPage |-> <<>>, asyncDecompressIdx |-> <<>>, cache |-> <<>>, worker |-> NoWorker]

PgIndexAddPage(s, c) ==
  [s EXCEPT !.isUptodate = FALSE,
            !.index = Append(@, [content |-> c, size |-> -1,
                                 offset |-> IF @ = <<>> THEN 0 ELSE -1])]

\* Offsets are calculated from the sizes before and remembered
GetStartOffset(s, i) ==
  LET known == Max({j \in 1 .. i : s.index[j].offset >= 0})
      start[j \in 0 .. i] ==
        IF j <= known THEN s.index[known].offset ELSE start[j - 1] + s.index[j - 1].size
  IN [s EXCEPT !.index = [j \in DOMAIN s.index |->
                            IF j \in known .. i THEN [s.index[j] EXCEPT !.offset = start[j]]
                            ELSE s.index[j]]]

SeekToPage(s, i) ==
  LET known == GetStartOffset(s, i) IN [known EXCEPT !.position = known.index[i].offset]

\* Mutant: a page is written where the channel is, though it was read since
WritePageUnsought(s, i) ==
  LET size == Size(s.index[i].content)
      cells == s.position + 1 .. s.position + size
  IN [s EXCEPT !.file = [x \in DOMAIN @ \cup cells |-> IF x \in cells THEN i ELSE @[x]],
               !.position = @ + size, !.fileLastOp = "write", !.index[i].size = size]

WritePage(s, i) ==
  LET t == IF s.fileLastOp = "write" THEN s ELSE SeekToPage(s, i)
      size == Size(s.index[i].content)
      cells == t.position + 1 .. t.position + size
  IN [t EXCEPT !.file = [x \in DOMAIN @ \cup cells |-> IF x \in cells THEN i ELSE @[x]],
               !.position = @ + size, !.fileLastOp = "write", !.index[i].size = size]

\* Is the page where its offset says?
Found(s, i) ==
  LET page == s.index[i]
  IN \A x \in page.offset + 1 .. page.offset + page.size : x \in DOMAIN s.file /\ s.file[x] = i

\* The page is read at its offset, which moves the channel
ReadPage(s, i) ==
  LET t == SeekToPage(s, i)
  IN [t EXCEPT !.position = @ + t.index[i].size, !.fileLastOp = "read"]

\* A page is put in the cache, in the place of any other when it is full
\* (whose place it takes is the matter of module PageCache)
PageCacheSet(s, i, c) ==
  IF CacheSize = 0 THEN {s}
  ELSE IF i \in DOMAIN s.cache THEN {s}
  ELSE {[s EXCEPT !.cache = [j \in keep \cup {i} |-> IF j = i THEN c ELSE @[j]]] :
          keep \in {k \in SUBSET DOMAIN s.cache :
                      Cardinality(k) = Min({Cardinality(DOMAIN s.cache), CacheSize - 1})}}

-----------------------------------------------------------------------------
\* The callbacks.  "thread" and "process" are those of cookfs, "queue" and
\* "random" those of the tests, which work at once and give pages later.

\* Without an idle worker the command fails, with the page among the busy ones
Process(s, i) ==
  LET works == s.kind \in {"thread", "process"}
  IN [s EXCEPT !.worker.busy = Append(@, i),
               !.worker.idle = IF works /\ @ > 0 THEN @ - 1 ELSE @,
               !.worker.stranded = IF works /\ s.worker.idle = 0 THEN @ \cup {i} ELSE @]

HasWorker(s, i) == i \in Range(s.worker.busy) \ s.worker.stranded

\* Decompressing what was stored as it is fails
MayFail(s, i) ==
  "fails" \in Events \/ (s.mode = "decompress" /\ s.index[i].content \in Raw)

MayWork(s, i) == ~(s.mode = "decompress" /\ s.index[i].content \in Raw)

\* The results that are there are taken; a failure counts if it is the last one
Collected(w) ==
  LET there == w.done \cup w.failed
  IN [w EXCEPT !.busy = Without(@, there),
               !.idle = @ + Cardinality(there),
               !.available = @ \cup w.done, !.done = {}, !.failed = {}]

FailureSeen(w) ==
  LET there == {k \in DOMAIN w.busy : w.busy[k] \in w.done \cup w.failed}
  IN there # {} /\ w.busy[Max(there)] \in w.failed

\* May "wait" end, when idx is asked for (-1 for any) or everything (all)?
ThreadWaitEnds(w, idx) == w.busy = <<>> \/ (w.idle > 0 /\ (idx = -1 \/ idx \in w.available))
ProcessWaitEnds(w, all) == w.busy = <<>> \/ (~all /\ w.idle > 0)

\* What "wait" may return: the page, NULL for nothing, and the callback's state.
\* It returns nothing for as long as the set is empty.
WorkerWait(s, idx, all) ==
  LET w == Collected(s.worker)
      Answers(i) == {<<i, [w EXCEPT !.available = @ \ {i}]>>}
  IN IF s.kind = "thread" /\ FailureSeen(s.worker) THEN {<<NULL, w>>}
     ELSE IF ~(IF s.kind = "thread" THEN ThreadWaitEnds(w, idx) ELSE ProcessWaitEnds(w, all))
       THEN {}
     ELSE LET asked == IF idx = -1 THEN w.available ELSE w.available \cap {idx}
          IN IF asked = {} THEN {<<NULL, w>>} ELSE UNION {Answers(i) : i \in asked}

TestWait(s, all) ==
  LET w == s.worker
      given == IF ~all /\ Len(w.busy) < Held THEN {}
               ELSE IF s.kind = "random" THEN DOMAIN w.busy ELSE DOMAIN w.busy \cap {1}
  IN IF given = {} THEN {<<NULL, w>>}
     ELSE {<<w.busy[k], [w EXCEPT !.busy = Without(@, {@[k]})]>> : k \in given}

Wait(s, idx, all) ==
  IF s.kind \in {"thread", "process"} THEN WorkerWait(s, idx, all) ELSE TestWait(s, all)

-----------------------------------------------------------------------------
\* Waiting for pages: the sets of <<is there more to wait for, state>>

IsAsync(s) == s.mode = "compress" /\ s.isCustom

\* Mutant: with nothing in the queue the end is not seen
CompressWaitsOn(s, require) ==
  LET idx == IF s.asyncPage = <<>> THEN -1 ELSE s.asyncPage[1]
      Continued(r) ==
        LET t == [s EXCEPT !.worker = r[2]]
        IN IF r[1] = NULL THEN <<require, t>>
           ELSE IF r[1] # idx THEN <<TRUE, t>>
           ELSE <<TRUE, [WritePage(t, idx) EXCEPT !.asyncPage = Tail(@)]>>
  IN IF ~IsAsync(s) \/ (s.asyncPage = <<>> /\ ~require) THEN {<<FALSE, s>>}
     ELSE {Continued(r) : r \in Wait(s, idx, require)}

AsyncCompressWait(s, require) ==
  LET idx == IF s.asyncPage = <<>> THEN -1 ELSE s.asyncPage[1]
      Continued(r) ==
        LET t == [s EXCEPT !.worker = r[2]]
            written == [WritePage(t, idx) EXCEPT !.asyncPage = Tail(@)]
        IN IF r[1] = NULL THEN <<require /\ s.asyncPage # <<>>, t>>
           ELSE IF r[1] # idx THEN <<TRUE, t>>
           ELSE <<written.asyncPage # <<>>, written>>
  IN IF ~IsAsync(s) \/ (s.asyncPage = <<>> /\ ~require) THEN {<<FALSE, s>>}
     ELSE {Continued(r) : r \in Wait(s, idx, require)}

\* Mutant: the first of the queue is taken to have come
DecompressWaitFirst(s, idx) ==
  LET Continued(r) ==
        LET t == [s EXCEPT !.worker = r[2]]
        IN IF r[1] = NULL THEN {<<t.asyncDecompressIdx # <<>>, t>>}
           ELSE {<<u.asyncDecompressIdx # <<>>, u>> :
                   u \in PageCacheSet([t EXCEPT !.asyncDecompressIdx = Tail(@)],
                                      r[1], s.index[r[1]].content)}
  IN IF s.mode # "decompress" THEN {<<FALSE, s>>}
     ELSE UNION {Continued(r) : r \in Wait(s, idx, TRUE)}

AsyncDecompressWait(s, idx) ==
  LET Continued(r) ==
        LET t == [s EXCEPT !.worker = r[2]]
        IN IF r[1] = NULL THEN {<<t.asyncDecompressIdx # <<>>, t>>}
           ELSE {<<u.asyncDecompressIdx # <<>>, u>> :
                   u \in PageCacheSet([t EXCEPT !.asyncDecompressIdx = Without(@, {r[1]})],
                                      r[1], s.index[r[1]].content)}
  IN IF s.mode # "decompress" THEN {<<FALSE, s>>}
     ELSE UNION {Continued(r) : r \in Wait(s, idx, TRUE)}

\* Known already, refused when the queue is full, or read and sent off
AsyncPagePreload(s, i) ==
  IF i \in Range(s.asyncDecompressIdx) \/ i \in DOMAIN s.cache THEN s
  ELSE IF Len(s.asyncDecompressIdx) >= QueueSize THEN NULL
  ELSE [Process(ReadPage(s, i), i) EXCEPT !.asyncDecompressIdx = Append(@, i)]

\* The pages from one on are preloaded until one is refused, at "to"
PreloadedOne(a, k) ==
  LET t == AsyncPagePreload(a.pages, k)
  IN IF a.to < k \/ t = NULL THEN a ELSE [to |-> k + 1, pages |-> t]

Preloaded(s, from) ==
  LET last == Len(s.index)
      nothing == [to |-> from, pages |-> s]
      after[k \in 0 .. last] ==
        IF k < from THEN nothing ELSE PreloadedOne(after[k - 1], k)
  IN IF s.mode # "decompress" \/ QueueSize = 0 \/ from > last THEN nothing ELSE after[last]

-----------------------------------------------------------------------------
\* The calls

Idle == call = NULL
Goes(step) == call' = [call EXCEPT !.at = step]
Returns == call' = NULL

\* Pages that are not compressed meet the asynchronous decompression only in
\* Events: it is called for them too
MayBePreloaded(mode, contents) ==
  mode = "decompress" => ("rawPreloads" \in Events \/ contents \cap Raw = {})

\* Cookfs_PageGet begins with preloading the pages behind the one it gets
Getting(op, i) ==
  LET ahead == Preloaded(pages, i + 1)
  IN /\ pages' = ahead.pages
     /\ call' = [op |-> op, idx |-> i, to |-> ahead.to,
                 at |-> IF CacheSize = 0 THEN "pending" ELSE "loading"]

\* Cookfs_PageAddRaw: a page that is there is read and compared, another one is
\* written or sent to the callback
Add(c) ==
  /\ Idle
  /\ LET same == {i \in DOMAIN pages.index : pages.index[i].content = c}
         i == Len(pages.index) + 1
     IN IF same # {}
        THEN Getting("compare", Min(same))
        ELSE /\ i <= MaxPages /\ MayBePreloaded(pages.mode, {c})
             /\ LET s == PgIndexAddPage(pages, c)
                IN IF IsAsync(pages)
                   THEN pages' = s /\ call' = [op |-> "add", idx |-> i, to |-> 0, at |-> "collect"]
                   ELSE pages' = WritePage(s, i) /\ call' = NULL
  /\ UNCHANGED answer

\* Retrieve the pages that are ready, in the order they were added
Collect ==
  /\ ~Idle /\ call.at = "collect"
  /\ \E r \in AsyncCompressWait(pages, FALSE) :
       pages' = r[2] /\ Goes(IF r[1] THEN "collect" ELSE "room")
  /\ UNCHANGED answer

\* While the queue is full the first page is waited for
MakeRoom ==
  /\ ~Idle /\ call.at = "room" /\ Len(pages.asyncPage) >= MaxAsync
  /\ \E r \in AsyncCompressWait(pages, FALSE) : pages' = r[2]
  /\ UNCHANGED <<call, answer>>

SendOff ==
  /\ ~Idle /\ call.at = "room" /\ Len(pages.asyncPage) < MaxAsync
  /\ pages' = [Process(pages, call.idx) EXCEPT !.asyncPage = Append(@, call.idx)]
  /\ Returns /\ UNCHANGED answer

\* Cookfs_PageGet
Get(i) == Idle /\ Getting("get", i) /\ UNCHANGED answer

\* If the page is on its way it is waited for, once; then more is preloaded
WaitIfLoading ==
  /\ ~Idle /\ call.at = "loading"
  /\ IF call.idx \in Range(pages.asyncDecompressIdx)
     THEN \E r \in AsyncDecompressWait(pages, call.idx) : pages' = Preloaded(r[2], call.to).pages
     ELSE pages' = Preloaded(pages, call.to).pages
  /\ Goes("cached") /\ UNCHANGED answer

Answered(c) == answer' = [idx |-> call.idx, content |-> c] /\ Returns

LookInCache ==
  /\ ~Idle /\ call.at = "cached"
  /\ IF call.idx \in DOMAIN pages.cache
     THEN Answered(pages.cache[call.idx])
     ELSE Goes("pending") /\ UNCHANGED answer
  /\ UNCHANGED pages

\* Cookfs_AsyncPageGet: the page is in a queue, or it is read
LookInQueues ==
  /\ ~Idle /\ call.at = "pending"
  /\ LET slots == {k \in DOMAIN pages.asyncDecompressIdx : pages.asyncDecompressIdx[k] = call.idx}
     IN IF IsAsync(pages) /\ call.idx \in Range(pages.asyncPage)
        THEN Answered(pages.index[call.idx].content)
             /\ pages' \in PageCacheSet(pages, call.idx, pages.index[call.idx].content)
        ELSE /\ call' = IF slots = {} THEN [call EXCEPT !.at = "read"]
                        ELSE [op |-> call.op, idx |-> call.idx, to |-> Min(slots), at |-> "slot"]
             /\ UNCHANGED <<pages, answer>>

\* The page is waited for until its place in the queue has another
WaitForSlot ==
  /\ ~Idle /\ call.at = "slot"
  /\ IF call.to \in DOMAIN pages.asyncDecompressIdx
        /\ pages.asyncDecompressIdx[call.to] = call.idx
     THEN /\ \E r \in AsyncDecompressWait(pages, call.idx) : pages' = r[2]
          /\ UNCHANGED <<call, answer>>
     ELSE /\ IF call.idx \in DOMAIN pages.cache THEN Answered(pages.cache[call.idx])
             ELSE Goes("read") /\ UNCHANGED answer
          /\ UNCHANGED pages

\* The sum of the page tells whether it is the one
Read ==
  /\ ~Idle /\ call.at = "read"
  /\ LET s == ReadPage(pages, call.idx)
         c == IF Found(s, call.idx) THEN s.index[call.idx].content ELSE NULL
     IN /\ Answered(c)
        /\ pages' \in IF c = NULL THEN {s} ELSE PageCacheSet(s, call.idx, c)

\* Cookfs_PagesGetInfo, while pages have no size only in Events
GetInfo(i) ==
  /\ Idle
  /\ "earlyInfo" \in Events \/ \A j \in 1 .. i - 1 : pages.index[j].size >= 0
  /\ pages' = GetStartOffset(pages, i)
  /\ UNCHANGED <<call, answer>>

\* Cookfs_PagesSetCompression: all pages are written first
SetCompression == Idle /\ call' = [op |-> "set", idx |-> 0, to |-> 0, at |-> "drain"] /\ UNCHANGED <<pages, answer>>

\* Cookfs_PagesClose, when there is something to save
Close ==
  /\ Idle /\ ~pages.isUptodate
  /\ call' = [op |-> "close", idx |-> 0, to |-> 0, at |-> "drain"]
  /\ UNCHANGED <<pages, answer>>

Drain ==
  /\ ~Idle /\ call.at = "drain"
  /\ \E r \in AsyncCompressWait(pages, TRUE) :
       IF r[1] \/ call.op = "close"
       THEN pages' = r[2] /\ Goes(IF r[1] THEN "drain" ELSE "preloads")
       ELSE pages' = [r[2] EXCEPT !.isCustom = ~@] /\ Returns
  /\ UNCHANGED answer

\* What is being decompressed is waited for and dropped; then the file is closed
DrainPreloads ==
  /\ ~Idle /\ call.at = "preloads"
  /\ \E r \in AsyncDecompressWait(pages, -1) :
       pages' = r[2] /\ Goes(IF r[1] THEN "preloads" ELSE "closed")
  /\ UNCHANGED answer

\* The archive is opened again, with the one or the other callback
Reopen ==
  /\ IF Idle THEN pages.isUptodate ELSE call.at = "closed"
  /\ \E mode \in {"compress", "decompress"}, kind \in Kinds :
       /\ MayBePreloaded(mode, {pages.index[i].content : i \in DOMAIN pages.index})
       /\ (mode = "compress") => (kind # "random")
       /\ pages' = Opened(pages.index, pages.file, mode, kind)
  /\ Returns /\ answer' = NULL

\* A worker finishes a page; a process that fails gives no result at all
Finish(i) ==
  /\ pages.kind \in {"thread", "process"} /\ HasWorker(pages, i)
  /\ i \notin pages.worker.done \cup pages.worker.failed
  /\ \E works \in BOOLEAN :
       /\ works => MayWork(pages, i)
       /\ ~works => (MayFail(pages, i) /\ pages.kind = "thread")
       /\ pages' = [pages EXCEPT !.worker.done = IF works THEN @ \cup {i} ELSE @,
                                 !.worker.failed = IF works THEN @ ELSE @ \cup {i}]
  /\ UNCHANGED <<call, answer>>

Init ==
  /\ \E kind \in Kinds \ {"random"} : pages = Opened(<<>>, <<>>, "compress", kind)
  /\ call = NULL /\ answer = NULL

Goings ==
  \/ Collect \/ MakeRoom \/ SendOff
  \/ WaitIfLoading \/ LookInCache \/ LookInQueues \/ WaitForSlot \/ Read
  \/ Drain \/ DrainPreloads

Next ==
  \/ \E c \in Contents : Add(c)
  \/ \E i \in DOMAIN pages.index : Get(i) \/ GetInfo(i)
  \/ SetCompression \/ Close \/ Reopen \/ Goings
  \/ \E i \in 1 .. MaxPages : Finish(i)

Spec == Init /\ [][Next]_vars

\* The thread of the archive goes on with its call, and the workers work.
FairSpec ==
  /\ Spec /\ WF_vars(Goings) /\ WF_vars(~Idle /\ Reopen)
  /\ \A i \in 1 .. MaxPages : WF_vars(Finish(i))

-----------------------------------------------------------------------------
\* Properties

Ids == 1 .. Len(pages.index)

\* Every variable has its type, and neither queue is longer than what
\* Cookfs_AsyncPageAdd and Cookfs_AsyncPagePreload allow.
TypeOK ==
  /\ pages.index \in Seq([content : Contents, size : -1 .. 2, offset : Int])
  /\ DOMAIN pages.file \subseteq Nat /\ Range(pages.file) \subseteq Ids
  /\ pages.position \in Nat /\ pages.fileLastOp \in {"unknown", "read", "write"}
  /\ pages.isUptodate \in BOOLEAN /\ pages.isCustom \in BOOLEAN
  /\ pages.mode \in {"compress", "decompress"} /\ pages.kind \in Kinds
  /\ pages.asyncPage \in Seq(Ids) /\ Len(pages.asyncPage) <= MaxAsync
  /\ pages.asyncDecompressIdx \in Seq(Ids) /\ Len(pages.asyncDecompressIdx) <= QueueSize
  /\ DOMAIN pages.cache \subseteq Ids /\ Cardinality(DOMAIN pages.cache) <= CacheSize
  /\ call \in Calls \cup {NULL}

\* The pages that have no place in the file yet are the last ones: those of the
\* queue, in the order they were added, and the one that is being added (asyncPage,
\* asyncPageSize).  None is forgotten, though the callback gives them in another
\* order, the compression is set or the archive is closed between.
QueueHoldsUnwritten ==
  LET adding == IF ~Idle /\ call.at \in {"collect", "room"} THEN <<call.idx>> ELSE <<>>
      unwritten == pages.asyncPage \o adding
      written == Len(pages.index) - Len(unwritten)
  IN /\ unwritten = [k \in DOMAIN unwritten |-> written + k]
     /\ \A i \in Ids : pages.index[i].size = -1 <=> i > written

\* Where the pages up to one end, by their sizes
Ends(index) ==
  LET end[k \in 0 .. Len(index)] == IF k = 0 THEN 0 ELSE end[k - 1] + index[k].size IN end

\* A page that is written is where the sizes of the pages before it say, and an
\* offset that was remembered is that place (Cookfs_WritePage,
\* Cookfs_PgIndexGetStartOffset): pages that are read between do not move it.
PagesInPlace ==
  \A i \in Ids :
    LET start == Ends(pages.index)[i - 1]
        page == pages.index[i]
    IN (page.size >= 0) =>
         /\ page.offset \in {-1, start}
         /\ \A x \in start + 1 .. start + page.size : x \in DOMAIN pages.file /\ pages.file[x] = i

\* What the queues hold the callback of cookfs holds too, once, and its workers
\* are idle or busy with a page (asyncPage, asyncDecompressIdx; threadsIdle,
\* threadsBusy, name.available): no page waits for a result that cannot come.
NothingLost ==
  LET held == Range(pages.worker.busy) \cup pages.worker.available
      queue == pages.asyncPage \o pages.asyncDecompressIdx
  IN /\ Range(queue) = held
     /\ Len(queue) = Len(pages.worker.busy) + Cardinality(pages.worker.available)
     /\ (pages.kind \in {"thread", "process"}) =>
          pages.worker.idle + Len(pages.worker.busy) = Workers

\* A page that was asked for is given with its own content, whether it comes
\* from the cache, from a queue, from the callback or from the file.
AnswerIsThatPage ==
  /\ (answer # NULL) => answer.content = pages.index[answer.idx].content
  /\ \A i \in DOMAIN pages.cache : pages.cache[i] = pages.index[i].content

\* No page is lost between the queues, the callback and the file.
NoPageIsLost == TypeOK /\ QueueHoldsUnwritten /\ NothingLost

\* Pages are where their offsets say and what is given for one is its content.
PagesAreRight == PagesInPlace /\ AnswerIsThatPage

\* Every call ends, however long a callback takes: the queues are emptied, also
\* when everything has to be written before the archive is closed.
EveryCallReturns == (call # NULL) ~> (call = NULL)
=============================================================================
