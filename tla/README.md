# A formal model of cookfs

cookfs is a Tcl virtual filesystem that keeps its files, compressed, in pages
at the end of another file (an archive). A mounted archive can be used by one thread
or, mounted `-shared`, by all threads of the application. The C code under
`src/generic/` is what is modelled here; paths below are relative to it unless
they start with `src/`.

The modules are TLA+ translations of the C code, checked by TLC on small
instances; the theorems are checked by TLAPS for every value of the constants.
Default builds are modelled: `NDEBUG` is defined, so an `assert()` has no
effect. `Async` alone is about builds with `COOKFS_USECALLBACKS`.

## 1. The system

### Components

| Component | Code | State | Operations |
|---|---|---|---|
| Reader-writer mutex | `threads.c` | `numLocks`, waiting threads, exclusive owner `threadId` | LockRead, LockWrite, LockExclusive, Unlock |
| Mount registry | `vfsVfs.c` | global list under `global.mx`, list and cached list of each thread, `changeId` | add, remove, resolve a path, lock a mount for an operation |
| Mount object | `vfs.c` | pages, fsindex, writer, `isDead`, `isShared` | init, fini, fileset selection |
| Pages | `pages.c` | file, stamps, page index, page cache, password and key, aside archive | add, get, close, aside, cache settings, password |
| Page cache | `pages.c`, `pageObj.c` | slots with page, object, weight, age; reference counts | get, set, tick, resize |
| Page index | `pgindex.c` | of each page: compression, level, encryption, size, uncompressed size, MD5 | add, import, export, search by MD5, offsets |
| Async compression | `pagesAsync.c` | queue of pages handed to Tcl callbacks | add, wait, preload |
| Fsindex | `fsindex.c`, `fsindexIO.c`, `pathObj.c` | tree of entries with blocks (page, offset, size), block usage, metadata, change count, filesets | get, set, unset, list, select fileset, import, export |
| Writer | `writer.c` | small-file buffers, map of the pages (`pageMapByPage`), `fatalError`, `isWriteToMemory` | add file, remove file, purge, get buffer |
| VFS driver | `vfsDriver.c`, `vfsAttributes.c` | none of its own | stat, access, open, delete, directories, attributes |
| Channels | `readerchannel*.c`, `writerchannel*.c` | position, current block, cached page; buffer being written | open, read, write, seek, truncate, close |
| Commands | `vfsCmd.c`, `pagesCmd.c`, `fsindexCmd.c`, `writerCmd.c` | which objects have a command, hard locks, the settings in use | mount, unmount, aside, metadata, compression, password |
| Encryption | `crypto.c`, `cryptoCmd.c` | none of its own | key derivation, AES |
| Tcl implementation | `src/scripts/*.tcl` | the same components for builds without the C ones | the same |

Compressors (`pagesCompr*.c` around vendored libraries), hashes, binary number
formats and package initialisation compute on bytes.

### Interactions

* A file operation gets a path from Tcl. `Cookfs_CookfsSplitWithVfs` resolves
  it to a mount through the thread's cached list; `Cookfs_CookfsVfsLock` makes
  sure, under `global.mx`, that the mount is still listed, and `global.mx` is kept
  until the operation holds the fsindex lock of the mount
  (`CookfsValidatePathAndLockFsindex`).
* The fsindex maps a file to blocks of pages. Small files are first *pending*:
  their block number is `-k` for the k-th buffer of the writer. A purge packs
  the buffers into pages and replaces the pending blocks by real ones.
* The pages object writes pages at the end of the archive and on closing adds
  page index, fsindex and suffix. A stamp at the start tells the expected size.
* A channel soft-locks pages and fsindex (a write channel the writer too), so
  that unmounting leaves these objects allocated until the channel is closed.
* Unmounting removes the mount from the list, locks writer, fsindex and pages
  exclusively, purges the writer, and finishes and frees the three.

### What is hard in it

* Three objects with a lock each, taken by calls in different orders, plus
  `global.mx`; an exclusive lock that turns all other threads away; soft locks
  that postpone freeing.
* Pages are shared by address between a cache and the channels of several threads.
* Pending blocks are numbers of buffers: they are renumbered in the fsindex when
  a buffer goes, and must agree with the writer whatever step of a call fails.
* The archive is rewritten from its middle when it is changed, and a crash may
  leave it cut off anywhere.
* Pages handed to callbacks come back in any order, while an offset is the sum of
  the sizes before it.
* Which key a page is written with depends on the order of passwords, purges and saves;
  which hash it is verified with on where the settings of a mount came from.
* Entries of the index are shared by address with open channels, and a directory
  changes its representation as it grows.

The list `hazards` in `PROJECT.json` names the places, each with the properties
about it.

### What makes each component correct

* **Mutex**: one writer or any readers; nobody sleeps when the mutex is free;
  an exclusive lock ends all reading.
* **Registry**: no operation works on a mount that was freed; a stale cache is
  always recognised; nobody is kept for ever.
* **Life of the objects**: nobody touches what was freed; nothing leaks; the
  unmount works alone.
* **Page cache**: references are counted; a page given out stays what it was;
  eviction takes the oldest of the lightest.
* **Writer**: the content of a file is what was last written to it, before and
  after a purge, and whatever fails on the way.
* **Archive**: what is reopened is what was saved; a cut-off archive is
  recognised.
* **Fsindex**: each call changes what it was asked to and no other file; what
  is not counted as changed is what the archive or the user has; nothing is lost over mounts, machines and filesets.
* **Callbacks**: no page is lost or misplaced, and every call ends.
* **Driver and channels**: threads see one tree; a channel has the bytes of the
  file it opened; what stat, access and glob say agrees with what open does.
* **Encryption**: a file is protected by what was in force when it was stored,
  is read exactly when that is in force, and no key is forgotten that is needed.
* **Mounting**: a mount has its objects until it ends; settings stick; pages
  verify with the hash the mount uses.

## 2. The modules

| Module | Models | Extends / uses |
|---|---|---|
| `RWLock` | what the mutex promises (abstract) | |
| `RWMutex` | `threads.c` | instantiates `RWLock` (refinement) |
| `VfsRegistry` | `vfsVfs.c` and the part of mounting, unmounting and file operations that uses it | |
| `MountLife` | locks, soft locks, death and freeing of writer, fsindex and pages | composes the three objects, the channels, the driver and the commands |
| `PageCache` | cache and reference counts of `pages.c`, `pageObj.c` | |
| `FileStore` | what the writer promises (abstract) | |
| `Writer` | `writer.c`, the blocks of fsindex entries, deleting in `vfsDriver.c` | instantiates `FileStore` (refinement) |
| `Archive` | the file: `pages.c`, `pgindex.c`, `pagesCompr.c`, stops and truncation | |
| `Fsindex` | `fsindex.c`, `fsindexIO.c`, `fsindexCmd.c`, filesets and saving in `vfs.c`, `vfsCmd.c` | composes index, mount and archive |
| `Async` | `pagesAsync.c` with its callers, the callbacks of `src/scripts/asyncworker_*.tcl` | composes queues and callbacks |
| `OpenFile` | what an open file promises (abstract) | |
| `WriterChannel` | `writerchannel.c`, `writerchannelIO.c` | instantiates `OpenFile` (refinement) |
| `SharedTree` | what threads see of an archive (abstract) | |
| `Driver` | `vfsDriver.c`, `readerchannel.c`, `readerchannelIO.c`, entries of `fsindex.c` | composes driver, index and channels; instantiates `SharedTree` (refinement) |
| `Vault` | what encryption promises (abstract) | |
| `Encryption` | passwords, keys and padding of `pages.c`, `pageObj.c`, `crypto.c`, the password command | composes pages, cache, writer and mount; instantiates `Vault` (refinement) |
| `Cabinet` | what mounting promises about settings and pages (abstract) | |
| `Mounting` | `cookfs::Mount`, unmounting, handles and object commands: `vfsCmd.c`, `vfs.c`, `pagesCmd.c`, `fsindexCmd.c` | composes mounts and objects; instantiates `Cabinet` (refinement) |
| `Access_proofs` | theorems and their lemmas | extends `RWMutex`, `VfsRegistry` and `Encryption`, which have no name in common |
| `IndexCache_proofs` | theorems and their lemmas | extends `Fsindex` and `PageCache`, which have no name in common |
| `MountLife_proofs`, `Driver_proofs`, `Mounting_proofs`, `WriterChannel_proofs`, `Async_proofs`, `Writer_proofs` | theorems and their lemmas | the module each is named after |
| `MC*` | symmetry and constants for TLC | the module each is named after |

An operator named *Mutant* in its comment is not part of a specification: it is the
definition below it with a plausible mistake, kept to show that the properties notice.

### RWMutex and RWLock

One action is what a thread does between two operations on the inner mutex
`mx->mx`: `LockRead`, `LockWrite` (either grants the lock or goes to sleep),
`LockReadWoken` and `LockWriteWoken` (the rest of the loop after the wait),
`LockExclusiveOwn` (the assignment of `threadId`, which `LockExclusive` makes after
`LockWrite` returned), `LockAsOwner`, and the three unlocks. `at` says which
of these a thread is at; the counters `numRWait` and `numWWait` are read off
it. `readers`, `writers` and `own` record who was granted what: the code does
not keep it, the properties need it. A call refused because another thread is
the owner changes nothing and is no action.

`RWLock` is the contract: a lock has readers, or a writer, or an owner. It has
no counter, no conditions and no waking. It says openly what the code allows: a
thread that was already in the write queue may still be granted the lock after
another became the owner.

### VfsRegistry

`globalList`, `changeId` and `mx` are `global` of `vfsVfs.c`; `local`, `cached`
and `seen` the thread-specific data. Mounting is `AddVfs` and `FinishMount`
(between them `global.mx` is free and the mount listed), a file operation is
`Resolve`, `VfsLock` (with `TryAgain` when the counter has moved), `LockFsindex`
and `FsindexUnlock`, unmounting `FindVfs`, `RemoveVfs`, `FinishRemove` and
`VfsFini`. `life` and `users` stand for the memory of the mount and the lock of
its fsindex. An address is not reused.

### MountLife

Every call is the sequence of lock operations it makes (`Stat`, `OpenReader`,
`CloseWriter`, `VfsFini`, ...), each lock with what is left to do when it is refused.
The actions interpret the head of a thread's sequence against the state of the three
objects: `numLocks`, `threadId`, `lockSoft`, `isDead`, `freed`, `mxLockSoft`.
The mutex follows `RWMutex`. Calls on paths start only while the mount is
listed, and hold `global.mx` as far as `VfsUnlock`, which is what `VfsRegistry`
establishes.

### PageCache

Clients are channels. `PageGet` is the part of `Cookfs_PageGet` up to the
release of `mxCache`, `TakeReference` the increment after it, `ReadPage` and
`ReadFails` the reading of the page, `PageCacheSet` the storing, `Release` the
decrement when a channel moves on. Objects are addresses: one with no
references may be allocated for another page. In a mount that is not shared
(`isShared = FALSE`) calls do not interleave.

### Writer and FileStore

`Writer` is `writer.c` with the blocks of the fsindex entries it changes.
`index`, `buffers`, `pages` and `pageMap` are the blocks of the files, the chain
`bufferFirst`, the contents of the pages and `pageMapByPage`. A content is a
sequence of bytes; a file is a number, which orders tails and full names, and
`Ext` orders extensions.

`Cookfs_WriterAddFile` is `AddFile` (the old buffer removed, the page map built),
then `AddEmpty`, or `MakeRoom` and `AddBuffer` (small files), or `AddEntry` and a
`WritePage` for each page (big ones); `SourceFails` and `WriteFails` are its
errors. `Cookfs_WriterPurge` is `StartPurge` (the sorting), a `PurgePage` for each
page or `PurgeFails`; `order`, `saved` and `slot` are its local variables. `PurgeCommand`
stands for the callers that purge: unmount, `aside`, `compression`, `password`,
attributes, filesets. `DeleteFile` and `RemoveDirectory` are the operations of the driver
that touch pending files, `Remount` starts with an empty map.
The writer is locked during every operation, so they do not interleave.

`Events` names what may go wrong. The run has sources that cannot be read and pages
that cannot be added; `sourceOfPending` and `purgeInMemory` are in section 5.

`FileStore` is the abstract specification: a request is stored, refused or
loses the file, and no other file changes. Under the refinement mapping a file has
what its blocks read as (`ReadFile`), through a buffer or a page; while it is
being written it has its old content.

### Archive

A file is a sequence of cells: foreign bytes, the stamp, pages, indexes, the suffix,
the encryption data. `p` is the pages object (`None` while closed), `disk` the
file, `last` what was saved last. `WritePage`, `WriteIndex`, `AddStamp`,
`TruncateFile` and `PagesClose` give the *list of writes* of the functions of
the same names; an operation applies the whole list, or `StopWriting` and `Stop` apply a prefix
of it and the program is gone. A write that fails is such a stop (the code
panics). `PagesInit`, `ReadIndex`, `FindSuffix` and `SearchStamp` open a file, mapped or not,
with or without `-endoffset`; the properties open every file that can arise.
Other programs cut the file (`CutFile`) or append to it (`AppendOther`).
Locks, the cache, the aside archive and callbacks are in other modules or left out.

### Fsindex

An entry is a path from the root, filesets included; `tree` holds those that
are allocated, and a directory is a table of slots or, once it has too many
children, a hash. What a search finds depends on the slots alone, so that an
entry may be allocated and lost. `index` is the index in memory, `saved` the
image in the archive, `host` the machine. `given` is not in the code: it is the image that the index command exported
or imported last, as long as no change is counted since, and the properties need it to say what an unmount
without a change keeps. The operations are those of the index command (`CmdSet`,
`CmdSetFails`, `UnsetEntry`, `CmdExport`, and `CmdImport` of what the archive has, of other data, `Data`,
and of data that are refused), of the driver (`CreateDirectory`,
`RemoveDirectory`), of the writer (`WriteFile`, `SaveBlock`) and of the mount
(`SelectFileset`, `Aside`, `Remount`, which saves what `ToSave` says). `ToObject` and
`FromBytes` export and import, holes of tables and orders of hashes
included. An operation that may be refused gives the set of what comes of it, an index or nothing. `EachCallIsExact` compares every step with a map of paths, which is what
the index is for.

### Async

`pages` is the archive with both queues (`asyncPage`, `asyncDecompressIdx`), the
cache, the place of each page in the file and the callback; `call` is
the call the one thread is in, with the point it has reached (`at`). `Add`, `Get`,
`SetCompression` and `Close` begin a call, `Collect`, `MakeRoom`, `SendOff`,
`LookInCache`, `LookInQueues`, `WaitForSlot`, `Read`, `Drain`, ... carry it on,
`Finish` is a worker beside it. A callback is one of four: threads or
processes (`src/scripts/asyncworker_*.tcl`), and those of the tests
(`src/tests/common.tcl`), a queue and one that answers in random order.
The queue is filled in one mode at a time, compressing or decompressing.

### WriterChannel and OpenFile

`channel` is `Cookfs_WriterChannelInstData`: buffer, position, size, interest,
whether an event is queued; `queue` is the event queue of the thread; `wild` records
that something was written outside the buffer. `stored` is the file in the
archive; opening it allocates a buffer of its length (`OpenExisting`) and reads it
block by block (`ReadBlock`, while `reading`), after which the channel is open
(`Opened`) or, when a block cannot be read, freed (`OpenFails`). `Realloc` grows in the units of the code (`KIB`, `MIB`) and
leaves `Junk` in what it does not clear. `Close` gives the bytes to the writer.
`OpenFile` is an array of bytes with a position.

### Driver and SharedTree

`entries` are places in memory with reference counts, used again once freed; `tree` gives the
entry of each path, `buffered` the entries whose files wait in the
writer, `channels` the open channels. A call of the driver holds the lock of the
index from its first look to its last change and is one action; channels live over
all of it. `Open` makes a reader or a writer channel, `Input` and `WideSeek` walk the
blocks of the entry the channel keeps, the four `Close...` actions are what closing
comes to, `Purge` moves buffered files to pages. `SharedTree` is a map of paths
that changes by whole files.

### Encryption and Vault

`pages` is the open archive: mode, salt, key and its encrypted form, list of
pages; `disk` the saved one; `cache` one cached page; `buffer` the files that
wait in the writer; `index` the page of each file. The
cipher is exact under the right key and gives bytes of no page under another.
`AddPadding` and `RemovePadding` are those of `pageObj.c` byte by byte. `Vault`: a
file keeps its content and what protects it, and the key keeps its password.

### Mounting and Cabinet

`pages` and `indexes` are the objects (`NULL` while there is none) with their
command and hard lock, `mounts` what each mount has and uses, `archive` the
file, `left` what a failed unmount left behind. The commands of an index that the user made or asked a mount for
(`GetIndex`) change its metadata and its counter of changes (`IndexCmdSetMetadata`, `IndexCmdExport`, ...); of the tree of
files there is only whether it changed (`IndexCmdSet`). `Mount` is the whole of
`Cookfs_Mount` in the order of its steps: `PagesOf`, `IndexOf`, `Sized`, `Hashed`,
`Told`, then the mount object or what is undone (`Undone` before there is a mount
object, `Finished` after). The three sizes (`-pagesize`, `-smallfilesize`,
`-smallfilebuffersize`) run through the same code and are one setting. `Cabinet`:
a mount uses what it was asked for, or else what it finds, or else the default;
what a mount that may write had last is what the archive has.

## 3. The runs

| Run | Module, configuration | Shows |
|---|---|---|
| `rwmutex` | `MCRWMutex`, `MCRWMutex.cfg` | The reader-writer mutex of three threads: its counter tells who is inside, no wakeup is lost, exclusive locking ends reading, every lock call returns, and it implements the contract RWLock. |
| `registry` | `MCVfsRegistry`, `MCVfsRegistry.cfg` | Three threads, two mounts, mounts used as soon as they are listed and unmount tried by any thread: the change counter keeps stale caches out, no operation works on a freed mount, and nobody is kept for ever unless a mount is used before its mount command has returned. |
| `mount` | `MCMountLife`, `MCMountLife.cfg` | Three threads, at most one channel, every kind of call but the deletion of a pending file, and a purge that may fail: nothing freed is touched, nothing leaks, an unmount works alone, and every call returns unless index and writer were locked crosswise or a failed purge left the locks. |
| `pagecache` | `MCPageCache`, `MCPageCache.cfg` | Two channels read three pages through a cache of two slots that is aged, resized and emptied under them: references are counted, a page given out stays what it was, one copy is cached, and what is dropped is the oldest of the lightest. |
| `writer` | `MCWriter`, `MCWriter.cfg` | Three files, small, big and empty, are written, rewritten and deleted in any order, with and without write-to-memory mode, over purges, remounts and failures: each has the content it was last given, pending blocks name the own buffer, and the buffers keep to their limit. |
| `archive` | `MCArchive`, `MCArchive.cfg` | An archive is created, changed, closed and opened again, with and without passwords, the program stopping after any write: what opens is what was saved or was being saved, saved pages stay in place, a page found by its sum is that page, and what was closed is found again while what was cut off is told. |
| `fsindex` | `MCFsindex`, `MCFsindex.cfg` | Files and directories are made, replaced and removed by the index command, the driver and the writer, in tables that become hashes, with filesets of two machines, over unmounts, mounts and aside: each call does what was asked and no more, and an index that counts no change is the one of the archive, or the one the index command exported or imported. |
| `async` | `MCAsync`, `MCAsync.cfg` | Pages go to a callback and come back in any order while others are added, read, compared and the archive is closed: none is lost or misplaced, each is answered with its own content, and every call ends. |
| `writer_channel` | `MCWriterChannel`, `MCWriterChannel.cfg` | Whatever a program writes, seeks, cuts and closes, what it reads and what is stored is what an array of bytes would hold; the buffer is never left, and no event goes to a freed channel. |
| `driver` | `MCDriver`, `MCDriver.cfg` | Files are opened, replaced, deleted and listed by several threads and channels while directories come and go: entries live as long as they are held, channels read the file they opened, stat, access, glob and open agree, and the threads see one tree. |
| `encryption` | `MCEncryption`, `MCEncryption.cfg` | Files are stored, read, replaced and saved while passwords are given, changed and taken back in every mode and over several mounts: a file is read exactly when what protects it is in force, and keeps its protection. |
| `mounting` | `MCMounting`, `MCMounting.cfg` | Archives are mounted with every combination of options, objects given and failures, used through handles, the pages command and the index command (with export, import and metadata), and unmounted, again and again: a mount keeps its objects and they go with it, every page verifies with the hash its mount uses, and settings and pages outlive the mounts as Cabinet says. |

### Bounds

* `MCRWMutex`: three threads, two of which may finalize, two nested locks. Waking
  needs a reader and a writer asleep and one thread inside: three threads.
* `MCVfsRegistry`: three threads and two mounts: a thread that mounts, one that
  unmounts another mount and one that has resolved a path; two mounts make the
  counter move for a reason other than the mount in use. Every mount lives
  once, which bounds `changeId`.
* `MCMountLife`: the mounting thread and two others, one channel at a time (two are
  a hazard, see section 5), every call but `DeleteFile` (section 5). Two threads can
  block each other, and the third is what a woken writer meets.
* `MCPageCache`: three pages for two slots, so that pages are evicted; two
  weights; ages up to 2, above and below the age at which a weight is reset;
  three addresses, so that one freed is reused.
* `MCWriter`: pages of two bytes, a buffer limit of three bytes, three files:
  one empty, small or big, two with small contents that are equal to or of the same
  size as others. No file is begun once pages and buffers number three, and a purge
  or a big file then adds up to two pages: three buffers are sorted and
  span two pages, a buffer in front of another is removed, a page
  and pending files exist together. Two of the files are in the directory that is removed.
* `MCArchive`: an archive behind a foreign byte; contents of zero and of two cells, of which one
  shrinks and one does not, two with the same hash; a file index as long as the search
  window of three cells, or none, so that suffixes differ in length and one is longer than
  the window behind foreign data. Two pages, three changes, opened twice after it was made:
  what was saved is there to be overwritten, and to be read again. Two file indexes of
  different lengths need more than the memory the run has.
* `MCFsindex`: tables of three slots, so that a directory becomes a hash and has
  holes before; three entries below the root, two machines, one page that two files share.
  One name is a directory, a file or a fileset; the index command makes two files, the
  writer the one that is in a directory. What is imported from elsewhere (`Data`) has the fileset of a machine, or no fileset and
  three entries that fill the root beyond a table, among them a file where others have a directory. An index that is exported or saved
  has at most two entries (`MaxExported`): a table with a hole, or a hash in
  either order, is among them.
* `MCAsync`: three pages and queues of two, two workers: a queue is full, results
  come out of order, and a page is asked for while another is on its way.
* `MCDriver`: a directory and a file, each also beside it, four places for
  entries and two channels: an entry is held by a channel, replaced in the tree, and its
  place used again. Blocks of one and of two bytes put a boundary inside a file.
* `MCWriterChannel`: positions up to four, with units of two and three bytes for
  1024 and 131072: the buffer grows by each unit and past both.
* `MCEncryption`: blocks of two bytes, a content of half a block and one of a
  whole block that looks like padding; two passwords, two files, three mounts, three pages.
* `MCMounting`: one mount point, one pages object and one index object, which is the
  mount's, the user's or both; the data of another comes from the pages (`DataInHand`). Two values of the setting, one the default,
  besides one that is not proper; two pages, which keep the hash they were stored with
  while settings come and go. More pages, mounts and objects are the theorems' (section 4).

### Fairness

`FairMutexSpec` of `RWMutex`, `FairRegistrySpec` of `VfsRegistry` and `FairSpec` of `MountLife` ask that a thread in the middle of a call goes on when it
can (weak fairness of the steps that follow a call's first): operating system
threads are scheduled. `RWMutex` adds that who holds a lock comes to unlock
it, which is how every caller is written, and `MountLife` that channels are
closed some time. Nothing forces a thread to begin a call, and the liveness
properties speak about runs in which, from some point on, no calls are begun:
the code does not promise that a writer is served while readers keep coming.
`FairSpec` of `Async` asks that the one thread goes on with its call and that
a callback some time finishes each page it was given.

Deadlock is not checked in the runs of modules where the system may come to
rest: all mounts gone, locks kept for ever after a purge that failed (`MountLife`), or
a bound used up (`Archive`, `Encryption`, `Fsindex`, `Mounting`, `Async`).

## 4. What is proved

The proofs rest on the named assumptions of the modules, which say that sets of
threads, channels and addresses are finite, that `NULL` and other marks are none
of the values, that bounds and units are positive (`RWMutexAssumption`,
`RegistryAssumption`, `MountAssumption`, `CacheAssumption`, `UnitsAssumption`, `ChannelAssumption`,
`MountingAssumption`, `ContentsAssumption`, `NamesAssumption`, `AsyncAssumption`, `WriterAssumption`, `EncryptionAssumption`, `FsindexAssumption`), that data which are imported come from an export (`DataAssumption`), that paths make a tree two levels
deep (`PathsAssumption`), and that the index an archive was mounted with is one
(`MountedAssumption`). TLC evaluates all of them. Nothing bounds how many threads, mounts,
pages, paths, clients or channels there are.

A theorem with a hypothesis about `Careless` (in `MountLife` `Ops`, in `Async`, `Writer` and `Fsindex` `Events`) is about users and environments
that do not do what the set names; section 5 says what happens otherwise. Each of
these words is a branch of one action, and the runs leave out the same ones.

* **Access_proofs** has what three modules say about who gets at an archive; `Encryption` is at the end of this list. Of `RWMutex`: type correctness, `LockAccounting`, `NoLostWakeup`,
  `ExclusiveStopsReaders`, and that the mutex implements `RWLock`. The
  invariant `MutexInv` adds three facts. `CountWhenOwned`: what the counter can be
  once there is an owner, whose unlocks set it to 0 whatever it was.
  `OwnerToBe`: a thread on its way to set `threadId` still holds the write lock. `OwnedOnce`:
  only the owner has nested locks. Without them an exclusive lock taken while
  another thread waits would leave the counter unexplained, and the refinement
  could not tell who becomes the owner.
  Of `VfsRegistry`: `LockedIsMounted`, `NothingFreedIsUsed`,
  `CacheIsCurrent`. `RegistryInv` adds: what a thread's `pc` says about the mount it works
  on (`InCall`); that the threads between `VfsLock` and the fsindex lock are the
  holder of `global.mx` (`MxIsKept`); a cache's counter is never ahead
  (`SeenIsPast`); a mount is in one list (`OneList`); only the thread that
  mounted closes (`ClosedAtHome`). The argument: a mount is removed from its list under
  `global.mx`, or by its own thread, before anything is freed, and who
  waits for its fsindex holds `global.mx`.
* **IndexCache_proofs**, of `PageCache`: type correctness, `OneCopyCached`, `AgesRise` and, from
  them, `EvictsOldestOfLightest`, for shared mounts too. `IInv` adds that a slot
  has a page exactly when it has an object (`SlotsMatch`) and that a client in a
  call has asked for a page (`CallsMatch`). The order of the ages is what makes comparing ages tell
  the order of use. For mounts of one thread also `CacheSound` and `CachedIsThatPage`:
  `ThreadInv` says that one client at a time is in a call (`OneBusy`), that the count of an
  object is the cardinality of the slots and of the clients that have it
  (`Counted`), and that slot, client and found object have the page they are known by
  (`SlotsRight`, `HeldRight`, `HitRight`). The heart is `SlotsCount`: moving a
  slot to the top permutes the slots of every object, so its count is still theirs. In a
  shared mount `OneBusy` is what fails, and the counts with it (section 5, `pages.c:2049`).
* **IndexCache_proofs**, of `Fsindex`: `IndexSound`, `NoChangeIsLost`, `KeptOverMounts` and `EachCallIsExact`, for
  any names, hosts, filesets and pages, tables of any size and trees of any depth. `Invariant` has
  three parts. `TreeFits` is local: every entry is a child of its directory and every child is an
  entry, a directory has each child once and counts them (`DirFits`). That the entries are exactly those that
  are found from the root follows from it, up along the path of each (`AllTheWay`, `WholeTree`). `Covers`: no
  page is taken to be used less than it is, which is an inequality because the blocks of files that the
  writer made are not counted down again. `Apart`: the root of the mount goes with the mode of filesets; with the
  index that was loaded (`Ready`) and `NoChangeIsLost` it makes the invariant inductive, since what an
  unmount with no change leaves saved, or what the index command gave away or took (`given`), is what the index has.
  That an export loads as the index it was made from is `ExportedLoads`, that data from elsewhere
  and the empty index load as indexes that are sound is `DataLoads` and `EmptyLoads`.
  Every operation is one change of one directory: a child and what is below it goes, a new entry comes
  (`ChildChanged`), and `TreeChanges`, `EntryFreed` and `CoversAll` say what that does to tree and counts;
  `Did` says it of an index, with a path in it. From `Did` follow at once that the invariant stays
  (`ApartStays`, `ChangeDid`) and what the map of paths is afterwards (`ContentAfter`). `InsertChild`
  is shown to fit a table with holes, a full one and a hash (`TableSize - 1` children make it one, so
  there is a free slot). An image has the children of each directory in some order that has each once
  (`OrdersAre`), and adding them one by one gives a directory with these children (`ImportedDirectory`),
  so that the tree is the same but for the form of its directories (`SameTree`, `Imported`). Selecting a
  fileset changes the root of the mount and may add an empty fileset, which `Kept` leaves out (`Selected`).
  `KeptOverMounts` assumes that changes do not go aside before there is an index
  (`"asideEmpty"`): otherwise there is no root afterwards, and what follows is not about a tree. All four
  assume that changes do not go aside after an import that took the filesets away (`"asideImported"`, section 5): the root of the
  mount does not go with the mode then.
* **Driver_proofs**: `HeldEntriesLive`, `OpenedKept`, `ReadsWhatItOpened`, `AnswersAgree` and
  `ImplementsTree`, for any number of entries, paths and channels. `IInv` says that an entry counts at
  least its users, the channels and the buffer of the writer, and has none when
  it is free (`Counted`); that what is in the tree is in use, active, in a
  directory and nowhere else in the tree (`TreeSound`); that a reader has the file it
  opened (`OpenedKept`), and a writer a path or an entry (`PathOrEntry`). `Counted` is
  an inequality because a small file that turns out to be a
  duplicate of a stored page keeps a user for ever (`Placed`). The number of users of an entry is a cardinality, and `UsersChange` says
  how a step of one channel changes it. The refinement needs in addition that no file of
  the tree lost its content (`NoneLost`), which holds unless `"mkdir"` or `"memory"` is let in;
  `SeenIsView` turns entries and tree into the map of paths that `SharedTree` has, and one
  lemma for each kind of call (`StoringSeen`, `MakingSeen`, `RemovingSeen`, `DeletingSeen`) says
  how that map changes.
* **Mounting_proofs**: `MountsAreWhole` and `PagesVerify`, for any number of mounts
  and objects. `ObjectsInv` says that the objects of a mount exist and
  are locked hard (`Whole`), that no object is of two mounts, or of one and left
  behind (`Apart`), and what a mount without pages or without the right to write has
  (`Modes`); `Owned`, that any other object is a command. A mount that is given the
  objects of another (`"shares"`) breaks `Apart`, and with it all else, so
  it is excluded. `HashInv` follows the name of the hash through the four places it
  is in (the stored pages, the metadata of the index, the pages object, the mount): all
  pages of an archive have one hash, and whichever place is read last
  names it. `HashCare` lists what it takes. The index command changes the third of these places behind the back
  of the mount: `ToldIs` says what the commands on an index (`IndexTold`) leave of it, a change that is counted or metadata that
  are in the archive, and `RecountedIs` that a purge changes only the counter. For `ImplementsCabinet`, `OpenInv` adds that an archive
  is open once, that pages which did not change are as the file has them, and that an index
  which did not change is the one its pages have. Each call is shown to be a step of
  `Cabinet` or to change nothing it sees (`IndexSeen`: a command on the index of a mount tells that mount a setting); a mount is split into the steps in which
  it chooses size and hash (`FoundSetting`, `SettingUsed`, `SettingTold`) and the two ways it
  ends (`CabinetOfFailed`, `CabinetOfRegistered`).
* **WriterChannel_proofs**: `ChannelSound` and `BytesAreTheFile`, for every size of
  the units, every length and every number of events. `SoundInv` says that position and end are in
  the buffer, that a file is read from its beginning (`ReadSoFar`), and that the queue has
  exactly one event for a channel that awaits one and none for a freed one
  (`EventsFit`); `ZeroInv`, that what is in the buffer behind the end of the file is
  zero. `ZeroInv` is why a hole that a seek leaves reads as zeros, and it is what
  `"hole"` and `"shrink"` break. The lemmas `Reallocated`, `GrownForWrite`, `GrownForZeros` and
  `CutOff` say what the buffer has after each way of changing its length.
* **MountLife_proofs**: `FiniIsAlone` and `UnmountedIsFreed`, for any number of threads and
  channels, and `NothingFreedIsTouched` for one channel at a time (`MaxChannels <= 1`;
  with two it is false, see section 5). What is proved for any number
  of channels of the last is `LocksAreItsOwn`: a thread unlocks only what it was
  granted, and channels soft lock only what lives. All assume that
  `"delete"` is not in `Ops` (section 5). A call is a list, so
  its safety is an invariant on what is left of it: `Safe` is the largest
  set of lists with the locks and soft locks held (`hold`, `soft`) of which each step is allowed
  (`Legal`) and each outcome again in it (`After`), and `Ending` the like for
  `Cookfs_VfsFini`. One rule for each kind of step (`SafeRead`,
  `EndKill`, ...) puts a step before a list, and the calls are built
  with them from their ends (`StatIsSafe` to `VfsFiniIsEnding`). `Sound` then relates the
  lists to the objects through five values the state leaves unsaid (`Ghosts`), which is
  why `LifeIsSound` quantifies over them: `numLocks` counts the locks of all
  threads while nobody owns the mutex (`Counts`), `lockSoft` those who soft locked
  (`SoftKept`), a dead object has all three objects owned by the thread that
  unmounts (`Phase`), and with one channel only one thread opens or closes (`OneBusy`).
* **Async_proofs**: `NoPageIsLost` and `PagesAreRight`, for any number of pages, workers and
  places in the queues (`NoPageIsLost` for queues no longer than there are workers, which is
  what the script of the workers is set up for). `IInv` follows every page on its way.
  `Fits` says that the first pages have their places in the file (`InPlace`, `Ends`),
  that the queue of those to write is exactly the pages that follow (`Awaits`), that a page which is
  not there yet is with the callback, once (`Has`, `Manned`, `Queued`), what the answers
  to its questions may be (`Compressed`), and what the cache and the read-ahead hold
  (`Cached`); `CallFits` says what is known in the middle of each call. Where a page is in the file is a
  sum over the pages in front of it, and a queue from which a page was taken is filtered one
  place after the other; what these recursive functions give is proved by taking the
  least place at which it would fail (`Least`, `Inductive`). The hypothesis `NothingFails`
  is about what `Events` names (section 5).
* **Writer_proofs**: type correctness, `BufferBounded`, `PendingIsOwn` and `ImplementsStore`, for any number
  of files, contents and sizes of pages and buffers. `IInv` has what is true inside an operation.
  `Owned`: block `-k` of a file is all of the `k`-th buffer, which has the data of that file and is
  not the one being written. `PurgeFits`: `order` is a permutation of the buffers, and those
  before `saved` are gone. `SlotFits`: the buffer saved last is where `slot` says,
  which is what its equals are given without a comparison with the page. `PiecesFit`: a big file
  has its pages so far. `MapFits`: the map is about pages that
  exist; no more is true of it, since it names spans of files that are gone, and no more is
  needed, since `Cookfs_WriterCheckDuplicate` compares the bytes. `Bounded` is `BufferBounded` outside a purge.
  These hold with every word in `Events`. The refinement needs `FilesKept` in addition: an entry with a
  negative page has a buffer, so nothing dangles (`NoneDangles`), and the file that is being written
  reads as before until it is given its new blocks (`OldStands`). `FilesKept` is not inductive with the two words that
  `NothingLost` excludes (section 5). The argument is that a step changes what one file has and for
  every other does one of three things to its blocks (`Kept`): leaves them where they are, gives them another
  number of the same buffer (`Moves`), or puts the place of its bytes in a page for its buffer (`IsPacked`);
  `KeptIsRead` says that each reads as before. A file removed from the
  middle of the chain is the hard case of the first (`Without`), a page of a purge of the last
  (`PurgePageStep`, `SlotsHold`). `Joined` and `Total` are recursive functions, and what
  they give after an append or a removal is `JoinedPieces`, `TotalAppend`, `TotalWithout`.
* **Access_proofs**, of `Encryption`: `ReadsRightOrRefuses`, `ImplementsVault` and `OneKey`, for any number of
  files, passwords, pages and mounts, every size of block and every content. The refinement assumes
  callers that take care (`Careless = {}`); the two others hold whoever is careless. `VaultInv`
  says that each page is padded and under a key as it was written (`PagesFit`), that cache, files
  and saved archive fit the pages (`CacheFits`, `FilesFit`, `SavedFits`), which passwords and keys a
  pages object has in each mode (`KeysFit`: `KeysOf`), that mode, salt and key stay what was
  saved while the archive is mounted (`SealFits`: `SealOf`), and that with a key of its own an archive has no page under
  another (`OneKey`), which is why only file encryption meets pages that it cannot read.
  `PaddingIsRemoved` and `WrongKeyIsNoticed` are about the bytes: padding that looks like content and content
  that looks like padding come back right, and what a wrong key makes of a page is not its content.
  `InForceIsOne` says that one key alone is locked by what is in force, the one with which a page
  would be written now; with `ReadPageIs` this gives `ReadsRightOrRefuses`. The refinement
  adds `CarefulInv`: nothing is protected that nobody gave a password for
  (`PlainFits`), and no file that waits is equal to a cached page that another key protects
  (`BufferUnshared`), which is what makes a purge give each file a page under what is in force
  (`WriterPurgeIs`, a recursive function again, and `PurgedStored`). Then
  mounting, a password and an unmount that saves nothing are a `Turn`, closing a file a `Store`,
  and an unmount that saves is a `Reseal`, a `Forget` or a `Turn`: salt and key, by which `LockOf` tells what protects
  a page, change only when no page needs them.

Only model-checked:

* liveness, whose fairness is beyond the prover (`ReturnsUnlessCrossed`, `ReturnsUnlessEarly`,
  `EveryLockReturns`, `EveryCallReturns`);
* `Archive` (`OpensWhatWasSaved`, `PagesAreInPlace`, `AnswerIsThatPage`, `FoundOrTold`): what is in the file after a
  stop is any prefix of a list of writes over what was there, and what is read back is decoded from the
  parts found there one after the other.

The library's theorems for induction take an operator, which the provers cannot be given. What a
local recursive function computes is nevertheless proved, in `Async_proofs`, `Writer_proofs`,
`Access_proofs` and `IndexCache_proofs`, by way of the least element of a set of numbers; the folds of
the community modules and RECURSIVE operators stay out of reach, and modules with theorems have no
RECURSIVE operator.

## 5. What the runs leave out, and what happens there

The code has calls, and orders of calls, in which a property fails. The models
have them as steps that a constant lets in; the runs keep them out, so that all
else is checked. With the constant changed in the configuration named, TLC shows
how the property is violated.

* `vfsVfs.c:284`: a mount is listed while its fsindex is still locked; a thread that
  uses it before the mount command returns deadlocks with it. In `MCVfsRegistry` it
  happens, and `ReturnsUnlessEarly` speaks about the other runs.
* `writerchannel.c:173`: index and writer are locked in both orders. In
  `MCMountLife` it happens, and `ReturnsUnlessCrossed` speaks about the other runs.
* `pages.c:146`: with two channels open over an unmount, the first to close frees the objects
  (`MCMountLife.cfg`, `MaxChannels = 2`: `NothingFreedIsTouched`).
* `vfsDriver.c`, `CookfsDeleteFile`: the result of the writer's LockWrite is not looked at, so a
  refused lock is unlocked anyway, under the thread that unmounts (`"delete"` in `Ops` of
  `MCMountLife.cfg`: `NothingFreedIsTouched`).
* `pages.c:2049`: in a shared mount a cached page may be freed before its reference
  is taken; `PageStays` of `PageCache` speaks about mounts that are not shared.
* `writer.c:942`: a pending file rewritten from an unreadable source keeps the number of a
  buffer that is gone (`MCWriter.cfg`, `"sourceOfPending"` in `Events`: `PendingIsOwn`).
* `writer.c:1481`: a purge in write-to-memory mode loses files (`"purgeInMemory"` in
  `Events` of `MCWriter.cfg`; `"memory"` in `Careless` of `MCDriver.cfg`).
* `writer.c:404`: files that share a place in a page give, after a remount, a map of the
  page with a gap of negative size. `Writer` has the map as the code builds it;
  `ImplementsStore` holds in spite of it.
* `pages.c:298`: copying a part of the archive moves its channel unnoticed, and the next page is
  written where that left it (`MCArchive.cfg`, `PartsAnyTime = TRUE`: `PagesAreInPlace`).
* `pages.c:1174`: saving an archive without pages again may leave the older suffix in front of
  the new one; a stop during a later save, when the newer suffix is overwritten, leaves a file that opens as the
  old empty archive (`MCArchive.cfg`, `MaxOpens = 4`: `OpensWhatWasSaved`).
* `pages.c:1131`: saving a protected archive without having given the password
  drops mode, salt and key (`"unset"` in `Careless` of `Encryption`: `ImplementsVault`;
  `ChangeUnlocked = TRUE` in `MCArchive.cfg`: `FoundOrTold`).
* `pages.c:1866`: content equal to a cached page that another password protects is
  stored as that page (`"shared"` in `Careless` of `Encryption`: `ImplementsVault`).
* `vfsCmd.c:1550`: aside on a mount that has saved nothing leaves it without a root entry
  (`MCFsindex.cfg`, `"asideEmpty"` in `Events`; `HasRoot` guards the operations that follow).
* `vfsCmd.c:1482`, `vfsCmd.c:1547`: when the index command imported an index without filesets in the
  place of one with filesets (or the empty one that refused data leave), aside finds nothing changed, loads the archive's
  own index again and leaves the mount with none of its filesets active (`MCFsindex.cfg`, `"asideImported"` in `Events`: `IndexSound`).
* `fsindexIO.c:76`, `fsindexIO.c:154`: `$index export` and `$index import` set the counter of changes back, as
  `src/doc/cookfs_fsindex.md:144` says of the counter, although `fsindexCmd.c:427` says of export
  "Side effects: None". A mount that goes on and is unmounted
  then saves no index (`vfs.c:119`): the files and settings changed before are not in the archive, and the pages
  may be there without the name of their hash (mount a new archive with crc32, store a file,
  `[$fs getindex] export`, unmount). `Fsindex` has both commands without restriction, and its
  properties say what the counter is about from then on: what the archive has, or what the user was given or gave
  (`given`). In `Mounting` `"exports"` in `Careless` of `MCMounting.cfg` lets them in while the
  archive does not have the metadata of the index: `PagesVerify`, `ImplementsCabinet`. As with
  `"hash"`, what a user does to an index that no mount saves is let in anyway.
* `src/scripts/asyncworker_thread.tcl:157`: with one worker, the default, and a
  queue of two, a page waits for a worker that does not exist (`MCAsync.cfg`,
  `Workers = 1`: `EveryCallReturns`). A callback that fails (`"fails"` in
  `Events`) leaves its page to be waited for as well.
* `writer.c:1083`, `writer.c:1197`: closing an empty or big file whose directory is
  gone leaves the index locked (`"nowhere"` in `Careless` of `Driver`); `mkdir` of a
  path that another thread just made removes what is in it (`"mkdir"`).
* `writerchannelIO.c:113-140`: two combinations of sizes leave a hole unset or clear behind
  the buffer (`"hole"`, `"shrink"` in `Careless` of `WriterChannel`); a close that
  the writer refuses after a fatal error says it succeeded (`"fatal"`).
* `vfsCmd.c:941`, `pages.c:115`, `vfsCmd.c:1115`, `vfs.c:128`: what users of `cookfs::Mount` do against its grain
  (`Careless` of `Mounting`, explained there: `"bootstrap"`, `"shares"`, `"supplies"`,
  `"mismatch"`, `"switches"`, `"hash"`; `"exports"` is above), each of which breaks `MountsAreWhole` or `PagesVerify`.
  `"shares"` needs two mount points.

## 6. Not modelled

* Compressors (`pagesCompr*.c` around vendored libraries), ciphers, MD5, CRC and
  the number formats of `bindata.c` compute on bytes: a compressed page is the
  page with another size, a cipher is exact under its key, a hash is a value of
  the content. `Archive` and `Encryption` have when they are applied and to what.
* `pathObj.c` splits a path once and is constant afterwards; a path is a sequence here.
* Of the attributes (`vfsAttributes.c`) those that change state are modelled
  (`SetCompression`, `SetWritetomemory` in `Driver`, the parts in `Archive`, the locks of all in
  `MountLife`); the others format what is there.
* Of the object commands, those that only read (`get`, `list`, `getmtime`, `changecount`,
  `getmetadata`, `getblockusage`, `length`, `getbuf`, ...) have no action. Those that change state and
  are not actions of the module one might look in: `$pages index data` and `$pages close` are
  `SetIndex` and `Close` of `Archive`, and are not in `Mounting` and `Fsindex`, which are about users who leave the saved index
  of pages to the mount, as they are to keep away from `$pages aside`; `$pages password`,
  `compression`, `cachesize` and `ticktock` are what the handle or the cache does (`Encryption`, `Writer`,
  `PageCache`), and `$writer write` is `StoreFile` and the `Write...` actions of `Writer`. `setmtime`,
  `setmetadata` and `unsetmetadata` of the index change no entry and only count as a change: they are in `Mounting`, not in
  `Fsindex`, where the one metadata is the mode of filesets. A user who sets or unsets that mode
  (`fsindexCmd.c:968`) has files read as filesets afterwards, about which no property can speak.
* `optimizelist` sorts names and changes nothing. The times of files and directories are
  data no property is about.
* The aside archive is modelled as what it does to the index (`Fsindex`) and to locks
  (`MountLife`); its pages are those of another `Archive`, and its password is not modelled.
* Damaged data: `Fsindex` imports what an export of this or another index gave, and the empty index
  that is left by data which are refused; data that are cut off behind the header are not there. `Archive` opens files that
  were cut, appended to or left in the middle of a save, not ones altered within.
* The Tcl implementation in `src/scripts` is another program with the same
  formats, single-threaded; of it the asynchronous workers are modelled, since
  the C code uses them. `src/cookfswriter` is a script on top.
* `cookfs.c` registers commands; `src/bzip2` and the configure scripts are third-party.

What would come next: proofs about `Archive`, beginning with what a list of writes leaves in the file
(`PagesAreInPlace`), and the composition of `PageCache` with `Encryption` for a cache of more than one page.
