----------------------------- MODULE Encryption -----------------------------
(***************************************************************************)
(* Passwords and keys of an archive: pages.c (SetPassword, and what        *)
(* PagesInit, ReadIndex, PageAddRaw and PagesClose do about encryption),   *)
(* pagesCompr.c, pageObj.c, crypto.c and the password command.             *)
(*                                                                         *)
(* An archive protects nothing, each page by the password in force when it *)
(* was written ("file"), or its pages by a key of its own that is saved    *)
(* sealed with a password ("key", and "key_index" when the index is        *)
(* sealed as well).  Each file is a page of its own here: how files share  *)
(* one is module Writer's.  A small file waits in the writer unencrypted.  *)
(* The cipher is exact under the right key and gives bytes of no page      *)
(* under another one; the hash of a page is its content.                   *)
(*                                                                         *)
(* Careless names the places where the code does not protect its callers   *)
(* and the run lets them go there:                                         *)
(*   "unset"   an archive with protected pages is changed and saved by     *)
(*             somebody who never gave a password                          *)
(*   "shared"  content is stored that is also in the cache, from a page    *)
(*             protected by another password                               *)
(***************************************************************************)
EXTENDS Naturals, FiniteSets, SequencesExt

CONSTANTS
  Files, Passwords,
  Contents,   \* sequences of bytes in 1 .. BlockSize
  BlockSize,  \* COOKFS_PAGEOBJ_BLOCK_SIZE
  MaxMounts, MaxPages,
  Careless,   \* see above
  NULL

\* What the fields of the objects below are
Modes == {"none", "file", "key", "key_index"}
Keys == [password : Passwords \cup {NULL}, salt : Nat]
SealedKeys == [key : Keys, by : Keys]
StoredPages ==
  [hash : Contents, encryption : BOOLEAN, stored : [bytes : Seq(Nat), key : Keys \cup {NULL}]]
Archives ==
  [encryption : Modes, list : Seq(StoredPages), salt : Nat \cup {NULL},
   encryptedKey : SealedKeys \cup {NULL}]
PagesObjects ==
  [encryption : Modes, passwordSalt : Nat, encryptionKey : Keys \cup {NULL},
   encryptedKey : SealedKeys \cup {NULL}, isKeyDecrypted : BOOLEAN, isPasswordSet : BOOLEAN,
   isEncryptionActive : BOOLEAN, fileReadOnly : BOOLEAN, pagesUptodate : BOOLEAN,
   indexChanged : BOOLEAN, list : Seq(StoredPages)]
CachedPages == [page : Nat, bytes : Contents]

ASSUME EncryptionAssumption ==
  /\ BlockSize \in Nat \ {0}
  /\ Contents \subseteq Seq(1 .. BlockSize) \ {<<>>}
  /\ Careless \subseteq {"unset", "shared"}
  /\ Passwords \cap {"", "none", "key", "lost"} = {}
  /\ NULL \notin Passwords \cup Nat \cup Contents \cup Keys \cup SealedKeys \cup Archives
                \cup PagesObjects \cup CachedPages

VARIABLES
  disk,    \* the archive as it was saved, or NULL
  pages,   \* the pages object of the mount, or NULL
  cache,   \* its cache of one page: [page, bytes], or NULL
  index,   \* for each file its page, 0 while it waits in the writer, or NULL
  buffer,  \* the files that wait in the writer, oldest first
  mounts   \* how often the archive was mounted: salts and keys are never reused

vars == <<disk, pages, cache, index, buffer, mounts>>

PENDING == 0

-----------------------------------------------------------------------------
(* Page objects: pageObj.c                                                 *)

PadByte(n) == BlockSize - (n % BlockSize)

CalculateSize(n) == n + PadByte(n)

\* Cookfs_PageObjNewFromString: the bytes, in a buffer with room for padding.
PageObjNewFromString(bytes) ==
  [bytes |-> bytes, bufferSize |-> CalculateSize(Len(bytes))]

\* Mutant: a page of whole blocks gets no padding.
AddPaddingUnlessWhole(pg) ==
  pg.bytes \o [i \in 1..PadByte(Len(pg.bytes)) % BlockSize |-> PadByte(Len(pg.bytes))]

\* Padding goes to the buffer as it is: what does not fit is not kept.
AddPadding(pg) ==
  LET n == PadByte(Len(pg.bytes))
      padded == pg.bytes \o [i \in 1..n |-> n]
  IN  IF Len(padded) > pg.bufferSize THEN SubSeq(padded, 1, pg.bufferSize) ELSE padded

RemovePadding(bytes) ==
  LET pad == Last(bytes)
  IN  IF pad > Len(bytes) \/ pad \notin 1..BlockSize
         \/ \E i \in (Len(bytes) - pad + 1)..Len(bytes) : bytes[i] # pad
      THEN NULL
      ELSE SubSeq(bytes, 1, Len(bytes) - pad)

-----------------------------------------------------------------------------
(* Keys and the cipher: crypto.c                                           *)

\* Cookfs_Pbkdf2Hmac: the key a password gives with a salt.
Pbkdf2Hmac(password, salt) == [password |-> password, salt |-> salt]

\* Cookfs_RandomGenerate: a value never met before.
RandomGenerate == mounts + 1

AesEncrypt(pg, key) == [bytes |-> AddPadding(pg), key |-> key]

\* Under a wrong key come bytes of no page, which may end like padding.
AesDecrypt(stored, key) ==
  RemovePadding(IF stored.key = key
                THEN stored.bytes
                ELSE [stored.bytes EXCEPT ![1] = 0, ![Len(stored.bytes)] = 1])

-----------------------------------------------------------------------------
(* Reading and writing a page: pagesCompr.c, pages.c                       *)

WritePage(p, bytes) ==
  [hash |-> bytes,
   encryption |-> p.isEncryptionActive,
   stored |-> IF p.isEncryptionActive
              THEN AesEncrypt(PageObjNewFromString(bytes), p.encryptionKey)
              ELSE [bytes |-> bytes, key |-> NULL]]

\* Cookfs_ReadPage: the content, or NULL when it is refused.
ReadPage(p, page) ==
  IF page.encryption /\ ~p.isEncryptionActive
  THEN NULL
  ELSE LET bytes == IF page.encryption
                    THEN AesDecrypt(page.stored, p.encryptionKey)
                    ELSE page.stored.bytes
       IN  IF bytes = page.hash THEN bytes ELSE NULL

PageGet(p, held, i) ==
  IF held # NULL /\ held.page = i THEN held.bytes ELSE ReadPage(p, p.list[i])

\* Cookfs_PageCacheSet, for a cache of one page.
CacheSet(held, i, bytes) == IF bytes = NULL THEN held ELSE [page |-> i, bytes |-> bytes]

\* The pages that Cookfs_PgIndexSearchByMD5 finds, one after the other
SearchByMD5(p, bytes) == {j \in DOMAIN p.list : p.list[j].hash = bytes}

\* Cookfs_PageAddRaw: the page that holds these bytes, the pages and the cache.
\* A page that cannot be read is passed over, which file encryption alone
\* can meet: otherwise it would be an error (OneKeyProtectsAll in Access_proofs).
PageAdd(p, held, bytes) ==
  LET equal == {j \in SearchByMD5(p, bytes) :
                  /\ p.list[j].encryption = p.isEncryptionActive
                  /\ PageGet(p, held, j) = bytes}
      first == CHOOSE j \in equal : \A k \in equal : j <= k
  IN  IF equal # {}
      THEN [pages |-> p, cache |-> CacheSet(held, first, bytes), page |-> first]
      ELSE [pages |-> [p EXCEPT !.list = Append(@, WritePage(p, bytes)),
                                !.pagesUptodate = FALSE],
            cache |-> held, page |-> Len(p.list) + 1]

BufferSaved(st, b) ==
  LET r == PageAdd(st.pages, st.cache, b.content)
  IN  [pages |-> r.pages, cache |-> r.cache, index |-> [st.index EXCEPT ![b.file] = r.page]]

\* Cookfs_WriterPurge: the files that wait get their pages, in order.
WriterPurge(p, held, idx, waiting) ==
  LET upTo[k \in 0 .. Len(waiting)] ==
        IF k = 0 THEN [pages |-> p, cache |-> held, index |-> idx]
        ELSE BufferSaved(upTo[k - 1], waiting[k])
  IN  upTo[Len(waiting)]

-----------------------------------------------------------------------------
(* Passwords: pages.c                                                      *)

IsEncryptkey(p) == p.encryption \in {"key", "key_index"}

\* Cookfs_PagesDecryptKey: NULL when the password is not the key's (what it
\* leaves in encryptionKey then is not used: encryption is not active).
DecryptKey(p, password) ==
  IF Pbkdf2Hmac(password, p.passwordSalt) # p.encryptedKey.by
  THEN NULL
  ELSE [p EXCEPT !.encryptionKey = p.encryptedKey.key,
                 !.isPasswordSet = TRUE, !.isEncryptionActive = TRUE,
                 !.isKeyDecrypted = TRUE]

\* Cookfs_PagesSetPassword, where "" takes the password back.
SetPassword(p, password) ==
  LET mode == IF p.encryption = "none" THEN "file" ELSE p.encryption
      derived == Pbkdf2Hmac(password, p.passwordSalt)
      active == [p EXCEPT !.encryption = mode,
                          !.isPasswordSet = TRUE, !.isEncryptionActive = TRUE]
  IN  IF password = "" THEN [p EXCEPT !.isEncryptionActive = FALSE]
      ELSE IF p.encryption = "key" /\ ~p.isKeyDecrypted
      THEN DecryptKey(p, password)
      ELSE IF mode = "file"
      THEN [active EXCEPT !.encryptionKey = derived]
      ELSE [active EXCEPT !.encryptedKey = [key |-> p.encryptionKey, by |-> derived],
                          !.pagesUptodate = @ /\ p.fileReadOnly]

\* The pages object of a new archive (Cookfs_PagesInit).  Its salt and key
\* are new; a salt that nothing initialised counts as new.
NewPages(password, encryptkey, readonly) ==
  [encryption |-> IF password = NULL
                  THEN IF encryptkey THEN "key" ELSE "none"
                  ELSE IF encryptkey THEN "key_index" ELSE "file",
   passwordSalt |-> RandomGenerate,
   encryptionKey |-> IF encryptkey THEN Pbkdf2Hmac(NULL, RandomGenerate) ELSE NULL,
   encryptedKey |-> NULL, isKeyDecrypted |-> encryptkey,
   isPasswordSet |-> FALSE, isEncryptionActive |-> FALSE,
   fileReadOnly |-> readonly, pagesUptodate |-> TRUE,
   indexChanged |-> FALSE, list |-> <<>>]

\* CookfsReadIndex: what the suffix of a saved archive gives, NULL when the
\* archive is refused.
ReadIndex(password, readonly) ==
  LET read == [NewPages(NULL, FALSE, readonly) EXCEPT
                 !.encryption = disk.encryption, !.list = disk.list,
                 !.passwordSalt = IF disk.encryption = "none" THEN @ ELSE disk.salt,
                 !.encryptedKey = disk.encryptedKey]
  IN  IF disk.encryption = "key_index" /\ password = NULL THEN NULL
      ELSE IF IsEncryptkey(read) /\ password # NULL
      THEN DecryptKey(read, password)
      ELSE read

\* What the suffix says of the encryption (Cookfs_PagesClose): none when no
\* password was ever given to this object.
SavedEncryption(p) == IF p.isPasswordSet THEN p.encryption ELSE "none"

SavedSuffix(p) ==
  LET mode == SavedEncryption(p)
  IN  [encryption |-> mode, list |-> p.list,
       salt |-> IF mode = "none" THEN NULL ELSE p.passwordSalt,
       encryptedKey |-> IF mode \in {"none", "file"} THEN NULL ELSE p.encryptedKey]

-----------------------------------------------------------------------------
Init ==
  /\ disk = NULL /\ pages = NULL /\ cache = NULL
  /\ index = [f \in Files |-> NULL] /\ buffer = <<>> /\ mounts = 0

\* Cookfs_Mount with its options -password, -encryptkey and -readonly.  A
\* refused mount changes nothing.
Mount(password, encryptkey, readonly) ==
  LET opened == IF disk = NULL THEN NewPages(password, encryptkey, readonly)
                ELSE ReadIndex(password, readonly)
      given == IF opened = NULL \/ password = NULL THEN opened
               ELSE IF opened.isPasswordSet THEN opened
               ELSE SetPassword(opened, password)
  IN  /\ pages = NULL /\ mounts < MaxMounts
      /\ readonly => disk # NULL
      /\ given # NULL
      /\ pages' = [given EXCEPT !.pagesUptodate = TRUE]
      /\ cache' = NULL /\ mounts' = mounts + 1
      /\ UNCHANGED <<disk, index, buffer>>

\* A new content for a file, when its channel is closed: a small one waits in
\* the writer, a big one gets its page at once.
CloseFile(f, c, small) ==
  LET same == {k \in DOMAIN buffer : buffer[k].file = f}
      waiting == IF same = {} THEN buffer ELSE RemoveAt(buffer, CHOOSE k \in same : TRUE)
      added == PageAdd(pages, cache, c)
  IN  /\ pages # NULL /\ ~pages.fileReadOnly
      /\ Len(pages.list) + Len(waiting) < MaxPages
      /\ "shared" \notin Careless =>
           ~(/\ cache # NULL /\ cache.bytes = c
             /\ pages.list[cache.page].encryption
             /\ pages.list[cache.page].stored.key # pages.encryptionKey)
      /\ IF small
         THEN /\ buffer' = Append(waiting, [file |-> f, content |-> c])
              /\ index' = [index EXCEPT ![f] = PENDING]
              /\ pages' = [pages EXCEPT !.indexChanged = TRUE] /\ UNCHANGED cache
         ELSE /\ buffer' = waiting
              /\ index' = [index EXCEPT ![f] = added.page]
              /\ pages' = [added.pages EXCEPT !.indexChanged = TRUE]
              /\ cache' = added.cache
      /\ UNCHANGED <<disk, mounts>>

\* A file is read: one that waits from the writer, another from its page.
ReadFile(f) ==
  /\ pages # NULL /\ index[f] \notin {NULL, PENDING}
  /\ cache' = CacheSet(cache, index[f], PageGet(pages, cache, index[f]))
  /\ UNCHANGED <<disk, pages, index, buffer, mounts>>

\* Mutant: the password is set before the files that wait are written.
PasswordBeforePurge(password) ==
  LET given == SetPassword(pages, password)
      purged == WriterPurge(IF given = NULL THEN pages ELSE given, cache, index, buffer)
  IN  /\ pages # NULL
      /\ pages' = purged.pages /\ cache' = purged.cache
      /\ index' = purged.index /\ buffer' = <<>>
      /\ UNCHANGED <<disk, mounts>>

\* The password command and the attribute -password: the files that wait are
\* written first.  A refused password is reported and changes nothing else.
HandleCommandPassword(password) ==
  LET purged == WriterPurge(pages, cache, index, buffer)
      given == SetPassword(purged.pages, password)
  IN  /\ pages # NULL
      /\ pages' = IF given = NULL THEN purged.pages ELSE given
      /\ cache' = purged.cache /\ index' = purged.index /\ buffer' = <<>>
      /\ UNCHANGED <<disk, mounts>>

\* Unmount: what waits is written, and the archive saved if it changed.
Unmount ==
  LET purged == WriterPurge(pages, cache, index, buffer)
      changed == ~purged.pages.pagesUptodate \/ purged.pages.indexChanged
  IN  /\ pages # NULL
      /\ ("unset" \notin Careless /\ changed /\ ~pages.isPasswordSet) =>
           \A i \in DOMAIN pages.list : ~pages.list[i].encryption
      /\ disk' = IF changed THEN SavedSuffix(purged.pages) ELSE disk
      /\ index' = purged.index
      /\ pages' = NULL /\ cache' = NULL /\ buffer' = <<>>
      /\ UNCHANGED mounts

Next ==
  \/ \E password \in Passwords \cup {NULL}, encryptkey, readonly \in BOOLEAN :
       Mount(password, encryptkey, readonly)
  \/ \E f \in Files, c \in Contents, small \in BOOLEAN : CloseFile(f, c, small)
  \/ \E f \in Files : ReadFile(f)
  \/ \E password \in Passwords \cup {""} : HandleCommandPassword(password)
  \/ Unmount

Spec == Init /\ [][Next]_vars

-----------------------------------------------------------------------------
(* Properties                                                              *)

\* What protects a page: nothing, a password, the archive's key, or a key
\* that can no longer be made.
LockOf(page) ==
  LET salt == IF pages # NULL THEN pages.passwordSalt
              ELSE IF disk # NULL THEN disk.salt ELSE NULL
      sealed == IF pages # NULL /\ pages.isKeyDecrypted THEN pages.encryptionKey
                ELSE IF disk # NULL /\ disk.encryptedKey # NULL
                THEN disk.encryptedKey.key ELSE NULL
      k == page.stored.key
  IN  IF k = NULL THEN "none"
      ELSE IF k = sealed THEN "key"
      ELSE IF k.password # NULL /\ k.salt = salt THEN k.password ELSE "lost"

InForce ==
  IF pages = NULL THEN NULL
  ELSE IF ~pages.isEncryptionActive THEN "none"
  ELSE IF IsEncryptkey(pages) THEN "key" ELSE pages.encryptionKey.password

\* A file can be read, and is then what was stored, whenever it is protected
\* by nothing or by what is in force; any other file is refused, unless it is
\* still in the cache.  No bytes are given for a file that are not its own.
\* (Cookfs_ReadPage, the padding of page objects, and the comment in
\* Cookfs_PageAddRaw that only file encryption meets pages it cannot read.)
ReadsRightOrRefuses ==
  \A f \in Files :
    (pages # NULL /\ index[f] \notin {NULL, PENDING}) =>
      LET page == pages.list[index[f]]
          got == PageGet(pages, cache, index[f])
      IN  IF LockOf(page) \in {"none", InForce}
          THEN got = page.hash
          ELSE got = NULL \/ (cache # NULL /\ cache.page = index[f] /\ got = page.hash)

\* Whatever is done with passwords, keys and pages, each file keeps its
\* content and what protects it: what was in force when it was stored, which
\* for a small file is before it is written.
StoredFile(f) ==
  IF index[f] = NULL THEN NULL
  ELSE IF index[f] = PENDING
  THEN [content |-> (CHOOSE b \in ToSet(buffer) : b.file = f).content, by |-> InForce]
  ELSE LET page == (IF pages # NULL THEN pages ELSE disk).list[index[f]]
       IN  [content |-> page.hash, by |-> LockOf(page)]

ArchiveKey ==
  [password |-> IF disk = NULL \/ disk.encryptedKey = NULL THEN NULL
                ELSE disk.encryptedKey.by.password,
   open |-> pages # NULL /\ pages.isKeyDecrypted]

V == INSTANCE Vault WITH
  files <- [f \in Files |-> StoredFile(f)],
  inForce <- IF pages = NULL \/ pages.fileReadOnly THEN NULL ELSE InForce,
  key <- ArchiveKey

ImplementsVault == V!Spec
=============================================================================
