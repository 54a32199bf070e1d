---------------------------- MODULE Async_proofs ----------------------------
(* Proofs about Async: no page is lost between the queues, the callbacks and  *)
(* the file, and pages are where their offsets say.                           *)
EXTENDS Async, FiniteSetTheorems, SequenceTheorems, WellFoundedInduction, TLAPS

Distinct(q) == \A j, k \in DOMAIN q : q[j] = q[k] => j = k

\* The page records, the states of a callback and those of the pages
PageRecords == [content : Contents, size : -1 .. 2, offset : Int]
Callbacks ==
  [idle : Nat, busy : Seq(Nat), stranded : SUBSET Nat, done : SUBSET Nat, failed : SUBSET Nat,
   available : SUBSET Nat]
Maps(S) == UNION {[D -> S] : D \in SUBSET Nat}
States ==
  [index : Seq(PageRecords), file : Maps(Nat), position : Nat,
   fileLastOp : {"unknown", "read", "write"}, isUptodate : BOOLEAN, isCustom : BOOLEAN,
   mode : {"compress", "decompress"}, kind : Kinds, asyncPage : Seq(Nat),
   asyncDecompressIdx : Seq(Nat), cache : Maps(Contents), worker : Callbacks]

\* The first n pages have their place in the file, the others have none; an
\* offset that is known is the sum of the sizes before, and so is the position
\* of the channel after a page was written.
InPlace(s, n) ==
  /\ n \in 0 .. Len(s.index)
  /\ s.index # <<>> => s.index[1].offset = 0
  /\ \A i \in DOMAIN s.index :
       /\ IF i <= n THEN s.index[i].size \in 1 .. 2 ELSE s.index[i].size = -1
       /\ s.index[i].offset = -1 \/ (i <= n + 1 /\ s.index[i].offset = Ends(s.index)[i - 1])
       /\ i <= n => \A x \in Ends(s.index)[i - 1] + 1 .. Ends(s.index)[i] :
                      x \in DOMAIN s.file /\ s.file[x] = i
  /\ \A x \in DOMAIN s.file : s.file[x] \in DOMAIN s.index
  /\ s.fileLastOp = "write" => s.position = Ends(s.index)[n]

\* The pages after the first n, to page m
Behind(n, m) == [k \in 1 .. m - n |-> n + k]

\* They are those the queue of pages to write has.
Awaits(s, n, m) ==
  /\ m \in 0 .. Len(s.index) /\ n <= m /\ m - n <= MaxAsync
  /\ s.asyncPage = Behind(n, m)
  /\ n < m => IsAsync(s)

\* The callback w has the pages X, each once.
Has(w, X) ==
  /\ Distinct(w.busy)
  /\ Range(w.busy) \cup w.available = X /\ Range(w.busy) \cap w.available = {}
  /\ w.done \cup w.stranded \subseteq Range(w.busy)
  /\ w.done \cap w.stranded = {} /\ w.failed = {}

\* The workers of cookfs are idle or have one page each, but those that came
\* when no worker was idle have none.
Manned(w, kind) ==
  IF kind \in {"thread", "process"}
  THEN w.idle + Len(w.busy) = Workers + Cardinality(w.stranded)
  ELSE w.available = {} /\ w.done = {} /\ w.stranded = {}

\* The queues and the callback have the same pages.
Queued(s) ==
  /\ Range(s.asyncPage) \cup Range(s.asyncDecompressIdx) \subseteq DOMAIN s.index
  /\ Distinct(s.asyncDecompressIdx) /\ Len(s.asyncDecompressIdx) <= QueueSize
  /\ s.asyncDecompressIdx # <<>> => s.mode = "decompress"
  /\ Has(s.worker, Range(s.asyncPage) \cup Range(s.asyncDecompressIdx))
  /\ Manned(s.worker, s.kind)
  /\ s.mode = "compress" \/ QueueSize <= Workers => s.worker.stranded = {}
  /\ s.mode = "compress" => s.kind # "random"
  /\ s.mode = "compress" /\ s.kind = "queue" => s.worker.busy = s.asyncPage

\* What is decompressed was compressed.
Compressed(s) ==
  s.mode = "decompress" => \A i \in DOMAIN s.index : s.index[i].content \notin Raw

\* The cache has pages with their contents.
Cached(s) ==
  /\ DOMAIN s.cache \subseteq DOMAIN s.index /\ Cardinality(DOMAIN s.cache) <= CacheSize
  /\ \A i \in DOMAIN s.cache : s.cache[i] = s.index[i].content

Sound(s, n, m) ==
  /\ s \in States /\ InPlace(s, n) /\ Awaits(s, n, m) /\ Queued(s) /\ Compressed(s) /\ Cached(s)

\* While a page is added asynchronously it is in the index, but not in the queue.
Adding(c) == c # NULL /\ c.at \in {"collect", "room"}
Sent(s, c) == IF Adding(c) THEN Len(s.index) - 1 ELSE Len(s.index)
Written(s, c) == Sent(s, c) - Len(s.asyncPage)

\* What is known at each step of a call c, when the first n pages are written
CallFits(s, c, n) ==
  /\ Adding(c) => c.idx = Len(s.index) /\ c.idx > 0 /\ IsAsync(s)
  /\ c # NULL =>
       /\ c.at \in {"loading", "cached", "pending", "slot", "read"} => c.idx \in DOMAIN s.index
       /\ c.at = "loading" => c.to > 0
       /\ c.at \in {"slot", "read"} => c.idx <= n
       /\ c.at = "room" /\ s.kind \in {"thread", "process"} => s.worker.idle > 0
       /\ c.at \in {"preloads", "closed"} => s.asyncPage = <<>>

AnswerFits(s, a) ==
  a # NULL => a.idx \in DOMAIN s.index /\ a.content = s.index[a.idx].content

Fits(s, c, a) ==
  /\ Sound(s, Written(s, c), Sent(s, c))
  /\ Len(s.index) <= MaxPages
  /\ s.isUptodate => s.asyncPage = <<>> /\ ~Adding(c)
  /\ c \in Calls \cup {NULL} /\ CallFits(s, c, Written(s, c)) /\ AnswerFits(s, a)

IInv == Fits(pages, call, answer)
-----------------------------------------------------------------------------
(* Numbers and queues.                                                     *)

\* Of a set of natural numbers one is the least.
LEMMA Least ==
  ASSUME NEW T, T \subseteq Nat, T # {}
  PROVE  \E n \in T : \A m \in T : n <= m
<1> DEFINE Initial == {0 .. n : n \in T}
<1>1. IsWellFoundedOn(StrictSubsetOrdering(Nat), FiniteSubsetsOf(Nat))
  BY FS_StrictSubsetOrderingWellFounded
<1>2. Initial \subseteq FiniteSubsetsOf(Nat)
  <2> SUFFICES ASSUME NEW n \in T PROVE 0 .. n \in FiniteSubsetsOf(Nat)
    OBVIOUS
  <2> QED
    BY FS_Interval, 0 \in Int, n \in Int DEF FiniteSubsetsOf
<1>3. Initial # {}
  OBVIOUS
<1> HIDE DEF Initial
<1>4. PICK B \in Initial : \A C \in Initial : ~(<<C, B>> \in StrictSubsetOrdering(Nat))
  BY <1>1, <1>2, <1>3, WFMin
<1>5. PICK n \in T : B = 0 .. n
  BY <1>4 DEF Initial
<1>6. ASSUME NEW m \in T, m < n
      PROVE FALSE
  <2>1. 0 .. m \in Initial
    BY DEF Initial
  <2>2. 0 .. m \subseteq 0 .. n /\ 0 .. m # 0 .. n /\ 0 .. n \subseteq Nat
    BY <1>6
  <2>3. <<0 .. m, 0 .. n>> \in StrictSubsetOrdering(Nat)
    BY <2>2 DEF StrictSubsetOrdering
  <2> QED
    BY <1>4, <1>5, <2>1, <2>3
<1> QED
  BY <1>6

\* What holds at the start and goes on from each number to the next holds up to
\* any: the least number where it does not hold has none before it.
LEMMA Inductive ==
  ASSUME NEW n \in Nat, NEW T, 0 \in T, \A k \in 1 .. n : k - 1 \in T => k \in T
  PROVE  0 .. n \subseteq T
<1> SUFFICES ASSUME (0 .. n) \ T # {} PROVE FALSE
  OBVIOUS
<1> DEFINE Out == (0 .. n) \ T
<1>1. Out \subseteq Nat /\ Out # {}
  OBVIOUS
<1> HIDE DEF Out
<1>2. PICK m \in Out : \A k \in Out : m <= k
  BY <1>1, Least
<1>3. m \in 1 .. n /\ m - 1 \in 0 .. n
  BY <1>2 DEF Out
<1>4. m - 1 \in T
  BY <1>2, <1>3 DEF Out
<1> QED
  BY <1>2, <1>3, <1>4 DEF Out

LEMMA LeastIsMin ==
  ASSUME NEW T, T \subseteq Nat, T # {}
  PROVE  Min(T) \in T /\ \A m \in T : Min(T) <= m
BY Least DEF Min

\* Of a set of natural numbers below a bound one is the greatest.
LEMMA GreatestIsMax ==
  ASSUME NEW n \in Nat, NEW T, T \subseteq 0 .. n, T # {}
  PROVE  Max(T) \in T /\ \A m \in T : m <= Max(T)
<1> DEFINE Back == {k \in 0 .. n : n - k \in T}
<1>1. \A m \in T : n - m \in Back
  <2> SUFFICES ASSUME NEW m \in T PROVE n - m \in Back
    OBVIOUS
  <2>1. m \in 0 .. n /\ n - m \in 0 .. n /\ n - (n - m) = m
    OBVIOUS
  <2> QED
    BY <2>1
<1>2. Back \subseteq Nat /\ Back # {} /\ Back \subseteq 0 .. n /\ \A k \in Back : n - k \in T
  <2>1. PICK m : m \in T
    OBVIOUS
  <2>2. n - m \in Back
    BY <1>1, <2>1
  <2>3. Back \subseteq 0 .. n /\ \A k \in Back : n - k \in T
    OBVIOUS
  <2>4. 0 .. n \subseteq Nat
    OBVIOUS
  <2> HIDE DEF Back
  <2> QED
    BY <2>2, <2>3, <2>4
<1> HIDE DEF Back
<1>3. PICK k \in Back : \A j \in Back : k <= j
  BY <1>2, Least
<1>4. \A m \in T : m <= n - k
  <2> SUFFICES ASSUME NEW m \in T PROVE m <= n - k
    OBVIOUS
  <2>1. k <= n - m /\ k \in 0 .. n /\ m \in 0 .. n
    BY <1>1, <1>2, <1>3
  <2> QED
    BY <2>1
<1>5. n - k \in T
  BY <1>2, <1>3
<1> DEFINE M == n - k
<1>6. M \in T /\ \A m \in T : M >= m
  <2>1. k \in Int /\ T \subseteq Int
    BY <1>2
  <2> QED
    BY <1>4, <1>5, <2>1
<1> HIDE DEF M
<1>7. Max(T) \in T /\ \A m \in T : Max(T) >= m
  BY <1>6 DEF Max
<1> QED
  BY <1>7

\* A queue that has nothing twice is as long as the set of what it has is large.
LEMMA DistinctLength ==
  ASSUME NEW S, NEW q \in Seq(S), Distinct(q)
  PROVE  IsFiniteSet(Range(q)) /\ Cardinality(Range(q)) = Len(q)
<1>1. DOMAIN q = 1 .. Len(q) /\ Len(q) \in Nat
  BY LenProperties
<1>2. q \in [1 .. Len(q) -> Range(q)]
  BY LenProperties DEF Range
<1>3. q \in Surjection(1 .. Len(q), Range(q))
  BY <1>1, <1>2 DEF Surjection, Range
<1>4. q \in Injection(1 .. Len(q), Range(q))
  BY <1>1, <1>2 DEF Injection, IsInjective, Distinct
<1>5. IsFiniteSet(1 .. Len(q)) /\ Cardinality(1 .. Len(q)) = Len(q)
  BY <1>1, FS_Interval
<1> QED
  BY <1>3, <1>4, <1>5, FS_Surjection

\* Append keeps a queue distinct, if it does not have the new one.
LEMMA AppendDistinct ==
  ASSUME NEW S, NEW q \in Seq(S), NEW x \in S
  PROVE  /\ Append(q, x) \in Seq(S) /\ Len(Append(q, x)) = Len(q) + 1
         /\ Range(Append(q, x)) = Range(q) \cup {x}
         /\ Distinct(q) /\ x \notin Range(q) => Distinct(Append(q, x))
<1> DEFINE n == Len(q)
           a == Append(q, x)
<1>1. /\ a \in Seq(S) /\ Len(a) = n + 1 /\ n \in Nat
      /\ \A i \in 1 .. n : a[i] = q[i]
      /\ a[n + 1] = x
  BY AppendProperties, LenProperties
<1>2. DOMAIN a = 1 .. n + 1 /\ DOMAIN q = 1 .. n
  BY <1>1, LenProperties
<1> HIDE DEF a, n
<1>3. Range(a) = Range(q) \cup {x}
  <2>1. Range(a) = {a[i] : i \in 1 .. n + 1} /\ Range(q) = {q[i] : i \in 1 .. n}
    BY <1>2 DEF Range
  <2>2. 1 .. n + 1 = (1 .. n) \cup {n + 1}
    BY <1>1
  <2> QED
    BY <1>1, <2>1, <2>2
<1>4. Distinct(q) /\ x \notin Range(q) => Distinct(a)
  <2> SUFFICES ASSUME Distinct(q), x \notin Range(q), NEW i \in 1 .. n + 1, NEW j \in 1 .. n + 1,
                      a[i] = a[j]
               PROVE  i = j
    BY <1>2 DEF Distinct
  <2>1. \A k \in 1 .. n : q[k] # x
    BY <1>2 DEF Range
  <2>2. CASE i \in 1 .. n /\ j \in 1 .. n
    BY <1>1, <1>2, <2>2 DEF Distinct
  <2>3. CASE i = n + 1 \/ j = n + 1
    BY <1>1, <2>1, <2>3
  <2> QED
    BY <1>1, <2>2, <2>3
<1> QED
  BY <1>1, <1>3, <1>4 DEF a, n

\* What is kept is the queue its steps make, one of the queue after the other.
LEMMA WithoutSteps ==
  ASSUME NEW S, NEW q \in Seq(S), NEW gone
  PROVE  \E rest : /\ Without(q, gone) = rest[Len(q)] /\ rest[0] = <<>>
                   /\ \A k \in 1 .. Len(q) : rest[k] = Kept(rest[k - 1], q[k], gone)
<1> DEFINE n == Len(q)
           Body(f, m) == [k \in 0 .. m |-> IF k = 0 THEN <<>> ELSE Kept(f[k - 1], q[k], gone)]
           T == {m \in 0 .. n : \E f : f = Body(f, m)}
<1>0. n \in Nat
  BY LenProperties
<1> HIDE DEF n
<1>1. 0 \in T
  <2>1. [k \in 0 .. 0 |-> <<>>] = Body([k \in 0 .. 0 |-> <<>>], 0)
    OBVIOUS
  <2> HIDE DEF Body
  <2> QED
    BY <1>0, <2>1
<1>2. \A m \in 1 .. n : m - 1 \in T => m \in T
  <2> SUFFICES ASSUME NEW m \in 1 .. n, m - 1 \in T PROVE m \in T
    OBVIOUS
  <2>1. PICK f : f = Body(f, m - 1)
    OBVIOUS
  <2> DEFINE last == Kept(f[m - 1], q[m], gone)
             g == [k \in 0 .. m |-> IF k = m THEN last ELSE f[k]]
  <2>2. g = Body(g, m)
    <3>1. ASSUME NEW k \in 0 .. m
          PROVE  g[k] = IF k = 0 THEN <<>> ELSE Kept(g[k - 1], q[k], gone)
      <4>1. CASE k = m
        <5>1. m - 1 \in 0 .. m /\ m - 1 # m /\ m # 0
          BY <1>0
        <5>2. g[m - 1] = f[m - 1] /\ g[m] = last
          BY <5>1
        <5> QED
          BY <4>1, <5>1, <5>2
      <4>2. CASE k # m
        <5>1. k \in 0 .. m - 1 /\ g[k] = f[k]
          BY <1>0, <4>2
        <5>2. f[k] = IF k = 0 THEN <<>> ELSE Kept(f[k - 1], q[k], gone)
          BY <2>1, <5>1
        <5>3. k # 0 => k - 1 \in 0 .. m /\ k - 1 # m
          BY <1>0, <5>1
        <5>4. k # 0 => g[k - 1] = f[k - 1]
          BY <5>3
        <5> HIDE DEF g
        <5> QED
          BY <5>1, <5>2, <5>4
      <4> QED
        BY <4>1, <4>2
    <3>2. g = [k \in 0 .. m |-> g[k]]
      OBVIOUS
    <3> HIDE DEF g
    <3> QED
      BY <3>1, <3>2
  <2> HIDE DEF Body, g
  <2> QED
    BY <2>2
<1>3. n \in T
  <2> HIDE DEF T
  <2>2. 0 .. n \subseteq T
    BY <1>0, <1>1, <1>2, Inductive
  <2> QED
    BY <1>0, <2>2
<1> DEFINE rest == CHOOSE f : f = Body(f, n)
<1>4. rest = Body(rest, n)
  <2>1. \E f : f = Body(f, n)
    BY <1>3
  <2> HIDE DEF Body, T
  <2> QED
    BY <2>1
<1>5. Without(q, gone) = rest[n]
  BY DEF Without, n
<1> HIDE DEF rest
<1>6. rest[0] = <<>> /\ \A k \in 1 .. n : rest[k] = Kept(rest[k - 1], q[k], gone)
  <2> DEFINE Step(k) == IF k = 0 THEN <<>> ELSE Kept(rest[k - 1], q[k], gone)
  <2>1. \A k \in 0 .. n : rest[k] = Step(k)
    BY <1>4
  <2>2. 0 \in 0 .. n /\ \A k \in 1 .. n : k \in 0 .. n /\ k # 0
    BY <1>0
  <2>3. Step(0) = <<>> /\ \A k \in 1 .. n : Step(k) = Kept(rest[k - 1], q[k], gone)
    BY <2>2
  <2> HIDE DEF Step
  <2> QED
    BY <2>1, <2>2, <2>3
<1> QED
  BY <1>5, <1>6 DEF n

\* Up to the place k, r is what is kept of the queue q.
KeptSoFar(r, q, gone, k) ==
  /\ r \in Seq(Range(q)) /\ Len(r) <= k
  /\ Range(r) = {q[j] : j \in 1 .. k} \ gone
  /\ Distinct(r)

LEMMA KeptOne ==
  ASSUME NEW S, NEW q \in Seq(S), Distinct(q), NEW gone, NEW r, NEW k \in 1 .. Len(q),
         KeptSoFar(r, q, gone, k - 1)
  PROVE  KeptSoFar(Kept(r, q[k], gone), q, gone, k)
<1> DEFINE x == q[k]
<1>1. q[k] \in Range(q) /\ \A j \in 1 .. k - 1 : q[j] # q[k]
  BY LenProperties DEF Range, Distinct
<1>2. {q[j] : j \in 1 .. k} = {q[j] : j \in 1 .. k - 1} \cup {q[k]}
  <2>1. 1 .. k = (1 .. k - 1) \cup {k}
    BY LenProperties
  <2> QED
    BY <2>1
<1>3. r \in Seq(Range(q)) /\ Len(r) <= k - 1 /\ Len(r) \in Nat /\ Distinct(r)
      /\ Range(r) = {q[j] : j \in 1 .. k - 1} \ gone /\ k \in Nat
  BY LenProperties DEF KeptSoFar
<1>4. q[k] \notin Range(r)
  BY <1>1, <1>3
<1> HIDE DEF x
<1>5. /\ Append(r, q[k]) \in Seq(Range(q)) /\ Len(Append(r, q[k])) = Len(r) + 1
      /\ Range(Append(r, q[k])) = Range(r) \cup {q[k]}
      /\ Distinct(Append(r, q[k]))
  BY <1>1, <1>3, <1>4, AppendDistinct
<1>6. CASE q[k] \in gone
  <2>1. Kept(r, q[k], gone) = r
    BY <1>6 DEF Kept
  <2>2. Range(r) = {q[j] : j \in 1 .. k} \ gone
    BY <1>2, <1>3, <1>6
  <2>3. Len(r) <= k
    BY <1>3
  <2> QED
    BY <1>3, <2>1, <2>2, <2>3 DEF KeptSoFar
<1>7. CASE q[k] \notin gone
  <2>1. Kept(r, q[k], gone) = Append(r, q[k])
    BY <1>7 DEF Kept
  <2>2. Range(Append(r, q[k])) = {q[j] : j \in 1 .. k} \ gone
    BY <1>2, <1>3, <1>5, <1>7
  <2>3. Len(Append(r, q[k])) <= k
    BY <1>3, <1>5
  <2> QED
    BY <1>5, <2>1, <2>2, <2>3 DEF KeptSoFar
<1> QED
  BY <1>6, <1>7

\* What is kept of a queue is the queue without what is gone.
LEMMA WithoutKeeps ==
  ASSUME NEW S, NEW q \in Seq(S), Distinct(q), NEW gone
  PROVE  /\ Without(q, gone) \in Seq(S) /\ Len(Without(q, gone)) <= Len(q)
         /\ Range(Without(q, gone)) = Range(q) \ gone
         /\ Distinct(Without(q, gone))
<1>1. PICK rest : /\ Without(q, gone) = rest[Len(q)] /\ rest[0] = <<>>
                  /\ \A k \in 1 .. Len(q) : rest[k] = Kept(rest[k - 1], q[k], gone)
  BY WithoutSteps
<1> DEFINE n == Len(q)
           T == {k \in 0 .. n : KeptSoFar(rest[k], q, gone, k)}
<1>2. n \in Nat
  BY LenProperties
<1>3. 0 \in T
  <2>1. <<>> \in Seq(Range(q)) /\ Len(<<>>) = 0
    BY EmptySeq
  <2>2. Range(<<>>) = {} /\ Distinct(<<>>)
    BY DEF Range, Distinct
  <2>3. {q[j] : j \in 1 .. 0} = {}
    OBVIOUS
  <2>4. KeptSoFar(<<>>, q, gone, 0)
    BY <2>1, <2>2, <2>3 DEF KeptSoFar
  <2> QED
    BY <1>1, <1>2, <2>4
<1>4. \A k \in 1 .. n : k - 1 \in T => k \in T
  <2> SUFFICES ASSUME NEW k \in 1 .. n, k - 1 \in T PROVE k \in T
    OBVIOUS
  <2>1. KeptSoFar(rest[k - 1], q, gone, k - 1)
    OBVIOUS
  <2>2. KeptSoFar(Kept(rest[k - 1], q[k], gone), q, gone, k)
    BY <2>1, KeptOne
  <2> QED
    BY <1>1, <1>2, <2>2
<1>5. n \in T
  <2> HIDE DEF T, n
  <2>1. 0 .. n \subseteq T
    BY <1>2, <1>3, <1>4, Inductive
  <2> QED
    BY <1>2, <2>1
<1>6. KeptSoFar(Without(q, gone), q, gone, n)
  BY <1>1, <1>5
<1>7. Range(q) = {q[j] : j \in 1 .. n} /\ Range(q) \subseteq S
  BY LenProperties, RangeEquality, RangeOfSeq
<1>8. Without(q, gone) \in Seq(S)
  BY <1>6, <1>7, SeqMonotonic DEF KeptSoFar
<1> QED
  BY <1>6, <1>7, <1>8 DEF KeptSoFar

\* Without its first a distinct queue is its tail.
LEMMA WithoutFirst ==
  ASSUME NEW S, NEW q \in Seq(S), Distinct(q), q # <<>>
  PROVE  /\ Without(q, {q[1]}) \in Seq(S) /\ Len(Without(q, {q[1]})) = Len(q) - 1
         /\ \A j \in 1 .. Len(q) - 1 : Without(q, {q[1]})[j] = q[j + 1]
<1> DEFINE gone == {q[1]}
           n == Len(q)
<1>0. n \in Nat /\ n > 0 /\ DOMAIN q = 1 .. n /\ \A j \in 1 .. n : q[j] \in S
  BY LenProperties, EmptySeq, ElementOfSeq
<1> HIDE DEF n
<1>1. PICK rest : /\ Without(q, gone) = rest[n] /\ rest[0] = <<>>
                  /\ \A k \in 1 .. n : rest[k] = Kept(rest[k - 1], q[k], gone)
  BY WithoutSteps DEF n
<1> DEFINE T == {k \in 0 .. n : k > 0 =>
                   /\ rest[k] \in Seq(S) /\ Len(rest[k]) = k - 1
                   /\ \A j \in 1 .. k - 1 : rest[k][j] = q[j + 1]}
<1>2. 0 \in T
  BY <1>0
<1>3. \A k \in 1 .. n : k - 1 \in T => k \in T
  <2> SUFFICES ASSUME NEW k \in 1 .. n, k - 1 \in T PROVE k \in T
    OBVIOUS
  <2>0. k - 1 \in 0 .. n /\ k \in 0 .. n /\ k \in Nat
    BY <1>0
  <2>1. rest[k] = Kept(rest[k - 1], q[k], gone)
    BY <1>1
  <2>2. CASE k = 1
    <3>1. rest[1] = <<>>
      BY <1>1, <2>1, <2>2 DEF Kept
    <3>2. rest[k] \in Seq(S) /\ Len(rest[k]) = k - 1
      BY <2>2, <3>1, EmptySeq
    <3>3. 1 .. k - 1 = {}
      BY <2>2
    <3> QED
      BY <2>0, <3>2, <3>3
  <2>3. CASE k # 1
    <3> DEFINE p == rest[k - 1]
    <3>1. p \in Seq(S) /\ Len(p) = k - 2 /\ \A j \in 1 .. k - 2 : p[j] = q[j + 1]
      BY <2>0, <2>3
    <3> HIDE DEF p
    <3>2. q[k] \notin gone
      BY <1>0, <2>3 DEF Distinct
    <3>3. rest[k] = Append(p, q[k])
      BY <2>1, <3>2 DEF Kept, p
    <3>4. q[k] \in S
      BY <1>0
    <3>5. /\ Append(p, q[k]) \in Seq(S) /\ Len(Append(p, q[k])) = Len(p) + 1
          /\ \A i \in 1 .. Len(p) : Append(p, q[k])[i] = p[i]
          /\ Append(p, q[k])[Len(p) + 1] = q[k]
      BY <3>1, <3>4, AppendProperties
    <3> DEFINE r == rest[k]
    <3>6. r \in Seq(S) /\ Len(r) = k - 1 /\ \A j \in 1 .. k - 1 : r[j] = q[j + 1]
      <4>1. r = Append(p, q[k])
        BY <3>3
      <4> HIDE DEF r
      <4>2. r[k - 1] = q[(k - 1) + 1]
        BY <2>0, <3>1, <3>5, <4>1
      <4>3. \A j \in 1 .. k - 2 : r[j] = q[j + 1]
        BY <2>0, <3>1, <3>5, <4>1
      <4>4. \A j \in 1 .. k - 1 : j \in 1 .. k - 2 \/ j = k - 1
        BY <2>0
      <4> QED
        BY <2>0, <3>1, <3>5, <4>1, <4>2, <4>3, <4>4
    <3> QED
      BY <2>0, <3>6
  <2> QED
    BY <2>2, <2>3
<1>4. n \in T
  <2> HIDE DEF T
  <2>1. 0 .. n \subseteq T
    BY <1>0, <1>2, <1>3, Inductive
  <2> QED
    BY <1>0, <2>1
<1> QED
  BY <1>0, <1>1, <1>4 DEF n

-----------------------------------------------------------------------------
(* Places of pages.                                                        *)

\* Every page ends its size behind the one before it.
LEMMA EndsOf ==
  ASSUME NEW index \in Seq(PageRecords)
  PROVE  /\ Ends(index)[0] = 0
         /\ \A k \in 1 .. Len(index) : Ends(index)[k] = Ends(index)[k - 1] + index[k].size
         /\ \A k \in 0 .. Len(index) : Ends(index)[k] \in Int
<1> DEFINE n == Len(index)
           Body(f, m) == [k \in 0 .. m |-> IF k = 0 THEN 0 ELSE f[k - 1] + index[k].size]
           T == {m \in 0 .. n : \E f : f = Body(f, m)}
<1>0. n \in Nat /\ \A k \in 1 .. n : index[k] \in PageRecords
  BY LenProperties, ElementOfSeq
<1>1. 0 \in T
  <2>1. [k \in 0 .. 0 |-> 0] = Body([k \in 0 .. 0 |-> 0], 0)
    OBVIOUS
  <2> HIDE DEF Body
  <2> QED
    BY <1>0, <2>1
<1>2. \A m \in 1 .. n : m - 1 \in T => m \in T
  <2> SUFFICES ASSUME NEW m \in 1 .. n, m - 1 \in T PROVE m \in T
    OBVIOUS
  <2>1. PICK f : f = Body(f, m - 1)
    OBVIOUS
  <2> DEFINE g == [k \in 0 .. m |-> IF k = m THEN f[m - 1] + index[m].size ELSE f[k]]
  <2>2. g = Body(g, m)
    BY <2>1
  <2> HIDE DEF Body, g
  <2> QED
    BY <2>2
<1>3. n \in T
  <2> HIDE DEF T, n
  <2>2. 0 .. n \subseteq T
    BY <1>0, <1>1, <1>2, Inductive
  <2> QED
    BY <1>0, <2>2
<1>4. \E f : f = Body(f, n)
  BY <1>3
<1>5. Ends(index) = CHOOSE f : f = Body(f, n)
  BY DEF Ends
<1>6. Ends(index) = Body(Ends(index), n)
  BY <1>4, <1>5
<1>7. Ends(index)[0] = 0 /\ \A k \in 1 .. n : Ends(index)[k] = Ends(index)[k - 1] + index[k].size
  BY SMTT(30), <1>6
<1> DEFINE N == {k \in 0 .. n : Ends(index)[k] \in Int}
<1>8. 0 .. n \subseteq N
  <2>1. 0 \in N
    BY <1>7
  <2>2. \A k \in 1 .. n : k - 1 \in N => k \in N
    <3> SUFFICES ASSUME NEW k \in 1 .. n, k - 1 \in N PROVE k \in N
      OBVIOUS
    <3>1. index[k].size \in Int /\ Ends(index)[k - 1] \in Int
      BY <1>0 DEF PageRecords
    <3> QED
      BY <1>7, <3>1
  <2> HIDE DEF N, n
  <2> QED
    BY <1>0, <2>1, <2>2, Inductive
<1> QED
  BY <1>7, <1>8

\* The ends of pages do not depend on the pages behind them, nor on what the
\* index has of them but the size.
LEMMA EndsSame ==
  ASSUME NEW index \in Seq(PageRecords), NEW other \in Seq(PageRecords),
         NEW n \in 0 .. Len(index), n <= Len(other),
         \A k \in 1 .. n : index[k].size = other[k].size
  PROVE  \A k \in 0 .. n : Ends(index)[k] = Ends(other)[k]
<1> DEFINE T == {k \in 0 .. n : Ends(index)[k] = Ends(other)[k]}
<1>0. n \in Nat /\ Len(index) \in Nat /\ Len(other) \in Nat
  BY LenProperties
<1>1. 0 \in T
  BY <1>0, EndsOf
<1>2. \A k \in 1 .. n : k - 1 \in T => k \in T
  <2> SUFFICES ASSUME NEW k \in 1 .. n, k - 1 \in T PROVE k \in T
    OBVIOUS
  <2>1. k \in 1 .. Len(index) /\ k \in 1 .. Len(other)
    BY <1>0
  <2>2. /\ Ends(index)[k] = Ends(index)[k - 1] + index[k].size
        /\ Ends(other)[k] = Ends(other)[k - 1] + other[k].size
    BY <2>1, EndsOf
  <2> QED
    BY <2>2
<1>3. 0 .. n \subseteq T
  <2> HIDE DEF T
  <2> QED
    BY <1>0, <1>1, <1>2, Inductive
<1> QED
  BY <1>3

\* Pages that have a size end one behind the other.
LEMMA EndsRise ==
  ASSUME NEW index \in Seq(PageRecords), NEW n \in 0 .. Len(index),
         \A k \in 1 .. n : index[k].size >= 0
  PROVE  \A k \in 0 .. n : Ends(index)[k] \in Nat /\ \A j \in 0 .. k : Ends(index)[j] <= Ends(index)[k]
<1> DEFINE E == Ends(index)
           T == {k \in 0 .. n : E[k] \in Nat /\ \A j \in 0 .. k : E[j] <= E[k]}
<1>0. n \in Nat /\ Len(index) \in Nat
  BY LenProperties
<1>1. /\ E[0] = 0 /\ \A k \in 0 .. n : E[k] \in Int
      /\ \A k \in 1 .. n : E[k] = E[k - 1] + index[k].size /\ index[k].size \in Nat
  <2>1. \A k \in 1 .. n : k \in 1 .. Len(index)
    BY <1>0
  <2>2. \A k \in 1 .. n : index[k] \in PageRecords
    BY <2>1, ElementOfSeq
  <2>3. \A k \in 1 .. n : index[k].size \in Nat
    BY <2>2 DEF PageRecords
  <2>4. \A k \in 0 .. n : k \in 0 .. Len(index)
    BY <1>0
  <2> QED
    BY <2>1, <2>3, <2>4, EndsOf
<1> HIDE DEF E
<1>2. 0 \in T
  BY <1>0, <1>1
<1>3. \A k \in 1 .. n : k - 1 \in T => k \in T
  <2> SUFFICES ASSUME NEW k \in 1 .. n, k - 1 \in T PROVE k \in T
    OBVIOUS
  <2>1. /\ E[k] = E[k - 1] + index[k].size /\ index[k].size \in Nat /\ E[k - 1] \in Nat
        /\ \A j \in 0 .. k - 1 : E[j] <= E[k - 1]
    BY <1>1
  <2>2. E[k] \in Nat /\ E[k - 1] <= E[k]
    BY <2>1
  <2>3. \A j \in 0 .. k - 1 : E[j] <= E[k]
    <3> TAKE j \in 0 .. k - 1
    <3>1. j \in 0 .. n
      BY <1>0
    <3>2. E[j] \in Int /\ E[j] <= E[k - 1]
      BY <1>1, <2>1, <3>1
    <3> QED
      BY <2>1, <2>2, <3>2
  <2>4. \A j \in 0 .. k : j \in 0 .. k - 1 \/ j = k
    OBVIOUS
  <2> QED
    BY <2>2, <2>3, <2>4
<1>4. 0 .. n \subseteq T
  <2> HIDE DEF T
  <2> QED
    BY <1>0, <1>2, <1>3, Inductive
<1> QED
  BY <1>4 DEF E

\* The offsets of the pages from known to i are what the pages before them say.
Told(index, known, i) ==
  [j \in DOMAIN index |->
     IF j \in known .. i THEN [index[j] EXCEPT !.offset = Ends(index)[j - 1]] ELSE index[j]]

\* Offsets that are calculated from the last one known are those.
LEMMA StartOffsets ==
  ASSUME NEW s \in States, NEW n, InPlace(s, n), NEW i \in DOMAIN s.index, i <= n + 1
  PROVE  \E known \in 1 .. i :
           GetStartOffset(s, i) = [s EXCEPT !.index = Told(s.index, known, i)]
<1> DEFINE index == s.index
           Known == {j \in 1 .. i : index[j].offset >= 0}
           known == Max(Known)
<1>0. /\ index \in Seq(PageRecords) /\ Len(index) \in Nat /\ DOMAIN index = 1 .. Len(index)
      /\ n \in 0 .. Len(index) /\ i \in 1 .. Len(index)
      /\ \A j \in 1 .. Len(index) : index[j] \in PageRecords
  <2>1. index \in Seq(PageRecords)
    BY DEF States
  <2> QED
    BY <2>1, LenProperties, ElementOfSeq DEF InPlace
<1>1. known \in Known /\ \A j \in Known : j <= known
  <2>1. Known \subseteq 0 .. i /\ i \in Nat
    BY <1>0
  <2>2. index[1].offset = 0 /\ 1 \in 1 .. i
    <3>1. index # <<>>
      BY <1>0
    <3> QED
      BY <1>0, <3>1 DEF InPlace
  <2>3. 1 \in Known
    BY <2>2
  <2> HIDE DEF Known
  <2> QED
    BY <2>1, <2>3, GreatestIsMax
<1>2. known \in 1 .. i /\ index[known].offset >= 0
  <2>1. \A j \in Known : j \in 1 .. i /\ index[j].offset >= 0
    OBVIOUS
  <2> HIDE DEF Known, known
  <2> QED
    BY <1>1, <2>1
<1> DEFINE Step(f, j) == IF j <= known THEN index[known].offset ELSE f[j - 1] + index[j - 1].size
           Body(f, m) == [j \in 0 .. m |-> Step(f, j)]
           T == {m \in 0 .. i : \E f : f = Body(f, m)}
           start == CHOOSE f : f = Body(f, i)
<1>3. GetStartOffset(s, i)
        = [s EXCEPT !.index =
             [j \in DOMAIN index |->
                IF j \in known .. i THEN [index[j] EXCEPT !.offset = start[j]] ELSE index[j]]]
  BY DEF GetStartOffset
<1> HIDE DEF index, Known, known
<1>4. 0 \in T
  <2>1. [j \in 0 .. 0 |-> index[known].offset] = Body([j \in 0 .. 0 |-> index[known].offset], 0)
    BY <1>0, <1>2
  <2> HIDE DEF Body
  <2> QED
    BY <1>0, <2>1
<1>5. \A m \in 1 .. i : m - 1 \in T => m \in T
  <2> SUFFICES ASSUME NEW m \in 1 .. i, m - 1 \in T PROVE m \in T
    OBVIOUS
  <2>1. PICK f : f = Body(f, m - 1)
    OBVIOUS
  <2> DEFINE last == Step(f, m)
             g == [j \in 0 .. m |-> IF j = m THEN last ELSE f[j]]
  <2>2. g = Body(g, m)
    <3>1. ASSUME NEW k \in 0 .. m
          PROVE  g[k] = Step(g, k)
      <4>1. CASE k = m
        <5>1. m - 1 \in 0 .. m /\ m - 1 # m
          BY <1>0
        <5>2. g[m - 1] = f[m - 1] /\ g[m] = last
          BY <5>1
        <5> QED
          BY <4>1, <5>2
      <4>2. CASE k # m
        <5>1. k \in 0 .. m - 1 /\ g[k] = f[k]
          BY <1>0, <4>2
        <5>2. f[k] = Step(f, k)
          BY <2>1, <5>1
        <5>3. k > 0 => k - 1 \in 0 .. m /\ k - 1 # m
          BY <1>0, <5>1
        <5>4. k > 0 => g[k - 1] = f[k - 1]
          BY <5>3
        <5>5. k > known => k > 0
          BY <1>0, <1>2
        <5> HIDE DEF g
        <5>6. Step(g, k) = Step(f, k)
          BY <1>0, <1>2, <5>1, <5>4, <5>5
        <5> QED
          BY <5>1, <5>2, <5>6
      <4> QED
        BY <4>1, <4>2
    <3>2. g = [k \in 0 .. m |-> g[k]]
      OBVIOUS
    <3> HIDE DEF g, Step
    <3> QED
      BY <3>1, <3>2
  <2> HIDE DEF Body, g
  <2> QED
    BY <2>2
<1>6. start = Body(start, i)
  <2>1. i \in T
    <3> HIDE DEF T
    <3>1. i \in Nat
      BY <1>0
    <3>2. 0 .. i \subseteq T
      BY <1>4, <1>5, <3>1, Inductive
    <3> QED
      BY <3>1, <3>2
  <2>2. \E f : f = Body(f, i)
    BY <2>1
  <2> HIDE DEF Body, T
  <2> QED
    BY <2>2
<1> HIDE DEF start
<1>7. \A j \in 0 .. i : start[j] = Step(start, j)
  BY <1>6
<1>8. start[known] = Ends(index)[known - 1]
  <2>1. start[known] = index[known].offset
    BY <1>0, <1>2, <1>7
  <2>2. index[known].offset = -1 \/ index[known].offset = Ends(index)[known - 1]
    <3>1. known \in DOMAIN s.index
      BY <1>0, <1>2 DEF index
    <3> QED
      BY <3>1 DEF InPlace, index
  <2> QED
    BY <1>2, <2>1, <2>2
<1> DEFINE U == {d \in 0 .. i - known : start[known + d] = Ends(index)[(known + d) - 1]}
<1>9. 0 .. i - known \subseteq U
  <2>1. 0 \in U
    BY <1>0, <1>2, <1>8
  <2>2. \A d \in 1 .. i - known : d - 1 \in U => d \in U
    <3> SUFFICES ASSUME NEW d \in 1 .. i - known, d - 1 \in U PROVE d \in U
      OBVIOUS
    <3> DEFINE j == known + d
    <3>1. j \in 0 .. i /\ j > known /\ known + (d - 1) = j - 1 /\ j - 1 \in 1 .. Len(index)
      BY <1>0, <1>2
    <3>2. start[j - 1] = Ends(index)[(j - 1) - 1]
      <4>1. start[known + (d - 1)] = Ends(index)[(known + (d - 1)) - 1]
        OBVIOUS
      <4>2. known + (d - 1) = j - 1
        BY <3>1
      <4> HIDE DEF j
      <4> QED
        BY <4>1, <4>2, Zenon
    <3>3. start[j] = start[j - 1] + index[j - 1].size
      BY <1>0, <1>2, <1>7, <3>1
    <3>4. Ends(index)[j - 1] = Ends(index)[(j - 1) - 1] + index[j - 1].size
      BY <1>0, <3>1, EndsOf
    <3>5. start[j] = Ends(index)[j - 1]
      BY <3>2, <3>3, <3>4
    <3>6. start[known + d] = Ends(index)[(known + d) - 1] /\ d \in 0 .. i - known
      BY <1>0, <1>2, <3>5
    <3> QED
      BY <3>6
  <2>3. i - known \in Nat
    BY <1>0, <1>2
  <2> HIDE DEF U
  <2> QED
    BY <2>1, <2>2, <2>3, Inductive
<1>10. \A j \in known .. i : start[j] = Ends(index)[j - 1]
  <2> TAKE j \in known .. i
  <2>1. j - known \in 0 .. i - known /\ known + (j - known) = j
    BY <1>0, <1>2
  <2> DEFINE d == j - known
  <2>2. d \in U
    BY <1>9, <2>1
  <2>3. start[known + d] = Ends(index)[(known + d) - 1]
    BY <2>2
  <2> HIDE DEF U
  <2>4. known + d = j
    BY <2>1
  <2> HIDE DEF d
  <2> QED
    BY <2>3, <2>4, Zenon
<1>11. [j \in DOMAIN index |->
         IF j \in known .. i THEN [index[j] EXCEPT !.offset = start[j]] ELSE index[j]]
       = Told(index, known, i)
  BY <1>10 DEF Told
<1> QED
  BY <1>2, <1>3, <1>11 DEF index

\* The index t has the pages of the index s, with their contents.
SameContents(s, t) ==
  /\ DOMAIN t.index = DOMAIN s.index /\ Len(t.index) = Len(s.index)
  /\ \A j \in DOMAIN s.index : t.index[j].content = s.index[j].content

SameSizes(s, t) == \A j \in DOMAIN s.index : t.index[j].size = s.index[j].size

\* What is not the place of a page or of the channel
SameRest(s, t) ==
  /\ t.isUptodate = s.isUptodate /\ t.isCustom = s.isCustom /\ t.mode = s.mode /\ t.kind = s.kind
  /\ t.asyncPage = s.asyncPage /\ t.asyncDecompressIdx = s.asyncDecompressIdx
  /\ t.worker = s.worker /\ t.cache = s.cache

SamePlaces(s, t) ==
  t.index = s.index /\ t.file = s.file /\ t.position = s.position /\ t.fileLastOp = s.fileLastOp

LEMMA IndexIs ==
  ASSUME NEW s \in States
  PROVE  /\ s.index \in Seq(PageRecords) /\ Len(s.index) \in Nat
         /\ DOMAIN s.index = 1 .. Len(s.index)
         /\ \A j \in DOMAIN s.index :
              /\ s.index[j].content \in Contents /\ s.index[j].size \in -1 .. 2
              /\ s.index[j].offset \in Int
<1>1. s.index \in Seq(PageRecords)
  BY DEF States
<1>2. /\ Len(s.index) \in Nat /\ DOMAIN s.index = 1 .. Len(s.index)
      /\ \A j \in 1 .. Len(s.index) : s.index[j] \in PageRecords
  BY <1>1, LenProperties, ElementOfSeq
<1> QED
  BY <1>1, <1>2 DEF PageRecords

\* Pages stay in place when nothing but offsets changes, and those to what the
\* pages before say; the channel may go elsewhere for reading.
LEMMA InPlaceStill ==
  ASSUME NEW s \in States, NEW t \in States, NEW n, InPlace(s, n),
         SameContents(s, t), SameSizes(s, t), t.file = s.file,
         \A j \in DOMAIN s.index :
           \/ t.index[j].offset = s.index[j].offset
           \/ j <= n + 1 /\ t.index[j].offset = Ends(s.index)[j - 1]
           \/ j > 1 /\ t.index[j].offset = -1,
         t.fileLastOp = "write" => s.fileLastOp = "write" /\ t.position = s.position
  PROVE  /\ InPlace(t, n)
         /\ \A k \in 0 .. Len(s.index) : Ends(t.index)[k] = Ends(s.index)[k]
<1>1. /\ s.index \in Seq(PageRecords) /\ t.index \in Seq(PageRecords)
      /\ Len(t.index) = Len(s.index) /\ Len(s.index) \in Nat
      /\ DOMAIN s.index = 1 .. Len(s.index) /\ DOMAIN t.index = 1 .. Len(s.index)
      /\ n \in 0 .. Len(s.index)
  BY IndexIs DEF SameContents, InPlace
<1>2. \A k \in 0 .. Len(s.index) : Ends(t.index)[k] = Ends(s.index)[k]
  <2>1. \A k \in 1 .. Len(s.index) : t.index[k].size = s.index[k].size
    BY <1>1 DEF SameSizes
  <2>2. Len(s.index) \in 0 .. Len(t.index) /\ Len(s.index) <= Len(s.index)
    BY <1>1
  <2> QED
    BY <1>1, <2>1, <2>2, EndsSame
<1>3. t.index # <<>> => t.index[1].offset = 0
  <2> SUFFICES ASSUME t.index # <<>> PROVE t.index[1].offset = 0
    OBVIOUS
  <2>1. Len(s.index) > 0 /\ s.index # <<>> /\ 1 \in DOMAIN s.index
    BY <1>1, EmptySeq, IsASeq
  <2>2. s.index[1].offset = 0 /\ Ends(s.index)[0] = 0
    BY <1>1, <2>1, EndsOf DEF InPlace
  <2>3. \/ t.index[1].offset = s.index[1].offset
        \/ t.index[1].offset = Ends(s.index)[1 - 1]
    BY <2>1
  <2>4. 1 - 1 = 0
    OBVIOUS
  <2> QED
    BY <2>2, <2>3, <2>4
<1>4. ASSUME NEW j \in DOMAIN t.index
      PROVE  /\ IF j <= n THEN t.index[j].size \in 1 .. 2 ELSE t.index[j].size = -1
             /\ t.index[j].offset = -1 \/ (j <= n + 1 /\ t.index[j].offset = Ends(t.index)[j - 1])
             /\ j <= n => \A x \in Ends(t.index)[j - 1] + 1 .. Ends(t.index)[j] :
                            x \in DOMAIN t.file /\ t.file[x] = j
  <2>1. j \in DOMAIN s.index /\ j \in 0 .. Len(s.index) /\ j - 1 \in 0 .. Len(s.index)
    BY <1>1
  <2>2. Ends(t.index)[j] = Ends(s.index)[j] /\ Ends(t.index)[j - 1] = Ends(s.index)[j - 1]
    BY <1>2, <2>1
  <2>3. t.index[j].size = s.index[j].size
    BY <2>1 DEF SameSizes
  <2>4. /\ IF j <= n THEN s.index[j].size \in 1 .. 2 ELSE s.index[j].size = -1
        /\ s.index[j].offset = -1 \/ (j <= n + 1 /\ s.index[j].offset = Ends(s.index)[j - 1])
        /\ j <= n => \A x \in Ends(s.index)[j - 1] + 1 .. Ends(s.index)[j] :
                       x \in DOMAIN s.file /\ s.file[x] = j
    BY <2>1 DEF InPlace
  <2>5. IF j <= n THEN t.index[j].size \in 1 .. 2 ELSE t.index[j].size = -1
    BY <2>3, <2>4
  <2>6. t.index[j].offset = -1 \/ (j <= n + 1 /\ t.index[j].offset = Ends(t.index)[j - 1])
    BY <2>1, <2>2, <2>4
  <2>7. j <= n => \A x \in Ends(t.index)[j - 1] + 1 .. Ends(t.index)[j] :
                    x \in DOMAIN t.file /\ t.file[x] = j
    BY <2>2, <2>4
  <2> QED
    BY <2>5, <2>6, <2>7
<1>5. \A x \in DOMAIN t.file : t.file[x] \in DOMAIN t.index
  BY DEF InPlace, SameContents
<1>6. t.fileLastOp = "write" => t.position = Ends(t.index)[n]
  BY <1>1, <1>2 DEF InPlace
<1>7. n \in 0 .. Len(t.index)
  BY <1>1
<1>8. InPlace(t, n)
  BY <1>3, <1>4, <1>5, <1>6, <1>7 DEF InPlace
<1> QED
  BY <1>2, <1>8

\* What the calculating of offsets changes.
LEMMA ToldIs ==
  ASSUME NEW s \in States, NEW n, InPlace(s, n), NEW i \in DOMAIN s.index, i <= n + 1
  PROVE  LET t == GetStartOffset(s, i)
         IN /\ t \in States /\ SameContents(s, t) /\ SameSizes(s, t) /\ SameRest(s, t)
            /\ t.file = s.file /\ t.position = s.position /\ t.fileLastOp = s.fileLastOp
            /\ InPlace(t, n)
            /\ t.index[i].offset = Ends(s.index)[i - 1]
            /\ \A k \in 0 .. Len(s.index) : Ends(t.index)[k] = Ends(s.index)[k]
<1>1. PICK known \in 1 .. i :
        GetStartOffset(s, i) = [s EXCEPT !.index = Told(s.index, known, i)]
  BY StartOffsets
<1>2. PICK t : t = GetStartOffset(s, i)
  OBVIOUS
<1>3. PICK index : index = Told(s.index, known, i)
  OBVIOUS
<1>4. t = [s EXCEPT !.index = index]
  BY <1>1, <1>2, <1>3
<1>5. /\ s.index \in Seq(PageRecords) /\ Len(s.index) \in Nat
      /\ DOMAIN s.index = 1 .. Len(s.index)
      /\ \A k \in 0 .. Len(s.index) : Ends(s.index)[k] \in Int
  BY IndexIs, EndsOf
<1>6. /\ DOMAIN index = 1 .. Len(s.index)
      /\ \A j \in 1 .. Len(s.index) :
           /\ index[j] \in PageRecords
           /\ index[j].content = s.index[j].content /\ index[j].size = s.index[j].size
           /\ index[j].offset = IF j \in known .. i THEN Ends(s.index)[j - 1] ELSE s.index[j].offset
  <2>1. DOMAIN index = 1 .. Len(s.index)
    BY <1>3, <1>5 DEF Told
  <2>2. ASSUME NEW j \in 1 .. Len(s.index)
        PROVE  /\ index[j] \in PageRecords
               /\ index[j].content = s.index[j].content /\ index[j].size = s.index[j].size
               /\ index[j].offset = IF j \in known .. i THEN Ends(s.index)[j - 1]
                                    ELSE s.index[j].offset
    <3>1. s.index[j] \in PageRecords /\ Ends(s.index)[j - 1] \in Int
      BY <1>5, ElementOfSeq
    <3>2. index[j] = IF j \in known .. i THEN [s.index[j] EXCEPT !.offset = Ends(s.index)[j - 1]]
                     ELSE s.index[j]
      BY <1>3, <1>5 DEF Told
    <3> QED
      BY <3>1, <3>2 DEF PageRecords
  <2> QED
    BY <2>1, <2>2
<1>7. index \in Seq(PageRecords) /\ Len(index) = Len(s.index)
  <2>1. index = [j \in 1 .. Len(s.index) |-> index[j]]
    BY <1>3, <1>5 DEF Told
  <2>2. index \in [1 .. Len(s.index) -> PageRecords]
    BY <1>6, <2>1
  <2> QED
    BY <1>5, <2>2
<1>8. t \in States
  BY <1>4, <1>7 DEF States
<1>9. /\ t.index = index /\ t.file = s.file /\ t.position = s.position
      /\ t.fileLastOp = s.fileLastOp /\ SameRest(s, t)
  BY <1>4 DEF States, SameRest
<1>10. SameContents(s, t) /\ SameSizes(s, t)
  BY <1>5, <1>6, <1>7, <1>9 DEF SameContents, SameSizes
<1>11. \A j \in DOMAIN s.index :
         \/ t.index[j].offset = s.index[j].offset
         \/ j <= n + 1 /\ t.index[j].offset = Ends(s.index)[j - 1]
  <2> SUFFICES ASSUME NEW j \in DOMAIN s.index, j \in known .. i PROVE j <= n + 1
    BY <1>5, <1>6, <1>9
  <2>1. i \in Int /\ n \in Int /\ j \in Int
    BY <1>5 DEF InPlace
  <2> QED
    BY <2>1
<1>12. /\ InPlace(t, n)
       /\ \A k \in 0 .. Len(s.index) : Ends(t.index)[k] = Ends(s.index)[k]
  BY <1>8, <1>9, <1>10, <1>11, InPlaceStill
<1>13. t.index[i].offset = Ends(s.index)[i - 1]
  <2>1. i \in 1 .. Len(s.index) /\ i \in known .. i
    BY <1>5
  <2> QED
    BY <1>6, <1>9, <2>1
<1> QED
  BY <1>2, <1>8, <1>9, <1>10, <1>12, <1>13

\* The first pages, which have a place, begin and end in the file.
LEMMA PlaceIs ==
  ASSUME NEW s \in States, NEW n, InPlace(s, n)
  PROVE  /\ \A k \in 0 .. n : Ends(s.index)[k] \in Nat /\ Ends(s.index)[k] <= Ends(s.index)[n]
         /\ \A k \in 1 .. n : /\ Ends(s.index)[k] = Ends(s.index)[k - 1] + s.index[k].size
                              /\ s.index[k].size \in 1 .. 2
<1>1. /\ s.index \in Seq(PageRecords) /\ Len(s.index) \in Nat /\ n \in 0 .. Len(s.index)
      /\ DOMAIN s.index = 1 .. Len(s.index) /\ n \in 0 .. n
  BY IndexIs DEF InPlace
<1>2. \A k \in 1 .. n : k \in DOMAIN s.index /\ k <= n
  BY <1>1
<1>3. \A k \in 1 .. n : s.index[k].size \in 1 .. 2
  BY <1>2 DEF InPlace
<1>4. \A k \in 1 .. n : s.index[k].size >= 0
  BY <1>3
<1>5. \A k \in 0 .. n : Ends(s.index)[k] \in Nat
                        /\ \A j \in 0 .. k : Ends(s.index)[j] <= Ends(s.index)[k]
  BY <1>1, <1>4, EndsRise
<1>6. \A k \in 1 .. n : Ends(s.index)[k] = Ends(s.index)[k - 1] + s.index[k].size
  BY <1>1, <1>2, EndsOf
<1> QED
  BY <1>1, <1>3, <1>5, <1>6

\* Seeking to a page whose place is known
LEMMA SoughtIs ==
  ASSUME NEW s \in States, NEW n, InPlace(s, n), NEW i \in DOMAIN s.index, i <= n + 1
  PROVE  LET t == SeekToPage(s, i)
         IN /\ t \in States /\ SameContents(s, t) /\ SameSizes(s, t) /\ SameRest(s, t)
            /\ t.file = s.file /\ t.fileLastOp = s.fileLastOp
            /\ t.position = Ends(s.index)[i - 1]
            /\ InPlace([t EXCEPT !.fileLastOp = "unknown"], n)
            /\ t.index[i].offset = Ends(s.index)[i - 1]
            /\ \A k \in 0 .. Len(s.index) : Ends(t.index)[k] = Ends(s.index)[k]
<1>1. PICK g : g = GetStartOffset(s, i)
  OBVIOUS
<1>2. /\ g \in States /\ SameContents(s, g) /\ SameSizes(s, g) /\ SameRest(s, g)
      /\ g.file = s.file /\ g.position = s.position /\ g.fileLastOp = s.fileLastOp
      /\ InPlace(g, n)
      /\ g.index[i].offset = Ends(s.index)[i - 1]
      /\ \A k \in 0 .. Len(s.index) : Ends(g.index)[k] = Ends(s.index)[k]
  BY <1>1, ToldIs
<1>3. PICK t : t = SeekToPage(s, i)
  OBVIOUS
<1>4. t = [g EXCEPT !.position = g.index[i].offset]
  BY <1>1, <1>3 DEF SeekToPage
<1>5. Ends(s.index)[i - 1] \in Nat
  <2>1. i - 1 \in 0 .. n
    BY IndexIs DEF InPlace
  <2> QED
    BY <2>1, PlaceIs
<1>6. t = [g EXCEPT !.position = Ends(s.index)[i - 1]]
  BY <1>2, <1>4
<1>7. /\ t \in States /\ t.index = g.index /\ t.file = g.file /\ t.fileLastOp = g.fileLastOp
      /\ t.position = Ends(s.index)[i - 1] /\ SameRest(g, t)
  BY <1>2, <1>5, <1>6 DEF States, SameRest
<1>8. SameContents(s, t) /\ SameSizes(s, t) /\ SameRest(s, t)
  BY <1>2, <1>7 DEF SameContents, SameSizes, SameRest
<1>9. PICK u : u = [t EXCEPT !.fileLastOp = "unknown"]
  OBVIOUS
<1>10. u \in States /\ u.index = g.index /\ u.file = g.file /\ u.fileLastOp = "unknown"
  BY <1>7, <1>9 DEF States
<1>11. SameContents(g, u) /\ SameSizes(g, u)
  BY <1>10 DEF SameContents, SameSizes
<1>12. InPlace(u, n)
  BY <1>2, <1>10, <1>11, InPlaceStill
<1> QED
  BY <1>2, <1>3, <1>7, <1>8, <1>9, <1>12

\* Reading a page that has a place moves the channel only.
LEMMA ReadIs ==
  ASSUME NEW s \in States, NEW n, InPlace(s, n), NEW i \in DOMAIN s.index, i <= n
  PROVE  LET t == ReadPage(s, i)
         IN /\ t \in States /\ SameContents(s, t) /\ SameSizes(s, t) /\ SameRest(s, t)
            /\ InPlace(t, n) /\ Found(t, i)
<1>0. n \in Int /\ i \in Int /\ i <= n + 1 /\ i \in 1 .. n /\ i - 1 \in 0 .. Len(s.index)
  BY IndexIs DEF InPlace
<1>1. PICK g : g = SeekToPage(s, i)
  OBVIOUS
<1>2. PICK u : u = [g EXCEPT !.fileLastOp = "unknown"]
  OBVIOUS
<1>3. /\ g \in States /\ SameContents(s, g) /\ SameSizes(s, g) /\ SameRest(s, g)
      /\ g.file = s.file /\ g.position = Ends(s.index)[i - 1]
      /\ InPlace(u, n)
      /\ g.index[i].offset = Ends(s.index)[i - 1]
      /\ \A k \in 0 .. Len(s.index) : Ends(g.index)[k] = Ends(s.index)[k]
  BY <1>0, <1>1, <1>2, SoughtIs
<1>4. PICK t : t = ReadPage(s, i)
  OBVIOUS
<1>5. t = [g EXCEPT !.position = @ + g.index[i].size, !.fileLastOp = "read"]
  BY <1>1, <1>4 DEF ReadPage
<1>6. g.position \in Nat /\ g.index[i].size \in 1 .. 2
  <2>1. g.index[i].size = s.index[i].size
    BY <1>3 DEF SameSizes
  <2>2. s.index[i].size \in 1 .. 2
    BY <1>0, PlaceIs
  <2> QED
    BY <1>3, <2>1, <2>2 DEF States
<1>7. PICK p : p = g.position + g.index[i].size
  OBVIOUS
<1>8. p \in Nat
  BY <1>6, <1>7
<1>9. t = [g EXCEPT !.position = p, !.fileLastOp = "read"]
  BY <1>5, <1>7
<1>10. /\ t \in States /\ t.index = g.index /\ t.file = g.file /\ t.fileLastOp = "read"
       /\ SameRest(g, t)
  BY <1>3, <1>8, <1>9 DEF States, SameRest
<1>11. SameContents(s, t) /\ SameSizes(s, t) /\ SameRest(s, t)
  BY <1>3, <1>10 DEF SameContents, SameSizes, SameRest
<1>12. u \in States /\ u.index = g.index /\ u.file = g.file
  BY <1>2, <1>3 DEF States
<1>13. SameContents(u, t) /\ SameSizes(u, t)
  BY <1>10, <1>12 DEF SameContents, SameSizes
<1>14. InPlace(t, n)
  BY <1>3, <1>10, <1>12, <1>13, InPlaceStill
<1>15. Found(t, i)
  <2>1. i \in DOMAIN t.index
    BY <1>11 DEF SameContents
  <2>2. \A x \in Ends(t.index)[i - 1] + 1 .. Ends(t.index)[i] : x \in DOMAIN t.file /\ t.file[x] = i
    BY <1>14, <2>1 DEF InPlace
  <2>2a. Ends(t.index)[i] = Ends(t.index)[i - 1] + t.index[i].size
    BY <1>0, <1>10, <1>14, PlaceIs
  <2>3. t.index[i].offset = Ends(t.index)[i - 1]
    BY <1>0, <1>3, <1>10
  <2> QED
    BY <2>2, <2>2a, <2>3 DEF Found
<1> QED
  BY <1>4, <1>10, <1>11, <1>14, <1>15

\* The channel is behind the pages that have a place, where the next is written.
LEMMA WriteStarts ==
  ASSUME NEW s \in States, NEW n, InPlace(s, n), n < Len(s.index)
  PROVE  \E t \in States :
           /\ t = IF s.fileLastOp = "write" THEN s ELSE SeekToPage(s, n + 1)
           /\ SameContents(s, t) /\ SameSizes(s, t) /\ SameRest(s, t)
           /\ t.file = s.file /\ t.position = Ends(t.index)[n]
           /\ InPlace([t EXCEPT !.fileLastOp = "unknown"], n)
<1>0. n + 1 \in DOMAIN s.index /\ n \in 0 .. Len(s.index) /\ (n + 1) - 1 = n /\ n + 1 <= n + 1
  BY IndexIs DEF InPlace
<1>1. CASE s.fileLastOp = "write"
  <2>1. PICK u : u = [s EXCEPT !.fileLastOp = "unknown"]
    OBVIOUS
  <2>2. u \in States /\ u.index = s.index /\ u.file = s.file /\ u.fileLastOp = "unknown"
    BY <2>1 DEF States
  <2>3. SameContents(s, u) /\ SameSizes(s, u)
    BY <2>2 DEF SameContents, SameSizes
  <2>4. InPlace(u, n)
    BY <2>2, <2>3, InPlaceStill
  <2>5. SameContents(s, s) /\ SameSizes(s, s) /\ SameRest(s, s)
    BY DEF SameContents, SameSizes, SameRest
  <2>6. s.position = Ends(s.index)[n]
    BY <1>1 DEF InPlace
  <2> QED
    BY <1>1, <2>1, <2>4, <2>5, <2>6
<1>2. CASE s.fileLastOp # "write"
  <2>1. PICK t : t = SeekToPage(s, n + 1)
    OBVIOUS
  <2>2. /\ t \in States /\ SameContents(s, t) /\ SameSizes(s, t) /\ SameRest(s, t)
        /\ t.file = s.file
        /\ t.position = Ends(s.index)[(n + 1) - 1]
        /\ InPlace([t EXCEPT !.fileLastOp = "unknown"], n)
        /\ \A k \in 0 .. Len(s.index) : Ends(t.index)[k] = Ends(s.index)[k]
    BY <1>0, <2>1, SoughtIs
  <2>3. t.position = Ends(t.index)[n]
    BY <1>0, <2>2
  <2> QED
    BY <1>2, <2>1, <2>2, <2>3
<1> QED
  BY <1>1, <1>2

\* Writing the first page that has no place gives it the one behind the others.
LEMMA WriteIs ==
  ASSUME NEW s \in States, NEW n, InPlace(s, n), n < Len(s.index)
  PROVE  LET t == WritePage(s, n + 1)
         IN t \in States /\ SameContents(s, t) /\ SameRest(s, t) /\ InPlace(t, n + 1)
<1>0. n + 1 \in DOMAIN s.index /\ n \in 0 .. Len(s.index) /\ n \in Nat
  BY IndexIs DEF InPlace
<1>1. PICK g \in States :
        /\ g = IF s.fileLastOp = "write" THEN s ELSE SeekToPage(s, n + 1)
        /\ SameContents(s, g) /\ SameSizes(s, g) /\ SameRest(s, g)
        /\ g.file = s.file /\ g.position = Ends(g.index)[n]
        /\ InPlace([g EXCEPT !.fileLastOp = "unknown"], n)
  BY WriteStarts
<1>2. PICK u : u = [g EXCEPT !.fileLastOp = "unknown"]
  OBVIOUS
<1>3. /\ u \in States /\ InPlace(u, n) /\ u.index = g.index /\ u.file = g.file
  BY <1>1, <1>2 DEF States
<1>4. PICK size : size = Size(s.index[n + 1].content)
  OBVIOUS
<1>5. size \in 1 .. 2
  BY <1>4 DEF Size
<1>6. PICK at : at = Ends(g.index)[n]
  OBVIOUS
<1>7. PICK file : file = [x \in DOMAIN g.file \cup (at + 1 .. at + size) |->
                            IF x \in at + 1 .. at + size THEN n + 1 ELSE g.file[x]]
  OBVIOUS
<1>8. PICK index : index = [g.index EXCEPT ![n + 1] = [@ EXCEPT !.size = size]]
  OBVIOUS
<1>9. PICK t : t = WritePage(s, n + 1)
  OBVIOUS
<1>10. t = [g EXCEPT !.file = file, !.position = at + size, !.fileLastOp = "write", !.index = index]
  <2>1. t = [g EXCEPT !.file = [x \in DOMAIN @ \cup (g.position + 1 .. g.position + size) |->
                                  IF x \in g.position + 1 .. g.position + size THEN n + 1 ELSE @[x]],
                      !.position = @ + size, !.fileLastOp = "write", !.index[n + 1].size = size]
    BY <1>1, <1>4, <1>9 DEF WritePage
  <2> QED
    BY <1>1, <1>6, <1>7, <1>8, <2>1
<1>11. /\ g.index \in Seq(PageRecords) /\ Len(g.index) = Len(s.index) /\ Len(g.index) \in Nat
       /\ DOMAIN g.index = 1 .. Len(g.index) /\ DOMAIN s.index = 1 .. Len(g.index)
       /\ n + 1 \in 1 .. Len(g.index)
       /\ \A j \in 1 .. Len(g.index) : g.index[j] \in PageRecords
  <2>1. DOMAIN s.index = 1 .. Len(s.index)
    BY IndexIs
  <2>2. Len(g.index) = Len(s.index)
    BY <1>1 DEF SameContents
  <2> QED
    BY <1>0, <2>1, <2>2, IndexIs, ElementOfSeq
<1>12. /\ index \in Seq(PageRecords) /\ Len(index) = Len(g.index)
       /\ \A j \in 1 .. Len(g.index) :
            /\ index[j].content = g.index[j].content /\ index[j].offset = g.index[j].offset
            /\ index[j].size = IF j = n + 1 THEN size ELSE g.index[j].size
  <2>1. PICK page : page = [g.index[n + 1] EXCEPT !.size = size]
    OBVIOUS
  <2>2. /\ page \in PageRecords /\ page.size = size
        /\ page.content = g.index[n + 1].content /\ page.offset = g.index[n + 1].offset
    BY <1>5, <1>11, <2>1 DEF PageRecords
  <2>3. index = [g.index EXCEPT ![n + 1] = page]
    BY <1>8, <2>1
  <2>4. /\ [g.index EXCEPT ![n + 1] = page] \in Seq(PageRecords)
        /\ Len([g.index EXCEPT ![n + 1] = page]) = Len(g.index)
        /\ \A j \in 1 .. Len(g.index) :
             [g.index EXCEPT ![n + 1] = page][j] = IF j = n + 1 THEN page ELSE g.index[j]
    BY <1>11, <2>2, ExceptSeq
  <2> QED
    BY <2>2, <2>3, <2>4
<1>13. /\ at \in Nat
       /\ \A k \in 0 .. n : Ends(g.index)[k] \in Nat /\ Ends(g.index)[k] <= at
       /\ \A k \in 0 .. n : Ends(index)[k] = Ends(g.index)[k]
       /\ Ends(index)[n + 1] = at + size
  <2>1. \A k \in 0 .. n : Ends(g.index)[k] \in Nat /\ Ends(g.index)[k] <= at
    BY <1>3, <1>6, PlaceIs
  <2>2. \A k \in 1 .. n : index[k].size = g.index[k].size
    <3> TAKE k \in 1 .. n
    <3>1. k \in 1 .. Len(g.index) /\ k # n + 1
      BY <1>0, <1>11
    <3> QED
      BY <1>12, <3>1
  <2>3. n \in 0 .. Len(index) /\ n <= Len(g.index)
    BY <1>0, <1>11, <1>12
  <2>4. \A k \in 0 .. n : Ends(index)[k] = Ends(g.index)[k]
    BY <1>11, <1>12, <2>2, <2>3, EndsSame
  <2>5. Ends(index)[n + 1] = Ends(index)[(n + 1) - 1] + index[n + 1].size
    BY <1>11, <1>12, EndsOf
  <2>6. n \in 0 .. n /\ (n + 1) - 1 = n
    BY <1>0
  <2>7. at \in Nat /\ Ends(index)[n] = at
    BY <1>6, <2>1, <2>4, <2>6
  <2>8. Ends(index)[n + 1] = at + size
    BY <1>11, <1>12, <2>5, <2>6, <2>7
  <2> QED
    BY <2>1, <2>4, <2>7, <2>8
<1>14. /\ file \in Maps(Nat)
       /\ DOMAIN file = DOMAIN g.file \cup (at + 1 .. at + size)
       /\ \A x \in at + 1 .. at + size : file[x] = n + 1
       /\ \A x \in DOMAIN g.file \ (at + 1 .. at + size) : file[x] = g.file[x]
  <2>1. PICK D \in SUBSET Nat : g.file \in [D -> Nat]
    BY DEF States, Maps
  <2>2. at + 1 .. at + size \subseteq Nat
    BY <1>5, <1>13
  <2> DEFINE cells == at + 1 .. at + size
             E == D \cup cells
  <2> HIDE DEF cells
  <2>3a. DOMAIN g.file = D /\ \A x \in D : g.file[x] \in Nat
    BY <2>1
  <2>3b. file = [x \in E |-> IF x \in cells THEN n + 1 ELSE g.file[x]]
    BY <1>7, <2>3a DEF cells
  <2>3c. \A x \in E : (IF x \in cells THEN n + 1 ELSE g.file[x]) \in Nat
    BY <1>0, <2>3a
  <2>3. DOMAIN file = E /\ file \in [E -> Nat] /\ E \subseteq Nat
    BY <2>2, <2>1, <2>3b, <2>3c DEF cells
  <2>4. file \in Maps(Nat)
    BY <2>3 DEF Maps
  <2>5. /\ DOMAIN file = DOMAIN g.file \cup cells
        /\ \A x \in cells : file[x] = n + 1
        /\ \A x \in DOMAIN g.file \ cells : file[x] = g.file[x]
    BY <2>3, <2>3a, <2>3b
  <2> QED
    BY <2>4, <2>5 DEF cells
<1>15. PICK p : p = at + size
  OBVIOUS
<1>16. p \in Nat
  BY <1>5, <1>13, <1>15
<1>17. t = [g EXCEPT !.file = file, !.position = p, !.fileLastOp = "write", !.index = index]
  BY <1>10, <1>15
<1>18. t \in States
  BY <1>12, <1>14, <1>16, <1>17 DEF States
<1>19. /\ t.index = index /\ t.file = file /\ t.position = p /\ t.fileLastOp = "write"
       /\ SameRest(g, t)
  BY <1>17 DEF States, SameRest
<1>20. SameContents(s, t) /\ SameRest(s, t)
  <2>1. DOMAIN index = 1 .. Len(g.index)
    BY <1>11, <1>12, LenProperties
  <2>2. \A j \in 1 .. Len(g.index) : index[j].content = s.index[j].content
    BY <1>1, <1>11, <1>12 DEF SameContents
  <2>3. SameContents(s, t)
    BY <1>11, <1>12, <1>19, <2>1, <2>2 DEF SameContents
  <2> QED
    BY <1>1, <1>19, <2>3 DEF SameRest

<1>21. \A j \in 1 .. Len(g.index) :
         /\ IF j <= n THEN g.index[j].size \in 1 .. 2 ELSE g.index[j].size = -1
         /\ g.index[j].offset = -1 \/ (j <= n + 1 /\ g.index[j].offset = Ends(g.index)[j - 1])
         /\ j <= n => \A x \in Ends(g.index)[j - 1] + 1 .. Ends(g.index)[j] :
                        x \in DOMAIN g.file /\ g.file[x] = j
  BY <1>3, <1>11 DEF InPlace
<1>22. ASSUME NEW j \in 1 .. Len(g.index)
       PROVE  IF j <= n + 1 THEN index[j].size \in 1 .. 2 ELSE index[j].size = -1
  BY <1>0, <1>5, <1>12, <1>21
<1>23. ASSUME NEW j \in 1 .. Len(g.index)
       PROVE  index[j].offset = -1 \/ (j <= (n + 1) + 1 /\ index[j].offset = Ends(index)[j - 1])
  <2>1. CASE g.index[j].offset = -1
    BY <1>12, <2>1
  <2>2. CASE j <= n + 1 /\ g.index[j].offset = Ends(g.index)[j - 1]
    <3>1. j - 1 \in 0 .. n /\ j <= (n + 1) + 1
      BY <1>0, <2>2
    <3>2. Ends(index)[j - 1] = Ends(g.index)[j - 1]
      BY <1>13, <3>1
    <3> QED
      BY <1>12, <2>2, <3>1, <3>2
  <2> QED
    BY <1>21, <2>1, <2>2
<1>24. ASSUME NEW j \in 1 .. Len(g.index), j <= n + 1,
              NEW x \in Ends(index)[j - 1] + 1 .. Ends(index)[j]
       PROVE  x \in DOMAIN file /\ file[x] = j
  <2>1. CASE j = n + 1
    <3>1. j - 1 = n /\ n \in 0 .. n
      BY <1>0, <2>1
    <3>2. Ends(index)[j - 1] = at /\ Ends(index)[j] = at + size
      BY <1>6, <1>13, <2>1, <3>1
    <3>3. x \in at + 1 .. at + size
      BY <3>2
    <3> QED
      BY <1>14, <2>1, <3>3
  <2>2. CASE j # n + 1
    <3>1. j \in 0 .. n /\ j - 1 \in 0 .. n /\ j <= n
      BY <1>0, <1>24, <2>2
    <3>2. Ends(index)[j - 1] = Ends(g.index)[j - 1] /\ Ends(index)[j] = Ends(g.index)[j]
      BY <1>13, <3>1
    <3>3. x \in DOMAIN g.file /\ g.file[x] = j
      BY <1>21, <3>1, <3>2
    <3>4. x \notin at + 1 .. at + size
      <4>1. Ends(g.index)[j] \in Nat /\ Ends(g.index)[j] <= at /\ Ends(g.index)[j - 1] \in Nat
        BY <1>13, <3>1
      <4>2. x \in Ends(g.index)[j - 1] + 1 .. Ends(g.index)[j]
        BY <3>2
      <4> QED
        BY <1>13, <4>1, <4>2
    <3> QED
      BY <1>14, <3>3, <3>4
  <2> QED
    BY <2>1, <2>2
<1>25. \A x \in DOMAIN file : file[x] \in 1 .. Len(g.index)
  <2>1. \A x \in DOMAIN g.file : g.file[x] \in 1 .. Len(g.index)
    BY <1>3, <1>11 DEF InPlace
  <2> QED
    BY <1>11, <1>14, <2>1
<1>26. index # <<>> => index[1].offset = 0
  <2>1. g.index # <<>> /\ 1 \in 1 .. Len(g.index)
    BY <1>0, <1>11
  <2>2. g.index[1].offset = 0
    BY <1>3, <2>1 DEF InPlace
  <2> QED
    BY <1>12, <2>1, <2>2
<1>27. DOMAIN index = 1 .. Len(g.index) /\ n + 1 \in 0 .. Len(index)
  BY <1>0, <1>11, <1>12, LenProperties
<1>28. InPlace(t, n + 1)
  BY <1>13, <1>15, <1>19, <1>22, <1>23, <1>24, <1>25, <1>26, <1>27 DEF InPlace
<1> QED
  BY <1>9, <1>18, <1>20, <1>28

-----------------------------------------------------------------------------
(* The callback has what it was given.                                     *)

LEMMA BusyIs ==
  ASSUME NEW w \in Callbacks
  PROVE  /\ w.busy \in Seq(Nat) /\ DOMAIN w.busy = 1 .. Len(w.busy) /\ Len(w.busy) \in Nat
         /\ IsFiniteSet(Range(w.busy)) /\ Range(w.busy) \subseteq Nat
<1>1. w.busy \in Seq(Nat)
  BY DEF Callbacks
<1>2. DOMAIN w.busy = 1 .. Len(w.busy) /\ Len(w.busy) \in Nat
  BY <1>1, LenProperties
<1>3. w.busy \in Surjection(1 .. Len(w.busy), Range(w.busy))
  BY <1>1, <1>2, LenProperties DEF Surjection, Range
<1>4. IsFiniteSet(Range(w.busy))
  <2>1. IsFiniteSet(1 .. Len(w.busy))
    BY <1>2, FS_Interval, 1 \in Int, Len(w.busy) \in Int
  <2> QED
    BY <1>3, <2>1, FS_Surjection
<1> QED
  BY <1>1, <1>2, <1>4, RangeOfSeq

\* Taking the results keeps all pages, and frees a worker for each.
LEMMA CollectedIs ==
  ASSUME NEW w \in Callbacks, NEW X, Has(w, X), NEW kind \in {"thread", "process"},
         Manned(w, kind)
  PROVE  LET c == Collected(w)
         IN /\ c \in Callbacks /\ Has(c, X) /\ Manned(c, kind) /\ c.stranded = w.stranded
<1>1. /\ w.busy \in Seq(Nat) /\ Len(w.busy) \in Nat /\ IsFiniteSet(Range(w.busy))
      /\ Distinct(w.busy) /\ w.failed = {} /\ w.done \subseteq Range(w.busy)
      /\ w.idle \in Nat /\ Range(w.busy) \subseteq Nat
  BY BusyIs DEF Has, Callbacks
<1>2. PICK c : c = Collected(w)
  OBVIOUS
<1>3. PICK busy : busy = Without(w.busy, w.done)
  OBVIOUS
<1>4. PICK idle : idle = w.idle + Cardinality(w.done)
  OBVIOUS
<1>5. /\ busy \in Seq(Nat) /\ Range(busy) = Range(w.busy) \ w.done /\ Distinct(busy)
  BY <1>1, <1>3, WithoutKeeps
<1>6. /\ IsFiniteSet(w.done) /\ Cardinality(w.done) \in Nat
      /\ Cardinality(Range(w.busy) \ w.done) = Cardinality(Range(w.busy)) - Cardinality(w.done)
  <2>1. IsFiniteSet(w.done)
    BY <1>1, FS_Subset
  <2>2. Range(w.busy) \cap w.done = w.done
    BY <1>1
  <2>3. Cardinality(Range(w.busy) \ w.done)
          = Cardinality(Range(w.busy)) - Cardinality(Range(w.busy) \cap w.done)
    BY <1>1, FS_Difference
  <2> QED
    BY <2>1, <2>2, <2>3, FS_CardinalityType
<1>7. Len(busy) = Len(w.busy) - Cardinality(w.done)
  BY <1>1, <1>5, <1>6, DistinctLength
<1>8. c = [w EXCEPT !.busy = busy, !.idle = idle, !.available = w.available \cup w.done,
                    !.done = {}, !.failed = {}]
  <2>1. w.done \cup w.failed = w.done
    BY <1>1
  <2> QED
    BY <1>2, <1>3, <1>4, <2>1 DEF Collected
<1>9. idle \in Nat /\ w.available \cup w.done \in SUBSET Nat
  BY <1>1, <1>4, <1>6 DEF Callbacks
<1>10. /\ c \in Callbacks /\ c.busy = busy /\ c.idle = idle
       /\ c.available = w.available \cup w.done /\ c.done = {} /\ c.failed = {}
       /\ c.stranded = w.stranded
  BY <1>5, <1>8, <1>9 DEF Callbacks
<1>11. Has(c, X)
  <2>1. /\ Range(w.busy) \cup w.available = X /\ Range(w.busy) \cap w.available = {}
        /\ w.stranded \subseteq Range(w.busy) /\ w.done \cap w.stranded = {}
    BY DEF Has
  <2>2. Range(busy) \cup (w.available \cup w.done) = X
    BY <1>1, <1>5, <2>1
  <2>3. Range(busy) \cap (w.available \cup w.done) = {}
    BY <1>5, <2>1
  <2>4. w.stranded \subseteq Range(busy)
    BY <1>5, <2>1
  <2> QED
    BY <1>5, <1>10, <2>2, <2>3, <2>4 DEF Has
<1>12. Manned(c, kind)
  <2>1. w.idle + Len(w.busy) = Workers + Cardinality(w.stranded)
    BY DEF Manned
  <2>2. idle + Len(busy) = w.idle + Len(w.busy)
    BY <1>1, <1>4, <1>6, <1>7
  <2> QED
    BY <1>10, <2>1, <2>2 DEF Manned
<1> QED
  BY <1>2, <1>10, <1>11, <1>12

\* What a callback of kind that had the pages X, with state w, gives when page
\* idx is asked for: a page it had or none, and its state w2
Gives(w, kind, idx, X, i, w2) ==
  /\ w2 \in Callbacks /\ Manned(w2, kind) /\ w2.stranded = w.stranded
  /\ \/ i = NULL /\ Has(w2, X)
     \/ i \in X /\ Has(w2, X \ {i})
  /\ kind \in {"thread", "process"} => w2.idle > 0 /\ (i = NULL \/ idx = -1 \/ i = idx)
  /\ kind = "queue" => IF i = NULL THEN w2.busy = w.busy
                       ELSE /\ w.busy # <<>> /\ i = w.busy[1]
                            /\ w2.busy = Without(w.busy, {w.busy[1]})

\* When nobody works all workers are idle.
LEMMA NobodyBusy ==
  ASSUME NEW w \in Callbacks, NEW X, Has(w, X), NEW kind \in {"thread", "process"},
         Manned(w, kind), w.busy = <<>>
  PROVE  w.idle > 0
<1>1. Range(w.busy) = {} /\ Len(w.busy) = 0
  <2>1. DOMAIN w.busy = 1 .. Len(w.busy) /\ Len(w.busy) = 0
    BY BusyIs, EmptySeq
  <2> QED
    BY <2>1 DEF Range
<1>2. w.stranded = {}
  BY <1>1 DEF Has
<1>3. w.idle + Len(w.busy) = Workers + Cardinality(w.stranded) /\ w.idle \in Nat
  BY DEF Manned, Callbacks
<1>4. Workers \in Nat \ {0}
  BY AsyncAssumption
<1> QED
  BY <1>1, <1>2, <1>3, <1>4, FS_EmptySet

LEMMA WorkerGives ==
  ASSUME NEW s \in States, NEW X, Has(s.worker, X), s.kind \in {"thread", "process"},
         Manned(s.worker, s.kind), NEW idx, NEW all, NEW r \in WorkerWait(s, idx, all)
  PROVE  \E i, w2 : r = <<i, w2>> /\ Gives(s.worker, s.kind, idx, X, i, w2)
<1>1. PICK w : w = Collected(s.worker)
  OBVIOUS
<1>2. s.worker \in Callbacks
  BY DEF States
<1>3. w \in Callbacks /\ Has(w, X) /\ Manned(w, s.kind) /\ w.stranded = s.worker.stranded
  BY <1>1, <1>2, CollectedIs
<1>4. ~FailureSeen(s.worker)
  BY DEF FailureSeen, Has
<1> DEFINE asked == IF idx = -1 THEN w.available ELSE w.available \cap {idx}
           Answers(i) == {<<i, [w EXCEPT !.available = @ \ {i}]>>}
           waits == IF s.kind = "thread" THEN ThreadWaitEnds(w, idx) ELSE ProcessWaitEnds(w, all)
<1>5. r \in IF ~waits THEN {}
            ELSE IF asked = {} THEN {<<NULL, w>>} ELSE UNION {Answers(i) : i \in asked}
  BY <1>1, <1>4 DEF WorkerWait
<1>6. waits /\ (r = <<NULL, w>> \/ \E i \in asked : r \in Answers(i))
  <2> HIDE DEF waits, asked, Answers
  <2> QED
    BY <1>5
<1>7. w.busy = <<>> \/ w.idle > 0
  BY <1>6 DEF ThreadWaitEnds, ProcessWaitEnds
<1>8. w.idle > 0
  BY <1>3, <1>7, NobodyBusy
<1>9. CASE r = <<NULL, w>>
  BY <1>3, <1>8, <1>9 DEF Gives
<1>10. ASSUME NEW i \in asked, r \in Answers(i)
       PROVE  \E j, w2 : r = <<j, w2>> /\ Gives(s.worker, s.kind, idx, X, j, w2)
  <2>1. PICK w2 : w2 = [w EXCEPT !.available = @ \ {i}]
    OBVIOUS
  <2>2. r = <<i, w2>>
    BY <1>10, <2>1
  <2>3. i \in w.available /\ (idx = -1 \/ i = idx)
    OBVIOUS
  <2>4. /\ w2 \in Callbacks /\ w2.busy = w.busy /\ w2.idle = w.idle
        /\ w2.available = w.available \ {i} /\ w2.done = w.done /\ w2.failed = w.failed
        /\ w2.stranded = w.stranded
    BY <1>3, <2>1 DEF Callbacks
  <2>5. Has(w2, X \ {i}) /\ i \in X
    <3>1. /\ Distinct(w.busy) /\ Range(w.busy) \cup w.available = X
          /\ Range(w.busy) \cap w.available = {}
          /\ w.done \cup w.stranded \subseteq Range(w.busy)
          /\ w.done \cap w.stranded = {} /\ w.failed = {}
      BY <1>3 DEF Has
    <3>2. /\ Range(w.busy) \cup (w.available \ {i}) = X \ {i}
          /\ Range(w.busy) \cap (w.available \ {i}) = {} /\ i \in X
      BY <2>3, <3>1
    <3> QED
      BY <2>4, <3>1, <3>2 DEF Has
  <2>6. Manned(w2, s.kind)
    BY <1>3, <2>4 DEF Manned
  <2>7. Gives(s.worker, s.kind, idx, X, i, w2)
    BY <1>3, <1>8, <2>3, <2>4, <2>5, <2>6 DEF Gives
  <2> QED
    BY <2>2, <2>7
<1> QED
  BY <1>6, <1>9, <1>10

LEMMA TestGives ==
  ASSUME NEW s \in States, NEW X, Has(s.worker, X), s.kind \in {"queue", "random"},
         Manned(s.worker, s.kind), NEW idx, NEW all, NEW r \in TestWait(s, all)
  PROVE  \E i, w2 : r = <<i, w2>> /\ Gives(s.worker, s.kind, idx, X, i, w2)
<1>1. PICK w : w = s.worker
  OBVIOUS
<1>2. w \in Callbacks /\ w.available = {} /\ w.done = {} /\ w.stranded = {}
  BY <1>1 DEF States, Manned
<1>3. /\ Distinct(w.busy) /\ Range(w.busy) = X /\ w.failed = {}
      /\ w.busy \in Seq(Nat) /\ DOMAIN w.busy = 1 .. Len(w.busy)
  BY <1>1, <1>2, BusyIs DEF Has
<1>4. \/ r = <<NULL, w>>
      \/ \E k \in DOMAIN w.busy :
           /\ s.kind = "queue" => k = 1
           /\ r = <<w.busy[k], [w EXCEPT !.busy = Without(@, {@[k]})]>>
  <2> DEFINE given == IF ~all /\ Len(w.busy) < Held THEN {}
                      ELSE IF s.kind = "random" THEN DOMAIN w.busy ELSE DOMAIN w.busy \cap {1}
             Answer(k) == <<w.busy[k], [w EXCEPT !.busy = Without(@, {@[k]})]>>
  <2>1. r \in IF given = {} THEN {<<NULL, w>>} ELSE {Answer(k) : k \in given}
    BY <1>1 DEF TestWait
  <2>2. \A k \in given : k \in DOMAIN w.busy /\ (s.kind = "queue" => k = 1)
    OBVIOUS
  <2>3. r = <<NULL, w>> \/ \E k \in given : r = Answer(k)
    <3> HIDE DEF given, Answer
    <3> QED
      BY <2>1
  <2> QED
    BY <2>2, <2>3
<1>5. CASE r = <<NULL, w>>
  BY <1>1, <1>2, <1>5 DEF Gives
<1>6. ASSUME NEW k \in DOMAIN w.busy, s.kind = "queue" => k = 1,
             r = <<w.busy[k], [w EXCEPT !.busy = Without(@, {@[k]})]>>
      PROVE  \E i, w2 : r = <<i, w2>> /\ Gives(s.worker, s.kind, idx, X, i, w2)
  <2>1. PICK i : i = w.busy[k]
    OBVIOUS
  <2>2. PICK busy : busy = Without(w.busy, {i})
    OBVIOUS
  <2>3. PICK w2 : w2 = [w EXCEPT !.busy = busy]
    OBVIOUS
  <2>4. r = <<i, w2>>
    BY <1>6, <2>1, <2>2, <2>3
  <2>5. busy \in Seq(Nat) /\ Distinct(busy) /\ Range(busy) = X \ {i}
    BY <1>3, <2>2, WithoutKeeps
  <2>6. i \in X
    BY <1>3, <2>1 DEF Range
  <2>7. /\ w2 \in Callbacks /\ w2.busy = busy /\ w2.available = {} /\ w2.done = {}
        /\ w2.stranded = {} /\ w2.failed = {}
    BY <1>2, <1>3, <2>3, <2>5 DEF Callbacks
  <2>8. Has(w2, X \ {i}) /\ Manned(w2, s.kind)
    BY <2>5, <2>7 DEF Has, Manned
  <2>9. s.kind = "queue" => w.busy # <<>> /\ i = w.busy[1] /\ busy = Without(w.busy, {w.busy[1]})
    BY <1>3, <1>6, <2>1, <2>2
  <2>10. i # NULL
    BY <1>3, <2>6, RangeOfSeq, AsyncAssumption
  <2>11. Gives(s.worker, s.kind, idx, X, i, w2)
    BY <1>1, <1>2, <2>6, <2>7, <2>8, <2>9, <2>10 DEF Gives
  <2> QED
    BY <2>4, <2>11
<1> QED
  BY <1>4, <1>5, <1>6

\* Whatever callback is waited for, it gives a page it had or none.
LEMMA WaitGives ==
  ASSUME NEW s \in States, NEW X, Has(s.worker, X), Manned(s.worker, s.kind),
         NEW idx, NEW all, NEW r \in Wait(s, idx, all)
  PROVE  \E i, w2 : r = <<i, w2>> /\ Gives(s.worker, s.kind, idx, X, i, w2)
<1>1. s.kind \in {"thread", "process", "queue", "random"}
  BY AsyncAssumption DEF States
<1>2. CASE s.kind \in {"thread", "process"}
  BY <1>2, WorkerGives DEF Wait
<1>3. CASE s.kind \in {"queue", "random"}
  BY <1>3, TestGives DEF Wait
<1> QED
  BY <1>1, <1>2, <1>3

-----------------------------------------------------------------------------
(* The steps of the calls.                                                 *)

\* All but the places of pages and the cache
SameQueues(s, t) ==
  /\ t.isUptodate = s.isUptodate /\ t.isCustom = s.isCustom /\ t.mode = s.mode /\ t.kind = s.kind
  /\ t.asyncPage = s.asyncPage /\ t.asyncDecompressIdx = s.asyncDecompressIdx
  /\ t.worker = s.worker

\* What no waiting and reading changes
SameArchive(s, t) ==
  /\ SameContents(s, t)
  /\ t.isUptodate = s.isUptodate /\ t.isCustom = s.isCustom /\ t.mode = s.mode /\ t.kind = s.kind

LEMMA SamePlacesKeep ==
  ASSUME NEW s, NEW t, NEW n, SamePlaces(s, t), InPlace(s, n)
  PROVE  InPlace(t, n) /\ SameContents(s, t)
BY DEF SamePlaces, InPlace, SameContents

\* A page that is put in the cache has its content there, and the cache is no larger.
LEMMA CacheSetIs ==
  ASSUME NEW s \in States, Cached(s), NEW i \in DOMAIN s.index,
         NEW t \in PageCacheSet(s, i, s.index[i].content)
  PROVE  t \in States /\ Cached(t) /\ SamePlaces(s, t) /\ SameQueues(s, t)
<1>1. PICK c : c = s.index[i].content
  OBVIOUS
<1>2. CASE t = s
  BY <1>2 DEF SamePlaces, SameQueues
<1>3. CASE t # s
  <2>1. /\ CacheSize # 0
        /\ \E keep \in SUBSET DOMAIN s.cache :
             /\ Cardinality(keep) = Min({Cardinality(DOMAIN s.cache), CacheSize - 1})
             /\ t = [s EXCEPT !.cache = [j \in keep \cup {i} |-> IF j = i THEN c ELSE @[j]]]
    BY ZenonT(30), <1>1, <1>3 DEF PageCacheSet
  <2>2. PICK keep \in SUBSET DOMAIN s.cache :
          /\ Cardinality(keep) = Min({Cardinality(DOMAIN s.cache), CacheSize - 1})
          /\ t = [s EXCEPT !.cache = [j \in keep \cup {i} |-> IF j = i THEN c ELSE @[j]]]
    BY <2>1
  <2>3. PICK cache : cache = [j \in keep \cup {i} |-> IF j = i THEN c ELSE s.cache[j]]
    OBVIOUS
  <2>4. t = [s EXCEPT !.cache = cache]
    BY <2>2, <2>3
  <2>5. /\ DOMAIN s.index = 1 .. Len(s.index) /\ Len(s.index) \in Nat /\ c \in Contents
        /\ DOMAIN s.cache \subseteq DOMAIN s.index /\ i \in Nat
    BY <1>1, IndexIs DEF Cached
  <2>6. IsFiniteSet(DOMAIN s.cache)
    <3>1. IsFiniteSet(1 .. Len(s.index))
      BY <2>5, FS_Interval, 1 \in Int, Len(s.index) \in Int
    <3> QED
      BY <2>5, <3>1, FS_Subset
  <2>7. IsFiniteSet(keep) /\ Cardinality(keep) \in Nat /\ Cardinality(DOMAIN s.cache) \in Nat
    BY <2>6, FS_Subset, FS_CardinalityType
  <2>8. CacheSize \in Nat /\ CacheSize - 1 \in Nat
    BY <2>1, AsyncAssumption
  <2>9. Cardinality(keep) <= CacheSize - 1
    <3> DEFINE T == {Cardinality(DOMAIN s.cache), CacheSize - 1}
    <3>1. T \subseteq Nat /\ T # {} /\ CacheSize - 1 \in T
      BY <2>7, <2>8
    <3> HIDE DEF T
    <3>2. Min(T) <= CacheSize - 1
      BY <3>1, LeastIsMin
    <3> QED
      BY <2>2, <3>2 DEF T
  <2>10. Cardinality(keep \cup {i}) <= CacheSize
    <3>1. Cardinality(keep \cup {i}) = IF i \in keep THEN Cardinality(keep) ELSE Cardinality(keep) + 1
      BY <2>7, FS_AddElement
    <3> QED
      BY <2>7, <2>8, <2>9, <3>1
  <2>11. /\ DOMAIN cache = keep \cup {i} /\ cache[i] = c
         /\ \A j \in keep : j # i => cache[j] = s.cache[j]
    BY <2>3
  <2>12. /\ keep \cup {i} \subseteq DOMAIN s.index
         /\ \A j \in keep \cup {i} : cache[j] = s.index[j].content
    BY <1>1, <2>5, <2>11 DEF Cached
  <2>13. cache \in Maps(Contents)
    <3>1. \A j \in keep \cup {i} : cache[j] \in Contents
      BY <2>12, IndexIs
    <3>2. keep \cup {i} \subseteq Nat
      BY <2>5
    <3>3. cache = [j \in keep \cup {i} |-> cache[j]]
      BY <2>3
    <3>4. cache \in [keep \cup {i} -> Contents]
      BY <3>1, <3>3
    <3> QED
      BY <3>2, <3>4 DEF Maps
  <2>14. t \in States /\ t.cache = cache /\ SamePlaces(s, t) /\ SameQueues(s, t)
    BY <2>4, <2>13 DEF States, SamePlaces, SameQueues
  <2>15. Cached(t)
    BY <2>10, <2>11, <2>12, <2>14 DEF Cached, SamePlaces
  <2> QED
    BY <2>14, <2>15
<1> QED
  BY <1>2, <1>3

\* A page that is sent off is with the callback.
LEMMA ProcessIs ==
  ASSUME NEW s \in States, NEW X, Has(s.worker, X), Manned(s.worker, s.kind),
         NEW i \in Nat, i \notin X
  PROVE  LET t == Process(s, i)
         IN /\ t \in States /\ SamePlaces(s, t) /\ t.cache = s.cache
            /\ t.isUptodate = s.isUptodate /\ t.isCustom = s.isCustom
            /\ t.mode = s.mode /\ t.kind = s.kind
            /\ t.asyncPage = s.asyncPage /\ t.asyncDecompressIdx = s.asyncDecompressIdx
            /\ Has(t.worker, X \cup {i}) /\ Manned(t.worker, t.kind)
            /\ t.worker.busy = Append(s.worker.busy, i)
            /\ s.worker.idle > 0 \/ s.kind \notin {"thread", "process"} =>
                 t.worker.stranded = s.worker.stranded
<1> DEFINE works == s.kind \in {"thread", "process"}
<1>1. PICK w : w = s.worker
  OBVIOUS
<1>2. /\ w \in Callbacks /\ Has(w, X) /\ Manned(w, s.kind)
      /\ w.busy \in Seq(Nat) /\ Len(w.busy) \in Nat /\ IsFiniteSet(Range(w.busy))
      /\ w.idle \in Nat /\ w.stranded \in SUBSET Nat
  BY <1>1, BusyIs DEF States, Callbacks
<1>3. PICK busy : busy = Append(w.busy, i)
  OBVIOUS
<1>4. PICK idle : idle = IF works /\ w.idle > 0 THEN w.idle - 1 ELSE w.idle
  OBVIOUS
<1>5. PICK stranded : stranded = IF works /\ w.idle = 0 THEN w.stranded \cup {i} ELSE w.stranded
  OBVIOUS
<1>6. PICK w2 : w2 = [w EXCEPT !.busy = busy, !.idle = idle, !.stranded = stranded]
  OBVIOUS
<1>7. PICK t : t = Process(s, i)
  OBVIOUS
<1>8. t = [s EXCEPT !.worker = w2]
  <2>1. t = [s EXCEPT !.worker.busy = Append(@, i),
                      !.worker.idle = IF works /\ @ > 0 THEN @ - 1 ELSE @,
                      !.worker.stranded = IF works /\ s.worker.idle = 0 THEN @ \cup {i} ELSE @]
    BY <1>7 DEF Process
  <2> HIDE DEF works
  <2> QED
    BY <1>1, <1>2, <1>3, <1>4, <1>5, <1>6, <2>1 DEF States, Callbacks
<1>9. /\ Distinct(w.busy) /\ Range(w.busy) \cup w.available = X
      /\ Range(w.busy) \cap w.available = {}
      /\ w.done \cup w.stranded \subseteq Range(w.busy)
      /\ w.done \cap w.stranded = {} /\ w.failed = {}
  BY <1>2 DEF Has
<1>10. i \notin Range(w.busy) /\ i \notin w.available /\ i \notin w.stranded /\ i \notin w.done
  BY <1>9
<1>11. /\ busy \in Seq(Nat) /\ Len(busy) = Len(w.busy) + 1 /\ Distinct(busy)
       /\ Range(busy) = Range(w.busy) \cup {i}
  BY <1>2, <1>3, <1>9, <1>10, AppendDistinct
<1>12. idle \in Nat /\ stranded \in SUBSET Nat
  BY <1>2, <1>4, <1>5
<1>13. /\ w2 \in Callbacks /\ w2.busy = busy /\ w2.idle = idle /\ w2.stranded = stranded
       /\ w2.available = w.available /\ w2.done = w.done /\ w2.failed = w.failed
  BY <1>2, <1>6, <1>11, <1>12 DEF Callbacks
<1>14. Has(w2, X \cup {i})
  <2>1. stranded \subseteq w.stranded \cup {i}
    BY <1>5
  <2>2. w.done \cup stranded \subseteq Range(busy) /\ w.done \cap stranded = {}
    BY <1>9, <1>10, <1>11, <2>1
  <2>3. Range(busy) \cup w.available = X \cup {i} /\ Range(busy) \cap w.available = {}
    BY <1>9, <1>10, <1>11
  <2> QED
    BY <1>9, <1>11, <1>13, <2>2, <2>3 DEF Has
<1>15. Manned(w2, s.kind)
  <2>1. CASE works /\ w.idle > 0
    <3>1. w.idle + Len(w.busy) = Workers + Cardinality(w.stranded)
      BY <1>2, <2>1 DEF Manned
    <3>2. stranded = w.stranded /\ idle = w.idle - 1
      BY <1>2, <1>4, <1>5, <2>1
    <3>3. idle + Len(busy) = w.idle + Len(w.busy)
      <4> DEFINE a == w.idle
                 b == Len(w.busy)
                 c == Len(busy)
      <4>1. a \in Nat /\ b \in Nat /\ c = b + 1 /\ idle = a - 1
        BY <1>2, <1>11, <3>2
      <4> HIDE DEF a, b, c
      <4>2. idle + c = a + b
        BY <4>1
      <4> QED
        BY <4>2 DEF a, b, c
    <3> QED
      BY <1>13, <2>1, <3>1, <3>2, <3>3 DEF Manned
  <2>2. CASE works /\ ~(w.idle > 0)
    <3>1. w.idle + Len(w.busy) = Workers + Cardinality(w.stranded)
      BY <1>2, <2>2 DEF Manned
    <3>2. stranded = w.stranded \cup {i} /\ idle = w.idle
      BY <1>2, <1>4, <1>5, <2>2
    <3>3. IsFiniteSet(w.stranded) /\ Cardinality(w.stranded) \in Nat
      BY <1>2, <1>9, FS_Subset, FS_CardinalityType
    <3>4. Cardinality(stranded) = Cardinality(w.stranded) + 1
      BY <1>10, <3>2, <3>3, FS_AddElement
    <3>5. idle + Len(busy) = Workers + Cardinality(stranded)
      <4> DEFINE a == w.idle
                 b == Len(w.busy)
                 c == Len(busy)
                 d == Cardinality(w.stranded)
                 e == Cardinality(stranded)
      <4>1. /\ a \in Nat /\ b \in Nat /\ c = b + 1 /\ idle = a /\ d \in Nat /\ e = d + 1
            /\ a + b = Workers + d /\ Workers \in Nat
        BY <1>2, <1>11, <3>1, <3>2, <3>3, <3>4, AsyncAssumption
      <4> HIDE DEF a, b, c, d, e
      <4>2. idle + c = Workers + e
        BY <4>1
      <4> QED
        BY <4>2 DEF a, b, c, d, e
    <3> QED
      BY <1>13, <2>2, <3>5 DEF Manned
  <2>3. CASE ~works
    BY <1>2, <1>5, <1>13, <2>3 DEF Manned
  <2> QED
    BY <2>1, <2>2, <2>3
<1>16. /\ t \in States /\ SamePlaces(s, t) /\ t.cache = s.cache
       /\ t.isUptodate = s.isUptodate /\ t.isCustom = s.isCustom
       /\ t.mode = s.mode /\ t.kind = s.kind
       /\ t.asyncPage = s.asyncPage /\ t.asyncDecompressIdx = s.asyncDecompressIdx
       /\ t.worker = w2
  BY <1>8, <1>13 DEF States, SamePlaces
<1>17. s.worker.idle > 0 \/ s.kind \notin {"thread", "process"} => stranded = s.worker.stranded
  BY <1>1, <1>2, <1>5
<1> QED
  BY <1>1, <1>3, <1>7, <1>13, <1>14, <1>15, <1>16, <1>17

LEMMA BehindIs ==
  ASSUME NEW n \in Nat, NEW m \in Nat, n <= m
  PROVE  /\ Behind(n, m) \in Seq(Nat) /\ Len(Behind(n, m)) = m - n
         /\ \A k \in 1 .. m - n : Behind(n, m)[k] = n + k
         /\ Range(Behind(n, m)) = n + 1 .. m
         /\ Distinct(Behind(n, m))
         /\ Behind(n, m) = <<>> <=> n = m
<1>1. m - n \in Nat
  OBVIOUS
<1>2. /\ Behind(n, m) \in [1 .. m - n -> Nat] /\ DOMAIN Behind(n, m) = 1 .. m - n
      /\ \A k \in 1 .. m - n : Behind(n, m)[k] = n + k
  BY <1>1 DEF Behind
<1>3. Behind(n, m) \in Seq(Nat) /\ Len(Behind(n, m)) = m - n
  BY <1>1, <1>2
<1>4. Range(Behind(n, m)) = n + 1 .. m
  <2>1. Range(Behind(n, m)) = {Behind(n, m)[k] : k \in 1 .. m - n}
    BY <1>2 DEF Range
  <2>2. ASSUME NEW x \in n + 1 .. m PROVE x \in Range(Behind(n, m))
    <3>1. x - n \in 1 .. m - n /\ n + (x - n) = x
      OBVIOUS
    <3>2. Behind(n, m)[x - n] = n + (x - n)
      BY <1>2, <3>1
    <3> QED
      BY <2>1, <3>1, <3>2
  <2>3. ASSUME NEW k \in 1 .. m - n PROVE Behind(n, m)[k] \in n + 1 .. m
    <3>1. Behind(n, m)[k] = n + k
      BY <1>2
    <3> QED
      BY <3>1
  <2> QED
    BY <2>1, <2>2, <2>3
<1>5. Distinct(Behind(n, m))
  <2> SUFFICES ASSUME NEW j \in 1 .. m - n, NEW k \in 1 .. m - n,
                      Behind(n, m)[j] = Behind(n, m)[k]
               PROVE  j = k
    BY <1>2 DEF Distinct
  <2>1. n + j = n + k
    BY <1>2
  <2> QED
    BY <2>1
<1>6. Behind(n, m) = <<>> <=> n = m
  <2>1. Behind(n, m) = <<>> => n = m
    BY <1>1, <1>3, EmptySeq
  <2>2. n = m => Behind(n, m) = <<>>
    BY <1>1, <1>3, EmptySeq
  <2> QED
    BY <2>1, <2>2
<1> QED
  BY <1>2, <1>3, <1>4, <1>5, <1>6

\* Without its first the queue of pages to write has those after the next.
LEMMA BehindNext ==
  ASSUME NEW n \in Nat, NEW m \in Nat, n < m
  PROVE  /\ Behind(n, m)[1] = n + 1 /\ Behind(n, m) # <<>>
         /\ Tail(Behind(n, m)) = Behind(n + 1, m)
         /\ Without(Behind(n, m), {Behind(n, m)[1]}) = Behind(n + 1, m)
<1> DEFINE q == Behind(n, m)
           rest == Behind(n + 1, m)
<1>1. /\ q \in Seq(Nat) /\ Len(q) = m - n /\ \A k \in 1 .. m - n : q[k] = n + k
      /\ Distinct(q) /\ q # <<>>
  BY BehindIs
<1>2. /\ rest \in Seq(Nat) /\ Len(rest) = m - (n + 1)
      /\ \A k \in 1 .. m - (n + 1) : rest[k] = (n + 1) + k
  BY BehindIs, n + 1 \in Nat, n + 1 <= m
<1> HIDE DEF q, rest
<1>3. q[1] = n + 1
  BY <1>1
<1>4. \A k \in 1 .. m - (n + 1) : q[k + 1] = (n + 1) + k
  <2> TAKE k \in 1 .. m - (n + 1)
  <2>1. k + 1 \in 1 .. m - n
    OBVIOUS
  <2>2. q[k + 1] = n + (k + 1)
    BY <1>1, <2>1
  <2> QED
    BY <2>2
<1>5. /\ Tail(q) \in Seq(Nat) /\ Len(Tail(q)) = Len(q) - 1
      /\ \A k \in 1 .. Len(q) - 1 : Tail(q)[k] = q[k + 1]
  BY <1>1, HeadTailProperties
<1>6. Len(q) - 1 = m - (n + 1)
  BY <1>1
<1>7. Tail(q) = rest
  <2>1. Len(Tail(q)) = Len(rest)
    BY <1>2, <1>5, <1>6
  <2>2. \A k \in 1 .. Len(Tail(q)) : Tail(q)[k] = rest[k]
    BY <1>2, <1>4, <1>5, <1>6
  <2> QED
    BY <1>2, <1>5, <2>1, <2>2, SeqEqual
<1>8. PICK w : w = Without(q, {q[1]})
  OBVIOUS
<1>9. w \in Seq(Nat) /\ Len(w) = Len(q) - 1 /\ \A k \in 1 .. Len(q) - 1 : w[k] = q[k + 1]
  BY <1>1, <1>8, WithoutFirst
<1>10. w = rest
  <2>1. Len(w) = Len(rest)
    BY <1>2, <1>6, <1>9
  <2>2. \A k \in 1 .. Len(w) : w[k] = rest[k]
    BY <1>2, <1>4, <1>6, <1>9
  <2> QED
    BY <1>2, <1>9, <2>1, <2>2, SeqEqual
<1> QED
  BY <1>1, <1>3, <1>7, <1>8, <1>10 DEF q, rest

\* The pages that the queues have
Waiting(s) == Range(s.asyncPage) \cup Range(s.asyncDecompressIdx)

LEMMA SoundIs ==
  ASSUME NEW s, NEW n, NEW m, Sound(s, n, m)
  PROVE  /\ s \in States /\ n \in Nat /\ m \in Nat /\ n <= m /\ m <= Len(s.index)
         /\ Has(s.worker, Waiting(s)) /\ Manned(s.worker, s.kind) /\ s.worker \in Callbacks
         /\ s.asyncPage = Behind(n, m) /\ Range(s.asyncPage) = n + 1 .. m
         /\ s.asyncPage = <<>> <=> n = m
         /\ s.asyncDecompressIdx \in Seq(Nat) /\ Distinct(s.asyncDecompressIdx)
         /\ s.mode = "compress" => s.asyncDecompressIdx = <<>> /\ Waiting(s) = n + 1 .. m
         /\ s.mode = "decompress" => /\ n = m /\ s.asyncPage = <<>>
                                     /\ Waiting(s) = Range(s.asyncDecompressIdx)
<1>1. /\ s \in States /\ n \in Nat /\ m \in Nat /\ n <= m /\ m <= Len(s.index)
      /\ Has(s.worker, Waiting(s)) /\ Manned(s.worker, s.kind)
      /\ s.asyncPage = Behind(n, m)
  <2>1. s \in States
    BY DEF Sound
  <2> QED
    BY <2>1, IndexIs DEF Sound, InPlace, Awaits, Queued, Waiting
<1>2. Range(s.asyncPage) = n + 1 .. m /\ (s.asyncPage = <<>> <=> n = m)
  BY <1>1, BehindIs
<1>3. /\ s.asyncDecompressIdx \in Seq(Nat) /\ Distinct(s.asyncDecompressIdx)
      /\ s.worker \in Callbacks
  BY <1>1 DEF States, Sound, Queued
<1>4. Range(<<>>) = {}
  BY DEF Range
<1>5. s.mode = "compress" => s.asyncDecompressIdx = <<>>
  BY DEF Sound, Queued
<1>6. s.mode = "decompress" => n = m
  BY <1>1 DEF Sound, Awaits, IsAsync
<1> QED
  BY <1>1, <1>2, <1>3, <1>4, <1>5, <1>6 DEF Waiting

\* Another state of the callback with the same pages
LEMMA WorkerChanges ==
  ASSUME NEW s, NEW n, NEW m, Sound(s, n, m), NEW w \in Callbacks,
         Has(w, Waiting(s)), Manned(w, s.kind), w.stranded = s.worker.stranded,
         s.kind = "queue" => w.busy = s.worker.busy
  PROVE  LET t == [s EXCEPT !.worker = w]
         IN Sound(t, n, m) /\ SameArchive(s, t) /\ t.worker = w
<1>1. PICK t : t = [s EXCEPT !.worker = w]
  OBVIOUS
<1>2. s \in States
  BY DEF Sound
<1>3. /\ t \in States /\ SamePlaces(s, t) /\ t.worker = w /\ t.cache = s.cache
      /\ t.asyncPage = s.asyncPage /\ t.asyncDecompressIdx = s.asyncDecompressIdx
      /\ t.isUptodate = s.isUptodate /\ t.isCustom = s.isCustom /\ t.mode = s.mode
      /\ t.kind = s.kind
  BY <1>1, <1>2 DEF States, SamePlaces
<1>4. InPlace(t, n) /\ SameContents(s, t)
  BY <1>3, SamePlacesKeep DEF Sound
<1>5. t.index = s.index
  BY <1>3 DEF SamePlaces
<1>6. Awaits(t, n, m)
  BY <1>3, <1>5 DEF Sound, Awaits, IsAsync
<1>7. Queued(t)
  BY <1>3, <1>5 DEF Sound, Queued, Waiting
<1>8. Compressed(t) /\ Cached(t)
  BY <1>3, <1>5 DEF Sound, Compressed, Cached
<1> QED
  BY <1>1, <1>3, <1>4, <1>6, <1>7, <1>8 DEF Sound, SameArchive

LEMMA NothingWaits ==
  ASSUME NEW s, NEW n, NEW m, Sound(s, n, m), s.kind \in {"thread", "process"},
         Waiting(s) = {}
  PROVE  s.worker.idle > 0
<1>1. s.worker \in Callbacks /\ Has(s.worker, Waiting(s)) /\ Manned(s.worker, s.kind)
  BY SoundIs
<1>2. PICK w : w = s.worker
  OBVIOUS
<1>3. Range(w.busy) = {} /\ w.busy \in Seq(Nat) /\ DOMAIN w.busy = 1 .. Len(w.busy)
      /\ Len(w.busy) \in Nat
  BY <1>1, <1>2, BusyIs DEF Has
<1>4. w.busy = <<>>
  <2>1. 1 .. Len(w.busy) = {}
    BY <1>3 DEF Range
  <2>2. ASSUME Len(w.busy) # 0 PROVE FALSE
    <3>1. 1 \in 1 .. Len(w.busy)
      BY <1>3, <2>2
    <3> QED
      BY <2>1, <3>1
  <2> QED
    BY <1>3, <2>2, EmptySeq
<1> QED
  BY <1>1, <1>2, <1>4, NobodyBusy

\* The first page of the queue is written, when the callback, now w, gave it.
Takes(s, i, w) == [WritePage([s EXCEPT !.worker = w], i) EXCEPT !.asyncPage = Tail(@)]

LEMMA NextWritten ==
  ASSUME NEW s, NEW n, NEW m, Sound(s, n, m), n < m, s.mode = "compress",
         NEW w \in Callbacks, Has(w, Waiting(s) \ {n + 1}), Manned(w, s.kind),
         w.stranded = s.worker.stranded,
         s.kind = "queue" => w.busy = Without(s.worker.busy, {s.worker.busy[1]})
  PROVE  LET t == Takes(s, n + 1, w)
         IN Sound(t, n + 1, m) /\ SameArchive(s, t) /\ t.worker = w
<1>1. /\ s \in States /\ n \in Nat /\ m \in Nat /\ m <= Len(s.index) /\ Len(s.index) \in Nat
      /\ s.asyncPage = Behind(n, m) /\ s.asyncDecompressIdx = <<>> /\ Waiting(s) = n + 1 .. m
  BY SoundIs, IndexIs
<1>2. PICK v : v = [s EXCEPT !.worker = w]
  OBVIOUS
<1>3. /\ v \in States /\ SamePlaces(s, v) /\ v.worker = w /\ v.cache = s.cache
      /\ v.asyncPage = s.asyncPage /\ v.asyncDecompressIdx = s.asyncDecompressIdx
      /\ v.isUptodate = s.isUptodate /\ v.isCustom = s.isCustom /\ v.mode = s.mode
      /\ v.kind = s.kind
  BY <1>1, <1>2 DEF States, SamePlaces
<1>4. InPlace(v, n) /\ SameContents(s, v)
  BY <1>3, SamePlacesKeep DEF Sound
<1>5. n < Len(v.index)
  BY <1>1, <1>4 DEF SameContents
<1>6. PICK u : u = WritePage(v, n + 1)
  OBVIOUS
<1>7. u \in States /\ SameContents(v, u) /\ SameRest(v, u) /\ InPlace(u, n + 1)
  BY <1>3, <1>4, <1>5, <1>6, WriteIs
<1>8. PICK t : t = [u EXCEPT !.asyncPage = Tail(@)]
  OBVIOUS
<1>9. /\ Tail(u.asyncPage) = Behind(n + 1, m) /\ Behind(n + 1, m) \in Seq(Nat)
      /\ Range(Behind(n + 1, m)) = (n + 1) + 1 .. m
  <2>1. u.asyncPage = Behind(n, m)
    BY <1>1, <1>3, <1>7 DEF SameRest
  <2>2. n + 1 \in Nat /\ n + 1 <= m
    BY <1>1
  <2> QED
    <3>1. Tail(Behind(n, m)) = Behind(n + 1, m)
      BY <1>1, BehindNext
    <3>2. PICK k : k = n + 1
      OBVIOUS
    <3>3. Behind(k, m) \in Seq(Nat) /\ Range(Behind(k, m)) = k + 1 .. m
      BY <1>1, <2>2, <3>2, BehindIs
    <3> QED
      BY <2>1, <3>1, <3>2, <3>3
<1>10. /\ t \in States /\ SamePlaces(u, t) /\ t.worker = w /\ t.cache = s.cache
       /\ t.asyncPage = Behind(n + 1, m) /\ t.asyncDecompressIdx = <<>>
       /\ t.isUptodate = s.isUptodate /\ t.isCustom = s.isCustom /\ t.mode = s.mode
       /\ t.kind = s.kind
  <2>1. t = [u EXCEPT !.asyncPage = Behind(n + 1, m)]
    BY <1>8, <1>9
  <2> QED
    BY <1>1, <1>3, <1>7, <1>9, <2>1 DEF States, SamePlaces, SameRest
<1>11. InPlace(t, n + 1) /\ SameContents(s, t)
  <2>1. InPlace(t, n + 1) /\ SameContents(u, t)
    BY <1>7, <1>10, SamePlacesKeep
  <2> QED
    BY <1>4, <1>7, <2>1 DEF SameContents
<1>12. Awaits(t, n + 1, m)
  <2>1. /\ m \in 0 .. Len(t.index) /\ n + 1 <= m /\ m - (n + 1) <= MaxAsync
    BY <1>1, <1>11, AsyncAssumption DEF Sound, Awaits, SameContents
  <2>2. IsAsync(t)
    BY <1>10 DEF Sound, Awaits, IsAsync
  <2> QED
    BY <1>10, <2>1, <2>2 DEF Awaits
<1>13. Queued(t)
  <2>1. Range(<<>>) = {} /\ Distinct(<<>>) /\ Len(<<>>) = 0
    BY EmptySeq DEF Range, Distinct
  <2>2. Range(t.asyncPage) \cup Range(t.asyncDecompressIdx) = (n + 1) + 1 .. m
    BY <1>9, <1>10, <2>1
  <2>3. (n + 1) + 1 .. m \subseteq DOMAIN t.index
    <3>1. DOMAIN t.index = 1 .. Len(s.index)
      BY <1>1, <1>11, IndexIs DEF SameContents
    <3> QED
      BY <1>1, <3>1
  <2>4. Waiting(s) \ {n + 1} = (n + 1) + 1 .. m
    BY <1>1
  <2>5. s.kind = "queue" => w.busy = t.asyncPage
    <3>1. s.kind = "queue" => s.worker.busy = Behind(n, m)
      BY <1>1 DEF Sound, Queued
    <3> QED
      BY <1>1, <1>10, <3>1, BehindNext
  <2>6. w.stranded = {} /\ s.kind # "random"
    BY DEF Sound, Queued
  <2>7. QueueSize \in Nat /\ t.asyncDecompressIdx = <<>>
    BY <1>10, AsyncAssumption
  <2>8. Has(t.worker, Range(t.asyncPage) \cup Range(t.asyncDecompressIdx))
    BY <1>10, <2>2, <2>4
  <2>9. Manned(t.worker, t.kind) /\ t.worker.stranded = {}
    BY <1>10, <2>6
  <2>10. Range(t.asyncPage) \cup Range(t.asyncDecompressIdx) \subseteq DOMAIN t.index
    BY <2>2, <2>3
  <2>11. /\ Distinct(t.asyncDecompressIdx) /\ Len(t.asyncDecompressIdx) <= QueueSize
         /\ t.asyncDecompressIdx # <<>> => t.mode = "decompress"
    BY <2>1, <2>7
  <2>12. t.kind # "random" /\ (t.kind = "queue" => t.worker.busy = t.asyncPage)
    BY <1>10, <2>5, <2>6
  <2> QED
    BY <2>8, <2>9, <2>10, <2>11, <2>12 DEF Queued
<1>14. Compressed(t)
  BY <1>10 DEF Compressed
<1>15. Cached(t)
  BY <1>10, <1>11 DEF Sound, Cached, SameContents
<1>16. Sound(t, n + 1, m)
  BY <1>10, <1>11, <1>12, <1>13, <1>14, <1>15 DEF Sound
<1> QED
  BY <1>2, <1>6, <1>8, <1>10, <1>11, <1>16 DEF SameArchive, Takes

LEMMA SameIsSame ==
  ASSUME NEW s PROVE SameArchive(s, s)
BY DEF SameArchive, SameContents

\* Waiting for a page that is compressed: it is written, or nothing came, and
\* the queue holds what is not written.
LEMMA CompressWaitIs ==
  ASSUME NEW s, NEW n, NEW m, Sound(s, n, m), NEW require \in BOOLEAN,
         NEW r \in AsyncCompressWait(s, require)
  PROVE  \E t, k : \E more \in BOOLEAN :
           /\ r = <<more, t>> /\ Sound(t, k, m) /\ SameArchive(s, t) /\ n <= k
           /\ ~more /\ require => k = m
           /\ s.mode = "compress" /\ s.kind \in {"thread", "process"} => t.worker.idle > 0
<1> DEFINE works == s.kind \in {"thread", "process"}
           idx == IF s.asyncPage = <<>> THEN -1 ELSE s.asyncPage[1]
           Continued(q) ==
             LET t == [s EXCEPT !.worker = q[2]]
                 written == [WritePage(t, idx) EXCEPT !.asyncPage = Tail(@)]
             IN IF q[1] = NULL THEN <<require /\ s.asyncPage # <<>>, t>>
                ELSE IF q[1] # idx THEN <<TRUE, t>>
                ELSE <<written.asyncPage # <<>>, written>>
<1>1. /\ s \in States /\ n \in Nat /\ m \in Nat /\ n <= m
      /\ Has(s.worker, Waiting(s)) /\ Manned(s.worker, s.kind) /\ s.worker \in Callbacks
      /\ s.asyncPage = Behind(n, m)
      /\ s.asyncPage = <<>> <=> n = m
      /\ s.mode = "compress" => Waiting(s) = n + 1 .. m
  BY SoundIs
<1>2. CASE ~IsAsync(s) \/ (s.asyncPage = <<>> /\ ~require)
  <2>1. r = <<FALSE, s>>
    BY <1>2 DEF AsyncCompressWait
  <2>2. s.asyncPage = <<>> /\ n = m
    BY <1>1, <1>2 DEF Sound, Awaits
  <2>3. s.mode = "compress" /\ works => s.worker.idle > 0
    <3> SUFFICES ASSUME s.mode = "compress", works PROVE s.worker.idle > 0
      OBVIOUS
    <3>1. Waiting(s) = {}
      BY <1>1, <2>2
    <3> QED
      BY <3>1, NothingWaits
  <2>4. n <= n
    BY <1>1
  <2> HIDE DEF works
  <2> QED
    BY <2>1, <2>2, <2>3, <2>4, SameIsSame DEF works
<1>3. CASE ~(~IsAsync(s) \/ (s.asyncPage = <<>> /\ ~require))
  <2>1. r \in {Continued(q) : q \in Wait(s, idx, require)}
    BY <1>3 DEF AsyncCompressWait
  <2>2. PICK q \in Wait(s, idx, require) : r = Continued(q)
    <3> HIDE DEF Continued, idx
    <3> QED
      BY <2>1
  <2>3. PICK i, w : q = <<i, w>> /\ Gives(s.worker, s.kind, idx, Waiting(s), i, w)
    <3> HIDE DEF Continued, idx
    <3> QED
      BY <1>1, WaitGives
  <2>4. /\ w \in Callbacks /\ Manned(w, s.kind) /\ w.stranded = s.worker.stranded
        /\ works => w.idle > 0
    BY <2>3 DEF Gives
  <2>5. PICK v : v = [s EXCEPT !.worker = w]
    OBVIOUS
  <2>6. s.mode = "compress"
    BY <1>3 DEF IsAsync
  <2>7. Waiting(s) \subseteq Nat
    BY <1>1, <2>6
  <2>8. CASE i = NULL
    <3>1. r = <<require /\ s.asyncPage # <<>>, v>>
      BY <2>2, <2>3, <2>5, <2>8
    <3>2. Has(w, Waiting(s)) /\ (s.kind = "queue" => w.busy = s.worker.busy)
      BY <2>3, <2>7, <2>8, AsyncAssumption DEF Gives
    <3>3. Sound(v, n, m) /\ SameArchive(s, v) /\ v.worker = w
      BY <2>4, <2>5, <3>2, WorkerChanges
    <3>4. ~(require /\ s.asyncPage # <<>>) /\ require => n = m
      BY <1>1
    <3>5. n <= n
      BY <1>1
    <3> QED
      BY <2>4, <3>1, <3>3, <3>4, <3>5
  <2>9. CASE i # NULL
    <3>1. /\ i \in Waiting(s) /\ Has(w, Waiting(s) \ {i})
          /\ works => idx = -1 \/ i = idx
          /\ s.kind = "queue" => /\ i = s.worker.busy[1]
                                 /\ w.busy = Without(s.worker.busy, {s.worker.busy[1]})
      BY <2>3, <2>9 DEF Gives
    <3>2. n < m
      BY <1>1, <2>6, <3>1
    <3>3. s.asyncPage # <<>> /\ s.asyncPage[1] = n + 1 /\ idx = n + 1 /\ idx # -1
      <4>1. s.asyncPage # <<>> /\ s.asyncPage[1] = n + 1
        <5> HIDE DEF idx
        <5> QED
          BY <1>1, <3>2, BehindNext
      <4> QED
        BY <1>1, <4>1
    <3>4. i = n + 1
      <4>1. s.kind \in {"thread", "process", "queue"}
        BY <1>1, <2>6, AsyncAssumption DEF States, Sound, Queued
      <4>2. s.kind = "queue" => s.worker.busy = s.asyncPage
        BY <2>6 DEF Sound, Queued
      <4> QED
        BY <3>1, <3>3, <4>1, <4>2
    <3>5. PICK t : t = Takes(s, n + 1, w)
      OBVIOUS
    <3>6. r = <<t.asyncPage # <<>>, t>>
      <4> HIDE DEF idx
      <4> QED
        BY <2>2, <2>3, <2>9, <3>3, <3>4, <3>5 DEF Takes
    <3>7. Sound(t, n + 1, m) /\ SameArchive(s, t) /\ t.worker = w
      <4>1. Has(w, Waiting(s) \ {n + 1})
        BY <3>1, <3>4
      <4>2. s.kind = "queue" => w.busy = Without(s.worker.busy, {s.worker.busy[1]})
        BY <3>1
      <4> HIDE DEF idx, Continued, works
      <4> QED
        BY <2>4, <2>6, <3>2, <3>5, <4>1, <4>2, NextWritten
    <3>8. ~(t.asyncPage # <<>>) => n + 1 = m
      BY <3>7, SoundIs
    <3>9. n <= n + 1
      BY <1>1
    <3>10. PICK k : k = n + 1
      OBVIOUS
    <3>11. PICK more \in BOOLEAN : more = (t.asyncPage # <<>>)
      OBVIOUS
    <3>12. r = <<more, t>> /\ Sound(t, k, m) /\ SameArchive(s, t) /\ n <= k
      BY <3>6, <3>7, <3>9, <3>10, <3>11
    <3> QED
      BY <2>4, <3>7, <3>8, <3>10, <3>11, <3>12
  <2> QED
    BY <2>8, <2>9
<1> QED
  BY <1>2, <1>3

\* Waiting for a page that is decompressed: it is put in the cache, or nothing came.
LEMMA DecompressWaitIs ==
  ASSUME NEW s, NEW n, NEW m, Sound(s, n, m), NEW idx,
         NEW r \in AsyncDecompressWait(s, idx)
  PROVE  \E t : \E more \in BOOLEAN :
           r = <<more, t>> /\ Sound(t, n, m) /\ SameArchive(s, t) /\ t.asyncPage = s.asyncPage
<1> DEFINE Continued(q) ==
             LET t == [s EXCEPT !.worker = q[2]]
             IN IF q[1] = NULL THEN {<<t.asyncDecompressIdx # <<>>, t>>}
                ELSE {<<u.asyncDecompressIdx # <<>>, u>> :
                        u \in PageCacheSet([t EXCEPT !.asyncDecompressIdx = Without(@, {q[1]})],
                                           q[1], s.index[q[1]].content)}
<1>1. /\ s \in States /\ n \in Nat /\ m \in Nat /\ n <= m
      /\ Has(s.worker, Waiting(s)) /\ Manned(s.worker, s.kind) /\ s.worker \in Callbacks
      /\ s.asyncDecompressIdx \in Seq(Nat) /\ Distinct(s.asyncDecompressIdx)
      /\ s.mode = "decompress" => /\ n = m /\ s.asyncPage = <<>>
                                  /\ Waiting(s) = Range(s.asyncDecompressIdx)
  BY SoundIs
<1>2. CASE s.mode # "decompress"
  BY <1>2, SameIsSame DEF AsyncDecompressWait
<1>3. CASE s.mode = "decompress"
  <2>1. r \in UNION {Continued(q) : q \in Wait(s, idx, TRUE)}
    BY <1>3 DEF AsyncDecompressWait
  <2>2. PICK q \in Wait(s, idx, TRUE) : r \in Continued(q)
    <3> HIDE DEF Continued
    <3> QED
      BY <2>1
  <2>3. PICK i, w : q = <<i, w>> /\ Gives(s.worker, s.kind, idx, Waiting(s), i, w)
    <3> HIDE DEF Continued
    <3> QED
      BY <1>1, WaitGives
  <2>4. w \in Callbacks /\ Manned(w, s.kind) /\ w.stranded = s.worker.stranded
    BY <2>3 DEF Gives
  <2>5. PICK v : v = [s EXCEPT !.worker = w]
    OBVIOUS
  <2>6. Waiting(s) \subseteq Nat
    BY <1>1, <1>3, RangeOfSeq
  <2>7. CASE i = NULL
    <3>1. r = <<v.asyncDecompressIdx # <<>>, v>>
      BY <2>2, <2>3, <2>5, <2>7
    <3>2. Has(w, Waiting(s)) /\ (s.kind = "queue" => w.busy = s.worker.busy)
      BY <2>3, <2>6, <2>7, AsyncAssumption DEF Gives
    <3>3. Sound(v, n, m) /\ SameArchive(s, v)
      BY <2>4, <2>5, <3>2, WorkerChanges
    <3>4. v.asyncPage = s.asyncPage
      BY <1>1, <2>5 DEF States
    <3> QED
      BY <3>1, <3>3, <3>4
  <2>8. CASE i # NULL
    <3>1. i \in Range(s.asyncDecompressIdx) /\ Has(w, Range(s.asyncDecompressIdx) \ {i})
      BY <1>1, <1>3, <2>3, <2>8 DEF Gives
    <3>2. PICK queue : queue = Without(s.asyncDecompressIdx, {i})
      OBVIOUS
    <3>3. /\ queue \in Seq(Nat) /\ Len(queue) <= Len(s.asyncDecompressIdx)
          /\ Range(queue) = Range(s.asyncDecompressIdx) \ {i} /\ Distinct(queue)
      BY <1>1, <3>2, WithoutKeeps
    <3>4. PICK x : x = [v EXCEPT !.asyncDecompressIdx = queue]
      OBVIOUS
    <3>5. PICK t : /\ r = <<t.asyncDecompressIdx # <<>>, t>>
                   /\ t \in PageCacheSet(x, i, s.index[i].content)
      BY <2>2, <2>3, <2>5, <2>8, <3>2, <3>4, <1>1 DEF States
    <3>6. /\ x \in States /\ SamePlaces(s, x) /\ x.worker = w /\ x.cache = s.cache
          /\ x.asyncPage = s.asyncPage /\ x.asyncDecompressIdx = queue
          /\ x.isUptodate = s.isUptodate /\ x.isCustom = s.isCustom /\ x.mode = s.mode
          /\ x.kind = s.kind /\ x.index = s.index
      BY <1>1, <2>4, <2>5, <3>3, <3>4 DEF States, SamePlaces
    <3>7. InPlace(x, n) /\ SameContents(s, x)
      BY <3>6, SamePlacesKeep DEF Sound
    <3>8. Cached(x)
      BY <3>6 DEF Sound, Cached
    <3>9. i \in DOMAIN x.index
      BY <3>1, <3>6 DEF Sound, Queued
    <3>10. t \in States /\ Cached(t) /\ SamePlaces(x, t) /\ SameQueues(x, t)
      BY <3>5, <3>6, <3>8, <3>9, CacheSetIs
    <3>11. InPlace(t, n) /\ SameContents(x, t)
      BY <3>7, <3>10, SamePlacesKeep
    <3>12. /\ t.index = s.index /\ t.worker = w /\ t.asyncPage = s.asyncPage
           /\ t.asyncDecompressIdx = queue
           /\ t.isUptodate = s.isUptodate /\ t.isCustom = s.isCustom /\ t.mode = s.mode
           /\ t.kind = s.kind
      BY <3>6, <3>10 DEF SamePlaces, SameQueues
    <3>13. Awaits(t, n, m)
      BY <3>12 DEF Sound, Awaits, IsAsync
    <3>14. Queued(t)
      <4>1. Range(s.asyncPage) = {}
        BY <1>1, <1>3 DEF Range
      <4>2. Range(t.asyncPage) \cup Range(t.asyncDecompressIdx)
              = Range(s.asyncDecompressIdx) \ {i}
        BY <3>3, <3>12, <4>1
      <4>3. Has(t.worker, Range(t.asyncPage) \cup Range(t.asyncDecompressIdx))
        BY <3>1, <3>12, <4>2
      <4>4. Manned(t.worker, t.kind) /\ t.worker.stranded = s.worker.stranded
        BY <2>4, <3>12
      <4>5. Range(t.asyncPage) \cup Range(t.asyncDecompressIdx) \subseteq DOMAIN t.index
        BY <3>12, <4>2 DEF Sound, Queued
      <4>6. Len(t.asyncDecompressIdx) <= QueueSize /\ Distinct(t.asyncDecompressIdx)
        <5>1. Len(s.asyncDecompressIdx) <= QueueSize
          BY DEF Sound, Queued
        <5>2. Len(queue) \in Nat /\ Len(s.asyncDecompressIdx) \in Nat /\ QueueSize \in Nat
          BY <1>1, <3>3, LenProperties, AsyncAssumption
        <5> QED
          BY <3>3, <3>12, <5>1, <5>2
      <4> QED
        BY <1>3, <3>12, <4>3, <4>4, <4>5, <4>6 DEF Sound, Queued
    <3>15. Compressed(t)
      BY <3>12 DEF Sound, Compressed
    <3>16. Sound(t, n, m)
      BY <3>10, <3>11, <3>13, <3>14, <3>15 DEF Sound
    <3>17. SameArchive(s, t)
      BY <3>12 DEF SameArchive, SameContents
    <3> QED
      BY <3>5, <3>12, <3>16, <3>17
  <2> QED
    BY <2>7, <2>8
<1> QED
  BY <1>2, <1>3


\* When the queue has room the callback has an idle worker.
LEMMA RoomIsIdle ==
  ASSUME NEW s, NEW n, NEW m, Sound(s, n, m), s.mode = "decompress",
         Len(s.asyncDecompressIdx) < QueueSize, QueueSize <= Workers,
         s.kind \in {"thread", "process"}
  PROVE  s.worker.idle > 0
<1>1. /\ s.worker \in Callbacks /\ Has(s.worker, Range(s.asyncDecompressIdx))
      /\ Manned(s.worker, s.kind)
      /\ s.asyncDecompressIdx \in Seq(Nat) /\ Distinct(s.asyncDecompressIdx)
  BY SoundIs
<1>2. s.worker.stranded = {}
  BY DEF Sound, Queued
<1>3. PICK w : w = s.worker
  OBVIOUS
<1>4. w.idle + Len(w.busy) = Workers + Cardinality({})
  BY <1>1, <1>2, <1>3 DEF Manned
<1>5. w.busy \in Seq(Nat) /\ Distinct(w.busy) /\ w.idle \in Nat
  BY <1>1, <1>3 DEF Callbacks, Has
<1>6. Range(w.busy) \subseteq Range(s.asyncDecompressIdx)
  BY <1>1, <1>3 DEF Has
<1>7. /\ Cardinality(Range(w.busy)) = Len(w.busy)
      /\ Cardinality(Range(s.asyncDecompressIdx)) = Len(s.asyncDecompressIdx)
      /\ Cardinality(Range(w.busy)) <= Cardinality(Range(s.asyncDecompressIdx))
  <2>1. /\ IsFiniteSet(Range(s.asyncDecompressIdx))
        /\ Cardinality(Range(s.asyncDecompressIdx)) = Len(s.asyncDecompressIdx)
    BY <1>1, DistinctLength
  <2>2. Cardinality(Range(w.busy)) = Len(w.busy)
    BY <1>5, DistinctLength
  <2> QED
    BY <1>6, <2>1, <2>2, FS_Subset
<1>8. Len(w.busy) \in Nat /\ Len(s.asyncDecompressIdx) \in Nat /\ Cardinality({}) = 0
  BY <1>1, <1>5, LenProperties, FS_EmptySet
<1>9. QueueSize \in Nat /\ Workers \in Nat
  BY AsyncAssumption
<1> QED
  BY <1>3, <1>4, <1>5, <1>7, <1>8, <1>9

\* Preloading a page keeps what is waited for in the queue and the callback.
LEMMA PreloadIs ==
  ASSUME NEW s, NEW n, Sound(s, n, n), s.mode = "decompress",
         NEW i \in DOMAIN s.index, i <= n
  PROVE  LET t == AsyncPagePreload(s, i)
         IN t = NULL \/ (Sound(t, n, n) /\ SameArchive(s, t) /\ t.asyncPage = s.asyncPage)
<1>1. /\ s \in States /\ n \in Nat /\ s.worker \in Callbacks
      /\ Has(s.worker, Range(s.asyncDecompressIdx)) /\ Manned(s.worker, s.kind)
      /\ s.asyncDecompressIdx \in Seq(Nat) /\ Distinct(s.asyncDecompressIdx)
      /\ s.asyncPage = <<>> /\ s.asyncPage = Behind(n, n)
  BY SoundIs
<1>2. CASE i \in Range(s.asyncDecompressIdx) \/ i \in DOMAIN s.cache
  BY <1>2, SameIsSame DEF AsyncPagePreload
<1>3. CASE Len(s.asyncDecompressIdx) >= QueueSize
  BY <1>3, SameIsSame DEF AsyncPagePreload
<1>4. CASE /\ i \notin Range(s.asyncDecompressIdx) /\ i \notin DOMAIN s.cache
           /\ ~(Len(s.asyncDecompressIdx) >= QueueSize)
  <2>1. PICK u : u = ReadPage(s, i)
    OBVIOUS
  <2>2. u \in States /\ SameContents(s, u) /\ SameSizes(s, u) /\ SameRest(s, u) /\ InPlace(u, n)
    BY <1>1, <2>1, ReadIs DEF Sound
  <2>3. i \in Nat /\ Len(s.asyncDecompressIdx) \in Nat /\ QueueSize \in Nat
    BY <1>1, IndexIs, LenProperties, AsyncAssumption
  <2>4. Has(u.worker, Range(s.asyncDecompressIdx)) /\ Manned(u.worker, u.kind)
    BY <1>1, <2>2 DEF SameRest
  <2>5. PICK v : v = Process(u, i)
    OBVIOUS
  <2>6. /\ v \in States /\ SamePlaces(u, v) /\ v.cache = s.cache
        /\ v.isUptodate = s.isUptodate /\ v.isCustom = s.isCustom
        /\ v.mode = s.mode /\ v.kind = s.kind
        /\ v.asyncPage = s.asyncPage /\ v.asyncDecompressIdx = s.asyncDecompressIdx
        /\ Has(v.worker, Range(s.asyncDecompressIdx) \cup {i}) /\ Manned(v.worker, v.kind)
        /\ s.worker.idle > 0 \/ s.kind \notin {"thread", "process"} =>
             v.worker.stranded = s.worker.stranded
    <3>1. i \notin Range(s.asyncDecompressIdx)
      BY <1>4
    <3>2. /\ v \in States /\ SamePlaces(u, v) /\ v.cache = u.cache
          /\ v.isUptodate = u.isUptodate /\ v.isCustom = u.isCustom
          /\ v.mode = u.mode /\ v.kind = u.kind
          /\ v.asyncPage = u.asyncPage /\ v.asyncDecompressIdx = u.asyncDecompressIdx
          /\ Has(v.worker, Range(s.asyncDecompressIdx) \cup {i}) /\ Manned(v.worker, v.kind)
          /\ u.worker.idle > 0 \/ u.kind \notin {"thread", "process"} =>
               v.worker.stranded = u.worker.stranded
      BY <2>2, <2>3, <2>4, <2>5, <3>1, ProcessIs
    <3> QED
      BY <2>2, <3>2 DEF SameRest
  <2>7. PICK queue : queue = Append(s.asyncDecompressIdx, i)
    OBVIOUS
  <2>8. /\ queue \in Seq(Nat) /\ Len(queue) = Len(s.asyncDecompressIdx) + 1
        /\ Range(queue) = Range(s.asyncDecompressIdx) \cup {i} /\ Distinct(queue)
    BY <1>1, <1>4, <2>3, <2>7, AppendDistinct
  <2>9. PICK t : t = [v EXCEPT !.asyncDecompressIdx = queue]
    OBVIOUS
  <2>10. t = AsyncPagePreload(s, i)
    BY <1>4, <2>1, <2>5, <2>6, <2>7, <2>9 DEF AsyncPagePreload
  <2>11. /\ t \in States /\ SamePlaces(v, t) /\ t.worker = v.worker /\ t.cache = s.cache
         /\ t.asyncPage = s.asyncPage /\ t.asyncDecompressIdx = queue
         /\ t.isUptodate = s.isUptodate /\ t.isCustom = s.isCustom /\ t.mode = s.mode
         /\ t.kind = s.kind
    BY <2>6, <2>8, <2>9 DEF States, SamePlaces
  <2>12. InPlace(t, n) /\ SameContents(s, t)
    <3>1. SamePlaces(u, t)
      BY <2>6, <2>11 DEF SamePlaces
    <3>2. InPlace(t, n) /\ SameContents(u, t)
      BY <2>2, <3>1, SamePlacesKeep
    <3> QED
      BY <2>2, <3>2 DEF SameContents
  <2>13. Awaits(t, n, n)
    BY <2>11, <2>12 DEF Sound, Awaits, IsAsync, SameContents
  <2>14. Queued(t)
    <3>1. Range(<<>>) = {}
      BY DEF Range
    <3>2. Range(t.asyncPage) \cup Range(t.asyncDecompressIdx)
            = Range(s.asyncDecompressIdx) \cup {i}
      BY <1>1, <2>8, <2>11, <3>1
    <3>3. Has(t.worker, Range(t.asyncPage) \cup Range(t.asyncDecompressIdx))
      BY <2>6, <2>11, <3>2
    <3>4. Manned(t.worker, t.kind)
      BY <2>6, <2>11
    <3>5. Range(t.asyncPage) \cup Range(t.asyncDecompressIdx) \subseteq DOMAIN t.index
      <4>1. Range(s.asyncDecompressIdx) \subseteq DOMAIN s.index
        BY DEF Sound, Queued
      <4> QED
        BY <2>12, <3>2, <4>1 DEF SameContents
    <3>6. QueueSize <= Workers => t.worker.stranded = {}
      <4> SUFFICES ASSUME QueueSize <= Workers PROVE t.worker.stranded = {}
        OBVIOUS
      <4>1. s.worker.stranded = {}
        BY DEF Sound, Queued
      <4>2. s.kind \in {"thread", "process"} => s.worker.idle > 0
        BY <1>4, <2>3, RoomIsIdle
      <4> QED
        BY <2>6, <2>11, <4>1, <4>2
    <3>7. Distinct(t.asyncDecompressIdx) /\ Len(t.asyncDecompressIdx) <= QueueSize
      BY <1>4, <2>3, <2>8, <2>11
    <3>8. t.mode = "decompress"
      BY <2>11
    <3> QED
      BY <3>3, <3>4, <3>5, <3>6, <3>7, <3>8 DEF Queued
  <2>15. Compressed(t)
    BY <2>11, <2>12 DEF Sound, Compressed, SameContents
  <2>16. Cached(t)
    BY <2>11, <2>12 DEF Sound, Cached, SameContents
  <2>17. Sound(t, n, n) /\ SameArchive(s, t)
    BY <2>11, <2>12, <2>13, <2>14, <2>15, <2>16 DEF Sound, SameArchive
  <2> QED
    BY <2>10, <2>11, <2>17
<1> QED
  BY <1>2, <1>3, <1>4

\* What is preloaded is made by its steps, one page after the other.
LEMMA PreloadedSteps ==
  ASSUME NEW s, NEW from \in Nat \ {0}, s.mode = "decompress", QueueSize # 0,
         ~(from > Len(s.index)),
         Len(s.index) \in Nat
  PROVE  \E after :
           /\ Preloaded(s, from) = after[Len(s.index)]
           /\ after[0] = [to |-> from, pages |-> s]
           /\ \A k \in 1 .. Len(s.index) :
                after[k] = IF k < from THEN [to |-> from, pages |-> s]
                           ELSE PreloadedOne(after[k - 1], k)
<1> DEFINE n == Len(s.index)
           nothing == [to |-> from, pages |-> s]
           Body(f, m) == [k \in 0 .. m |-> IF k < from THEN nothing ELSE PreloadedOne(f[k - 1], k)]
           T == {m \in 0 .. n : \E f : f = Body(f, m)}
<1> HIDE DEF n, nothing
<1>0. n \in Nat
  BY DEF n
<1>1. 0 \in T
  <2>1. [k \in 0 .. 0 |-> nothing] = Body([k \in 0 .. 0 |-> nothing], 0)
    OBVIOUS
  <2> HIDE DEF Body
  <2> QED
    BY <1>0, <2>1
<1>2. \A m \in 1 .. n : m - 1 \in T => m \in T
  <2> SUFFICES ASSUME NEW m \in 1 .. n, m - 1 \in T PROVE m \in T
    OBVIOUS
  <2>1. PICK f : f = Body(f, m - 1)
    OBVIOUS
  <2> DEFINE last == IF m < from THEN nothing ELSE PreloadedOne(f[m - 1], m)
             g == [k \in 0 .. m |-> IF k = m THEN last ELSE f[k]]
  <2>2. g = Body(g, m)
    <3>1. ASSUME NEW k \in 0 .. m
          PROVE  g[k] = IF k < from THEN nothing ELSE PreloadedOne(g[k - 1], k)
      <4>1. CASE k = m
        <5>1. m - 1 \in 0 .. m /\ m - 1 # m
          BY <1>0
        <5>2. g[m - 1] = f[m - 1] /\ g[m] = last
          BY <5>1
        <5> QED
          BY <4>1, <5>2
      <4>2. CASE k # m
        <5>1. k \in 0 .. m - 1 /\ g[k] = f[k]
          BY <1>0, <4>2
        <5>2. f[k] = IF k < from THEN nothing ELSE PreloadedOne(f[k - 1], k)
          BY <2>1, <5>1
        <5>3. ~(k < from) => k - 1 \in 0 .. m /\ k - 1 # m
          BY <1>0, <5>1
        <5>4. ~(k < from) => g[k - 1] = f[k - 1]
          BY <5>3
        <5> HIDE DEF g
        <5> QED
          BY <5>1, <5>2, <5>4
      <4> QED
        BY <4>1, <4>2
    <3>2. g = [k \in 0 .. m |-> g[k]]
      OBVIOUS
    <3> HIDE DEF g
    <3> QED
      BY <3>1, <3>2
  <2> HIDE DEF Body, g
  <2> QED
    BY <2>2
<1>3. n \in T
  <2> HIDE DEF T
  <2>1. 0 .. n \subseteq T
    BY <1>0, <1>1, <1>2, Inductive
  <2> QED
    BY <1>0, <2>1
<1> DEFINE after == CHOOSE f : f = Body(f, n)
<1>4. after = Body(after, n)
  <2>1. \E f : f = Body(f, n)
    BY <1>3
  <2> HIDE DEF Body, T
  <2> QED
    BY <2>1
<1>5. Preloaded(s, from) = after[n]
  BY DEF Preloaded, n, nothing
<1> HIDE DEF after
<1>6. /\ after[0] = nothing
      /\ \A k \in 1 .. n : after[k] = IF k < from THEN nothing ELSE PreloadedOne(after[k - 1], k)
  <2> DEFINE Step(k) == IF k < from THEN nothing ELSE PreloadedOne(after[k - 1], k)
  <2>1. \A k \in 0 .. n : after[k] = Step(k)
    BY <1>4
  <2>2. 0 \in 0 .. n /\ (\A k \in 1 .. n : k \in 0 .. n) /\ 0 < from
    BY <1>0
  <2>3. Step(0) = nothing
    BY <2>2
  <2> HIDE DEF Step
  <2>4. after[0] = nothing /\ \A k \in 1 .. n : after[k] = Step(k)
    BY <2>1, <2>2, <2>3
  <2> QED
    BY <2>4 DEF Step
<1> QED
  BY <1>5, <1>6 DEF n, nothing

\* Preloading keeps what is waited for in the queue and the callback, and goes
\* on from a page that is there, or behind the last.
LEMMA PreloadedIs ==
  ASSUME NEW s, NEW n, NEW m, Sound(s, n, m), m = Len(s.index), NEW from \in Nat \ {0}
  PROVE  LET a == Preloaded(s, from)
         IN /\ Sound(a.pages, n, m) /\ SameArchive(s, a.pages)
            /\ a.pages.asyncPage = s.asyncPage
            /\ a.to \in Nat \ {0} /\ (a.to = from \/ a.to <= m + 1)
<1>1. s \in States /\ n \in Nat /\ m \in Nat /\ (s.mode = "decompress" => n = m)
  BY SoundIs
<1>2. PICK nothing : nothing = [to |-> from, pages |-> s]
  OBVIOUS
<1>3. nothing.to = from /\ nothing.pages = s
  BY <1>2
<1>4. CASE s.mode # "decompress" \/ QueueSize = 0 \/ from > Len(s.index)
  <2>1. Preloaded(s, from) = nothing
    BY <1>2, <1>4 DEF Preloaded
  <2> QED
    BY <1>3, <2>1, SameIsSame
<1>5. CASE ~(s.mode # "decompress" \/ QueueSize = 0 \/ from > Len(s.index))
  <2>1. n = m /\ s.mode = "decompress" /\ QueueSize # 0 /\ ~(from > Len(s.index))
    BY <1>1, <1>5
  <2>2. PICK after :
          /\ Preloaded(s, from) = after[Len(s.index)]
          /\ after[0] = nothing
          /\ \A k \in 1 .. Len(s.index) :
               after[k] = IF k < from THEN nothing ELSE PreloadedOne(after[k - 1], k)
    BY <1>1, <1>2, <2>1, PreloadedSteps
  <2> DEFINE Fine(a) == /\ Sound(a.pages, m, m) /\ SameArchive(s, a.pages)
                        /\ a.pages.asyncPage = s.asyncPage
                        /\ a.to \in Nat \ {0} /\ (a.to = from \/ a.to <= m + 1)
             T == {k \in 0 .. m : Fine(after[k])}
  <2>3. Fine(nothing)
    BY <1>3, <2>1, SameIsSame
  <2>4. 0 \in T
    <3> HIDE DEF Fine
    <3> QED
      BY <1>1, <2>2, <2>3
  <2>5. ASSUME NEW k \in 1 .. m, NEW a, Fine(a) PROVE Fine(PreloadedOne(a, k))
    <3>1. PICK t : t = AsyncPagePreload(a.pages, k)
      OBVIOUS
    <3>2. CASE a.to < k \/ t = NULL
      <4>1. PreloadedOne(a, k) = a
        BY <3>1, <3>2 DEF PreloadedOne
      <4> HIDE DEF Fine
      <4> QED
        BY <2>5, <4>1
    <3>3. CASE ~(a.to < k \/ t = NULL)
      <4>1. PICK b : b = [to |-> k + 1, pages |-> t]
        OBVIOUS
      <4>2. PreloadedOne(a, k) = b
        BY <3>1, <3>3, <4>1 DEF PreloadedOne
      <4>3. b.to = k + 1 /\ b.pages = t
        BY <4>1
      <4>4. a.pages.mode = "decompress" /\ k \in DOMAIN a.pages.index /\ k <= m
        BY <1>1, <2>1, <2>5, IndexIs DEF SameArchive, SameContents
      <4>5. PICK p : p = a.pages
        OBVIOUS
      <4>6. Sound(p, m, m) /\ SameArchive(s, p) /\ p.asyncPage = s.asyncPage
        BY <2>5, <4>5
      <4>7. Sound(t, m, m) /\ SameArchive(p, t) /\ t.asyncPage = p.asyncPage
        BY <3>1, <3>3, <4>4, <4>5, <4>6, PreloadIs
      <4>8. SameArchive(s, t)
        BY <4>6, <4>7 DEF SameArchive, SameContents
      <4>9. k + 1 \in Nat \ {0} /\ k + 1 <= m + 1
        BY <1>1
      <4> QED
        BY <4>2, <4>3, <4>6, <4>7, <4>8, <4>9
    <3> QED
      BY <3>2, <3>3
  <2>6. \A k \in 1 .. m : k - 1 \in T => k \in T
    <3> SUFFICES ASSUME NEW k \in 1 .. m, k - 1 \in T PROVE k \in T
      OBVIOUS
    <3> HIDE DEF Fine
    <3>1. Fine(after[k - 1]) /\ k \in 0 .. m
      BY <1>1
    <3>2. after[k] = IF k < from THEN nothing ELSE PreloadedOne(after[k - 1], k)
      BY <2>2
    <3>3. Fine(PreloadedOne(after[k - 1], k))
      BY <2>5, <3>1
    <3> QED
      BY <2>3, <3>1, <3>2, <3>3
  <2>7. m \in T
    <3> HIDE DEF T
    <3>1. 0 .. m \subseteq T
      BY <1>1, <2>4, <2>6, Inductive
    <3> QED
      BY <1>1, <3>1
  <2>8. Fine(Preloaded(s, from))
    <3> HIDE DEF Fine
    <3> QED
      BY <2>2, <2>7
  <2> QED
    BY <2>1, <2>8
<1> QED
  BY <1>4, <1>5

\* Another place of the channel, or offsets that are calculated
LEMMA PlacesSound ==
  ASSUME NEW s, NEW n, NEW m, Sound(s, n, m), NEW t \in States,
         SameContents(s, t), SameRest(s, t), InPlace(t, n)
  PROVE  Sound(t, n, m) /\ SameArchive(s, t)
<1>1. Awaits(t, n, m)
  BY DEF Sound, Awaits, IsAsync, SameContents, SameRest
<1>2. Queued(t)
  BY DEF Sound, Queued, SameContents, SameRest
<1>3. Compressed(t) /\ Cached(t)
  BY DEF Sound, Compressed, Cached, SameContents, SameRest
<1> QED
  BY <1>1, <1>2, <1>3 DEF Sound, SameArchive, SameRest

\* Another page in the cache
LEMMA CacheSound ==
  ASSUME NEW s, NEW n, NEW m, Sound(s, n, m), NEW i \in DOMAIN s.index,
         NEW t \in PageCacheSet(s, i, s.index[i].content)
  PROVE  Sound(t, n, m) /\ SameArchive(s, t)
<1>1. s \in States /\ Cached(s)
  BY DEF Sound
<1>2. t \in States /\ Cached(t) /\ SamePlaces(s, t) /\ SameQueues(s, t)
  BY <1>1, CacheSetIs
<1>3. InPlace(t, n) /\ SameContents(s, t)
  BY <1>2, SamePlacesKeep DEF Sound
<1>4. t.index = s.index
  BY <1>2 DEF SamePlaces
<1>5. Awaits(t, n, m)
  BY <1>2, <1>4 DEF Sound, Awaits, IsAsync, SameQueues
<1>6. Queued(t)
  BY <1>2, <1>4 DEF Sound, Queued, SameQueues
<1>7. Compressed(t)
  BY <1>2, <1>4 DEF Sound, Compressed, SameQueues
<1> QED
  BY <1>2, <1>3, <1>5, <1>6, <1>7 DEF Sound, SameArchive, SameQueues

\* A page is read in its place.
LEMMA ReadSound ==
  ASSUME NEW s, NEW n, NEW m, Sound(s, n, m), NEW i \in DOMAIN s.index, i <= n
  PROVE  LET t == ReadPage(s, i)
         IN Sound(t, n, m) /\ SameArchive(s, t) /\ Found(t, i)
<1>1. PICK t : t = ReadPage(s, i)
  OBVIOUS
<1>2. s \in States /\ InPlace(s, n)
  BY DEF Sound
<1>3. /\ t \in States /\ SameContents(s, t) /\ SameRest(s, t) /\ InPlace(t, n) /\ Found(t, i)
  BY <1>1, <1>2, ReadIs
<1> QED
  BY <1>1, <1>3, PlacesSound

\* The index t has the pages of the index s, and perhaps more.
HasPagesOf(t, s) ==
  \A i \in DOMAIN s.index : i \in DOMAIN t.index /\ t.index[i].content = s.index[i].content

\* A page is added to the index, without a place.
LEMMA AddedSound ==
  ASSUME NEW s, NEW n, NEW m, Sound(s, n, m), m = Len(s.index), NEW c \in Contents,
         s.mode = "decompress" => c \notin Raw
  PROVE  LET t == PgIndexAddPage(s, c)
         IN /\ Sound(t, n, m) /\ Len(t.index) = m + 1
            /\ t.isUptodate = FALSE /\ t.mode = s.mode /\ t.kind = s.kind
            /\ t.isCustom = s.isCustom /\ t.asyncPage = s.asyncPage
            /\ HasPagesOf(t, s)
<1>1. /\ s \in States /\ n \in Nat /\ m \in Nat /\ n <= m
      /\ s.index \in Seq(PageRecords) /\ DOMAIN s.index = 1 .. m
  BY SoundIs, IndexIs
<1>2. PICK page : page = [content |-> c, size |-> -1, offset |-> IF s.index = <<>> THEN 0 ELSE -1]
  OBVIOUS
<1>3. /\ page \in PageRecords /\ page.content = c /\ page.size = -1
      /\ page.offset = IF s.index = <<>> THEN 0 ELSE -1
  BY <1>2 DEF PageRecords
<1>4. PICK index : index = Append(s.index, page)
  OBVIOUS
<1>5. /\ index \in Seq(PageRecords) /\ Len(index) = m + 1 /\ DOMAIN index = 1 .. m + 1
      /\ index[m + 1] = page
      /\ \A i \in 1 .. m : index[i] = s.index[i]
  BY <1>1, <1>3, <1>4, AppendProperties
<1>6. PICK t : t = [s EXCEPT !.isUptodate = FALSE, !.index = index]
  OBVIOUS
<1>7. t = PgIndexAddPage(s, c)
  BY <1>1, <1>2, <1>4, <1>6 DEF PgIndexAddPage, States
<1>8. /\ t \in States /\ t.index = index /\ t.isUptodate = FALSE
      /\ t.file = s.file /\ t.position = s.position /\ t.fileLastOp = s.fileLastOp
      /\ t.isCustom = s.isCustom /\ t.mode = s.mode /\ t.kind = s.kind
      /\ t.asyncPage = s.asyncPage /\ t.asyncDecompressIdx = s.asyncDecompressIdx
      /\ t.cache = s.cache /\ t.worker = s.worker
  BY <1>1, <1>5, <1>6 DEF States
<1>9. \A k \in 0 .. m : Ends(index)[k] = Ends(s.index)[k]
  <2>1. m \in 0 .. Len(s.index) /\ m <= Len(index)
    BY <1>1, <1>5
  <2>2. \A k \in 1 .. m : s.index[k].size = index[k].size
    BY <1>5
  <2> QED
    BY <1>1, <1>5, <2>1, <2>2, EndsSame
<1>10. InPlace(t, n)
  <2>1. n \in 0 .. Len(index)
    BY <1>1, <1>5
  <2>2. index[1].offset = 0
    <3>1. CASE m = 0
      <4>1. s.index = <<>>
        BY <1>1, <3>1, EmptySeq
      <4> QED
        BY <1>3, <1>5, <3>1, <4>1
    <3>2. CASE m # 0
      <4>1. 1 \in 1 .. m /\ s.index # <<>>
        BY <1>1, <3>2, EmptySeq
      <4> QED
        BY <1>5, <4>1 DEF Sound, InPlace
    <3> QED
      BY <3>1, <3>2
  <2>3. ASSUME NEW i \in 1 .. m
        PROVE  /\ IF i <= n THEN index[i].size \in 1 .. 2 ELSE index[i].size = -1
               /\ index[i].offset = -1 \/ (i <= n + 1 /\ index[i].offset = Ends(index)[i - 1])
               /\ i <= n => \A x \in Ends(index)[i - 1] + 1 .. Ends(index)[i] :
                              x \in DOMAIN s.file /\ s.file[x] = i
    <3>1. i \in 0 .. m /\ i - 1 \in 0 .. m
      BY <1>1
    <3>2. index[i] = s.index[i] /\ Ends(index)[i - 1] = Ends(s.index)[i - 1]
          /\ Ends(index)[i] = Ends(s.index)[i]
      BY <1>5, <1>9, <3>1
    <3> QED
      BY <1>1, <3>2 DEF Sound, InPlace
  <2>4. /\ ~(m + 1 <= n) /\ index[m + 1].size = -1
        /\ index[m + 1].offset = -1
           \/ (m + 1 <= n + 1 /\ index[m + 1].offset = Ends(index)[(m + 1) - 1])
    <3>1. CASE m = 0
      <4>1. index[m + 1].offset = 0
        BY <2>2, <3>1
      <4>2. Ends(index)[0] = 0
        BY <1>5, EndsOf
      <4> QED
        BY <1>1, <1>3, <1>5, <3>1, <4>1, <4>2
    <3>2. CASE m # 0
      <4>1. s.index # <<>>
        BY <1>1, <3>2, EmptySeq
      <4> QED
        BY <1>1, <1>3, <1>5, <4>1
    <3> QED
      BY <3>1, <3>2
  <2>5. ASSUME NEW x \in DOMAIN s.file PROVE s.file[x] \in DOMAIN index
    BY <1>1, <1>5 DEF Sound, InPlace
  <2>6. s.fileLastOp = "write" => s.position = Ends(index)[n]
    <3>1. n \in 0 .. m
      BY <1>1
    <3> QED
      BY <1>9, <3>1 DEF Sound, InPlace
  <2>7. ASSUME NEW i \in DOMAIN index
        PROVE  /\ IF i <= n THEN index[i].size \in 1 .. 2 ELSE index[i].size = -1
               /\ index[i].offset = -1 \/ (i <= n + 1 /\ index[i].offset = Ends(index)[i - 1])
               /\ i <= n => \A x \in Ends(index)[i - 1] + 1 .. Ends(index)[i] :
                              x \in DOMAIN s.file /\ s.file[x] = i
    <3>1. CASE i \in 1 .. m
      BY <2>3, <3>1
    <3>2. CASE i = m + 1
      BY <2>4, <3>2
    <3> QED
      BY <1>1, <1>5, <3>1, <3>2
  <2> QED
    BY <1>8, <2>1, <2>2, <2>5, <2>6, <2>7 DEF InPlace
<1>11. Awaits(t, n, m)
  BY <1>1, <1>5, <1>8 DEF Sound, Awaits, IsAsync
<1>12. Queued(t)
  <2>1. DOMAIN s.index \subseteq DOMAIN t.index
    BY <1>1, <1>5, <1>8
  <2> QED
    BY <1>8, <2>1 DEF Sound, Queued
<1>13. Compressed(t)
  <2>1. ASSUME t.mode = "decompress", NEW i \in DOMAIN index PROVE index[i].content \notin Raw
    <3>1. CASE i \in 1 .. m
      BY <1>1, <1>5, <1>8, <2>1, <3>1 DEF Sound, Compressed
    <3>2. CASE i = m + 1
      BY <1>3, <1>5, <1>8, <2>1, <3>2
    <3> QED
      BY <1>1, <1>5, <3>1, <3>2
  <2> QED
    BY <1>8, <2>1 DEF Compressed
<1>14. Cached(t)
  <2>1. DOMAIN s.cache \subseteq 1 .. m /\ 1 .. m \subseteq DOMAIN index
    BY <1>1, <1>5 DEF Sound, Cached
  <2> QED
    BY <1>5, <1>8, <2>1 DEF Sound, Cached
<1>15. Sound(t, n, m)
  BY <1>8, <1>10, <1>11, <1>12, <1>13, <1>14 DEF Sound
<1>16. \A i \in DOMAIN s.index : i \in DOMAIN index /\ index[i].content = s.index[i].content
  BY <1>1, <1>5
<1> QED
  BY <1>3, <1>5, <1>7, <1>8, <1>15, <1>16 DEF HasPagesOf

\* It is written at once when nothing compresses beside the program.
LEMMA WriteSound ==
  ASSUME NEW s, NEW n, Sound(s, n, n), n < Len(s.index)
  PROVE  LET t == WritePage(s, n + 1)
         IN Sound(t, n + 1, n + 1) /\ SameArchive(s, t) /\ t.asyncPage = <<>>
<1>1. s \in States /\ n \in Nat /\ s.asyncPage = <<>> /\ Len(s.index) \in Nat
  <2>1. s \in States /\ n \in Nat /\ (s.asyncPage = <<>> <=> n = n)
    BY SoundIs
  <2> QED
    BY <2>1, IndexIs
<1>2. PICK t : t = WritePage(s, n + 1)
  OBVIOUS
<1>3. t \in States /\ SameContents(s, t) /\ SameRest(s, t) /\ InPlace(t, n + 1)
  BY <1>1, <1>2, WriteIs DEF Sound
<1>4. Awaits(t, n + 1, n + 1)
  <2>1. PICK k : k = n + 1
    OBVIOUS
  <2>2. k \in Nat /\ k <= k /\ k - k <= MaxAsync /\ ~(k < k) /\ k \in 0 .. Len(s.index)
    BY <1>1, <2>1, AsyncAssumption
  <2>3. Behind(k, k) = <<>>
    BY <2>2, BehindIs
  <2>4. Len(t.index) = Len(s.index) /\ t.asyncPage = <<>>
    BY <1>1, <1>3 DEF SameContents, SameRest
  <2> QED
    BY <2>1, <2>2, <2>3, <2>4 DEF Awaits
<1>5. Queued(t)
  BY <1>3 DEF Sound, Queued, SameContents, SameRest
<1>6. Compressed(t) /\ Cached(t)
  BY <1>3 DEF Sound, Compressed, Cached, SameContents, SameRest
<1>7. t.asyncPage = <<>> /\ SameArchive(s, t)
  BY <1>1, <1>3 DEF SameRest, SameArchive
<1> QED
  BY <1>2, <1>3, <1>4, <1>5, <1>6, <1>7 DEF Sound

\* The queue of pages to write takes the next.
LEMMA BehindMore ==
  ASSUME NEW n \in Nat, NEW m \in Nat, n <= m
  PROVE  Append(Behind(n, m), m + 1) = Behind(n, m + 1)
<1>1. PICK q : q = Behind(n, m)
  OBVIOUS
<1>2. q \in Seq(Nat) /\ Len(q) = m - n /\ \A k \in 1 .. m - n : q[k] = n + k
  BY <1>1, BehindIs
<1>3. PICK l : l = m + 1
  OBVIOUS
<1>4. PICK p : p = Behind(n, l)
  OBVIOUS
<1>5. p \in Seq(Nat) /\ Len(p) = l - n /\ \A k \in 1 .. l - n : p[k] = n + k
  <2>1. l \in Nat /\ n <= l
    BY <1>3
  <2> QED
    BY ZenonT(30), <1>4, <2>1, BehindIs
<1>6. PICK a : a = Append(q, l)
  OBVIOUS
<1>7. /\ a \in Seq(Nat) /\ Len(a) = Len(q) + 1 /\ a[Len(q) + 1] = l
      /\ \A k \in 1 .. Len(q) : a[k] = q[k]
  BY <1>2, <1>3, <1>6, AppendProperties
<1>8. Len(a) = Len(p)
  BY <1>2, <1>3, <1>5, <1>7
<1>9. ASSUME NEW k \in 1 .. Len(a) PROVE a[k] = p[k]
  <2>1. k \in 1 .. l - n /\ (k \in 1 .. m - n \/ k = (m - n) + 1)
    BY <1>2, <1>3, <1>7
  <2>2. CASE k \in 1 .. m - n
    BY <1>2, <1>5, <1>7, <2>1, <2>2
  <2>3. CASE k = (m - n) + 1
    BY <1>2, <1>3, <1>5, <1>7, <2>1, <2>3
  <2> QED
    BY <2>1, <2>2, <2>3
<1>10. a = p
  BY <1>5, <1>7, <1>8, <1>9, SeqEqual
<1> QED
  BY <1>1, <1>3, <1>4, <1>6, <1>10

\* The page that was added is sent to the callback, which has a worker for it.
SentOff(s, i) == [Process(s, i) EXCEPT !.asyncPage = Append(@, i)]

LEMMA SendSound ==
  ASSUME NEW s, NEW n, NEW m, Sound(s, n, m), m < Len(s.index), IsAsync(s),
         Len(s.asyncPage) < MaxAsync,
         s.kind \in {"thread", "process"} => s.worker.idle > 0
  PROVE  LET t == SentOff(s, m + 1)
         IN Sound(t, n, m + 1) /\ SameArchive(s, t)
<1>1. s.mode = "compress"
  BY DEF IsAsync
<1>2. /\ s \in States /\ n \in Nat /\ m \in Nat /\ n <= m /\ Len(s.index) \in Nat
      /\ Has(s.worker, n + 1 .. m) /\ Manned(s.worker, s.kind)
      /\ s.asyncPage = Behind(n, m) /\ s.asyncDecompressIdx = <<>>
      /\ DOMAIN s.index = 1 .. Len(s.index)
  <2>1. /\ s \in States /\ n \in Nat /\ m \in Nat /\ n <= m
        /\ Has(s.worker, Waiting(s)) /\ Manned(s.worker, s.kind)
        /\ s.asyncPage = Behind(n, m) /\ s.asyncDecompressIdx = <<>> /\ Waiting(s) = n + 1 .. m
    BY <1>1, SoundIs
  <2> QED
    BY <2>1, IndexIs
<1>3. PICK i : i = m + 1
  OBVIOUS
<1>4. i \in Nat /\ i \notin n + 1 .. m /\ i <= Len(s.index) /\ i \in DOMAIN s.index
  BY <1>2, <1>3
<1>5. PICK v : v = Process(s, i)
  OBVIOUS
<1>6. /\ v \in States /\ SamePlaces(s, v) /\ v.cache = s.cache
      /\ v.isUptodate = s.isUptodate /\ v.isCustom = s.isCustom
      /\ v.mode = s.mode /\ v.kind = s.kind
      /\ v.asyncPage = s.asyncPage /\ v.asyncDecompressIdx = s.asyncDecompressIdx
      /\ Has(v.worker, (n + 1 .. m) \cup {i}) /\ Manned(v.worker, v.kind)
      /\ v.worker.busy = Append(s.worker.busy, i)
      /\ s.worker.idle > 0 \/ s.kind \notin {"thread", "process"} =>
           v.worker.stranded = s.worker.stranded
  BY ZenonT(30), <1>2, <1>4, <1>5, ProcessIs
<1>7. PICK queue : queue = Behind(n, i)
  OBVIOUS
<1>8. /\ Append(s.asyncPage, i) = queue /\ queue \in Seq(Nat) /\ Range(queue) = n + 1 .. i
  <2>1. n <= i /\ n \in Nat /\ i \in Nat
    BY <1>2, <1>3, <1>4
  <2>2. Append(Behind(n, m), m + 1) = Behind(n, m + 1)
    BY <1>2, BehindMore
  <2>3. queue \in Seq(Nat) /\ Range(queue) = n + 1 .. i
    BY <1>7, <2>1, BehindIs
  <2> QED
    BY <1>2, <1>3, <1>7, <2>2, <2>3
<1>9. PICK t : t = [v EXCEPT !.asyncPage = queue]
  OBVIOUS
<1>10. t = SentOff(s, i)
  BY <1>5, <1>6, <1>8, <1>9 DEF SentOff
<1>11. /\ t \in States /\ SamePlaces(s, t) /\ t.worker = v.worker /\ t.cache = s.cache
       /\ t.asyncPage = queue /\ t.asyncDecompressIdx = <<>>
       /\ t.isUptodate = s.isUptodate /\ t.isCustom = s.isCustom /\ t.mode = s.mode
       /\ t.kind = s.kind
  BY <1>2, <1>6, <1>8, <1>9 DEF States, SamePlaces
<1>12. InPlace(t, n) /\ SameContents(s, t)
  BY <1>11, SamePlacesKeep DEF Sound
<1>13. t.index = s.index
  BY <1>11 DEF SamePlaces
<1>14. Awaits(t, n, i)
  <2>1. i \in 0 .. Len(t.index) /\ n <= i
    BY <1>2, <1>3, <1>4, <1>13
  <2>2. i - n <= MaxAsync
    <3>1. Len(s.asyncPage) = m - n
      BY <1>2, BehindIs
    <3> QED
      BY <1>2, <1>3, <3>1, AsyncAssumption
  <2>3. IsAsync(t)
    BY <1>11 DEF IsAsync
  <2> QED
    BY <1>7, <1>11, <2>1, <2>2, <2>3 DEF Awaits
<1>15. Queued(t)
  <2>1. Range(<<>>) = {} /\ Distinct(<<>>) /\ Len(<<>>) = 0
    BY EmptySeq DEF Range, Distinct
  <2>2. /\ Range(t.asyncPage) \cup Range(t.asyncDecompressIdx) = n + 1 .. i
        /\ (n + 1 .. m) \cup {i} = n + 1 .. i
    BY <1>2, <1>3, <1>8, <1>11, <2>1
  <2>3. n + 1 .. i \subseteq DOMAIN t.index
    BY <1>2, <1>4, <1>13
  <2>4. Has(t.worker, Range(t.asyncPage) \cup Range(t.asyncDecompressIdx))
    BY <1>6, <1>11, <2>2
  <2>5. Manned(t.worker, t.kind)
    BY <1>6, <1>11
  <2>6. t.worker.stranded = {}
    <3>1. s.worker.stranded = {}
      BY <1>1 DEF Sound, Queued
    <3> QED
      BY <1>6, <1>11, <3>1
  <2>7. t.kind # "random" /\ (t.kind = "queue" => t.worker.busy = t.asyncPage)
    <3>1. s.kind # "random" /\ (s.kind = "queue" => s.worker.busy = s.asyncPage)
      BY <1>1 DEF Sound, Queued
    <3> QED
      BY <1>6, <1>8, <1>11, <3>1
  <2>8. /\ Distinct(t.asyncDecompressIdx) /\ Len(t.asyncDecompressIdx) <= QueueSize
        /\ t.asyncDecompressIdx # <<>> => t.mode = "decompress"
    BY <1>11, <2>1, AsyncAssumption
  <2> QED
    BY <2>2, <2>3, <2>4, <2>5, <2>6, <2>7, <2>8 DEF Queued
<1>16. Compressed(t) /\ Cached(t)
  BY <1>11, <1>13 DEF Sound, Compressed, Cached
<1>17. Sound(t, n, i) /\ SameArchive(s, t)
  BY <1>11, <1>12, <1>14, <1>15, <1>16 DEF Sound, SameArchive
<1> QED
  BY <1>3, <1>10, <1>17

\* Nothing waits: it can be compressed beside the program from now on, or no longer.
LEMMA CustomSound ==
  ASSUME NEW s, NEW m, Sound(s, m, m)
  PROVE  LET t == [s EXCEPT !.isCustom = ~@]
         IN Sound(t, m, m) /\ SameContents(s, t) /\ t.isUptodate = s.isUptodate
<1>1. s \in States /\ m \in Nat
  BY SoundIs
<1>2. PICK t : t = [s EXCEPT !.isCustom = ~@]
  OBVIOUS
<1>3. /\ t \in States /\ SamePlaces(s, t) /\ t.worker = s.worker /\ t.cache = s.cache
      /\ t.asyncPage = s.asyncPage /\ t.asyncDecompressIdx = s.asyncDecompressIdx
      /\ t.isUptodate = s.isUptodate /\ t.mode = s.mode /\ t.kind = s.kind
  BY <1>1, <1>2 DEF States, SamePlaces
<1>4. InPlace(t, m) /\ SameContents(s, t) /\ t.index = s.index
  BY <1>3, SamePlacesKeep DEF Sound, SamePlaces
<1>5. ~(m < m)
  BY <1>1
<1>6. Awaits(t, m, m)
  BY <1>3, <1>4, <1>5 DEF Sound, Awaits
<1>7. Queued(t)
  BY <1>3, <1>4 DEF Sound, Queued
<1>8. Compressed(t) /\ Cached(t)
  BY <1>3, <1>4 DEF Sound, Compressed, Cached
<1> QED
  BY <1>2, <1>3, <1>4, <1>6, <1>7, <1>8 DEF Sound

\* A worker that finished its page has it done.
LEMMA FinishSound ==
  ASSUME NEW s, NEW n, NEW m, Sound(s, n, m), s.kind \in {"thread", "process"},
         NEW i \in Range(s.worker.busy) \ s.worker.stranded
  PROVE  LET t == [s EXCEPT !.worker = [s.worker EXCEPT !.done = @ \cup {i}]]
         IN /\ Sound(t, n, m) /\ SameArchive(s, t) /\ t.asyncPage = s.asyncPage
            /\ t.worker.idle = s.worker.idle
<1>1. s \in States /\ s.worker \in Callbacks /\ Has(s.worker, Waiting(s)) /\ Manned(s.worker, s.kind)
  BY SoundIs
<1>2. PICK v : v = s.worker
  OBVIOUS
<1>3. PICK w : w = [v EXCEPT !.done = @ \cup {i}]
  OBVIOUS
<1>4. v \in Callbacks /\ i \in Nat
  BY <1>1, <1>2, BusyIs
<1>5. /\ w \in Callbacks /\ w.idle = v.idle /\ w.busy = v.busy /\ w.stranded = v.stranded
      /\ w.failed = v.failed /\ w.available = v.available /\ w.done = v.done \cup {i}
  BY <1>3, <1>4 DEF Callbacks
<1>6. Has(w, Waiting(s))
  BY <1>1, <1>2, <1>5 DEF Has
<1>7. Manned(w, s.kind)
  BY <1>1, <1>2, <1>5 DEF Manned
<1>8. PICK t : t = [s EXCEPT !.worker = w]
  OBVIOUS
<1>9. Sound(t, n, m) /\ SameArchive(s, t) /\ t.worker = w
  BY <1>2, <1>5, <1>6, <1>7, <1>8, WorkerChanges
<1>10. t.asyncPage = s.asyncPage
  BY <1>1, <1>8 DEF States
<1> QED
  BY <1>2, <1>3, <1>5, <1>8, <1>9, <1>10

\* Nothing waits at the start, and nobody works.
LEMMA NoWorkerIs ==
  ASSUME NEW kind
  PROVE  NoWorker \in Callbacks /\ Has(NoWorker, {}) /\ Manned(NoWorker, kind)
<1>1. PICK w : w = NoWorker
  OBVIOUS
<1>2. /\ w.idle = Workers /\ w.busy = <<>> /\ w.stranded = {} /\ w.done = {} /\ w.failed = {}
      /\ w.available = {}
  BY <1>1 DEF NoWorker
<1>3. Workers \in Nat /\ <<>> \in Seq(Nat)
  BY AsyncAssumption, EmptySeq
<1>4. w \in Callbacks
  BY <1>1, <1>3 DEF NoWorker, Callbacks
<1>5. Range(<<>>) = {} /\ Distinct(<<>>) /\ Len(<<>>) = 0
  BY EmptySeq DEF Range, Distinct
<1>6. Has(w, {})
  BY <1>2, <1>5 DEF Has
<1>7. Manned(w, kind)
  BY <1>2, <1>3, <1>5, FS_EmptySet DEF Manned
<1> QED
  BY <1>1, <1>4, <1>6, <1>7

\* An archive that is opened, with nothing to write, has its pages in place.
LEMMA OpenedSound ==
  ASSUME NEW s \in States, NEW n, InPlace(s, n), n = Len(s.index),
         NEW mode \in {"compress", "decompress"}, NEW kind \in Kinds,
         mode = "compress" => kind # "random",
         mode = "decompress" => \A i \in DOMAIN s.index : s.index[i].content \notin Raw
  PROVE  LET t == Opened(s.index, s.file, mode, kind)
         IN /\ Sound(t, n, n) /\ SameContents(s, t) /\ t.asyncPage = <<>>
<1>1. /\ s.index \in Seq(PageRecords) /\ n \in Nat /\ DOMAIN s.index = 1 .. n
      /\ \A j \in DOMAIN s.index : s.index[j] \in PageRecords
  BY IndexIs
<1>2. PICK t : t = Opened(s.index, s.file, mode, kind)
  OBVIOUS
<1> DEFINE Fresh(i) == [s.index[i] EXCEPT !.offset = IF i = 1 THEN 0 ELSE -1]
           index == [i \in DOMAIN s.index |-> Fresh(i)]
<1>3. ASSUME NEW j \in DOMAIN s.index
      PROVE  /\ Fresh(j) \in PageRecords /\ Fresh(j).content = s.index[j].content
             /\ Fresh(j).size = s.index[j].size /\ Fresh(j).offset = IF j = 1 THEN 0 ELSE -1
  <2>1. s.index[j] \in PageRecords
    BY <1>1
  <2> QED
    BY <2>1 DEF PageRecords
<1> HIDE DEF Fresh
<1>4. /\ DOMAIN index = DOMAIN s.index /\ index \in Seq(PageRecords) /\ Len(index) = n
      /\ \A j \in DOMAIN s.index : index[j] = Fresh(j)
  <2>1. index \in [1 .. n -> PageRecords]
    BY <1>1, <1>3
  <2>2. DOMAIN index = 1 .. n
    BY <1>1
  <2> HIDE DEF index
  <2>3. index \in Seq(PageRecords)
    BY SMTT(30), <1>1, <2>1 DEF Seq
  <2>4. Len(index) = n
    BY <1>1, <2>2, <2>3, LenProperties
  <2> QED
    BY <1>1, <2>2, <2>3, <2>4 DEF index
<1>5. /\ t.index = index /\ t.file = s.file /\ t.position = 0 /\ t.fileLastOp = "unknown"
      /\ t.isUptodate = TRUE /\ t.isCustom = TRUE /\ t.mode = mode /\ t.kind = kind
      /\ t.asyncPage = <<>> /\ t.asyncDecompressIdx = <<>> /\ t.cache = <<>>
      /\ t.worker = NoWorker
  BY <1>2 DEF Opened, Fresh
<1> HIDE DEF index
<1>6. t \in States
  <2>1. s.file \in Maps(Nat)
    BY DEF States
  <2>2. <<>> \in Seq(Nat) /\ <<>> \in Maps(Contents)
    <3>1. <<>> \in Seq(Nat)
      BY EmptySeq
    <3>2. <<>> \in [{} -> Contents]
      OBVIOUS
    <3> QED
      BY <3>1, <3>2 DEF Maps
  <2>3. t = [index |-> index, file |-> s.file, position |-> 0, fileLastOp |-> "unknown",
             isUptodate |-> TRUE, isCustom |-> TRUE, mode |-> mode, kind |-> kind,
             asyncPage |-> <<>>, asyncDecompressIdx |-> <<>>, cache |-> <<>>,
             worker |-> NoWorker]
    BY <1>2 DEF Opened, Fresh, index
  <2> QED
    BY <1>4, <2>1, <2>2, <2>3, NoWorkerIs DEF States
<1>7. SameContents(s, t) /\ SameSizes(s, t)
  BY <1>3, <1>4, <1>5 DEF SameContents, SameSizes
<1>8. InPlace(t, n)
  <2>1. ASSUME NEW j \in DOMAIN s.index
        PROVE  \/ t.index[j].offset = s.index[j].offset
               \/ j <= n + 1 /\ t.index[j].offset = Ends(s.index)[j - 1]
               \/ j > 1 /\ t.index[j].offset = -1
    <3>1. t.index[j].offset = IF j = 1 THEN 0 ELSE -1
      BY <1>3, <1>4, <1>5
    <3>2. Ends(s.index)[0] = 0
      BY <1>1, EndsOf
    <3>3. CASE j = 1
      BY <1>1, <3>1, <3>2, <3>3
    <3>4. CASE j # 1
      BY <1>1, <3>1, <3>4
    <3> QED
      BY <3>3, <3>4
  <2> QED
    BY <1>5, <1>6, <1>7, <2>1, InPlaceStill
<1>9. Awaits(t, n, n)
  <2>1. Behind(n, n) = <<>>
    BY <1>1, BehindIs
  <2> QED
    BY <1>1, <1>4, <1>5, <2>1, AsyncAssumption DEF Awaits
<1>10. Queued(t)
  <2>1. Range(<<>>) = {} /\ Distinct(<<>>) /\ Len(<<>>) = 0
    BY EmptySeq DEF Range, Distinct
  <2>2. Range(t.asyncPage) \cup Range(t.asyncDecompressIdx) = {}
    BY <1>5, <2>1
  <2>3. Has(t.worker, Range(t.asyncPage) \cup Range(t.asyncDecompressIdx))
        /\ Manned(t.worker, t.kind)
    BY <1>5, <2>2, NoWorkerIs
  <2>4. NoWorker.stranded = {} /\ NoWorker.busy = <<>>
    BY DEF NoWorker
  <2> QED
    BY <1>5, <2>1, <2>2, <2>3, <2>4, AsyncAssumption DEF Queued
<1>11. Compressed(t)
  BY <1>5, <1>7 DEF Compressed, SameContents
<1>12. Cached(t)
  BY <1>5, AsyncAssumption, FS_EmptySet DEF Cached
<1> QED
  BY <1>2, <1>5, <1>6, <1>7, <1>8, <1>9, <1>10, <1>11, <1>12 DEF Sound

-----------------------------------------------------------------------------
\* The steps

\* Nothing fails, no page is asked to be decompressed that was not compressed, and
\* no information is asked for about pages that are not written.
NothingFails == Events \cap {"fails", "rawPreloads", "earlyInfo"} = {}

LEMMA FitsIf ==
  ASSUME NEW s, NEW n, NEW m, NEW c \in Calls \cup {NULL}, NEW a,
         Sound(s, n, m), m = Sent(s, c), Len(s.index) <= MaxPages,
         s.isUptodate => s.asyncPage = <<>> /\ ~Adding(c),
         CallFits(s, c, n), AnswerFits(s, a)
  PROVE  Fits(s, c, a)
<1>1. n \in Nat /\ m \in Nat /\ n <= m /\ s.asyncPage = Behind(n, m)
  BY SoundIs
<1>2. Len(s.asyncPage) = m - n
  BY <1>1, BehindIs
<1>3. Written(s, c) = n
  BY <1>1, <1>2 DEF Written
<1> QED
  BY <1>3 DEF Fits

\* What is known of the state s, the call c and the answer a, when the first n pages
\* are written and the callback was sent those to page m.
Known(s, c, a, n, m) ==
  /\ Sound(s, n, m) /\ m = Sent(s, c) /\ n \in Nat /\ m \in Nat /\ n <= m
  /\ s \in States /\ CallFits(s, c, n)
  /\ Len(s.index) \in Nat /\ Len(s.index) <= MaxPages
  /\ s.isUptodate => s.asyncPage = <<>> /\ ~Adding(c)
  /\ c \in Calls \cup {NULL} /\ AnswerFits(s, a)
  /\ s.asyncPage = <<>> <=> n = m
  /\ s.mode = "decompress" => n = m

LEMMA FitsIs ==
  ASSUME NEW s, NEW c, NEW a, Fits(s, c, a)
  PROVE  \E n, m : Known(s, c, a, n, m)
<1>1. PICK n, m : n = Written(s, c) /\ m = Sent(s, c)
  OBVIOUS
<1>2. /\ Sound(s, n, m) /\ CallFits(s, c, n) /\ AnswerFits(s, a) /\ Len(s.index) <= MaxPages
      /\ s.isUptodate => s.asyncPage = <<>> /\ ~Adding(c)
      /\ c \in Calls \cup {NULL}
  BY <1>1 DEF Fits
<1>3. /\ s \in States /\ n \in Nat /\ m \in Nat /\ n <= m
      /\ s.asyncPage = <<>> <=> n = m
      /\ s.mode = "decompress" => n = m
  BY <1>2, SoundIs
<1>4. Len(s.index) \in Nat
  BY <1>3, IndexIs
<1>5. Known(s, c, a, n, m)
  BY <1>1, <1>2, <1>3, <1>4 DEF Known
<1> QED
  BY <1>5

LEMMA AnswerKeeps ==
  ASSUME NEW s, NEW t, SameContents(s, t), NEW a, AnswerFits(s, a)
  PROVE  AnswerFits(t, a)
BY DEF AnswerFits, SameContents

\* No call, or one that does not add a page
LEMMA NoCall ==
  ASSUME NEW s, NEW n
  PROVE  CallFits(s, NULL, n) /\ ~Adding(NULL) /\ Sent(s, NULL) = Len(s.index)
BY DEF CallFits, Adding, Sent

LEMMA NotAdding ==
  ASSUME NEW s, NEW c, c.at \notin {"collect", "room"}
  PROVE  ~Adding(c) /\ Sent(s, c) = Len(s.index)
BY DEF Adding, Sent

Steps ==
  {"collect", "room", "loading", "cached", "pending", "slot", "read", "drain", "preloads",
   "closed"}

LEMMA GoesIs ==
  ASSUME NEW c \in Calls, NEW step \in Steps
  PROVE  LET d == [c EXCEPT !.at = step]
         IN /\ d \in Calls /\ d # NULL /\ d.at = step /\ d.idx = c.idx /\ d.to = c.to
            /\ d.op = c.op
BY AsyncAssumption DEF Calls, Steps

\* Between two calls: the state s is the one before, with nothing being added.
LEMMA IdleIs ==
  ASSUME IInv, Idle
  PROVE  \E n :
           /\ Sound(pages, n, Len(pages.index)) /\ n \in Nat /\ n <= Len(pages.index)
           /\ Len(pages.index) \in Nat /\ Len(pages.index) <= MaxPages
           /\ pages \in States /\ AnswerFits(pages, answer)
           /\ pages.isUptodate => pages.asyncPage = <<>>
           /\ pages.asyncPage = <<>> <=> n = Len(pages.index)
           /\ pages.mode = "decompress" => n = Len(pages.index)
<1>1. PICK s, c, a : s = pages /\ c = call /\ a = answer
  OBVIOUS
<1>2. Fits(s, c, a) /\ c = NULL
  BY <1>1 DEF IInv, Idle
<1>3. PICK n, m : Known(s, c, a, n, m)
  BY <1>2, FitsIs
<1>4. m = Len(s.index)
  BY <1>2, <1>3, NoCall DEF Known
<1> QED
  BY <1>1, <1>3, <1>4 DEF Known

\* A page is asked for, between two calls.
LEMMA GettingFits ==
  ASSUME IInv, Idle, NEW op \in {"compare", "get"}, NEW i \in DOMAIN pages.index,
         Getting(op, i), answer' = answer
  PROVE  IInv'
<1>1. PICK s : s = pages
  OBVIOUS
<1>2. PICK n, m :
        /\ m = Len(s.index) /\ Sound(s, n, m) /\ n \in Nat /\ m \in Nat /\ n <= m /\ m <= MaxPages
        /\ s \in States /\ AnswerFits(s, answer)
        /\ s.isUptodate => s.asyncPage = <<>>
  BY <1>1, IdleIs
<1>3. i \in 1 .. m /\ i + 1 \in Nat \ {0}
  BY <1>1, <1>2, IndexIs
<1>4. PICK ahead : ahead = Preloaded(s, i + 1)
  OBVIOUS
<1>5. PICK t, to : t = ahead.pages /\ to = ahead.to
  OBVIOUS
<1>6. /\ Sound(t, n, m) /\ SameArchive(s, t) /\ t.asyncPage = s.asyncPage
      /\ to \in Nat \ {0} /\ (to = i + 1 \/ to <= m + 1)
  BY <1>2, <1>3, <1>4, <1>5, PreloadedIs
<1>7. SameContents(s, t) /\ t.isUptodate = s.isUptodate
  BY <1>6 DEF SameArchive
<1>8. PICK d : d = [op |-> op, idx |-> i, to |-> to,
                    at |-> IF CacheSize = 0 THEN "pending" ELSE "loading"]
  OBVIOUS
<1>9. pages' = t /\ call' = d
  BY <1>1, <1>4, <1>5, <1>8 DEF Getting
<1>10. d.at \in {"pending", "loading"} /\ d.idx = i /\ d.to = to
  BY <1>8
<1>11. d \in Calls
  <2>1. i \in 0 .. MaxPages /\ to \in 0 .. MaxPages + 1
    BY <1>2, <1>3, <1>6, AsyncAssumption
  <2> QED
    BY <1>8, <2>1 DEF Calls
<1>12. ~Adding(d) /\ Sent(t, d) = Len(t.index)
  BY <1>10, NotAdding
<1>13. CallFits(t, d, n)
  <2>1. i \in DOMAIN t.index /\ to > 0
    BY <1>1, <1>6, <1>7 DEF SameContents
  <2> QED
    BY <1>10, <1>12, <2>1 DEF CallFits
<1>14. m = Sent(t, d) /\ Len(t.index) <= MaxPages
  BY <1>2, <1>7, <1>12 DEF SameContents
<1>15. AnswerFits(t, answer)
  BY <1>2, <1>7, AnswerKeeps
<1>16. Fits(t, d, answer)
  BY <1>2, <1>6, <1>7, <1>11, <1>12, <1>13, <1>14, <1>15, FitsIf
<1> QED
  BY <1>9, <1>16 DEF IInv

\* A page is added between two calls.
LEMMA AddFits ==
  ASSUME IInv, NothingFails, NEW c \in Contents, Add(c)
  PROVE  IInv'
<1>0. Idle /\ answer' = answer
  BY DEF Add
<1>1. PICK s, a : s = pages /\ a = answer
  OBVIOUS
<1>2. PICK n, m :
        /\ m = Len(s.index) /\ Sound(s, n, m) /\ n \in Nat /\ m \in Nat /\ n <= m /\ m <= MaxPages
        /\ s \in States /\ AnswerFits(s, a)
        /\ s.isUptodate => s.asyncPage = <<>>
        /\ s.asyncPage = <<>> <=> n = m
  BY <1>0, <1>1, IdleIs
<1> DEFINE same == {j \in DOMAIN pages.index : pages.index[j].content = c}
<1>3. CASE same # {}
  <2>1. DOMAIN pages.index = 1 .. m
    BY <1>1, <1>2, IndexIs
  <2>2. same \subseteq Nat
    BY <1>2, <2>1
  <2>3. PICK i : i = Min(same)
    OBVIOUS
  <2>4. Getting("compare", i)
    BY <1>3, <2>3 DEF Add
  <2>5. i \in DOMAIN pages.index
    <3>1. i \in same
      <4> HIDE DEF same
      <4> QED
        BY <1>3, <2>2, <2>3, LeastIsMin
    <3> QED
      BY <3>1
  <2> HIDE DEF same
  <2> QED
    BY <1>0, <2>4, <2>5, GettingFits
<1>4. CASE same = {}
  <2> DEFINE i == m + 1
             u == PgIndexAddPage(s, c)
  <2>1. /\ i <= MaxPages /\ MayBePreloaded(s.mode, {c})
        /\ IF IsAsync(s)
           THEN pages' = u /\ call' = [op |-> "add", idx |-> i, to |-> 0, at |-> "collect"]
           ELSE pages' = WritePage(u, i) /\ call' = NULL
    BY <1>1, <1>2, <1>4 DEF Add
  <2> HIDE DEF i
  <2>2. s.mode = "decompress" => c \notin Raw
    BY <2>1 DEF MayBePreloaded, NothingFails
  <2>3. PICK t : t = PgIndexAddPage(s, c)
    OBVIOUS
  <2>4. /\ Sound(t, n, m) /\ Len(t.index) = m + 1
        /\ t.isUptodate = FALSE /\ t.mode = s.mode /\ t.kind = s.kind
        /\ t.isCustom = s.isCustom /\ t.asyncPage = s.asyncPage
        /\ HasPagesOf(t, s)
    <3>1. Sound(s, n, m) /\ m = Len(s.index)
      BY <1>2
    <3> QED
      BY <2>2, <2>3, <3>1, AddedSound
  <2> HIDE DEF u
  <2>5. AnswerFits(t, a)
    BY <1>2, <2>4 DEF AnswerFits, HasPagesOf
  <2>6. i \in Nat /\ i > 0 /\ i = m + 1 /\ i \in 0 .. MaxPages
    BY <1>2, <2>1, AsyncAssumption DEF i
  <2>7. CASE IsAsync(s)
    <3>1. PICK d : d = [op |-> "add", idx |-> i, to |-> 0, at |-> "collect"]
      OBVIOUS
    <3>2. d \in Calls /\ d.at = "collect" /\ d.idx = i
      BY <2>6, <3>1, AsyncAssumption DEF Calls
    <3>3. pages' = t /\ call' = d
      BY <2>1, <2>3, <2>7, <3>1 DEF u
    <3>4. d # NULL
      BY <3>2, AsyncAssumption
    <3>5. Sent(t, d) = m
      BY <1>2, <2>4, <3>2, <3>4 DEF Sent, Adding
    <3>6. CallFits(t, d, n)
      BY <2>4, <2>6, <2>7, <3>2 DEF CallFits, IsAsync
    <3>7. Len(t.index) <= MaxPages
      BY <2>1, <2>4, <2>6
    <3>8. Fits(t, d, a)
      BY <2>4, <2>5, <3>2, <3>5, <3>6, <3>7, FitsIf
    <3> QED
      BY <1>0, <1>1, <3>3, <3>8 DEF IInv
  <2>8. CASE ~IsAsync(s)
    <3>1. n = m
      BY <1>2, <2>8 DEF Sound, Awaits
    <3>2. PICK v : v = WritePage(t, m + 1)
      OBVIOUS
    <3>3. Sound(v, m + 1, m + 1) /\ SameArchive(t, v) /\ v.asyncPage = <<>>
      <4>1. Sound(t, m, m) /\ m < Len(t.index)
        BY <1>2, <2>4, <3>1
      <4> QED
        BY <3>2, <4>1, WriteSound
    <3>4. SameContents(t, v)
      BY <3>3 DEF SameArchive
    <3>5. AnswerFits(v, a) /\ Len(v.index) = m + 1
      BY <2>4, <2>5, <3>4, AnswerKeeps DEF SameContents
    <3>6. CallFits(v, NULL, i) /\ ~Adding(NULL) /\ Sent(v, NULL) = i
      BY <2>6, <3>5, NoCall
    <3>7. Fits(v, NULL, a)
      BY <2>1, <2>6, <3>3, <3>5, <3>6, FitsIf
    <3>8. pages' = v /\ call' = NULL
      BY <2>1, <2>3, <2>6, <2>8, <3>2 DEF u
    <3> QED
      BY <1>0, <1>1, <3>7, <3>8 DEF IInv
  <2> QED
    BY <2>7, <2>8
<1> QED
  BY <1>3, <1>4

\* What goes on with a call, without adding a page or finishing to add one
LEMMA NextFits ==
  ASSUME NEW s, NEW c, NEW a, NEW n, NEW m, Known(s, c, a, n, m),
         NEW t, NEW k, Sound(t, k, m), SameArchive(s, t), n <= k,
         NEW d \in Calls \cup {NULL}, NEW b, Adding(c) <=> Adding(d),
         CallFits(t, d, k), AnswerFits(t, b)
  PROVE  Fits(t, d, b)
<1>1. SameContents(s, t) /\ t.isUptodate = s.isUptodate
  BY DEF SameArchive
<1>2. Len(t.index) = Len(s.index) /\ Len(t.index) <= MaxPages
  BY <1>1 DEF SameContents, Known
<1>3. m = Sent(t, d)
  BY <1>2 DEF Known, Sent
<1>4. t.isUptodate => t.asyncPage = <<>> /\ ~Adding(d)
  <2>1. t.asyncPage = <<>> <=> k = m
    BY SoundIs
  <2>2. k \in Nat /\ k <= m
    BY SoundIs
  <2>3. n = m => k = m
    BY <2>2 DEF Known
  <2> QED
    BY <1>1, <2>1, <2>3 DEF Known
<1> QED
  BY <1>2, <1>3, <1>4, FitsIf

LEMMA CollectFits ==
  ASSUME IInv, Collect
  PROVE  IInv'
<1>1. PICK s, c, a : s = pages /\ c = call /\ a = answer
  OBVIOUS
<1>2. Fits(s, c, a) /\ c # NULL /\ c.at = "collect"
  BY <1>1 DEF IInv, Idle, Collect
<1>3. PICK n, m : Known(s, c, a, n, m)
  BY <1>2, FitsIs
<1>4. PICK r \in AsyncCompressWait(s, FALSE) :
        /\ pages' = r[2] /\ call' = [c EXCEPT !.at = IF r[1] THEN "collect" ELSE "room"]
        /\ answer' = a
  BY <1>1 DEF Collect, Goes
<1>5. Sound(s, n, m) /\ c \in Calls
  BY <1>2, <1>3 DEF Known
<1>6. PICK t, k : \E more \in BOOLEAN :
           /\ r = <<more, t>> /\ Sound(t, k, m) /\ SameArchive(s, t) /\ n <= k
           /\ ~more /\ FALSE => k = m
           /\ s.mode = "compress" /\ s.kind \in {"thread", "process"} => t.worker.idle > 0
  BY <1>5, CompressWaitIs
<1>7. PICK step \in {"collect", "room"} : call' = [c EXCEPT !.at = step]
  BY <1>4
<1>8. PICK d : d = [c EXCEPT !.at = step]
  OBVIOUS
<1>9. d \in Calls /\ d # NULL /\ d.at = step /\ d.idx = c.idx
  <2>1. step \in Steps
    BY DEF Steps
  <2> QED
    BY <1>5, <1>8, <2>1, GoesIs
<1>10. Adding(c) /\ Adding(d)
  BY <1>2, <1>9 DEF Adding
<1>11. c.idx = Len(s.index) /\ c.idx > 0 /\ IsAsync(s)
  BY <1>3, <1>10 DEF Known, CallFits
<1>12. SameContents(s, t) /\ t.mode = s.mode /\ t.kind = s.kind /\ t.isCustom = s.isCustom
  BY <1>6 DEF SameArchive
<1>13. CallFits(t, d, k)
  <2>1. d.idx = Len(t.index) /\ d.idx > 0 /\ IsAsync(t)
    BY <1>9, <1>11, <1>12 DEF IsAsync, SameContents
  <2>2. t.kind \in {"thread", "process"} => t.worker.idle > 0
    BY <1>6, <1>11, <1>12 DEF IsAsync
  <2> QED
    BY <1>9, <2>1, <2>2 DEF CallFits
<1>14. AnswerFits(t, a)
  BY <1>3, <1>12, AnswerKeeps DEF Known
<1>15. Fits(t, d, a)
  BY <1>3, <1>6, <1>9, <1>10, <1>13, <1>14, NextFits
<1> QED
  BY <1>4, <1>6, <1>7, <1>8, <1>15 DEF IInv

LEMMA MakeRoomFits ==
  ASSUME IInv, MakeRoom
  PROVE  IInv'
<1>1. PICK s, c, a : s = pages /\ c = call /\ a = answer
  OBVIOUS
<1>2. Fits(s, c, a) /\ c # NULL /\ c.at = "room"
  BY <1>1 DEF IInv, Idle, MakeRoom
<1>3. PICK n, m : Known(s, c, a, n, m)
  BY <1>2, FitsIs
<1>4. PICK r \in AsyncCompressWait(s, FALSE) : pages' = r[2] /\ call' = c /\ answer' = a
  BY <1>1 DEF MakeRoom
<1>5. Sound(s, n, m) /\ c \in Calls
  BY <1>2, <1>3 DEF Known
<1>6. PICK t, k : \E more \in BOOLEAN :
           /\ r = <<more, t>> /\ Sound(t, k, m) /\ SameArchive(s, t) /\ n <= k
           /\ ~more /\ FALSE => k = m
           /\ s.mode = "compress" /\ s.kind \in {"thread", "process"} => t.worker.idle > 0
  BY <1>5, CompressWaitIs
<1>7. Adding(c)
  BY <1>2 DEF Adding
<1>8. c.idx = Len(s.index) /\ c.idx > 0 /\ IsAsync(s)
  BY <1>3, <1>7 DEF Known, CallFits
<1>9. SameContents(s, t) /\ t.mode = s.mode /\ t.kind = s.kind /\ t.isCustom = s.isCustom
  BY <1>6 DEF SameArchive
<1>10. CallFits(t, c, k)
  <2>1. c.idx = Len(t.index) /\ c.idx > 0 /\ IsAsync(t)
    BY <1>8, <1>9 DEF IsAsync, SameContents
  <2>2. t.kind \in {"thread", "process"} => t.worker.idle > 0
    BY <1>6, <1>8, <1>9 DEF IsAsync
  <2> QED
    BY <1>2, <2>1, <2>2 DEF CallFits
<1>11. AnswerFits(t, a)
  BY <1>3, <1>9, AnswerKeeps DEF Known
<1>12. Fits(t, c, a)
  BY <1>3, <1>5, <1>6, <1>10, <1>11, NextFits
<1> QED
  BY <1>4, <1>6, <1>12 DEF IInv

LEMMA SendOffFits ==
  ASSUME IInv, SendOff
  PROVE  IInv'
<1>1. PICK s, c, a : s = pages /\ c = call /\ a = answer
  OBVIOUS
<1>2. Fits(s, c, a) /\ c # NULL /\ c.at = "room" /\ Len(s.asyncPage) < MaxAsync
  BY <1>1 DEF IInv, Idle, SendOff
<1>3. PICK n, m : Known(s, c, a, n, m)
  BY <1>2, FitsIs
<1>4. Adding(c)
  BY <1>2 DEF Adding
<1>5. c.idx = m + 1 /\ m + 1 = Len(s.index) /\ IsAsync(s)
      /\ (s.kind \in {"thread", "process"} => s.worker.idle > 0)
  BY <1>2, <1>3, <1>4 DEF Known, CallFits, Sent
<1>6. PICK t : t = SentOff(s, m + 1)
  OBVIOUS
<1>7. pages' = t /\ call' = NULL /\ answer' = a
  BY <1>1, <1>5, <1>6 DEF SendOff, SentOff, Returns
<1>8. Sound(s, n, m) /\ m < Len(s.index)
  BY <1>3, <1>5 DEF Known
<1>9. Sound(t, n, m + 1) /\ SameArchive(s, t)
  BY <1>2, <1>5, <1>6, <1>8, SendSound
<1>10. SameContents(s, t) /\ t.isUptodate = s.isUptodate
  BY <1>9 DEF SameArchive
<1>11. AnswerFits(t, a)
  BY <1>3, <1>10, AnswerKeeps DEF Known
<1>12. t.isUptodate = s.isUptodate /\ ~s.isUptodate
  BY <1>3, <1>4, <1>10 DEF Known
<1>13. PICK l : l = m + 1
  OBVIOUS
<1>14. l = Sent(t, NULL) /\ Len(t.index) <= MaxPages /\ CallFits(t, NULL, n)
  BY <1>3, <1>5, <1>10, <1>13, NoCall DEF Known, SameContents
<1>15. Fits(t, NULL, a)
  BY <1>9, <1>11, <1>12, <1>13, <1>14, FitsIf
<1> QED
  BY <1>7, <1>15 DEF IInv

LEMMA WaitIfLoadingFits ==
  ASSUME IInv, WaitIfLoading
  PROVE  IInv'
<1>1. PICK s, c, a : s = pages /\ c = call /\ a = answer
  OBVIOUS
<1>2. Fits(s, c, a) /\ c # NULL /\ c.at = "loading"
  BY <1>1 DEF IInv, Idle, WaitIfLoading
<1>3. PICK n, m : Known(s, c, a, n, m)
  BY <1>2, FitsIs
<1>4. /\ Sound(s, n, m) /\ c \in Calls /\ m = Len(s.index) /\ ~Adding(c)
      /\ c.idx \in DOMAIN s.index
      /\ c.to \in Nat \ {0}
  <2>1. /\ Sound(s, n, m) /\ c \in Calls /\ m = Len(s.index) /\ ~Adding(c)
        /\ c.idx \in DOMAIN s.index
        /\ c.to > 0
    BY <1>2, <1>3, NotAdding DEF Known, CallFits
  <2> QED
    BY <2>1 DEF Calls
<1>5. PICK d : d = [c EXCEPT !.at = "cached"]
  OBVIOUS
<1>6. d \in Calls /\ d # NULL /\ d.at = "cached" /\ d.idx = c.idx
  <2>1. "cached" \in Steps
    BY DEF Steps
  <2> QED
    BY <1>4, <1>5, <2>1, GoesIs
<1>7. \E u : /\ Sound(u, n, m) /\ SameArchive(s, u)
             /\ pages' = Preloaded(u, c.to).pages
  <2>1. CASE c.idx \in Range(s.asyncDecompressIdx)
    <3>1. PICK r \in AsyncDecompressWait(s, c.idx) : pages' = Preloaded(r[2], c.to).pages
      BY <1>1, <2>1 DEF WaitIfLoading
    <3>2. PICK u : \E more \in BOOLEAN :
            r = <<more, u>> /\ Sound(u, n, m) /\ SameArchive(s, u) /\ u.asyncPage = s.asyncPage
      BY <1>4, DecompressWaitIs
    <3>3. r[2] = u
      BY <3>2
    <3> QED
      BY <3>1, <3>2, <3>3
  <2>2. CASE c.idx \notin Range(s.asyncDecompressIdx)
    <3>1. pages' = Preloaded(s, c.to).pages
      BY <1>1, <2>2 DEF WaitIfLoading
    <3> QED
      BY <1>4, <3>1, SameIsSame
  <2> QED
    BY <2>1, <2>2
<1>8. PICK u : /\ Sound(u, n, m) /\ SameArchive(s, u) /\ pages' = Preloaded(u, c.to).pages
  BY <1>7
<1>9. PICK ahead : ahead = Preloaded(u, c.to)
  OBVIOUS
<1>10. PICK t : t = ahead.pages
  OBVIOUS
<1>11. Sound(t, n, m) /\ SameArchive(u, t)
  <2>1. m = Len(u.index)
    BY <1>4, <1>8 DEF SameArchive, SameContents
  <2>2. PICK to : to = c.to
    OBVIOUS
  <2> QED
    BY <1>4, <1>8, <1>9, <1>10, <2>1, <2>2, PreloadedIs
<1>12. SameArchive(s, t)
  BY <1>8, <1>11 DEF SameArchive, SameContents
<1>13. SameContents(s, t)
  BY <1>12 DEF SameArchive
<1>14. ~Adding(d) /\ CallFits(t, d, n)
  BY <1>4, <1>6, <1>13, NotAdding DEF CallFits, SameContents
<1>15. AnswerFits(t, a) /\ n <= n
  BY <1>3, <1>13, AnswerKeeps DEF Known
<1>16. Fits(t, d, a)
  BY <1>3, <1>4, <1>6, <1>11, <1>12, <1>14, <1>15, NextFits
<1>17. pages' = t /\ call' = d /\ answer' = a
  BY <1>1, <1>5, <1>8, <1>9, <1>10 DEF WaitIfLoading, Goes
<1> QED
  BY <1>16, <1>17 DEF IInv

\* An answer with the content of the page that was asked for
LEMMA AnsweredFits ==
  ASSUME NEW s, NEW c, NEW a, NEW n, NEW m, Known(s, c, a, n, m), ~Adding(c),
         NEW t, Sound(t, n, m), SameArchive(s, t),
         NEW i \in DOMAIN s.index, NEW content, content = s.index[i].content
  PROVE  Fits(t, NULL, [idx |-> i, content |-> content])
<1>1. PICK b : b = [idx |-> i, content |-> content]
  OBVIOUS
<1>2. b.idx = i /\ b.content = content
  BY <1>1
<1>3. AnswerFits(t, b)
  BY <1>2 DEF AnswerFits, SameArchive, SameContents
<1>4. CallFits(t, NULL, n) /\ ~Adding(NULL) /\ n <= n
  BY NoCall DEF Known
<1>5. Fits(t, NULL, b)
  BY <1>3, <1>4, NextFits
<1> QED
  BY <1>1, <1>5

LEMMA LookInCacheFits ==
  ASSUME IInv, LookInCache
  PROVE  IInv'
<1>1. PICK s, c, a : s = pages /\ c = call /\ a = answer
  OBVIOUS
<1>2. Fits(s, c, a) /\ c # NULL /\ c.at = "cached" /\ pages' = s
  BY <1>1 DEF IInv, Idle, LookInCache
<1>3. PICK n, m : Known(s, c, a, n, m)
  BY <1>2, FitsIs
<1>4. /\ Sound(s, n, m) /\ c \in Calls /\ ~Adding(c) /\ c.idx \in DOMAIN s.index
      /\ SameArchive(s, s)
  BY <1>2, <1>3, NotAdding, SameIsSame DEF Known, CallFits
<1>5. CASE c.idx \in DOMAIN s.cache
  <2>1. PICK i : i = c.idx
    OBVIOUS
  <2>2. PICK content : content = s.cache[i]
    OBVIOUS
  <2>3. i \in DOMAIN s.index /\ content = s.index[i].content
    BY <1>4, <1>5, <2>1, <2>2 DEF Sound, Cached
  <2>4. Fits(s, NULL, [idx |-> i, content |-> content])
    BY <1>3, <1>4, <2>3, AnsweredFits
  <2>5. call' = NULL /\ answer' = [idx |-> i, content |-> content]
    BY <1>1, <1>5, <2>1, <2>2 DEF LookInCache, Answered, Returns
  <2> QED
    BY <1>2, <2>4, <2>5 DEF IInv
<1>6. CASE c.idx \notin DOMAIN s.cache
  <2>1. PICK d : d = [c EXCEPT !.at = "pending"]
    OBVIOUS
  <2>2. call' = d /\ answer' = a
    BY <1>1, <1>6, <2>1 DEF LookInCache, Goes
  <2>3. d \in Calls /\ d # NULL /\ d.at = "pending" /\ d.idx = c.idx
    <3>1. "pending" \in Steps
      BY DEF Steps
    <3> QED
      BY <1>4, <2>1, <3>1, GoesIs
  <2>4. ~Adding(d) /\ CallFits(s, d, n)
    BY <1>4, <2>3, NotAdding DEF CallFits
  <2>5. Fits(s, d, a)
    BY <1>3, <1>4, <2>3, <2>4, NextFits DEF Known
  <2> QED
    BY <1>2, <2>2, <2>5 DEF IInv
<1> QED
  BY <1>5, <1>6

LEMMA LookInQueuesFits ==
  ASSUME IInv, LookInQueues
  PROVE  IInv'
<1>1. PICK s, c, a : s = pages /\ c = call /\ a = answer
  OBVIOUS
<1>2. Fits(s, c, a) /\ c # NULL /\ c.at = "pending"
  BY <1>1 DEF IInv, Idle, LookInQueues
<1>3. PICK n, m : Known(s, c, a, n, m)
  BY <1>2, FitsIs
<1>4. /\ Sound(s, n, m) /\ c \in Calls /\ ~Adding(c) /\ m = Len(s.index)
      /\ c.idx \in DOMAIN s.index /\ SameArchive(s, s)
  BY <1>2, <1>3, NotAdding, SameIsSame DEF Known, CallFits
<1> DEFINE slots == {k \in DOMAIN s.asyncDecompressIdx : s.asyncDecompressIdx[k] = c.idx}
<1>5. CASE IsAsync(s) /\ c.idx \in Range(s.asyncPage)
  <2>1. PICK i : i = c.idx
    OBVIOUS
  <2>2. PICK content : content = s.index[i].content
    OBVIOUS
  <2>3. PICK t \in PageCacheSet(s, i, s.index[i].content) :
          pages' = t /\ call' = NULL /\ answer' = [idx |-> i, content |-> content]
    BY <1>1, <1>5, <2>1, <2>2 DEF LookInQueues, Answered, Returns
  <2>4. i \in DOMAIN s.index
    BY <1>4, <2>1
  <2>5. Sound(t, n, m) /\ SameArchive(s, t)
    BY <1>4, <2>4, CacheSound
  <2>6. Fits(t, NULL, [idx |-> i, content |-> content])
    BY <1>3, <1>4, <2>2, <2>4, <2>5, AnsweredFits
  <2> QED
    BY <2>3, <2>6 DEF IInv
<1>6. CASE ~(IsAsync(s) /\ c.idx \in Range(s.asyncPage))
  <2>1. /\ pages' = s /\ answer' = a
        /\ call' = IF slots = {} THEN [c EXCEPT !.at = "read"]
                   ELSE [op |-> c.op, idx |-> c.idx, to |-> Min(slots), at |-> "slot"]
    BY <1>1, <1>6 DEF LookInQueues
  <2>2. c.idx <= n
    <3>1. /\ n \in Nat /\ m \in Nat /\ Range(s.asyncPage) = n + 1 .. m
          /\ s.index \in Seq(PageRecords) /\ DOMAIN s.index = 1 .. m
      BY <1>4, SoundIs, IndexIs
    <3>2. ~IsAsync(s) => ~(n < m)
      BY <1>4 DEF Sound, Awaits
    <3> QED
      BY <1>4, <1>6, <3>1, <3>2
  <2>3. \E d \in Calls : call' = d /\ d.at \in {"read", "slot"} /\ d.idx = c.idx
    <3>1. CASE slots = {}
      <4>1. PICK d : d = [c EXCEPT !.at = "read"]
        OBVIOUS
      <4>2. d \in Calls /\ d # NULL /\ d.at = "read" /\ d.idx = c.idx
        <5>1. "read" \in Steps
          BY DEF Steps
        <5> QED
          BY <1>4, <4>1, <5>1, GoesIs
      <4> QED
        BY <2>1, <3>1, <4>1, <4>2
    <3>2. CASE slots # {}
      <4>1. /\ s.asyncDecompressIdx \in Seq(Nat) /\ Distinct(s.asyncDecompressIdx)
            /\ DOMAIN s.index = 1 .. m /\ m \in Nat /\ m <= MaxPages
            /\ Range(s.asyncDecompressIdx) \subseteq DOMAIN s.index
        <5>1. Range(s.asyncDecompressIdx) \subseteq DOMAIN s.index
          BY <1>4 DEF Sound, Queued
        <5> QED
          BY <1>3, <1>4, <5>1, SoundIs, IndexIs DEF Known
      <4>2. Len(s.asyncDecompressIdx) <= m /\ Len(s.asyncDecompressIdx) \in Nat
            /\ DOMAIN s.asyncDecompressIdx = 1 .. Len(s.asyncDecompressIdx)
        <5>1. Cardinality(Range(s.asyncDecompressIdx)) = Len(s.asyncDecompressIdx)
          BY <4>1, DistinctLength
        <5>2. IsFiniteSet(1 .. m) /\ Cardinality(1 .. m) = m
          <6>1. 1 \in Int /\ m \in Int
            BY <4>1
          <6> QED
            BY <4>1, <6>1, FS_Interval
        <5>3. Cardinality(Range(s.asyncDecompressIdx)) <= Cardinality(1 .. m)
          BY <4>1, <5>2, FS_Subset
        <5> QED
          BY <4>1, <5>1, <5>2, <5>3, LenProperties
      <4>3. Min(slots) \in slots
        <5>1. slots \subseteq Nat
          BY <4>2
        <5> HIDE DEF slots
        <5> QED
          BY <3>2, <5>1, LeastIsMin
      <4>4. Min(slots) \in 0 .. MaxPages + 1
        BY <4>1, <4>2, <4>3, AsyncAssumption
      <4> HIDE DEF slots
      <4>5. PICK d : d = [op |-> c.op, idx |-> c.idx, to |-> Min(slots), at |-> "slot"]
        OBVIOUS
      <4>6. d \in Calls /\ d.at = "slot" /\ d.idx = c.idx
        BY <1>4, <4>4, <4>5 DEF Calls
      <4> QED
        BY <2>1, <3>2, <4>5, <4>6
    <3> QED
      BY <3>1, <3>2
  <2>4. PICK d \in Calls : call' = d /\ d.at \in {"read", "slot"} /\ d.idx = c.idx
    BY <2>3
  <2>5. ~Adding(d) /\ CallFits(s, d, n)
    BY <1>4, <2>2, <2>4, NotAdding DEF CallFits
  <2>6. Fits(s, d, a)
    <3>1. n <= n /\ AnswerFits(s, a) /\ d \in Calls \cup {NULL}
      BY <1>3, <2>4 DEF Known
    <3> QED
      BY <1>3, <1>4, <2>5, <3>1, NextFits
  <2> QED
    BY <2>1, <2>4, <2>6 DEF IInv
<1> QED
  BY <1>5, <1>6

LEMMA WaitForSlotFits ==
  ASSUME IInv, WaitForSlot
  PROVE  IInv'
<1>1. PICK s, c, a : s = pages /\ c = call /\ a = answer
  OBVIOUS
<1>2. Fits(s, c, a) /\ c # NULL /\ c.at = "slot"
  BY <1>1 DEF IInv, Idle, WaitForSlot
<1>3. PICK n, m : Known(s, c, a, n, m)
  BY <1>2, FitsIs
<1>4. /\ Sound(s, n, m) /\ c \in Calls /\ ~Adding(c) /\ c.idx \in DOMAIN s.index /\ c.idx <= n
      /\ SameArchive(s, s) /\ n <= n /\ AnswerFits(s, a)
  BY <1>2, <1>3, NotAdding, SameIsSame DEF Known, CallFits
<1>5. CASE /\ c.to \in DOMAIN s.asyncDecompressIdx
           /\ s.asyncDecompressIdx[c.to] = c.idx
  <2>1. PICK r \in AsyncDecompressWait(s, c.idx) : pages' = r[2] /\ call' = c /\ answer' = a
    BY <1>1, <1>5 DEF WaitForSlot
  <2>2. PICK t : \E more \in BOOLEAN :
          r = <<more, t>> /\ Sound(t, n, m) /\ SameArchive(s, t) /\ t.asyncPage = s.asyncPage
    BY <1>4, DecompressWaitIs
  <2>3. SameContents(s, t)
    BY <2>2 DEF SameArchive
  <2>4. CallFits(t, c, n) /\ AnswerFits(t, a)
    BY <1>2, <1>4, <2>3, AnswerKeeps DEF CallFits, SameContents
  <2>5. Fits(t, c, a)
    BY <1>3, <1>4, <2>2, <2>4, NextFits
  <2>6. pages' = t
    BY <2>1, <2>2
  <2> QED
    BY <2>1, <2>5, <2>6 DEF IInv
<1>6. CASE ~(/\ c.to \in DOMAIN s.asyncDecompressIdx
             /\ s.asyncDecompressIdx[c.to] = c.idx)
  <2>0. pages' = s
    BY <1>1, <1>6 DEF WaitForSlot
  <2>1. CASE c.idx \in DOMAIN s.cache
    <3>1. PICK i : i = c.idx
      OBVIOUS
    <3>2. PICK content : content = s.cache[i]
      OBVIOUS
    <3>3. i \in DOMAIN s.index /\ content = s.index[i].content
      BY <1>4, <2>1, <3>1, <3>2 DEF Sound, Cached
    <3>4. Fits(s, NULL, [idx |-> i, content |-> content])
      BY <1>3, <1>4, <3>3, AnsweredFits
    <3>5. call' = NULL /\ answer' = [idx |-> i, content |-> content]
      BY <1>1, <1>6, <2>1, <3>1, <3>2 DEF WaitForSlot, Answered, Returns
    <3> QED
      BY <2>0, <3>4, <3>5 DEF IInv
  <2>2. CASE c.idx \notin DOMAIN s.cache
    <3>1. PICK d : d = [c EXCEPT !.at = "read"]
      OBVIOUS
    <3>2. call' = d /\ answer' = a
      BY <1>1, <1>6, <2>2, <3>1 DEF WaitForSlot, Goes
    <3>3. d \in Calls /\ d # NULL /\ d.at = "read" /\ d.idx = c.idx
      <4>1. "read" \in Steps
        BY DEF Steps
      <4> QED
        BY <1>4, <3>1, <4>1, GoesIs
    <3>4. ~Adding(d) /\ CallFits(s, d, n)
      BY <1>4, <3>3, NotAdding DEF CallFits
    <3>5. Fits(s, d, a)
      BY <1>3, <1>4, <3>3, <3>4, NextFits
    <3> QED
      BY <2>0, <3>2, <3>5 DEF IInv
  <2> QED
    BY <2>1, <2>2
<1> QED
  BY <1>5, <1>6

LEMMA ReadFits ==
  ASSUME IInv, Read
  PROVE  IInv'
<1>1. PICK s, c, a : s = pages /\ c = call /\ a = answer
  OBVIOUS
<1>2. Fits(s, c, a) /\ c # NULL /\ c.at = "read"
  BY <1>1 DEF IInv, Idle, Read
<1>3. PICK n, m : Known(s, c, a, n, m)
  BY <1>2, FitsIs
<1>4. /\ Sound(s, n, m) /\ c \in Calls /\ ~Adding(c) /\ c.idx \in DOMAIN s.index /\ c.idx <= n
  BY <1>2, <1>3, NotAdding DEF Known, CallFits
<1>5. PICK i : i = c.idx
  OBVIOUS
<1>6. PICK t : t = ReadPage(s, i)
  OBVIOUS
<1>7. Sound(t, n, m) /\ SameArchive(s, t) /\ Found(t, i)
  BY <1>4, <1>5, <1>6, ReadSound
<1>8. i \in DOMAIN t.index /\ t.index[i].content = s.index[i].content
  BY <1>4, <1>5, <1>7 DEF SameArchive, SameContents
<1>9. PICK content : content = t.index[i].content
  OBVIOUS
<1>10. content # NULL
  <2>1. t \in States
    BY <1>7 DEF Sound
  <2>2. content \in Contents
    BY <1>8, <1>9, <2>1, IndexIs
  <2> QED
    BY <2>2, AsyncAssumption
<1>11. PICK u \in PageCacheSet(t, i, t.index[i].content) :
         pages' = u /\ call' = NULL /\ answer' = [idx |-> i, content |-> content]
  BY <1>1, <1>5, <1>6, <1>7, <1>9, <1>10 DEF Read, Answered, Returns
<1>12. Sound(u, n, m) /\ SameArchive(t, u)
  BY <1>7, <1>8, CacheSound
<1>13. SameArchive(s, u)
  BY <1>7, <1>12 DEF SameArchive, SameContents
<1>14. Fits(u, NULL, [idx |-> i, content |-> content])
  BY <1>3, <1>4, <1>5, <1>8, <1>9, <1>12, <1>13, AnsweredFits
<1> QED
  BY <1>11, <1>14 DEF IInv

LEMMA GetInfoFits ==
  ASSUME IInv, NothingFails, NEW i \in DOMAIN pages.index, GetInfo(i)
  PROVE  IInv'
<1>0. Idle
  BY DEF GetInfo
<1>1. PICK s, c, a : s = pages /\ c = call /\ a = answer
  OBVIOUS
<1>2. Fits(s, c, a) /\ c = NULL
  BY <1>0, <1>1 DEF IInv, Idle
<1>3. PICK n, m : Known(s, c, a, n, m)
  BY <1>2, FitsIs
<1>4. /\ Sound(s, n, m) /\ s \in States /\ InPlace(s, n) /\ n \in Nat /\ n <= m
      /\ m = Len(s.index) /\ DOMAIN s.index = 1 .. m /\ m \in Nat
  BY <1>2, <1>3, NoCall, IndexIs DEF Known, Sound
<1>5. i <= n + 1
  <2>1. \A j \in 1 .. i - 1 : s.index[j].size >= 0
    BY <1>1 DEF GetInfo, NothingFails
  <2> SUFFICES ASSUME ~(i <= n + 1) PROVE FALSE
    OBVIOUS
  <2>2. PICK j : j = n + 1
    OBVIOUS
  <2>3. j \in 1 .. i - 1 /\ j \in 1 .. m /\ ~(j <= n)
    BY <1>1, <1>4, <2>2
  <2>4. s.index[j].size = -1
    BY <1>4, <2>3 DEF InPlace
  <2> QED
    BY <2>1, <2>3, <2>4
<1>6. PICK t : t = GetStartOffset(s, i)
  OBVIOUS
<1>7. t \in States /\ SameContents(s, t) /\ SameRest(s, t) /\ InPlace(t, n)
  BY <1>1, <1>4, <1>5, <1>6, ToldIs
<1>8. Sound(t, n, m) /\ SameArchive(s, t)
  BY <1>4, <1>7, PlacesSound
<1>9. AnswerFits(t, a) /\ CallFits(t, NULL, n) /\ ~Adding(NULL) /\ n <= n
  BY <1>3, <1>7, AnswerKeeps, NoCall DEF Known
<1>10. Fits(t, c, a)
  BY <1>2, <1>3, <1>8, <1>9, NextFits
<1> QED
  BY <1>1, <1>6, <1>10 DEF IInv, GetInfo

\* The compression is set, or the archive closed: everything is written first.
LEMMA DrainingFits ==
  ASSUME IInv, Idle, NEW op \in {"set", "close"},
         call' = [op |-> op, idx |-> 0, to |-> 0, at |-> "drain"],
         pages' = pages, answer' = answer
  PROVE  IInv'
<1>1. PICK s, c, a : s = pages /\ c = call /\ a = answer
  OBVIOUS
<1>2. Fits(s, c, a) /\ c = NULL
  BY <1>1 DEF IInv, Idle
<1>3. PICK n, m : Known(s, c, a, n, m)
  BY <1>2, FitsIs
<1>4. PICK d : d = [op |-> op, idx |-> 0, to |-> 0, at |-> "drain"]
  OBVIOUS
<1>5. d \in Calls /\ d.at = "drain"
  BY <1>4, AsyncAssumption DEF Calls
<1>6. ~Adding(d) /\ ~Adding(c) /\ CallFits(s, d, n)
  BY <1>2, <1>5, NotAdding, NoCall DEF CallFits
<1>7. Sound(s, n, m) /\ SameArchive(s, s) /\ n <= n /\ AnswerFits(s, a)
  BY <1>3, SameIsSame DEF Known
<1>8. Fits(s, d, a)
  BY <1>3, <1>5, <1>6, <1>7, NextFits
<1> QED
  BY <1>1, <1>4, <1>8 DEF IInv

LEMMA DrainFits ==
  ASSUME IInv, Drain
  PROVE  IInv'
<1>1. PICK s, c, a : s = pages /\ c = call /\ a = answer
  OBVIOUS
<1>2. Fits(s, c, a) /\ c # NULL /\ c.at = "drain" /\ answer' = a
  BY <1>1 DEF IInv, Idle, Drain
<1>3. PICK n, m : Known(s, c, a, n, m)
  BY <1>2, FitsIs
<1>4. PICK r \in AsyncCompressWait(s, TRUE) :
        IF r[1] \/ c.op = "close"
        THEN pages' = r[2] /\ call' = [c EXCEPT !.at = IF r[1] THEN "drain" ELSE "preloads"]
        ELSE pages' = [r[2] EXCEPT !.isCustom = ~@] /\ call' = NULL
  BY <1>1 DEF Drain, Goes, Returns
<1>5. Sound(s, n, m) /\ c \in Calls /\ ~Adding(c) /\ m = Len(s.index)
  BY <1>2, <1>3, NotAdding DEF Known
<1>6. PICK t, k : \E more \in BOOLEAN :
           /\ r = <<more, t>> /\ Sound(t, k, m) /\ SameArchive(s, t) /\ n <= k
           /\ ~more /\ TRUE => k = m
           /\ s.mode = "compress" /\ s.kind \in {"thread", "process"} => t.worker.idle > 0
  BY <1>5, CompressWaitIs
<1>7. /\ Sound(t, k, m) /\ SameArchive(s, t) /\ n <= k /\ r[2] = t /\ (~r[1] => k = m)
      /\ r[1] \in BOOLEAN
  BY <1>6
<1>8. SameContents(s, t) /\ (t.asyncPage = <<>> <=> k = m)
  BY <1>7, SoundIs DEF SameArchive
<1>9. AnswerFits(t, a)
  BY <1>3, <1>8, AnswerKeeps DEF Known
<1>10. CASE r[1] \/ c.op = "close"
  <2>1. PICK step : step = IF r[1] THEN "drain" ELSE "preloads"
    OBVIOUS
  <2>2. PICK d : d = [c EXCEPT !.at = step]
    OBVIOUS
  <2>3. pages' = t /\ call' = d
    BY <1>4, <1>7, <1>10, <2>1, <2>2
  <2>4. d \in Calls /\ d # NULL /\ d.at = step
    <3>1. step \in Steps
      BY <2>1 DEF Steps
    <3> QED
      BY <1>5, <2>2, <3>1, GoesIs
  <2>5. step = "drain" \/ (step = "preloads" /\ t.asyncPage = <<>>)
    BY <1>7, <1>8, <2>1
  <2>6. ~Adding(d) /\ CallFits(t, d, k)
    BY <2>4, <2>5, NotAdding DEF CallFits
  <2>7. Fits(t, d, a)
    BY <1>3, <1>5, <1>7, <1>9, <2>4, <2>6, NextFits
  <2> QED
    BY <1>2, <2>3, <2>7 DEF IInv
<1>11. CASE ~(r[1] \/ c.op = "close")
  <2>1. PICK u : u = [t EXCEPT !.isCustom = ~@]
    OBVIOUS
  <2>2. pages' = u /\ call' = NULL
    BY <1>4, <1>7, <1>11, <2>1
  <2>3. Sound(t, m, m)
    BY <1>7, <1>11
  <2>4. Sound(u, m, m) /\ SameContents(t, u) /\ u.isUptodate = t.isUptodate
    BY <2>1, <2>3, CustomSound
  <2>5. u.asyncPage = <<>>
    <3>1. u.asyncPage = <<>> <=> m = m
      BY <2>4, SoundIs
    <3> QED
      BY <3>1
  <2>6. AnswerFits(u, a) /\ Len(u.index) = m /\ m <= MaxPages
    BY <1>3, <1>5, <1>8, <1>9, <2>4, AnswerKeeps DEF SameContents, Known
  <2>7. CallFits(u, NULL, m) /\ ~Adding(NULL) /\ m = Sent(u, NULL)
    BY <2>6, NoCall
  <2>8. Fits(u, NULL, a)
    BY <2>4, <2>5, <2>6, <2>7, FitsIf
  <2> QED
    BY <1>2, <2>2, <2>8 DEF IInv
<1> QED
  BY <1>10, <1>11

LEMMA DrainPreloadsFits ==
  ASSUME IInv, DrainPreloads
  PROVE  IInv'
<1>1. PICK s, c, a : s = pages /\ c = call /\ a = answer
  OBVIOUS
<1>2. Fits(s, c, a) /\ c # NULL /\ c.at = "preloads" /\ answer' = a
  BY <1>1 DEF IInv, Idle, DrainPreloads
<1>3. PICK n, m : Known(s, c, a, n, m)
  BY <1>2, FitsIs
<1>4. PICK r \in AsyncDecompressWait(s, -1) :
        pages' = r[2] /\ call' = [c EXCEPT !.at = IF r[1] THEN "preloads" ELSE "closed"]
  BY <1>1 DEF DrainPreloads, Goes
<1>5. Sound(s, n, m) /\ c \in Calls /\ ~Adding(c) /\ s.asyncPage = <<>>
  BY <1>2, <1>3, NotAdding DEF Known, CallFits
<1>6. PICK t : \E more \in BOOLEAN :
        r = <<more, t>> /\ Sound(t, n, m) /\ SameArchive(s, t) /\ t.asyncPage = s.asyncPage
  BY <1>5, DecompressWaitIs
<1>7. PICK step : step = IF r[1] THEN "preloads" ELSE "closed"
  OBVIOUS
<1>8. step \in {"preloads", "closed"}
  BY <1>7
<1>9. PICK d : d = [c EXCEPT !.at = step]
  OBVIOUS
<1>10. pages' = t /\ call' = d
  BY <1>4, <1>6, <1>7, <1>9
<1>11. d \in Calls /\ d # NULL /\ d.at = step
  <2>1. step \in Steps
    BY <1>8 DEF Steps
  <2> QED
    BY <1>5, <1>9, <2>1, GoesIs
<1>12. ~Adding(d) /\ CallFits(t, d, n)
  BY <1>5, <1>6, <1>8, <1>11, NotAdding DEF CallFits
<1>13. AnswerFits(t, a) /\ n <= n
  <2>1. SameContents(s, t)
    BY <1>6 DEF SameArchive
  <2> QED
    BY <1>3, <2>1, AnswerKeeps DEF Known
<1>14. Fits(t, d, a)
  BY <1>3, <1>5, <1>6, <1>11, <1>12, <1>13, NextFits
<1> QED
  BY <1>2, <1>10, <1>14 DEF IInv

LEMMA ReopenFits ==
  ASSUME IInv, NothingFails, Reopen
  PROVE  IInv'
<1>1. PICK s, c, a : s = pages /\ c = call /\ a = answer
  OBVIOUS
<1>2. Fits(s, c, a) /\ (c = NULL => s.isUptodate) /\ (c # NULL => c.at = "closed")
  BY <1>1 DEF IInv, Idle, Reopen
<1>3. PICK n, m : Known(s, c, a, n, m)
  BY <1>2, FitsIs
<1>4. ~Adding(c) /\ s.asyncPage = <<>> /\ n = m /\ m = Len(s.index)
  <2>1. ~Adding(c)
    BY <1>2 DEF Adding
  <2>2. s.asyncPage = <<>>
    BY <1>2, <1>3 DEF Known, CallFits
  <2> QED
    BY <1>3, <2>1, <2>2 DEF Known, Sent
<1>5. PICK mode \in {"compress", "decompress"}, kind \in Kinds :
        /\ MayBePreloaded(mode, {s.index[i].content : i \in DOMAIN s.index})
        /\ mode = "compress" => kind # "random"
        /\ pages' = Opened(s.index, s.file, mode, kind) /\ call' = NULL /\ answer' = NULL
  BY <1>1 DEF Reopen, Returns
<1>6. mode = "decompress" => \A i \in DOMAIN s.index : s.index[i].content \notin Raw
  BY <1>5 DEF MayBePreloaded, NothingFails
<1>7. PICK t : t = Opened(s.index, s.file, mode, kind)
  OBVIOUS
<1>8. s \in States /\ InPlace(s, m) /\ Len(s.index) <= MaxPages
  BY <1>3, <1>4 DEF Known, Sound
<1>9. Sound(t, m, m) /\ SameContents(s, t) /\ t.asyncPage = <<>>
  BY <1>4, <1>5, <1>6, <1>7, <1>8, OpenedSound
<1>10. Len(t.index) = m /\ Len(t.index) <= MaxPages
  BY <1>4, <1>8, <1>9 DEF SameContents
<1>11. CallFits(t, NULL, m) /\ ~Adding(NULL) /\ m = Sent(t, NULL) /\ AnswerFits(t, NULL)
  BY <1>10, NoCall DEF AnswerFits
<1>12. Fits(t, NULL, NULL)
  BY <1>9, <1>10, <1>11, FitsIf
<1> QED
  BY <1>5, <1>7, <1>12 DEF IInv

LEMMA FinishFits ==
  ASSUME IInv, NothingFails, NEW i, Finish(i)
  PROVE  IInv'
<1>1. PICK s, c, a : s = pages /\ c = call /\ a = answer
  OBVIOUS
<1>2. /\ Fits(s, c, a) /\ call' = c /\ answer' = a
      /\ s.kind \in {"thread", "process"} /\ i \in Range(s.worker.busy) \ s.worker.stranded
  BY <1>1 DEF IInv, Finish, HasWorker
<1>3. PICK n, m : Known(s, c, a, n, m)
  BY <1>2, FitsIs
<1>4. Sound(s, n, m) /\ s \in States /\ s.worker \in Callbacks
  BY <1>3 DEF Known, States
<1>5. ~MayFail(s, i)
  <2>1. Range(s.worker.busy) \subseteq Range(s.asyncPage) \cup Range(s.asyncDecompressIdx)
    BY <1>4 DEF Sound, Queued, Has
  <2>2. i \in DOMAIN s.index
    BY <1>2, <1>4, <2>1 DEF Sound, Queued
  <2>3. s.mode = "decompress" => s.index[i].content \notin Raw
    BY <1>4, <2>2 DEF Sound, Compressed
  <2> QED
    BY <2>3 DEF MayFail, NothingFails
<1>6. PICK v, w, t : /\ v = s.worker /\ w = [v EXCEPT !.done = @ \cup {i}]
                     /\ t = [s EXCEPT !.worker = w]
  OBVIOUS
<1>7. pages' = t
  <2>1. pages' = [s EXCEPT !.worker.done = @ \cup {i}, !.worker.failed = @]
    BY <1>1, <1>5 DEF Finish
  <2> QED
    BY ZenonT(30), <1>4, <1>6, <2>1 DEF States, Callbacks
<1>8. /\ Sound(t, n, m) /\ SameArchive(s, t) /\ t.asyncPage = s.asyncPage
      /\ t.worker.idle = s.worker.idle
  <2>1. t = [s EXCEPT !.worker = [s.worker EXCEPT !.done = @ \cup {i}]]
    BY <1>6
  <2> QED
    BY <1>2, <1>4, <2>1, FinishSound
<1>9. SameContents(s, t) /\ t.kind = s.kind /\ t.mode = s.mode /\ t.isCustom = s.isCustom
  BY <1>8 DEF SameArchive
<1>10. CallFits(t, c, n)
  <2>1. CallFits(s, c, n)
    BY <1>3 DEF Known
  <2> QED
    BY <1>8, <1>9, <2>1 DEF CallFits, SameContents, IsAsync
<1>11. AnswerFits(t, a) /\ n <= n /\ c \in Calls \cup {NULL}
  BY <1>3, <1>9, AnswerKeeps DEF Known
<1>12. Fits(t, c, a)
  BY <1>3, <1>8, <1>10, <1>11, NextFits
<1> QED
  BY <1>2, <1>7, <1>12 DEF IInv

LEMMA InitFits ==
  ASSUME Init
  PROVE  IInv
<1>1. PICK kind \in Kinds \ {"random"} :
        pages = Opened(<<>>, <<>>, "compress", kind) /\ call = NULL /\ answer = NULL
  BY DEF Init
<1>2. PICK s : s = [index |-> <<>>, file |-> <<>>, position |-> 0, fileLastOp |-> "unknown",
                    isUptodate |-> TRUE, isCustom |-> TRUE, mode |-> "compress", kind |-> kind,
                    asyncPage |-> <<>>, asyncDecompressIdx |-> <<>>, cache |-> <<>>,
                    worker |-> NoWorker]
  OBVIOUS
<1>3. <<>> \in Seq(PageRecords) /\ Len(<<>>) = 0 /\ <<>> \in Seq(Nat)
  BY EmptySeq
<1>4. <<>> \in Maps(Nat) /\ <<>> \in Maps(Contents)
  <2>1. <<>> \in [{} -> Nat] /\ <<>> \in [{} -> Contents]
    OBVIOUS
  <2> QED
    BY <2>1 DEF Maps
<1>5. s \in States
  BY <1>2, <1>3, <1>4, NoWorkerIs DEF States
<1>6. s.index = <<>> /\ s.file = <<>> /\ s.fileLastOp = "unknown"
  BY <1>2
<1>7. InPlace(s, 0) /\ Len(s.index) = 0
  <2>1. DOMAIN <<>> = {}
    OBVIOUS
  <2> QED
    BY <1>3, <1>6, <2>1 DEF InPlace
<1>8. PICK t : t = Opened(s.index, s.file, "compress", kind)
  OBVIOUS
<1>9. Sound(t, 0, 0) /\ SameContents(s, t) /\ t.asyncPage = <<>>
  <2>1. kind \in Kinds /\ kind # "random"
    OBVIOUS
  <2> QED
    BY <1>5, <1>7, <1>8, <2>1, OpenedSound
<1>10. Len(t.index) = 0 /\ Len(t.index) <= MaxPages
  BY <1>7, <1>9, AsyncAssumption DEF SameContents
<1>11. CallFits(t, NULL, 0) /\ ~Adding(NULL) /\ 0 = Sent(t, NULL) /\ AnswerFits(t, NULL)
  BY <1>10, NoCall DEF AnswerFits
<1>12. Fits(t, NULL, NULL)
  BY <1>9, <1>10, <1>11, FitsIf
<1> QED
  BY <1>1, <1>6, <1>8, <1>12 DEF IInv

\* Every step keeps the queues, the callback and the file together, when nothing fails.
LEMMA StepFits ==
  ASSUME IInv, NothingFails, [Next]_vars
  PROVE  IInv'
<1>1. CASE UNCHANGED vars
  BY <1>1 DEF vars, IInv
<1>2. CASE \E c \in Contents : Add(c)
  BY <1>2, AddFits
<1>3. CASE \E i \in DOMAIN pages.index : Get(i) \/ GetInfo(i)
  <2>1. PICK i \in DOMAIN pages.index : Get(i) \/ GetInfo(i)
    BY <1>3
  <2>2. CASE Get(i)
    <3>1. Idle /\ Getting("get", i) /\ answer' = answer
      BY <2>2 DEF Get
    <3> QED
      BY <3>1, GettingFits
  <2>3. CASE GetInfo(i)
    BY <2>3, GetInfoFits
  <2> QED
    BY <2>1, <2>2, <2>3
<1>4. CASE SetCompression
  BY <1>4, DrainingFits DEF SetCompression
<1>5. CASE Close
  BY <1>5, DrainingFits DEF Close
<1>6. CASE Reopen
  BY <1>6, ReopenFits
<1>7. CASE Goings
  BY <1>7, CollectFits, MakeRoomFits, SendOffFits, WaitIfLoadingFits, LookInCacheFits,
     LookInQueuesFits, WaitForSlotFits, ReadFits, DrainFits, DrainPreloadsFits DEF Goings
<1>8. CASE \E i \in 1 .. MaxPages : Finish(i)
  BY <1>8, FinishFits
<1> QED
  BY <1>1, <1>2, <1>3, <1>4, <1>5, <1>6, <1>7, <1>8 DEF Next

-----------------------------------------------------------------------------
\* What this says of pages

LEMMA ThenTypeOK ==
  ASSUME IInv
  PROVE  TypeOK
<1>1. PICK s, c, a : s = pages /\ c = call /\ a = answer
  OBVIOUS
<1>2. Fits(s, c, a)
  BY <1>1 DEF IInv
<1>3. PICK n, m : Known(s, c, a, n, m)
  BY <1>2, FitsIs
<1>4. Sound(s, n, m) /\ s \in States /\ n \in Nat /\ m \in Nat /\ n <= m /\ InPlace(s, n)
  BY <1>3 DEF Known, Sound
<1>5. DOMAIN s.index = 1 .. Len(s.index) /\ s.index \in Seq(PageRecords)
  BY <1>4, IndexIs
<1>6. DOMAIN s.file \subseteq Nat /\ Range(s.file) \subseteq 1 .. Len(s.index)
  <2>1. s.file \in Maps(Nat)
    BY <1>4 DEF States
  <2>2. DOMAIN s.file \subseteq Nat
    BY <2>1 DEF Maps
  <2>3. \A x \in DOMAIN s.file : s.file[x] \in DOMAIN s.index
    BY <1>4 DEF InPlace
  <2> QED
    BY <1>5, <2>2, <2>3 DEF Range
<1>7. /\ s.position \in Nat /\ s.fileLastOp \in {"unknown", "read", "write"}
      /\ s.isUptodate \in BOOLEAN /\ s.isCustom \in BOOLEAN
      /\ s.mode \in {"compress", "decompress"} /\ s.kind \in Kinds
      /\ s.asyncPage \in Seq(Nat) /\ s.asyncDecompressIdx \in Seq(Nat)
  BY <1>4 DEF States
<1>8. ASSUME NEW q \in Seq(Nat), Range(q) \subseteq 1 .. Len(s.index)
      PROVE  q \in Seq(1 .. Len(s.index))
  <2>1. \A k \in 1 .. Len(q) : q[k] \in 1 .. Len(s.index)
    <3>1. DOMAIN q = 1 .. Len(q)
      BY LenProperties
    <3> QED
      BY <1>8, <3>1 DEF Range
  <2>2. Len(q) \in Nat
    BY LenProperties
  <2>3. q = [k \in 1 .. Len(q) |-> q[k]]
    BY LenProperties
  <2> QED
    BY SMTT(30), <2>1, <2>2, <2>3 DEF Seq
<1>9. /\ s.asyncPage \in Seq(1 .. Len(s.index)) /\ s.asyncDecompressIdx \in Seq(1 .. Len(s.index))
  <2>1. Range(s.asyncPage) \subseteq 1 .. Len(s.index)
        /\ Range(s.asyncDecompressIdx) \subseteq 1 .. Len(s.index)
    BY <1>4, <1>5 DEF Sound, Queued
  <2> QED
    BY <1>7, <1>8, <2>1
<1>10. Len(s.asyncPage) <= MaxAsync
  <2>1. Len(Behind(n, m)) = m - n
    BY <1>4, BehindIs
  <2> QED
    BY <1>4, <2>1 DEF Sound, Awaits
<1>11. Len(s.asyncDecompressIdx) <= QueueSize
  BY <1>4 DEF Sound, Queued
<1>12. DOMAIN s.cache \subseteq 1 .. Len(s.index) /\ Cardinality(DOMAIN s.cache) <= CacheSize
  BY <1>4, <1>5 DEF Sound, Cached
<1>13. c \in Calls \cup {NULL}
  BY <1>3 DEF Known
<1>14. s.index \in Seq([content : Contents, size : -1 .. 2, offset : Int])
  BY <1>5 DEF PageRecords
<1> QED
  BY <1>1, <1>6, <1>7, <1>9, <1>10, <1>11, <1>12, <1>13, <1>14 DEF TypeOK, Ids

\* A queue and one page
LEMMA ConcatOne ==
  ASSUME NEW S, NEW q \in Seq(S), NEW x \in S
  PROVE  q \o <<x>> = Append(q, x)
OBVIOUS

LEMMA ConcatNone ==
  ASSUME NEW S, NEW q \in Seq(S)
  PROVE  q \o <<>> = q
OBVIOUS

LEMMA ThenQueueHoldsUnwritten ==
  ASSUME IInv
  PROVE  QueueHoldsUnwritten
<1>1. PICK s, c, a : s = pages /\ c = call /\ a = answer
  OBVIOUS
<1>2. Fits(s, c, a)
  BY <1>1 DEF IInv
<1>3. PICK n, m : Known(s, c, a, n, m)
  BY <1>2, FitsIs
<1>4. /\ s \in States /\ n \in Nat /\ m \in Nat /\ n <= m /\ InPlace(s, n)
      /\ Len(s.index) \in Nat /\ m = Sent(s, c)
      /\ s.asyncPage = Behind(n, m)
  BY <1>3 DEF Known, Sound, Awaits
<1>5. PICK adding : adding = IF c # NULL /\ c.at \in {"collect", "room"} THEN <<c.idx>> ELSE <<>>
  OBVIOUS
<1>6. PICK unwritten : unwritten = s.asyncPage \o adding
  OBVIOUS
<1>7. PICK l : l = Len(s.index)
  OBVIOUS
<1>8. unwritten = Behind(n, l) /\ n <= l
  <2>1. PICK q : q = Behind(n, m)
    OBVIOUS
  <2>2. q \in Seq(Nat)
    BY <1>4, <2>1, BehindIs
  <2>3. CASE Adding(c)
    <3>1. adding = <<c.idx>> /\ l = m + 1 /\ c.idx = l
      BY <1>3, <1>4, <1>5, <1>7, <2>3 DEF Adding, Sent, Known, CallFits
    <3>2. l \in Nat /\ n <= l
      BY <1>4, <3>1
    <3>3. q \o <<l>> = Append(q, l)
      BY <2>2, <3>2, ConcatOne
    <3>4. Append(Behind(n, m), m + 1) = Behind(n, m + 1)
      BY <1>4, BehindMore
    <3> QED
      BY <1>4, <1>6, <2>1, <3>1, <3>2, <3>3, <3>4
  <2>4. CASE ~Adding(c)
    <3>1. adding = <<>> /\ l = m
      BY <1>4, <1>5, <1>7, <2>4 DEF Adding, Sent
    <3>2. q \o <<>> = q
      BY <2>2, ConcatNone
    <3> QED
      BY <1>4, <1>6, <2>1, <3>1, <3>2
  <2> QED
    BY <2>3, <2>4
<1>9. l \in Nat
  BY <1>4, <1>7
<1>10. /\ unwritten \in Seq(Nat) /\ Len(unwritten) = l - n
       /\ \A k \in 1 .. l - n : unwritten[k] = n + k
  <2>1. n \in Nat /\ l \in Nat /\ n <= l
    BY <1>4, <1>8, <1>9
  <2> QED
    BY <1>8, <2>1, BehindIs
<1>11. PICK written : written = Len(s.index) - Len(unwritten)
  OBVIOUS
<1>12. written = n
  BY <1>4, <1>7, <1>8, <1>9, <1>10, <1>11
<1>13. unwritten = [k \in DOMAIN unwritten |-> written + k]
  <2>1. DOMAIN unwritten = 1 .. l - n
    BY <1>10
  <2> QED
    BY <1>8, <1>12, <2>1 DEF Behind
<1>14. ASSUME NEW i \in 1 .. Len(s.index) PROVE s.index[i].size = -1 <=> i > written
  <2>1. i \in DOMAIN s.index
    BY <1>4, IndexIs
  <2>2. IF i <= n THEN s.index[i].size \in 1 .. 2 ELSE s.index[i].size = -1
    BY <1>4, <2>1 DEF InPlace
  <2> QED
    BY <1>4, <1>12, <2>2
<1> QED
  BY <1>1, <1>5, <1>6, <1>11, <1>13, <1>14 DEF QueueHoldsUnwritten, Idle, Ids

\* The places of two queues behind each other
LEMMA ConcatIs ==
  ASSUME NEW S, NEW q \in Seq(S), NEW p \in Seq(S)
  PROVE  Range(q \o p) = Range(q) \cup Range(p) /\ Len(q \o p) = Len(q) + Len(p)
<1>1. PICK c : c = q \o p
  OBVIOUS
<1>2. /\ c \in Seq(S) /\ Len(c) = Len(q) + Len(p)
      /\ \A k \in 1 .. Len(q) + Len(p) : c[k] = IF k <= Len(q) THEN q[k] ELSE p[k - Len(q)]
  BY <1>1, ConcatProperties
<1>3. /\ DOMAIN c = 1 .. Len(c) /\ DOMAIN q = 1 .. Len(q) /\ DOMAIN p = 1 .. Len(p)
      /\ Len(q) \in Nat /\ Len(p) \in Nat
  BY <1>2, LenProperties
<1>4. ASSUME NEW x \in Range(c) PROVE x \in Range(q) \cup Range(p)
  <2>1. PICK k \in 1 .. Len(c) : c[k] = x
    BY <1>3 DEF Range
  <2>2. CASE k <= Len(q)
    BY SMTT(30), <1>2, <1>3, <2>1, <2>2 DEF Range
  <2>3. CASE ~(k <= Len(q))
    <3>1. k - Len(q) \in 1 .. Len(p) /\ p[k - Len(q)] = x
      BY <1>2, <1>3, <2>1, <2>3
    <3> QED
      BY <1>3, <3>1 DEF Range
  <2> QED
    BY <2>2, <2>3
<1>5. ASSUME NEW x \in Range(q) PROVE x \in Range(c)
  <2>1. PICK k \in 1 .. Len(q) : q[k] = x
    BY <1>3 DEF Range
  <2>2. k \in 1 .. Len(c) /\ c[k] = x
    BY <1>2, <1>3, <2>1
  <2> QED
    BY <1>3, <2>2 DEF Range
<1>6. ASSUME NEW x \in Range(p) PROVE x \in Range(c)
  <2>1. PICK k \in 1 .. Len(p) : p[k] = x
    BY <1>3 DEF Range
  <2>2. PICK j : j = Len(q) + k
    OBVIOUS
  <2>3. j \in 1 .. Len(q) + Len(p) /\ ~(j <= Len(q)) /\ j - Len(q) = k
    BY <1>3, <2>2
  <2>4. c[j] = x /\ j \in 1 .. Len(c)
    BY <1>2, <2>1, <2>3
  <2> QED
    BY <1>3, <2>4 DEF Range
<1> QED
  BY <1>1, <1>2, <1>4, <1>5, <1>6

LEMMA ThenNothingLost ==
  ASSUME IInv, QueueSize <= Workers
  PROVE  NothingLost
<1>1. PICK s, c, a : s = pages /\ c = call /\ a = answer
  OBVIOUS
<1>2. Fits(s, c, a)
  BY <1>1 DEF IInv
<1>3. PICK n, m : Known(s, c, a, n, m)
  BY <1>2, FitsIs
<1>4. Sound(s, n, m)
  BY <1>3 DEF Known
<1>5. PICK w, p, q : w = s.worker /\ p = s.asyncPage /\ q = s.asyncDecompressIdx
  OBVIOUS
<1>6. /\ Has(w, Range(p) \cup Range(q)) /\ w \in Callbacks /\ Manned(w, s.kind)
      /\ n \in Nat /\ m \in Nat /\ n <= m /\ p = Behind(n, m)
      /\ q \in Seq(Nat) /\ Distinct(q)
      /\ s.mode = "compress" => q = <<>>
      /\ s.mode = "decompress" => p = <<>>
  BY <1>4, <1>5, SoundIs DEF Waiting
<1>7. p \in Seq(Nat) /\ Distinct(p) /\ Len(p) \in Nat /\ Len(q) \in Nat
  BY <1>6, BehindIs, LenProperties
<1>8. p = <<>> \/ q = <<>>
  BY <1>4, <1>6 DEF Sound, States
<1>9. PICK queue : queue = p \o q
  OBVIOUS
<1>10. Range(queue) = Range(p) \cup Range(q) /\ Len(queue) = Len(p) + Len(q)
  BY <1>6, <1>7, <1>9, ConcatIs
<1>11. Cardinality(Range(queue)) = Len(queue) /\ IsFiniteSet(Range(queue))
  <2>1. /\ IsFiniteSet(Range(p)) /\ Cardinality(Range(p)) = Len(p)
        /\ IsFiniteSet(Range(q)) /\ Cardinality(Range(q)) = Len(q)
    BY <1>6, <1>7, DistinctLength
  <2>2. Range(<<>>) = {} /\ Len(<<>>) = 0
    BY EmptySeq DEF Range
  <2>3. CASE p = <<>>
    <3>1. Range(queue) = Range(q) /\ Len(queue) = Len(q)
      BY <1>7, <1>10, <2>2, <2>3
    <3> QED
      BY <2>1, <3>1
  <2>4. CASE q = <<>>
    <3>1. Range(queue) = Range(p) /\ Len(queue) = Len(p)
      BY <1>7, <1>10, <2>2, <2>4
    <3> QED
      BY <2>1, <3>1
  <2> QED
    BY <1>8, <2>3, <2>4
<1>12. /\ w.busy \in Seq(Nat) /\ Distinct(w.busy)
       /\ Range(w.busy) \cup w.available = Range(queue)
       /\ Range(w.busy) \cap w.available = {}
  BY <1>6, <1>10, BusyIs DEF Has
<1>13. /\ IsFiniteSet(Range(w.busy)) /\ Cardinality(Range(w.busy)) = Len(w.busy)
       /\ IsFiniteSet(w.available)
  <2>1. w.available \subseteq Range(queue)
    BY <1>12
  <2> QED
    BY <1>11, <1>12, <2>1, DistinctLength, FS_Subset
<1>14. Cardinality(Range(queue)) = Cardinality(Range(w.busy)) + Cardinality(w.available)
  <2>1. PICK B, A : B = Range(w.busy) /\ A = w.available
    OBVIOUS
  <2>2. IsFiniteSet(B) /\ IsFiniteSet(A) /\ B \cap A = {} /\ Range(queue) = B \cup A
    BY <1>12, <1>13, <2>1
  <2>3. Cardinality(B \cup A) = Cardinality(B) + Cardinality(A) - Cardinality(B \cap A)
    BY <2>2, FS_Union
  <2>4. Cardinality({}) = 0 /\ Cardinality(B) \in Nat /\ Cardinality(A) \in Nat
    BY <2>2, FS_EmptySet, FS_CardinalityType
  <2>5. Cardinality(B \cap A) = 0
    BY <2>2, <2>4
  <2>6. Cardinality(B \cup A) = Cardinality(B) + Cardinality(A)
    BY <2>3, <2>4, <2>5
  <2> QED
    BY <2>1, <2>2, <2>6
<1>15. s.kind \in {"thread", "process"} => w.idle + Len(w.busy) = Workers
  <2>1. w.stranded = {}
    BY <1>4, <1>5 DEF Sound, Queued
  <2>2. Cardinality({}) = 0 /\ Workers \in Nat
    BY FS_EmptySet, AsyncAssumption
  <2> QED
    BY <1>6, <2>1, <2>2 DEF Manned
<1> QED
  BY <1>1, <1>5, <1>9, <1>11, <1>12, <1>13, <1>14, <1>15 DEF NothingLost

LEMMA ThenPagesAreRight ==
  ASSUME IInv
  PROVE  PagesAreRight
<1>1. PICK s, c, a : s = pages /\ c = call /\ a = answer
  OBVIOUS
<1>2. Fits(s, c, a)
  BY <1>1 DEF IInv
<1>3. PICK n, m : Known(s, c, a, n, m)
  BY <1>2, FitsIs
<1>4. s \in States /\ InPlace(s, n) /\ Cached(s) /\ AnswerFits(s, a) /\ n \in Nat
  BY <1>3 DEF Known, Sound
<1>5. DOMAIN s.index = 1 .. Len(s.index) /\ s.index \in Seq(PageRecords)
  BY <1>4, IndexIs
<1>6. ASSUME NEW i \in 1 .. Len(s.index), s.index[i].size >= 0,
             NEW start, start = Ends(s.index)[i - 1]
      PROVE  /\ s.index[i].offset \in {-1, start}
             /\ \A x \in start + 1 .. start + s.index[i].size :
                  x \in DOMAIN s.file /\ s.file[x] = i
  <2>1. /\ IF i <= n THEN s.index[i].size \in 1 .. 2 ELSE s.index[i].size = -1
        /\ s.index[i].offset = -1 \/ (i <= n + 1 /\ s.index[i].offset = Ends(s.index)[i - 1])
        /\ i <= n => \A x \in Ends(s.index)[i - 1] + 1 .. Ends(s.index)[i] :
                       x \in DOMAIN s.file /\ s.file[x] = i
    BY <1>4, <1>5 DEF InPlace
  <2>2. Ends(s.index)[i] = start + s.index[i].size
    BY <1>5, <1>6, EndsOf
  <2>3. i <= n
    BY <1>6, <2>1
  <2> QED
    BY <1>6, <2>1, <2>2, <2>3
<1>7. PagesInPlace
  BY <1>1, <1>6 DEF PagesInPlace, Ids
<1>8. AnswerIsThatPage
  BY <1>1, <1>4 DEF AnswerFits, Cached, AnswerIsThatPage
<1> QED
  BY <1>7, <1>8 DEF PagesAreRight

-----------------------------------------------------------------------------
\* The theorems.  Events has what is left out of them: a page whose compression
\* fails is lost, pages that are not compressed cannot be decompressed beside the
\* program, and offsets that are calculated too early are wrong.

\* The queues, the callback, the cache and the file stay together, however the
\* steps of the callback and of the calls follow each other.
THEOREM QueuesAndFileFit ==
  ASSUME NothingFails
  PROVE  Spec => []IInv
<1>1. Init => IInv
  BY InitFits
<1>2. IInv /\ [Next]_vars => IInv'
  BY StepFits
<1> QED
  BY <1>1, <1>2, PTL DEF Spec

\* When the callback has a worker for each page that may be preloaded, no page is lost
\* between the queues, the callback and the file, and workers that finished are idle
\* again: Cookfs_AsyncPageAdd, Cookfs_AsyncCompressWait, Cookfs_AsyncDecompressWait.
THEOREM PagesAreKept ==
  ASSUME NothingFails, QueueSize <= Workers
  PROVE  Spec => []NoPageIsLost
<1>1. IInv => NoPageIsLost
  BY ThenTypeOK, ThenQueueHoldsUnwritten, ThenNothingLost DEF NoPageIsLost
<1> QED
  BY <1>1, QueuesAndFileFit, PTL

\* Pages are written where the sizes of those before say, though others are read
\* meanwhile, and what is given for a page is its content, wherever it was found:
\* Cookfs_WritePage, Cookfs_PgIndexGetStartOffset, Cookfs_PageGet.
THEOREM PagesStayRight ==
  ASSUME NothingFails
  PROVE  Spec => []PagesAreRight
<1>1. IInv => PagesAreRight
  BY ThenPagesAreRight
<1> QED
  BY <1>1, QueuesAndFileFit, PTL
=============================================================================
