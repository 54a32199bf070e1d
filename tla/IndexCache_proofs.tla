--------------------------- MODULE IndexCache_proofs ---------------------------
(***************************************************************************)
(* Proofs about the file index (Fsindex), and at the end of the module     *)
(* about the cache of pages that is kept by what the index counts          *)
(* (PageCache).                                                            *)
(*                                                                         *)
(* Trees come first: what adding to and taking from one directory, its     *)
(* table or its hash, does to the tree and to the counts of blocks, then   *)
(* what an export and an import of it keep and what selecting a fileset    *)
(* does; with that each operation keeps Invariant.                         *)
(***************************************************************************)
EXTENDS Fsindex, PageCache, SequenceTheorems, FiniteSetTheorems, WellFoundedInduction, TLAPS

-----------------------------------------------------------------------------
(* Paths                                                                   *)

LEMMA FrontAndLast ==
  ASSUME NEW S, NEW p \in Seq(S), p # <<>>
  PROVE  /\ Append(Front(p), Last(p)) = p /\ Front(p) \in Seq(S) /\ Last(p) \in S
         /\ Len(Front(p)) = Len(p) - 1 /\ Len(p) \in Nat \ {0}
<1>1. PICK s \in Seq(S), e \in S : p = Append(s, e)
  BY SequenceEmptyOrAppend
<1>2. Front(p) = s /\ Last(p) = e /\ Len(p) = Len(s) + 1
  BY <1>1 DEF Front, Last
<1> QED
  BY <1>1, <1>2, EmptySeq

LEMMA FrontOfAppend ==
  ASSUME NEW S, NEW p \in Seq(S), NEW n \in S
  PROVE  /\ Append(p, n) \in Seq(S) /\ Append(p, n) # <<>>
         /\ Front(Append(p, n)) = p /\ Last(Append(p, n)) = n
BY DEF Front, Last

\* What is below a path is the path or below it further down.
LEMMA PrefixOfAppend ==
  ASSUME NEW S, NEW p \in Seq(S), NEW q \in Seq(S), NEW n \in S
  PROVE  IsPrefix(p, Append(q, n)) <=> IsPrefix(p, q) \/ p = Append(q, n)
BY DEF IsPrefix

LEMMA PrefixOfSelf ==
  ASSUME NEW S, NEW p \in Seq(S)
  PROVE  IsPrefix(p, p) /\ IsPrefix(<<>>, p)
BY DEF IsPrefix

LEMMA PrefixIs ==
  ASSUME NEW S, NEW p \in Seq(S), NEW q \in Seq(S)
  PROVE  IsPrefix(p, q) <=> Len(p) <= Len(q) /\ \A i \in 1 .. Len(p) : p[i] = q[i]
BY DEF IsPrefix

LEMMA PrefixOfShorter ==
  ASSUME NEW S, NEW p \in Seq(S), NEW n \in S
  PROVE  ~IsPrefix(Append(p, n), p)
BY DEF IsPrefix

LEMMA PrefixesAreOne ==
  ASSUME NEW S, NEW p \in Seq(S), NEW q \in Seq(S), IsPrefix(p, q), IsPrefix(q, p)
  PROVE  p = q
BY DEF IsPrefix

LEMMA OneMore ==
  ASSUME NEW S, NEW q \in Seq(S), NEW k \in 0 .. Len(q) - 1
  PROVE  /\ SubSeq(q, 1, k) \in Seq(S) /\ q[k + 1] \in S
         /\ SubSeq(q, 1, k + 1) = Append(SubSeq(q, 1, k), q[k + 1])
OBVIOUS

-----------------------------------------------------------------------------
(* Numbers and recursion                                                   *)

\* Of a set of natural numbers one is the least.
LEMMA LeastIs ==
  ASSUME NEW T, T \subseteq Nat, T # {}
  PROVE  \E n \in T : \A m \in T : n <= m
<1> DEFINE Initial == {0 .. n : n \in T}
<1>1. IsWellFoundedOn(StrictSubsetOrdering(Nat), FiniteSubsetsOf(Nat))
  BY FS_StrictSubsetOrderingWellFounded
<1>2. Initial \subseteq FiniteSubsetsOf(Nat)
  <2> SUFFICES ASSUME NEW n \in T PROVE 0 .. n \in FiniteSubsetsOf(Nat)
    OBVIOUS
  <2> QED
    BY FS_Interval, 0 \in Int, n \in Int DEF FiniteSubsetsOf
<1>3. Initial # {}
  OBVIOUS
<1> HIDE DEF Initial
<1>4. PICK B \in Initial : \A C \in Initial : ~(<<C, B>> \in StrictSubsetOrdering(Nat))
  BY <1>1, <1>2, <1>3, WFMin
<1>5. PICK n \in T : B = 0 .. n
  BY <1>4 DEF Initial
<1>6. ASSUME NEW m \in T, m < n
      PROVE FALSE
  <2>1. 0 .. m \in Initial
    BY DEF Initial
  <2>2. 0 .. m \subseteq 0 .. n /\ 0 .. m # 0 .. n /\ 0 .. n \subseteq Nat
    BY <1>6
  <2>3. <<0 .. m, 0 .. n>> \in StrictSubsetOrdering(Nat)
    BY <2>2 DEF StrictSubsetOrdering
  <2> QED
    BY <1>4, <1>5, <2>1, <2>3
<1> QED
  BY <1>6

\* What holds at the start and goes on from each number to the next holds up to
\* any: the least number where it does not hold has none before it.
LEMMA UpToAll ==
  ASSUME NEW n \in Nat, NEW T, 0 \in T, \A k \in 1 .. n : k - 1 \in T => k \in T
  PROVE  0 .. n \subseteq T
<1> SUFFICES ASSUME (0 .. n) \ T # {} PROVE FALSE
  OBVIOUS
<1> DEFINE Out == (0 .. n) \ T
<1>1. Out \subseteq Nat /\ Out # {}
  OBVIOUS
<1> HIDE DEF Out
<1>2. PICK m \in Out : \A k \in Out : m <= k
  BY <1>1, LeastIs
<1>3. m \in 1 .. n /\ m - 1 \in 0 .. n
  BY <1>2 DEF Out
<1>4. m - 1 \in T
  BY <1>2, <1>3 DEF Out
<1> QED
  BY <1>2, <1>3, <1>4 DEF Out

\* f goes from v on by steps.
Recurses(f, n, Z, v, step) ==
  f \in [0 .. n -> Z] /\ f[0] = v /\ \A k \in 1 .. n : f[k] = step[k][f[k - 1]]

\* A function is defined from one number to the next.
LEMMA RecursionExists ==
  ASSUME NEW n \in Nat, NEW Z, NEW v \in Z, NEW step \in [1 .. n -> [Z -> Z]]
  PROVE  \E f : Recurses(f, n, Z, v, step)
<1> DEFINE T == {m \in 0 .. n : \E f : Recurses(f, m, Z, v, step)}
<1>1. 0 \in T
  <2>1. Recurses([k \in 0 .. 0 |-> v], 0, Z, v, step)
    BY DEF Recurses
  <2> QED
    BY <2>1
<1>2. \A m \in 1 .. n : m - 1 \in T => m \in T
  <2> SUFFICES ASSUME NEW m \in 1 .. n, m - 1 \in T PROVE m \in T
    OBVIOUS
  <2>1. PICK f : Recurses(f, m - 1, Z, v, step)
    OBVIOUS
  <2> DEFINE g == [k \in 0 .. m |-> IF k = m THEN step[m][f[m - 1]] ELSE f[k]]
  <2>2. /\ m - 1 \in 0 .. m - 1 /\ m # 0 /\ 0 \in 0 .. m - 1
        /\ \A k \in 0 .. m : k = m \/ k \in 0 .. m - 1
        /\ \A k \in 1 .. m : k - 1 \in 0 .. m /\ k - 1 # m /\ k \in 0 .. m /\ (k = m \/ k \in 1 .. m - 1)
    OBVIOUS
  <2>3. f[m - 1] \in Z /\ step[m] \in [Z -> Z]
    BY <2>1, <2>2 DEF Recurses
  <2>4. g \in [0 .. m -> Z]
    BY <2>1, <2>2, <2>3 DEF Recurses
  <2>5. g[0] = v
    BY <2>1, <2>2 DEF Recurses
  <2>6. ASSUME NEW k \in 1 .. m PROVE g[k] = step[k][g[k - 1]]
    BY <2>1, <2>2 DEF Recurses
  <2>7. Recurses(g, m, Z, v, step)
    BY <2>4, <2>5, <2>6 DEF Recurses
  <2> HIDE DEF g
  <2> QED
    BY <2>7
<1>3. n \in T
  <2> HIDE DEF T
  <2>1. 0 .. n \subseteq T
    BY <1>1, <1>2, UpToAll
  <2> QED
    BY <2>1
<1> QED
  BY <1>3

-----------------------------------------------------------------------------
(* Directories                                                             *)

Dirs ==
  [kind : {"dir"}, isHash : BOOLEAN, table : [1 .. TableSize -> Names \cup {NULL}],
   children : SUBSET Names, childCount : Nat]

FileEntries == [kind : {"file"}, isCounted : BOOLEAN, blocks : Seq(Pages \cup {-1})]

\* A directory has each child once and counts them.
DirFits(d) ==
  /\ d \in Dirs /\ IsFiniteSet(Children(d)) /\ d.childCount = Cardinality(Children(d))
  /\ ~d.isHash =>
       \A i, j \in 1 .. TableSize : d.table[i] = d.table[j] => i = j \/ d.table[i] = NULL

LEMMA TableFits == TableSize \in Nat \ {0} /\ NULL \notin Names
BY FsindexAssumption

LEMMA ChildrenAre ==
  ASSUME NEW d \in Dirs
  PROVE  /\ Children(d) \subseteq Names
         /\ ~d.isHash => \A n : n \in Children(d) <=> n # NULL /\ \E i \in 1 .. TableSize : d.table[i] = n
         /\ d.isHash => Children(d) = d.children
<1>1. d.table \in [1 .. TableSize -> Names \cup {NULL}] /\ d.children \subseteq Names
  BY DEF Dirs
<1>2. \A n : n \in Range(d.table) <=> \E i \in 1 .. TableSize : d.table[i] = n
  BY <1>1 DEF Range
<1>3. CASE d.isHash
  BY <1>1, <1>3 DEF Children
<1>4. CASE ~d.isHash
  <2>1. Children(d) = Range(d.table) \ {NULL}
    BY <1>4 DEF Children
  <2>2. Range(d.table) \subseteq Names \cup {NULL}
    BY <1>1, <1>2
  <2> QED
    BY <1>2, <1>4, <2>1, <2>2
<1> QED
  BY <1>3, <1>4

\* Directories with other fields
Hashed(d, c, t) == [d EXCEPT !.isHash = TRUE, !.children = c, !.table = t]
InHash(d, n) == [d EXCEPT !.children = @ \cup {n}, !.childCount = @ + 1]
InTable(d, m, n) == [d EXCEPT !.table[m] = n, !.childCount = @ + 1]
TakenOut(d, n, c, t) == [d EXCEPT !.childCount = n, !.children = c, !.table = t]

Tables == [1 .. TableSize -> Names \cup {NULL}]

LEMMA HashedFields ==
  ASSUME NEW d \in Dirs, NEW c \in SUBSET Names, NEW t \in Tables
  PROVE  /\ Hashed(d, c, t) \in Dirs /\ Hashed(d, c, t).isHash /\ Hashed(d, c, t).children = c
         /\ Hashed(d, c, t).table = t /\ Hashed(d, c, t).childCount = d.childCount
<1> DEFINE r == Hashed(d, c, t)
<1>1. r = [d EXCEPT !.isHash = TRUE, !.children = c, !.table = t]
  BY DEF Hashed
<1> HIDE DEF r
<1>2. r \in Dirs /\ r.isHash /\ r.children = c /\ r.table = t /\ r.childCount = d.childCount
  BY <1>1 DEF Dirs, Tables
<1> QED
  BY <1>2 DEF r

LEMMA InHashFields ==
  ASSUME NEW d \in Dirs, NEW n \in Names
  PROVE  /\ InHash(d, n) \in Dirs /\ InHash(d, n).isHash = d.isHash /\ InHash(d, n).table = d.table
         /\ InHash(d, n).children = d.children \cup {n} /\ InHash(d, n).childCount = d.childCount + 1
<1> DEFINE r == InHash(d, n)
           c == d.children \cup {n}
           k == d.childCount + 1
<1>1. r = [d EXCEPT !.children = c, !.childCount = k] /\ c \in SUBSET Names /\ k \in Nat
  BY DEF InHash, Dirs
<1> HIDE DEF r, c, k
<1>2. r \in Dirs /\ r.isHash = d.isHash /\ r.table = d.table /\ r.children = c /\ r.childCount = k
  BY <1>1 DEF Dirs
<1> QED
  BY <1>2 DEF r, c, k

LEMMA InTableFields ==
  ASSUME NEW d \in Dirs, NEW n \in Names, NEW m \in 1 .. TableSize
  PROVE  /\ InTable(d, m, n) \in Dirs /\ InTable(d, m, n).isHash = d.isHash
         /\ InTable(d, m, n).table = [d.table EXCEPT ![m] = n]
         /\ InTable(d, m, n).children = d.children /\ InTable(d, m, n).childCount = d.childCount + 1
<1> DEFINE r == InTable(d, m, n)
           t == [d.table EXCEPT ![m] = n]
           k == d.childCount + 1
<1>1. r = [d EXCEPT !.table = t, !.childCount = k] /\ t \in Tables /\ k \in Nat
  BY DEF InTable, Dirs, Tables
<1> HIDE DEF r, t, k
<1>2. r \in Dirs /\ r.isHash = d.isHash /\ r.table = t /\ r.children = d.children /\ r.childCount = k
  BY <1>1 DEF Dirs, Tables
<1> QED
  BY <1>2 DEF r, t, k

LEMMA TakenOutFields ==
  ASSUME NEW d \in Dirs, NEW c \in SUBSET Names, NEW t \in Tables, NEW n \in Nat
  PROVE  /\ TakenOut(d, n, c, t) \in Dirs /\ TakenOut(d, n, c, t).isHash = d.isHash
         /\ TakenOut(d, n, c, t).children = c /\ TakenOut(d, n, c, t).table = t
         /\ TakenOut(d, n, c, t).childCount = n
<1> DEFINE r == TakenOut(d, n, c, t)
<1>1. r = [d EXCEPT !.childCount = n, !.children = c, !.table = t]
  BY DEF TakenOut
<1> HIDE DEF r
<1>2. r \in Dirs /\ r.isHash = d.isHash /\ r.children = c /\ r.table = t /\ r.childCount = n
  BY <1>1 DEF Dirs, Tables
<1> QED
  BY <1>2 DEF r

LEMMA EmptyDirectory == DirFits(Directory) /\ Children(Directory) = {} /\ Directory.kind = "dir"
<1>1. Directory \in Dirs
  BY TableFits DEF Directory, Dirs, EmptyTable
<1>2. Children(Directory) = {}
  BY <1>1, ChildrenAre DEF Directory, EmptyTable
<1>3. Cardinality({}) = 0 /\ IsFiniteSet({})
  BY FS_EmptySet
<1> QED
  BY <1>1, <1>2, <1>3 DEF DirFits, Directory, EmptyTable

\* A table that no slot is free in has as many children as slots.
LEMMA SlotIsFree ==
  ASSUME NEW d, DirFits(d), ~d.isHash, d.childCount < TableSize - 1
  PROVE  \E i \in 1 .. TableSize : d.table[i] = NULL
<1> SUFFICES ASSUME \A i \in 1 .. TableSize : d.table[i] # NULL PROVE FALSE
  OBVIOUS
<1>1. d.table \in [1 .. TableSize -> Names \cup {NULL}] /\ d \in Dirs
  BY DEF DirFits, Dirs
<1>2. d.table \in Injection(1 .. TableSize, Children(d))
  BY <1>1, ChildrenAre DEF DirFits, Injection, IsInjective
<1>3. IsFiniteSet(1 .. TableSize) /\ Cardinality(1 .. TableSize) = TableSize
  BY FS_Interval, TableFits
<1>4. Cardinality(1 .. TableSize) <= Cardinality(Children(d))
  BY <1>2, FS_Injection DEF DirFits
<1> QED
  BY <1>1, <1>3, <1>4, TableFits DEF DirFits, Dirs

LEMMA ConvertedFits ==
  ASSUME NEW d, DirFits(d)
  PROVE  /\ DirFits(Converted(d)) /\ Children(Converted(d)) = Children(d)
         /\ ~Converted(d).isHash => \E i \in 1 .. TableSize : Converted(d).table[i] = NULL
<1>1. CASE ~d.isHash /\ d.childCount >= TableSize - 1
  <2> DEFINE e == ChildtableToHash(d)
  <2>1. Converted(d) = e
    BY <1>1 DEF Converted
  <2>6. e = Hashed(d, Children(d), EmptyTable)
    BY DEF ChildtableToHash, Hashed
  <2>3. EmptyTable \in Tables /\ d \in Dirs /\ Children(d) \in SUBSET Names
    BY ChildrenAre DEF EmptyTable, DirFits, Tables
  <2> HIDE DEF e
  <2>4. e \in Dirs /\ e.isHash /\ e.children = Children(d) /\ e.childCount = d.childCount
    BY <2>6, <2>3, HashedFields
  <2>5. Children(e) = Children(d)
    BY <2>4, ChildrenAre
  <2> QED
    BY <2>1, <2>4, <2>5 DEF DirFits
<1>2. CASE ~(~d.isHash /\ d.childCount >= TableSize - 1)
  <2>1. Converted(d) = d
    BY <1>2 DEF Converted
  <2>2. ~d.isHash => d.childCount < TableSize - 1
    BY <1>2, TableFits DEF DirFits, Dirs
  <2> QED
    BY <2>1, <2>2, SlotIsFree
<1> QED
  BY <1>1, <1>2

\* A child is put into the first free slot, or into the hash
\* (CookfsFsindexFindInDirectory).
LEMMA InsertChildFits ==
  ASSUME NEW d0, DirFits(d0), NEW n \in Names \ Children(d0)
  PROVE  /\ DirFits(InsertChild(d0, n)) /\ Children(InsertChild(d0, n)) = Children(d0) \cup {n}
         /\ InsertChild(d0, n).kind = "dir"
<1> DEFINE d == Converted(d0)
           r == InsertChild(d0, n)
           free == {i \in 1 .. TableSize : d.table[i] = NULL}
<1>1. /\ DirFits(d) /\ Children(d) = Children(d0)
      /\ ~d.isHash => \E i \in 1 .. TableSize : d.table[i] = NULL
  BY ConvertedFits
<1>2. r = AddChild(d, n)
  BY DEF InsertChild
<1> HIDE DEF d, r
<1>3. d \in Dirs /\ n \in Names
  BY <1>1 DEF DirFits
<1>4. /\ IsFiniteSet(Children(d) \cup {n}) /\ Cardinality(Children(d) \cup {n}) = d.childCount + 1
  BY <1>1, FS_AddElement DEF DirFits
<1>5. CASE d.isHash
  <2>1. r = InHash(d, n)
    BY <1>2, <1>5 DEF AddChild, InHash
  <2>2. /\ r \in Dirs /\ r.isHash /\ r.children = d.children \cup {n} /\ r.childCount = d.childCount + 1
    BY <1>3, <1>5, <2>1, InHashFields
  <2>3. Children(r) = Children(d) \cup {n}
    BY <1>3, <1>5, <2>2, ChildrenAre
  <2>4. DirFits(r) /\ r.kind = "dir"
    BY <1>1, <1>4, <2>2, <2>3 DEF DirFits, Dirs
  <2> QED
    BY <1>1, <2>3, <2>4 DEF r
<1>6. CASE ~d.isHash
  <2>1. free \subseteq Nat /\ free # {}
    BY <1>1, <1>6
  <2>2. PICK i \in free : \A j \in free : i <= j
    BY <2>1, LeastIs
  <2>3. Min(free) \in free
    BY <2>2 DEF Min
  <2> DEFINE m == Min(free)
  <2> HIDE DEF m
  <2>4. m \in 1 .. TableSize /\ d.table[m] = NULL
    BY <2>3 DEF m
  <2>5. r = InTable(d, m, n)
    BY <1>2, <1>6, <2>1, Zenon DEF AddChild, m, InTable
  <2>6. r.table = [d.table EXCEPT ![m] = n] /\ d.table \in [1 .. TableSize -> Names \cup {NULL}]
    BY <1>3, <2>4, <2>5, InTableFields DEF Dirs
  <2>7. r \in Dirs /\ ~r.isHash /\ r.childCount = d.childCount + 1
    <3>1. r \in Dirs /\ r.isHash = d.isHash /\ r.childCount = d.childCount + 1
      BY <1>3, <2>4, <2>5, InTableFields
    <3> QED
      BY <1>6, <3>1
  <2>8. Children(r) = Children(d) \cup {n}
    <3>1. \A x : x \in Children(r) <=> x # NULL /\ \E j \in 1 .. TableSize : r.table[j] = x
      BY <2>7, ChildrenAre
    <3>2. \A x : x \in Children(d) <=> x # NULL /\ \E j \in 1 .. TableSize : d.table[j] = x
      BY <1>3, <1>6, ChildrenAre
    <3>3. \A j \in 1 .. TableSize : r.table[j] = IF j = m THEN n ELSE d.table[j]
      BY <2>6
    <3>4. n # NULL
      BY TableFits
    <3>5. ASSUME NEW x \in Children(r) PROVE x \in Children(d) \cup {n}
      BY <3>1, <3>2, <3>3
    <3>6. ASSUME NEW x \in Children(d) PROVE x \in Children(r)
      BY <2>4, <3>1, <3>2, <3>3
    <3>7. n \in Children(r)
      BY <2>4, <3>1, <3>3, <3>4
    <3> QED
      BY <3>5, <3>6, <3>7
  <2>9. \A j, k \in 1 .. TableSize : r.table[j] = r.table[k] => j = k \/ r.table[j] = NULL
    <3>1. \A j \in 1 .. TableSize : d.table[j] # n
      BY <1>1, <1>3, <1>6, ChildrenAre, TableFits
    <3> QED
      BY <1>1, <1>6, <2>4, <2>6, <3>1 DEF DirFits
  <2>10. DirFits(r) /\ r.kind = "dir"
    BY <1>1, <1>4, <2>7, <2>8, <2>9 DEF DirFits, Dirs
  <2> QED
    BY <1>1, <2>8, <2>10 DEF r
<1> QED
  BY <1>5, <1>6

LEMMA RemoveChildFits ==
  ASSUME NEW d, DirFits(d), NEW n \in Children(d)
  PROVE  /\ DirFits(RemoveChild(d, n)) /\ Children(RemoveChild(d, n)) = Children(d) \ {n}
         /\ RemoveChild(d, n).kind = "dir"
<1> DEFINE r == RemoveChild(d, n)
           table == [i \in 1 .. TableSize |-> IF d.table[i] = n THEN NULL ELSE d.table[i]]
<1>1. /\ d \in Dirs /\ d.childCount \in Nat /\ n \in Names /\ n # NULL
      /\ d.table \in [1 .. TableSize -> Names \cup {NULL}]
  BY ChildrenAre, TableFits DEF DirFits, Dirs
<1>2. /\ IsFiniteSet(Children(d) \ {n}) /\ Cardinality(Children(d) \ {n}) = d.childCount - 1
      /\ d.childCount - 1 \in Nat
  <2>1. /\ IsFiniteSet(Children(d)) /\ IsFiniteSet(Children(d) \ {n})
        /\ Cardinality(Children(d) \ {n}) = Cardinality(Children(d)) - 1
    BY FS_RemoveElement DEF DirFits
  <2>2. Cardinality(Children(d) \ {n}) \in Nat
    BY <2>1, FS_CardinalityType
  <2> QED
    BY <2>1, <2>2 DEF DirFits
<1>3. /\ table \in Tables /\ d.children \ {n} \in SUBSET Names
      /\ r = TakenOut(d, d.childCount - 1, d.children \ {n}, table)
  BY <1>1 DEF RemoveChild, Dirs, TakenOut, Tables
<1> HIDE DEF r, table
<1>5. /\ r \in Dirs /\ r.isHash = d.isHash /\ r.table = table /\ r.children = d.children \ {n}
      /\ r.childCount = d.childCount - 1
  BY <1>1, <1>2, <1>3, TakenOutFields
<1>6. \A i \in 1 .. TableSize : r.table[i] = IF d.table[i] = n THEN NULL ELSE d.table[i]
  BY <1>5 DEF table
<1>7. Children(r) = Children(d) \ {n}
  <2>1. CASE d.isHash
    BY <1>1, <1>5, <2>1, ChildrenAre
  <2>2. CASE ~d.isHash
    <3>1. \A x : x \in Children(r) <=> x # NULL /\ \E j \in 1 .. TableSize : r.table[j] = x
      BY <1>5, <2>2, ChildrenAre
    <3>2. \A x : x \in Children(d) <=> x # NULL /\ \E j \in 1 .. TableSize : d.table[j] = x
      BY <1>1, <2>2, ChildrenAre
    <3> QED
      BY <1>6, <3>1, <3>2
  <2> QED
    BY <2>1, <2>2
<1>8. ~r.isHash =>
        \A i, j \in 1 .. TableSize : r.table[i] = r.table[j] => i = j \/ r.table[i] = NULL
  BY <1>5, <1>6 DEF DirFits
<1>9. DirFits(r) /\ r.kind = "dir"
  BY <1>2, <1>5, <1>7, <1>8 DEF DirFits, Dirs
<1> QED
  BY <1>7, <1>9 DEF r

-----------------------------------------------------------------------------
(* The tree                                                                *)

Entries(t) ==
  /\ IsFiniteSet(DOMAIN t) /\ DOMAIN t \subseteq Seq(Names) /\ t = [q \in DOMAIN t |-> t[q]]
  /\ \A q \in DOMAIN t : t[q] \in Dirs \cup FileEntries

\* Every entry is a child of its directory, every child an entry.
TreeFits(t) ==
  /\ Entries(t) /\ IsDirectory(t, <<>>)
  /\ \A q \in DOMAIN t :
       q # <<>> => IsDirectory(t, Front(q)) /\ Last(q) \in Children(t[Front(q)])
  /\ \A q \in DOMAIN t :
       IsDirectory(t, q) => DirFits(t[q]) /\ \A n \in Children(t[q]) : Append(q, n) \in DOMAIN t

LEMMA Kinds ==
  /\ \A e \in Dirs : e.kind = "dir"
  /\ \A e \in FileEntries : e.kind = "file"
BY DEF Dirs, FileEntries

\* From the root to an entry there are directories that have each other.
LEMMA AllTheWay ==
  ASSUME NEW t, TreeFits(t), NEW q \in DOMAIN t, NEW k \in 0 .. Len(q)
  PROVE  /\ SubSeq(q, 1, k) \in DOMAIN t
         /\ k < Len(q) => IsDirectory(t, SubSeq(q, 1, k)) /\ q[k + 1] \in Children(t[SubSeq(q, 1, k)])
<1> DEFINE T == {j \in 0 .. Len(q) : SubSeq(q, 1, Len(q) - j) \in DOMAIN t}
<1>1. q \in Seq(Names) /\ Len(q) \in Nat
  BY LenProperties DEF TreeFits, Entries
<1>2. ASSUME NEW j \in 1 .. Len(q), j - 1 \in T
      PROVE  /\ j \in T /\ IsDirectory(t, SubSeq(q, 1, Len(q) - j))
             /\ q[Len(q) - j + 1] \in Children(t[SubSeq(q, 1, Len(q) - j)])
  <2> DEFINE i == Len(q) - j
             s == SubSeq(q, 1, i)
  <2>1. i \in 0 .. Len(q) - 1 /\ Len(q) - (j - 1) = i + 1
    BY <1>1
  <2>2. /\ s \in Seq(Names) /\ q[i + 1] \in Names
        /\ SubSeq(q, 1, i + 1) = Append(s, q[i + 1])
    BY <1>1, <2>1, OneMore
  <2>3. Append(s, q[i + 1]) \in DOMAIN t
    BY <1>2, <2>1, <2>2
  <2> HIDE DEF i, s
  <2>4. /\ Append(s, q[i + 1]) # <<>> /\ Front(Append(s, q[i + 1])) = s
        /\ Last(Append(s, q[i + 1])) = q[i + 1]
    BY <2>2, FrontOfAppend
  <2>5. IsDirectory(t, s) /\ q[i + 1] \in Children(t[s])
    BY <2>3, <2>4 DEF TreeFits
  <2>6. s \in DOMAIN t
    BY <2>5 DEF IsDirectory
  <2> QED
    BY <2>5, <2>6 DEF s, i
<1>3. 0 \in T
  <2>1. Len(q) - 0 = Len(q) /\ 0 \in 0 .. Len(q) /\ SubSeq(q, 1, Len(q)) = q
    BY <1>1, SubSeqFull
  <2> QED
    BY <2>1
<1>4. 0 .. Len(q) \subseteq T
  <2> HIDE DEF T
  <2> QED
    BY <1>1, <1>2, <1>3, UpToAll
<1> DEFINE m == Len(q) - k
<1>5. m \in 0 .. Len(q) /\ Len(q) - m = k
  BY <1>1
<1>6. SubSeq(q, 1, k) \in DOMAIN t
  BY <1>4, <1>5
<1>7. k < Len(q) => m \in 1 .. Len(q) /\ m - 1 \in 0 .. Len(q)
  BY <1>1
<1> HIDE DEF T, m
<1> QED
  BY <1>2, <1>4, <1>5, <1>6, <1>7

LEMMA SubtreeIs ==
  ASSUME NEW t, TreeFits(t), NEW p \in Seq(Names)
  PROVE  Subtree(t, p) = {q \in DOMAIN t : IsPrefix(p, q)}
<1> SUFFICES ASSUME NEW q \in DOMAIN t, NEW k \in Len(p) .. Len(q) - 1
             PROVE  q[k + 1] \in Children(t[SubSeq(q, 1, k)])
  BY DEF Subtree
<1>1. k \in 0 .. Len(q) /\ k < Len(q)
  BY LenProperties DEF TreeFits, Entries
<1> QED
  BY <1>1, AllTheWay

LEMMA WholeTree ==
  ASSUME NEW t, TreeFits(t)
  PROVE  Subtree(t, <<>>) = DOMAIN t
<1>1. <<>> \in Seq(Names) /\ \A q \in DOMAIN t : q \in Seq(Names)
  BY DEF TreeFits, Entries
<1>2. \A q \in DOMAIN t : IsPrefix(<<>>, q)
  BY <1>1, PrefixOfSelf
<1> QED
  BY <1>1, <1>2, SubtreeIs

\* One child n of dir, and all below it, goes or comes: u is t after that.
ChildChanged(t, u, dir, n, new) ==
  LET p == Append(dir, n)
  IN /\ u = [q \in DOMAIN u |-> u[q]] /\ new \in SUBSET {p}
     /\ DOMAIN u = {q \in DOMAIN t : ~IsPrefix(p, q)} \cup new
     /\ \A q \in DOMAIN u : q # dir /\ q # p => u[q] = t[q]
     /\ DirFits(u[dir])
     /\ \A m : m \in Children(u[dir]) <=> (m \in Children(t[dir]) /\ m # n) \/ (m = n /\ new # {})
     /\ \A q \in new : \/ u[q] \in FileEntries
                       \/ DirFits(u[q]) /\ Children(u[q]) = {}

LEMMA TreeChanges ==
  ASSUME NEW t, TreeFits(t), NEW dir, IsDirectory(t, dir), NEW n \in Names, NEW u, NEW new,
         ChildChanged(t, u, dir, n, new)
  PROVE  TreeFits(u) /\ IsDirectory(u, dir) /\ ~IsPrefix(Append(dir, n), dir)
<1> DEFINE p == Append(dir, n)
<1>1. /\ dir \in DOMAIN t /\ t[dir].kind = "dir" /\ dir \in Seq(Names) /\ p \in Seq(Names) /\ p # <<>>
      /\ Front(p) = dir /\ Last(p) = n /\ IsPrefix(p, p) /\ ~IsPrefix(p, dir) /\ dir # p
      /\ \A q \in DOMAIN t : q \in Seq(Names)
  BY FrontOfAppend, PrefixOfSelf, PrefixOfShorter DEF TreeFits, Entries, IsDirectory
<1> HIDE DEF p
<1>2. /\ u = [q \in DOMAIN u |-> u[q]] /\ new \in SUBSET {p}
      /\ DOMAIN u = {q \in DOMAIN t : ~IsPrefix(p, q)} \cup new
      /\ \A q \in DOMAIN u : q # dir /\ q # p => u[q] = t[q]
      /\ DirFits(u[dir])
      /\ \A m : m \in Children(u[dir]) <=> (m \in Children(t[dir]) /\ m # n) \/ (m = n /\ new # {})
      /\ \A q \in new : \/ u[q] \in FileEntries
                        \/ DirFits(u[q]) /\ Children(u[q]) = {}
  BY DEF ChildChanged, p
<1>3. dir \in DOMAIN u /\ u[dir] \in Dirs /\ u[dir].kind = "dir" /\ IsDirectory(u, dir)
  BY <1>1, <1>2, Kinds DEF DirFits, IsDirectory
<1>4. \A q \in DOMAIN u : \/ q = dir
                          \/ q = p /\ q \in new
                          \/ q \in DOMAIN t /\ ~IsPrefix(p, q) /\ u[q] = t[q] /\ q # dir /\ q # p
  BY <1>1, <1>2
<1>5. \A q \in DOMAIN t : ~IsPrefix(p, q) => q \in DOMAIN u
  BY <1>2
<1>6. Entries(u)
  <2>1. IsFiniteSet(DOMAIN u)
    <3>1. IsFiniteSet(DOMAIN t)
      BY DEF TreeFits, Entries
    <3>2. IsFiniteSet((DOMAIN t) \cup {p})
      BY <3>1, FS_AddElement
    <3>3. DOMAIN u \in SUBSET ((DOMAIN t) \cup {p})
      BY <1>2
    <3> QED
      BY <3>2, <3>3, FS_Subset
  <2>2. \A q \in DOMAIN u : q \in Seq(Names) /\ u[q] \in Dirs \cup FileEntries
    <3> SUFFICES ASSUME NEW q \in DOMAIN u PROVE q \in Seq(Names) /\ u[q] \in Dirs \cup FileEntries
      OBVIOUS
    <3>1. CASE q = dir
      BY <1>1, <1>3, <3>1
    <3>2. CASE q = p /\ q \in new
      BY <1>1, <1>2, <3>2 DEF DirFits
    <3>3. CASE q \in DOMAIN t /\ u[q] = t[q]
      BY <1>1, <3>3 DEF TreeFits, Entries
    <3> QED
      BY <1>4, <3>1, <3>2, <3>3
  <2> QED
    BY <1>2, <2>1, <2>2 DEF Entries
<1>7. IsDirectory(u, <<>>)
  <2>1. IsDirectory(t, <<>>) /\ <<>> \in DOMAIN t
    BY DEF TreeFits, IsDirectory
  <2>2. ~IsPrefix(p, <<>>)
    BY <1>1 DEF IsPrefix
  <2> QED
    BY <1>1, <1>2, <1>3, <1>5, <2>1, <2>2 DEF IsDirectory
<1>8. ASSUME NEW q \in DOMAIN u, q # <<>>
      PROVE  IsDirectory(u, Front(q)) /\ Last(q) \in Children(u[Front(q)])
  <2>1. CASE q = p /\ q \in new
    BY <1>1, <1>2, <1>3, <2>1
  <2>2. CASE q \in DOMAIN t /\ ~IsPrefix(p, q) /\ q # p
    <3> DEFINE f == Front(q)
               m == Last(q)
    <3>1. q \in Seq(Names)
      BY <1>1, <2>2
    <3>2. q = Append(f, m) /\ f \in Seq(Names) /\ m \in Names
      BY <1>8, <3>1, FrontAndLast
    <3>3. IsDirectory(t, f) /\ m \in Children(t[f])
      BY <1>8, <2>2 DEF TreeFits
    <3> HIDE DEF f, m
    <3>4. ~IsPrefix(p, f)
      BY <1>1, <2>2, <3>2, PrefixOfAppend
    <3>5. f \in DOMAIN u /\ f # p
      BY <1>1, <1>5, <3>3, <3>4 DEF IsDirectory
    <3>6. CASE f = dir
      <4>1. m # n
        BY <2>2, <3>2, <3>6 DEF p
      <4> QED
        BY <1>2, <1>3, <3>3, <3>6, <4>1 DEF f, m
    <3>7. CASE f # dir
      <4>1. u[f] = t[f]
        BY <1>2, <3>5, <3>7
      <4> QED
        BY <3>3, <3>5, <4>1 DEF f, m, IsDirectory
    <3> QED
      BY <3>6, <3>7
  <2> QED
    BY <1>1, <1>4, <2>1, <2>2
<1>9. ASSUME NEW q \in DOMAIN u, IsDirectory(u, q)
      PROVE  DirFits(u[q]) /\ \A m \in Children(u[q]) : Append(q, m) \in DOMAIN u
  <2>1. CASE q = p /\ q \in new
    <3>1. u[q] \notin FileEntries
      BY <1>9, Kinds DEF IsDirectory
    <3> QED
      BY <1>2, <2>1, <3>1
  <2>2. CASE q = dir
    <3> SUFFICES ASSUME NEW m \in Children(u[dir]) PROVE Append(dir, m) \in DOMAIN u
      BY <1>2, <2>2
    <3>1. CASE m = n /\ new # {}
      BY <1>2, <3>1 DEF p
    <3>2. CASE m \in Children(t[dir]) /\ m # n
      <4>1. Append(dir, m) \in DOMAIN t /\ m \in Names
        BY <1>1, <3>2, ChildrenAre DEF TreeFits, IsDirectory, DirFits
      <4>2. p # Append(dir, m)
        BY <1>1, <3>2, <4>1, AppendInjective DEF p
      <4>3. ~IsPrefix(p, Append(dir, m))
        BY <1>1, <4>1, <4>2, PrefixOfAppend
      <4> QED
        BY <1>5, <4>1, <4>3
    <3> QED
      BY <1>2, <3>1, <3>2
  <2>3. CASE q \in DOMAIN t /\ ~IsPrefix(p, q) /\ u[q] = t[q] /\ q # dir /\ q # p
    <3>1. IsDirectory(t, q)
      BY <1>9, <2>3 DEF IsDirectory
    <3>2. DirFits(t[q]) /\ \A m \in Children(t[q]) : Append(q, m) \in DOMAIN t
      BY <2>3, <3>1 DEF TreeFits
    <3> SUFFICES ASSUME NEW m \in Children(t[q]) PROVE Append(q, m) \in DOMAIN u
      BY <2>3, <3>2
    <3>3. m \in Names /\ q \in Seq(Names) /\ Append(q, m) \in DOMAIN t
      BY <1>1, <2>3, <3>2, ChildrenAre DEF DirFits
    <3>4. p # Append(q, m)
      BY <1>1, <2>3, <3>3, AppendInjective DEF p
    <3>5. ~IsPrefix(p, Append(q, m))
      BY <1>1, <2>3, <3>3, <3>4, PrefixOfAppend
    <3> QED
      BY <1>5, <3>3, <3>5
  <2> QED
    BY <1>4, <2>1, <2>2, <2>3
<1> QED
  BY <1>1, <1>3, <1>6, <1>7, <1>8, <1>9 DEF TreeFits, p

-----------------------------------------------------------------------------
(* Blocks and pages                                                        *)

Blocks(t, S, g) ==
  UNION {{q} \X {k \in DOMAIN t[q].blocks : t[q].blocks[k] = g} : q \in {f \in S : t[f].kind = "file"}}

LEMMA UsesAre ==
  ASSUME NEW t, NEW S, NEW g
  PROVE  /\ Uses(t, S, g) = Cardinality(Blocks(t, S, g))
         /\ \A x : x \in Blocks(t, S, g) <=>
              \E q \in S : /\ t[q].kind = "file"
                           /\ \E k \in DOMAIN t[q].blocks : t[q].blocks[k] = g /\ x = <<q, k>>
<1>1. Uses(t, S, g) = Cardinality(Blocks(t, S, g))
  BY DEF Uses, Blocks
<1>2. ASSUME NEW x
      PROVE  x \in Blocks(t, S, g) <=>
               \E q \in S : /\ t[q].kind = "file"
                            /\ \E k \in DOMAIN t[q].blocks : t[q].blocks[k] = g /\ x = <<q, k>>
  <2> DEFINE Of(q) == {q} \X {k \in DOMAIN t[q].blocks : t[q].blocks[k] = g}
  <2>1. x \in Blocks(t, S, g) <=> \E q \in S : t[q].kind = "file" /\ x \in Of(q)
    BY DEF Blocks
  <2>2. \A q : x \in Of(q) <=> \E k \in DOMAIN t[q].blocks : t[q].blocks[k] = g /\ x = <<q, k>>
    OBVIOUS
  <2> QED
    BY <2>1, <2>2
<1> QED
  BY <1>1, <1>2

LEMMA BlocksAreFinite ==
  ASSUME NEW t, NEW S, IsFiniteSet(S), \A q \in S : t[q] \in Dirs \cup FileEntries, NEW g
  PROVE  IsFiniteSet(Blocks(t, S, g)) /\ Uses(t, S, g) \in Nat
<1> DEFINE files == {f \in S : t[f].kind = "file"}
           Of(q) == {q} \X {k \in DOMAIN t[q].blocks : t[q].blocks[k] = g}
           T == {Of(q) : q \in files}
           F == [q \in files |-> Of(q)]
<1>1. IsFiniteSet(files)
  BY FS_Subset
<1>2. F \in Surjection(files, T)
  BY DEF Surjection
<1>3. IsFiniteSet(T)
  <2> HIDE DEF files, T, F
  <2> QED
    BY <1>1, <1>2, FS_Surjection
<1>4. ASSUME NEW q \in files PROVE IsFiniteSet(Of(q))
  <2>1. t[q] \in FileEntries
    BY Kinds
  <2>2. t[q].blocks \in Seq(Pages \cup {-1})
    BY <2>1 DEF FileEntries
  <2>3. DOMAIN t[q].blocks = 1 .. Len(t[q].blocks) /\ Len(t[q].blocks) \in Nat
    BY <2>2, LenProperties
  <2>4. IsFiniteSet(DOMAIN t[q].blocks)
    BY <2>3, FS_Interval
  <2> DEFINE K == {k \in DOMAIN t[q].blocks : t[q].blocks[k] = g}
  <2>5. IsFiniteSet(K)
    BY <2>4, FS_Subset
  <2> HIDE DEF K
  <2>6. IsFiniteSet({q} \X K)
    BY <2>5, FS_Product, FS_Singleton
  <2> QED
    BY <2>6 DEF K
<1>5. IsFiniteSet(UNION T)
  <2>1. \A x \in T : IsFiniteSet(x)
    BY <1>4
  <2> HIDE DEF T
  <2> QED
    BY <1>3, <2>1, FS_UNION
<1>6. IsFiniteSet(Blocks(t, S, g))
  BY <1>5 DEF Blocks
<1> QED
  BY <1>6, UsesAre, FS_CardinalityType

\* The files of two sets use a page as often as those of both.
LEMMA UsesOfBoth ==
  ASSUME NEW t, NEW A, NEW B, IsFiniteSet(A \cup B), A \cap B = {},
         \A q \in A \cup B : t[q] \in Dirs \cup FileEntries, NEW g
  PROVE  Uses(t, A \cup B, g) = Uses(t, A, g) + Uses(t, B, g)
<1>1. IsFiniteSet(A) /\ IsFiniteSet(B)
  BY FS_Subset
<1>2. /\ IsFiniteSet(Blocks(t, A, g)) /\ IsFiniteSet(Blocks(t, B, g))
      /\ Uses(t, A, g) \in Nat /\ Uses(t, B, g) \in Nat
  BY <1>1, BlocksAreFinite
<1>3. Blocks(t, A \cup B, g) = Blocks(t, A, g) \cup Blocks(t, B, g)
  <2>1. \A x : x \in Blocks(t, A \cup B, g) <=> x \in Blocks(t, A, g) \/ x \in Blocks(t, B, g)
    BY UsesAre
  <2> QED
    BY <2>1
<1>4. Blocks(t, A, g) \cap Blocks(t, B, g) = {}
  <2> SUFFICES ASSUME NEW x \in Blocks(t, A, g), x \in Blocks(t, B, g) PROVE FALSE
    OBVIOUS
  <2>1. PICK a \in A : \E k : x = <<a, k>>
    BY UsesAre
  <2>2. PICK b \in B : \E k : x = <<b, k>>
    BY UsesAre
  <2> QED
    BY <2>1, <2>2
<1>5. Cardinality({}) = 0
  BY FS_EmptySet
<1>6. Cardinality(Blocks(t, A, g) \cup Blocks(t, B, g)) =
        Cardinality(Blocks(t, A, g)) + Cardinality(Blocks(t, B, g))
  <2>1. /\ Cardinality(Blocks(t, A, g)) \in Nat /\ Cardinality(Blocks(t, B, g)) \in Nat
        /\ Cardinality(Blocks(t, A, g) \cup Blocks(t, B, g)) =
             Cardinality(Blocks(t, A, g)) + Cardinality(Blocks(t, B, g))
               - Cardinality(Blocks(t, A, g) \cap Blocks(t, B, g))
    BY <1>2, FS_CardinalityType, FS_Union
  <2>2. Cardinality(Blocks(t, A, g) \cap Blocks(t, B, g)) = 0
    BY <1>4, <1>5, Zenon
  <2> QED
    BY <2>1, <2>2
<1> QED
  BY <1>3, <1>6, UsesAre

LEMMA UsesOfSome ==
  ASSUME NEW t, NEW A, NEW B, IsFiniteSet(B), A \subseteq B,
         \A q \in B : t[q] \in Dirs \cup FileEntries, NEW g
  PROVE  /\ Uses(t, A, g) <= Uses(t, B, g) /\ Uses(t, B \ A, g) = Uses(t, B, g) - Uses(t, A, g)
         /\ Uses(t, A, g) \in Nat /\ Uses(t, B, g) \in Nat /\ Uses(t, B \ A, g) \in Nat
<1> DEFINE C == B \ A
<1>1. B = A \cup C /\ A \cap C = {}
  OBVIOUS
<1>2. IsFiniteSet(A) /\ IsFiniteSet(C)
  BY FS_Subset
<1>3. Uses(t, A, g) \in Nat /\ Uses(t, C, g) \in Nat /\ Uses(t, B, g) \in Nat
  BY <1>2, BlocksAreFinite
<1>4. Uses(t, B, g) = Uses(t, A, g) + Uses(t, C, g)
  <2> HIDE DEF C
  <2> QED
    BY <1>1, UsesOfBoth
<1> QED
  BY <1>3, <1>4

LEMMA UsesOfSame ==
  ASSUME NEW t, NEW u, NEW S, NEW g,
         \A q \in S : /\ t[q].kind = "file" <=> u[q].kind = "file"
                      /\ t[q].kind = "file" => t[q].blocks = u[q].blocks
  PROVE  Uses(t, S, g) = Uses(u, S, g)
<1>1. \A x : x \in Blocks(t, S, g) <=> x \in Blocks(u, S, g)
  BY UsesAre
<1>2. Blocks(t, S, g) = Blocks(u, S, g)
  BY <1>1
<1> QED
  BY <1>2, UsesAre

LEMMA UsesOfNone ==
  ASSUME NEW t, NEW S, NEW g,
         \A q \in S : t[q].kind = "file" => \A k \in DOMAIN t[q].blocks : t[q].blocks[k] # g
  PROVE  Uses(t, S, g) = 0
<1>1. \A x : x \notin Blocks(t, S, g)
  BY UsesAre
<1>2. Blocks(t, S, g) = {}
  BY <1>1
<1> QED
  BY <1>2, UsesAre, FS_EmptySet

\* A block is another page.
LEMMA UsesOfBlock ==
  ASSUME NEW t, NEW u, NEW S, NEW p \in S, NEW k, NEW g, NEW h, t[p].kind = "file", u[p].kind = "file",
         k \in DOMAIN t[p].blocks, u[p].blocks = [t[p].blocks EXCEPT ![k] = g], t[p].blocks[k] # h,
         \A q \in S : q # p => u[q] = t[q], IsFiniteSet(Blocks(t, S, h))
  PROVE  Uses(u, S, h) = Uses(t, S, h) + (IF h = g THEN 1 ELSE 0)
<1>1. /\ DOMAIN u[p].blocks = DOMAIN t[p].blocks
      /\ \A j \in DOMAIN t[p].blocks : u[p].blocks[j] = IF j = k THEN g ELSE t[p].blocks[j]
  OBVIOUS
<1>2. <<p, k>> \notin Blocks(t, S, h)
  BY UsesAre
<1>3. Cardinality(Blocks(t, S, h)) \in Nat
  BY FS_CardinalityType
<1>4. \A x : x \in Blocks(u, S, h) <=> x \in Blocks(t, S, h) \/ (h = g /\ x = <<p, k>>)
  <2> SUFFICES ASSUME NEW x
               PROVE x \in Blocks(u, S, h) <=> x \in Blocks(t, S, h) \/ (h = g /\ x = <<p, k>>)
    OBVIOUS
  <2>1. ASSUME x \in Blocks(u, S, h) PROVE x \in Blocks(t, S, h) \/ (h = g /\ x = <<p, k>>)
    <3>1. PICK q \in S : u[q].kind = "file" /\ \E j \in DOMAIN u[q].blocks : u[q].blocks[j] = h /\ x = <<q, j>>
      BY <2>1, UsesAre
    <3> QED
      BY <1>1, <3>1, UsesAre
  <2>2. ASSUME x \in Blocks(t, S, h) PROVE x \in Blocks(u, S, h)
    <3>1. PICK q \in S : t[q].kind = "file" /\ \E j \in DOMAIN t[q].blocks : t[q].blocks[j] = h /\ x = <<q, j>>
      BY <2>2, UsesAre
    <3>3. PICK j \in DOMAIN t[q].blocks : t[q].blocks[j] = h /\ x = <<q, j>>
      BY <3>1
    <3>2. u[q].kind = "file" /\ j \in DOMAIN u[q].blocks /\ u[q].blocks[j] = h
      BY <1>1, <3>1, <3>3
    <3> QED
      BY <3>2, <3>3, UsesAre
  <2>3. ASSUME h = g PROVE <<p, k>> \in Blocks(u, S, h)
    BY <1>1, <2>3, UsesAre
  <2> QED
    BY <2>1, <2>2, <2>3
<1>5. CASE h = g
  <2>1. Blocks(u, S, h) = Blocks(t, S, h) \cup {<<p, k>>}
    BY <1>4, <1>5
  <2> QED
    BY <1>2, <1>3, <1>5, <2>1, UsesAre, FS_AddElement
<1>6. CASE h # g
  <2>1. Blocks(u, S, h) = Blocks(t, S, h)
    BY <1>4, <1>6
  <2> QED
    BY <1>3, <1>6, <2>1, UsesAre
<1> QED
  BY <1>5, <1>6

-----------------------------------------------------------------------------
(* Indexes                                                                 *)

\* A record of these fields
IsIndex(ix) ==
  ix = [tree |-> ix.tree, rootItemVirtual |-> ix.rootItemVirtual, blockIndex |-> ix.blockIndex,
        isChanged |-> ix.isChanged, metadata |-> ix.metadata]

WithTree(ix, t) == [ix EXCEPT !.tree = t]
WithBlocks(ix, b) == [ix EXCEPT !.blockIndex = b]
WithRoot(ix, p) == [ix EXCEPT !.rootItemVirtual = p]
WithMode(ix, m) == [ix EXCEPT !.metadata = m, !.isChanged = TRUE]
AsChanged(ix) == [ix EXCEPT !.isChanged = TRUE]

LEMMA TreeIsSet ==
  ASSUME NEW ix, IsIndex(ix), NEW t
  PROVE  /\ IsIndex(WithTree(ix, t)) /\ WithTree(ix, t).tree = t
         /\ WithTree(ix, t).rootItemVirtual = ix.rootItemVirtual
         /\ WithTree(ix, t).blockIndex = ix.blockIndex /\ WithTree(ix, t).isChanged = ix.isChanged
         /\ WithTree(ix, t).metadata = ix.metadata
<1> DEFINE r == WithTree(ix, t)
<1>1. r = [ix EXCEPT !.tree = t]
  BY DEF WithTree
<1> HIDE DEF r
<1>2. /\ IsIndex(r) /\ r.tree = t /\ r.rootItemVirtual = ix.rootItemVirtual
      /\ r.blockIndex = ix.blockIndex /\ r.isChanged = ix.isChanged /\ r.metadata = ix.metadata
  BY <1>1 DEF IsIndex
<1> QED
  BY <1>2 DEF r

LEMMA BlocksAreSet ==
  ASSUME NEW ix, IsIndex(ix), NEW b
  PROVE  /\ IsIndex(WithBlocks(ix, b)) /\ WithBlocks(ix, b).tree = ix.tree
         /\ WithBlocks(ix, b).rootItemVirtual = ix.rootItemVirtual
         /\ WithBlocks(ix, b).blockIndex = b /\ WithBlocks(ix, b).isChanged = ix.isChanged
         /\ WithBlocks(ix, b).metadata = ix.metadata
<1> DEFINE r == WithBlocks(ix, b)
<1>1. r = [ix EXCEPT !.blockIndex = b]
  BY DEF WithBlocks
<1> HIDE DEF r
<1>2. /\ IsIndex(r) /\ r.tree = ix.tree /\ r.rootItemVirtual = ix.rootItemVirtual
      /\ r.blockIndex = b /\ r.isChanged = ix.isChanged /\ r.metadata = ix.metadata
  BY <1>1 DEF IsIndex
<1> QED
  BY <1>2 DEF r

LEMMA RootIsSet ==
  ASSUME NEW ix, IsIndex(ix), NEW p
  PROVE  /\ IsIndex(WithRoot(ix, p)) /\ WithRoot(ix, p).tree = ix.tree
         /\ WithRoot(ix, p).rootItemVirtual = p
         /\ WithRoot(ix, p).blockIndex = ix.blockIndex /\ WithRoot(ix, p).isChanged = ix.isChanged
         /\ WithRoot(ix, p).metadata = ix.metadata
<1> DEFINE r == WithRoot(ix, p)
<1>1. r = [ix EXCEPT !.rootItemVirtual = p]
  BY DEF WithRoot
<1> HIDE DEF r
<1>2. /\ IsIndex(r) /\ r.tree = ix.tree /\ r.rootItemVirtual = p
      /\ r.blockIndex = ix.blockIndex /\ r.isChanged = ix.isChanged /\ r.metadata = ix.metadata
  BY <1>1 DEF IsIndex
<1> QED
  BY <1>2 DEF r

LEMMA ModeIsSet ==
  ASSUME NEW ix, IsIndex(ix), NEW m
  PROVE  /\ IsIndex(WithMode(ix, m)) /\ WithMode(ix, m).tree = ix.tree
         /\ WithMode(ix, m).rootItemVirtual = ix.rootItemVirtual
         /\ WithMode(ix, m).blockIndex = ix.blockIndex /\ WithMode(ix, m).isChanged
         /\ WithMode(ix, m).isChanged \in BOOLEAN /\ WithMode(ix, m).metadata = m
<1> DEFINE r == WithMode(ix, m)
<1>1. r = [ix EXCEPT !.metadata = m, !.isChanged = TRUE]
  BY DEF WithMode
<1> HIDE DEF r
<1>2. /\ IsIndex(r) /\ r.tree = ix.tree /\ r.rootItemVirtual = ix.rootItemVirtual
      /\ r.blockIndex = ix.blockIndex /\ r.isChanged /\ r.isChanged \in BOOLEAN /\ r.metadata = m
  BY <1>1 DEF IsIndex
<1> QED
  BY <1>2 DEF r

LEMMA ChangeIsSet ==
  ASSUME NEW ix, IsIndex(ix)
  PROVE  /\ IsIndex(AsChanged(ix)) /\ AsChanged(ix).tree = ix.tree
         /\ AsChanged(ix).rootItemVirtual = ix.rootItemVirtual
         /\ AsChanged(ix).blockIndex = ix.blockIndex /\ AsChanged(ix).isChanged
         /\ AsChanged(ix).isChanged \in BOOLEAN /\ AsChanged(ix).metadata = ix.metadata
<1> DEFINE r == AsChanged(ix)
<1>1. r = [ix EXCEPT !.isChanged = TRUE]
  BY DEF AsChanged
<1> HIDE DEF r
<1>2. /\ IsIndex(r) /\ r.tree = ix.tree /\ r.rootItemVirtual = ix.rootItemVirtual
      /\ r.blockIndex = ix.blockIndex /\ r.isChanged /\ r.isChanged \in BOOLEAN
      /\ r.metadata = ix.metadata
  BY <1>1 DEF IsIndex
<1> QED
  BY <1>2 DEF r

\* No page is taken to be used less than it is by the files of S.
Covers(b, t, S) == b \in [Pages -> Nat] /\ \A g \in Pages : b[g] >= Uses(t, S, g)

\* An index but for where its root is
IndexFits(ix) ==
  /\ IsIndex(ix) /\ TreeFits(ix.tree) /\ ix.rootItemVirtual \in Seq(Names)
  /\ ix.isChanged \in BOOLEAN /\ ix.metadata \in {NULL, "automatic", "custom"}
  /\ Covers(ix.blockIndex, ix.tree, DOMAIN ix.tree)

\* r is ix after the child n of dir went or came; its blocks are not counted yet.
Stepped(ix, r, dir, n, new) ==
  /\ IsIndex(r) /\ ChildChanged(ix.tree, r.tree, dir, n, new)
  /\ r.rootItemVirtual = ix.rootItemVirtual /\ r.isChanged = ix.isChanged /\ r.metadata = ix.metadata
  /\ Covers(r.blockIndex, r.tree, (DOMAIN r.tree) \ new)

\* The blocks of files that are left are counted as before (CookfsFsindexEntryFree).
LEMMA EntryFreed ==
  ASSUME NEW ix, IndexFits(ix), NEW p \in Seq(Names)
  PROVE  /\ IsIndex(EntryFree(ix, p))
         /\ EntryFree(ix, p).tree = [q \in {r \in DOMAIN ix.tree : ~IsPrefix(p, r)} |-> ix.tree[q]]
         /\ EntryFree(ix, p).rootItemVirtual = ix.rootItemVirtual
         /\ EntryFree(ix, p).isChanged = ix.isChanged /\ EntryFree(ix, p).metadata = ix.metadata
         /\ Covers(EntryFree(ix, p).blockIndex, ix.tree, {r \in DOMAIN ix.tree : ~IsPrefix(p, r)})
<1> DEFINE t == ix.tree
           D == DOMAIN ix.tree
           freed == FreedFiles(ix, p)
           below == Subtree(ix.tree, p)
           u == [q \in D \ below |-> t[q]]
           b == [g \in Pages |-> ix.blockIndex[g] - Uses(t, freed, g)]
<1>1. IsIndex(ix) /\ TreeFits(t) /\ Covers(ix.blockIndex, t, D)
  BY DEF IndexFits
<1>2. EntryFree(ix, p) = WithBlocks(WithTree(ix, u), b)
  <2>1. EntryFree(ix, p) = [ix EXCEPT !.tree = u, !.blockIndex = b]
    BY <1>1 DEF EntryFree, IsIndex
  <2>2. WithBlocks(WithTree(ix, u), b) = [ix EXCEPT !.tree = u, !.blockIndex = b]
    BY DEF WithBlocks, WithTree
  <2> QED
    BY <2>1, <2>2
<1>3. below = {q \in D : IsPrefix(p, q)} /\ freed \subseteq below /\ below \subseteq D
  BY <1>1, SubtreeIs DEF FreedFiles
<1>4. D \ below = {r \in D : ~IsPrefix(p, r)}
  BY <1>3
<1>5. IsFiniteSet(D) /\ \A q \in D : t[q] \in Dirs \cup FileEntries
  BY <1>1 DEF TreeFits, Entries
<1>6. Covers(b, t, D \ below)
  <2> SUFFICES ASSUME NEW g \in Pages
               PROVE  /\ ix.blockIndex[g] - Uses(t, freed, g) \in Nat
                      /\ ix.blockIndex[g] - Uses(t, freed, g) >= Uses(t, D \ below, g)
    BY DEF Covers
  <2> HIDE DEF t, D, freed, below
  <2>1. ix.blockIndex[g] \in Nat /\ ix.blockIndex[g] >= Uses(t, D, g)
    BY <1>1 DEF Covers
  <2>2. /\ Uses(t, D \ below, g) = Uses(t, D, g) - Uses(t, below, g)
        /\ Uses(t, D \ below, g) \in Nat /\ Uses(t, below, g) \in Nat /\ Uses(t, D, g) \in Nat
    BY <1>3, <1>5, UsesOfSome
  <2>3. Uses(t, freed, g) <= Uses(t, below, g) /\ Uses(t, freed, g) \in Nat
    <3>1. IsFiniteSet(below) /\ \A q \in below : t[q] \in Dirs \cup FileEntries
      BY <1>3, <1>5, FS_Subset
    <3> QED
      BY <1>3, <3>1, UsesOfSome
  <2> QED
    BY <2>1, <2>2, <2>3
<1> HIDE DEF u, b
<1>7. /\ IsIndex(WithTree(ix, u)) /\ WithTree(ix, u).tree = u
      /\ WithTree(ix, u).rootItemVirtual = ix.rootItemVirtual
      /\ WithTree(ix, u).isChanged = ix.isChanged /\ WithTree(ix, u).metadata = ix.metadata
  BY <1>1, TreeIsSet
<1> DEFINE v == WithTree(ix, u)
<1> HIDE DEF v
<1>8. /\ IsIndex(WithBlocks(v, b)) /\ WithBlocks(v, b).tree = v.tree
      /\ WithBlocks(v, b).rootItemVirtual = v.rootItemVirtual
      /\ WithBlocks(v, b).blockIndex = b /\ WithBlocks(v, b).isChanged = v.isChanged
      /\ WithBlocks(v, b).metadata = v.metadata
  BY <1>7, BlocksAreSet DEF v
<1>9. u = [q \in {r \in D : ~IsPrefix(p, r)} |-> t[q]]
  BY <1>4 DEF u
<1> QED
  BY <1>2, <1>4, <1>6, <1>7, <1>8, <1>9 DEF v

-----------------------------------------------------------------------------
(* Creating and deleting in a directory                                    *)

LEMMA PrefixIsStart ==
  ASSUME NEW p \in Seq(Names), NEW q \in Seq(Names), IsPrefix(p, q)
  PROVE  Len(p) \in 0 .. Len(q) /\ SubSeq(q, 1, Len(p)) = p /\ (Len(p) = Len(q) => p = q)
<1>1. Len(p) \in Nat /\ Len(q) \in Nat /\ Len(p) <= Len(q)
  BY LenProperties DEF IsPrefix
<1>2. SubSeq(p, 1, Len(p)) = p /\ SubSeq(q, 1, Len(q)) = q
  BY SubSeqFull
<1>3. SubSeq(p, 1, Len(p)) = SubSeq(q, 1, Len(p))
  BY DEF IsPrefix
<1>4. SubSeq(q, 1, Len(p)) = p
  BY <1>2, <1>3
<1>5. Len(p) \in 0 .. Len(q)
  BY <1>1
<1>6. Len(p) = Len(q) => p = q
  BY <1>2, <1>4
<1> QED
  BY <1>4, <1>5, <1>6

\* With an entry there are those above it.
LEMMA AboveAreEntries ==
  ASSUME NEW t, TreeFits(t), NEW p \in Seq(Names), NEW q \in DOMAIN t, IsPrefix(p, q)
  PROVE  p \in DOMAIN t
<1>1. q \in Seq(Names)
  BY DEF TreeFits, Entries
<1>2. Len(p) \in 0 .. Len(q) /\ SubSeq(q, 1, Len(p)) = p
  BY <1>1, PrefixIsStart
<1>3. SubSeq(q, 1, Len(p)) \in DOMAIN t
  BY <1>2, AllTheWay
<1> QED
  BY <1>2, <1>3

\* Below a file or a directory that is empty there is nothing.
LEMMA NothingBelow ==
  ASSUME NEW t, TreeFits(t), NEW p \in DOMAIN t, IsEmpty(t[p]), NEW q \in DOMAIN t, IsPrefix(p, q)
  PROVE  q = p
<1>1. p \in Seq(Names) /\ q \in Seq(Names)
  BY DEF TreeFits, Entries
<1>2. Len(p) \in 0 .. Len(q) /\ SubSeq(q, 1, Len(p)) = p /\ (Len(p) = Len(q) => p = q)
  BY <1>1, PrefixIsStart
<1> SUFFICES ASSUME Len(p) # Len(q) PROVE FALSE
  BY <1>2
<1>3. Len(p) < Len(q)
  BY <1>1, <1>2, LenProperties
<1>4. IsDirectory(t, p) /\ q[Len(p) + 1] \in Children(t[p])
  BY <1>2, <1>3, AllTheWay
<1>5. DirFits(t[p]) /\ t[p].childCount = 0
  BY <1>4 DEF TreeFits, IsDirectory, IsEmpty
<1> QED
  BY <1>4, <1>5, FS_EmptySet DEF DirFits

\* What a new entry may be
NewEntries == FileEntries \cup {Directory}

LEMMA ChildIsEntry ==
  ASSUME NEW t, TreeFits(t), NEW dir, IsDirectory(t, dir), NEW n \in Names
  PROVE  /\ dir \in Seq(Names) /\ Append(dir, n) \in Seq(Names)
         /\ t[dir] \in Dirs /\ DirFits(t[dir])
         /\ n \in Children(t[dir]) <=> Append(dir, n) \in DOMAIN t
<1>1. dir \in DOMAIN t /\ t[dir].kind = "dir"
  BY DEF IsDirectory
<1>2. dir \in Seq(Names) /\ t[dir] \in Dirs
  BY <1>1, Kinds DEF TreeFits, Entries
<1>3. Append(dir, n) \in Seq(Names) /\ Append(dir, n) # <<>> /\ Front(Append(dir, n)) = dir /\ Last(Append(dir, n)) = n
  BY <1>2, FrontOfAppend
<1>4. DirFits(t[dir]) /\ \A m \in Children(t[dir]) : Append(dir, m) \in DOMAIN t
  BY <1>1 DEF TreeFits
<1>5. Append(dir, n) \in DOMAIN t => n \in Children(t[dir])
  BY <1>3 DEF TreeFits
<1> QED
  BY <1>2, <1>3, <1>4, <1>5

LEMMA NewChild ==
  ASSUME NEW ix, IndexFits(ix), NEW dir, IsDirectory(ix.tree, dir), NEW n \in Names,
         NEW entry \in NewEntries, ~FindChild(ix.tree[dir], n),
         NEW r \in CreateIn(ix, dir, n, entry)
  PROVE  Stepped(ix, r, dir, n, {Append(dir, n)}) /\ r.tree[Append(dir, n)] = entry
<1> DEFINE t == ix.tree
           p == Append(dir, n)
           d == InsertChild(t[dir], n)
           u == Place([t EXCEPT ![dir] = d], p, entry)
<1>1. IsIndex(ix) /\ TreeFits(t) /\ Entries(t) /\ Covers(ix.blockIndex, t, DOMAIN t)
  BY DEF IndexFits, TreeFits
<1>2. /\ dir \in Seq(Names) /\ p \in Seq(Names) /\ t[dir] \in Dirs /\ DirFits(t[dir])
      /\ n \in Children(t[dir]) <=> p \in DOMAIN t
  BY <1>1, ChildIsEntry
<1>3. n \notin Children(t[dir]) /\ p \notin DOMAIN t
  BY <1>2 DEF FindChild
<1>4. DirFits(d) /\ Children(d) = Children(t[dir]) \cup {n} /\ d.kind = "dir"
  BY <1>2, <1>3, InsertChildFits
<1>5. r = WithTree(ix, u)
  BY DEF CreateIn, WithTree
<1>6. /\ DOMAIN u = (DOMAIN t) \cup {p} /\ u = [q \in DOMAIN u |-> u[q]]
      /\ u[p] = entry /\ \A q \in DOMAIN t : q # p => u[q] = IF q = dir THEN d ELSE t[q]
  BY DEF Place
<1>7. dir \in DOMAIN t /\ t[dir].kind = "dir" /\ dir # p
  BY <1>3 DEF IsDirectory
<1> HIDE DEF u, d, t
<1>8. \A q \in DOMAIN t : ~IsPrefix(p, q)
  BY <1>1, <1>2, <1>3, AboveAreEntries
<1>9. u[dir] = d /\ \A q \in DOMAIN u : q # dir /\ q # p => u[q] = t[q]
  BY <1>6, <1>7
<1>10. ChildChanged(t, u, dir, n, {p})
  <2>1. DOMAIN u = {q \in DOMAIN t : ~IsPrefix(p, q)} \cup {p}
    BY <1>6, <1>8
  <2>2. u[p] \in FileEntries \/ (DirFits(u[p]) /\ Children(u[p]) = {})
    BY <1>6, EmptyDirectory DEF NewEntries
  <2>3. \A m : m \in Children(u[dir]) <=> (m \in Children(t[dir]) /\ m # n) \/ (m = n /\ {p} # {})
    BY <1>3, <1>4, <1>9
  <2>4. DirFits(u[dir])
    BY <1>4, <1>9
  <2> QED
    BY <1>6, <1>9, <2>1, <2>2, <2>3, <2>4 DEF ChildChanged
<1>11. Covers(ix.blockIndex, u, (DOMAIN u) \ {p})
  <2>1. (DOMAIN u) \ {p} = DOMAIN t
    BY <1>3, <1>6
  <2>2. \A q \in DOMAIN t : /\ t[q].kind = "file" <=> u[q].kind = "file"
                            /\ t[q].kind = "file" => t[q].blocks = u[q].blocks
    BY <1>3, <1>4, <1>6, <1>7
  <2>3. \A g \in Pages : Uses(t, DOMAIN t, g) = Uses(u, DOMAIN t, g)
    BY <2>2, UsesOfSame
  <2> QED
    BY <1>1, <2>1, <2>3 DEF Covers
<1> HIDE DEF p
<1>12. /\ IsIndex(r) /\ r.tree = u /\ r.rootItemVirtual = ix.rootItemVirtual
       /\ r.isChanged = ix.isChanged /\ r.metadata = ix.metadata /\ r.blockIndex = ix.blockIndex
  BY <1>1, <1>5, TreeIsSet
<1> QED
  BY <1>6, <1>10, <1>11, <1>12 DEF Stepped, p, t

LEMMA OtherEntry ==
  ASSUME NEW ix, IndexFits(ix), NEW dir, IsDirectory(ix.tree, dir), NEW n \in Names,
         NEW entry \in NewEntries, FindChild(ix.tree[dir], n),
         NEW r \in CreateIn(ix, dir, n, entry)
  PROVE  Stepped(ix, r, dir, n, {Append(dir, n)}) /\ r.tree[Append(dir, n)] = entry
<1> DEFINE t == ix.tree
           p == Append(dir, n)
           e == EntryFree(ix, p)
           D == {q \in DOMAIN t : ~IsPrefix(p, q)}
           u == Place(e.tree, p, entry)
<1>1. IsIndex(ix) /\ TreeFits(t) /\ Entries(t)
  BY DEF IndexFits, TreeFits
<1>2. /\ dir \in Seq(Names) /\ p \in Seq(Names) /\ t[dir] \in Dirs /\ DirFits(t[dir])
      /\ n \in Children(t[dir]) /\ dir \in DOMAIN t
  BY <1>1, ChildIsEntry DEF FindChild, IsDirectory
<1>3. r = WithTree(e, u)
  BY DEF CreateIn, WithTree
<1>4. IsPrefix(p, p) /\ ~IsPrefix(p, dir)
  BY <1>2, PrefixOfSelf, PrefixOfShorter
<1>5. /\ IsIndex(e) /\ e.tree = [q \in D |-> t[q]] /\ e.rootItemVirtual = ix.rootItemVirtual
      /\ e.isChanged = ix.isChanged /\ e.metadata = ix.metadata /\ Covers(e.blockIndex, t, D)
  BY <1>2, EntryFreed
<1>6. /\ DOMAIN u = D \cup {p} /\ u = [q \in DOMAIN u |-> u[q]]
      /\ u[p] = entry /\ \A q \in D : q # p => u[q] = t[q]
  BY <1>5 DEF Place
<1> HIDE DEF u, e
<1>7. dir \in D /\ dir # p /\ u[dir] = t[dir] /\ p \notin D
  BY <1>2, <1>4, <1>6
<1>8. ChildChanged(t, u, dir, n, {p})
  <2>2. u[p] \in FileEntries \/ (DirFits(u[p]) /\ Children(u[p]) = {})
    BY <1>6, EmptyDirectory DEF NewEntries
  <2>3. \A m : m \in Children(u[dir]) <=> (m \in Children(t[dir]) /\ m # n) \/ (m = n /\ {p} # {})
    BY <1>2, <1>7
  <2> QED
    BY <1>2, <1>6, <1>7, <2>2, <2>3 DEF ChildChanged
<1>9. Covers(e.blockIndex, u, (DOMAIN u) \ {p})
  <2>1. (DOMAIN u) \ {p} = D
    BY <1>6, <1>7
  <2>2. \A q \in D : u[q] = t[q]
    BY <1>6, <1>7
  <2>3. \A g \in Pages : Uses(t, D, g) = Uses(u, D, g)
    BY <2>2, UsesOfSame
  <2> QED
    BY <1>5, <2>1, <2>3 DEF Covers
<1> HIDE DEF p, t, D
<1>10. /\ IsIndex(r) /\ r.tree = u /\ r.rootItemVirtual = ix.rootItemVirtual
       /\ r.isChanged = ix.isChanged /\ r.metadata = ix.metadata /\ r.blockIndex = e.blockIndex
  BY <1>3, <1>5, TreeIsSet
<1> QED
  BY <1>6, <1>8, <1>9, <1>10 DEF Stepped, p, t

LEMMA Created ==
  ASSUME NEW ix, IndexFits(ix), NEW dir, IsDirectory(ix.tree, dir), NEW n \in Names,
         NEW entry \in NewEntries, NEW r \in CreateIn(ix, dir, n, entry)
  PROVE  Stepped(ix, r, dir, n, {Append(dir, n)}) /\ r.tree[Append(dir, n)] = entry
<1>1. CASE FindChild(ix.tree[dir], n)
  BY <1>1, OtherEntry, SMTT(20)
<1>2. CASE ~FindChild(ix.tree[dir], n)
  BY <1>2, NewChild, SMTT(20)
<1> QED
  BY <1>1, <1>2

LEMMA Deleted ==
  ASSUME NEW ix, IndexFits(ix), NEW dir, IsDirectory(ix.tree, dir), NEW n \in Names,
         NEW recursive, NEW r \in DeleteIn(ix, dir, n, recursive)
  PROVE  /\ Stepped(ix, r, dir, n, {}) /\ Append(dir, n) \in DOMAIN ix.tree
         /\ recursive \/ IsEmpty(ix.tree[Append(dir, n)])
<1> DEFINE t == ix.tree
           p == Append(dir, n)
           e == EntryFree(ix, p)
           D == {q \in DOMAIN t : ~IsPrefix(p, q)}
           u == [e.tree EXCEPT ![dir] = RemoveChild(e.tree[dir], n)]
<1>1. IsIndex(ix) /\ TreeFits(t) /\ Entries(t)
  BY DEF IndexFits, TreeFits
<1>2. FindChild(t[dir], n) /\ (recursive \/ IsEmpty(t[p])) /\ r = [e EXCEPT !.tree[dir] = RemoveChild(@, n)]
  BY DEF DeleteIn
<1>3. /\ dir \in Seq(Names) /\ p \in Seq(Names) /\ t[dir] \in Dirs /\ DirFits(t[dir])
      /\ n \in Children(t[dir]) /\ dir \in DOMAIN t /\ p \in DOMAIN t
  BY <1>1, <1>2, ChildIsEntry DEF FindChild, IsDirectory
<1>4. IsPrefix(p, p) /\ ~IsPrefix(p, dir)
  BY <1>3, PrefixOfSelf, PrefixOfShorter
<1>5. /\ IsIndex(e) /\ e.tree = [q \in D |-> t[q]] /\ e.rootItemVirtual = ix.rootItemVirtual
      /\ e.isChanged = ix.isChanged /\ e.metadata = ix.metadata /\ Covers(e.blockIndex, t, D)
  BY <1>3, EntryFreed
<1> HIDE DEF e
<1>6. r = WithTree(e, u)
  BY <1>2, <1>5 DEF WithTree, IsIndex
<1>7. dir \in D /\ p \notin D
  BY <1>3, <1>4
<1>8. /\ DOMAIN u = D /\ u = [q \in DOMAIN u |-> u[q]] /\ u[dir] = RemoveChild(t[dir], n)
      /\ \A q \in D : q # dir => u[q] = t[q]
  BY <1>5, <1>7
<1> HIDE DEF u
<1>9. DirFits(u[dir]) /\ Children(u[dir]) = Children(t[dir]) \ {n} /\ u[dir].kind = "dir"
  BY <1>3, <1>8, RemoveChildFits
<1>10. ChildChanged(t, u, dir, n, {})
  <2>1. \A m : m \in Children(u[dir]) <=> (m \in Children(t[dir]) /\ m # n) \/ (m = n /\ {} # {})
    BY <1>9
  <2> QED
    BY <1>8, <1>9, <2>1 DEF ChildChanged
<1>11. Covers(e.blockIndex, u, (DOMAIN u) \ {})
  <2>1. \A q \in D : /\ t[q].kind = "file" <=> u[q].kind = "file"
                     /\ t[q].kind = "file" => t[q].blocks = u[q].blocks
    BY <1>3, <1>7, <1>8, <1>9, Kinds
  <2>2. \A g \in Pages : Uses(t, D, g) = Uses(u, D, g)
    BY <2>1, UsesOfSame
  <2>3. (DOMAIN u) \ {} = D
    BY <1>8
  <2> QED
    BY <1>5, <2>2, <2>3 DEF Covers
<1> HIDE DEF p, t, D
<1>12. /\ IsIndex(r) /\ r.tree = u /\ r.rootItemVirtual = ix.rootItemVirtual
       /\ r.isChanged = ix.isChanged /\ r.metadata = ix.metadata /\ r.blockIndex = e.blockIndex
  BY <1>5, <1>6, TreeIsSet
<1> QED
  BY <1>2, <1>3, <1>10, <1>11, <1>12 DEF Stepped, p, t

-----------------------------------------------------------------------------
(* What an operation did to the index                                      *)

\* The files of a set have no block with a page.
NoPages(t, S) ==
  \A q \in S : t[q].kind = "file" => \A k \in DOMAIN t[q].blocks : t[q].blocks[k] \notin Pages

LEMMA CoversAll ==
  ASSUME NEW t, TreeFits(t), NEW b, NEW new, new \subseteq DOMAIN t, Covers(b, t, (DOMAIN t) \ new)
  PROVE  /\ NoPages(t, new) => Covers(b, t, DOMAIN t)
         /\ Covers([g \in Pages |-> b[g] + Uses(t, new, g)], t, DOMAIN t)
<1> DEFINE D == DOMAIN t
<1>1. IsFiniteSet(D) /\ \A q \in D : t[q] \in Dirs \cup FileEntries
  BY DEF TreeFits, Entries
<1>2. ASSUME NEW g \in Pages
      PROVE  /\ b[g] \in Nat /\ Uses(t, new, g) \in Nat /\ Uses(t, D, g) \in Nat
             /\ b[g] + Uses(t, new, g) >= Uses(t, D, g)
             /\ NoPages(t, new) => Uses(t, new, g) = 0
  <2> HIDE DEF D
  <2>1. /\ Uses(t, D \ new, g) = Uses(t, D, g) - Uses(t, new, g)
        /\ Uses(t, new, g) \in Nat /\ Uses(t, D, g) \in Nat /\ Uses(t, D \ new, g) \in Nat
    BY <1>1, UsesOfSome DEF D
  <2>2. b[g] \in Nat /\ b[g] >= Uses(t, D \ new, g)
    BY DEF Covers, D
  <2>3. ASSUME NoPages(t, new) PROVE Uses(t, new, g) = 0
    <3>1. \A q \in new : t[q].kind = "file" => \A k \in DOMAIN t[q].blocks : t[q].blocks[k] # g
      BY <2>3 DEF NoPages
    <3> QED
      BY <3>1, UsesOfNone
  <2> QED
    BY <2>1, <2>2, <2>3
<1>3. Covers([g \in Pages |-> b[g] + Uses(t, new, g)], t, D)
  BY <1>2 DEF Covers
<1>4. ASSUME NoPages(t, new) PROVE Covers(b, t, D)
  <2>1. b \in [Pages -> Nat]
    BY DEF Covers
  <2>2. \A g \in Pages : b[g] >= Uses(t, D, g)
    BY <1>2, <1>4
  <2> QED
    BY <2>1, <2>2 DEF Covers
<1> QED
  BY <1>3, <1>4

LEMMA NewIsEntry ==
  ASSUME NEW t, NEW u, NEW dir, NEW n, NEW new, ChildChanged(t, u, dir, n, new)
  PROVE  new \subseteq DOMAIN u
BY DEF ChildChanged

\* r is ix after the entry p went or came, counted as a change.
Did(ix, r, p, new) ==
  /\ IndexFits(r) /\ p \in Seq(Names) /\ p # <<>>
  /\ IsDirectory(ix.tree, Front(p)) /\ ChildChanged(ix.tree, r.tree, Front(p), Last(p), new)
  /\ r.rootItemVirtual = ix.rootItemVirtual /\ r.metadata = ix.metadata /\ r.isChanged

LEMMA DidAfterStep ==
  ASSUME NEW ix, IndexFits(ix), NEW dir, IsDirectory(ix.tree, dir), NEW n \in Names, NEW new,
         NEW r, Stepped(ix, r, dir, n, new)
  PROVE  /\ NoPages(r.tree, new) => Did(ix, AsChanged(r), Append(dir, n), new)
         /\ Did(ix, CountBlocks(AsChanged(r), new), Append(dir, n), new)
<1> DEFINE p == Append(dir, n)
           c == AsChanged(r)
           b == [g \in Pages |-> r.blockIndex[g] + Uses(r.tree, new, g)]
           w == WithBlocks(c, b)
<1>1. /\ IsIndex(ix) /\ TreeFits(ix.tree) /\ ix.rootItemVirtual \in Seq(Names)
      /\ ix.metadata \in {NULL, "automatic", "custom"}
  BY DEF IndexFits
<1>2. dir \in Seq(Names) /\ p \in Seq(Names) /\ p # <<>> /\ Front(p) = dir /\ Last(p) = n
  BY <1>1, ChildIsEntry, FrontOfAppend
<1> HIDE DEF p
<1>3. /\ IsIndex(r) /\ ChildChanged(ix.tree, r.tree, dir, n, new)
      /\ r.rootItemVirtual = ix.rootItemVirtual /\ r.isChanged = ix.isChanged /\ r.metadata = ix.metadata
      /\ Covers(r.blockIndex, r.tree, (DOMAIN r.tree) \ new)
  BY DEF Stepped
<1>4. TreeFits(r.tree) /\ new \subseteq DOMAIN r.tree
  BY <1>1, <1>3, TreeChanges, NewIsEntry
<1>5. /\ NoPages(r.tree, new) => Covers(r.blockIndex, r.tree, DOMAIN r.tree)
      /\ Covers(b, r.tree, DOMAIN r.tree)
  BY <1>3, <1>4, CoversAll
<1>6. /\ IsIndex(c) /\ c.tree = r.tree /\ c.rootItemVirtual = r.rootItemVirtual
      /\ c.blockIndex = r.blockIndex /\ c.isChanged /\ c.isChanged \in BOOLEAN /\ c.metadata = r.metadata
  BY <1>3, ChangeIsSet
<1>7. CountBlocks(c, new) = w
  BY <1>6 DEF CountBlocks, WithBlocks, IsIndex
<1> HIDE DEF c, b
<1>8. /\ IsIndex(w) /\ w.tree = c.tree /\ w.rootItemVirtual = c.rootItemVirtual
      /\ w.blockIndex = b /\ w.isChanged = c.isChanged /\ w.metadata = c.metadata
  BY <1>6, BlocksAreSet
<1> HIDE DEF w
<1>9. Did(ix, w, p, new)
  <2>1. IndexFits(w)
    BY <1>1, <1>3, <1>4, <1>5, <1>6, <1>8 DEF IndexFits
  <2> QED
    BY <1>2, <1>3, <1>6, <1>8, <2>1 DEF Did
<1>10. ASSUME NoPages(r.tree, new) PROVE Did(ix, c, p, new)
  <2>1. IndexFits(c)
    BY <1>1, <1>3, <1>4, <1>5, <1>6, <1>10 DEF IndexFits
  <2> QED
    BY <1>2, <1>3, <1>6, <2>1 DEF Did
<1> QED
  BY <1>7, <1>9, <1>10 DEF p, c

\* The path from the root of the tree
PathAt(ix, path) == ix.rootItemVirtual \o path

LEMMA PathIs ==
  ASSUME NEW ix, ix.rootItemVirtual \in Seq(Names), NEW path \in Seq(Names), path # <<>>,
         NEW dir, dir = FindElement(ix, Front(path)), dir # NULL
  PROVE  /\ PathAt(ix, path) = Append(dir, Last(path)) /\ Last(path) \in Names
         /\ PathAt(ix, path) \in Seq(Names) /\ Len(PathAt(ix, path)) > Len(ix.rootItemVirtual)
<1> DEFINE s == ix.rootItemVirtual
           f == Front(path)
           n == Last(path)
<1>1. path = Append(f, n) /\ f \in Seq(Names) /\ n \in Names
  BY FrontAndLast
<1>2. dir = s \o f
  BY DEF FindElement
<1> HIDE DEF s, f, n
<1>3. s \in Seq(Names)
  BY DEF s
<1>4. s \o Append(f, n) = Append(s \o f, n) /\ s \o Append(f, n) \in Seq(Names) /\ Len(s \o Append(f, n)) > Len(s)
  BY <1>1, <1>3
<1> QED
  BY <1>1, <1>2, <1>4 DEF PathAt, s, n

\* Cookfs_FsindexUnset, Cookfs_FsindexUnsetRecursive
LEMMA UnsetDid ==
  ASSUME NEW ix, IndexFits(ix), NEW path \in Seq(Names), path # <<>>, NEW recursive,
         NEW r \in Unset(ix, path, recursive)
  PROVE  /\ Did(ix, r, PathAt(ix, path), {}) /\ PathAt(ix, path) \in DOMAIN ix.tree
         /\ recursive \/ IsEmpty(ix.tree[PathAt(ix, path)])
<1> DEFINE dir == FindElement(ix, Front(path))
           n == Last(path)
<1>1. dir # NULL /\ IsDirectory(ix.tree, dir)
  BY DEF Unset
<1>2. PICK s \in DeleteIn(ix, dir, n, recursive) : r = AsChanged(s)
  BY <1>1 DEF Unset, Changed, AsChanged
<1>3. PathAt(ix, path) = Append(dir, n) /\ n \in Names
  BY <1>1, PathIs DEF IndexFits
<1> HIDE DEF dir, n
<1>4. /\ Stepped(ix, s, dir, n, {}) /\ Append(dir, n) \in DOMAIN ix.tree
      /\ recursive \/ IsEmpty(ix.tree[Append(dir, n)])
  BY <1>1, <1>2, <1>3, Deleted
<1>5. NoPages(s.tree, {})
  BY DEF NoPages
<1> QED
  BY <1>1, <1>2, <1>3, <1>4, <1>5, DidAfterStep

\* Cookfs_FsindexSet
LEMMA SetDid ==
  ASSUME NEW ix, IndexFits(ix), NEW path \in Seq(Names), path # <<>>, NEW entry \in NewEntries,
         NEW r \in SetEntry(ix, path, entry)
  PROVE  /\ r.tree[PathAt(ix, path)] = entry /\ r.rootItemVirtual = ix.rootItemVirtual
         /\ CountBlocks(r, {PathAt(ix, path)}).tree = r.tree
         /\ Did(ix, CountBlocks(r, {PathAt(ix, path)}), PathAt(ix, path), {PathAt(ix, path)})
         /\ NoPages(r.tree, {PathAt(ix, path)}) => Did(ix, r, PathAt(ix, path), {PathAt(ix, path)})
<1> DEFINE dir == FindElement(ix, Front(path))
           n == Last(path)
           p == PathAt(ix, path)
<1>1. dir # NULL /\ IsDirectory(ix.tree, dir)
  BY DEF SetEntry
<1>2. PICK s \in CreateIn(ix, dir, n, entry) : r = AsChanged(s)
  BY <1>1 DEF SetEntry, Changed, AsChanged
<1>3. p = Append(dir, n) /\ n \in Names
  BY <1>1, PathIs DEF IndexFits
<1> HIDE DEF dir, n, p
<1>4. Stepped(ix, s, dir, n, {p}) /\ s.tree[p] = entry
  BY <1>1, <1>2, <1>3, Created
<1>5. IsIndex(s) /\ s.rootItemVirtual = ix.rootItemVirtual
  BY <1>4 DEF Stepped
<1>6. IsIndex(r) /\ r.tree = s.tree /\ r.rootItemVirtual = ix.rootItemVirtual
  BY <1>2, <1>5, ChangeIsSet
<1>7. /\ NoPages(s.tree, {p}) => Did(ix, r, p, {p})
      /\ Did(ix, CountBlocks(r, {p}), p, {p})
  BY <1>1, <1>2, <1>3, <1>4, DidAfterStep
<1>8. CountBlocks(r, {p}).tree = r.tree
  <2> DEFINE b == [g \in Pages |-> r.blockIndex[g] + Uses(r.tree, {p}, g)]
  <2>1. CountBlocks(r, {p}) = WithBlocks(r, b)
    BY <1>6 DEF CountBlocks, WithBlocks, IsIndex
  <2> HIDE DEF b
  <2> QED
    BY <1>6, <2>1, BlocksAreSet
<1> QED
  BY <1>4, <1>6, <1>7, <1>8 DEF p

LEMMA NewFile ==
  ASSUME NEW blocks \in Seq(Pages \cup {-1}), NEW isCounted \in BOOLEAN
  PROVE  /\ File(blocks, isCounted) \in NewEntries /\ File(blocks, isCounted) \in FileEntries
         /\ File(blocks, isCounted).kind = "file" /\ File(blocks, isCounted).blocks = blocks
         /\ File(blocks, isCounted).isCounted = isCounted
BY DEF File, NewEntries, FileEntries

\* A root of the mount that goes with the mode of filesets
Apart(ix) ==
  /\ IsDirectory(ix.tree, ix.rootItemVirtual)
  /\ Len(ix.rootItemVirtual) = IF ix.metadata = NULL THEN 0 ELSE 1
  /\ ix.metadata # NULL => \A n \in Children(ix.tree[<<>>]) : IsDirectory(ix.tree, <<n>>)

\* The directories above what an operation changes stay.
LEMMA DirectoryStays ==
  ASSUME NEW ix, IndexFits(ix), NEW r, NEW p, NEW new, Did(ix, r, p, new),
         NEW s \in Seq(Names), Len(s) < Len(p), IsDirectory(ix.tree, s)
  PROVE  IsDirectory(r.tree, s) /\ (s # Front(p) => r.tree[s] = ix.tree[s])
<1> DEFINE t == ix.tree
           u == r.tree
           dir == Front(p)
           n == Last(p)
<1>1. /\ TreeFits(t) /\ p \in Seq(Names) /\ IsDirectory(t, dir) /\ ChildChanged(t, u, dir, n, new)
      /\ p = Append(dir, n) /\ n \in Names /\ Len(p) \in Nat /\ Len(s) \in Nat
  BY FrontAndLast, LenProperties DEF IndexFits, Did
<1> HIDE DEF t, u, dir, n
<1>2. IsDirectory(u, dir)
  BY <1>1, TreeChanges
<1>3. CASE s = dir
  BY <1>2, <1>3 DEF u, dir
<1>4. CASE s # dir
  <2>1. ~IsPrefix(p, s) /\ s # p
    BY <1>1 DEF IsPrefix
  <2>2. s \in DOMAIN t /\ t[s].kind = "dir"
    BY DEF IsDirectory, t
  <2>3. s \in DOMAIN u /\ u[s] = t[s]
    BY <1>1, <1>4, <2>1, <2>2 DEF ChildChanged
  <2> QED
    BY <1>4, <2>2, <2>3 DEF IsDirectory, u, t, dir
<1> QED
  BY <1>3, <1>4

LEMMA ApartStays ==
  ASSUME NEW ix, IndexFits(ix), Apart(ix), NEW r, NEW p, NEW new, Did(ix, r, p, new),
         Len(p) > Len(ix.rootItemVirtual)
  PROVE  Apart(r)
<1>1. /\ ix.rootItemVirtual \in Seq(Names) /\ r.rootItemVirtual = ix.rootItemVirtual
      /\ r.metadata = ix.metadata /\ TreeFits(ix.tree) /\ TreeFits(r.tree) /\ p \in Seq(Names) /\ p # <<>>
  BY DEF IndexFits, Did
<1>2. IsDirectory(r.tree, ix.rootItemVirtual)
  BY <1>1, DirectoryStays DEF Apart
<1>3. ASSUME ix.metadata # NULL, NEW n \in Children(r.tree[<<>>])
      PROVE  IsDirectory(r.tree, <<n>>)
  <2>1. Len(p) > 1 /\ Len(p) \in Nat
    BY <1>1, <1>3, LenProperties DEF Apart
  <2>2. Front(p) # <<>> /\ <<>> \in Seq(Names) /\ Len(<<>>) = 0
    BY <1>1, <2>1, FrontAndLast
  <2>3. IsDirectory(ix.tree, <<>>)
    BY <1>1 DEF TreeFits
  <2>4. r.tree[<<>>] = ix.tree[<<>>]
    <3> DEFINE s == <<>>
    <3>1. s \in Seq(Names) /\ Len(s) < Len(p) /\ IsDirectory(ix.tree, s) /\ s # Front(p)
      BY <2>1, <2>2, <2>3
    <3> HIDE DEF s
    <3>2. r.tree[s] = ix.tree[s]
      BY <3>1, DirectoryStays
    <3> QED
      BY <3>2 DEF s
  <2>5. IsDirectory(ix.tree, <<n>>) /\ n \in Names
    <3>1. DirFits(ix.tree[<<>>])
      BY <1>1, <2>3 DEF TreeFits, IsDirectory
    <3> QED
      BY <1>3, <2>4, <3>1, ChildrenAre DEF Apart, DirFits
  <2>6. <<n>> \in Seq(Names) /\ Len(<<n>>) < Len(p)
    BY <2>1, <2>5
  <2> QED
    BY <2>5, <2>6, DirectoryStays
<1> QED
  BY <1>1, <1>2, <1>3 DEF Apart

\* What an entry is, for those who read it
Seen(t, q) == IF IsDirectory(t, q) THEN <<"dir">> ELSE <<"file", t[q].blocks>>

LEMMA ContentIs ==
  ASSUME NEW ix, TreeFits(ix.tree)
  PROVE  Content(ix) = [q \in DOMAIN ix.tree |-> Seen(ix.tree, q)]
BY WholeTree DEF Content, Seen

\* The entry and what is below it goes; a new one is there; nothing else changes.
LEMMA ContentAfter ==
  ASSUME NEW ix, IndexFits(ix), NEW r, NEW p, NEW new, Did(ix, r, p, new)
  PROVE  /\ new = {} => Content(r) = Cut(Content(ix), p)
         /\ new = {p} => Content(r) = Put(Content(ix), p, Seen(r.tree, p))
<1> DEFINE t == ix.tree
           u == r.tree
           dir == Front(p)
           n == Last(p)
           D == {q \in DOMAIN t : ~IsPrefix(p, q)}
<1>1. /\ TreeFits(t) /\ TreeFits(u) /\ p \in Seq(Names) /\ IsDirectory(t, dir)
      /\ ChildChanged(t, u, dir, n, new) /\ p = Append(dir, n) /\ n \in Names
  BY FrontAndLast DEF IndexFits, Did
<1>2. Content(ix) = [q \in DOMAIN t |-> Seen(t, q)] /\ Content(r) = [q \in DOMAIN u |-> Seen(u, q)]
  BY <1>1, ContentIs
<1>3. Cut(Content(ix), p) = [q \in D |-> Seen(t, q)]
  BY <1>2 DEF Cut
<1> HIDE DEF t, u, dir, n
<1>4. IsDirectory(u, dir) /\ IsPrefix(p, p)
  BY <1>1, TreeChanges, PrefixOfSelf
<1>5. DOMAIN u = D \cup new /\ new \in SUBSET {p} /\ \A q \in DOMAIN u : q # dir /\ q # p => u[q] = t[q]
  BY <1>1 DEF ChildChanged
<1>6. ASSUME NEW q \in D PROVE Seen(u, q) = Seen(t, q)
  <2>1. q # p /\ q \in DOMAIN u /\ q \in DOMAIN t
    BY <1>4, <1>5
  <2>2. CASE q = dir
    BY <1>1, <1>4, <2>2 DEF Seen
  <2>3. CASE q # dir
    <3>1. u[q] = t[q]
      BY <1>5, <2>1, <2>3
    <3> QED
      BY <2>1, <3>1 DEF Seen, IsDirectory
  <2> QED
    BY <2>2, <2>3
<1>7. ASSUME new = {} PROVE Content(r) = Cut(Content(ix), p)
  <2>1. DOMAIN u = D
    BY <1>5, <1>7
  <2> QED
    BY <1>2, <1>3, <1>6, <2>1
<1>8. ASSUME new = {p} PROVE Content(r) = Put(Content(ix), p, Seen(u, p))
  <2>1. DOMAIN u = D \cup {p}
    BY <1>5, <1>8
  <2>2. dir \in DOMAIN Content(ix) /\ Content(ix)[dir] = <<"dir">>
    BY <1>1, <1>2 DEF IsDirectory, Seen
  <2>3. Put(Content(ix), p, Seen(u, p)) = Place(Cut(Content(ix), p), p, Seen(u, p))
    BY <2>2 DEF Put, dir
  <2>4. Place(Cut(Content(ix), p), p, Seen(u, p)) =
          [q \in D \cup {p} |-> IF q = p THEN Seen(u, p) ELSE Seen(t, q)]
    BY <1>3 DEF Place
  <2>5. \A q \in D \cup {p} : Seen(u, q) = IF q = p THEN Seen(u, p) ELSE Seen(t, q)
    BY <1>6
  <2> HIDE DEF D
  <2> QED
    BY <1>2, <2>1, <2>3, <2>4, <2>5
<1> QED
  BY <1>7, <1>8 DEF u

-----------------------------------------------------------------------------
(* Export and import of one directory                                      *)

\* A sequence has each of the names of a set once.
Orders(o, S) ==
  /\ o \in Seq(Names) /\ \A n : n \in S <=> \E i \in 1 .. Len(o) : o[i] = n
  /\ \A i, j \in 1 .. Len(o) : o[i] = o[j] => i = j

LEMMA OneMoreInOrder ==
  ASSUME NEW o, NEW S, Orders(o, S), NEW n \in Names, n \notin S
  PROVE  Orders(Append(o, n), S \cup {n})
<1>1. o \in Seq(Names) /\ Len(o) \in Nat
  BY LenProperties DEF Orders
<1> DEFINE p == Append(o, n)
<1>2. /\ p \in Seq(Names) /\ Len(p) = Len(o) + 1
      /\ p[Len(o) + 1] = n /\ \A i \in 1 .. Len(o) : p[i] = o[i]
  BY <1>1
<1> HIDE DEF p
<1>3. \A i \in 1 .. Len(p) : i \in 1 .. Len(o) \/ i = Len(o) + 1
  BY <1>1, <1>2
<1>4. 1 .. Len(o) \subseteq 1 .. Len(p) /\ Len(o) + 1 \in 1 .. Len(p)
  BY <1>1, <1>2
<1>5. \A i \in 1 .. Len(o) : o[i] # n
  BY DEF Orders
<1>6. \A m : m \in S \cup {n} <=> \E i \in 1 .. Len(p) : p[i] = m
  BY <1>2, <1>3, <1>4 DEF Orders
<1>7. \A i, j \in 1 .. Len(p) : p[i] = p[j] => i = j
  BY <1>2, <1>3, <1>5 DEF Orders
<1>8. Orders(p, S \cup {n})
  BY <1>2, <1>6, <1>7 DEF Orders
<1> QED
  BY <1>8 DEF p

\* The slots that are taken, in order
LEMMA PresentIs ==
  ASSUME NEW s \in Seq(Names \cup {NULL}),
         \A i, j \in 1 .. Len(s) : s[i] = s[j] => i = j \/ s[i] = NULL
  PROVE  Orders(Present(s), {n \in Names : \E i \in 1 .. Len(s) : s[i] = n})
<1> DEFINE n == Len(s)
           Next1(k, z) == IF s[k] = NULL THEN z ELSE Append(z, s[k])
           Rec(f) == f = [k \in 0 .. n |->
                            IF k = 0 THEN <<>>
                            ELSE IF s[k] = NULL THEN f[k - 1] ELSE Append(f[k - 1], s[k])]
           upTo == CHOOSE f : Rec(f)
           Z == Seq(Names)
           step == [k \in 1 .. n |-> [z \in Z |-> Next1(k, z)]]
           S(k) == {m \in Names : \E i \in 1 .. k : s[i] = m}
           T == {k \in 0 .. n : Orders(upTo[k], S(k))}
<1>1. n \in Nat /\ \A k \in 1 .. n : s[k] \in Names \cup {NULL}
  BY LenProperties
<1>2. Present(s) = upTo[n]
  BY DEF Present
<1>3. \E f : Recurses(f, n, Z, <<>>, step)
  <2>1. <<>> \in Z
    OBVIOUS
  <2>2. step \in [1 .. n -> [Z -> Z]]
    <3> SUFFICES ASSUME NEW k \in 1 .. n, NEW z \in Z PROVE Next1(k, z) \in Z
      OBVIOUS
    <3> QED
      BY <1>1
  <2> HIDE DEF step, Z, n
  <2> QED
    BY <1>1, <2>1, <2>2, RecursionExists
<1>4. \E f : Rec(f)
  <2>1. PICK f : Recurses(f, n, Z, <<>>, step)
    BY <1>3
  <2>2. f \in [0 .. n -> Z] /\ f[0] = <<>> /\ \A k \in 1 .. n : f[k] = step[k][f[k - 1]]
    BY <2>1 DEF Recurses
  <2>3. ASSUME NEW k \in 1 .. n PROVE f[k] = Next1(k, f[k - 1])
    <3>1. k - 1 \in 0 .. n
      BY <1>1
    <3>2. f[k - 1] \in Z
      BY <2>2, <3>1
    <3> QED
      BY <2>2, <3>2
  <2>4. \A k \in 0 .. n : k = 0 \/ k \in 1 .. n
    BY <1>1
  <2>5. Rec(f)
    <3> HIDE DEF Next1, n
    <3>1. \A k \in 0 .. n : f[k] = IF k = 0 THEN <<>> ELSE Next1(k, f[k - 1])
      BY <2>2, <2>3, <2>4
    <3>2. f = [k \in 0 .. n |-> f[k]]
      BY <2>2
    <3>3. f = [k \in 0 .. n |-> IF k = 0 THEN <<>> ELSE Next1(k, f[k - 1])]
      BY <3>1, <3>2, Zenon
    <3> QED
      BY <3>3 DEF Next1
  <2> HIDE DEF Rec
  <2> QED
    BY <2>5
<1>5. Rec(upTo)
  <2> HIDE DEF Rec
  <2> QED
    BY <1>4
<1> HIDE DEF upTo
<1>6. upTo[0] = <<>> /\ \A k \in 1 .. n : upTo[k] = Next1(k, upTo[k - 1])
  <2>1. \A k \in 0 .. n : upTo[k] = IF k = 0 THEN <<>>
                                  ELSE IF s[k] = NULL THEN upTo[k - 1] ELSE Append(upTo[k - 1], s[k])
    <3> HIDE DEF n
    <3> QED
      BY <1>5
  <2>2. 0 \in 0 .. n /\ \A k \in 1 .. n : k \in 0 .. n /\ k # 0
    BY <1>1
  <2> HIDE DEF n
  <2> QED
    BY <2>1, <2>2
<1> HIDE DEF n
<1>7. 0 \in T
  <2>1. 0 \in 0 .. n /\ 1 .. 0 = {}
    BY <1>1
  <2>2. Orders(<<>>, {})
    BY DEF Orders
  <2>3. S(0) = {}
    BY <2>1
  <2> QED
    BY <1>6, <2>1, <2>2, <2>3
<1>8. ASSUME NEW k \in 1 .. n, k - 1 \in T PROVE k \in T
  <2>1. Orders(upTo[k - 1], S(k - 1))
    BY <1>8
  <2>2. \A i \in 1 .. k : i \in 1 .. k - 1 \/ i = k
    BY <1>1
  <2>3. 1 .. k - 1 \subseteq 1 .. k /\ k \in 1 .. k /\ 1 .. k \subseteq 1 .. n /\ k \in 0 .. n
        /\ \A i \in 1 .. k - 1 : i # k
    BY <1>1
  <2>4. CASE s[k] = NULL
    <3>1. S(k) = S(k - 1)
      BY <2>2, <2>3, <2>4, TableFits
    <3>2. upTo[k] = upTo[k - 1]
      BY <1>6, <2>4
    <3> QED
      BY <2>1, <2>3, <3>1, <3>2
  <2>5. CASE s[k] # NULL
    <3>1. s[k] \in Names
      BY <1>1, <2>5
    <3>2. S(k) = S(k - 1) \cup {s[k]}
      BY <2>2, <2>3, <3>1
    <3>3. s[k] \notin S(k - 1)
      BY <2>3, <2>5 DEF n
    <3>4. upTo[k] = Append(upTo[k - 1], s[k])
      BY <1>6, <2>5
    <3> HIDE DEF S
    <3>5. Orders(upTo[k], S(k))
      BY <2>1, <3>1, <3>2, <3>3, <3>4, OneMoreInOrder
    <3> QED
      BY <2>3, <3>5 DEF S
  <2> QED
    BY <2>4, <2>5
<1>9. n \in T
  <2> HIDE DEF T
  <2>1. 0 .. n \subseteq T
    BY <1>1, <1>7, <1>8, UpToAll
  <2> QED
    BY <1>1, <2>1
<1> QED
  BY <1>2, <1>9 DEF n

\* The export of a directory has each child once.
LEMMA OrdersAre ==
  ASSUME NEW d, DirFits(d), NEW o \in ChildOrders(d)
  PROVE  Orders(o, Children(d))
<1>1. d \in Dirs /\ IsFiniteSet(Children(d)) /\ Children(d) \subseteq Names
  BY ChildrenAre DEF DirFits
<1>2. CASE d.isHash
  <2> DEFINE C == d.children
             m == Cardinality(C)
  <2>1. Children(d) = C /\ IsFiniteSet(C) /\ m \in Nat /\ C \subseteq Names
    BY <1>1, <1>2, ChildrenAre, FS_CardinalityType
  <2>2. o \in [1 .. m -> C] /\ \A i, j \in 1 .. m : i # j => o[i] # o[j]
    BY <1>2 DEF ChildOrders, SetToSeqs
  <2> HIDE DEF m, C
  <2>3. o \in Injection(1 .. m, C)
    BY <2>2 DEF Injection, IsInjective
  <2>4. IsFiniteSet(1 .. m) /\ Cardinality(1 .. m) = m
    <3>1. /\ 1 \in Int /\ m \in Int
          /\ IsFiniteSet(1 .. m) /\ Cardinality(1 .. m) = IF 1 > m THEN 0 ELSE m - 1 + 1
      BY <2>1, FS_Interval
    <3> QED
      BY <2>1, <3>1
  <2>5. o \in Surjection(1 .. m, C)
    BY <2>1, <2>3, <2>4, FS_Injection DEF m
  <2>6. o \in Seq(Names) /\ Len(o) = m
    <3>1. o \in Seq(C)
      BY <2>1, <2>2, SeqDef
    <3>2. o \in Seq(Names)
      BY <2>1, <3>1, SeqMonotonic
    <3>3. DOMAIN o = 1 .. m
      BY <2>2
    <3> QED
      BY <2>1, <3>2, <3>3
  <2> QED
    BY <2>1, <2>2, <2>5, <2>6 DEF Orders, Surjection
<1>3. CASE ~d.isHash
  <2> DEFINE s == d.table
  <2>1. o = Present(s)
    BY <1>3 DEF ChildOrders
  <2>2. s \in [1 .. TableSize -> Names \cup {NULL}]
    BY <1>1 DEF Dirs
  <2>3. \A i, j \in 1 .. TableSize : s[i] = s[j] => i = j \/ s[i] = NULL
    BY <1>3 DEF DirFits
  <2> HIDE DEF s
  <2>4. s \in Seq(Names \cup {NULL}) /\ Len(s) = TableSize
    <3>1. s \in Seq(Names \cup {NULL})
      BY <2>2, SeqDef, TableFits
    <3>2. DOMAIN s = 1 .. TableSize
      BY <2>2
    <3> QED
      BY <3>1, <3>2, TableFits
  <2>5. Orders(Present(s), {n \in Names : \E i \in 1 .. TableSize : s[i] = n})
    BY <2>3, <2>4, PresentIs
  <2>6. {n \in Names : \E i \in 1 .. TableSize : s[i] = n} = Children(d)
    BY <1>1, <1>3, ChildrenAre, TableFits DEF s
  <2> QED
    BY <2>1, <2>5, <2>6
<1> QED
  BY <1>2, <1>3

\* A directory that is imported has the children that were exported, though in
\* other slots or in a hash.
LEMMA ImportedDirectory ==
  ASSUME NEW o, NEW C, Orders(o, C), C \subseteq Names
  PROVE  /\ DirFits(ImportDirectory(o)) /\ Children(ImportDirectory(o)) = C
         /\ ImportDirectory(o).kind = "dir"
<1> DEFINE n == Len(o)
           Rec(f) == f = [k \in 0 .. n |-> IF k = 0 THEN Directory ELSE InsertChild(f[k - 1], o[k])]
           upTo == CHOOSE f : Rec(f)
           Z == {d \in Dirs : DirFits(d)}
           step == [k \in 1 .. n |->
                      [z \in Z |-> IF o[k] \in Children(z) THEN z ELSE InsertChild(z, o[k])]]
           S(k) == {m \in Names : \E i \in 1 .. k : o[i] = m}
<1>1. n \in Nat /\ \A k \in 1 .. n : o[k] \in Names
  BY LenProperties DEF Orders
<1>2. ImportDirectory(o) = upTo[n]
  BY DEF ImportDirectory
<1>3. \A i, j \in 1 .. n : o[i] = o[j] => i = j
  BY DEF Orders
<1>4. S(n) = C
  BY DEF Orders
<1> HIDE DEF n, upTo
<1>5. Directory \in Z
  BY EmptyDirectory DEF DirFits
<1>6. PICK f : Recurses(f, n, Z, Directory, step)
  <2>1. step \in [1 .. n -> [Z -> Z]]
    <3> SUFFICES ASSUME NEW k \in 1 .. n, NEW z \in Z, o[k] \notin Children(z)
                 PROVE  InsertChild(z, o[k]) \in Z
      OBVIOUS
    <3>1. DirFits(InsertChild(z, o[k]))
      BY <1>1, InsertChildFits
    <3> QED
      BY <3>1 DEF DirFits
  <2> HIDE DEF step, Z
  <2> QED
    BY <1>1, <1>5, <2>1, RecursionExists
<1>7. /\ f \in [0 .. n -> Z] /\ f[0] = Directory
      /\ \A k \in 1 .. n : f[k] = step[k][f[k - 1]]
  BY <1>6 DEF Recurses
<1> DEFINE T == {k \in 0 .. n : Children(f[k]) = S(k)}
<1>8. 0 \in T
  <2>1. 0 \in 0 .. n /\ 1 .. 0 = {}
    BY <1>1
  <2>2. S(0) = {}
    BY <2>1
  <2> QED
    BY <1>7, <2>1, <2>2, EmptyDirectory
<1>9. ASSUME NEW k \in 1 .. n, k - 1 \in T
      PROVE  k \in T /\ f[k] = InsertChild(f[k - 1], o[k])
  <2>1. \A i \in 1 .. k : i \in 1 .. k - 1 \/ i = k
    BY <1>1
  <2>2. /\ 1 .. k - 1 \subseteq 1 .. k /\ k \in 1 .. k /\ 1 .. k \subseteq 1 .. n
        /\ k \in 0 .. n /\ k - 1 \in 0 .. n /\ \A i \in 1 .. k - 1 : i # k
    BY <1>1
  <2>3. f[k - 1] \in Z /\ Children(f[k - 1]) = S(k - 1) /\ o[k] \in Names
    BY <1>1, <1>7, <1>9, <2>2
  <2>4. o[k] \notin S(k - 1)
    BY <1>3, <2>2
  <2>5. f[k] = InsertChild(f[k - 1], o[k])
    BY <1>7, <2>3, <2>4
  <2>6. S(k) = S(k - 1) \cup {o[k]}
    BY <2>1, <2>2, <2>3
  <2> HIDE DEF S
  <2>7. Children(f[k]) = S(k)
    BY <2>3, <2>4, <2>5, <2>6, InsertChildFits
  <2> QED
    BY <2>2, <2>5, <2>7
<1>10. \A k \in 0 .. n : k \in T
  <2> HIDE DEF T
  <2>1. 0 .. n \subseteq T
    BY <1>1, <1>8, <1>9, UpToAll
  <2> QED
    BY <2>1
<1>11. \A k \in 1 .. n : f[k] = InsertChild(f[k - 1], o[k])
  <2> SUFFICES ASSUME NEW k \in 1 .. n PROVE f[k] = InsertChild(f[k - 1], o[k])
    OBVIOUS
  <2>1. k - 1 \in 0 .. n
    BY <1>1
  <2>2. k - 1 \in T
    BY <1>10, <2>1
  <2> HIDE DEF T
  <2> QED
    BY <1>9, <2>2
<1>12. Rec(f)
  <2>1. \A k \in 0 .. n : k = 0 \/ k \in 1 .. n
    BY <1>1
  <2> HIDE DEF Z
  <2> QED
    BY <1>7, <1>11, <2>1
<1>13. Rec(upTo)
  <2> HIDE DEF Rec
  <2> QED
    BY <1>12 DEF upTo
<1>14. upTo[0] = Directory /\ \A k \in 1 .. n : upTo[k] = InsertChild(upTo[k - 1], o[k])
  <2>1. \A k \in 0 .. n : upTo[k] = IF k = 0 THEN Directory ELSE InsertChild(upTo[k - 1], o[k])
    BY <1>13
  <2>2. 0 \in 0 .. n /\ \A k \in 1 .. n : k \in 0 .. n /\ k # 0
    BY <1>1
  <2> QED
    BY <2>1, <2>2
<1> DEFINE E == {k \in 0 .. n : upTo[k] = f[k]}
<1>15. 0 \in E
  BY <1>1, <1>7, <1>14
<1>16. \A k \in 1 .. n : k - 1 \in E => k \in E
  BY <1>1, <1>11, <1>14
<1>17. n \in E
  <2> HIDE DEF E
  <2>1. 0 .. n \subseteq E
    BY <1>1, <1>15, <1>16, UpToAll
  <2> QED
    BY <1>1, <2>1
<1>18. n \in 0 .. n
  BY <1>1
<1>19. upTo[n] \in Z /\ Children(upTo[n]) = C
  BY <1>4, <1>7, <1>10, <1>17, <1>18
<1> QED
  BY <1>2, <1>19, Kinds

-----------------------------------------------------------------------------
(* Export and import of an index                                           *)

\* The trees have the same entries, children and blocks.
SameTree(t, u) ==
  /\ DOMAIN u = DOMAIN t
  /\ \A q \in DOMAIN t :
       /\ IsDirectory(u, q) <=> IsDirectory(t, q)
       /\ IsDirectory(t, q) => Children(u[q]) = Children(t[q])
       /\ ~IsDirectory(t, q) => u[q].blocks = t[q].blocks

LEMMA SameFits ==
  ASSUME NEW t, TreeFits(t), NEW u, SameTree(t, u), u = [q \in DOMAIN u |-> u[q]],
         \A q \in DOMAIN t : IsDirectory(t, q) => DirFits(u[q]),
         \A q \in DOMAIN t : ~IsDirectory(t, q) => u[q] \in FileEntries
  PROVE  TreeFits(u)
<1>1. DOMAIN u = DOMAIN t /\ \A q \in DOMAIN t : q \in Seq(Names)
  BY DEF SameTree, TreeFits, Entries
<1>2. Entries(u)
  BY <1>1 DEF Entries, TreeFits, DirFits
<1>3. \A q : IsDirectory(u, q) <=> IsDirectory(t, q)
  BY <1>1 DEF SameTree, IsDirectory
<1>4. \A q : IsDirectory(t, q) => Children(u[q]) = Children(t[q])
  BY DEF SameTree, IsDirectory
<1>5. IsDirectory(u, <<>>)
  BY <1>3 DEF TreeFits
<1>6. \A q \in DOMAIN u : q # <<>> => IsDirectory(u, Front(q)) /\ Last(q) \in Children(u[Front(q)])
  BY <1>1, <1>3, <1>4 DEF TreeFits
<1>7. \A q \in DOMAIN u :
        IsDirectory(u, q) => DirFits(u[q]) /\ \A n \in Children(u[q]) : Append(q, n) \in DOMAIN u
  BY <1>1, <1>3, <1>4 DEF TreeFits
<1> QED
  BY <1>2, <1>5, <1>6, <1>7 DEF TreeFits

\* The image has the entries of the tree, with the children in an order.
ImageOf(t, image) ==
  /\ DOMAIN image.tree = DOMAIN t
  /\ \A q \in DOMAIN t :
       /\ IsDirectory(t, q) =>
            image.tree[q].kind = "dir" /\ Orders(image.tree[q].order, Children(t[q]))
       /\ ~IsDirectory(t, q) =>
            image.tree[q].kind = "file" /\ image.tree[q].blocks = t[q].blocks

LEMMA ImageIs ==
  ASSUME NEW ix, TreeFits(ix.tree), NEW image \in ToObject(ix)
  PROVE  image.metadata = ix.metadata /\ ImageOf(ix.tree, image)
<1> DEFINE t == ix.tree
           entries == Subtree(ix.tree, <<>>)
           dirs == {q \in entries : IsDirectory(t, q)}
           orders == [q \in dirs |-> ChildOrders(t[q])]
           F == {g \in [dirs -> UNION Range(orders)] : \A q \in dirs : g[q] \in orders[q]}
           Of(f) == [q \in entries |-> IF q \in dirs THEN [kind |-> "dir", order |-> f[q]]
                                       ELSE [kind |-> "file", blocks |-> t[q].blocks]]
<1>1. entries = DOMAIN t
  BY WholeTree
<1>2. PICK f \in F : image = [metadata |-> ix.metadata, tree |-> Of(f)]
  BY DEF ToObject
<1>3. image.metadata = ix.metadata /\ image.tree = Of(f)
  BY <1>2
<1>4. \A q \in dirs : f[q] \in ChildOrders(t[q])
  BY <1>2
<1> DEFINE m == image.tree
<1> HIDE DEF entries
<1>5. /\ DOMAIN m = entries
      /\ \A q \in entries : /\ q \in dirs => m[q] = [kind |-> "dir", order |-> f[q]]
                            /\ q \notin dirs => m[q] = [kind |-> "file", blocks |-> t[q].blocks]
  BY <1>3
<1> HIDE DEF m
<1>6. ASSUME NEW q \in DOMAIN t, IsDirectory(t, q)
      PROVE  m[q].kind = "dir" /\ Orders(m[q].order, Children(t[q]))
  <2>1. m[q] = [kind |-> "dir", order |-> f[q]] /\ f[q] \in ChildOrders(t[q])
    BY <1>1, <1>4, <1>5, <1>6
  <2>2. m[q].kind = "dir" /\ m[q].order = f[q]
    BY <2>1
  <2>3. DirFits(t[q])
    BY <1>6 DEF TreeFits
  <2>4. Orders(f[q], Children(t[q]))
    BY <2>1, <2>3, OrdersAre
  <2> QED
    BY <2>2, <2>4
<1>7. ASSUME NEW q \in DOMAIN t, ~IsDirectory(t, q)
      PROVE  m[q].kind = "file" /\ m[q].blocks = t[q].blocks
  <2>1. m[q] = [kind |-> "file", blocks |-> t[q].blocks]
    BY <1>1, <1>5, <1>7
  <2> QED
    BY <2>1
<1> QED
  BY <1>1, <1>3, <1>5, <1>6, <1>7 DEF m, ImageOf

LEMMA EmptyFits ==
  /\ IndexFits(EmptyIndex) /\ EmptyIndex.metadata = NULL /\ EmptyIndex.rootItemVirtual = <<>>
  /\ EmptyIndex.isChanged = FALSE /\ EmptyIndex.blockIndex = [g \in Pages |-> 0]
  /\ DOMAIN EmptyIndex.tree = {<<>>}
<1>1. /\ IsIndex(EmptyIndex) /\ EmptyIndex.tree = [q \in {<<>>} |-> Directory]
      /\ EmptyIndex.metadata = NULL /\ EmptyIndex.rootItemVirtual = <<>>
      /\ EmptyIndex.isChanged = FALSE /\ EmptyIndex.blockIndex = [g \in Pages |-> 0]
  BY DEF EmptyIndex, IsIndex
<1> DEFINE t == EmptyIndex.tree
<1>2. DOMAIN t = {<<>>} /\ t[<<>>] = Directory /\ t = [q \in DOMAIN t |-> t[q]]
  BY <1>1
<1>3. Directory \in Dirs /\ DirFits(Directory) /\ Children(Directory) = {} /\ Directory.kind = "dir"
  BY EmptyDirectory DEF DirFits
<1>4. IsFiniteSet({<<>>})
  BY FS_Singleton
<1>5. TreeFits(t)
  <2> HIDE DEF t
  <2> QED
    BY <1>2, <1>3, <1>4 DEF TreeFits, Entries, IsDirectory
<1>6. Covers(EmptyIndex.blockIndex, t, DOMAIN t)
  <2>1. \A g \in Pages : Uses(t, DOMAIN t, g) = 0
    <3> HIDE DEF t
    <3> QED
      BY <1>2, <1>3, UsesOfNone
  <2> QED
    BY <1>1, <2>1 DEF Covers
<1>7. <<>> \in Seq(Names) /\ FALSE \in BOOLEAN /\ NULL \in {NULL, "automatic", "custom"}
  OBVIOUS
<1>8. IndexFits(EmptyIndex)
  BY <1>1, <1>5, <1>6, <1>7, Zenon DEF IndexFits
<1> QED
  BY <1>1, <1>2, <1>8, Zenon

WithImage(ix, t, m) == [ix EXCEPT !.tree = t, !.metadata = m]

LEMMA ImageIsSet ==
  ASSUME NEW ix, IsIndex(ix), NEW t, NEW m
  PROVE  /\ IsIndex(WithImage(ix, t, m)) /\ WithImage(ix, t, m).tree = t
         /\ WithImage(ix, t, m).rootItemVirtual = ix.rootItemVirtual
         /\ WithImage(ix, t, m).blockIndex = ix.blockIndex
         /\ WithImage(ix, t, m).isChanged = ix.isChanged /\ WithImage(ix, t, m).metadata = m
<1> DEFINE r == WithImage(ix, t, m)
<1>1. r = [ix EXCEPT !.tree = t, !.metadata = m]
  BY DEF WithImage
<1> HIDE DEF r
<1>2. /\ IsIndex(r) /\ r.tree = t /\ r.rootItemVirtual = ix.rootItemVirtual
      /\ r.blockIndex = ix.blockIndex /\ r.isChanged = ix.isChanged /\ r.metadata = m
  BY <1>1 DEF IsIndex
<1> QED
  BY <1>2 DEF r

LEMMA ImageImported ==
  ASSUME NEW t, TreeFits(t), NEW image, ImageOf(t, image),
         image.metadata \in {NULL, "automatic", "custom"}
  PROVE  LET new == FromBytes(image)
         IN /\ IndexFits(new) /\ new.rootItemVirtual = <<>> /\ new.isChanged = FALSE
            /\ new.metadata = image.metadata /\ SameTree(t, new.tree)
<1> DEFINE m == image.tree
           dom == {r \in DOMAIN m : \A k \in 0 .. Len(r) - 1 : r[k + 1] \in Range(m[SubSeq(r, 1, k)].order)}
           u == [q \in dom |-> IF m[q].kind = "dir" THEN ImportDirectory(m[q].order)
                               ELSE File(m[q].blocks, TRUE)]
           new == FromBytes(image)
           b == [g \in Pages |-> EmptyIndex.blockIndex[g] + Uses(u, DOMAIN u, g)]
<1>1. TreeFits(t) /\ image.metadata \in {NULL, "automatic", "custom"}
  OBVIOUS
<1>2. /\ DOMAIN m = DOMAIN t
      /\ \A q \in DOMAIN t :
           /\ IsDirectory(t, q) => m[q].kind = "dir" /\ Orders(m[q].order, Children(t[q]))
           /\ ~IsDirectory(t, q) => m[q].kind = "file" /\ m[q].blocks = t[q].blocks
  BY DEF ImageOf
<1>3. \A q \in DOMAIN t : q \in Seq(Names) /\ Len(q) \in Nat /\ t[q] \in Dirs \cup FileEntries
  BY <1>1, LenProperties DEF TreeFits, Entries
<1>4. dom = DOMAIN t
  <2> SUFFICES ASSUME NEW r \in DOMAIN t, NEW k \in 0 .. Len(r) - 1
               PROVE  r[k + 1] \in Range(m[SubSeq(r, 1, k)].order)
    BY <1>2
  <2> DEFINE s == SubSeq(r, 1, k)
             o == m[s].order
  <2>1. k \in 0 .. Len(r) /\ k < Len(r)
    BY <1>3
  <2>2. s \in DOMAIN t /\ IsDirectory(t, s) /\ r[k + 1] \in Children(t[s])
    BY <1>1, <2>1, AllTheWay
  <2>3. Orders(o, Children(t[s]))
    BY <1>2, <2>2
  <2> HIDE DEF s, o, m
  <2>4. PICK i \in 1 .. Len(o) : o[i] = r[k + 1]
    BY <2>2, <2>3 DEF Orders
  <2>5. i \in DOMAIN o
    BY <2>3, <2>4, LenProperties DEF Orders
  <2>6. r[k + 1] \in Range(o)
    BY <2>4, <2>5 DEF Range
  <2> QED
    BY <2>6 DEF o, s, m
<1> DEFINE e == [EmptyIndex EXCEPT !.tree = u, !.metadata = image.metadata]
<1>5. new = CountBlocks(e, DOMAIN u)
  <2>1. DOMAIN u = dom
    OBVIOUS
  <2> QED
    BY <2>1 DEF FromBytes
<1> HIDE DEF dom, m
<1>6. DOMAIN u = DOMAIN t /\ u = [q \in DOMAIN u |-> u[q]]
  BY <1>4
<1>7. ASSUME NEW q \in DOMAIN t, IsDirectory(t, q)
      PROVE  DirFits(u[q]) /\ Children(u[q]) = Children(t[q]) /\ IsDirectory(u, q)
  <2>1. u[q] = ImportDirectory(m[q].order)
    BY <1>2, <1>4, <1>7
  <2>2. Children(t[q]) \subseteq Names
    BY <1>1, <1>7, ChildrenAre DEF TreeFits, DirFits
  <2>3. Orders(m[q].order, Children(t[q]))
    BY <1>2, <1>7
  <2> HIDE DEF u
  <2>4. DirFits(u[q]) /\ Children(u[q]) = Children(t[q]) /\ u[q].kind = "dir"
    BY <2>1, <2>2, <2>3, ImportedDirectory
  <2> QED
    BY <1>6, <2>4 DEF IsDirectory
<1>8. ASSUME NEW q \in DOMAIN t, ~IsDirectory(t, q)
      PROVE  u[q] \in FileEntries /\ u[q].blocks = t[q].blocks /\ ~IsDirectory(u, q)
  <2>1. m[q].kind = "file" /\ m[q].blocks = t[q].blocks
    BY <1>2, <1>8
  <2>2. u[q] = File(t[q].blocks, TRUE)
    BY <1>4, <2>1
  <2>3. t[q].blocks \in Seq(Pages \cup {-1})
    <3>1. t[q] \in FileEntries
      BY <1>3, <1>8, Kinds DEF IsDirectory
    <3> QED
      BY <3>1 DEF FileEntries
  <2> HIDE DEF u
  <2> QED
    BY <2>2, <2>3, NewFile DEF IsDirectory
<1>9. SameTree(t, u)
  <2> HIDE DEF u
  <2> QED
    BY <1>6, <1>7, <1>8 DEF SameTree
<1>10. TreeFits(u)
  <2> HIDE DEF u
  <2> QED
    BY <1>1, <1>6, <1>7, <1>8, <1>9, SameFits
<1> HIDE DEF u
<1>11. Covers(b, u, DOMAIN u)
  <2>1. \A g \in Pages : Uses(u, {}, g) = 0
    BY UsesOfNone
  <2>2. Covers(EmptyIndex.blockIndex, u, {})
    BY <2>1, EmptyFits DEF Covers
  <2>3. (DOMAIN u) \ (DOMAIN u) = {}
    OBVIOUS
  <2>4. Covers(EmptyIndex.blockIndex, u, (DOMAIN u) \ (DOMAIN u))
    BY <2>2, <2>3
  <2> QED
    BY <1>10, <2>4, CoversAll
<1>12. new = WithBlocks(e, b) /\ e = WithImage(EmptyIndex, u, image.metadata)
  <2>1. e = WithImage(EmptyIndex, u, image.metadata)
    BY DEF WithImage
  <2>2. e.tree = u /\ e.blockIndex = EmptyIndex.blockIndex
    BY <2>1, EmptyFits, ImageIsSet DEF IndexFits
  <2> HIDE DEF e
  <2> QED
    BY <1>5, <2>1, <2>2 DEF CountBlocks, WithBlocks
<1> HIDE DEF b, new, e
<1>13. /\ IsIndex(new) /\ new.tree = u /\ new.rootItemVirtual = <<>> /\ new.blockIndex = b
       /\ new.isChanged = FALSE /\ new.metadata = image.metadata
  <2>1. /\ IsIndex(e) /\ e.tree = u /\ e.rootItemVirtual = <<>>
        /\ e.isChanged = FALSE /\ e.metadata = image.metadata
    BY <1>2, <1>12, EmptyFits, ImageIsSet DEF IndexFits
  <2> QED
    BY <1>12, <2>1, BlocksAreSet
<1>14. IndexFits(new)
  <2>1. <<>> \in Seq(Names) /\ FALSE \in BOOLEAN
    OBVIOUS
  <2> QED
    BY <1>1, <1>10, <1>11, <1>13, <2>1, Zenon DEF IndexFits
<1> QED
  BY <1>9, <1>13, <1>14 DEF new

LEMMA Imported ==
  ASSUME NEW ix, IndexFits(ix), NEW image \in ToObject(ix)
  PROVE  LET new == FromBytes(image)
         IN /\ IndexFits(new) /\ new.rootItemVirtual = <<>> /\ new.isChanged = FALSE
            /\ new.metadata = ix.metadata /\ SameTree(ix.tree, new.tree)
<1>1. TreeFits(ix.tree) /\ ix.metadata \in {NULL, "automatic", "custom"}
  BY DEF IndexFits
<1>2. image.metadata = ix.metadata /\ ImageOf(ix.tree, image)
  BY <1>1, ImageIs
<1> QED
  BY <1>1, <1>2, ImageImported

-----------------------------------------------------------------------------
(* Filesets                                                                *)

Depth(mode) == IF mode = NULL THEN 0 ELSE 1

KeptOf(t, depth) == [q \in {r \in DOMAIN t : Len(r) > depth} |-> Seen(t, q)]

LEMMA KeptIs ==
  ASSUME NEW ix, TreeFits(ix.tree)
  PROVE  Kept(ix) = KeptOf(ix.tree, Depth(ix.metadata))
BY WholeTree DEF Kept, KeptOf, Seen, Depth

LEMMA KeptOfSame ==
  ASSUME NEW t, NEW u, NEW depth,
         \A q : q \in DOMAIN t /\ Len(q) > depth <=> q \in DOMAIN u /\ Len(q) > depth,
         \A q \in DOMAIN t : Len(q) > depth => Seen(u, q) = Seen(t, q)
  PROVE  KeptOf(t, depth) = KeptOf(u, depth)
<1> DEFINE D == {r \in DOMAIN t : Len(r) > depth}
           E == {r \in DOMAIN u : Len(r) > depth}
<1>1. D = E
  OBVIOUS
<1>2. \A q \in D : Seen(u, q) = Seen(t, q)
  OBVIOUS
<1>3. KeptOf(t, depth) = [q \in D |-> Seen(t, q)] /\ KeptOf(u, depth) = [q \in E |-> Seen(u, q)]
  BY DEF KeptOf
<1> HIDE DEF D, E
<1> QED
  BY <1>1, <1>2, <1>3

LEMMA SameIsKept ==
  ASSUME NEW t, NEW u, SameTree(t, u), NEW depth
  PROVE  KeptOf(t, depth) = KeptOf(u, depth)
<1>1. \A q \in DOMAIN t : Seen(u, q) = Seen(t, q)
  BY DEF SameTree, Seen
<1>2. DOMAIN u = DOMAIN t
  BY DEF SameTree
<1> QED
  BY <1>1, <1>2, KeptOfSame

AllDirectories(t) == \A n \in Children(t[<<>>]) : IsDirectory(t, <<n>>)

\* A new fileset is one more directory, and the root.
LEMMA FilesetIsNew ==
  ASSUME NEW ix, IndexFits(ix), NEW n \in Names, n \notin Children(ix.tree[<<>>]),
         AllDirectories(ix.tree)
  PROVE  /\ SetFileset(ix, n) # {}
         /\ \A r \in SetFileset(ix, n) :
              /\ IndexFits(r) /\ r.rootItemVirtual = <<n>> /\ IsDirectory(r.tree, <<n>>)
              /\ AllDirectories(r.tree) /\ r.isChanged = ix.isChanged /\ r.metadata = ix.metadata
              /\ KeptOf(r.tree, 1) = KeptOf(ix.tree, 1)
<1>1. CreateIn(ix, <<>>, n, Directory) # {}
  BY DEF CreateIn, FindChild
<1>2. SetFileset(ix, n) # {}
  BY <1>1 DEF SetFileset
<1> SUFFICES ASSUME NEW r \in SetFileset(ix, n)
             PROVE  /\ IndexFits(r) /\ r.rootItemVirtual = <<n>> /\ IsDirectory(r.tree, <<n>>)
                    /\ AllDirectories(r.tree) /\ r.isChanged = ix.isChanged /\ r.metadata = ix.metadata
                    /\ KeptOf(r.tree, 1) = KeptOf(ix.tree, 1)
  BY <1>2
<1>3. PICK s \in CreateIn(ix, <<>>, n, Directory) : r = WithRoot(s, <<n>>)
  BY DEF SetFileset, WithRoot
<1> DEFINE t == ix.tree
           root == <<>>
           p == Append(root, n)
<1>4. TreeFits(t) /\ IsDirectory(t, root) /\ root \in Seq(Names)
  BY DEF IndexFits, TreeFits
<1>5. p = <<n>> /\ Len(p) = 1 /\ p \in Seq(Names) /\ p # root /\ Len(root) = 0 /\ IsPrefix(p, p)
  <2>1. p = <<n>> /\ Len(p) = 1 /\ Len(root) = 0 /\ p \in Seq(Names)
    OBVIOUS
  <2>2. p # root
    BY <2>1
  <2> QED
    BY <2>1, <2>2, PrefixOfSelf
<1>6. Stepped(ix, s, root, n, {p}) /\ s.tree[p] = Directory
  <2>1. s \in CreateIn(ix, root, n, Directory) /\ Directory \in NewEntries /\ IsDirectory(ix.tree, root)
    BY <1>3, <1>4 DEF NewEntries
  <2> HIDE DEF root
  <2> QED
    BY <2>1, Created
<1> DEFINE u == s.tree
<1>7. n \notin Children(t[root]) /\ \A m \in Children(t[root]) : m \in Names /\ IsDirectory(t, <<m>>)
  <2>1. \A m \in Children(t[<<>>]) : m \in Names
    BY <1>4, ChildrenAre DEF TreeFits, IsDirectory, DirFits
  <2> QED
    BY <2>1 DEF AllDirectories
<1>8. /\ IsIndex(s) /\ ChildChanged(t, u, root, n, {p})
      /\ s.rootItemVirtual = ix.rootItemVirtual /\ s.isChanged = ix.isChanged /\ s.metadata = ix.metadata
      /\ Covers(s.blockIndex, u, (DOMAIN u) \ {p}) /\ u[p] = Directory
  BY <1>6 DEF Stepped
<1>9. /\ IsIndex(r) /\ r.tree = s.tree /\ r.rootItemVirtual = <<n>> /\ r.blockIndex = s.blockIndex
      /\ r.isChanged = s.isChanged /\ r.metadata = s.metadata
  BY <1>3, <1>8, RootIsSet
<1> HIDE DEF t, u, root, p
<1>10. TreeFits(u) /\ {p} \subseteq DOMAIN u
  BY <1>4, <1>8, TreeChanges, NewIsEntry
<1>11. IsDirectory(u, p)
  BY <1>8, <1>10, EmptyDirectory DEF IsDirectory
<1>12. IndexFits(r)
  <2>1. NoPages(u, {p})
    BY <1>8, EmptyDirectory DEF NoPages
  <2>2. Covers(s.blockIndex, u, DOMAIN u)
    BY <1>8, <1>10, <2>1, CoversAll
  <2>3. <<n>> \in Seq(Names)
    OBVIOUS
  <2> QED
    BY <1>8, <1>9, <1>10, <2>2, <2>3 DEF IndexFits, u
<1>13. \A q \in DOMAIN t : ~IsPrefix(p, q)
  <2>1. p \notin DOMAIN t
    BY <1>4, <1>7, ChildIsEntry DEF p
  <2> QED
    BY <1>4, <1>5, <2>1, AboveAreEntries
<1>14. DOMAIN u = DOMAIN t \cup {p} /\ \A q \in DOMAIN u : q # root /\ q # p => u[q] = t[q]
  BY <1>8, <1>13 DEF ChildChanged, p
<1>15. p \notin DOMAIN t
  BY <1>5, <1>13
<1>16. ASSUME NEW m \in Children(u[root]) PROVE IsDirectory(u, <<m>>)
  <2>1. m \in Children(t[root]) \/ m = n
    BY <1>8 DEF ChildChanged
  <2>2. CASE m = n
    BY <1>5, <1>11, <2>2
  <2>3. CASE m \in Children(t[root])
    <3>1. IsDirectory(t, <<m>>) /\ m \in Names
      BY <1>7, <2>3
    <3>2. <<m>> \in DOMAIN t /\ t[<<m>>].kind = "dir" /\ <<m>> # root
      BY <3>1 DEF IsDirectory, root
    <3>3. <<m>> \in DOMAIN u /\ u[<<m>>] = t[<<m>>]
      BY <1>14, <1>15, <3>2
    <3> QED
      BY <3>2, <3>3 DEF IsDirectory
  <2> QED
    BY <2>1, <2>2, <2>3
<1>17. KeptOf(t, 1) = KeptOf(u, 1)
  <2>1. \A q \in DOMAIN u : Len(q) > 1 => q # root /\ q # p
    <3>1. ASSUME NEW q, q = root \/ q = p PROVE Len(q) \in {0, 1}
      BY <1>5, <3>1
    <3>2. \A k \in {0, 1} : ~(k > 1)
      OBVIOUS
    <3> QED
      BY <3>1, <3>2
  <2>2. \A q : q \in DOMAIN t /\ Len(q) > 1 <=> q \in DOMAIN u /\ Len(q) > 1
    BY <1>14, <2>1
  <2>3. \A q \in DOMAIN t : Len(q) > 1 => Seen(u, q) = Seen(t, q)
    <3> SUFFICES ASSUME NEW q \in DOMAIN t, Len(q) > 1 PROVE Seen(u, q) = Seen(t, q)
      OBVIOUS
    <3>1. q \in DOMAIN u /\ u[q] = t[q]
      BY <1>14, <2>1, <2>2
    <3> QED
      BY <3>1 DEF Seen, IsDirectory
  <2> QED
    BY <2>2, <2>3, KeptOfSame
<1>18. AllDirectories(r.tree)
  BY <1>9, <1>16 DEF AllDirectories, u, root
<1> QED
  BY <1>5, <1>8, <1>9, <1>11, <1>12, <1>17, <1>18 DEF u, t

\* An index that a fileset may be selected in
Ready(ix) ==
  /\ IndexFits(ix) /\ (ix.metadata = NULL => ix.rootItemVirtual = <<>>)
  /\ ix.metadata # NULL => Children(ix.tree[<<>>]) # {} /\ AllDirectories(ix.tree)

LEMMA ApartIsReady ==
  ASSUME NEW ix, IndexFits(ix), Apart(ix)
  PROVE  Ready(ix)
<1>1. TreeFits(ix.tree) /\ ix.rootItemVirtual \in Seq(Names)
  BY DEF IndexFits
<1>2. ASSUME ix.metadata = NULL PROVE ix.rootItemVirtual = <<>>
  BY <1>1, <1>2, EmptySeq DEF Apart
<1>3. ASSUME ix.metadata # NULL PROVE Children(ix.tree[<<>>]) # {} /\ AllDirectories(ix.tree)
  <2> DEFINE s == ix.rootItemVirtual
  <2>1. Len(s) = 1 /\ s \in DOMAIN ix.tree
    BY <1>3 DEF Apart, IsDirectory
  <2>2. s # <<>> /\ Front(s) = <<>>
    <3>1. s # <<>>
      BY <2>1
    <3>2. Front(s) \in Seq(Names) /\ Len(Front(s)) = 0
      BY <1>1, <2>1, <3>1, FrontAndLast
    <3> QED
      BY <3>1, <3>2, EmptySeq
  <2>3. Last(s) \in Children(ix.tree[<<>>])
    BY <1>1, <2>1, <2>2 DEF TreeFits
  <2> QED
    BY <1>3, <2>3 DEF Apart, AllDirectories
<1> QED
  BY <1>2, <1>3 DEF Ready

\* A directory of the root becomes the root of the mount.
LEMMA FilesetIsThere ==
  ASSUME NEW ix, Ready(ix), ix.metadata # NULL, NEW n, n \in Children(ix.tree[<<>>])
  PROVE  LET r == WithRoot(ix, <<n>>)
         IN /\ IndexFits(r) /\ Apart(r) /\ Kept(r) = Kept(ix)
            /\ r.metadata = ix.metadata /\ r.isChanged = ix.isChanged
<1> DEFINE r == WithRoot(ix, <<n>>)
<1>1. IndexFits(ix) /\ IsIndex(ix) /\ TreeFits(ix.tree) /\ AllDirectories(ix.tree)
  BY DEF Ready, IndexFits
<1>2. /\ IsIndex(r) /\ r.tree = ix.tree /\ r.rootItemVirtual = <<n>> /\ r.blockIndex = ix.blockIndex
      /\ r.isChanged = ix.isChanged /\ r.metadata = ix.metadata
  BY <1>1, RootIsSet
<1> HIDE DEF r
<1>3. n \in Names
  BY <1>1, ChildrenAre DEF TreeFits, IsDirectory, DirFits
<1>4. <<n>> \in Seq(Names) /\ Len(<<n>>) = 1
  BY <1>3
<1>5. IndexFits(r)
  BY <1>1, <1>2, <1>4 DEF IndexFits
<1>6. Apart(r)
  BY <1>1, <1>2, <1>4 DEF Apart, AllDirectories
<1>7. Kept(r) = Kept(ix)
  BY <1>1, <1>2, KeptIs
<1> QED
  BY <1>2, <1>5, <1>6, <1>7 DEF r

LEMMA SelectedOrCreated ==
  ASSUME NEW ix, Ready(ix), ix.metadata # NULL, NEW n \in Names, NEW ro \in BOOLEAN
  PROVE  /\ ~ro => SelectOrCreate(ix, n, ro) # {}
         /\ \A r \in SelectOrCreate(ix, n, ro) :
              /\ IndexFits(r) /\ Apart(r) /\ Kept(r) = Kept(ix)
              /\ r.metadata = ix.metadata /\ r.isChanged = ix.isChanged
<1>1. CASE n \in Children(ix.tree[<<>>])
  <2>1. SelectOrCreate(ix, n, ro) = {WithRoot(ix, <<n>>)}
    BY <1>1 DEF SelectOrCreate, WithRoot
  <2> QED
    BY <1>1, <2>1, FilesetIsThere
<1>2. CASE n \notin Children(ix.tree[<<>>])
  <2>1. SelectOrCreate(ix, n, ro) = IF ro THEN {} ELSE SetFileset(ix, n)
    BY <1>2 DEF SelectOrCreate
  <2>2. IndexFits(ix) /\ AllDirectories(ix.tree) /\ TreeFits(ix.tree)
    BY DEF Ready, IndexFits
  <2>3. SetFileset(ix, n) # {}
    BY <1>2, <2>2, FilesetIsNew
  <2>4. ASSUME NEW r \in SetFileset(ix, n)
        PROVE  /\ IndexFits(r) /\ Apart(r) /\ Kept(r) = Kept(ix)
               /\ r.metadata = ix.metadata /\ r.isChanged = ix.isChanged
    <3>1. /\ IndexFits(r) /\ r.rootItemVirtual = <<n>> /\ IsDirectory(r.tree, <<n>>)
          /\ AllDirectories(r.tree) /\ r.isChanged = ix.isChanged /\ r.metadata = ix.metadata
          /\ KeptOf(r.tree, 1) = KeptOf(ix.tree, 1)
      BY <1>2, <2>2, <2>4, FilesetIsNew
    <3>2. Len(<<n>>) = 1
      OBVIOUS
    <3>3. Apart(r)
      BY <3>1, <3>2 DEF Apart, AllDirectories
    <3>4. Kept(r) = KeptOf(r.tree, 1) /\ Kept(ix) = KeptOf(ix.tree, 1)
      BY <2>2, <3>1, KeptIs DEF Depth, IndexFits
    <3> QED
      BY <3>1, <3>3, <3>4
  <2> QED
    BY <2>1, <2>3, <2>4
<1> QED
  BY <1>1, <1>2

\* The first fileset is selected.
LEMMA FirstSelected ==
  ASSUME NEW ix, Ready(ix), ix.metadata # NULL, NEW r \in FirstFilesets(ix)
  PROVE  /\ IndexFits(r) /\ Apart(r) /\ Kept(r) = Kept(ix)
         /\ r.metadata = ix.metadata /\ r.isChanged = ix.isChanged
<1> DEFINE d == ix.tree[<<>>]
<1>1. DirFits(d) /\ Children(d) # {}
  BY DEF Ready, IndexFits, TreeFits, IsDirectory
<1>2. PICK o \in ChildOrders(d) : r = WithRoot(ix, <<o[1]>>)
  BY DEF FirstFilesets, WithRoot
<1> HIDE DEF d
<1>3. Orders(o, Children(d))
  BY <1>1, <1>2, OrdersAre
<1>4. PICK i \in 1 .. Len(o) : o[i] \in Children(d)
  BY <1>1, <1>3 DEF Orders
<1>5. 1 \in 1 .. Len(o)
  BY <1>3, <1>4, LenProperties DEF Orders
<1>6. o[1] \in Children(d)
  BY <1>3, <1>5 DEF Orders
<1> QED
  BY <1>2, <1>6, FilesetIsThere DEF d

\* In an index that has nothing
LEMMA FirstFileset ==
  ASSUME NEW ix, Ready(ix), ix.tree[<<>>].childCount = 0, NEW type \in Names, NEW h \in Names,
         NEW r \in NewFileset(ix, type, h, FALSE)
  PROVE  /\ IndexFits(r) /\ Apart(r) /\ Kept(r) = Kept(ix)
         /\ r.metadata \in {"automatic", "custom"} /\ r.isChanged
<1> DEFINE name == IF type = Automatic THEN h ELSE type
           mode == IF type = Automatic THEN "automatic" ELSE "custom"
           t == ix.tree
<1>1. /\ IndexFits(ix) /\ TreeFits(t) /\ IsDirectory(t, <<>>) /\ <<>> \in DOMAIN t
      /\ <<>> \in Seq(Names) /\ \A q \in DOMAIN t : q \in Seq(Names)
  BY DEF Ready, IndexFits, TreeFits, Entries, IsDirectory
<1>2. Children(t[<<>>]) = {}
  BY <1>1, FS_EmptySet DEF TreeFits, DirFits
<1>3. \A q \in DOMAIN t : q = <<>>
  <2>1. IsEmpty(t[<<>>])
    BY DEF IsEmpty
  <2>2. \A q \in DOMAIN t : IsPrefix(<<>>, q)
    BY <1>1, PrefixOfSelf
  <2> QED
    BY <1>1, <2>1, <2>2, NothingBelow
<1>4. ix.metadata = NULL
  BY <1>2 DEF Ready
<1>5. type # NULL /\ name \in Names /\ mode \in {"automatic", "custom"} /\ NULL \notin {"automatic", "custom"}
  BY TableFits, FsindexAssumption
<1>6. PICK s \in SetFileset(ix, name) : r = WithMode(s, mode)
  BY <1>5 DEF NewFileset, WithMode
<1> HIDE DEF name, mode, t
<1>7. AllDirectories(ix.tree)
  BY <1>2 DEF AllDirectories, t
<1>8. /\ IndexFits(s) /\ s.rootItemVirtual = <<name>> /\ IsDirectory(s.tree, <<name>>)
      /\ AllDirectories(s.tree) /\ KeptOf(s.tree, 1) = KeptOf(t, 1)
  BY <1>1, <1>2, <1>5, <1>6, <1>7, FilesetIsNew DEF t
<1>9. /\ IsIndex(r) /\ r.tree = s.tree /\ r.rootItemVirtual = s.rootItemVirtual
      /\ r.blockIndex = s.blockIndex /\ r.isChanged /\ r.isChanged \in BOOLEAN /\ r.metadata = mode
  BY <1>6, <1>8, ModeIsSet DEF IndexFits
<1>10. IndexFits(r)
  BY <1>5, <1>8, <1>9 DEF IndexFits
<1>11. Apart(r)
  <2>1. Len(<<name>>) = 1
    OBVIOUS
  <2> QED
    BY <1>5, <1>8, <1>9, <2>1 DEF Apart, AllDirectories
<1>12. Kept(r) = Kept(ix)
  <2>1. Kept(r) = KeptOf(s.tree, 1) /\ Kept(ix) = KeptOf(t, 0)
    BY <1>1, <1>4, <1>5, <1>8, <1>9, <1>10, KeptIs DEF Depth, IndexFits, t
  <2>2. \A q \in DOMAIN t : Len(q) = 0
    BY <1>3
  <2>3. KeptOf(t, 0) = KeptOf(t, 1)
    <3>1. {q \in DOMAIN t : Len(q) > 0} = {} /\ {q \in DOMAIN t : Len(q) > 1} = {}
      BY <2>2
    <3> QED
      BY <3>1 DEF KeptOf
  <2> QED
    BY <1>8, <2>1, <2>3
<1> QED
  BY <1>5, <1>9, <1>10, <1>11, <1>12

LEMMA Selected ==
  ASSUME NEW ix, Ready(ix), NEW type, type = NULL \/ type \in Names, NEW h \in Names, NEW ro \in BOOLEAN
  PROVE  /\ \A r \in FileSetSelect(ix, type, h, ro) :
              /\ IndexFits(r) /\ Apart(r) /\ Kept(r) = Kept(ix)
              /\ \/ r.metadata = ix.metadata /\ r.isChanged = ix.isChanged
                 \/ /\ ix.tree[<<>>].childCount = 0 /\ r.metadata \in {"automatic", "custom"}
                    /\ r.isChanged /\ ~ro /\ type # NULL
         /\ type # NULL /\ ~ro /\ ix.metadata # NULL => FileSetSelect(ix, type, h, ro) # {}
<1> DEFINE d == ix.tree[<<>>]
<1>1. IndexFits(ix) /\ DirFits(d) /\ IsDirectory(ix.tree, <<>>)
  BY DEF Ready, IndexFits, TreeFits, IsDirectory
<1>2. ASSUME ix.metadata = NULL PROVE Apart(ix)
  <2>1. Len(<<>>) = 0 /\ ix.rootItemVirtual = <<>>
    BY <1>2 DEF Ready
  <2> QED
    BY <1>1, <1>2, <2>1 DEF Apart
<1>3. CASE d.childCount = 0
  <2>1. FileSetSelect(ix, type, h, ro) = NewFileset(ix, type, h, ro)
    BY <1>3 DEF FileSetSelect
  <2>2. ix.metadata = NULL
    BY <1>1, <1>3, FS_EmptySet DEF Ready, DirFits
  <2>3. CASE type = NULL
    BY <1>1, <1>2, <2>1, <2>2, <2>3 DEF NewFileset
  <2>4. CASE type # NULL /\ ro
    BY <2>1, <2>4 DEF NewFileset
  <2>5. CASE type # NULL /\ ~ro
    <3>1. ro = FALSE /\ type \in Names
      BY <2>5
    <3>2. FileSetSelect(ix, type, h, ro) = NewFileset(ix, type, h, FALSE)
      BY <2>1, <3>1
    <3>3. ASSUME NEW r \in FileSetSelect(ix, type, h, ro)
          PROVE  /\ IndexFits(r) /\ Apart(r) /\ Kept(r) = Kept(ix)
                 /\ r.metadata \in {"automatic", "custom"} /\ r.isChanged
      BY <1>3, <3>1, <3>2, FirstFileset
    <3> QED
      BY <1>3, <2>2, <2>5, <3>3
  <2> QED
    BY <2>3, <2>4, <2>5
<1>4. CASE d.childCount # 0 /\ type # NULL
  <2>1. FileSetSelect(ix, type, h, ro) = IF ix.metadata = NULL THEN {} ELSE SelectOrCreate(ix, type, ro)
    BY <1>4 DEF FileSetSelect
  <2> QED
    BY <1>4, <2>1, SelectedOrCreated
<1>5. CASE d.childCount # 0 /\ type = NULL
  <2>1. CASE ix.metadata = NULL
    <3>1. FileSetSelect(ix, type, h, ro) = {ix}
      BY <1>5, <2>1 DEF FileSetSelect
    <3> QED
      BY <1>1, <1>2, <1>5, <2>1, <3>1
  <2>2. CASE ix.metadata = "custom" /\ ix.metadata # NULL
    <3>1. FileSetSelect(ix, type, h, ro) = FirstFilesets(ix)
      BY <1>5, <2>2 DEF FileSetSelect
    <3> QED
      BY <1>5, <2>2, <3>1, FirstSelected
  <2>3. CASE ix.metadata # "custom" /\ ix.metadata # NULL
    <3>1. FileSetSelect(ix, type, h, ro) = SelectOrCreate(ix, h, ro)
      BY <1>5, <2>3 DEF FileSetSelect
    <3> QED
      BY <1>5, <2>3, <3>1, SelectedOrCreated
  <2> QED
    BY <2>1, <2>2, <2>3
<1> QED
  BY <1>3, <1>4, <1>5

-----------------------------------------------------------------------------
(* The operations                                                          *)

LEMMA PathsFit ==
  \A path \in Paths : path \in Seq(Names) /\ path # <<>>
BY FsindexAssumption DEF Paths

LEMMA SeenNew ==
  ASSUME NEW ix, NEW r, NEW p, Did(ix, r, p, {p})
  PROVE  /\ p \in DOMAIN r.tree
         /\ r.tree[p].kind = "dir" => Seen(r.tree, p) = <<"dir">>
         /\ r.tree[p].kind # "dir" => Seen(r.tree, p) = <<"file", r.tree[p].blocks>>
BY DEF Did, ChildChanged, Seen, IsDirectory

LEMMA DirectoryMade ==
  ASSUME NEW ix, IndexFits(ix), NEW path \in Seq(Names), path # <<>>,
         NEW r \in SetEntry(ix, path, Directory)
  PROVE  Did(ix, r, PathAt(ix, path), {PathAt(ix, path)}) /\ Seen(r.tree, PathAt(ix, path)) = <<"dir">>
<1> DEFINE p == PathAt(ix, path)
<1>1. Directory \in NewEntries /\ Directory.kind = "dir"
  BY EmptyDirectory DEF NewEntries
<1>2. r.tree[p] = Directory /\ (NoPages(r.tree, {p}) => Did(ix, r, p, {p}))
  BY <1>1, SetDid
<1> HIDE DEF p
<1>3. Did(ix, r, p, {p})
  BY <1>1, <1>2 DEF NoPages
<1> QED
  BY <1>1, <1>2, <1>3, SeenNew DEF p

\* r is the index after the command set.
IsSet(ix, path, list, r) ==
  \E s \in SetEntry(ix, path, File(list, TRUE)) : r = CountBlocks(s, {s.rootItemVirtual \o path})

LEMMA FileMade ==
  ASSUME NEW ix, IndexFits(ix), NEW path \in Seq(Names), path # <<>>, NEW list \in Seq(Pages \cup {-1}),
         NEW r, IsSet(ix, path, list, r)
  PROVE  Did(ix, r, PathAt(ix, path), {PathAt(ix, path)}) /\ Seen(r.tree, PathAt(ix, path)) = <<"file", list>>
<1> DEFINE p == PathAt(ix, path)
           f == File(list, TRUE)
<1>1. f \in NewEntries /\ f.kind = "file" /\ f.blocks = list
  BY NewFile
<1>0. PICK s \in SetEntry(ix, path, f) : r = CountBlocks(s, {s.rootItemVirtual \o path})
  BY DEF IsSet
<1> HIDE DEF f
<1>2. /\ s.tree[p] = f /\ CountBlocks(s, {p}).tree = s.tree /\ s.rootItemVirtual = ix.rootItemVirtual
      /\ Did(ix, CountBlocks(s, {p}), p, {p})
  BY <1>0, <1>1, SetDid
<1>3. r = CountBlocks(s, {p})
  BY <1>0, <1>2 DEF PathAt
<1> HIDE DEF p
<1>4. Did(ix, r, p, {p}) /\ r.tree[p] = f
  BY <1>2, <1>3
<1> QED
  BY <1>1, <1>4, SeenNew DEF p

LEMMA FileWritten ==
  ASSUME NEW ix, IndexFits(ix), NEW path \in Seq(Names), path # <<>>, NEW list \in Seq({-1}),
         NEW r \in SetEntry(ix, path, File(list, FALSE))
  PROVE  Did(ix, r, PathAt(ix, path), {PathAt(ix, path)}) /\ Seen(r.tree, PathAt(ix, path)) = <<"file", list>>
<1> DEFINE p == PathAt(ix, path)
           f == File(list, FALSE)
<1>1. list \in Seq(Pages \cup {-1})
  BY SeqMonotonic
<1>2. f \in NewEntries /\ f.kind = "file" /\ f.blocks = list
  BY <1>1, NewFile
<1> HIDE DEF f
<1>3. r.tree[p] = f /\ (NoPages(r.tree, {p}) => Did(ix, r, p, {p}))
  BY <1>2, SetDid DEF f
<1> HIDE DEF p
<1>4. \A k \in DOMAIN list : list[k] \notin Pages
  <2>1. \A k \in DOMAIN list : list[k] = -1
    BY ElementOfSeq, LenProperties
  <2>2. -1 \notin Pages
    BY FsindexAssumption
  <2> QED
    BY <2>1, <2>2
<1>5. Did(ix, r, p, {p})
  BY <1>2, <1>3, <1>4 DEF NoPages
<1> QED
  BY <1>2, <1>3, <1>5, SeenNew DEF p

\* The trees have the same entries, and directories.
SameDirectories(t, u) ==
  /\ DOMAIN u = DOMAIN t
  /\ \A q \in DOMAIN t : /\ IsDirectory(u, q) <=> IsDirectory(t, q)
                         /\ IsDirectory(t, q) => u[q] = t[q]

LEMMA SameDirectoriesFit ==
  ASSUME NEW t, TreeFits(t), NEW u, SameDirectories(t, u), u = [q \in DOMAIN u |-> u[q]],
         \A q \in DOMAIN t : u[q] \in Dirs \cup FileEntries
  PROVE  TreeFits(u)
<1>1. DOMAIN u = DOMAIN t
  BY DEF SameDirectories
<1>2. \A q : IsDirectory(u, q) <=> IsDirectory(t, q)
  BY <1>1 DEF SameDirectories, IsDirectory
<1>3. \A q : IsDirectory(t, q) => u[q] = t[q]
  BY DEF SameDirectories, IsDirectory
<1>4. Entries(u)
  BY <1>1 DEF Entries, TreeFits
<1> QED
  BY <1>1, <1>2, <1>3, <1>4 DEF TreeFits

\* A page for a block that has none
LEMMA BlockSaved ==
  ASSUME NEW ix, IndexFits(ix), Apart(ix), NEW p \in DOMAIN ix.tree, ix.tree[p].kind = "file",
         NEW k \in DOMAIN ix.tree[p].blocks, ix.tree[p].blocks[k] = -1, NEW g \in Pages
  PROVE  LET r == EntrySetBlock(ix, p, k, g)
         IN IndexFits(r) /\ Apart(r) /\ r.isChanged
<1> DEFINE t == ix.tree
           blocks == [t[p].blocks EXCEPT ![k] = g]
           e == [t[p] EXCEPT !.blocks[k] = g]
           u == [t EXCEPT ![p] = e]
           b == [ix.blockIndex EXCEPT ![g] = @ + 1]
           r == EntrySetBlock(ix, p, k, g)
<1>1. IsIndex(ix) /\ TreeFits(t) /\ Covers(ix.blockIndex, t, DOMAIN t) /\ ix.blockIndex \in [Pages -> Nat]
  BY DEF IndexFits, Covers
<1>2. t[p] \in FileEntries /\ \A q \in DOMAIN t : t[q] \in Dirs \cup FileEntries
  BY <1>1, Kinds DEF TreeFits, Entries
<1>3. e \in FileEntries /\ e.kind = "file" /\ e.blocks = blocks
  <2>1. /\ t[p].blocks \in Seq(Pages \cup {-1}) /\ k \in 1 .. Len(t[p].blocks)
        /\ t[p].isCounted \in BOOLEAN
    BY <1>2, LenProperties DEF FileEntries
  <2>2. blocks \in Seq(Pages \cup {-1})
    <3> DEFINE s == t[p].blocks
    <3> HIDE DEF s
    <3>1. [s EXCEPT ![k] = g] \in Seq(Pages \cup {-1})
      BY <2>1, ExceptSeq DEF s
    <3> QED
      BY <3>1 DEF s
  <2> DEFINE f == t[p]
  <2>3. e = [f EXCEPT !.blocks = blocks] /\ f \in FileEntries
    BY <1>2 DEF FileEntries
  <2> HIDE DEF e, f, blocks
  <2> QED
    BY <2>2, <2>3 DEF FileEntries
<1>4. g \in Nat /\ ~(g < 0) /\ -1 < 0
  BY FsindexAssumption
<1>5. ModifyBlockUsage(ModifyBlockUsage(ix.blockIndex, -1, -1), g, 1) = b
  BY <1>4 DEF ModifyBlockUsage
<1>6. r = AsChanged(WithBlocks(WithTree(ix, u), b))
  <2>1. r = [ix EXCEPT !.tree = u, !.isChanged = TRUE, !.blockIndex = b]
    <3>1. r = [ix EXCEPT !.tree[p].blocks[k] = g, !.isChanged = TRUE,
                         !.blockIndex = ModifyBlockUsage(ModifyBlockUsage(@, -1, -1), g, 1)]
      BY DEF EntrySetBlock
    <3> HIDE DEF r, b
    <3> QED
      BY <1>5, <3>1
  <2> HIDE DEF u, b, r
  <2> QED
    BY <2>1 DEF AsChanged, WithBlocks, WithTree
<1>7. /\ DOMAIN u = DOMAIN t /\ u = [q \in DOMAIN u |-> u[q]] /\ u[p] = e
      /\ \A q \in DOMAIN t : q # p => u[q] = t[q]
  BY <1>1
<1> HIDE DEF u, e, r
<1>8. SameDirectories(t, u)
  BY <1>3, <1>7 DEF SameDirectories, IsDirectory, t
<1>9. TreeFits(u)
  BY <1>1, <1>2, <1>3, <1>7, <1>8, SameDirectoriesFit
<1>10. Covers(b, u, DOMAIN u)
  <2> SUFFICES ASSUME NEW h \in Pages PROVE b[h] \in Nat /\ b[h] >= Uses(u, DOMAIN t, h)
    BY <1>1, <1>7 DEF Covers
  <2>1. ix.blockIndex[h] \in Nat /\ ix.blockIndex[h] >= Uses(t, DOMAIN t, h)
    BY <1>1 DEF Covers
  <2>2. IsFiniteSet(Blocks(t, DOMAIN t, h)) /\ Uses(t, DOMAIN t, h) \in Nat
    BY <1>1, <1>2, BlocksAreFinite DEF TreeFits, Entries
  <2>3. t[p].blocks[k] # h
    BY FsindexAssumption
  <2>4. Uses(u, DOMAIN t, h) = Uses(t, DOMAIN t, h) + (IF h = g THEN 1 ELSE 0)
    BY <1>3, <1>7, <2>2, <2>3, UsesOfBlock
  <2>5. b[h] = ix.blockIndex[h] + (IF h = g THEN 1 ELSE 0)
    BY <1>1
  <2> HIDE DEF b
  <2> QED
    BY <2>1, <2>2, <2>4, <2>5
<1> HIDE DEF b
<1>11. /\ IsIndex(r) /\ r.tree = u /\ r.rootItemVirtual = ix.rootItemVirtual /\ r.blockIndex = b
       /\ r.isChanged /\ r.isChanged \in BOOLEAN /\ r.metadata = ix.metadata
  <2> DEFINE v == WithTree(ix, u)
             w == WithBlocks(v, b)
  <2>1. /\ IsIndex(v) /\ v.tree = u /\ v.rootItemVirtual = ix.rootItemVirtual /\ v.metadata = ix.metadata
    BY <1>1, TreeIsSet
  <2>2. r = AsChanged(w)
    BY <1>6
  <2> HIDE DEF v
  <2>3. /\ IsIndex(w) /\ w.tree = u /\ w.rootItemVirtual = ix.rootItemVirtual /\ w.metadata = ix.metadata
        /\ w.blockIndex = b
    BY <2>1, BlocksAreSet
  <2> HIDE DEF w
  <2> QED
    BY <2>2, <2>3, ChangeIsSet
<1>12. IndexFits(r)
  BY <1>9, <1>10, <1>11 DEF IndexFits
<1>13. Apart(r)
  <2>1. \A q : IsDirectory(u, q) <=> IsDirectory(t, q)
    BY <1>7, <1>8 DEF SameDirectories, IsDirectory
  <2>2. IsDirectory(t, <<>>)
    BY <1>1 DEF TreeFits
  <2>3. u[<<>>] = t[<<>>]
    BY <1>8, <2>2 DEF SameDirectories, IsDirectory
  <2> QED
    BY <1>11, <2>1, <2>3 DEF Apart, t
<1> QED
  BY <1>11, <1>12, <1>13 DEF r

-----------------------------------------------------------------------------
(* The invariant                                                           *)

\* What an index was exported to loads as an index with the same entries.
LEMMA ExportedLoads ==
  ASSUME NEW ix, IndexFits(ix), Apart(ix), NEW image \in ToObject(ix)
  PROVE  LET new == FromBytes(image)
         IN /\ Ready(new) /\ new.isChanged = FALSE
            /\ Kept(new) = Kept(ix) /\ new.metadata = ix.metadata
<1> DEFINE new == FromBytes(image)
<1>1. /\ IndexFits(new) /\ new.rootItemVirtual = <<>> /\ new.isChanged = FALSE
      /\ new.metadata = ix.metadata /\ SameTree(ix.tree, new.tree)
  BY Imported
<1> HIDE DEF new
<1>2. TreeFits(ix.tree) /\ TreeFits(new.tree) /\ <<>> \in DOMAIN ix.tree /\ IsDirectory(ix.tree, <<>>)
  BY <1>1 DEF IndexFits, TreeFits, IsDirectory
<1>3. Kept(new) = Kept(ix)
  BY <1>1, <1>2, KeptIs, SameIsKept
<1>4. ASSUME ix.metadata # NULL
      PROVE  Children(new.tree[<<>>]) # {} /\ AllDirectories(new.tree)
  <2>1. Children(ix.tree[<<>>]) # {} /\ AllDirectories(ix.tree)
    BY <1>4, ApartIsReady DEF Ready
  <2>2. Children(new.tree[<<>>]) = Children(ix.tree[<<>>])
    BY <1>1, <1>2 DEF SameTree
  <2>3. \A q : IsDirectory(ix.tree, q) => IsDirectory(new.tree, q)
    BY <1>1 DEF SameTree, IsDirectory
  <2> QED
    BY <2>1, <2>2, <2>3 DEF AllDirectories
<1>5. Ready(new)
  BY <1>1, <1>4 DEF Ready
<1> QED
  BY <1>1, <1>3, <1>5 DEF new

LEMMA EmptyLoads ==
  ASSUME NEW image \in ToObject(EmptyIndex)
  PROVE  Ready(FromBytes(image)) /\ FromBytes(image).isChanged = FALSE
<1> DEFINE ix == EmptyIndex
<1>1. IndexFits(ix) /\ ix.metadata = NULL /\ ix.rootItemVirtual = <<>> /\ IsDirectory(ix.tree, <<>>)
  BY EmptyFits DEF IndexFits, TreeFits
<1>2. Len(<<>>) = 0
  OBVIOUS
<1> HIDE DEF ix
<1>3. Apart(ix)
  BY <1>1, <1>2 DEF Apart
<1> QED
  BY <1>1, <1>3, ExportedLoads DEF ix

\* Data of another index loads as an index that a fileset may be selected in.
LEMMA DataLoads ==
  ASSUME NEW image \in Data
  PROVE  Ready(FromBytes(image)) /\ FromBytes(image).isChanged = FALSE
<1> DEFINE m == image.tree
           Order(q) == m[q].order
           Kids(q) == {Order(q)[i] : i \in 1 .. Len(Order(q))}
           w == [q \in DOMAIN m |-> IF m[q].kind = "dir" THEN ImportDirectory(Order(q))
                                    ELSE File(m[q].blocks, TRUE)]
           new == FromBytes(image)
<1>1. /\ image.metadata \in {NULL, "automatic", "custom"}
      /\ IsFiniteSet(DOMAIN m) /\ DOMAIN m \subseteq Seq(Names)
      /\ <<>> \in DOMAIN m /\ m[<<>>].kind = "dir"
      /\ \A q \in DOMAIN m :
           \/ /\ m[q].kind = "dir" /\ Order(q) \in Seq(Names)
              /\ \A i, j \in 1 .. Len(Order(q)) : Order(q)[i] = Order(q)[j] => i = j
              /\ \A i \in 1 .. Len(Order(q)) : Append(q, Order(q)[i]) \in DOMAIN m
           \/ m[q].kind = "file" /\ m[q].blocks \in Seq(Pages \cup {-1})
      /\ \A q \in DOMAIN m \ {<<>>} :
           /\ Front(q) \in DOMAIN m /\ m[Front(q)].kind = "dir"
           /\ \E i \in 1 .. Len(Order(Front(q))) : Order(Front(q))[i] = Last(q)
      /\ image.metadata # NULL =>
           /\ Order(<<>>) # <<>>
           /\ \A i \in 1 .. Len(Order(<<>>)) : m[<<Order(<<>>)[i]>>].kind = "dir"
  BY DataAssumption DEF IsImage
<1> HIDE DEF m
<1>2. ASSUME NEW q \in DOMAIN m, m[q].kind = "dir"
      PROVE  /\ Orders(Order(q), Kids(q)) /\ Kids(q) \subseteq Names
             /\ \A n \in Kids(q) : Append(q, n) \in DOMAIN m
  <2>1. /\ Order(q) \in Seq(Names)
        /\ \A i, j \in 1 .. Len(Order(q)) : Order(q)[i] = Order(q)[j] => i = j
        /\ \A i \in 1 .. Len(Order(q)) : Append(q, Order(q)[i]) \in DOMAIN m
    BY <1>1, <1>2
  <2>2. \A i \in 1 .. Len(Order(q)) : Order(q)[i] \in Names
    BY <2>1, ElementOfSeq
  <2> QED
    BY <2>1, <2>2 DEF Orders
<1>3. ASSUME NEW q \in DOMAIN m, m[q].kind = "dir"
      PROVE  DirFits(w[q]) /\ Children(w[q]) = Kids(q) /\ w[q].kind = "dir"
  <2>1. w[q] = ImportDirectory(Order(q)) /\ Orders(Order(q), Kids(q)) /\ Kids(q) \subseteq Names
    BY <1>2, <1>3
  <2> HIDE DEF w, Order, Kids
  <2> QED
    BY <2>1, ImportedDirectory
<1>4. ASSUME NEW q \in DOMAIN m, m[q].kind # "dir"
      PROVE  w[q] \in FileEntries /\ w[q].kind = "file" /\ w[q].blocks = m[q].blocks /\ m[q].kind = "file"
  <2>1. w[q] = File(m[q].blocks, TRUE) /\ m[q].kind = "file" /\ m[q].blocks \in Seq(Pages \cup {-1})
    BY <1>1, <1>4
  <2> HIDE DEF w
  <2> QED
    BY <2>1, NewFile
<1>5. DOMAIN w = DOMAIN m /\ w = [q \in DOMAIN w |-> w[q]]
  OBVIOUS
<1> HIDE DEF w
<1>6. \A q : IsDirectory(w, q) <=> q \in DOMAIN m /\ m[q].kind = "dir"
  BY <1>3, <1>4, <1>5 DEF IsDirectory
<1>7. TreeFits(w)
  <2>1. Entries(w)
    BY <1>1, <1>3, <1>4, <1>5 DEF Entries, DirFits
  <2>2. ASSUME NEW q \in DOMAIN w, q # <<>>
        PROVE  IsDirectory(w, Front(q)) /\ Last(q) \in Children(w[Front(q)])
    <3>1. /\ Front(q) \in DOMAIN m /\ m[Front(q)].kind = "dir"
          /\ \E i \in 1 .. Len(Order(Front(q))) : Order(Front(q))[i] = Last(q)
      BY <1>1, <1>5, <2>2
    <3>2. Last(q) \in Kids(Front(q)) /\ Children(w[Front(q)]) = Kids(Front(q))
      BY <1>3, <3>1
    <3> QED
      BY <1>6, <3>1, <3>2
  <2>3. \A q \in DOMAIN w :
          IsDirectory(w, q) => DirFits(w[q]) /\ \A n \in Children(w[q]) : Append(q, n) \in DOMAIN w
    <3> HIDE DEF Kids
    <3> QED
      BY <1>2, <1>3, <1>5, <1>6
  <2>4. IsDirectory(w, <<>>)
    BY <1>1, <1>6
  <2> QED
    BY <2>1, <2>2, <2>3, <2>4 DEF TreeFits
<1>8. ImageOf(w, image)
  <2> HIDE DEF Kids
  <2>1. ASSUME NEW q \in DOMAIN w, IsDirectory(w, q)
        PROVE  m[q].kind = "dir" /\ Orders(m[q].order, Children(w[q]))
    BY <1>2, <1>3, <1>5, <1>6, <2>1
  <2>2. ASSUME NEW q \in DOMAIN w, ~IsDirectory(w, q)
        PROVE  m[q].kind = "file" /\ m[q].blocks = w[q].blocks
    BY <1>4, <1>5, <1>6, <2>2
  <2> QED
    BY <1>5, <2>1, <2>2 DEF ImageOf, m
<1>9. /\ IndexFits(new) /\ new.rootItemVirtual = <<>> /\ new.isChanged = FALSE
      /\ new.metadata = image.metadata /\ SameTree(w, new.tree)
  BY <1>1, <1>7, <1>8, ImageImported
<1> HIDE DEF new
<1>10. ASSUME image.metadata # NULL
       PROVE  Children(new.tree[<<>>]) # {} /\ AllDirectories(new.tree)
  <2>1. <<>> \in DOMAIN w /\ IsDirectory(w, <<>>) /\ Children(w[<<>>]) = Kids(<<>>)
    BY <1>1, <1>3, <1>5, <1>6
  <2>2. Children(new.tree[<<>>]) = Kids(<<>>)
    BY <1>9, <2>1 DEF SameTree
  <2>3. Kids(<<>>) # {}
    <3>1. Order(<<>>) \in Seq(Names) /\ Order(<<>>) # <<>>
      BY <1>1, <1>2, <1>10 DEF Orders
    <3>2. Len(Order(<<>>)) \in Nat /\ Len(Order(<<>>)) # 0
      BY <3>1, EmptySeq, LenProperties
    <3>3. 1 \in 1 .. Len(Order(<<>>))
      BY <3>2
    <3> QED
      BY <3>3
  <2>4. ASSUME NEW n \in Kids(<<>>) PROVE IsDirectory(new.tree, <<n>>)
    <3>1. PICK i \in 1 .. Len(Order(<<>>)) : n = Order(<<>>)[i]
      BY <2>4
    <3>2. m[<<n>>].kind = "dir"
      BY <1>1, <1>10, <3>1
    <3>3. <<n>> \in DOMAIN m
      <4>1. Append(<<>>, n) \in DOMAIN m
        <5>1. \A k \in Kids(<<>>) : Append(<<>>, k) \in DOMAIN m
          BY <1>1, <1>2
        <5> QED
          BY <2>4, <5>1
      <4>2. Append(<<>>, n) = <<n>>
        OBVIOUS
      <4> QED
        BY <4>1, <4>2
    <3>4. <<n>> \in DOMAIN w /\ IsDirectory(w, <<n>>)
      BY <1>5, <1>6, <3>2, <3>3
    <3> QED
      BY <1>9, <3>4 DEF SameTree
  <2> QED
    BY <2>2, <2>3, <2>4 DEF AllDirectories
<1>11. Ready(new)
  BY <1>9, <1>10 DEF Ready
<1> QED
  BY <1>9, <1>11 DEF new

\* After changes went aside with no index there is none.
NoRoot(ix) ==
  /\ IsIndex(ix) /\ ix.tree = [q \in {} |-> NULL] /\ ix.rootItemVirtual \in Seq(Names)
  /\ ix.blockIndex \in [Pages -> Nat] /\ ix.isChanged = FALSE /\ ix.metadata = NULL

Invariant ==
  /\ readonly \in BOOLEAN /\ host \in Hosts
  /\ HasRoot => IndexFits(index) /\ Apart(index)
  /\ ~HasRoot => NoRoot(index) /\ saved = {} /\ "asideEmpty" \in Events
  /\ readonly => ~index.isChanged
  /\ given # {} => HasRoot /\ ~index.isChanged
  /\ Ready(Loaded(saved)) /\ Loaded(saved).isChanged = FALSE
  /\ \A image \in saved : saved = {image}
  /\ NoChangeIsLost

LEMMA LoadedIs ==
  ASSUME NEW image
  PROVE  Loaded({image}) = FromBytes(image)
BY DEF Loaded

\* What an unmount saves has what the index has; what it leaves saved has it too
\* unless the index command set the counter back.
LEMMA SavedIs ==
  ASSUME Invariant, NEW held \in ToSave
  PROVE  /\ Ready(Loaded(held)) /\ Loaded(held).isChanged = FALSE
         /\ \A image \in held : held = {image}
         /\ HasRoot /\ given = {} =>
              Kept(Loaded(held)) = Kept(index) /\ Loaded(held).metadata = index.metadata
         /\ given # {} => held = saved
         /\ ~HasRoot => held = {}
<1>1. CASE index.isChanged /\ ~readonly
  <2>1. HasRoot /\ IndexFits(index) /\ Apart(index)
    BY <1>1 DEF Invariant, NoRoot
  <2>2. PICK image \in ToObject(index) : held = {image}
    BY <1>1 DEF ToSave
  <2>3. Loaded(held) = FromBytes(image)
    BY <2>2, LoadedIs
  <2>4. /\ Ready(Loaded(held)) /\ Loaded(held).isChanged = FALSE
        /\ Kept(Loaded(held)) = Kept(index) /\ Loaded(held).metadata = index.metadata
    BY <2>1, <2>2, <2>3, ExportedLoads
  <2>5. given = {}
    BY <1>1 DEF Invariant
  <2> QED
    BY <2>1, <2>2, <2>4, <2>5
<1>2. CASE ~(index.isChanged /\ ~readonly)
  <2>1. held = saved
    BY <1>2 DEF ToSave
  <2>2. ~index.isChanged
    BY <1>2 DEF Invariant
  <2> QED
    BY <2>1, <2>2 DEF Invariant, NoChangeIsLost
<1> QED
  BY <1>1, <1>2

LEMMA ChangeKeeps ==
  ASSUME Invariant, ~readonly, IndexFits(index'), Apart(index'), index'.isChanged,
         UNCHANGED <<saved, readonly, host>>, CountsFrom(given)
  PROVE  Invariant'
<1>1. HasRoot'
  BY DEF HasRoot, IndexFits, TreeFits, IsDirectory
<1>2. /\ saved' = saved /\ readonly' = readonly /\ host' = host
      /\ Loaded(saved') = Loaded(saved) /\ given' = {}
  BY DEF CountsFrom
<1>3. NoChangeIsLost'
  BY DEF NoChangeIsLost
<1> QED
  BY <1>1, <1>2, <1>3 DEF Invariant

\* The index that was loaded, with a fileset selected in it
LEMMA LoadKeeps ==
  ASSUME NEW held, Ready(Loaded(held)), Loaded(held).isChanged = FALSE,
         \A image \in held : held = {image},
         IndexFits(index'), Apart(index'), Kept(index') = Kept(Loaded(held)),
         \/ index'.metadata = Loaded(held).metadata /\ ~index'.isChanged
         \/ index'.isChanged /\ ~readonly',
         saved' = held, given' = {}, readonly' \in BOOLEAN, host' \in Hosts
  PROVE  Invariant'
<1>1. HasRoot'
  BY DEF HasRoot, IndexFits, TreeFits, IsDirectory
<1>2. Loaded(saved)' = Loaded(held)
  BY DEF Loaded
<1>3. NoChangeIsLost'
  BY <1>2 DEF NoChangeIsLost, Loaded
<1>4. Ready(Loaded(saved))' /\ Loaded(saved)'.isChanged = FALSE
  BY <1>2 DEF Ready
<1> QED
  BY <1>1, <1>3, <1>4 DEF Invariant

LEMMA InvariantInit == Init => Invariant
<1> SUFFICES ASSUME Init PROVE Invariant
  OBVIOUS
<1>1. index = EmptyIndex /\ saved = {} /\ given = {} /\ readonly = FALSE /\ host \in Hosts
  BY DEF Init
<1>2. Loaded(saved) = EmptyIndex
  BY <1>1 DEF Loaded
<1>3. HasRoot
  BY <1>1, EmptyFits DEF HasRoot
<1>4. Apart(index)
  <2>1. IsDirectory(index.tree, <<>>) /\ Len(<<>>) = 0
    BY <1>1, EmptyFits DEF IndexFits, TreeFits
  <2> QED
    BY <1>1, <2>1, EmptyFits DEF Apart
<1>5. Ready(EmptyIndex)
  BY EmptyFits DEF Ready
<1>6. NoChangeIsLost
  BY <1>1, <1>2 DEF NoChangeIsLost
<1> QED
  BY <1>1, <1>2, <1>3, <1>4, <1>5, <1>6, EmptyFits DEF Invariant

LEMMA ChangeDid ==
  ASSUME Invariant, HasRoot, ~readonly, UNCHANGED <<saved, readonly, host>>, CountsFrom(given),
         NEW path \in Seq(Names), path # <<>>, NEW new, Did(index, index', PathAt(index, path), new)
  PROVE  Invariant'
<1>1. IndexFits(index) /\ Apart(index) /\ index.rootItemVirtual \in Seq(Names)
  BY DEF Invariant, IndexFits
<1>2. Len(PathAt(index, path)) > Len(index.rootItemVirtual)
  BY <1>1 DEF PathAt
<1>3. Apart(index')
  BY <1>1, <1>2, ApartStays
<1> QED
  BY <1>3, ChangeKeeps DEF Did

LEMMA CreateDirectoryStep ==
  ASSUME Invariant, NEW path \in Directories, CreateDirectory(path)
  PROVE  Invariant'
<1>1. /\ path \in Seq(Names) /\ path # <<>> /\ HasRoot /\ ~readonly /\ IndexFits(index)
      /\ index' \in SetEntry(index, path, Directory) /\ UNCHANGED <<saved, readonly, host>>
      /\ CountsFrom(given)
  BY PathsFit DEF Paths, CreateDirectory, Change, Invariant
<1>2. Did(index, index', PathAt(index, path), {PathAt(index, path)})
  BY <1>1, DirectoryMade
<1> QED
  BY <1>1, <1>2, ChangeDid

LEMMA ListsFit ==
  \A list \in Lists : /\ list \in Seq(Pages \cup {-1})
                      /\ [k \in DOMAIN list |-> -1] \in Seq({-1})
<1> SUFFICES ASSUME NEW list \in Lists
             PROVE  list \in Seq(Pages \cup {-1}) /\ [k \in DOMAIN list |-> -1] \in Seq({-1})
  OBVIOUS
<1>1. list \in Seq(Pages \cup {-1})
  BY FsindexAssumption
<1>2. DOMAIN list = 1 .. Len(list) /\ Len(list) \in Nat
  BY <1>1, LenProperties
<1>3. [k \in 1 .. Len(list) |-> -1] \in [1 .. Len(list) -> {-1}]
  OBVIOUS
<1>4. [k \in 1 .. Len(list) |-> -1] \in Seq({-1})
  BY <1>2, <1>3, SeqDef
<1> QED
  BY <1>1, <1>2, <1>4

LEMMA CmdSetStep ==
  ASSUME Invariant, NEW path \in Commanded, NEW list \in Lists, CmdSet(path, list)
  PROVE  Invariant'
<1>1. /\ path \in Seq(Names) /\ path # <<>> /\ list \in Seq(Pages \cup {-1})
      /\ HasRoot /\ ~readonly /\ IndexFits(index) /\ UNCHANGED <<saved, readonly, host>>
      /\ CountsFrom(given)
  BY PathsFit, ListsFit DEF Paths, CmdSet, Change, Invariant
<1>2. IsSet(index, path, list, index')
  BY DEF CmdSet, Change, IsSet
<1>3. Did(index, index', PathAt(index, path), {PathAt(index, path)})
  BY <1>1, <1>2, FileMade
<1> QED
  BY <1>1, <1>3, ChangeDid

LEMMA WriteFileStep ==
  ASSUME Invariant, NEW path \in Written, NEW list \in Lists, WriteFile(path, list)
  PROVE  Invariant'
<1> DEFINE none == [k \in DOMAIN list |-> -1]
<1>1. /\ path \in Seq(Names) /\ path # <<>> /\ none \in Seq({-1})
      /\ HasRoot /\ ~readonly /\ IndexFits(index) /\ UNCHANGED <<saved, readonly, host>>
      /\ CountsFrom(given)
      /\ index' \in SetEntry(index, path, File(none, FALSE))
  BY PathsFit, ListsFit DEF Paths, WriteFile, Change, Invariant
<1> HIDE DEF none
<1>2. Did(index, index', PathAt(index, path), {PathAt(index, path)})
  BY <1>1, FileWritten
<1> QED
  BY <1>1, <1>2, ChangeDid

LEMMA CmdSetFailsStep ==
  ASSUME Invariant, NEW path \in Commanded, CmdSetFails(path)
  PROVE  Invariant'
<1>1. /\ path \in Seq(Names) /\ path # <<>> /\ <<-1>> \in Seq({-1})
      /\ HasRoot /\ ~readonly /\ IndexFits(index) /\ Apart(index) /\ UNCHANGED <<saved, readonly, host>>
      /\ CountsFrom(given)
      /\ index.rootItemVirtual \in Seq(Names)
  BY PathsFit DEF Paths, CmdSetFails, Change, Invariant, IndexFits
<1>2. PICK s \in SetEntry(index, path, File(<<-1>>, FALSE)) : index' \in Unset(s, path, FALSE)
  BY DEF CmdSetFails, Change
<1>3. Did(index, s, PathAt(index, path), {PathAt(index, path)})
  BY <1>1, <1>2, FileWritten
<1>4. Len(PathAt(index, path)) > Len(index.rootItemVirtual)
  BY <1>1 DEF PathAt
<1>5. IndexFits(s) /\ Apart(s) /\ s.rootItemVirtual = index.rootItemVirtual
  BY <1>1, <1>3, <1>4, ApartStays DEF Did
<1>6. Did(s, index', PathAt(s, path), {})
  BY <1>1, <1>2, <1>5, UnsetDid
<1>7. Len(PathAt(s, path)) > Len(s.rootItemVirtual)
  BY <1>4, <1>5 DEF PathAt
<1>8. IndexFits(index') /\ Apart(index') /\ index'.isChanged
  BY <1>5, <1>6, <1>7, ApartStays DEF Did
<1> QED
  BY <1>1, <1>8, ChangeKeeps

LEMMA SaveBlockStep ==
  ASSUME Invariant, NEW p \in DOMAIN index.tree, NEW g \in Pages, SaveBlock(p, g)
  PROVE  Invariant'
<1>1. PICK k \in DOMAIN index.tree[p].blocks :
        index.tree[p].blocks[k] = -1 /\ Change({EntrySetBlock(index, p, k, g)})
  BY DEF SaveBlock
<1>2. /\ index.tree[p].kind = "file" /\ IndexFits(index) /\ Apart(index) /\ ~readonly
      /\ index' = EntrySetBlock(index, p, k, g) /\ UNCHANGED <<saved, readonly, host>>
      /\ CountsFrom(given)
  BY <1>1 DEF SaveBlock, Change, Invariant
<1>3. IndexFits(index') /\ Apart(index') /\ index'.isChanged
  BY <1>1, <1>2, BlockSaved
<1> QED
  BY <1>2, <1>3, ChangeKeeps

LEMMA UnsetEntryStep ==
  ASSUME Invariant, NEW path \in Paths, UnsetEntry(path)
  PROVE  Invariant'
<1>1. /\ path \in Seq(Names) /\ path # <<>> /\ HasRoot /\ ~readonly /\ IndexFits(index)
      /\ index' \in Unset(index, path, FALSE) /\ UNCHANGED <<saved, readonly, host>>
      /\ CountsFrom(given)
  BY PathsFit DEF UnsetEntry, Change, Invariant
<1>2. Did(index, index', PathAt(index, path), {})
  BY <1>1, UnsetDid
<1> QED
  BY <1>1, <1>2, ChangeDid

LEMMA RemoveDirectoryStep ==
  ASSUME Invariant, NEW path \in Paths, NEW recursive, RemoveDirectory(path, recursive)
  PROVE  Invariant'
<1>1. /\ path \in Seq(Names) /\ path # <<>> /\ HasRoot /\ ~readonly /\ IndexFits(index)
      /\ index' \in Unset(index, path, TRUE) /\ UNCHANGED <<saved, readonly, host>>
      /\ CountsFrom(given)
  BY PathsFit DEF RemoveDirectory, Change, Invariant
<1>2. Did(index, index', PathAt(index, path), {})
  BY <1>1, UnsetDid
<1> QED
  BY <1>1, <1>2, ChangeDid

LEMMA TypesFit ==
  /\ \A type \in Types : type = NULL \/ type \in Names
  /\ \A h \in Hosts : h \in Names
BY FsindexAssumption DEF Types

LEMMA SelectFilesetStep ==
  ASSUME Invariant, NEW type \in Types, SelectFileset(type)
  PROVE  Invariant'
<1>1. /\ HasRoot /\ IndexFits(index) /\ Apart(index) /\ readonly \in BOOLEAN /\ host \in Hosts
      /\ index' \in FileSetSelect(index, type, host, readonly) /\ UNCHANGED <<saved, readonly, host>>
      /\ readonly => ~index.isChanged
      /\ given' = IF index'.isChanged THEN {} ELSE given
  BY DEF SelectFileset, Invariant, CountsFrom
<1>2. /\ IndexFits(index') /\ Apart(index') /\ Kept(index') = Kept(index)
      /\ \/ index'.metadata = index.metadata /\ index'.isChanged = index.isChanged
         \/ index'.isChanged /\ ~readonly
  BY <1>1, ApartIsReady, TypesFit, Selected
<1>3. HasRoot'
  BY <1>2 DEF HasRoot, IndexFits, TreeFits, IsDirectory
<1>4. saved' = saved /\ readonly' = readonly /\ host' = host /\ Loaded(saved') = Loaded(saved)
  BY <1>1
<1>5. index.isChanged \in BOOLEAN /\ index'.isChanged \in BOOLEAN
  BY <1>1, <1>2 DEF IndexFits
<1>6. CASE index'.isChanged
  <2>1. given' = {} /\ NoChangeIsLost'
    BY <1>1, <1>6 DEF NoChangeIsLost
  <2> QED
    BY <1>1, <1>2, <1>3, <1>4, <2>1 DEF Invariant
<1>7. CASE ~index'.isChanged
  <2>1. /\ given' = given /\ ~index.isChanged /\ Kept(index') = Kept(index)
        /\ index'.metadata = index.metadata
    BY <1>1, <1>2, <1>7
  <2> DEFINE base == IF given = {} THEN saved ELSE given
  <2>2. Kept(index) = Kept(Loaded(base)) /\ index.metadata = Loaded(base).metadata
    BY <1>1, <2>1 DEF Invariant, NoChangeIsLost
  <2>3. base' = base /\ Loaded(base)' = Loaded(base)
    BY <1>4, <2>1 DEF Loaded
  <2> HIDE DEF base
  <2>4. Kept(index') = Kept(Loaded(base)') /\ index'.metadata = Loaded(base)'.metadata
    BY <2>1, <2>2, <2>3
  <2>5. NoChangeIsLost'
    BY <2>4 DEF NoChangeIsLost, base
  <2> QED
    BY <1>1, <1>2, <1>3, <1>4, <2>1, <2>5 DEF Invariant
<1> QED
  BY <1>5, <1>6, <1>7

LEMMA RemountStep ==
  ASSUME Invariant, Remount
  PROVE  Invariant'
<1>1. PICK held \in ToSave, type \in Types, h \in Hosts, ro \in BOOLEAN :
        /\ index' \in FileSetSelect(Loaded(held), type, h, ro)
        /\ saved' = held /\ given' = {} /\ readonly' = ro /\ host' = h
  BY DEF Remount
<1>2. /\ Ready(Loaded(held)) /\ Loaded(held).isChanged = FALSE
      /\ \A image \in held : held = {image}
  BY SavedIs
<1>3. /\ IndexFits(index') /\ Apart(index') /\ Kept(index') = Kept(Loaded(held))
      /\ \/ index'.metadata = Loaded(held).metadata /\ index'.isChanged = Loaded(held).isChanged
         \/ index'.isChanged /\ ~ro
  BY <1>1, <1>2, TypesFit, Selected
<1> QED
  BY <1>1, <1>2, <1>3, LoadKeeps

LEMMA SelectedInWritable ==
  ASSUME NEW ix, Ready(ix), NEW type, type = NULL \/ type \in Names, NEW h \in Names
  PROVE  /\ \A r \in FileSetSelect(ix, type, h, FALSE) :
              /\ IndexFits(r) /\ Apart(r) /\ Kept(r) = Kept(ix)
              /\ \/ r.metadata = ix.metadata /\ r.isChanged = ix.isChanged
                 \/ ix.tree[<<>>].childCount = 0 /\ type # NULL
         /\ type # NULL /\ ix.metadata # NULL => FileSetSelect(ix, type, h, FALSE) # {}
<1> DEFINE ro == FALSE
<1>1. ro \in BOOLEAN /\ ~ro
  OBVIOUS
<1>2. FileSetSelect(ix, type, h, FALSE) = FileSetSelect(ix, type, h, ro)
  OBVIOUS
<1> HIDE DEF ro
<1>3. /\ \A r \in FileSetSelect(ix, type, h, ro) :
           /\ IndexFits(r) /\ Apart(r) /\ Kept(r) = Kept(ix)
           /\ \/ r.metadata = ix.metadata /\ r.isChanged = ix.isChanged
              \/ ix.tree[<<>>].childCount = 0 /\ type # NULL
      /\ type # NULL /\ ix.metadata # NULL => FileSetSelect(ix, type, h, ro) # {}
  BY <1>1, Selected
<1> QED
  BY <1>2, <1>3

LEMMA CmdExportStep ==
  ASSUME Invariant, CmdExport
  PROVE  Invariant'
<1>1. PICK image \in ToObject(index) :
        /\ HasRoot /\ index' = [index EXCEPT !.isChanged = FALSE]
        /\ given' = {image} /\ UNCHANGED <<saved, readonly, host>>
  BY DEF CmdExport
<1>2. IndexFits(index) /\ Apart(index) /\ readonly \in BOOLEAN /\ host \in Hosts
  BY <1>1 DEF Invariant
<1> DEFINE new == FromBytes(image)
<1>3. Kept(new) = Kept(index) /\ new.metadata = index.metadata
  BY <1>2, ExportedLoads
<1> HIDE DEF new
<1>4. /\ IsIndex(index') /\ index'.tree = index.tree /\ index'.rootItemVirtual = index.rootItemVirtual
      /\ index'.blockIndex = index.blockIndex /\ index'.isChanged = FALSE
      /\ index'.metadata = index.metadata
  BY <1>1, <1>2 DEF IndexFits, IsIndex
<1>5. IndexFits(index') /\ Apart(index') /\ Kept(index') = Kept(index)
  BY <1>2, <1>4 DEF IndexFits, Apart, Kept
<1>6. HasRoot'
  BY <1>5 DEF HasRoot, IndexFits, TreeFits, IsDirectory
<1>7. Loaded(given)' = new /\ given' # {}
  BY <1>1, LoadedIs DEF new
<1>8. NoChangeIsLost'
  BY <1>3, <1>4, <1>5, <1>7 DEF NoChangeIsLost
<1>9. saved' = saved /\ readonly' = readonly /\ host' = host /\ Loaded(saved') = Loaded(saved)
  BY <1>1
<1> QED
  BY <1>2, <1>4, <1>5, <1>6, <1>8, <1>9 DEF Invariant

LEMMA CmdImportStep ==
  ASSUME Invariant, CmdImport
  PROVE  Invariant'
<1>1. PICK image \in saved \cup Data \cup ToObject(EmptyIndex) :
        /\ index' \in FileSetSelect(FromBytes(image), NULL, host, FALSE)
        /\ given' = {image} /\ UNCHANGED <<saved, readonly, host>>
  BY DEF CmdImport
<1> DEFINE new == FromBytes(image)
<1>2. Ready(new) /\ new.isChanged = FALSE
  <2>1. CASE image \in saved
    <3>1. Loaded(saved) = new
      BY <2>1, LoadedIs DEF Invariant
    <3> QED
      BY <3>1 DEF Invariant
  <2> QED
    BY <2>1, DataLoads, EmptyLoads
<1> HIDE DEF new
<1>3. readonly \in BOOLEAN /\ host \in Hosts /\ host \in Names
  BY TypesFit DEF Invariant
<1>4. /\ IndexFits(index') /\ Apart(index') /\ Kept(index') = Kept(new)
      /\ index'.metadata = new.metadata /\ index'.isChanged = new.isChanged
  <2>1. \A r \in FileSetSelect(new, NULL, host, FALSE) :
          /\ IndexFits(r) /\ Apart(r) /\ Kept(r) = Kept(new)
          /\ \/ r.metadata = new.metadata /\ r.isChanged = new.isChanged
             \/ NULL # NULL
    BY <1>2, <1>3, SelectedInWritable
  <2> QED
    BY <1>1, <2>1 DEF new
<1>5. HasRoot'
  BY <1>4 DEF HasRoot, IndexFits, TreeFits, IsDirectory
<1>6. Loaded(given)' = new /\ given' # {}
  BY <1>1, LoadedIs DEF new
<1>7. NoChangeIsLost'
  BY <1>4, <1>6 DEF NoChangeIsLost
<1>8. saved' = saved /\ readonly' = readonly /\ host' = host /\ Loaded(saved') = Loaded(saved)
  BY <1>1
<1> QED
  BY <1>2, <1>3, <1>4, <1>5, <1>7, <1>8 DEF Invariant

\* In an index whose root has no children there is nothing else.
LEMMA BareHasNothing ==
  ASSUME NEW ix, IndexFits(ix), ix.tree[<<>>].childCount = 0
  PROVE  Children(ix.tree[<<>>]) = {} /\ \A q \in DOMAIN ix.tree : Len(q) = 0
<1> DEFINE t == ix.tree
<1>1. /\ TreeFits(t) /\ IsDirectory(t, <<>>) /\ <<>> \in DOMAIN t
      /\ <<>> \in Seq(Names) /\ \A q \in DOMAIN t : q \in Seq(Names)
  BY DEF IndexFits, TreeFits, Entries, IsDirectory
<1>2. Children(t[<<>>]) = {}
  BY <1>1, FS_EmptySet DEF TreeFits, DirFits
<1>3. IsEmpty(t[<<>>])
  BY DEF IsEmpty
<1>4. \A q \in DOMAIN t : IsPrefix(<<>>, q)
  BY <1>1, PrefixOfSelf
<1>5. \A q \in DOMAIN t : q = <<>>
  BY <1>1, <1>3, <1>4, NothingBelow
<1>6. Len(<<>>) = 0
  OBVIOUS
<1> QED
  BY <1>2, <1>5, <1>6

\* A selection that is refused leaves the index that was saved.
LEMMA AsideStep ==
  ASSUME Invariant, Aside, "asideImported" \notin Events
  PROVE  /\ Invariant'
         /\ "asideEmpty" \notin Events =>
              \E held \in ToSave :
                LET ix == Loaded(held)
                IN /\ Kept(index') = Kept(ix)
                   /\ \/ index'.metadata = ix.metadata
                      \/ ix.tree[<<>>].childCount = 0 /\ index'.metadata \in {"automatic", "custom"}
<1>1. PICK held \in ToSave :
        /\ saved' = held /\ given' = {} /\ readonly' = FALSE /\ host' = host
        /\ IF held = {}
           THEN /\ "asideEmpty" \in Events
                /\ index' = [index EXCEPT !.tree = [q \in {} |-> NULL], !.metadata = NULL]
           ELSE LET ix == Loaded(held)
                    active == index.rootItemVirtual
                    selected == IF active = <<>> THEN {ix}
                                ELSE FileSetSelect(ix, active[1], host, FALSE)
                IN /\ active = <<>> /\ ix.metadata # NULL => "asideImported" \in Events
                   /\ index' \in IF selected = {} THEN {ix} ELSE selected
  BY DEF Aside
<1>2. /\ Ready(Loaded(held)) /\ Loaded(held).isChanged = FALSE /\ host \in Hosts
      /\ \A image \in held : held = {image}
      /\ ~HasRoot => held = {}
  BY SavedIs DEF Invariant
<1>3. CASE held = {}
  <2>1. "asideEmpty" \in Events /\ index' = WithImage(index, [q \in {} |-> NULL], NULL)
    BY <1>1, <1>3 DEF WithImage
  <2>2. /\ IsIndex(index) /\ index.rootItemVirtual \in Seq(Names) /\ index.blockIndex \in [Pages -> Nat]
    BY DEF Invariant, IndexFits, NoRoot, Covers
  <2>3. held = saved /\ ~index.isChanged /\ index.isChanged \in BOOLEAN
    <3>1. ~(index.isChanged /\ ~readonly)
      BY <1>3 DEF ToSave
    <3> QED
      BY <1>3, <3>1 DEF ToSave, Invariant, IndexFits, NoRoot
  <2>4. NoRoot(index')
    BY <2>1, <2>2, <2>3, ImageIsSet DEF NoRoot
  <2>5. ~HasRoot'
    BY <2>4 DEF NoRoot, HasRoot
  <2>6. Loaded(saved)' = Loaded(saved) /\ saved' = {} /\ given' = {}
    BY <1>1, <1>3, <2>3 DEF Loaded
  <2>7. ~index'.isChanged
    BY <2>4 DEF NoRoot
  <2>8. Ready(Loaded(saved)') /\ Loaded(saved)'.isChanged = FALSE
    BY <2>6 DEF Invariant
  <2>9. readonly' \in BOOLEAN /\ host' \in Hosts /\ NoChangeIsLost'
    BY <1>1, <1>2, <2>5 DEF NoChangeIsLost
  <2> QED
    BY <2>1, <2>4, <2>5, <2>6, <2>7, <2>8, <2>9 DEF Invariant, Ready
<1>4. CASE held # {}
  <2> DEFINE ix == Loaded(held)
             active == index.rootItemVirtual
             results == FileSetSelect(ix, active[1], host, FALSE)
  <2>1. HasRoot /\ IndexFits(index) /\ Apart(index) /\ Ready(ix)
    BY <1>2, <1>4 DEF Invariant
  <2>2. readonly' \in BOOLEAN /\ host' \in Hosts /\ ~readonly' /\ saved' = held /\ given' = {}
    BY <1>1, <1>2
  <2>3. /\ IndexFits(index') /\ Apart(index') /\ Kept(index') = Kept(ix)
        /\ \/ index'.metadata = ix.metadata /\ index'.isChanged = ix.isChanged
           \/ /\ ix.tree[<<>>].childCount = 0 /\ index'.metadata \in {"automatic", "custom"}
              /\ index'.isChanged
    <3>1. ASSUME index' = ix, ix.metadata = NULL PROVE Apart(ix) /\ IndexFits(ix)
      <4>1. Len(<<>>) = 0 /\ ix.rootItemVirtual = <<>> /\ IndexFits(ix) /\ IsDirectory(ix.tree, <<>>)
        BY <2>1, <3>1 DEF Ready, IndexFits, TreeFits
      <4> QED
        BY <3>1, <4>1 DEF Apart
    <3>2. CASE active = <<>>
      <4>1. index' = ix /\ ix.metadata = NULL
        BY <1>1, <1>4, <3>2
      <4> QED
        BY <3>1, <4>1
    <3>3. CASE active # <<>>
      <4>1. active \in Seq(Names) /\ Len(active) \in Nat /\ Len(active) # 0
        BY <2>1, <3>3, EmptySeq, LenProperties DEF IndexFits
      <4>2. 1 \in 1 .. Len(active)
        BY <4>1
      <4>3. active[1] \in Names /\ active[1] # NULL /\ host \in Names
        BY <1>2, <4>1, <4>2, ElementOfSeq, TypesFit, FsindexAssumption
      <4>4. index' \in IF results = {} THEN {ix} ELSE results
        BY <1>1, <1>4, <3>3
      <4> HIDE DEF ix
      <4>5. ix.metadata # NULL => results # {}
        BY <2>1, <4>3, SelectedInWritable
      <4> DEFINE ro == FALSE
      <4>6. ro \in BOOLEAN /\ ~ro /\ results = FileSetSelect(ix, active[1], host, ro)
        OBVIOUS
      <4> HIDE DEF ro
      <4>7. \A r \in FileSetSelect(ix, active[1], host, ro) :
              /\ IndexFits(r) /\ Apart(r) /\ Kept(r) = Kept(ix)
              /\ \/ r.metadata = ix.metadata /\ r.isChanged = ix.isChanged
                 \/ /\ ix.tree[<<>>].childCount = 0 /\ r.metadata \in {"automatic", "custom"}
                    /\ r.isChanged
        BY <2>1, <4>3, <4>6, Selected
      <4> QED
        BY <3>1, <4>4, <4>5, <4>6, <4>7
    <3> QED
      BY <3>2, <3>3
  <2>4. Invariant'
    BY <1>2, <2>2, <2>3, LoadKeeps
  <2> QED
    BY <2>3, <2>4
<1> QED
  BY <1>1, <1>3, <1>4

LEMMA NextKeepsInvariant ==
  ASSUME "asideImported" \notin Events
  PROVE  Invariant /\ [Next]_vars => Invariant'
<1> SUFFICES ASSUME Invariant, [Next]_vars PROVE Invariant'
  OBVIOUS
<1>1. ASSUME NEW path \in Directories, CreateDirectory(path) PROVE Invariant'
  BY <1>1, CreateDirectoryStep
<1>2. ASSUME NEW path \in Commanded, CmdSetFails(path) PROVE Invariant'
  BY <1>2, CmdSetFailsStep
<1>3. ASSUME NEW path \in Commanded, NEW list \in Lists, CmdSet(path, list) PROVE Invariant'
  BY <1>3, CmdSetStep
<1>4. ASSUME NEW path \in Written, NEW list \in Lists, WriteFile(path, list) PROVE Invariant'
  BY <1>4, WriteFileStep
<1>5. ASSUME NEW p \in DOMAIN index.tree, NEW g \in Pages, SaveBlock(p, g) PROVE Invariant'
  BY <1>5, SaveBlockStep
<1>6. ASSUME NEW path \in Paths, UnsetEntry(path) PROVE Invariant'
  BY <1>6, UnsetEntryStep
<1>7. ASSUME NEW path \in Paths, NEW recursive \in BOOLEAN, RemoveDirectory(path, recursive)
      PROVE  Invariant'
  BY <1>7, RemoveDirectoryStep
<1>8. ASSUME NEW type \in Types, SelectFileset(type) PROVE Invariant'
  BY <1>8, SelectFilesetStep
<1>9. ASSUME Remount PROVE Invariant'
  BY <1>9, RemountStep
<1>10. ASSUME Aside PROVE Invariant'
  BY <1>10, AsideStep
<1>11. ASSUME CmdImport PROVE Invariant'
  BY <1>11, CmdImportStep
<1>12. ASSUME CmdExport PROVE Invariant'
  BY <1>12, CmdExportStep
<1>13. ASSUME UNCHANGED vars PROVE Invariant'
  <2>1. index' = index /\ saved' = saved /\ given' = given /\ readonly' = readonly /\ host' = host
    BY <1>13 DEF vars
  <2>2. /\ Loaded(saved)' = Loaded(saved) /\ Loaded(given)' = Loaded(given)
        /\ (HasRoot' <=> HasRoot) /\ NoChangeIsLost'
    BY <2>1 DEF Invariant, NoChangeIsLost, Loaded, HasRoot
  <2> QED
    BY <2>1, <2>2 DEF Invariant, Ready
<1> QED
  BY <1>1, <1>2, <1>3, <1>4, <1>5, <1>6, <1>7, <1>8, <1>9, <1>10, <1>11, <1>12, <1>13 DEF Next

\* Whatever is called in whatever order, as long as what was imported over
\* filesets does not go aside: trees fit together, counts cover what is used,
\* filesets are apart, and an index that counts no change is what the archive
\* holds or what the index command gave or took since.
THEOREM FsindexInvariant == "asideImported" \notin Events => (Spec => []Invariant)
<1> SUFFICES ASSUME "asideImported" \notin Events PROVE Spec => []Invariant
  OBVIOUS
<1>1. Init => Invariant
  BY InvariantInit
<1>2. Invariant /\ [Next]_vars => Invariant'
  BY NextKeepsInvariant
<1> QED
  BY <1>1, <1>2, PTL DEF Spec

-----------------------------------------------------------------------------
(* The properties                                                          *)

LEMMA UsageIsCovered ==
  ASSUME Invariant
  PROVE  UsageCovers
<1>1. CASE HasRoot
  BY <1>1 DEF Invariant, IndexFits, Covers, UsageCovers
<1>2. CASE ~HasRoot
  <2>1. index.tree = [q \in {} |-> NULL] /\ index.blockIndex \in [Pages -> Nat]
    BY <1>2 DEF Invariant, NoRoot
  <2> DEFINE t == [q \in {} |-> NULL]
  <2>2. DOMAIN t = {}
    OBVIOUS
  <2>3. \A g \in Pages : Uses(t, {}, g) = 0
    BY UsesOfNone
  <2> HIDE DEF t
  <2>4. \A g \in Pages : index.blockIndex[g] >= Uses(t, DOMAIN t, g)
    BY <2>1, <2>2, <2>3
  <2> QED
    BY <2>1, <2>4 DEF UsageCovers, t
<1> QED
  BY <1>1, <1>2

LEMMA IndexIsSound ==
  ASSUME Invariant
  PROVE  IndexSound
<1>1. UsageCovers
  BY UsageIsCovered
<1>2. CASE HasRoot
  <2>1. /\ IndexFits(index) /\ TreeFits(index.tree) /\ Apart(index)
        /\ readonly \in BOOLEAN /\ host \in Hosts
    BY <1>2 DEF Invariant, IndexFits
  <2>2. FilesetsApart
    BY <2>1 DEF Apart, FilesetsApart
  <2>3. Subtree(index.tree, <<>>) = DOMAIN index.tree
    BY <2>1, WholeTree
  <2>4. ASSUME NEW p, IsDirectory(index.tree, p)
        PROVE  /\ DirFits(index.tree[p]) /\ \A n \in Children(index.tree[p]) : Append(p, n) \in DOMAIN index.tree
    BY <2>1, <2>4 DEF TreeFits, IsDirectory
  <2>5. TreeSound
    BY <2>3, <2>4 DEF TreeSound, DirFits
  <2>6. \A p \in DOMAIN index.tree : p \in Seq(Names) /\ index.tree[p] \in Dirs \cup FileEntries
    BY <2>1 DEF TreeFits, Entries
  <2>7. /\ index.rootItemVirtual \in Seq(Names) /\ index.blockIndex \in [Pages -> Nat]
        /\ index.isChanged \in BOOLEAN /\ index.metadata \in {NULL, "automatic", "custom"}
    BY <2>1 DEF IndexFits, Covers
  <2>8. \A e \in Dirs : /\ e.kind = "dir" /\ e.isHash \in BOOLEAN /\ e.childCount \in Nat
                        /\ e.table \in [1 .. TableSize -> Names \cup {NULL}] /\ e.children \subseteq Names
    BY DEF Dirs
  <2>9. \A e \in FileEntries : /\ e.kind = "file" /\ e.isCounted \in BOOLEAN
                               /\ e.blocks \in Seq(Pages \cup {-1})
    BY DEF FileEntries
  <2>10. TypeOK
    BY <2>1, <2>6, <2>7, <2>8, <2>9 DEF TypeOK
  <2> QED
    BY <1>1, <2>2, <2>5, <2>10 DEF IndexSound
<1>3. CASE ~HasRoot
  <2>1. NoRoot(index) /\ readonly \in BOOLEAN /\ host \in Hosts
    BY <1>3 DEF Invariant
  <2>2. DOMAIN index.tree = {}
    BY <2>1 DEF NoRoot
  <2>3. TypeOK
    BY <2>1, <2>2 DEF NoRoot, TypeOK
  <2> QED
    BY <1>1, <1>3, <2>3 DEF IndexSound, TreeSound, FilesetsApart
<1> QED
  BY <1>2, <1>3

\* However directories got their children, over holes in tables, the change to
\* hashes, export and import: each entry that is allocated is found and counted
\* once, no page is taken to be used less than it is, and filesets and files do
\* not mix (fsindex.c).
THEOREM EveryIndexIsSound == "asideImported" \notin Events => (Spec => []IndexSound)
<1>1. Invariant => IndexSound
  BY IndexIsSound
<1> QED
  BY <1>1, FsindexInvariant, PTL

\* An index that counts no change has what the archive holds, so that not saving
\* it loses nothing, unless the index command gave it to the user, or took it from
\* there, and set the counter back (Cookfs_FsindexIncrChangeCount,
\* Cookfs_FsindexResetChangeCount, Cookfs_VfsFini).
THEOREM WhatIsNotSavedIsKept == "asideImported" \notin Events => (Spec => []NoChangeIsLost)
<1>1. Invariant => NoChangeIsLost
  BY DEF Invariant
<1> QED
  BY <1>1, FsindexInvariant, PTL

\* What the next mount has of the one that is loaded
LEMMA LoadedIsTaken ==
  ASSUME Invariant, HasRoot, NEW held \in ToSave,
         Kept(index') = Kept(Loaded(held)),
         \/ index'.metadata = Loaded(held).metadata
         \/ Loaded(held).tree[<<>>].childCount = 0 /\ index'.metadata \in {"automatic", "custom"}
  PROVE  TakesOver(IF given = {} THEN index ELSE Loaded(saved))
<1>1. CASE given # {}
  <2>1. held = saved
    BY <1>1, SavedIs
  <2> QED
    BY <1>1, <2>1 DEF TakesOver
<1>2. CASE given = {}
  <2> DEFINE ix == Loaded(held)
  <2>2. /\ Ready(ix) /\ Kept(ix) = Kept(index) /\ ix.metadata = index.metadata
        /\ IndexFits(ix) /\ IndexFits(index) /\ TreeFits(ix.tree) /\ TreeFits(index.tree)
    BY <1>2, SavedIs DEF Invariant, Ready, IndexFits
  <2> HIDE DEF ix
  <2>3. /\ Kept(index') = Kept(ix)
        /\ \/ index'.metadata = ix.metadata
           \/ ix.tree[<<>>].childCount = 0 /\ index'.metadata \in {"automatic", "custom"}
    BY DEF ix
  <2>4. ASSUME ix.tree[<<>>].childCount = 0 PROVE index.tree[<<>>].childCount = 0
    <3>1. Children(ix.tree[<<>>]) = {} /\ \A q \in DOMAIN ix.tree : Len(q) = 0
      BY <2>2, <2>4, BareHasNothing
    <3>2. index.metadata = NULL
      BY <2>2, <3>1 DEF Ready
    <3>3. KeptOf(ix.tree, 0) = KeptOf(index.tree, 0)
      BY <2>2, <3>2, KeptIs DEF Depth
    <3>4. DOMAIN KeptOf(ix.tree, 0) = {}
      BY <3>1 DEF KeptOf
    <3>5. \A q \in DOMAIN index.tree : ~(Len(q) > 0)
      BY <3>3, <3>4 DEF KeptOf
    <3> DEFINE d == index.tree[<<>>]
    <3>6. DirFits(d) /\ \A n \in Children(d) : n \in Names /\ <<n>> \in DOMAIN index.tree
      <4>1. IsDirectory(index.tree, <<>>)
        BY <2>2 DEF TreeFits
      <4>2. DirFits(d) /\ \A n \in Children(d) : Append(<<>>, n) \in DOMAIN index.tree
        BY <2>2, <4>1 DEF TreeFits, IsDirectory
      <4>3. \A n : Append(<<>>, n) = <<n>>
        OBVIOUS
      <4> QED
        BY <4>2, <4>3, ChildrenAre DEF DirFits
    <3>7. Children(d) = {}
      <4>1. \A n : Len(<<n>>) > 0
        OBVIOUS
      <4> QED
        BY <3>5, <3>6, <4>1
    <3> HIDE DEF d
    <3>8. d.childCount = 0
      BY <3>6, <3>7, FS_EmptySet DEF DirFits
    <3> QED
      BY <3>8 DEF d
  <2> QED
    BY <1>2, <2>2, <2>3, <2>4 DEF TakesOver
<1> QED
  BY <1>1, <1>2

LEMMA RemountKeeps ==
  ASSUME Invariant, HasRoot, Remount
  PROVE  TakesOver(IF given = {} THEN index ELSE Loaded(saved))
<1>1. PICK held \in ToSave, type \in Types, h \in Hosts, ro \in BOOLEAN :
        index' \in FileSetSelect(Loaded(held), type, h, ro)
  BY DEF Remount
<1> DEFINE ix == Loaded(held)
<1>2. Ready(ix)
  BY SavedIs
<1> HIDE DEF ix
<1>3. /\ Kept(index') = Kept(ix)
      /\ \/ index'.metadata = ix.metadata
         \/ ix.tree[<<>>].childCount = 0 /\ index'.metadata \in {"automatic", "custom"}
  BY <1>1, <1>2, TypesFit, Selected DEF ix
<1> QED
  BY <1>3, LoadedIsTaken DEF ix

\* What is mounted next, or set aside, has all files of all filesets with their
\* blocks, whatever the archive had and whoever mounts it; only what the index
\* command exported or imported, with no change since, gives way to what the
\* archive holds.  Changes do not go aside before there is an index, nor after an
\* import over filesets (fsindexIO.c, Cookfs_VfsFini).
THEOREM NextMountHasAll ==
  Events \cap {"asideEmpty", "asideImported"} = {} => (Spec => KeptOverMounts)
<1> SUFFICES ASSUME "asideEmpty" \notin Events, "asideImported" \notin Events
             PROVE  Spec => KeptOverMounts
  OBVIOUS
<1>1. ASSUME Invariant, [Next]_vars, <<saved', readonly', host'>> # <<saved, readonly, host>>
      PROVE  TakesOver(IF given = {} THEN index ELSE Loaded(saved))
  <2>1. HasRoot
    BY <1>1 DEF Invariant
  <2>2. CASE Remount
    BY <1>1, <2>1, <2>2, RemountKeeps
  <2>3. CASE Aside
    BY <1>1, <2>1, <2>3, AsideStep, LoadedIsTaken
  <2>4. CASE UNCHANGED <<saved, readonly, host>>
    BY <1>1, <2>4
  <2>5. Remount \/ Aside \/ UNCHANGED <<saved, readonly, host>>
    BY <1>1 DEF Next, vars, CreateDirectory, CmdSet, CmdSetFails, WriteFile, SaveBlock, UnsetEntry,
                RemoveDirectory, SelectFileset, CmdImport, CmdExport, Change
  <2> QED
    BY <2>2, <2>3, <2>4, <2>5
<1>2. Invariant /\ [Next]_vars =>
        [<<saved', readonly', host'>> # <<saved, readonly, host>> /\ HasRoot' =>
           TakesOver(IF given = {} THEN index ELSE Loaded(saved))]_vars
  BY <1>1
<1> QED
  BY <1>2, FsindexInvariant, PTL DEF Spec, KeptOverMounts

LEMMA ContentPut ==
  ASSUME NEW ix, IndexFits(ix), NEW r, NEW p, Did(ix, r, p, {p})
  PROVE  Content(r) = Put(Content(ix), p, Seen(r.tree, p))
BY ContentAfter

LEMMA MadeExactly ==
  ASSUME Invariant
  PROVE  /\ \A path \in Directories :
              CreateDirectory(path) =>
                Content(index') = Put(Content(index), PathAt(index, path), <<"dir">>)
         /\ \A path \in Commanded, list \in Lists :
              CmdSet(path, list) =>
                Content(index') = Put(Content(index), PathAt(index, path), <<"file", list>>)
         /\ \A path \in Written, list \in Lists :
              WriteFile(path, list) =>
                Content(index') =
                  Put(Content(index), PathAt(index, path), <<"file", [k \in DOMAIN list |-> -1]>>)
<1>1. ASSUME NEW path \in Directories, CreateDirectory(path)
      PROVE  Content(index') = Put(Content(index), PathAt(index, path), <<"dir">>)
  <2> DEFINE p == PathAt(index, path)
  <2>1. /\ path \in Seq(Names) /\ path # <<>> /\ IndexFits(index)
        /\ index' \in SetEntry(index, path, Directory)
    BY <1>1, PathsFit DEF Paths, CreateDirectory, Change, Invariant
  <2>2. Did(index, index', p, {p}) /\ Seen(index'.tree, p) = <<"dir">>
    BY <2>1, DirectoryMade
  <2> QED
    BY <2>1, <2>2, ContentPut
<1>2. ASSUME NEW path \in Commanded, NEW list \in Lists, CmdSet(path, list)
      PROVE  Content(index') = Put(Content(index), PathAt(index, path), <<"file", list>>)
  <2> DEFINE p == PathAt(index, path)
  <2>1. /\ path \in Seq(Names) /\ path # <<>> /\ list \in Seq(Pages \cup {-1}) /\ IndexFits(index)
    BY <1>2, PathsFit, ListsFit DEF Paths, CmdSet, Change, Invariant
  <2>2. IsSet(index, path, list, index')
    BY <1>2 DEF CmdSet, Change, IsSet
  <2>3. Did(index, index', p, {p}) /\ Seen(index'.tree, p) = <<"file", list>>
    BY <2>1, <2>2, FileMade
  <2> QED
    BY <2>1, <2>3, ContentPut
<1>3. ASSUME NEW path \in Written, NEW list \in Lists, WriteFile(path, list)
      PROVE  Content(index') =
               Put(Content(index), PathAt(index, path), <<"file", [k \in DOMAIN list |-> -1]>>)
  <2> DEFINE p == PathAt(index, path)
             none == [k \in DOMAIN list |-> -1]
  <2>1. /\ path \in Seq(Names) /\ path # <<>> /\ none \in Seq({-1}) /\ IndexFits(index)
        /\ index' \in SetEntry(index, path, File(none, FALSE))
    BY <1>3, PathsFit, ListsFit DEF Paths, WriteFile, Change, Invariant
  <2> HIDE DEF none
  <2>2. Did(index, index', p, {p}) /\ Seen(index'.tree, p) = <<"file", none>>
    BY <2>1, FileWritten
  <2>3. Content(index') = Put(Content(index), p, <<"file", none>>)
    BY <2>1, <2>2, ContentPut
  <2> QED
    BY <2>3 DEF none
<1> QED
  BY <1>1, <1>2, <1>3

LEMMA RemovedExactly ==
  ASSUME Invariant, NEW path \in Paths
  PROVE  /\ UnsetEntry(path) =>
              /\ Content(index') = Cut(Content(index), PathAt(index, path))
              /\ \A q \in DOMAIN Content(index) : IsPrefix(PathAt(index, path), q) => q = PathAt(index, path)
         /\ \A recursive \in BOOLEAN :
              RemoveDirectory(path, recursive) =>
                Content(index') = Cut(Content(index), PathAt(index, path))
<1> DEFINE p == PathAt(index, path)
<1>1. path \in Seq(Names) /\ path # <<>>
  BY PathsFit
<1>2. ASSUME UnsetEntry(path)
      PROVE  /\ Content(index') = Cut(Content(index), p)
             /\ \A q \in DOMAIN Content(index) : IsPrefix(p, q) => q = p
  <2> DEFINE recursive == FALSE
  <2>1. IndexFits(index) /\ TreeFits(index.tree) /\ index' \in Unset(index, path, recursive)
    BY <1>2 DEF UnsetEntry, Change, Invariant, IndexFits
  <2>2. ~recursive
    OBVIOUS
  <2> HIDE DEF recursive
  <2>3. Did(index, index', p, {}) /\ p \in DOMAIN index.tree /\ IsEmpty(index.tree[p])
    BY <1>1, <2>1, <2>2, UnsetDid
  <2> HIDE DEF p
  <2>4. Content(index') = Cut(Content(index), p)
    BY <2>1, <2>3, ContentAfter
  <2>5. \A q \in DOMAIN index.tree : IsPrefix(p, q) => q = p
    BY <2>1, <2>3, NothingBelow
  <2>6. DOMAIN Content(index) = DOMAIN index.tree
    BY <2>1, ContentIs
  <2> QED
    BY <2>4, <2>5, <2>6
<1>3. ASSUME NEW recursive \in BOOLEAN, RemoveDirectory(path, recursive)
      PROVE  Content(index') = Cut(Content(index), p)
  <2> DEFINE all == TRUE
  <2>1. IndexFits(index) /\ index' \in Unset(index, path, all)
    BY <1>3 DEF RemoveDirectory, Change, Invariant
  <2> HIDE DEF all
  <2>2. Did(index, index', p, {})
    BY <1>1, <2>1, UnsetDid
  <2> QED
    BY <2>1, <2>2, ContentAfter
<1> QED
  BY <1>2, <1>3

\* Making and deleting files and directories does to the path what was asked
\* and nothing to any other (Cookfs_FsindexSet, Cookfs_FsindexUnset,
\* Cookfs_FsindexUnsetRecursive).
THEOREM CallsAreExact == "asideImported" \notin Events => (Spec => EachCallIsExact)
<1> SUFFICES ASSUME "asideImported" \notin Events PROVE Spec => EachCallIsExact
  OBVIOUS
<1>1. ASSUME Invariant
      PROVE  LET At(path) == index.rootItemVirtual \o path
                 now == Content(index)
                 next == Content(index')
             IN /\ \A path \in Directories :
                     CreateDirectory(path) => next = Put(now, At(path), <<"dir">>)
                /\ \A path \in Commanded, list \in Lists :
                     CmdSet(path, list) => next = Put(now, At(path), <<"file", list>>)
                /\ \A path \in Written, list \in Lists :
                     WriteFile(path, list) =>
                       next = Put(now, At(path), <<"file", [k \in DOMAIN list |-> -1]>>)
                /\ \A path \in Paths :
                     /\ UnsetEntry(path) =>
                          /\ next = Cut(now, At(path))
                          /\ \A q \in DOMAIN now : IsPrefix(At(path), q) => q = At(path)
                     /\ \A recursive \in BOOLEAN :
                          RemoveDirectory(path, recursive) => next = Cut(now, At(path))
  BY <1>1, MadeExactly, RemovedExactly DEF PathAt
<1> QED
  BY <1>1, FsindexInvariant, PTL DEF Spec, EachCallIsExact

-----------------------------------------------------------------------------
(* The cache of pages: the order of the slots is the order of use, a page  *)
(* is cached once, and what is evicted is the oldest of the lightest.      *)

\* A slot has a page exactly when it has an object.
SlotsMatch ==
  \A i \in Slots : cache[i].page = None <=> cache[i].obj = None

\* A client in the middle of a call knows what it asked for and has what it read.
CallsMatch ==
  \A c \in Clients :
    /\ pc[c] # "idle" => want[c] \in [page : PageIndexes, weight : Weights]
    /\ pc[c] = "got" => rc[c] # None

IInv == CacheTypeOK /\ SlotsMatch /\ CallsMatch /\ OneCopyCached /\ AgesRise

-----------------------------------------------------------------------------
\* The slots in use are slots.
LEMMA InUseAreSlots ==
  ASSUME CacheTypeOK PROVE InUse \subseteq Slots /\ cacheSize \in Nat
  BY CacheAssumption DEF CacheTypeOK, InUse, Slots

\* The initial state satisfies the invariant.
LEMMA InitInv == CacheInit => IInv
  BY CacheAssumption DEF CacheInit, IInv, CacheTypeOK, SlotsMatch, CallsMatch, OneCopyCached,
    AgesRise, Slots, InUse, EmptySlot

SlotType == [page : PageIndexes \cup {None}, obj : Objs \cup {None},
             weight : Weights \cup {0}, age : Nat]

\* Moving to the top an entry whose page no other slot has keeps the slots in
\* order, and one copy of each page.
LEMMA ToTop ==
  ASSUME IInv, NEW i \in InUse, NEW e \in SlotType, e.page # None, e.obj # None,
         \A j \in InUse \ {i} : cache[j].page # e.page,
         cache' = MoveToTop(i, e), UNCHANGED cacheSize
  PROVE  /\ cache' \in [Slots -> SlotType]
         /\ SlotsMatch' /\ OneCopyCached' /\ AgesRise'
<1> DEFINE top == Renewed(e)
<1>1. /\ cache \in [Slots -> SlotType] /\ MaxSize \in Nat /\ cacheSize \in Nat
      /\ cacheSize <= MaxSize /\ InUse' = InUse /\ InUse \subseteq Slots
  BY CacheAssumption, InUseAreSlots DEF IInv, CacheTypeOK, SlotType, InUse
<1>2. /\ top \in SlotType /\ top.page = e.page /\ top.obj = e.obj /\ top.age = 0
  BY DEF SlotType, Renewed
<1>3. \A j \in Slots : cache'[j] = IF j = 1 THEN top
                                   ELSE IF j <= i THEN cache[j - 1] ELSE cache[j]
  BY DEF MoveToTop
<1>4. \A j \in Slots : j # 1 /\ j <= i => j - 1 \in InUse /\ j - 1 # i
  BY <1>1 DEF Slots, InUse
<1> HIDE DEF top
<1>5. cache' \in [Slots -> SlotType]
  BY <1>1, <1>2, <1>4 DEF MoveToTop, top
<1>6. SlotsMatch'
  BY <1>1, <1>2, <1>3, <1>4 DEF IInv, SlotsMatch
<1>7. OneCopyCached'
  <2> SUFFICES ASSUME NEW j \in InUse, NEW k \in InUse, j < k,
                      cache'[j].page = cache'[k].page
               PROVE  cache'[j].obj = None /\ cache'[k].obj = None
    BY <1>1 DEF OneCopyCached, InUse
  <2>1. k # 1 /\ j \in Slots /\ k \in Slots
    BY <1>1 DEF InUse
  <2> DEFINE old(x) == IF x <= i THEN x - 1 ELSE x
  <2>2. old(k) \in InUse /\ old(k) # i /\ cache'[k] = cache[old(k)]
    BY <1>1, <1>3, <2>1 DEF InUse
  <2>3. j # 1
    BY <1>2, <1>3, <2>1, <2>2
  <2>4. old(j) \in InUse /\ old(j) # old(k) /\ cache'[j] = cache[old(j)]
    BY <1>1, <1>3, <2>1, <2>3 DEF InUse
  <2> QED
    BY <2>2, <2>4 DEF IInv, OneCopyCached
<1>8. AgesRise'
  <2> SUFFICES ASSUME NEW j \in InUse, NEW k \in InUse, j < k
               PROVE  /\ cache'[j].age <= cache'[k].age
                      /\ cache'[j].obj = None => cache'[k].obj = None
    BY <1>1 DEF AgesRise
  <2>1. k # 1 /\ j \in Slots /\ k \in Slots
    BY <1>1 DEF InUse
  <2> DEFINE old(x) == IF x <= i THEN x - 1 ELSE x
  <2>2. old(k) \in InUse /\ cache'[k] = cache[old(k)] /\ cache'[k].age \in Nat
    BY <1>1, <1>3, <2>1 DEF InUse, SlotType
  <2>3. CASE j = 1
    BY <1>2, <1>3, <2>1, <2>2, <2>3
  <2>4. CASE j # 1
    <3>1. old(j) \in InUse /\ old(j) < old(k) /\ cache'[j] = cache[old(j)]
      BY <1>1, <1>3, <2>1, <2>4 DEF InUse
    <3> QED
      BY <2>2, <3>1 DEF IInv, AgesRise
  <2> QED
    BY <2>3, <2>4
<1> QED
  BY <1>5, <1>6, <1>7, <1>8

\* A page found in a slot in use is in no other.
LEMMA FoundOnce ==
  ASSUME IInv, NEW i \in InUse, cache[i].page \in PageIndexes
  PROVE  /\ cache[i].obj # None
         /\ \A j \in InUse \ {i} : cache[j].page # cache[i].page
  BY CacheAssumption, InUseAreSlots DEF IInv, SlotsMatch, OneCopyCached

-----------------------------------------------------------------------------
\* Each step keeps the invariant.
LEMMA StepInv == IInv /\ [CacheNext]_cacheVars => IInv'
<1> SUFFICES ASSUME IInv, [CacheNext]_cacheVars PROVE IInv'
  OBVIOUS
<1>12. isShared' \in BOOLEAN
  BY DEF CacheNext, IInv, CacheTypeOK, cacheVars
<1> USE CacheAssumption, <1>12
<1>0. InUse \subseteq Slots /\ cacheSize \in Nat
  BY InUseAreSlots DEF IInv
<1>1. ASSUME UNCHANGED cache, UNCHANGED cacheSize, CacheTypeOK', CallsMatch' PROVE IInv'
  BY <1>1 DEF IInv, SlotsMatch, OneCopyCached, AgesRise, InUse
<1>2. ASSUME NEW c \in Clients, NEW page \in PageIndexes, NEW weight \in Weights,
             PageGet(c, page, weight)
      PROVE  IInv'
  <2>0. want' \in [Clients -> [page : PageIndexes, weight : Weights] \cup {None}]
          /\ want' = [want EXCEPT ![c] = [page |-> page, weight |-> weight]]
    BY <1>2 DEF PageGet, IInv, CacheTypeOK
  <2>1. CallsMatch'
    <3>1. \E where \in {"hit", "read", "direct"} : \E o : Go(c, where, o)
      BY <1>2 DEF PageGet
    <3>2. /\ pc \in [Clients -> {"idle", "hit", "read", "direct", "got", "have"}]
          /\ rc \in [Clients -> Objs \cup {None}]
          /\ want \in [Clients -> [page : PageIndexes, weight : Weights] \cup {None}]
          /\ CallsMatch
      BY DEF IInv, CacheTypeOK
    <3>3. [page |-> page, weight |-> weight] \in [page : PageIndexes, weight : Weights]
      OBVIOUS
    <3>4. /\ want'[c] \in [page : PageIndexes, weight : Weights]
          /\ \A d \in Clients \ {c} : want'[d] = want[d]
      BY <2>0, <3>2, <3>3
    <3> QED
      BY <3>1, <3>2, <3>4 DEF CallsMatch, Go
  <2> USE <1>2 DEF PageGet, FoundIn, objects
  <2>2. /\ cacheSize' = cacheSize /\ cacheMaxAge' = cacheMaxAge
        /\ refCount' = refCount /\ pageOf' = pageOf
        /\ want' \in [Clients -> [page : PageIndexes, weight : Weights] \cup {None}]
    BY DEF IInv, CacheTypeOK
  <2>3. CASE UNCHANGED cache
    <3>1. \A i \in InUse : cache[i].obj \in Objs \cup {None}
      <4> SUFFICES ASSUME NEW i \in InUse PROVE cache[i].obj \in Objs \cup {None}
        OBVIOUS
      <4>1. cache[i] \in SlotType
        BY <1>0 DEF IInv, CacheTypeOK, SlotType
      <4> QED
        BY <4>1 DEF SlotType
    <3>2. \E where \in {"hit", "read", "direct"}, o \in Objs \cup {None} :
            Go(c, where, o)
      BY <3>1
    <3>3. rc' \in [Clients -> Objs \cup {None}]
            /\ pc' \in [Clients -> {"idle", "hit", "read", "direct", "got", "have"}]
      BY <3>2 DEF IInv, CacheTypeOK, Go
    <3> QED
      BY <1>1, <2>1, <2>2, <2>3, <3>3 DEF IInv, CacheTypeOK
  <2>4. CASE \E i \in InUse :
               /\ cache[i].page = page
               /\ cache' = MoveToTop(i, Weighing(cache[i], weight))
               /\ Go(c, "hit", cache[i].obj)
    <3> PICK i \in InUse : /\ cache[i].page = page
                          /\ cache' = MoveToTop(i, Weighing(cache[i], weight))
                          /\ Go(c, "hit", cache[i].obj)
      BY <2>4
    <3> DEFINE e == Weighing(cache[i], weight)
    <3>1. e \in SlotType /\ e.page = page /\ e.obj = cache[i].obj /\ cache[i] \in SlotType
      BY <1>0 DEF IInv, CacheTypeOK, SlotType, Weighing
    <3>2. e.page # None /\ e.obj # None
            /\ \A j \in InUse \ {i} : cache[j].page # e.page
      BY <3>1, FoundOnce
    <3>3. /\ cache' \in [Slots -> SlotType]
          /\ SlotsMatch' /\ OneCopyCached' /\ AgesRise'
      BY <2>2, <3>1, <3>2, ToTop
    <3>4. rc' \in [Clients -> Objs \cup {None}]
            /\ pc' \in [Clients -> {"idle", "hit", "read", "direct", "got", "have"}]
      BY <3>1 DEF IInv, CacheTypeOK, SlotType, Go
    <3> QED
      BY <2>1, <2>2, <3>3, <3>4 DEF IInv, CacheTypeOK, SlotType
  <2> QED
    BY <2>3, <2>4
<1>3. ASSUME NEW c \in Clients, TakeReference(c) PROVE IInv'
  BY <1>1, <1>3 DEF TakeReference, IInv, CacheTypeOK, CallsMatch, Go, slots, Incr
<1>4. ASSUME NEW c \in Clients, ReadPage(c) PROVE IInv'
  <2>1. CallsMatch'
    BY <1>4 DEF ReadPage, IInv, CacheTypeOK, CallsMatch, Go, slots, Incr
  <2>2. CacheTypeOK'
    BY <1>4 DEF ReadPage, IInv, CacheTypeOK, CallsMatch, Go, slots, Incr
  <2> QED
    BY <1>1, <1>4, <2>1, <2>2 DEF ReadPage, slots
<1>5. ASSUME NEW c \in Clients, ReadFails(c) PROVE IInv'
  BY <1>1, <1>5 DEF ReadFails, IInv, CacheTypeOK, CallsMatch, Go, slots, objects
<1>6. ASSUME NEW c \in Clients, PageCacheSet(c) PROVE IInv'
  <2> DEFINE page == want[c].page
             new == [page |-> page, obj |-> rc[c], weight |-> want[c].weight,
                     age |-> 0]
  <2>1. /\ want[c] \in [page : PageIndexes, weight : Weights] /\ rc[c] \in Objs
        /\ new \in SlotType /\ new.page # None /\ new.obj # None
    BY <1>6 DEF PageCacheSet, IInv, CacheTypeOK, CallsMatch, SlotType
  <2>2. /\ cacheSize' = cacheSize /\ cacheMaxAge' = cacheMaxAge
        /\ pageOf' = pageOf /\ want' = want /\ Go(c, "have", rc[c])
    BY <1>6 DEF PageCacheSet
  <2>3. refCount' \in [Objs -> Int]
    BY <1>6 DEF PageCacheSet, Store, IInv, CacheTypeOK, Incr, Decr
  <2>4. CallsMatch'
    BY <1>6, <2>2 DEF PageCacheSet, IInv, CacheTypeOK, CallsMatch, Go
  <2>5. ASSUME /\ cache' \in [Slots -> SlotType]
               /\ SlotsMatch' /\ OneCopyCached' /\ AgesRise'
        PROVE  IInv'
    BY <2>1, <2>2, <2>3, <2>4, <2>5 DEF IInv, CacheTypeOK, SlotType, Go
  <2>6. CASE UNCHANGED cache
    BY <2>2, <2>5, <2>6
       DEF IInv, CacheTypeOK, SlotType, SlotsMatch, OneCopyCached, AgesRise, InUse
  <2>7. CASE \E i \in InUse :
               /\ cache[i].page = page
               /\ cache' = MoveToTop(i, Weighing(cache[i], want[c].weight))
    <3> PICK i \in InUse :
               /\ cache[i].page = page
               /\ cache' = MoveToTop(i, Weighing(cache[i], want[c].weight))
      BY <2>7
    <3> DEFINE e == Weighing(cache[i], want[c].weight)
    <3>1. e \in SlotType /\ e.page = page /\ e.obj = cache[i].obj
      BY <1>0, <2>1 DEF IInv, CacheTypeOK, SlotType, Weighing
    <3>2. e.page # None /\ e.obj # None
            /\ \A j \in InUse \ {i} : cache[j].page # e.page
      BY <2>1, <3>1, FoundOnce
    <3> QED
      BY <2>2, <2>5, <3>1, <3>2, ToTop
  <2>8. CASE \E i \in InUse : /\ \A j \in InUse : cache[j].page # page
                             /\ cache' = MoveToTop(i, new)
    BY <2>1, <2>2, <2>5, <2>8, ToTop
  <2> HIDE DEF new, page
  <2> QED
    BY <1>6, <2>6, <2>7, <2>8 DEF PageCacheSet, Store, Absent, FoundIn, new, page
<1>7. ASSUME NEW c \in Clients, Release(c) PROVE IInv'
  BY <1>1, <1>7 DEF Release, IInv, CacheTypeOK, CallsMatch, Go, slots, Decr
<1>8. ASSUME TickTock PROVE IInv'
  <2>1. /\ cacheSize' = cacheSize /\ cacheMaxAge' = cacheMaxAge
        /\ UNCHANGED <<refCount, pageOf, pc, want, rc>> /\ InUse' = InUse
    BY <1>8 DEF TickTock, objects, clients, InUse
  <2>2. \A i \in Slots :
          /\ cache'[i].page = cache[i].page /\ cache'[i].obj = cache[i].obj
          /\ cache'[i].age = IF i \in InUse THEN cache[i].age + 1 ELSE cache[i].age
          /\ cache'[i].weight \in Weights \cup {0}
    BY <1>8 DEF TickTock, IInv, CacheTypeOK, Older
  <2>3. cache' \in [Slots -> SlotType]
    <3>1. \A i \in Slots : Older(cache[i]) \in SlotType
      <4> SUFFICES ASSUME NEW i \in Slots PROVE Older(cache[i]) \in SlotType
        OBVIOUS
      <4>1. cache[i] \in SlotType
        BY DEF IInv, CacheTypeOK, SlotType
      <4> QED
        BY <4>1 DEF Older, SlotType
    <3> QED
      BY <1>8, <3>1 DEF TickTock, IInv, CacheTypeOK, SlotType
  <2>4. SlotsMatch' /\ OneCopyCached' /\ CallsMatch'
    BY <1>0, <2>1, <2>2 DEF IInv, SlotsMatch, OneCopyCached, CallsMatch
  <2>5. AgesRise'
    <3>1. \A i \in InUse : cache[i].age \in Nat
      BY <1>0 DEF IInv, CacheTypeOK
    <3> QED
      BY <1>0, <2>1, <2>2, <3>1 DEF IInv, AgesRise, InUse
  <2> QED
    BY <2>1, <2>3, <2>4, <2>5 DEF IInv, CacheTypeOK, SlotType
<1>9. ASSUME NEW age \in MaxAges, SetMaxAge(age) PROVE IInv'
  BY <1>1, <1>9 DEF SetMaxAge, IInv, CacheTypeOK, CallsMatch, objects, clients
<1>10. ASSUME NEW size \in 0 .. MaxSize, SetCacheSize(size) PROVE IInv'
  <2>1. /\ cacheMaxAge' = cacheMaxAge /\ UNCHANGED <<pageOf, pc, want, rc>>
        /\ cacheSize' = size
        /\ cache' = [i \in Slots |-> EmptySlot]
    BY <1>10 DEF SetCacheSize, clients
  <2>2. refCount' \in [Objs -> Int]
    <3> SUFFICES ASSUME NEW o \in Objs
                 PROVE  Cardinality({i \in Slots : cache[i].obj = o}) \in Int
      BY <1>10 DEF SetCacheSize, IInv, CacheTypeOK
    <3>1. IsFiniteSet(Slots)
      BY FS_Interval DEF Slots
    <3> QED
      BY <3>1, FS_Subset, FS_CardinalityType
  <2>3. InUse' \subseteq Slots
    BY <2>1 DEF InUse, Slots
  <2>4. \A i \in Slots : cache'[i] = EmptySlot
    BY <2>1
  <2> QED
    BY <2>1, <2>2, <2>3, <2>4
       DEF IInv, CacheTypeOK, SlotsMatch, OneCopyCached, AgesRise, CallsMatch, EmptySlot
<1>11. CASE UNCHANGED cacheVars
  BY <1>1, <1>11 DEF IInv, CacheTypeOK, CallsMatch, cacheVars, slots, objects, clients
<1> QED
  BY <1>2, <1>3, <1>4, <1>5, <1>6, <1>7, <1>8, <1>9, <1>10, <1>11
     DEF CacheNext, Settings

\* The invariant holds in every reachable state.
THEOREM CacheInvariant == CacheSpec => []IInv
<1>1. CacheInit => IInv
  BY InitInv
<1>2. IInv /\ [CacheNext]_cacheVars => IInv'
  BY StepInv
<1> QED
  BY <1>1, <1>2, PTL DEF CacheSpec

\* Slots, counts and clients keep their types.
THEOREM TypeCorrect == CacheSpec => []CacheTypeOK
<1>1. IInv => CacheTypeOK
  BY DEF IInv
<1> QED
  BY <1>1, CacheInvariant, PTL

\* No page is cached twice, although clients that miss the same page all read
\* it (Cookfs_PageCacheSet looks for the page once more).
THEOREM OneCopy == CacheSpec => []OneCopyCached
<1>1. IInv => OneCopyCached
  BY DEF IInv
<1> QED
  BY <1>1, CacheInvariant, PTL

\* The slots are in the order of their ages (CookfsPagesPageCacheMoveToTop and
\* Cookfs_PagesTickTock), empty ones at the end.
THEOREM AgesFollowUse == CacheSpec => []AgesRise
<1>1. IInv => AgesRise
  BY DEF IInv
<1> QED
  BY <1>1, CacheInvariant, PTL

\* What Cookfs_PageCacheSet drops is the least recently used of the lightest.
LEMMA DropsOldest ==
  ASSUME IInv, NEW c \in Clients, NEW i \in InUse, PageCacheSet(c),
         cache[i].obj # None, \A j \in InUse : cache'[j].page # cache[i].page,
         NEW k \in InUse \ {i}
  PROVE  \/ cache[k].weight > cache[i].weight
         \/ cache[k].weight = cache[i].weight /\ k < i
<1> USE CacheAssumption
<1>6. InUse \subseteq Slots /\ cacheSize \in Nat
  BY InUseAreSlots DEF IInv
<1>7. \A j \in InUse : cache[j] \in SlotType
  BY <1>6 DEF IInv, CacheTypeOK, SlotType
<1>8. \A j \in InUse : cache[j].weight \in Int /\ cache[j].age \in Nat
  <2> SUFFICES ASSUME NEW j \in InUse
               PROVE  cache[j].weight \in Int /\ cache[j].age \in Nat
    OBVIOUS
  <2>1. cache[j] \in SlotType
    BY <1>7
  <2>2. cache[j].weight \in Weights \cup {0} /\ cache[j].age \in Nat
    BY <2>1 DEF SlotType
  <2>3. Weights \cup {0} \subseteq Int
    BY CacheAssumption
  <2> QED
    BY ONLY <2>2, <2>3
<1>0. /\ InUse \subseteq Slots /\ cacheSize \in Nat
      /\ \A j \in InUse : cache[j] \in SlotType
      /\ \A j \in InUse : cache[j].weight \in Int /\ cache[j].age \in Nat
  BY <1>6, <1>7, <1>8
<1>1. ASSUME NEW v \in InUse, NEW e, cache' = MoveToTop(v, e), i # v PROVE FALSE
  <2> DEFINE to == IF i < v THEN i + 1 ELSE i
  <2>1. i \in Nat /\ v \in Nat /\ i # v /\ i >= 1 /\ v >= 1
    BY <1>0, <1>1 DEF InUse
  <2>2. to \in InUse /\ to \in Slots /\ to # 1
    BY <1>0, <2>1 DEF InUse
  <2>3. \A j \in Slots : cache'[j] = IF j = 1 THEN Renewed(e)
                                     ELSE IF j <= v THEN cache[j - 1] ELSE cache[j]
    BY <1>1 DEF MoveToTop
  <2>4. cache'[to] = cache[i]
    BY <2>1, <2>2, <2>3
  <2> HIDE DEF to
  <2>5. cache'[to].page # cache[i].page
    BY <2>2
  <2> QED
    BY ONLY <2>4, <2>5
<1>2. CASE UNCHANGED cache
  BY <1>2
<1>3. ASSUME NEW v \in InUse, NEW w \in Weights,
             cache' = MoveToTop(v, Weighing(cache[v], w))
      PROVE  FALSE
  <2>1. i = v
    BY <1>1, <1>3
  <2>2. 1 \in InUse /\ 1 \in Slots
    BY <1>0 DEF InUse, Slots
  <2>3. cache'[1].page = cache[v].page
    BY <1>0, <1>3, <2>2 DEF MoveToTop, SlotType, Weighing, Renewed
  <2> QED
    BY <2>1, <2>2, <2>3
<1>4. ASSUME NEW v \in InUse, NEW e, IsVictim(v), cache' = MoveToTop(v, e)
      PROVE  \/ cache[k].weight > cache[i].weight
             \/ cache[k].weight = cache[i].weight /\ k < i
  <2>1. i = v
    BY <1>1, <1>4
  <2>2. Better(i, k)
    BY <1>4, <2>1 DEF IsVictim
  <2>3. cache[k].obj # None
    BY <2>2 DEF Better
  <2>4. k > i => cache[i].age <= cache[k].age
    BY DEF IInv, AgesRise
  <2> QED
    BY <1>0, <2>2, <2>3, <2>4 DEF Better, InUse
<1>5. want[c].weight \in Weights
  BY DEF PageCacheSet, IInv, CacheTypeOK, CallsMatch
<1> QED
  BY <1>2, <1>3, <1>4, <1>5 DEF PageCacheSet, Store

\* The action property, from the invariant before the step.
THEOREM EvictionOrder == CacheSpec => EvictsOldestOfLightest
<1>1. IInv /\ [CacheNext]_cacheVars =>
        [\A c \in Clients, i \in InUse :
           /\ PageCacheSet(c)
           /\ cache[i].obj # None
           /\ \A j \in InUse : cache'[j].page # cache[i].page
           => \A j \in InUse \ {i} :
                \/ cache[j].weight > cache[i].weight
                \/ cache[j].weight = cache[i].weight /\ j < i]_cacheVars
  BY DropsOldest
<1> QED
  BY <1>1, CacheInvariant, PTL DEF CacheSpec, EvictsOldestOfLightest
-----------------------------------------------------------------------------
(* A mount of one thread: who holds a page, and what is in it.               *)

Busy(c) == pc[c] \notin {"idle", "have"}
InSlots(o) == {i \in Slots : cache[i].obj = o}
Holders(o) == {c \in Clients : pc[c] \in {"got", "have"} /\ rc[c] = o}

\* At most one client is in the middle of a call.
OneBusy == \A c, d \in Clients : Busy(c) /\ Busy(d) => c = d

\* The count of an object is the number of those who have it.
Counted ==
  \A o \in Objs : refCount[o] = Cardinality(InSlots(o)) + Cardinality(Holders(o))

\* What a slot has is the page it is found by,
SlotsRight ==
  \A i \in Slots : cache[i].obj # None => pageOf[cache[i].obj] = cache[i].page

\* what a client was given is the page it asked for,
HeldRight ==
  \A c \in Clients :
    pc[c] \in {"got", "have"} => rc[c] \in Objs /\ pageOf[rc[c]] = want[c].page

\* and what it found is still in the cache.
HitRight ==
  \A c \in Clients :
    pc[c] = "hit" => \E i \in Slots : /\ cache[i].obj = rc[c] /\ rc[c] \in Objs
                                      /\ cache[i].page = want[c].page

ThreadInv == OneBusy /\ Counted /\ SlotsRight /\ HeldRight /\ HitRight
OneThreadInv == ~isShared => ThreadInv

\* The sets that are counted are finite.
LEMMA FiniteHolders ==
  ASSUME NEW o
  PROVE  /\ IsFiniteSet(InSlots(o)) /\ Cardinality(InSlots(o)) \in Nat
         /\ IsFiniteSet(Holders(o)) /\ Cardinality(Holders(o)) \in Nat
<1>1. IsFiniteSet(Slots)
  BY CacheAssumption, FS_Interval DEF Slots
<1>2. InSlots(o) \subseteq Slots /\ Holders(o) \subseteq Clients
  BY DEF InSlots, Holders
<1>3. IsFiniteSet(InSlots(o)) /\ IsFiniteSet(Holders(o))
  BY <1>1, <1>2, FS_Subset, CacheAssumption
<1> QED
  BY <1>3, FS_CardinalityType

\* An object that somebody has is counted.
LEMMA CountedIsLive ==
  ASSUME Counted, NEW o \in Objs, InSlots(o) # {} \/ Holders(o) # {}
  PROVE  refCount[o] > 0
BY FiniteHolders, FS_EmptySet DEF Counted

\* Each slot but the first has what a slot had.
LEMMA SlotsShift ==
  ASSUME CacheTypeOK, NEW i \in InUse, NEW e, cache' = MoveToTop(i, e), NEW j \in Slots
  PROVE  /\ j = 1 => cache'[j] = Renewed(e)
         /\ j # 1 /\ j <= i => j - 1 \in Slots /\ j - 1 # i /\ cache'[j] = cache[j - 1]
         /\ j # 1 /\ j > i => j # i /\ cache'[j] = cache[j]
BY CacheAssumption, InUseAreSlots DEF MoveToTop, Slots, InUse

\* Moving an entry to the top takes the object of its slot out, and puts its own in.
LEMMA SlotsCount ==
  ASSUME CacheTypeOK, NEW i \in InUse, NEW e \in SlotType, cache' = MoveToTop(i, e), NEW o
  PROVE  Cardinality(InSlots(o)') =
           Cardinality(InSlots(o)) - (IF cache[i].obj = o THEN 1 ELSE 0)
                                   + (IF e.obj = o THEN 1 ELSE 0)
<1> DEFINE S == InSlots(o) \ {i}
           T == InSlots(o)' \ {1}
           f == [j \in S |-> IF j < i THEN j + 1 ELSE j]
<1>1. i \in Slots /\ 1 \in Slots /\ Slots \subseteq Int /\ cacheSize \in Nat
  BY CacheAssumption, InUseAreSlots DEF InUse, Slots
<1>2. f \in Bijection(S, T)
  <2>1. ASSUME NEW j \in S PROVE f[j] \in T
    <3>1. j \in Slots /\ cache[j].obj = o /\ j # i
      BY DEF InSlots
    <3>2. f[j] \in Slots /\ f[j] # 1
      BY <1>1, <3>1, CacheAssumption, InUseAreSlots DEF Slots, InUse
    <3>3. cache'[f[j]] = cache[j]
      BY <1>1, <3>1, <3>2, SlotsShift DEF Slots
    <3> QED
      BY <3>1, <3>2, <3>3 DEF InSlots
  <2>2. ASSUME NEW j \in S, NEW k \in S, f[j] = f[k] PROVE j = k
    BY <1>1, <2>2 DEF InSlots, Slots
  <2>3. ASSUME NEW k \in T PROVE \E j \in S : f[j] = k
    <3>1. k \in Slots /\ k # 1 /\ cache'[k].obj = o
      BY DEF InSlots
    <3>2. CASE k <= i
      <4>1. k - 1 \in Slots /\ k - 1 # i /\ cache'[k] = cache[k - 1]
        BY <3>1, <3>2, SlotsShift
      <4>2. k - 1 \in S /\ k - 1 < i
        BY <1>1, <3>1, <3>2, <4>1 DEF InSlots
      <4> QED
        BY <1>1, <3>1, <4>2
    <3>3. CASE k > i
      <4>1. k # i /\ cache'[k] = cache[k]
        BY <3>1, <3>3, SlotsShift
      <4>2. k \in S
        BY <3>1, <4>1 DEF InSlots
      <4> QED
        BY <1>1, <3>1, <3>3, <4>2
    <3> QED
      BY <1>1, <3>1, <3>2, <3>3
  <2> HIDE DEF S, T, f
  <2>4. f \in [S -> T]
    BY <2>1 DEF f
  <2>5. f \in Injection(S, T)
    BY <2>2, <2>4 DEF Injection, IsInjective
  <2>6. f \in Surjection(S, T)
    BY <2>3, <2>4 DEF Surjection
  <2> QED
    BY <2>5, <2>6 DEF Bijection
<1>3. IsFiniteSet(S) /\ Cardinality(S) =
        Cardinality(InSlots(o)) - (IF cache[i].obj = o THEN 1 ELSE 0)
  <2>1. i \in InSlots(o) <=> cache[i].obj = o
    BY <1>1 DEF InSlots
  <2> QED
    BY <2>1, FiniteHolders, FS_RemoveElement
<1>4. IsFiniteSet(T) /\ Cardinality(T) = Cardinality(S)
  <2> HIDE DEF S, T, f
  <2> QED
    BY <1>2, <1>3, FS_Bijection DEF ExistsBijection
<1>5. InSlots(o)' = IF e.obj = o THEN T \cup {1} ELSE T
  <2>1. cache'[1] = Renewed(e)
    BY <1>1, SlotsShift
  <2>2. Renewed(e).obj = e.obj
    BY DEF Renewed, SlotType
  <2> QED
    BY <1>1, <2>1, <2>2 DEF InSlots
<1>6. Cardinality(T \cup {1}) = Cardinality(T) + 1
  <2>1. 1 \notin T
    OBVIOUS
  <2> HIDE DEF S, T
  <2> QED
    BY <1>4, <2>1, FS_AddElement
<1>7. Cardinality(InSlots(o)) \in Nat
  BY FiniteHolders
<1> HIDE DEF S, T, f
<1> QED
  BY <1>3, <1>4, <1>5, <1>6, <1>7

\* What the clients hold changes with the one that goes on.
LEMMA HoldersChange ==
  ASSUME CacheTypeOK, NEW c \in Clients, NEW where, NEW obj, Go(c, where, obj), NEW o
  PROVE  Cardinality(Holders(o)') =
           Cardinality(Holders(o)) - (IF c \in Holders(o) THEN 1 ELSE 0)
             + (IF where \in {"got", "have"} /\ obj = o THEN 1 ELSE 0)
<1> DEFINE S == Holders(o) \ {c}
<1>1. IsFiniteSet(S) /\ Cardinality(S) \in Nat
        /\ Cardinality(S) = Cardinality(Holders(o)) - (IF c \in Holders(o) THEN 1 ELSE 0)
  BY FiniteHolders, FS_RemoveElement, FS_CardinalityType
<1>2. Holders(o)' = IF where \in {"got", "have"} /\ obj = o THEN S \cup {c} ELSE S
  BY DEF Holders, Go, CacheTypeOK
<1>3. Cardinality(S \cup {c}) = Cardinality(S) + 1
  <2>1. c \notin S
    OBVIOUS
  <2> HIDE DEF S
  <2> QED
    BY <1>1, <2>1, FS_AddElement
<1> HIDE DEF S
<1> QED
  BY <1>1, <1>2, <1>3

\* While the slots stay as they are, so do the sets of those who have an object.
LEMMA SlotsSame ==
  ASSUME UNCHANGED cache, NEW o
  PROVE  InSlots(o)' = InSlots(o)
BY DEF InSlots

\* A client that goes on in a call of a mount of one thread is the only one.
LEMMA OnlyOneCalls ==
  ASSUME CacheTypeOK, OneBusy, NEW c \in Clients, NEW where, NEW obj, Go(c, where, obj),
         Busy(c) \/ \A d \in Clients \ {c} : pc[d] \in {"idle", "have"}
  PROVE  /\ OneBusy'
         /\ \A d \in Clients \ {c} : pc'[d] \in {"idle", "have"} /\ pc'[d] = pc[d]
                                       /\ rc'[d] = rc[d]
         /\ pc'[c] = where /\ rc'[c] = obj
BY DEF OneBusy, Busy, Go, CacheTypeOK

\* Moving an entry of a slot to the top moves nothing else: no object is taken or
\* dropped, and every slot has the page that goes with its object.
LEMMA MovedIsSame ==
  ASSUME IInv, SlotsRight, NEW i \in InUse, NEW w \in Weights, cache[i].page \in PageIndexes,
         cache' = MoveToTop(i, Weighing(cache[i], w)), UNCHANGED pageOf
  PROVE  /\ \A o : Cardinality(InSlots(o)') = Cardinality(InSlots(o))
         /\ SlotsRight'
         /\ 1 \in Slots /\ cache'[1].obj = cache[i].obj /\ cache'[1].page = cache[i].page
         /\ cache[i].obj \in Objs
<1> DEFINE e == Weighing(cache[i], w)
<1>1. i \in Slots /\ 1 \in Slots /\ cache[i] \in SlotType /\ CacheTypeOK
  BY CacheAssumption, InUseAreSlots DEF IInv, CacheTypeOK, SlotType, InUse, Slots
<1>2. e \in SlotType /\ e.obj = cache[i].obj /\ e.page = cache[i].page
  BY <1>1 DEF Weighing, SlotType
<1>3. Renewed(e).obj = e.obj /\ Renewed(e).page = e.page
  BY <1>2 DEF Renewed, SlotType
<1> HIDE DEF e
<1>4. cache' = MoveToTop(i, e)
  BY DEF e
<1>5. ASSUME NEW o PROVE Cardinality(InSlots(o)') = Cardinality(InSlots(o))
  <2>1. Cardinality(InSlots(o)) \in Nat
    BY FiniteHolders
  <2> QED
    BY <1>1, <1>2, <1>4, <2>1, SlotsCount
<1>6. cache'[1] = Renewed(e)
  BY <1>1, <1>4, SlotsShift
<1>7. SlotsRight'
  <2> SUFFICES ASSUME NEW j \in Slots, cache'[j].obj # None
               PROVE  pageOf[cache'[j].obj] = cache'[j].page
    BY DEF SlotsRight
  <2>1. CASE j = 1
    BY <1>1, <1>2, <1>3, <1>6, <2>1 DEF SlotsRight
  <2>2. CASE j # 1 /\ j <= i
    <3>1. j - 1 \in Slots /\ cache'[j] = cache[j - 1]
      BY <1>1, <1>4, <2>2, SlotsShift
    <3> QED
      BY <3>1 DEF SlotsRight
  <2>3. CASE j # 1 /\ j > i
    <3>1. cache'[j] = cache[j]
      BY <1>1, <1>4, <2>3, SlotsShift
    <3> QED
      BY <3>1 DEF SlotsRight
  <2> QED
    BY <1>1, <2>1, <2>2, <2>3 DEF Slots
<1>8. cache[i].obj \in Objs
  BY <1>1, FoundOnce DEF SlotType
<1> QED
  BY <1>1, <1>2, <1>3, <1>5, <1>6, <1>7, <1>8

\* Storing what a client read: the entry that goes is the one of the slot.
LEMMA StoredIsRight ==
  ASSUME IInv, SlotsRight, NEW i \in InUse, NEW e \in SlotType,
         cache' = MoveToTop(i, e), UNCHANGED pageOf, pageOf[e.obj] = e.page
  PROVE  SlotsRight'
<1>1. i \in Slots /\ 1 \in Slots /\ CacheTypeOK
  BY CacheAssumption, InUseAreSlots DEF IInv, InUse, Slots
<1>2. Renewed(e).obj = e.obj /\ Renewed(e).page = e.page
  BY DEF Renewed, SlotType
<1> SUFFICES ASSUME NEW j \in Slots, cache'[j].obj # None
             PROVE  pageOf[cache'[j].obj] = cache'[j].page
  BY DEF SlotsRight
<1>3. CASE j = 1
  <2>1. cache'[1] = Renewed(e)
    BY <1>1, SlotsShift
  <2> QED
    BY <1>2, <1>3, <2>1
<1>4. CASE j # 1 /\ j <= i
  <2>1. j - 1 \in Slots /\ cache'[j] = cache[j - 1]
    BY <1>1, <1>4, SlotsShift
  <2> QED
    BY <2>1 DEF SlotsRight
<1>5. CASE j # 1 /\ j > i
  <2>1. cache'[j] = cache[j]
    BY <1>1, <1>5, SlotsShift
  <2> QED
    BY <2>1 DEF SlotsRight
<1> QED
  BY <1>1, <1>3, <1>4, <1>5 DEF Slots

\* In a mount of one thread each step keeps the references counted, the slots and
\* the clients right.
LEMMA ThreadStep ==
  ASSUME IInv, ThreadInv, ~isShared, [CacheNext]_cacheVars
  PROVE  ThreadInv'
<1> USE CacheAssumption
<1>0. /\ CacheTypeOK /\ OneBusy /\ Counted /\ SlotsRight /\ HeldRight /\ HitRight
      /\ CallsMatch
  BY DEF ThreadInv, IInv
<1>1. /\ refCount \in [Objs -> Int] /\ pageOf \in [Objs -> PageIndexes \cup {None}]
      /\ \A o : Cardinality(InSlots(o)) \in Nat /\ Cardinality(Holders(o)) \in Nat
  BY <1>0, FiniteHolders DEF CacheTypeOK
<1>2. ASSUME NEW c \in Clients, NEW page \in PageIndexes, NEW weight \in Weights,
             PageGet(c, page, weight)
      PROVE  ThreadInv'
  <2>1. PICK where, obj :
          /\ where \in {"hit", "read", "direct"}
          /\ Go(c, where, obj)
          /\ \/ where # "hit" /\ UNCHANGED cache
             \/ \E i \in InUse :
                  /\ where = "hit" /\ obj = cache[i].obj
                  /\ cache[i].page = page
                  /\ cache' = MoveToTop(i, Weighing(cache[i], weight))
    BY <1>2 DEF PageGet, FoundIn
  <2>2. /\ pc[c] = "idle" /\ (\A d \in Clients \ {c} : pc[d] \in {"idle", "have"})
        /\ UNCHANGED <<refCount, pageOf>>
        /\ want'[c].page = page /\ \A d \in Clients \ {c} : want'[d] = want[d]
    BY <1>0, <1>2 DEF PageGet, MayRun, objects, CacheTypeOK
  <2>3. /\ OneBusy'
        /\ \A d \in Clients \ {c} : pc'[d] \in {"idle", "have"} /\ pc'[d] = pc[d]
                                       /\ rc'[d] = rc[d]
        /\ pc'[c] = where /\ rc'[c] = obj
    BY <1>0, <2>1, <2>2, OnlyOneCalls
  <2>4. \A o : Holders(o)' = Holders(o)
    BY <2>1, <2>2, <2>3 DEF Holders
  <2>5. HeldRight'
    BY <1>0, <2>1, <2>2, <2>3 DEF HeldRight
  <2>6. CASE where # "hit" /\ UNCHANGED cache
    <3>1. Counted' /\ SlotsRight'
      BY <1>0, <2>2, <2>4, <2>6, SlotsSame DEF Counted, SlotsRight
    <3>2. HitRight'
      BY <2>3, <2>6 DEF HitRight
    <3> QED
      BY <2>3, <2>5, <3>1, <3>2 DEF ThreadInv
  <2>7. ASSUME NEW i \in InUse, where = "hit", obj = cache[i].obj, cache[i].page = page,
               cache' = MoveToTop(i, Weighing(cache[i], weight))
        PROVE  ThreadInv'
    <3>1. /\ \A o : Cardinality(InSlots(o)') = Cardinality(InSlots(o))
          /\ SlotsRight'
          /\ 1 \in Slots /\ cache'[1].obj = obj /\ cache'[1].page = page /\ obj \in Objs
      BY <1>0, <2>2, <2>7, MovedIsSame
    <3>2. Counted'
      BY <1>0, <2>2, <2>4, <3>1 DEF Counted
    <3>3. HitRight'
      BY <2>2, <2>3, <3>1 DEF HitRight
    <3> QED
      BY <2>3, <2>5, <3>1, <3>2, <3>3 DEF ThreadInv
  <2> QED
    BY <2>1, <2>6, <2>7
<1>3. ASSUME NEW c \in Clients, TakeReference(c) PROVE ThreadInv'
  <2>1. /\ pc[c] = "hit" /\ Go(c, "have", rc[c]) /\ UNCHANGED <<cache, pageOf, want>>
        /\ refCount' = Incr(refCount, rc[c]) /\ c \notin Holders(rc[c])
        /\ \A o : c \notin Holders(o)
    BY <1>3 DEF TakeReference, slots, Holders
  <2>2. /\ OneBusy'
        /\ \A d \in Clients \ {c} : pc'[d] \in {"idle", "have"} /\ pc'[d] = pc[d]
                                       /\ rc'[d] = rc[d]
        /\ pc'[c] = "have" /\ rc'[c] = rc[c]
    BY <1>0, <2>1, OnlyOneCalls DEF Busy
  <2>3. \A o : Cardinality(Holders(o)') =
                 Cardinality(Holders(o)) + (IF rc[c] = o THEN 1 ELSE 0)
    BY <1>0, <1>1, <2>1, HoldersChange
  <2>4. Counted'
    BY <1>0, <1>1, <2>1, <2>3, SlotsSame DEF Counted, Incr
  <2>5. SlotsRight' /\ HitRight'
    BY <1>0, <2>1, <2>2 DEF SlotsRight, HitRight
  <2>6. rc[c] \in Objs /\ pageOf[rc[c]] = want[c].page
    BY <1>0, <2>1 DEF HitRight, SlotsRight
  <2>7. HeldRight'
    BY <1>0, <2>1, <2>2, <2>6 DEF HeldRight
  <2> QED
    BY <2>2, <2>4, <2>5, <2>7 DEF ThreadInv
<1>4. ASSUME NEW c \in Clients, ReadPage(c) PROVE ThreadInv'
  <2>1. PICK o \in Objs : /\ refCount[o] = 0 /\ refCount' = Incr(refCount, o)
                          /\ pageOf' = [pageOf EXCEPT ![o] = want[c].page]
                          /\ Go(c, IF pc[c] = "read" THEN "got" ELSE "have", o)
    BY <1>4 DEF ReadPage
  <2>2. /\ pc[c] \in {"read", "direct"} /\ UNCHANGED <<cache, want>>
        /\ \A x : c \notin Holders(x)
    BY <1>4 DEF ReadPage, slots, Holders
  <2>3. /\ OneBusy'
        /\ \A d \in Clients \ {c} : pc'[d] \in {"idle", "have"} /\ pc'[d] = pc[d]
                                       /\ rc'[d] = rc[d]
        /\ pc'[c] \in {"got", "have"} /\ rc'[c] = o
    BY <1>0, <2>1, <2>2, OnlyOneCalls DEF Busy
  <2>4. \A x : Cardinality(Holders(x)') =
                 Cardinality(Holders(x)) + (IF o = x THEN 1 ELSE 0)
    BY <1>0, <1>1, <2>1, <2>2, HoldersChange
  <2>5. Counted'
    BY <1>0, <1>1, <2>1, <2>2, <2>4, SlotsSame DEF Counted, Incr
  <2>6. InSlots(o) = {} /\ Holders(o) = {}
    BY <1>0, <2>1, CountedIsLive
  <2>7. \A x \in Objs \ {o} : pageOf'[x] = pageOf[x]
    BY <1>1, <2>1
  <2>8. SlotsRight'
    <3> SUFFICES ASSUME NEW i \in Slots, cache[i].obj # None
                 PROVE  pageOf'[cache[i].obj] = cache[i].page
      BY <2>2 DEF SlotsRight
    <3>1. cache[i].obj \in Objs
      <4>1. cache[i] \in SlotType
        BY <1>0 DEF CacheTypeOK, SlotType
      <4> QED
        BY <4>1 DEF SlotType
    <3>2. cache[i].obj # o
      BY <2>6 DEF InSlots
    <3> QED
      BY <1>0, <2>7, <3>1, <3>2 DEF SlotsRight
  <2>9. HeldRight'
    <3>1. \A d \in Clients \ {c} : pc[d] \in {"got", "have"} => rc[d] # o
      BY <2>6 DEF Holders
    <3>2. pageOf'[o] = want[c].page
      BY <1>1, <2>1
    <3> QED
      BY <1>0, <2>1, <2>2, <2>3, <2>7, <3>1, <3>2 DEF HeldRight
  <2>10. HitRight'
    BY <2>3 DEF HitRight
  <2> QED
    BY <2>3, <2>5, <2>8, <2>9, <2>10 DEF ThreadInv
<1>5. ASSUME NEW c \in Clients, ReadFails(c) PROVE ThreadInv'
  <2>1. /\ pc[c] \in {"read", "direct"} /\ Go(c, "idle", None)
        /\ UNCHANGED <<cache, refCount, pageOf>>
        /\ \A d \in Clients \ {c} : want'[d] = want[d]
    BY <1>0, <1>5 DEF ReadFails, slots, objects, CacheTypeOK
  <2>2. /\ OneBusy'
        /\ \A d \in Clients \ {c} : pc'[d] \in {"idle", "have"} /\ pc'[d] = pc[d]
                                       /\ rc'[d] = rc[d]
        /\ pc'[c] = "idle"
    BY <1>0, <2>1, OnlyOneCalls DEF Busy
  <2>3. \A o : Holders(o)' = Holders(o)
    BY <2>1, <2>2 DEF Holders
  <2> QED
    BY <1>0, <2>1, <2>2, <2>3, SlotsSame
       DEF ThreadInv, Counted, SlotsRight, HeldRight, HitRight
<1>6. ASSUME NEW c \in Clients, PageCacheSet(c) PROVE ThreadInv'
  <2>1. /\ pc[c] = "got" /\ Go(c, "have", rc[c]) /\ UNCHANGED <<cacheSize, pageOf, want>>
    BY <1>6 DEF PageCacheSet
  <2>2. /\ OneBusy'
        /\ \A d \in Clients \ {c} : pc'[d] \in {"idle", "have"} /\ pc'[d] = pc[d]
                                       /\ rc'[d] = rc[d]
        /\ pc'[c] = "have" /\ rc'[c] = rc[c]
    BY <1>0, <2>1, OnlyOneCalls DEF Busy
  <2>3. \A o : Holders(o)' = Holders(o)
    BY <2>1, <2>2 DEF Holders
  <2>4. HeldRight' /\ HitRight'
    BY <1>0, <2>1, <2>2 DEF HeldRight, HitRight
  <2>5. /\ want[c] \in [page : PageIndexes, weight : Weights]
        /\ rc[c] \in Objs /\ pageOf[rc[c]] = want[c].page
    BY <1>0, <2>1 DEF CallsMatch, HeldRight
  <2>6. CASE UNCHANGED <<cache, refCount>>
    BY <1>0, <2>1, <2>2, <2>3, <2>4, <2>6, SlotsSame
       DEF ThreadInv, Counted, SlotsRight
  <2>7. ASSUME NEW i \in InUse, cache[i].page = want[c].page, UNCHANGED refCount,
               cache' = MoveToTop(i, Weighing(cache[i], want[c].weight))
        PROVE  ThreadInv'
    <3>1. (\A o : Cardinality(InSlots(o)') = Cardinality(InSlots(o))) /\ SlotsRight'
      BY <1>0, <2>1, <2>5, <2>7, MovedIsSame
    <3>2. Counted'
      BY <1>0, <2>3, <2>7, <3>1 DEF Counted
    <3> QED
      BY <2>2, <2>4, <3>1, <3>2 DEF ThreadInv
  <2>8. ASSUME NEW i \in InUse, Store(c, i) PROVE ThreadInv'
    <3> DEFINE e == [page |-> want[c].page, obj |-> rc[c],
                     weight |-> want[c].weight, age |-> 0]
    <3>1. e \in SlotType /\ e.obj = rc[c] /\ e.page = want[c].page
      BY <2>5 DEF SlotType
    <3>2. cache' = MoveToTop(i, e) /\ refCount' = Incr(Decr(refCount, cache[i].obj), rc[c])
      BY <2>8 DEF Store
    <3> HIDE DEF e
    <3>3. SlotsRight'
      BY <1>0, <2>1, <2>5, <3>1, <3>2, StoredIsRight
    <3>4. \A o : Cardinality(InSlots(o)') =
                   Cardinality(InSlots(o)) - (IF cache[i].obj = o THEN 1 ELSE 0)
                                           + (IF rc[c] = o THEN 1 ELSE 0)
      BY <1>0, <3>1, <3>2, SlotsCount
    <3>5. \A o \in Objs :
            refCount'[o] = refCount[o] - (IF cache[i].obj = o THEN 1 ELSE 0)
                                       + (IF rc[c] = o THEN 1 ELSE 0)
      BY <1>1, <3>2 DEF Incr, Decr
    <3>6. Counted'
      BY <1>0, <1>1, <2>3, <3>4, <3>5 DEF Counted
    <3> QED
      BY <2>2, <2>4, <3>3, <3>6 DEF ThreadInv
  <2> QED
    BY <1>6, <2>6, <2>7, <2>8 DEF PageCacheSet, FoundIn
<1>7. ASSUME NEW c \in Clients, Release(c) PROVE ThreadInv'
  <2>1. /\ pc[c] = "have" /\ Go(c, "idle", None) /\ UNCHANGED <<cache, pageOf>>
        /\ refCount' = Decr(refCount, rc[c]) /\ rc[c] \in Objs
        /\ \A d \in Clients \ {c} : pc[d] \in {"idle", "have"}
        /\ \A d \in Clients \ {c} : want'[d] = want[d]
    BY <1>0, <1>7 DEF Release, MayRun, slots, HeldRight, CacheTypeOK
  <2>2. /\ OneBusy'
        /\ \A d \in Clients \ {c} : pc'[d] \in {"idle", "have"} /\ pc'[d] = pc[d]
                                       /\ rc'[d] = rc[d]
        /\ pc'[c] = "idle"
    BY <1>0, <2>1, OnlyOneCalls
  <2>3. \A o : c \in Holders(o) <=> rc[c] = o
    BY <2>1 DEF Holders
  <2>4. \A o : Cardinality(Holders(o)') =
                 Cardinality(Holders(o)) - (IF rc[c] = o THEN 1 ELSE 0)
    BY <1>0, <1>1, <2>1, <2>3, HoldersChange
  <2>5. \A o \in Objs : refCount'[o] = refCount[o] - (IF rc[c] = o THEN 1 ELSE 0)
    BY <1>1, <2>1 DEF Decr
  <2>6. Counted'
    BY <1>0, <1>1, <2>1, <2>4, <2>5, SlotsSame DEF Counted
  <2> QED
    BY <1>0, <2>1, <2>2, <2>6 DEF ThreadInv, SlotsRight, HeldRight, HitRight
<1>8. CASE Settings
  <2>1. /\ \A c \in Clients : pc[c] \in {"idle", "have"}
        /\ UNCHANGED <<pageOf, pc, want, rc>>
    BY <1>8 DEF Settings, TickTock, SetMaxAge, SetCacheSize, objects, clients
  <2>2. OneBusy' /\ HeldRight' /\ HitRight' /\ \A o : Holders(o)' = Holders(o)
    BY <1>0, <2>1 DEF OneBusy, Busy, HeldRight, HitRight, Holders
  <2>3. CASE TickTock
    <3>1. \A i \in Slots : cache'[i].page = cache[i].page /\ cache'[i].obj = cache[i].obj
      BY <2>3 DEF TickTock, Older
    <3>2. \A o : InSlots(o)' = InSlots(o)
      BY <3>1 DEF InSlots
    <3>3. UNCHANGED refCount
      BY <2>3 DEF TickTock, objects
    <3> QED
      BY <1>0, <2>1, <2>2, <3>1, <3>2, <3>3 DEF ThreadInv, Counted, SlotsRight
  <2>4. ASSUME NEW age \in MaxAges, SetMaxAge(age) PROVE ThreadInv'
    BY <1>0, <2>1, <2>2, <2>4, SlotsSame
       DEF SetMaxAge, objects, ThreadInv, Counted, SlotsRight
  <2>5. ASSUME NEW size \in 0 .. MaxSize, SetCacheSize(size) PROVE ThreadInv'
    <3>1. \A i \in Slots : cache'[i].obj = None
      BY <2>5 DEF SetCacheSize, EmptySlot
    <3>2. \A o \in Objs : InSlots(o)' = {}
      BY <3>1 DEF InSlots
    <3>3. \A o \in Objs : refCount'[o] = refCount[o] - Cardinality(InSlots(o))
      BY <2>5 DEF SetCacheSize, InSlots
    <3>4. Counted'
      <4> SUFFICES ASSUME NEW o \in Objs
                   PROVE  refCount'[o] = Cardinality(InSlots(o)') + Cardinality(Holders(o)')
        BY DEF Counted
      <4>1. Cardinality(InSlots(o)') = 0
        BY <3>2, FS_EmptySet
      <4>2. refCount[o] = Cardinality(InSlots(o)) + Cardinality(Holders(o))
        BY <1>0 DEF Counted
      <4> QED
        BY <1>1, <2>2, <3>3, <4>1, <4>2
    <3> QED
      BY <2>2, <3>1, <3>4 DEF ThreadInv, SlotsRight
  <2> QED
    BY <1>8, <2>3, <2>4, <2>5 DEF Settings
<1>9. CASE UNCHANGED cacheVars
  <2>1. UNCHANGED <<cache, refCount, pageOf, pc, want, rc>>
    BY <1>9 DEF cacheVars, slots, objects, clients
  <2>2. \A o : Holders(o)' = Holders(o)
    BY <2>1 DEF Holders
  <2> QED
    BY <1>0, <2>1, <2>2, SlotsSame
       DEF ThreadInv, OneBusy, Busy, Counted, SlotsRight, HeldRight, HitRight
<1> QED
  BY <1>2, <1>3, <1>4, <1>5, <1>6, <1>7, <1>8, <1>9 DEF CacheNext

\* No count, slot or client of a mount of one thread goes wrong.
LEMMA ThreadInvariant == CacheSpec => [](IInv /\ OneThreadInv)
<1>1. CacheInit => OneThreadInv
  <2> SUFFICES ASSUME CacheInit PROVE ThreadInv
    BY DEF OneThreadInv
  <2>1. (\A c \in Clients : pc[c] = "idle") /\ \A i \in Slots : cache[i].obj = None
    BY DEF CacheInit, EmptySlot
  <2>2. \A o \in Objs : refCount[o] = 0 /\ InSlots(o) = {} /\ Holders(o) = {}
    BY <2>1, CacheAssumption DEF CacheInit, InSlots, Holders
  <2>3. Counted
    BY <2>2, FS_EmptySet DEF Counted
  <2>4. OneBusy /\ SlotsRight /\ HeldRight /\ HitRight
    BY <2>1 DEF OneBusy, Busy, SlotsRight, HeldRight, HitRight
  <2> QED
    BY <2>3, <2>4 DEF ThreadInv
<1>2. IInv /\ OneThreadInv /\ [CacheNext]_cacheVars => OneThreadInv'
  <2>1. [CacheNext]_cacheVars => UNCHANGED isShared
    BY DEF CacheNext, cacheVars
  <2> QED
    BY <2>1, ThreadStep DEF OneThreadInv
<1> QED
  BY <1>1, <1>2, CacheInvariant, PTL DEF CacheSpec

\* The cache is sound (Cookfs_PageCacheSet, Cookfs_PageObjIncrRefCount): in a mount
\* of one thread the count of an object is the number of its slots and holders, and
\* who was given a page has that page until it is given back.
THEOREM CacheIsSound == CacheSpec => []CacheSound
<1>1. IInv /\ OneThreadInv => CacheSound
  <2> SUFFICES ASSUME IInv, OneThreadInv PROVE CacheSound
    OBVIOUS
  <2>1. RefsCounted
    BY DEF OneThreadInv, ThreadInv, Counted, RefsCounted, InSlots, Holders
  <2>2. PageStays
    <3> SUFFICES ASSUME NEW c \in Clients, ~isShared, pc[c] = "have"
                 PROVE  refCount[rc[c]] > 0 /\ pageOf[rc[c]] = want[c].page
      BY DEF PageStays
    <3>1. rc[c] \in Objs /\ pageOf[rc[c]] = want[c].page /\ Counted
      BY DEF OneThreadInv, ThreadInv, HeldRight
    <3>2. c \in Holders(rc[c])
      BY DEF Holders
    <3> QED
      BY <3>1, <3>2, CountedIsLive
  <2> QED
    BY <2>1, <2>2 DEF IInv, CacheSound
<1> QED
  BY <1>1, ThreadInvariant, PTL

\* What the cache of a mount of one thread finds under a page is that page, and is
\* not free (CookfsPagesPageCacheGet).
THEOREM FoundIsThatPage == CacheSpec => []CachedIsThatPage
<1>1. IInv /\ OneThreadInv => CachedIsThatPage
  <2> SUFFICES ASSUME IInv, OneThreadInv, NEW i \in InUse, ~isShared, cache[i].obj # None
               PROVE  refCount[cache[i].obj] > 0 /\ pageOf[cache[i].obj] = cache[i].page
    BY DEF CachedIsThatPage
  <2>1. i \in Slots /\ cache[i] \in SlotType
    BY InUseAreSlots DEF IInv, CacheTypeOK, SlotType
  <2>2. cache[i].obj \in Objs
    BY <2>1 DEF SlotType
  <2>3. i \in InSlots(cache[i].obj)
    BY <2>1 DEF InSlots
  <2>4. Counted /\ SlotsRight
    BY DEF OneThreadInv, ThreadInv
  <2>5. refCount[cache[i].obj] > 0
    BY <2>2, <2>3, <2>4, CountedIsLive
  <2> QED
    BY <2>1, <2>4, <2>5 DEF SlotsRight
<1> QED
  BY <1>1, ThreadInvariant, PTL
=============================================================================
