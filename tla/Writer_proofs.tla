---------------------------- MODULE Writer_proofs ----------------------------
(* Proofs about Writer: the buffers keep to their limit, pending files have   *)
(* their own buffer, and every file keeps its content (FileStore).            *)
EXTENDS Writer, FiniteSetTheorems, SequenceTheorems, WellFoundedInduction, TLAPS

Data == Seq(Byte)
Buffers == [file : Files, data : Contents \cup {NULL}, length : Nat, alive : BOOLEAN]
Places == [page : Int, offset : Nat]
Spans == [page : Nat, offset : Nat, size : Int]

-----------------------------------------------------------------------------
(* Numbers and recursion.                                                  *)

\* Of a set of natural numbers one is the least.
LEMMA Least ==
  ASSUME NEW T, T \subseteq Nat, T # {}
  PROVE  \E n \in T : \A m \in T : n <= m
<1> DEFINE Initial == {0 .. n : n \in T}
<1>1. IsWellFoundedOn(StrictSubsetOrdering(Nat), FiniteSubsetsOf(Nat))
  BY FS_StrictSubsetOrderingWellFounded
<1>2. Initial \subseteq FiniteSubsetsOf(Nat)
  <2> SUFFICES ASSUME NEW n \in T PROVE 0 .. n \in FiniteSubsetsOf(Nat)
    OBVIOUS
  <2> QED
    BY FS_Interval, 0 \in Int, n \in Int DEF FiniteSubsetsOf
<1>3. Initial # {}
  OBVIOUS
<1> HIDE DEF Initial
<1>4. PICK B \in Initial : \A C \in Initial : ~(<<C, B>> \in StrictSubsetOrdering(Nat))
  BY <1>1, <1>2, <1>3, WFMin
<1>5. PICK n \in T : B = 0 .. n
  BY <1>4 DEF Initial
<1>6. ASSUME NEW m \in T, m < n
      PROVE FALSE
  <2>1. 0 .. m \in Initial
    BY DEF Initial
  <2>2. 0 .. m \subseteq 0 .. n /\ 0 .. m # 0 .. n /\ 0 .. n \subseteq Nat
    BY <1>6
  <2>3. <<0 .. m, 0 .. n>> \in StrictSubsetOrdering(Nat)
    BY <2>2 DEF StrictSubsetOrdering
  <2> QED
    BY <1>4, <1>5, <2>1, <2>3
<1> QED
  BY <1>6

\* What holds at the start and goes on from each number to the next holds up to
\* any: the least number where it does not hold has none before it.
LEMMA Inductive ==
  ASSUME NEW n \in Nat, NEW T, 0 \in T, \A k \in 1 .. n : k - 1 \in T => k \in T
  PROVE  0 .. n \subseteq T
<1> SUFFICES ASSUME (0 .. n) \ T # {} PROVE FALSE
  OBVIOUS
<1> DEFINE Out == (0 .. n) \ T
<1>1. Out \subseteq Nat /\ Out # {}
  OBVIOUS
<1> HIDE DEF Out
<1>2. PICK m \in Out : \A k \in Out : m <= k
  BY <1>1, Least
<1>3. m \in 1 .. n /\ m - 1 \in 0 .. n
  BY <1>2 DEF Out
<1>4. m - 1 \in T
  BY <1>2, <1>3 DEF Out
<1> QED
  BY <1>2, <1>3, <1>4 DEF Out

\* f goes from v on by steps.
Recurses(f, n, V, v, step) ==
  f \in [0 .. n -> V] /\ f[0] = v /\ \A k \in 1 .. n : f[k] = step[k][f[k - 1]]

\* A function is defined from one number to the next.
LEMMA Recursion ==
  ASSUME NEW n \in Nat, NEW V, NEW v \in V, NEW step \in [1 .. n -> [V -> V]]
  PROVE  \E f : Recurses(f, n, V, v, step)
<1> DEFINE T == {m \in 0 .. n : \E f : Recurses(f, m, V, v, step)}
<1>1. 0 \in T
  <2>1. Recurses([k \in 0 .. 0 |-> v], 0, V, v, step)
    BY DEF Recurses
  <2> QED
    BY <2>1
<1>2. \A m \in 1 .. n : m - 1 \in T => m \in T
  <2> SUFFICES ASSUME NEW m \in 1 .. n, m - 1 \in T PROVE m \in T
    OBVIOUS
  <2>1. PICK f : Recurses(f, m - 1, V, v, step)
    OBVIOUS
  <2> DEFINE g == [k \in 0 .. m |-> IF k = m THEN step[m][f[m - 1]] ELSE f[k]]
  <2>2. /\ m - 1 \in 0 .. m - 1 /\ m # 0 /\ 0 \in 0 .. m - 1
        /\ \A k \in 0 .. m : k = m \/ k \in 0 .. m - 1
        /\ \A k \in 1 .. m : k - 1 \in 0 .. m /\ k - 1 # m /\ k \in 0 .. m /\ (k = m \/ k \in 1 .. m - 1)
    OBVIOUS
  <2>3. f[m - 1] \in V /\ step[m] \in [V -> V]
    BY <2>1, <2>2 DEF Recurses
  <2>4. g \in [0 .. m -> V]
    BY <2>1, <2>2, <2>3 DEF Recurses
  <2>5. g[0] = v
    BY <2>1, <2>2 DEF Recurses
  <2>6. ASSUME NEW k \in 1 .. m PROVE g[k] = step[k][g[k - 1]]
    BY <2>1, <2>2 DEF Recurses
  <2>7. Recurses(g, m, V, v, step)
    BY <2>4, <2>5, <2>6 DEF Recurses
  <2> HIDE DEF g
  <2> QED
    BY <2>7
<1>3. n \in T
  <2> HIDE DEF T
  <2>1. 0 .. n \subseteq T
    BY <1>1, <1>2, Inductive
  <2> QED
    BY <2>1
<1> QED
  BY <1>3

-----------------------------------------------------------------------------
(* Sums.                                                                   *)

LEMMA TotalSteps ==
  ASSUME NEW s \in Seq(Nat)
  PROVE  \E f \in [0 .. Len(s) -> Nat] :
           f[0] = 0 /\ (\A k \in 1 .. Len(s) : f[k] = f[k - 1] + s[k]) /\ Total(s) = f[Len(s)]
<1> DEFINE n == Len(s)
           step == [k \in 1 .. n |-> [x \in Nat |-> x + s[k]]]
           Body(f) == [k \in 0 .. n |-> IF k = 0 THEN 0 ELSE f[k - 1] + s[k]]
<1>1. n \in Nat /\ \A k \in 1 .. n : s[k] \in Nat
  BY LenProperties, ElementOfSeq
<1> HIDE DEF n
<1>2. step \in [1 .. n -> [Nat -> Nat]]
  BY <1>1
<1> HIDE DEF step
<1>3. PICK g \in [0 .. n -> Nat] : g[0] = 0 /\ \A k \in 1 .. n : g[k] = step[k][g[k - 1]]
  <2>1. \E g : Recurses(g, n, Nat, 0, step)
    BY <1>1, <1>2, Recursion, 0 \in Nat, Zenon
  <2> QED
    BY <2>1 DEF Recurses
<1>4. g = Body(g)
  <2>1. ASSUME NEW k \in 0 .. n PROVE g[k] = IF k = 0 THEN 0 ELSE g[k - 1] + s[k]
    <3>1. CASE k # 0
      <4>1. k \in 1 .. n /\ k - 1 \in 0 .. n
        BY <3>1, <1>1
      <4>2. g[k - 1] \in Nat
        BY <4>1
      <4> QED
        BY <4>1, <4>2, <1>3, <3>1 DEF step
    <3> QED
      BY <3>1, <1>3
  <2> QED
    BY <2>1
<1> DEFINE f == CHOOSE f : f = Body(f)
<1>5. f = Body(f)
  <2> HIDE DEF Body
  <2> QED
    BY <1>4
<1>6. Total(s) = f[n]
  BY DEF Total, n
<1> HIDE DEF f
<1>7. f[0] = 0 /\ \A k \in 1 .. n : f[k] = f[k - 1] + s[k]
  BY <1>1, <1>5
<1>8. f \in [0 .. n -> Nat]
  <2> DEFINE T == {k \in 0 .. n : f[k] \in Nat}
  <2>0. 0 \in T
    BY <1>1, <1>7
  <2>1. ASSUME NEW k \in 1 .. n, k - 1 \in T PROVE k \in T
    <3>1. f[k] = f[k - 1] + s[k] /\ s[k] \in Nat /\ f[k - 1] \in Nat /\ k \in 0 .. n
      BY <1>1, <1>7, <2>1
    <3>2. f[k] \in Nat
      BY <3>1
    <3> QED
      BY <3>1, <3>2
  <2> HIDE DEF T
  <2>2. 0 .. n \subseteq T
    BY <1>1, <2>0, <2>1, Inductive
  <2>3. \A k \in 0 .. n : f[k] \in Nat
    BY <2>2 DEF T
  <2>4. f = [k \in 0 .. n |-> f[k]]
    BY <1>5
  <2> QED
    BY <2>3, <2>4
<1> QED
  BY <1>6, <1>7, <1>8 DEF n

LEMMA TotalNat ==
  ASSUME NEW s \in Seq(Nat)
  PROVE  Total(s) \in Nat
<1>1. Len(s) \in 0 .. Len(s)
  BY LenProperties
<1> QED
  BY <1>1, TotalSteps

LEMMA TotalAppend ==
  ASSUME NEW s \in Seq(Nat), NEW x \in Nat
  PROVE  Total(Append(s, x)) = Total(s) + x
<1> DEFINE n == Len(s)
           t == Append(s, x)
<1>1. n \in Nat /\ t \in Seq(Nat) /\ Len(t) = n + 1 /\ t[n + 1] = x
      /\ \A k \in 1 .. n : t[k] = s[k]
  BY LenProperties, AppendProperties
<1> HIDE DEF t
<1>2. PICK f \in [0 .. n -> Nat] :
        f[0] = 0 /\ (\A k \in 1 .. n : f[k] = f[k - 1] + s[k]) /\ Total(s) = f[n]
  BY TotalSteps
<1>3. PICK g \in [0 .. n + 1 -> Nat] :
        g[0] = 0 /\ (\A k \in 1 .. n + 1 : g[k] = g[k - 1] + t[k]) /\ Total(t) = g[n + 1]
  BY <1>1, TotalSteps
<1> HIDE DEF n
<1>4. \A k \in 0 .. n : f[k] = g[k]
  <2> DEFINE T == {k \in 0 .. n : f[k] = g[k]}
  <2>1. 0 \in T
    BY <1>1, <1>2, <1>3
  <2>2. ASSUME NEW k \in 1 .. n, k - 1 \in T PROVE k \in T
    <3>1. k \in 0 .. n /\ k \in 1 .. n + 1 /\ f[k - 1] = g[k - 1]
      BY <1>1, <2>2
    <3>2. f[k] = f[k - 1] + s[k] /\ g[k] = g[k - 1] + t[k] /\ t[k] = s[k]
      BY <1>1, <1>2, <1>3, <3>1
    <3> QED
      BY <3>1, <3>2
  <2> HIDE DEF T
  <2>3. 0 .. n \subseteq T
    BY <1>1, <2>1, <2>2, Inductive
  <2> QED
    BY <2>3 DEF T
<1>5. g[n + 1] = g[n] + x
  <2>1. n + 1 \in 1 .. n + 1 /\ (n + 1) - 1 = n
    BY <1>1
  <2> QED
    BY <1>1, <1>3, <2>1
<1> QED
  BY <1>1, <1>2, <1>3, <1>4, <1>5 DEF t

\* Without one of them the sum is not larger.
LEMMA TotalWithout ==
  ASSUME NEW s \in Seq(Nat), NEW j \in 1 .. Len(s), NEW t \in Seq(Nat), Len(t) = Len(s) - 1,
         \A k \in 1 .. Len(t) : t[k] = IF k < j THEN s[k] ELSE s[k + 1]
  PROVE  Total(t) <= Total(s)
<1> DEFINE n == Len(s)
<1>1. n \in Nat /\ n - 1 \in Nat /\ \A k \in 1 .. n : s[k] \in Nat
  BY LenProperties, ElementOfSeq
<1>2. PICK f \in [0 .. n -> Nat] :
        f[0] = 0 /\ (\A k \in 1 .. n : f[k] = f[k - 1] + s[k]) /\ Total(s) = f[n]
  BY TotalSteps
<1>3. PICK g \in [0 .. n - 1 -> Nat] :
        g[0] = 0 /\ (\A k \in 1 .. n - 1 : g[k] = g[k - 1] + t[k]) /\ Total(t) = g[n - 1]
  BY TotalSteps
<1> HIDE DEF n
<1> DEFINE T == {k \in 0 .. n - 1 : (k < j => g[k] <= f[k]) /\ (k + 1 >= j => g[k] <= f[k + 1])}
<1>4. j \in 1 .. n /\ \A k \in 1 .. n - 1 : t[k] = IF k < j THEN s[k] ELSE s[k + 1]
  BY DEF n
<1>5. 0 \in T
  <2>1. 0 \in 0 .. n - 1 /\ 1 \in 1 .. n /\ 1 \in 0 .. n
    BY <1>1, <1>4
  <2>2. f[1] \in Nat
    BY <2>1, <1>2
  <2> QED
    BY <1>2, <1>3, <1>4, <2>1, <2>2
<1>6. \A k \in 1 .. n - 1 : k - 1 \in T => k \in T
  <2> SUFFICES ASSUME NEW k \in 1 .. n - 1, k - 1 \in T PROVE k \in T
    OBVIOUS
  <2>1. /\ k \in 0 .. n /\ k - 1 \in 0 .. n /\ k + 1 \in 0 .. n /\ k \in 1 .. n /\ k + 1 \in 1 .. n
        /\ k - 1 \in 0 .. n - 1 /\ k \in 0 .. n - 1 /\ (k + 1) - 1 = k /\ (k - 1) + 1 = k
    BY SMTT(30), <1>1
  <2>2. /\ f[k - 1] \in Nat /\ f[k] \in Nat /\ f[k + 1] \in Nat /\ g[k - 1] \in Nat /\ g[k] \in Nat
        /\ s[k] \in Nat /\ s[k + 1] \in Nat
    BY <1>1, <1>2, <1>3, <2>1
  <2>3. f[k] = f[k - 1] + s[k] /\ f[k + 1] = f[k] + s[k + 1] /\ g[k] = g[k - 1] + t[k]
    BY <1>2, <1>3, <2>1
  <2>4. (k - 1 < j => g[k - 1] <= f[k - 1]) /\ (k >= j => g[k - 1] <= f[k])
    BY <2>1, <1>4
  <2>5. t[k] = IF k < j THEN s[k] ELSE s[k + 1]
    BY <1>4
  <2>6. (k < j => g[k] <= f[k]) /\ (k + 1 >= j => g[k] <= f[k + 1])
    <3> HIDE DEF T
    <3>0. j \in Int /\ k \in Int
      BY <1>1, <1>4
    <3>1. CASE k < j
      <4>1. t[k] = s[k] /\ g[k - 1] <= f[k - 1]
        BY <2>4, <2>5, <3>0, <3>1
      <4>2. g[k] <= f[k] /\ f[k] <= f[k + 1]
        <5>1. \A a, b, c \in Nat : a <= b => a + c <= b + c
          OBVIOUS
        <5>2. \A a, b \in Nat : a <= a + b
          OBVIOUS
        <5>3. g[k] <= f[k]
          BY <2>2, <2>3, <4>1, <5>1
        <5>4. f[k] <= f[k + 1]
          BY <2>2, <2>3, <5>2
        <5> QED
          BY <5>3, <5>4
      <4> QED
        BY SMTT(30), <2>2, <4>2
    <3>2. CASE k >= j
      <4>1. t[k] = s[k + 1] /\ g[k - 1] <= f[k]
        BY <2>4, <2>5, <3>0, <3>2
      <4>2. g[k] <= f[k + 1]
        <5>1. \A a, b, c \in Nat : a <= b => a + c <= b + c
          OBVIOUS
        <5> QED
          BY <2>2, <2>3, <4>1, <5>1
      <4> QED
        BY <3>0, <3>2, <4>2
    <3> QED
      BY <3>0, <3>1, <3>2
  <2> QED
    BY <2>1, <2>6
<1> HIDE DEF T
<1>7. n - 1 \in T
  <2>1. 0 .. n - 1 \subseteq T
    BY <1>1, <1>5, <1>6, Inductive
  <2> QED
    BY <1>1, <2>1
<1>8. g[n - 1] <= f[n]
  <2>1. (n - 1) + 1 >= j
    BY <1>1, <1>4
  <2>2. (n - 1) + 1 = n
    BY <1>1
  <2> QED
    BY <1>7, <2>1, <2>2 DEF T
<1> QED
  BY <1>2, <1>3, <1>8

-----------------------------------------------------------------------------
(* The parts of a file.                                                    *)

LEMMA ConcatData ==
  ASSUME NEW a \in Data, NEW b \in Data
  PROVE  Concat(a, b) = a \o b /\ Concat(a, b) \in Data
<1>1. a \o b \in Data
  BY ConcatProperties DEF Data
<1>2. Unreadable \notin {a, b}
  BY WriterAssumption DEF Data
<1> QED
  BY <1>1, <1>2 DEF Concat

LEMMA JoinedSteps ==
  ASSUME NEW parts \in Seq(Data \cup {Unreadable})
  PROVE  \E f \in [0 .. Len(parts) -> Data \cup {Unreadable}] :
           /\ f[0] = <<>> /\ \A k \in 1 .. Len(parts) : f[k] = Concat(f[k - 1], parts[k])
           /\ Joined(parts) = f[Len(parts)]
<1> DEFINE n == Len(parts)
           V == Data \cup {Unreadable}
           step == [k \in 1 .. n |-> [x \in V |-> Concat(x, parts[k])]]
           Body(f) == [k \in 0 .. n |-> IF k = 0 THEN <<>> ELSE Concat(f[k - 1], parts[k])]
<1>1. n \in Nat /\ \A k \in 1 .. n : parts[k] \in V
  BY LenProperties, ElementOfSeq
<1>2. \A a, b \in V : Concat(a, b) \in V
  <2> SUFFICES ASSUME NEW a \in V, NEW b \in V PROVE Concat(a, b) \in V
    OBVIOUS
  <2>1. CASE Unreadable \in {a, b}
    BY <2>1 DEF Concat
  <2>2. CASE Unreadable \notin {a, b}
    <3>1. a \in Data /\ b \in Data
      BY SMTT(30), <2>2
    <3> QED
      BY <3>1, ConcatData
  <2> QED
    BY <2>1, <2>2
<1>3. <<>> \in V
  BY EmptySeq DEF Data
<1> HIDE DEF n, V
<1>4. step \in [1 .. n -> [V -> V]]
  BY <1>1, <1>2
<1> HIDE DEF step
<1>5. \E g : Recurses(g, n, V, <<>>, step)
  BY <1>1, <1>3, <1>4, Recursion, Zenon
<1>6. PICK g : Recurses(g, n, V, <<>>, step)
  BY <1>5
<1>7. g = Body(g)
  <2>1. ASSUME NEW k \in 0 .. n PROVE g[k] = IF k = 0 THEN <<>> ELSE Concat(g[k - 1], parts[k])
    <3>1. CASE k # 0
      <4>1. k \in 1 .. n /\ k - 1 \in 0 .. n
        BY <3>1, <1>1
      <4>2. g[k - 1] \in V
        BY <4>1, <1>6 DEF Recurses
      <4>3. step[k] = [x \in V |-> Concat(x, parts[k])]
        BY <4>1 DEF step
      <4> QED
        BY <4>1, <4>2, <4>3, <1>6, <3>1 DEF Recurses
    <3> QED
      BY <3>1, <1>6 DEF Recurses
  <2>2. g = [k \in 0 .. n |-> g[k]]
    BY <1>6 DEF Recurses
  <2> QED
    BY <2>1, <2>2
<1> DEFINE f == CHOOSE f : f = Body(f)
<1>8. f = Body(f)
  <2> HIDE DEF Body
  <2> QED
    BY <1>7
<1>9. Joined(parts) = f[n]
  BY DEF Joined, n
<1> HIDE DEF f
<1>10. f[0] = <<>> /\ \A k \in 1 .. n : f[k] = Concat(f[k - 1], parts[k])
  BY <1>1, <1>8
<1>11. f \in [0 .. n -> V]
  <2> DEFINE T == {k \in 0 .. n : f[k] \in V}
  <2>1. 0 \in T
    BY <1>1, <1>3, <1>10
  <2>2. ASSUME NEW k \in 1 .. n, k - 1 \in T PROVE k \in T
    <3>1. k \in 0 .. n /\ f[k - 1] \in V
      BY <2>2
    <3>2. Concat(f[k - 1], parts[k]) \in V
      BY <1>1, <1>2, <3>1
    <3> QED
      BY <1>10, <3>1, <3>2
  <2> HIDE DEF T
  <2>3. 0 .. n \subseteq T
    BY <1>1, <2>1, <2>2, Inductive
  <2>4. \A k \in 0 .. n : f[k] \in V
    BY <2>3 DEF T
  <2>5. f = [k \in 0 .. n |-> f[k]]
    BY <1>8
  <2> QED
    BY <2>4, <2>5
<1> QED
  BY <1>9, <1>10, <1>11 DEF n, V

LEMMA JoinedOne ==
  ASSUME NEW x \in Data, NEW parts, parts = <<x>>
  PROVE  Joined(parts) = x
<1>1. parts \in Seq(Data \cup {Unreadable}) /\ Len(parts) = 1 /\ parts[1] = x
  OBVIOUS
<1> HIDE DEF Data
<1>2. PICK f : /\ f[0] = <<>> /\ \A k \in 1 .. Len(parts) : f[k] = Concat(f[k - 1], parts[k])
               /\ Joined(parts) = f[Len(parts)]
  BY <1>1, JoinedSteps
<1>3. f[1] = Concat(f[0], x)
  BY <1>1, <1>2
<1>4. <<>> \in Data
  BY EmptySeq DEF Data
<1>5. Concat(<<>>, x) = <<>> \o x
  BY <1>4, ConcatData
<1>6. <<>> \o x = x
  BY ConcatEmptySeq DEF Data
<1> QED
  BY <1>1, <1>2, <1>3, <1>5, <1>6

LEMMA JoinedData ==
  ASSUME NEW parts \in Seq(Data)
  PROVE  Joined(parts) \in Data
<1> DEFINE n == Len(parts)
<1>1. n \in Nat /\ parts \in Seq(Data \cup {Unreadable}) /\ \A k \in 1 .. n : parts[k] \in Data
  BY LenProperties, ElementOfSeq, SeqMonotonic
<1>2. PICK f : /\ f[0] = <<>> /\ \A k \in 1 .. n : f[k] = Concat(f[k - 1], parts[k])
               /\ Joined(parts) = f[n]
  BY <1>1, JoinedSteps
<1> HIDE DEF n
<1> DEFINE T == {k \in 0 .. n : f[k] \in Data}
<1>3. 0 \in T
  <2>1. 0 \in 0 .. n /\ <<>> \in Data
    BY <1>1, EmptySeq DEF Data
  <2> QED
    BY <1>2, <2>1
<1>4. ASSUME NEW k \in 1 .. n, k - 1 \in T PROVE k \in T
  <2>1. k \in 0 .. n /\ f[k - 1] \in Data /\ parts[k] \in Data
    BY <1>1, <1>4
  <2>2. f[k] \in Data
    BY <1>2, <2>1, ConcatData
  <2> QED
    BY <2>1, <2>2
<1> HIDE DEF T
<1>5. 0 .. n \subseteq T
  BY <1>1, <1>3, <1>4, Inductive
<1> QED
  BY <1>1, <1>2, <1>5 DEF T

\* A content that was cut into pieces of a size is the pieces in a row.
LEMMA JoinedPieces ==
  ASSUME NEW c \in Data, NEW q \in Nat, NEW at \in [0 .. q -> 0 .. Len(c)],
         at[0] = 0, at[q] = Len(c), \A k \in 1 .. q : at[k - 1] <= at[k],
         NEW parts \in Seq(Data), Len(parts) = q,
         \A k \in 1 .. q : parts[k] = SubSeq(c, at[k - 1] + 1, at[k])
  PROVE  Joined(parts) = c
<1>0. Len(c) \in Nat
  BY LenProperties DEF Data
<1>1. parts \in Seq(Data \cup {Unreadable}) /\ \A k \in 1 .. q : parts[k] \in Data
  BY ElementOfSeq, SeqMonotonic
<1>2. PICK f : /\ f[0] = <<>> /\ \A k \in 1 .. q : f[k] = Concat(f[k - 1], parts[k])
               /\ Joined(parts) = f[q]
  BY <1>1, JoinedSteps
<1> DEFINE T == {k \in 0 .. q : f[k] = SubSeq(c, 1, at[k])}
<1>3. 0 \in T
  <2>1. SubSeq(c, 1, 0) = <<>>
    BY SubSeqEmpty
  <2>2. 0 \in 0 .. q /\ f[0] = SubSeq(c, 1, at[0])
    BY <1>2, <2>1
  <2> QED
    BY <2>2
<1>4. ASSUME NEW k \in 1 .. q, k - 1 \in T PROVE k \in T
  <2>1. k \in 0 .. q /\ k - 1 \in 0 .. q /\ f[k - 1] = SubSeq(c, 1, at[k - 1])
    BY <1>4
  <2>2. at[k - 1] \in 0 .. Len(c) /\ at[k] \in at[k - 1] .. Len(c)
    BY <1>0, <2>1
  <2>3. SubSeq(c, 1, at[k - 1]) \o SubSeq(c, at[k - 1] + 1, at[k]) = SubSeq(c, 1, at[k])
    <3>1. 1 \in 1 .. Len(c) + 1 /\ at[k - 1] \in 1 - 1 .. Len(c)
      BY <1>0, <2>2
    <3> QED
      BY <2>2, <3>1, ConcatAdjacentSubSeq DEF Data
  <2>4. SubSeq(c, 1, at[k - 1]) \in Data
    <3>1. \A i \in 1 .. at[k - 1] : c[i] \in Byte
      BY <1>0, <2>2, ElementOfSeq DEF Data
    <3> QED
      BY <1>0, <2>2, <3>1, SubSeqProperties DEF Data
  <2>5. Concat(f[k - 1], parts[k]) = f[k - 1] \o parts[k]
    BY <1>1, <2>1, <2>4, ConcatData
  <2> QED
    BY <1>2, <2>1, <2>3, <2>5
<1> HIDE DEF T
<1>5. 0 .. q \subseteq T
  BY <1>3, <1>4, Inductive
<1>6. q \in T
  BY <1>5
<1>7. SubSeq(c, 1, Len(c)) = c
  BY SubSeqFull DEF Data
<1> QED
  BY <1>2, <1>6, <1>7 DEF T

-----------------------------------------------------------------------------
(* The invariant.                                                          *)

Distinct(q) == \A i, j \in DOMAIN q : q[i] = q[j] => i = j

TypeInv ==
  /\ index \in [Files -> Seq(Blocks) \cup {NULL}]
  /\ \A f \in Files : index[f] # NULL => index[f] # <<>>
  /\ buffers \in Seq(Buffers)
  /\ pages \in Seq(Data) /\ \A i \in DOMAIN pages : Len(pages[i]) \in 1 .. PageSize
  /\ fatalError \in BOOLEAN /\ isWriteToMemory \in BOOLEAN
  /\ pc \in {"idle", "begin", "purgeFirst", "add", "sort", "purge", "write"}
  /\ job \in Jobs \cup {NULL}
  /\ (job # NULL) <=> (pc \in {"begin", "purgeFirst", "add", "write"})

Purging == pc \in {"purge", "purgeFirst"}

\* A purge goes through all buffers once; what it saved last has a place.
PurgeFits ==
  IF Purging
  THEN /\ ~isWriteToMemory
       /\ order \in [1 .. Len(buffers) -> 1 .. Len(buffers)] /\ Distinct(order)
       /\ saved \in 0 .. Len(buffers) - 1
       /\ saved > 0 => slot \in Places
  ELSE order = <<>> /\ saved = 0

BlocksOf(c) == (Len(c) + PageSize - 1) \div PageSize

\* What is known at each step of an operation
JobFits ==
  /\ fatalError => pc \in {"idle", "purge"}
  /\ pc = "sort" => buffers # <<>> /\ ~isWriteToMemory
  /\ pc = "begin" => job.written = 0
  /\ pc \in {"purgeFirst", "add", "write"} => job.data # <<>>
  /\ pc \in {"purgeFirst", "add"} => isWriteToMemory \/ Len(job.data) <= PageSize
  /\ pc = "write" => /\ index[job.file] # NULL /\ Len(index[job.file]) = BlocksOf(job.data)
                     /\ job.written < BlocksOf(job.data)

\* A file has one buffer that is alive, if it has an entry; what a purge may
\* save fits a page.
BuffersFit ==
  /\ \A k \in DOMAIN buffers : buffers[k].alive => index[buffers[k].file] # NULL
  /\ \A k, l \in DOMAIN buffers :
       buffers[k].alive /\ buffers[l].alive /\ buffers[k].file = buffers[l].file => k = l
  /\ \A k \in DOMAIN buffers :
       buffers[k].data # NULL /\ ~isWriteToMemory => Len(buffers[k].data) <= PageSize

\* The buffers that a purge saved, and those whose data it freed
Saved == {order[i] : i \in 1 .. saved}
Gone == {order[i] : i \in 1 .. saved - 1}

\* Block -k of an entry is the whole of the k-th buffer, until that is saved.
Owned ==
  \A k \in DOMAIN buffers :
    LET b == buffers[k]
    IN /\ b.alive /\ job # NULL => b.file # job.file
       /\ b.alive /\ k \notin Saved => index[b.file] = <<Block(-k, 0, b.length)>>
       /\ k \notin Gone => b.data \in Contents \ {<<>>} /\ b.length = Len(b.data)

\* A block lies in its page.
InPage(b, pgs) == b.page \in 0 .. Len(pgs) - 1 /\ b.offset + b.size <= Len(pgs[b.page + 1])
Stored(b, pgs) == b.size = 0 \/ InPage(b, pgs)

InPages ==
  \A f \in Files : index[f] # NULL =>
    \A i \in DOMAIN index[f] : index[f][i].page >= 0 => Stored(index[f][i], pages)

\* The map, once there is one, is about pages that exist.
MapFits ==
  ~isWriteToMemory /\ (buffers # <<>> \/ job # NULL \/ pageMap # NULL) =>
    pageMap \subseteq Spans /\ \A s \in pageMap : s.page < Len(pages)

\* The data of the buffer that was saved last is where the slot says.
Holds(pgs, place, d) ==
  /\ place.page \in 0 .. Len(pgs) - 1 /\ place.offset + Len(d) <= Len(pgs[place.page + 1])
  /\ SubSeq(pgs[place.page + 1], place.offset + 1, place.offset + Len(d)) = d

SlotFits == saved > 0 => slot \in Places /\ Holds(pages, slot, buffers[order[saved]].data)

PieceOf(c, i) == SubSeq(c, (i - 1) * PageSize + 1, Min2(i * PageSize, Len(c)))

PieceHeld(b, pgs, c, i) ==
  /\ b.offset = 0 /\ b.size = Len(PieceOf(c, i)) /\ b.size > 0
  /\ Holds(pgs, [page |-> b.page, offset |-> 0], PieceOf(c, i))

\* The pages of a big file that were written have its pieces.
PiecesFit ==
  pc = "write" =>
    \A i \in 1 .. job.written : PieceHeld(index[job.file][i], pages, job.data, i)

Bounded ==
  ~isWriteToMemory /\ buffers # <<>> /\ pc \notin {"sort", "purge", "purgeFirst"} =>
    BufferSize < MaxBufferSize

IInv ==
  /\ TypeInv /\ PurgeFits /\ JobFits /\ BuffersFit
  /\ ~fatalError =>
       Owned /\ InPages /\ MapFits /\ SlotFits /\ PiecesFit /\ Bounded

\* The entry of a file that is being written, where it says nothing
Unsettled(f) == job # NULL /\ f = job.file /\ (job.wasPending \/ pc = "write")

\* An entry is that of a buffer that waits, or all of its blocks are in pages.
Settled(f) ==
  index[f] # NULL =>
    \/ \E k \in DOMAIN buffers \ Saved : buffers[k].alive /\ buffers[k].file = f
    \/ \A i \in DOMAIN index[f] : Stored(index[f][i], pages)

NoneDangles == \A f \in Files : ~Unsettled(f) => Settled(f)

\* Until its new content is written a file can be read as it was.
OldStands ==
  \A f \in Files : job # NULL /\ f = job.file /\ ~Unsettled(f) => ReadFile(f) = job.was

FilesKept == ~fatalError => NoneDangles /\ OldStands

-----------------------------------------------------------------------------
(* What blocks read as.                                                    *)

BlockOf(b, bufs, pgs) ==
  IF b.size = 0 THEN <<>>
  ELSE IF b.page < 0 THEN Within(IF -b.page \in DOMAIN bufs THEN bufs[-b.page].data ELSE NULL, b)
  ELSE Within(IF b.page < Len(pgs) THEN pgs[b.page + 1] ELSE NULL, b)

Content(blocks, bufs, pgs) == Joined([i \in DOMAIN blocks |-> BlockOf(blocks[i], bufs, pgs)])

LEMMA ReadIsContent ==
  ASSUME NEW f
  PROVE  ReadFile(f) = IF index[f] = NULL THEN NULL ELSE Content(index[f], buffers, pages)
BY DEF ReadFile, ReadBlock, GetBuffer, Content, BlockOf

LEMMA ReadNextIsContent ==
  ASSUME NEW CONSTANT f
  PROVE  ReadFile(f)' = IF index'[f] = NULL THEN NULL ELSE Content(index'[f], buffers', pages')
BY DEF ReadFile, ReadBlock, GetBuffer, Content, BlockOf

\* Pages are only appended.
Grown(old, new) == Len(old) <= Len(new) /\ \A i \in 1 .. Len(old) : new[i] = old[i]

LEMMA GrownSame ==
  ASSUME NEW pgs \in Seq(Data)
  PROVE  Grown(pgs, pgs)
BY LenProperties DEF Grown

LEMMA BlockInPage ==
  ASSUME NEW b \in Blocks, NEW bufs, NEW pgs \in Seq(Data), InPage(b, pgs), b.size # 0
  PROVE  /\ BlockOf(b, bufs, pgs) = SubSeq(pgs[b.page + 1], b.offset + 1, b.offset + b.size)
         /\ BlockOf(b, bufs, pgs) \in Data
<1>1. /\ Len(pgs) \in Nat /\ b.page + 1 \in 1 .. Len(pgs) /\ b.page \in Nat /\ b.page < Len(pgs)
      /\ b.offset \in Nat /\ b.size \in Nat
  BY LenProperties DEF InPage, Blocks
<1>2. pgs[b.page + 1] \in Data /\ pgs[b.page + 1] # NULL
  BY <1>1, ElementOfSeq, WriterAssumption DEF Data
<1>3. BlockOf(b, bufs, pgs) = Within(pgs[b.page + 1], b)
  BY <1>1 DEF BlockOf
<1>4. Within(pgs[b.page + 1], b) = SubSeq(pgs[b.page + 1], b.offset + 1, b.offset + b.size)
  <2>1. Len(pgs[b.page + 1]) \in Nat
    BY <1>2, LenProperties DEF Data
  <2>2. ~(b.offset + b.size > Len(pgs[b.page + 1]))
    BY <1>1, <2>1 DEF InPage
  <2> QED
    BY <1>2, <2>2 DEF Within
<1>5. SubSeq(pgs[b.page + 1], b.offset + 1, b.offset + b.size) \in Data
  <2>1. \A i \in b.offset + 1 .. b.offset + b.size : pgs[b.page + 1][i] \in Byte
    BY SMTT(30), <1>1, <1>2, ElementOfSeq, LenProperties DEF Data, InPage
  <2> QED
    BY <1>1, <2>1, SubSeqProperties DEF Data
<1> QED
  BY <1>3, <1>4, <1>5

LEMMA StoredGrown ==
  ASSUME NEW b \in Blocks, NEW pgs \in Seq(Data), NEW pgs2 \in Seq(Data), Grown(pgs, pgs2),
         Stored(b, pgs)
  PROVE  /\ Stored(b, pgs2)
         /\ \A bufs, bufs2 : BlockOf(b, bufs2, pgs2) = BlockOf(b, bufs, pgs)
         /\ \A bufs : BlockOf(b, bufs, pgs) \in Data
<1>1. CASE b.size = 0
  BY <1>1, EmptySeq DEF Stored, BlockOf, Data
<1>2. CASE b.size # 0
  <2>1. InPage(b, pgs)
    BY <1>2 DEF Stored
  <2>2. /\ Len(pgs) \in Nat /\ Len(pgs2) \in Nat /\ b.page + 1 \in 1 .. Len(pgs) /\ b.page \in Nat
    BY <2>1, LenProperties DEF InPage
  <2>3. pgs2[b.page + 1] = pgs[b.page + 1] /\ b.page \in 0 .. Len(pgs2) - 1
    BY <2>2 DEF Grown
  <2>4. InPage(b, pgs2)
    BY <2>1, <2>3 DEF InPage
  <2> QED
    BY <1>2, <2>1, <2>3, <2>4, BlockInPage DEF Stored
<1> QED
  BY <1>1, <1>2

LEMMA ContentStored ==
  ASSUME NEW blocks \in Seq(Blocks), NEW pgs \in Seq(Data), NEW pgs2 \in Seq(Data),
         Grown(pgs, pgs2), \A i \in DOMAIN blocks : Stored(blocks[i], pgs)
  PROVE  /\ \A bufs, bufs2 : Content(blocks, bufs2, pgs2) = Content(blocks, bufs, pgs)
         /\ \A bufs : Content(blocks, bufs, pgs) \in Data
<1>0. DOMAIN blocks = 1 .. Len(blocks) /\ Len(blocks) \in Nat
      /\ \A i \in DOMAIN blocks : blocks[i] \in Blocks
  BY LenProperties, ElementOfSeq
<1>1. ASSUME NEW bufs, NEW bufs2 PROVE Content(blocks, bufs2, pgs2) = Content(blocks, bufs, pgs)
  <2>1. \A i \in DOMAIN blocks : BlockOf(blocks[i], bufs2, pgs2) = BlockOf(blocks[i], bufs, pgs)
    BY <1>0, StoredGrown
  <2> QED
    BY <2>1, Zenon DEF Content
<1>2. ASSUME NEW bufs PROVE Content(blocks, bufs, pgs) \in Data
  <2> DEFINE parts == [i \in 1 .. Len(blocks) |-> BlockOf(blocks[i], bufs, pgs)]
  <2>1. \A i \in 1 .. Len(blocks) : BlockOf(blocks[i], bufs, pgs) \in Data
    BY <1>0, StoredGrown
  <2>2. parts \in Seq(Data)
    BY <1>0, <2>1
  <2>3. Content(blocks, bufs, pgs) = Joined(parts)
    BY <1>0 DEF Content
  <2> HIDE DEF parts
  <2> QED
    BY <2>2, <2>3, JoinedData
<1> QED
  BY <1>1, <1>2

\* An entry with one block
LEMMA ContentOne ==
  ASSUME NEW b \in Blocks, NEW bufs, NEW pgs, BlockOf(b, bufs, pgs) \in Data
  PROVE  Content(<<b>>, bufs, pgs) = BlockOf(b, bufs, pgs)
<1> DEFINE x == BlockOf(b, bufs, pgs)
           parts == [i \in DOMAIN <<b>> |-> BlockOf(<<b>>[i], bufs, pgs)]
<1>1. parts = <<x>>
  OBVIOUS
<1> HIDE DEF x, parts
<1>2. Joined(parts) = x
  BY <1>1, JoinedOne DEF x
<1> QED
  BY <1>2 DEF Content, parts, x

\* A buffer is read as a whole.
LEMMA ContentBuffer ==
  ASSUME NEW k \in Nat, NEW bufs, k \in DOMAIN bufs, k > 0, NEW pgs, NEW n \in Nat,
         bufs[k].data \in Data, bufs[k].data # <<>>, n = Len(bufs[k].data)
  PROVE  /\ Block(-k, 0, n) \in Blocks
         /\ Content(<<Block(-k, 0, n)>>, bufs, pgs) = bufs[k].data
<1> DEFINE d == bufs[k].data
           b == Block(-k, 0, n)
<1>1. b \in Blocks /\ b.page = -k /\ b.offset = 0 /\ b.size = n /\ -b.page = k /\ b.page < 0
  BY DEF Block, Blocks
<1>2. Len(d) \in Nat /\ Len(d) # 0 /\ d # NULL
  BY EmptySeq, LenProperties, WriterAssumption DEF Data
<1>3. BlockOf(b, bufs, pgs) = Within(d, b)
  BY <1>1, <1>2 DEF BlockOf
<1>4. Within(d, b) = SubSeq(d, 1, Len(d))
  BY <1>1, <1>2 DEF Within
<1>5. SubSeq(d, 1, Len(d)) = d
  BY SubSeqFull DEF Data
<1> HIDE DEF b, d
<1>6. BlockOf(b, bufs, pgs) = d /\ d \in Data
  BY <1>3, <1>4, <1>5 DEF d
<1>7. Content(<<b>>, bufs, pgs) = d
  BY <1>1, <1>6, ContentOne
<1> QED
  BY <1>1, <1>7 DEF b, d

\* What is held in a page is read from there.
LEMMA ContentHeld ==
  ASSUME NEW b \in Blocks, NEW bufs, NEW pgs \in Seq(Data), NEW d \in Data, d # <<>>,
         b.size = Len(d), Holds(pgs, [page |-> b.page, offset |-> b.offset], d)
  PROVE  Stored(b, pgs) /\ Content(<<b>>, bufs, pgs) = d
<1>1. Len(d) \in Nat /\ Len(d) # 0
  BY EmptySeq, LenProperties DEF Data
<1>2. InPage(b, pgs) /\ SubSeq(pgs[b.page + 1], b.offset + 1, b.offset + b.size) = d
  BY DEF Holds, InPage
<1>3. BlockOf(b, bufs, pgs) = d
  BY <1>1, <1>2, BlockInPage
<1> QED
  BY <1>2, <1>3, ContentOne DEF Stored

LEMMA HoldsGrown ==
  ASSUME NEW pgs \in Seq(Data), NEW pgs2 \in Seq(Data), Grown(pgs, pgs2), NEW place \in Places,
         NEW d, Holds(pgs, place, d)
  PROVE  Holds(pgs2, place, d)
<1>1. Len(pgs) \in Nat /\ Len(pgs2) \in Nat /\ place.page + 1 \in 1 .. Len(pgs)
  BY LenProperties DEF Holds, Places
<1>2. pgs2[place.page + 1] = pgs[place.page + 1] /\ place.page \in 0 .. Len(pgs2) - 1
  BY <1>1 DEF Grown, Places, Holds
<1> QED
  BY <1>2 DEF Holds

-----------------------------------------------------------------------------
(* Steps.                                                                  *)

LEMMA AddPageGrows ==
  ASSUME TypeInv, NEW c \in Data, Len(c) \in 1 .. PageSize, NEW n \in Int, n >= 0, AddPage(c, n)
  PROVE  /\ pages' \in Seq(Data) /\ \A i \in DOMAIN pages' : Len(pages'[i]) \in 1 .. PageSize
         /\ Grown(pages, pages')
         /\ n \in 0 .. Len(pages') - 1 /\ pages'[n + 1] = c
<1>. USE DEF TypeInv
<1>1. Len(pages) \in Nat /\ DOMAIN pages = 1 .. Len(pages)
  BY LenProperties
<1>2. CASE n < Len(pages) /\ pages[n + 1] = c /\ UNCHANGED pages
  BY <1>1, <1>2, GrownSame
<1>3. CASE n = Len(pages) /\ pages' = Append(pages, c)
  <2>1. /\ pages' \in Seq(Data) /\ Len(pages') = Len(pages) + 1
        /\ \A i \in 1 .. Len(pages) : pages'[i] = pages[i]
        /\ pages'[Len(pages) + 1] = c
    BY <1>3, AppendProperties
  <2>2. DOMAIN pages' = 1 .. Len(pages) + 1
    BY <2>1, LenProperties
  <2>3. ASSUME NEW i \in DOMAIN pages' PROVE Len(pages'[i]) \in 1 .. PageSize
    <3>1. i \in DOMAIN pages \/ i = Len(pages) + 1
      BY <1>1, <2>2
    <3> QED
      BY <1>1, <2>1, <3>1
  <2>4. Grown(pages, pages')
    BY <1>1, <2>1 DEF Grown
  <2> QED
    BY <1>1, <1>3, <2>1, <2>3, <2>4
<1> QED
  BY <1>2, <1>3 DEF AddPage

\* Where a file is added no file is broken, and no purge goes on.
LEMMA Adding ==
  ASSUME IInv, pc \in {"begin", "add", "write"}
  PROVE  /\ ~fatalError /\ job \in Jobs /\ job # NULL /\ job.file \in Files /\ job.data \in Data
         /\ job.data \in Contents /\ job.written \in Nat
         /\ order = <<>> /\ saved = 0 /\ Saved = {} /\ Gone = {}
         /\ TypeInv /\ Owned /\ InPages /\ MapFits /\ BuffersFit
<1>1. ~fatalError /\ job \in Jobs /\ job # NULL /\ order = <<>> /\ saved = 0
  BY DEF IInv, JobFits, TypeInv, PurgeFits, Purging
<1>2. Saved = {} /\ Gone = {}
  BY <1>1 DEF Saved, Gone
<1> QED
  BY <1>1, <1>2, WriterAssumption DEF IInv, Jobs, Data

LEMMA SameSize ==
  ASSUME UNCHANGED buffers
  PROVE  BufferSize' = BufferSize
BY DEF BufferSize

\* A step that only goes somewhere else.
LEMMA GoStep ==
  ASSUME IInv, UNCHANGED <<store, modes, purge>>, ~Purging, ~Purging', ~fatalError,
         job' = NULL \/ job' = job,
         (job' # NULL) <=> (pc' \in {"begin", "purgeFirst", "add", "write"}),
         pc' \in {"idle", "add"}, pc \in {"idle", "begin", "add"},
         pc' = "add" => job.data # <<>> /\ (isWriteToMemory \/ Len(job.data) <= PageSize)
  PROVE  IInv'
<1>. USE DEF store, modes, purge
<1>1. TypeInv'
  BY DEF IInv, TypeInv
<1>2. PurgeFits' /\ BuffersFit' /\ JobFits'
  BY <1>1 DEF IInv, PurgeFits, BuffersFit, JobFits, TypeInv
<1>3. Saved' = Saved /\ Gone' = Gone
  BY DEF Saved, Gone
<1>4. Owned' /\ InPages' /\ SlotFits'
  BY <1>3 DEF IInv, Owned, InPages, SlotFits
<1>5. MapFits' /\ PiecesFit' /\ Bounded'
  BY SameSize DEF IInv, MapFits, PiecesFit, Bounded
<1> QED
  BY <1>1, <1>2, <1>4, <1>5 DEF IInv

LEMMA SourceFailsStep ==
  ASSUME IInv, SourceFails
  PROVE  IInv'
<1>1. pc \in {"begin", "add"} /\ pc' = "idle" /\ job' = NULL /\ UNCHANGED <<store, modes, purge>>
  BY DEF SourceFails, Go
<1>2. ~fatalError
  BY <1>1, Adding
<1> QED
  BY <1>1, <1>2, GoStep DEF Purging

\* The entry of the file that is added changes.
LEMMA EntryStep ==
  ASSUME IInv, pc \in {"begin", "add", "write"}, NEW e \in Seq(Blocks) \cup {NULL}, e # <<>>,
         SetEntry(job.file, e), UNCHANGED <<buffers, isWriteToMemory, pageMap, purge>>,
         job' = NULL \/ (job' \in Jobs /\ job'.file = job.file),
         pages' \in Seq(Data), \A i \in DOMAIN pages' : Len(pages'[i]) \in 1 .. PageSize,
         Grown(pages, pages'),
         e # NULL => \A i \in DOMAIN e : e[i].page >= 0 => Stored(e[i], pages')
  PROVE  /\ index' \in [Files -> Seq(Blocks) \cup {NULL}]
         /\ \A f \in Files : index'[f] # NULL => index'[f] # <<>>
         /\ \A f \in Files : f # job.file => index'[f] = index[f]
         /\ index'[job.file] = e
         /\ BuffersFit' /\ Owned' /\ InPages' /\ MapFits'
<1>0. /\ job.file \in Files /\ Saved = {} /\ Gone = {} /\ ~fatalError /\ TypeInv /\ job # NULL
      /\ order = <<>> /\ saved = 0
  BY Adding
<1>1. /\ index' \in [Files -> Seq(Blocks) \cup {NULL}]
      /\ \A f \in Files : index'[f] # NULL => index'[f] # <<>>
      /\ \A f \in Files : f # job.file => index'[f] = index[f]
      /\ index'[job.file] = e
  BY <1>0 DEF TypeInv, SetEntry
<1>2. /\ DOMAIN buffers = 1 .. Len(buffers)
      /\ \A k \in DOMAIN buffers : buffers[k] \in Buffers /\ buffers[k].file \in Files
  <2>1. buffers \in Seq(Buffers)
    BY <1>0 DEF TypeInv
  <2>2. DOMAIN buffers = 1 .. Len(buffers) /\ \A k \in DOMAIN buffers : buffers[k] \in Buffers
    BY <2>1, LenProperties, ElementOfSeq
  <2> QED
    BY <2>2 DEF Buffers
<1>3. \A k \in DOMAIN buffers : buffers[k].alive => index'[buffers[k].file] = index[buffers[k].file]
  BY <1>0, <1>1, <1>2 DEF IInv, Owned
<1>4. BuffersFit'
  BY <1>2, <1>3 DEF IInv, BuffersFit
<1>5. Saved' = {} /\ Gone' = {}
  BY <1>0 DEF Saved, Gone, purge
<1>6. Owned'
  BY <1>0, <1>2, <1>3, <1>5 DEF IInv, Owned
<1>7. InPages'
  <2> SUFFICES ASSUME NEW f \in Files, index'[f] # NULL, NEW i \in DOMAIN index'[f],
                      index'[f][i].page >= 0
               PROVE  Stored(index'[f][i], pages')
    BY DEF InPages
  <2>1. CASE f = job.file
    BY <1>1, <2>1
  <2>2. CASE f # job.file
    <3>1. index'[f] = index[f] /\ index[f] \in Seq(Blocks)
      BY <1>0, <1>1, <2>2 DEF TypeInv
    <3>2. index[f][i] \in Blocks
      BY <3>1, LenProperties, ElementOfSeq
    <3>3. Stored(index[f][i], pages)
      BY <1>0, <3>1 DEF IInv, InPages
    <3> QED
      BY <1>0, <3>1, <3>2, <3>3, StoredGrown DEF TypeInv
  <2> QED
    BY <2>1, <2>2
<1>8. MapFits'
  <2>1. \A s \in Spans : s.page < Len(pages) => s.page < Len(pages')
    BY <1>0, LenProperties DEF Grown, Spans, TypeInv
  <2> QED
    BY <1>0, <2>1 DEF IInv, MapFits
<1> QED
  BY <1>1, <1>4, <1>6, <1>7, <1>8

LEMMA AddEmptyStep ==
  ASSUME IInv, AddEmpty
  PROVE  IInv'
<1> DEFINE e == <<Block(-1, 0, 0)>>
<1>0. /\ pc = "begin" /\ pc' = "idle" /\ job' = NULL /\ SetEntry(job.file, e)
      /\ UNCHANGED <<buffers, pages, pageMap, modes, purge>>
  BY DEF AddEmpty, Go
<1>1. /\ ~fatalError /\ TypeInv /\ saved = 0
  BY <1>0, Adding
<1>2. e \in Seq(Blocks) /\ e # <<>> /\ \A i \in DOMAIN e : ~(e[i].page >= 0)
  <2>1. Block(-1, 0, 0) \in Blocks /\ ~(Block(-1, 0, 0).page >= 0)
    BY DEF Block, Blocks
  <2> QED
    BY <2>1
<1> HIDE DEF e
<1>3. Grown(pages, pages') /\ pages' \in Seq(Data)
      /\ \A i \in DOMAIN pages' : Len(pages'[i]) \in 1 .. PageSize
  BY <1>0, <1>1, GrownSame DEF TypeInv
<1>5. /\ index' \in [Files -> Seq(Blocks) \cup {NULL}]
      /\ \A f \in Files : index'[f] # NULL => index'[f] # <<>>
      /\ BuffersFit' /\ Owned' /\ InPages' /\ MapFits'
  BY <1>0, <1>2, <1>3, EntryStep DEF modes
<1>6. TypeInv'
  BY <1>0, <1>1, <1>3, <1>5 DEF TypeInv, modes
<1>7. PurgeFits' /\ JobFits' /\ SlotFits' /\ PiecesFit'
  BY <1>0, <1>1 DEF IInv, PurgeFits, Purging, JobFits, SlotFits, PiecesFit, modes, purge
<1>8. Bounded'
  BY <1>0, <1>1, SameSize DEF IInv, Bounded, modes
<1> QED
  BY <1>5, <1>6, <1>7, <1>8 DEF IInv

-----------------------------------------------------------------------------
(* Small files.                                                            *)

\* A purge begins: an order of all buffers.
LEMMA StartPurgeStep ==
  ASSUME IInv, NEW where \in {"purge", "purgeFirst"}, StartPurge(where), buffers # <<>>,
         pc \in {"idle", "begin", "sort"},
         where = "purge" <=> job = NULL,
         where = "purgeFirst" => job.data # <<>> /\ Len(job.data) <= PageSize
  PROVE  IInv'
<1> DEFINE n == Len(buffers)
<1>0. /\ ~isWriteToMemory /\ order' \in SortOrders /\ saved' = 0 /\ pc' = where /\ job' = job
      /\ UNCHANGED <<index, buffers, pages, pageMap, fatalError, isWriteToMemory, slot>>
  BY DEF StartPurge, Go, store, modes
<1>1. TypeInv /\ saved = 0 /\ n \in Nat /\ n > 0
  <2>1. TypeInv /\ saved = 0
    BY DEF IInv, PurgeFits, Purging
  <2> QED
    BY <2>1, EmptySeq, LenProperties DEF TypeInv
<1>2. TypeInv'
  BY <1>0, <1>1 DEF TypeInv
<1>3. order' \in [1 .. n -> 1 .. n] /\ \A i, j \in 1 .. n : i < j => order'[i] # order'[j]
  <2>1. CASE n < 3
    BY <1>0, <2>1 DEF SortOrders
  <2>2. CASE ~(n < 3)
    BY <1>0, <2>2 DEF SortOrders
  <2> QED
    BY <2>1, <2>2
<1>4. Distinct(order')
  <2> SUFFICES ASSUME NEW i \in 1 .. n, NEW j \in 1 .. n, order'[i] = order'[j] PROVE i = j
    BY <1>3 DEF Distinct
  <2>1. i \in Int /\ j \in Int /\ ~(i < j) /\ ~(j < i)
    BY <1>3
  <2> QED
    BY <2>1
<1>5. PurgeFits'
  BY <1>0, <1>1, <1>3, <1>4 DEF PurgeFits, Purging
<1>6. BuffersFit' /\ JobFits'
  BY <1>0, <1>1 DEF IInv, BuffersFit, JobFits, TypeInv
<1>7. Saved = {} /\ Gone = {} /\ Saved' = {} /\ Gone' = {}
  BY <1>0, <1>1 DEF Saved, Gone
<1>8. ~fatalError => Owned' /\ InPages' /\ MapFits' /\ SlotFits'
  BY <1>0, <1>1, <1>7 DEF IInv, Owned, InPages, MapFits, SlotFits
<1>9. PiecesFit' /\ Bounded'
  BY <1>0 DEF PiecesFit, Bounded
<1> QED
  BY <1>0, <1>2, <1>5, <1>6, <1>8, <1>9 DEF IInv

LEMMA MakeRoomStep ==
  ASSUME IInv, MakeRoom
  PROVE  IInv'
<1>1. /\ pc = "begin" /\ job.data # <<>>
      /\ isWriteToMemory \/ Len(job.data) <= PageSize
  BY DEF MakeRoom, IsSmall
<1>2. ~fatalError /\ job # NULL
  BY <1>1, Adding
<1>3. CASE StartPurge("purgeFirst") /\ buffers # <<>>
  <2>1. ~isWriteToMemory
    BY <1>3 DEF StartPurge
  <2> QED
    BY <1>1, <1>2, <1>3, <2>1, StartPurgeStep
<1>4. CASE Go("add", job) /\ UNCHANGED <<store, modes, purge>>
  BY <1>1, <1>2, <1>4, GoStep DEF Go, Purging
<1> QED
  BY <1>3, <1>4 DEF MakeRoom

LEMMA PurgeCommandStep ==
  ASSUME IInv, PurgeCommand
  PROVE  IInv'
<1>1. pc = "idle" /\ buffers # <<>> /\ StartPurge("purge")
  BY DEF PurgeCommand
<1>2. job = NULL
  BY <1>1 DEF IInv, TypeInv
<1> QED
  BY <1>1, <1>2, StartPurgeStep

LEMMA PurgeFullStep ==
  ASSUME IInv, PurgeFull
  PROVE  IInv'
<1>1. pc = "sort" /\ StartPurge("purge")
  BY DEF PurgeFull
<1>2. job = NULL /\ buffers # <<>>
  BY <1>1 DEF IInv, TypeInv, JobFits
<1> QED
  BY <1>1, <1>2, StartPurgeStep

\* The lengths of the buffers, and their sum
Lengths(bufs) == [k \in DOMAIN bufs |-> bufs[k].length]

LEMMA SizeIsTotal ==
  ASSUME NEW bufs \in Seq(Buffers)
  PROVE  /\ Lengths(bufs) \in Seq(Nat) /\ Len(Lengths(bufs)) = Len(bufs)
         /\ \A k \in 1 .. Len(bufs) : Lengths(bufs)[k] = bufs[k].length
<1>1. DOMAIN bufs = 1 .. Len(bufs) /\ Len(bufs) \in Nat /\ \A k \in 1 .. Len(bufs) : bufs[k] \in Buffers
  BY LenProperties, ElementOfSeq
<1>2. \A k \in 1 .. Len(bufs) : bufs[k].length \in Nat
  BY <1>1 DEF Buffers
<1> QED
  BY <1>1, <1>2 DEF Lengths

LEMMA SizeGrows ==
  ASSUME NEW bufs \in Seq(Buffers), NEW b \in Buffers
  PROVE  Lengths(Append(bufs, b)) = Append(Lengths(bufs), b.length)
<1> DEFINE n == Len(bufs)
<1>1. /\ n \in Nat /\ DOMAIN bufs = 1 .. n /\ b.length \in Nat
      /\ Append(bufs, b) \in Seq(Buffers) /\ Len(Append(bufs, b)) = n + 1
      /\ \A k \in 1 .. n : Append(bufs, b)[k] = bufs[k]
      /\ Append(bufs, b)[n + 1] = b
  BY LenProperties, AppendProperties DEF Buffers
<1>2. /\ Lengths(bufs) \in Seq(Nat) /\ Len(Lengths(bufs)) = n
      /\ \A k \in 1 .. n : Lengths(bufs)[k] = bufs[k].length
  BY SizeIsTotal
<1>3. /\ Append(Lengths(bufs), b.length) \in Seq(Nat)
      /\ Len(Append(Lengths(bufs), b.length)) = n + 1
      /\ \A k \in 1 .. n : Append(Lengths(bufs), b.length)[k] = Lengths(bufs)[k]
      /\ Append(Lengths(bufs), b.length)[n + 1] = b.length
  BY <1>1, <1>2, AppendProperties
<1>4. /\ Lengths(Append(bufs, b)) \in Seq(Nat) /\ Len(Lengths(Append(bufs, b))) = n + 1
      /\ \A k \in 1 .. n + 1 : Lengths(Append(bufs, b))[k] = Append(bufs, b)[k].length
  BY <1>1, SizeIsTotal
<1>5. \A k \in 1 .. n + 1 : Lengths(Append(bufs, b))[k] = Append(Lengths(bufs), b.length)[k]
  <2> SUFFICES ASSUME NEW k \in 1 .. n + 1
               PROVE  Lengths(Append(bufs, b))[k] = Append(Lengths(bufs), b.length)[k]
    OBVIOUS
  <2>1. k \in 1 .. n \/ k = n + 1
    BY <1>1
  <2> QED
    BY <1>1, <1>2, <1>3, <1>4, <2>1
<1> QED
  BY <1>3, <1>4, <1>5, SeqEqual

\* What is found in the map holds the content.
LEMMA DuplicateHolds ==
  ASSUME IInv, pc = "add", NEW b \in Duplicates(job.data)
  PROVE  /\ b \in Blocks /\ b.size = Len(job.data)
         /\ Holds(pages, [page |-> b.page, offset |-> b.offset], job.data) /\ InPage(b, pages)
<1> DEFINE c == job.data
           page == pages[b.page + 1]
<1>1. TypeInv /\ MapFits /\ job # NULL /\ c \in Data
  BY Adding
<1>2. ~isWriteToMemory /\ b \in pageMap /\ b.size = Len(c) /\ Within(page, b) = c
  BY DEF Duplicates
<1>3. b \in Spans /\ b.page < Len(pages)
  BY <1>1, <1>2 DEF MapFits
<1>4. b.page \in Nat /\ b.offset \in Nat /\ Len(pages) \in Nat /\ Len(c) \in Nat
  BY <1>1, <1>3, LenProperties DEF Spans, TypeInv, Data
<1>5. b \in Blocks
  BY <1>2, <1>3, <1>4 DEF Spans, Blocks
<1>6. page \in Data
  <2>1. b.page + 1 \in 1 .. Len(pages)
    BY <1>3, <1>4
  <2> QED
    BY <1>1, <2>1, ElementOfSeq DEF TypeInv
<1>7. Len(page) \in Nat /\ c # Unreadable
  BY <1>1, <1>6, LenProperties, WriterAssumption DEF Data
<1> HIDE DEF c, page
<1>8. ~(b.offset + b.size > Len(page)) /\ SubSeq(page, b.offset + 1, b.offset + b.size) = c
  BY <1>2, <1>7 DEF Within
<1> QED
  BY SMTT(30), <1>2, <1>3, <1>4, <1>5, <1>7, <1>8 DEF Holds, InPage, c, page

LEMMA AddBufferDuplicateStep ==
  ASSUME IInv, pc = "add", NEW b \in Duplicates(job.data), SetEntry(job.file, <<b>>),
         Go("idle", NULL), UNCHANGED <<buffers, purge, pages, pageMap, modes>>
  PROVE  IInv'
<1> DEFINE e == <<b>>
<1>1. ~fatalError /\ TypeInv /\ saved = 0 /\ pc' = "idle" /\ job' = NULL
  BY Adding DEF Go
<1>2. b \in Blocks /\ Stored(b, pages)
  BY DuplicateHolds DEF Stored
<1>3. e \in Seq(Blocks) /\ e # <<>> /\ \A i \in DOMAIN e : Stored(e[i], pages')
  BY <1>2
<1> HIDE DEF e
<1>4. Grown(pages, pages') /\ pages' \in Seq(Data)
      /\ \A i \in DOMAIN pages' : Len(pages'[i]) \in 1 .. PageSize
  BY <1>1, GrownSame DEF TypeInv
<1>5. /\ index' \in [Files -> Seq(Blocks) \cup {NULL}]
      /\ \A f \in Files : index'[f] # NULL => index'[f] # <<>>
      /\ BuffersFit' /\ Owned' /\ InPages' /\ MapFits'
  BY <1>1, <1>3, <1>4, EntryStep DEF modes, e
<1>6. TypeInv'
  BY <1>1, <1>4, <1>5 DEF TypeInv, modes
<1>7. PurgeFits' /\ JobFits' /\ SlotFits' /\ PiecesFit'
  BY <1>1 DEF IInv, PurgeFits, Purging, JobFits, SlotFits, PiecesFit, modes, purge
<1>8. Bounded'
  BY <1>1, SameSize DEF IInv, Bounded, modes
<1> QED
  BY <1>5, <1>6, <1>7, <1>8 DEF IInv

\* A buffer of its own
LEMMA AddBufferNewStep ==
  ASSUME IInv, pc = "add",
         SetEntry(job.file, <<Block(-Len(buffers) - 1, 0, Len(job.data))>>),
         buffers' = Append(buffers, [file |-> job.file, data |-> job.data,
                                     length |-> Len(job.data), alive |-> TRUE]),
         Go(IF IsFull THEN "sort" ELSE "idle", NULL), UNCHANGED <<purge, pages, pageMap, modes>>
  PROVE  IInv'
<1> DEFINE n == Len(buffers)
           c == job.data
           e == <<Block(-n - 1, 0, Len(c))>>
           b == [file |-> job.file, data |-> c, length |-> Len(c), alive |-> TRUE]
<1>0. /\ ~fatalError /\ TypeInv /\ Owned /\ BuffersFit /\ InPages /\ MapFits
      /\ job # NULL /\ job.file \in Files /\ c \in Contents /\ c \in Data
      /\ saved = 0 /\ order = <<>> /\ Saved = {} /\ Gone = {}
  BY Adding
<1>1. c # <<>> /\ Len(c) \in Nat /\ (isWriteToMemory \/ Len(c) <= PageSize)
  BY <1>0, LenProperties DEF IInv, JobFits, Data
<1>2. job' = NULL /\ UNCHANGED <<purge, pages, pageMap, modes>> /\ SetEntry(job.file, e)
      /\ buffers' = Append(buffers, b)
      /\ pc' = IF IsFull THEN "sort" ELSE "idle"
  BY DEF Go
<1>3. n \in Nat /\ DOMAIN buffers = 1 .. n
      /\ \A k \in 1 .. n : buffers[k] \in Buffers /\ buffers[k].file \in Files
  <2>1. buffers \in Seq(Buffers)
    BY <1>0 DEF TypeInv
  <2>2. n \in Nat /\ DOMAIN buffers = 1 .. n /\ \A k \in 1 .. n : buffers[k] \in Buffers
    BY <2>1, LenProperties, ElementOfSeq
  <2> QED
    BY <2>2 DEF Buffers
<1>4. e \in Seq(Blocks) /\ e # <<>> /\ \A i \in DOMAIN e : ~(e[i].page >= 0)
  <2>1. Block(-n - 1, 0, Len(c)) \in Blocks /\ ~(Block(-n - 1, 0, Len(c)).page >= 0)
    BY <1>1, <1>3 DEF Block, Blocks
  <2> QED
    BY <2>1
<1>5. b \in Buffers
  BY <1>0, <1>1 DEF Buffers
<1>6. /\ buffers' \in Seq(Buffers) /\ Len(buffers') = n + 1 /\ DOMAIN buffers' = 1 .. n + 1
      /\ \A k \in 1 .. n : buffers'[k] = buffers[k]
      /\ buffers'[n + 1] = b
  <2>1. buffers \in Seq(Buffers)
    BY <1>0 DEF TypeInv
  <2> HIDE DEF b
  <2>2. /\ buffers' \in Seq(Buffers) /\ Len(buffers') = n + 1
        /\ \A k \in 1 .. n : buffers'[k] = buffers[k] /\ buffers'[n + 1] = b
    BY <1>2, <1>5, <2>1, AppendProperties
  <2>3. DOMAIN buffers' = 1 .. n + 1
    BY <2>2, LenProperties
  <2> QED
    BY <1>2, <1>5, <2>1, <2>2, <2>3, AppendProperties
<1>7. /\ index' \in [Files -> Seq(Blocks) \cup {NULL}]
      /\ \A f \in Files : index'[f] # NULL => index'[f] # <<>>
      /\ \A f \in Files : f # job.file => index'[f] = index[f]
      /\ index'[job.file] = e /\ e # NULL
  <2> HIDE DEF e
  <2>1. e # NULL
    BY <1>4, WriterAssumption
  <2> QED
    BY <1>0, <1>2, <1>4, <2>1 DEF TypeInv, SetEntry
<1>8. \A k \in 1 .. n : buffers[k].alive =>
        buffers[k].file # job.file /\ index'[buffers[k].file] = index[buffers[k].file]
  BY <1>0, <1>3, <1>7 DEF Owned
<1>b. b.file = job.file /\ b.data = c /\ b.length = Len(c) /\ b.alive = TRUE
  OBVIOUS
<1>9. \A k \in 1 .. n + 1 : k \in 1 .. n \/ k = n + 1
  BY <1>3
<1> HIDE DEF b, c, n, e
<1>10. TypeInv'
  BY <1>0, <1>2, <1>6, <1>7 DEF TypeInv, modes
<1>11. BuffersFit'
  <2>1. \A k \in DOMAIN buffers' : buffers'[k].alive => index'[buffers'[k].file] # NULL
    <3> SUFFICES ASSUME NEW k \in 1 .. n + 1, buffers'[k].alive
                 PROVE  index'[buffers'[k].file] # NULL
      BY <1>6
    <3>1. CASE k \in 1 .. n
      BY <1>0, <1>3, <1>6, <1>8, <3>1 DEF BuffersFit
    <3>2. CASE k = n + 1
      BY <1>6, <1>7, <1>b, <3>2
    <3> QED
      BY <1>9, <3>1, <3>2
  <2>2. \A k, l \in DOMAIN buffers' :
          buffers'[k].alive /\ buffers'[l].alive /\ buffers'[k].file = buffers'[l].file => k = l
    <3> SUFFICES ASSUME NEW k \in 1 .. n + 1, NEW l \in 1 .. n + 1, buffers'[k].alive,
                        buffers'[l].alive, buffers'[k].file = buffers'[l].file
                 PROVE  k = l
      BY <1>6
    <3>1. CASE k \in 1 .. n /\ l \in 1 .. n
      BY <1>0, <1>3, <1>6, <3>1 DEF BuffersFit
    <3>2. CASE k = n + 1 \/ l = n + 1
      BY <1>6, <1>8, <1>9, <1>b, <3>2
    <3> QED
      BY <1>9, <3>1, <3>2
  <2>3. \A k \in DOMAIN buffers' :
          buffers'[k].data # NULL /\ ~isWriteToMemory' => Len(buffers'[k].data) <= PageSize
    BY <1>0, <1>1, <1>2, <1>3, <1>6, <1>9, <1>b DEF BuffersFit, modes
  <2> QED
    BY <2>1, <2>2, <2>3 DEF BuffersFit
<1>12. Saved' = {} /\ Gone' = {}
  BY <1>0, <1>2 DEF Saved, Gone, purge
<1>13. Owned'
  <2> SUFFICES ASSUME NEW k \in 1 .. n + 1
               PROVE  /\ buffers'[k].alive => index'[buffers'[k].file] = <<Block(-k, 0, buffers'[k].length)>>
                      /\ buffers'[k].data \in Contents \ {<<>>}
                      /\ buffers'[k].length = Len(buffers'[k].data)
    BY <1>2, <1>6, <1>12 DEF Owned
  <2>1. CASE k \in 1 .. n
    BY ZenonT(40), <1>0, <1>3, <1>6, <1>8, <2>1 DEF Owned
  <2>2. CASE k = n + 1
    <3>1. -k = -n - 1
      BY <1>3, <2>2
    <3> QED
      BY <1>0, <1>1, <1>6, <1>7, <1>b, <2>2, <3>1 DEF e
  <2> QED
    BY <1>9, <2>1, <2>2
<1>14. InPages'
  <2> SUFFICES ASSUME NEW f \in Files, index'[f] # NULL, NEW i \in DOMAIN index'[f],
                      index'[f][i].page >= 0
               PROVE  Stored(index'[f][i], pages')
    BY DEF InPages
  <2>1. f # job.file
    BY <1>4, <1>7
  <2> QED
    BY <1>0, <1>2, <1>7, <2>1 DEF InPages
<1>15. MapFits' /\ SlotFits' /\ PiecesFit'
  BY <1>0, <1>2 DEF MapFits, SlotFits, PiecesFit, modes, purge
<1>16. PurgeFits' /\ JobFits'
  <2>1. buffers' # <<>>
    BY <1>3, <1>6
  <2> QED
    BY <1>0, <1>2, <2>1 DEF IInv, PurgeFits, JobFits, Purging, modes, purge, IsFull
<1>17. Bounded'
  <2> SUFFICES ASSUME ~isWriteToMemory, ~IsFull PROVE BufferSize' < MaxBufferSize
    BY <1>2 DEF Bounded, modes
  <2>1. BufferSize = Total(Lengths(buffers)) /\ BufferSize' = Total(Lengths(buffers'))
    BY DEF BufferSize, Lengths
  <2>2. buffers \in Seq(Buffers)
    BY <1>0 DEF TypeInv
  <2>3. Lengths(buffers') = Append(Lengths(buffers), Len(c)) /\ Lengths(buffers) \in Seq(Nat)
    BY <1>2, <1>5, <1>b, <2>2, SizeGrows, SizeIsTotal
  <2>4. BufferSize' = BufferSize + Len(c) /\ BufferSize \in Nat
    BY <1>1, <2>1, <2>3, TotalAppend, TotalNat
  <2>5. ~(BufferSize + Len(c) >= MaxBufferSize)
    BY DEF IsFull, c
  <2> QED
    BY <1>1, <2>4, <2>5, WriterAssumption
<1> QED
  BY <1>10, <1>11, <1>13, <1>14, <1>15, <1>16, <1>17 DEF IInv

LEMMA AddBufferStep ==
  ASSUME IInv, AddBuffer
  PROVE  IInv'
<1>1. CASE \E b \in Duplicates(job.data) : SetEntry(job.file, <<b>>)
  <2>1. PICK b \in Duplicates(job.data) : SetEntry(job.file, <<b>>)
    BY <1>1
  <2>2. CASE Go("idle", NULL) /\ UNCHANGED <<buffers, purge>>
    BY <2>1, <2>2, AddBufferDuplicateStep DEF AddBuffer
  <2>3. CASE ~(Go("idle", NULL) /\ UNCHANGED <<buffers, purge>>)
    BY <2>3, AddBufferNewStep DEF AddBuffer
  <2> QED
    BY <2>2, <2>3
<1>2. CASE ~\E b \in Duplicates(job.data) : SetEntry(job.file, <<b>>)
  BY <1>2, AddBufferNewStep DEF AddBuffer
<1> QED
  BY <1>1, <1>2

-----------------------------------------------------------------------------
(* Big files.                                                              *)

LEMMA Division ==
  ASSUME NEW m \in Nat, NEW P \in Nat \ {0}
  PROVE  (m \div P) \in Nat /\ (m \div P) * P <= m /\ m < (m \div P) * P + P
OBVIOUS

LEMMA Products ==
  ASSUME NEW m \in Nat, NEW n \in Nat, NEW P \in Nat, m <= n
  PROVE  m * P \in Nat /\ m * P <= n * P /\ (m + 1) * P = m * P + P
OBVIOUS

\* The pieces of a content are as many as it takes.
LEMMA Pieces ==
  ASSUME NEW c \in Data, c # <<>>
  PROVE  /\ BlocksOf(c) \in Nat /\ BlocksOf(c) >= 1
         /\ BlocksOf(c) * PageSize >= Len(c)
         /\ \A i \in Nat : i < BlocksOf(c) => i * PageSize \in Nat /\ i * PageSize < Len(c)
<1> DEFINE q == BlocksOf(c)
           n == Len(c)
           P == PageSize
<1>1. n \in Nat \ {0} /\ P \in Nat \ {0}
  BY EmptySeq, LenProperties, WriterAssumption DEF Data
<1>2. q = (n + P - 1) \div P
  BY DEF BlocksOf
<1> HIDE DEF q, n, P
<1>3. n + P - 1 \in Nat
  BY <1>1
<1>4. q \in Nat /\ q * P <= n + P - 1 /\ n + P - 1 < q * P + P
  BY <1>1, <1>2, <1>3, Division
<1>5. q >= 1
  BY <1>1, <1>4
<1>6. q * P >= n
  BY <1>1, <1>4
<1>7. ASSUME NEW i \in Nat, i < q PROVE i * P \in Nat /\ i * P < n
  <2>1. i + 1 \in Nat /\ i + 1 <= q
    BY <1>4, <1>7
  <2>2. i * P \in Nat /\ (i + 1) * P <= q * P /\ (i + 1) * P = i * P + P
    BY <1>1, <1>4, <2>1, Products
  <2> QED
    BY <1>1, <1>4, <2>2
<1> QED
  BY <1>4, <1>5, <1>6, <1>7 DEF q, n, P

\* A piece has bytes, and fits a page.
LEMMA PieceFits ==
  ASSUME NEW c \in Data, c # <<>>, NEW i \in 1 .. BlocksOf(c)
  PROVE  PieceOf(c, i) \in Data /\ Len(PieceOf(c, i)) \in 1 .. PageSize
<1> DEFINE n == Len(c)
           P == PageSize
           from == (i - 1) * P
           to == Min2(i * P, n)
<1>1. n \in Nat /\ P \in Nat \ {0} /\ i - 1 \in Nat /\ i \in Nat /\ i - 1 < BlocksOf(c)
  BY Pieces, LenProperties, WriterAssumption DEF Data
<1>2. from \in Nat /\ from < n
  BY <1>1, Pieces
<1>3. i * P = from + P
  <2>1. ((i - 1) + 1) * P = (i - 1) * P + P
    BY <1>1, Products
  <2>2. (i - 1) + 1 = i
    BY <1>1
  <2> QED
    BY <2>1, <2>2
<1> HIDE DEF from, n, P
<1>4. to \in Nat /\ to <= n /\ from < to /\ to <= from + P
  BY <1>1, <1>2, <1>3 DEF Min2
<1> HIDE DEF to
<1>5. \A j \in from + 1 .. to : c[j] \in Byte
  <2>1. \A j \in from + 1 .. to : j \in 1 .. Len(c)
    BY <1>2, <1>4 DEF n
  <2> QED
    BY <2>1, ElementOfSeq DEF Data
<1>6. SubSeq(c, from + 1, to) \in Data /\ Len(SubSeq(c, from + 1, to)) = to - (from + 1) + 1
  <2>1. from + 1 \in Int /\ to \in Int /\ from + 1 <= to
    BY <1>2, <1>4
  <2> QED
    BY <1>5, <2>1, SubSeqProperties DEF Data
<1>7. to - (from + 1) + 1 \in 1 .. P
  BY <1>1, <1>2, <1>4
<1> QED
  BY <1>6, <1>7 DEF PieceOf, from, to, n, P

\* All pieces in a row are the content.
LEMMA PiecesJoined ==
  ASSUME NEW c \in Data, c # <<>>, NEW parts \in Seq(Data), Len(parts) = BlocksOf(c),
         \A i \in 1 .. BlocksOf(c) : parts[i] = PieceOf(c, i)
  PROVE  Joined(parts) = c
<1> DEFINE n == Len(c)
           P == PageSize
           q == BlocksOf(c)
           at == [i \in 0 .. q |-> Min2(i * P, n)]
<1>1. n \in Nat /\ P \in Nat \ {0} /\ q \in Nat /\ q * P >= n
      /\ \A i \in Nat : i < q => i * P \in Nat /\ i * P < n
  BY Pieces, LenProperties, WriterAssumption DEF Data
<1> HIDE DEF n, P, q
<1>2. ASSUME NEW i \in 0 .. q
      PROVE  i * P \in Nat /\ at[i] \in 0 .. n /\ (i < q => at[i] = i * P) /\ (i = q => at[i] = n)
  <2>1. CASE i < q
    BY <1>1, <2>1 DEF Min2
  <2>2. CASE i = q
    <3>1. q * P \in Nat
      BY <1>1, Products
    <3> QED
      BY <1>1, <2>2, <3>1 DEF Min2
  <2> QED
    BY <1>1, <2>1, <2>2
<1>3. at \in [0 .. q -> 0 .. n] /\ at[0] = 0 /\ at[q] = n
  <2>1. at \in [0 .. q -> 0 .. n]
    BY <1>2
  <2>2. 0 \in 0 .. q /\ q \in 0 .. q /\ 0 * P = 0
    BY <1>1
  <2>3. at[0] = 0
    BY <1>1, <1>2, <2>2 DEF Min2
  <2> QED
    BY <1>2, <2>1, <2>2, <2>3
<1>4. ASSUME NEW k \in 1 .. q
      PROVE  at[k - 1] <= at[k] /\ parts[k] = SubSeq(c, at[k - 1] + 1, at[k])
  <2>1. k - 1 \in 0 .. q /\ k \in 0 .. q /\ k - 1 < q /\ (k - 1) + 1 = k /\ k - 1 \in Nat
    BY <1>1
  <2>2. at[k - 1] = (k - 1) * P /\ (k - 1) * P \in Nat /\ (k - 1) * P < n
    BY <1>1, <1>2, <2>1
  <2>3. k * P = (k - 1) * P + P
    BY <1>1, <2>1, Products
  <2>4. at[k] = Min2(k * P, n)
    BY <2>1
  <2>5. at[k - 1] <= at[k]
    BY <1>1, <2>2, <2>3, <2>4 DEF Min2
  <2>6. parts[k] = PieceOf(c, k)
    BY DEF q
  <2> QED
    BY <2>2, <2>4, <2>5, <2>6 DEF PieceOf, P, n
<1> HIDE DEF at
<1>5. /\ at \in [0 .. q -> 0 .. Len(c)] /\ at[0] = 0 /\ at[q] = Len(c) /\ Len(parts) = q
      /\ \A k \in 1 .. q : at[k - 1] <= at[k]
      /\ \A k \in 1 .. q : parts[k] = SubSeq(c, at[k - 1] + 1, at[k])
  BY <1>3, <1>4 DEF n, q
<1>6. q \in Nat
  BY <1>1
<1> HIDE DEF q
<1> QED
  BY <1>5, <1>6, JoinedPieces, Zenon


LEMMA AddEntryStep ==
  ASSUME IInv, AddEntry
  PROVE  IInv'
<1> DEFINE c == job.data
           q == BlocksOf(c)
           e == [i \in 1 .. q |-> Block(-1, 0, 0)]
<1>0. /\ pc = "begin" /\ c # <<>> /\ pc' = "write" /\ job' = job /\ SetEntry(job.file, e)
      /\ UNCHANGED <<buffers, pages, pageMap, modes, purge>>
  BY DEF AddEntry, Go, BlocksOf
<1>1. /\ ~fatalError /\ TypeInv /\ saved = 0 /\ job # NULL /\ job \in Jobs /\ c \in Data
      /\ job.written = 0 /\ order = <<>>
  BY <1>0, Adding DEF IInv, JobFits
<1>2. q \in Nat /\ q >= 1
  BY <1>0, <1>1, Pieces
<1> HIDE DEF q
<1>3. /\ e \in Seq(Blocks) /\ Len(e) = q /\ e # <<>> /\ e # NULL
      /\ \A i \in DOMAIN e : ~(e[i].page >= 0)
  <2>1. Block(-1, 0, 0) \in Blocks /\ ~(Block(-1, 0, 0).page >= 0)
    BY DEF Block, Blocks
  <2>2. e \in Seq(Blocks) /\ Len(e) = q /\ \A i \in DOMAIN e : ~(e[i].page >= 0)
    BY <1>2, <2>1
  <2> HIDE DEF e
  <2> QED
    BY <1>2, <2>2, WriterAssumption
<1> HIDE DEF e
<1>4. Grown(pages, pages') /\ pages' \in Seq(Data)
      /\ \A i \in DOMAIN pages' : Len(pages'[i]) \in 1 .. PageSize
  BY <1>0, <1>1, GrownSame DEF TypeInv
<1>5. /\ index' \in [Files -> Seq(Blocks) \cup {NULL}]
      /\ \A f \in Files : index'[f] # NULL => index'[f] # <<>>
      /\ index'[job.file] = e
      /\ BuffersFit' /\ Owned' /\ InPages' /\ MapFits'
  BY <1>0, <1>1, <1>3, <1>4, EntryStep DEF modes
<1>6. TypeInv'
  BY <1>0, <1>1, <1>4, <1>5 DEF TypeInv, modes
<1>7. JobFits'
  BY <1>0, <1>1, <1>2, <1>3, <1>5 DEF JobFits, modes, q
<1>8. PiecesFit'
  BY <1>0, <1>1 DEF PiecesFit
<1>9. PurgeFits' /\ SlotFits'
  BY <1>0, <1>1 DEF IInv, PurgeFits, Purging, SlotFits, modes, purge
<1>10. Bounded'
  BY <1>0, <1>1, SameSize DEF IInv, Bounded, modes
<1> QED
  BY <1>5, <1>6, <1>7, <1>8, <1>9, <1>10 DEF IInv

\* What is written is the next piece of the content.
LEMMA NextPiece ==
  ASSUME IInv, pc = "write"
  PROVE  /\ job.written + 1 \in 1 .. BlocksOf(job.data) /\ Piece = PieceOf(job.data, job.written + 1)
         /\ Piece \in Data /\ Len(Piece) \in 1 .. PageSize
<1> DEFINE c == job.data
           w == job.written
<1>1. c \in Data /\ w \in Nat /\ c # <<>> /\ w < BlocksOf(c)
  BY Adding DEF IInv, JobFits
<1>2. BlocksOf(c) \in Nat /\ PageSize \in Nat
  BY <1>1, Pieces, WriterAssumption
<1>3. w + 1 \in 1 .. BlocksOf(c) /\ (w + 1) - 1 = w
  BY <1>1, <1>2
<1>4. (w + 1) * PageSize = w * PageSize + PageSize
  BY <1>1, <1>2, Products
<1>5. Piece = PieceOf(c, w + 1)
  BY <1>3, <1>4 DEF Piece, PieceOf, Written
<1> QED
  BY <1>1, <1>3, <1>5, PieceFits

\* The pieces that are written stay, and there is one more.
LEMMA PiecesWritten ==
  ASSUME IInv, WritePage
  PROVE  /\ \E e \in Seq(Blocks) :
              /\ SetEntry(job.file, e) /\ e # <<>> /\ Len(e) = BlocksOf(job.data)
              /\ \A i \in 1 .. job.written + 1 : PieceHeld(e[i], pages', job.data, i)
              /\ \A i \in DOMAIN e : e[i].page >= 0 => Stored(e[i], pages')
         /\ pages' \in Seq(Data) /\ \A i \in DOMAIN pages' : Len(pages'[i]) \in 1 .. PageSize
         /\ Grown(pages, pages')
<1> DEFINE c == job.data
           q == BlocksOf(c)
           next == job.written + 1
           old == index[job.file]
<1>0. pc = "write"
  BY DEF WritePage
<1>1. /\ ~fatalError /\ TypeInv /\ job # NULL /\ job \in Jobs /\ job.file \in Files /\ c \in Data
      /\ old # NULL /\ Len(old) = q /\ c # <<>> /\ PiecesFit /\ InPages
      /\ job.written \in Nat
  BY <1>0, Adding DEF IInv, JobFits
<1>2. next \in 1 .. q /\ Piece = PieceOf(c, next) /\ Piece \in Data /\ Len(Piece) \in 1 .. PageSize
  BY <1>0, NextPiece
<1>3. PICK n \in 0 .. Len(pages) :
        /\ AddPage(Piece, n)
        /\ index' = [index EXCEPT ![job.file][next] = Block(n, 0, Len(Piece))]
  BY DEF WritePage
<1>4. n \in Int /\ n >= 0
  OBVIOUS
<1>5. /\ pages' \in Seq(Data) /\ \A i \in DOMAIN pages' : Len(pages'[i]) \in 1 .. PageSize
      /\ Grown(pages, pages') /\ n \in 0 .. Len(pages') - 1 /\ pages'[n + 1] = Piece
  BY <1>1, <1>2, <1>3, <1>4, AddPageGrows
<1> DEFINE b == Block(n, 0, Len(Piece))
           e == [old EXCEPT ![next] = b]
<1>6. b \in Blocks /\ b.page = n /\ b.offset = 0 /\ b.size = Len(Piece)
  BY <1>2, <1>4 DEF Block, Blocks
<1>7. old \in Seq(Blocks) /\ DOMAIN old = 1 .. q /\ q \in Nat
      /\ \A i \in 1 .. q : old[i] \in Blocks
  <2>1. old \in Seq(Blocks)
    BY <1>1 DEF TypeInv
  <2> QED
    BY <1>1, <2>1, LenProperties, ElementOfSeq
<1>8. SetEntry(job.file, e)
  BY <1>1, <1>3 DEF SetEntry, TypeInv
<1>h. Holds(pages', [page |-> b.page, offset |-> 0], Piece)
  <2>1. SubSeq(Piece, 1, Len(Piece)) = Piece
    BY <1>2, SubSeqFull DEF Data
  <2>2. 0 + Len(Piece) = Len(Piece) /\ 0 + 1 = 1
    BY <1>2
  <2> QED
    BY <1>5, <1>6, <2>1, <2>2 DEF Holds
<1> HIDE DEF b, q
<1>9. /\ e \in Seq(Blocks) /\ Len(e) = q /\ e # <<>>
      /\ e[next] = b /\ \A i \in 1 .. q : i # next => e[i] = old[i]
  <2>1. /\ DOMAIN e = 1 .. q /\ e[next] = b /\ \A i \in 1 .. q : i # next => e[i] = old[i]
        /\ e \in [1 .. q -> Blocks]
    BY <1>2, <1>6, <1>7
  <2> HIDE DEF e
  <2> QED
    BY <1>2, <1>7, <2>1
<1>10. PieceHeld(b, pages', c, next)
  BY <1>2, <1>6, <1>h DEF PieceHeld
<1>11. ASSUME NEW i \in 1 .. next PROVE PieceHeld(e[i], pages', c, i)
  <2>1. i = next \/ (i \in 1 .. job.written /\ i # next)
    BY <1>1
  <2>2. CASE i = next
    BY <1>9, <1>10, <2>2
  <2>3. CASE i \in 1 .. job.written /\ i # next
    <3>1. i \in 1 .. q
      BY <1>1, <1>2, <2>3
    <3>2. e[i] = old[i] /\ old[i] \in Blocks
      BY <1>7, <1>9, <2>3, <3>1
    <3>3. PieceHeld(old[i], pages, c, i)
      BY <1>0, <1>1, <2>3 DEF PiecesFit
    <3>4. [page |-> old[i].page, offset |-> 0] \in Places
      BY <3>2 DEF Places, Blocks
    <3>5. Holds(pages', [page |-> old[i].page, offset |-> 0], PieceOf(c, i))
      BY <1>1, <1>5, <3>3, <3>4, HoldsGrown DEF PieceHeld, TypeInv
    <3> QED
      BY <3>2, <3>3, <3>5 DEF PieceHeld
  <2> QED
    BY <2>1, <2>2, <2>3
<1>12. ASSUME NEW i \in DOMAIN e, e[i].page >= 0 PROVE Stored(e[i], pages')
  <2>1. DOMAIN e = 1 .. q
    BY <1>7
  <2>2. CASE i = next
    BY <1>6, <1>9, <1>h, <2>2 DEF Holds, Stored, InPage
  <2>3. CASE i # next
    <3>1. e[i] = old[i] /\ old[i] \in Blocks
      BY <1>7, <1>9, <2>1, <2>3
    <3>2. Stored(old[i], pages)
      BY <1>1, <1>7, <1>12, <2>1, <3>1 DEF InPages
    <3> QED
      BY <1>1, <1>5, <3>1, <3>2, StoredGrown DEF TypeInv
  <2> QED
    BY <2>2, <2>3
<1> HIDE DEF e
<1> QED
  BY <1>5, <1>8, <1>9, <1>11, <1>12 DEF q

LEMMA WritePageStep ==
  ASSUME IInv, WritePage
  PROVE  IInv'
<1> DEFINE next == job.written + 1
<1>0. /\ pc = "write" /\ UNCHANGED <<buffers, pageMap, modes, purge>>
      /\ IF next = Len(index[job.file]) THEN pc' = "idle" /\ job' = NULL
                                        ELSE pc' = "write" /\ job' = [job EXCEPT !.written = next]
  BY DEF WritePage, Go
<1>1. /\ ~fatalError /\ TypeInv /\ saved = 0 /\ job # NULL /\ job \in Jobs /\ job.file \in Files
      /\ job.data \in Data /\ order = <<>> /\ job.written \in Nat
      /\ Len(index[job.file]) = BlocksOf(job.data)
  BY <1>0, Adding DEF IInv, JobFits
<1>2. PICK e \in Seq(Blocks) :
        /\ SetEntry(job.file, e) /\ e # <<>> /\ Len(e) = BlocksOf(job.data)
        /\ \A i \in 1 .. next : PieceHeld(e[i], pages', job.data, i)
        /\ \A i \in DOMAIN e : e[i].page >= 0 => Stored(e[i], pages')
  BY PiecesWritten
<1>3. /\ pages' \in Seq(Data) /\ \A i \in DOMAIN pages' : Len(pages'[i]) \in 1 .. PageSize
      /\ Grown(pages, pages')
  BY PiecesWritten
<1>4. next \in 1 .. BlocksOf(job.data)
  BY <1>0, NextPiece
<1> DEFINE job1 == [job EXCEPT !.written = next]
<1>j. /\ job1 \in Jobs /\ job1 # NULL /\ job1.file = job.file /\ job1.data = job.data
      /\ job1.written = next
  <2>1. job1 \in Jobs /\ job1.file = job.file /\ job1.data = job.data /\ job1.written = next
    BY <1>1 DEF Jobs
  <2> HIDE DEF job1
  <2> QED
    BY <2>1, WriterAssumption
<1>i. IF next = Len(index[job.file]) THEN pc' = "idle" /\ job' = NULL
                                     ELSE pc' = "write" /\ job' = job1
  BY <1>0
<1> HIDE DEF job1
<1>5. job' = NULL \/ (/\ job' \in Jobs /\ job' # NULL /\ job'.file = job.file
                      /\ job'.data = job.data /\ job'.written = next)
  BY <1>j, <1>i
<1>6. /\ index' \in [Files -> Seq(Blocks) \cup {NULL}]
      /\ \A f \in Files : index'[f] # NULL => index'[f] # <<>>
      /\ index'[job.file] = e /\ e # NULL
      /\ BuffersFit' /\ Owned' /\ InPages' /\ MapFits'
  BY <1>0, <1>1, <1>2, <1>3, <1>5, EntryStep, WriterAssumption DEF modes
<1>7. pc' = "write" => job' # NULL /\ next < BlocksOf(job.data)
  <2>1. BlocksOf(job.data) \in Nat
    BY <1>0, <1>1, Pieces DEF IInv, JobFits
  <2> QED
    BY <1>1, <1>4, <1>i, <1>j, <2>1
<1>8. TypeInv'
  <2>1. (job' # NULL) <=> (pc' = "write")
    BY <1>i, <1>j
  <2> QED
    BY <1>0, <1>1, <1>3, <1>5, <1>6, <1>i, <2>1 DEF TypeInv, modes
<1>9. JobFits'
  BY <1>0, <1>1, <1>2, <1>5, <1>6, <1>7 DEF IInv, JobFits, modes
<1>10. PiecesFit'
  BY <1>2, <1>5, <1>6, <1>7 DEF PiecesFit
<1>11. PurgeFits' /\ SlotFits'
  BY <1>0, <1>1 DEF IInv, PurgeFits, Purging, SlotFits, modes, purge
<1>12. Bounded'
  BY <1>0, <1>1, SameSize DEF IInv, Bounded, modes
<1> QED
  BY <1>6, <1>8, <1>9, <1>10, <1>11, <1>12 DEF IInv

LEMMA WriteFailsStep ==
  ASSUME IInv, WriteFails
  PROVE  IInv'
<1>0. /\ pc = "write" /\ pc' = "idle" /\ job' = NULL /\ SetEntry(job.file, NULL)
      /\ UNCHANGED <<buffers, pages, pageMap, isWriteToMemory, purge>>
      /\ fatalError' \in BOOLEAN
  BY Adding DEF WriteFails, Go, IInv, TypeInv
<1>1. /\ ~fatalError /\ TypeInv /\ saved = 0 /\ order = <<>>
  BY <1>0, Adding
<1>3. Grown(pages, pages') /\ pages' \in Seq(Data)
      /\ \A i \in DOMAIN pages' : Len(pages'[i]) \in 1 .. PageSize
  BY <1>0, <1>1, GrownSame DEF TypeInv
<1>4. NULL \in Seq(Blocks) \cup {NULL} /\ NULL # <<>>
  BY WriterAssumption, EmptySeq
<1>5. /\ index' \in [Files -> Seq(Blocks) \cup {NULL}]
      /\ \A f \in Files : index'[f] # NULL => index'[f] # <<>>
      /\ BuffersFit' /\ Owned' /\ InPages' /\ MapFits'
  BY <1>0, <1>3, <1>4, EntryStep
<1>6. TypeInv'
  BY <1>0, <1>1, <1>3, <1>5 DEF TypeInv
<1>7. PurgeFits' /\ JobFits' /\ SlotFits' /\ PiecesFit'
  BY <1>0, <1>1 DEF IInv, PurgeFits, Purging, JobFits, SlotFits, PiecesFit, purge
<1>8. Bounded'
  BY <1>0, <1>1, SameSize DEF IInv, Bounded
<1> QED
  BY <1>5, <1>6, <1>7, <1>8 DEF IInv

-----------------------------------------------------------------------------
(* Files and buffers that go.                                              *)

\* What the invariant says of an index and buffers while nothing is purged
Fit(idx, bufs) ==
  /\ idx \in [Files -> Seq(Blocks) \cup {NULL}]
  /\ \A f \in Files : idx[f] # NULL => idx[f] # <<>>
  /\ bufs \in Seq(Buffers)
  /\ \A k \in 1 .. Len(bufs) : bufs[k].alive => idx[bufs[k].file] # NULL
  /\ \A k, l \in 1 .. Len(bufs) :
       bufs[k].alive /\ bufs[l].alive /\ bufs[k].file = bufs[l].file => k = l
  /\ \A k \in 1 .. Len(bufs) :
       bufs[k].data # NULL /\ ~isWriteToMemory => Len(bufs[k].data) <= PageSize
  /\ ~fatalError =>
       /\ \A k \in 1 .. Len(bufs) :
            /\ bufs[k].alive => idx[bufs[k].file] = <<Block(-k, 0, bufs[k].length)>>
            /\ bufs[k].data \in Contents \ {<<>>} /\ bufs[k].length = Len(bufs[k].data)
       /\ \A f \in Files : idx[f] # NULL =>
            \A i \in DOMAIN idx[f] : idx[f][i].page >= 0 => Stored(idx[f][i], pages)

LEMMA NowFit ==
  ASSUME IInv, ~Purging
  PROVE  Fit(index, buffers)
<1>1. TypeInv /\ BuffersFit /\ saved = 0 /\ (~fatalError => Owned /\ InPages)
  BY DEF IInv, PurgeFits
<1>2. Saved = {} /\ Gone = {}
  BY <1>1 DEF Saved, Gone
<1>3. DOMAIN buffers = 1 .. Len(buffers)
  BY <1>1, LenProperties DEF TypeInv
<1> QED
  BY <1>1, <1>2, <1>3 DEF Fit, TypeInv, BuffersFit, Owned, InPages

LEMMA NextFit ==
  ASSUME IInv, pc = "idle", UNCHANGED <<pages, modes, purge>>, Fit(index', buffers'),
         pc' \in {"idle", "begin"}, job' \in Jobs \cup {NULL}, (job' # NULL) <=> pc' = "begin",
         job' # NULL => job'.written = 0 /\ ~fatalError,
         \A k \in 1 .. Len(buffers') :
           buffers'[k].alive /\ job' # NULL /\ ~fatalError => buffers'[k].file # job'.file,
         ~fatalError => MapFits', ~fatalError => Bounded'
  PROVE  IInv'
<1>1. TypeInv /\ saved = 0 /\ order = <<>>
  BY DEF IInv, PurgeFits, Purging
<1>2. DOMAIN buffers' = 1 .. Len(buffers')
  BY LenProperties DEF Fit
<1>3. TypeInv'
  BY <1>1 DEF TypeInv, modes, Fit
<1>4. PurgeFits' /\ JobFits' /\ SlotFits' /\ PiecesFit'
  BY <1>1 DEF PurgeFits, Purging, JobFits, SlotFits, PiecesFit, modes, purge
<1>5. BuffersFit'
  BY <1>2 DEF Fit, BuffersFit, modes
<1>6. Saved' = {} /\ Gone' = {}
  BY <1>1 DEF Saved, Gone, purge
<1>7. ~fatalError => Owned' /\ InPages'
  BY <1>2, <1>6 DEF Fit, Owned, InPages
<1> QED
  BY <1>3, <1>4, <1>5, <1>7 DEF IInv, modes

LEMMA RemovedAt ==
  ASSUME NEW S, NEW s \in Seq(S), NEW k \in 1 .. Len(s)
  PROVE  /\ RemoveAt(s, k) \in Seq(S) /\ Len(RemoveAt(s, k)) = Len(s) - 1
         /\ \A l \in 1 .. Len(s) - 1 : RemoveAt(s, k)[l] = IF l < k THEN s[l] ELSE s[l + 1]
<1> DEFINE n == Len(s)
           a == SubSeq(s, 1, k - 1)
           b == SubSeq(s, k + 1, n)
<1>1. n \in Nat /\ \A l \in 1 .. n : s[l] \in S
  BY LenProperties, ElementOfSeq
<1>2. k \in 1 .. n
  OBVIOUS
<1>3. a \in Seq(S) /\ Len(a) = k - 1 /\ \A l \in 1 .. k - 1 : a[l] = s[l]
  <2>1. CASE k = 1
    <3>1. a = <<>>
      BY <2>1, SubSeqEmpty
    <3> QED
      BY <2>1, <3>1, EmptySeq
  <2>2. CASE k # 1
    <3>1. 1 <= k - 1 /\ k - 1 \in Int /\ \A l \in 1 .. k - 1 : l \in 1 .. n
      BY <1>1, <1>2, <2>2
    <3>2. a \in Seq(S) /\ Len(a) = (k - 1) - 1 + 1
          /\ \A l \in 1 .. (k - 1) - 1 + 1 : a[l] = s[1 + l - 1]
      BY <1>1, <3>1, SubSeqProperties
    <3>3. (k - 1) - 1 + 1 = k - 1 /\ \A l \in 1 .. k - 1 : 1 + l - 1 = l
      BY <3>1
    <3> HIDE DEF a
    <3> QED
      BY <3>2, <3>3
  <2> QED
    BY <2>1, <2>2
<1>4. b \in Seq(S) /\ Len(b) = n - k /\ \A l \in 1 .. n - k : b[l] = s[k + l]
  <2>1. CASE k = n
    <3>1. b = <<>>
      BY <1>1, <2>1, SubSeqEmpty
    <3> QED
      BY <1>1, <2>1, <3>1, EmptySeq
  <2>2. CASE k # n
    <3>1. k + 1 <= n /\ k + 1 \in Int /\ \A l \in k + 1 .. n : l \in 1 .. n
      BY <1>1, <1>2, <2>2
    <3>2. b \in Seq(S) /\ Len(b) = n - (k + 1) + 1
          /\ \A l \in 1 .. n - (k + 1) + 1 : b[l] = s[k + 1 + l - 1]
      BY <1>1, <3>1, SubSeqProperties
    <3>3. n - (k + 1) + 1 = n - k /\ \A l \in 1 .. n - k : k + 1 + l - 1 = k + l
      BY <1>1, <3>1
    <3> HIDE DEF b
    <3> QED
      BY <3>2, <3>3
  <2> QED
    BY <2>1, <2>2
<1>5. RemoveAt(s, k) = a \o b
  BY DEF RemoveAt
<1> HIDE DEF a, b, n
<1>6. /\ a \o b \in Seq(S) /\ Len(a \o b) = (k - 1) + (n - k)
      /\ \A l \in 1 .. (k - 1) + (n - k) :
           (a \o b)[l] = IF l <= k - 1 THEN a[l] ELSE b[l - (k - 1)]
  <2>1. /\ a \o b \in Seq(S) /\ Len(a \o b) = Len(a) + Len(b)
        /\ \A l \in 1 .. Len(a) + Len(b) : (a \o b)[l] = IF l <= Len(a) THEN a[l] ELSE b[l - Len(a)]
    BY <1>3, <1>4, ConcatProperties
  <2> QED
    BY <1>3, <1>4, <2>1
<1>7. (k - 1) + (n - k) = n - 1
  BY <1>1, <1>2
<1>8. ASSUME NEW l \in 1 .. n - 1 PROVE (a \o b)[l] = IF l < k THEN s[l] ELSE s[l + 1]
  <2>1. (a \o b)[l] = IF l <= k - 1 THEN a[l] ELSE b[l - (k - 1)]
    BY <1>6, <1>7
  <2>2. CASE l < k
    <3>1. l <= k - 1 /\ l \in 1 .. k - 1
      BY <1>1, <1>2, <2>2
    <3> QED
      BY <1>3, <2>1, <2>2, <3>1
  <2>3. CASE ~(l < k)
    <3>1. ~(l <= k - 1) /\ l - (k - 1) \in 1 .. n - k /\ k + (l - (k - 1)) = l + 1
      BY <1>1, <1>2, <2>3
    <3> QED
      BY <1>4, <2>1, <2>3, <3>1
  <2> QED
    BY <2>2, <2>3
<1> QED
  BY <1>5, <1>6, <1>7, <1>8 DEF n

\* The k-th buffer goes, and entries of the buffers behind it are renumbered.
Gap(f, k, idx, bufs) ==
  /\ k \in 1 .. Len(buffers) /\ buffers[k].alive /\ buffers[k].file = f
  /\ bufs \in Seq(Buffers) /\ Len(bufs) = Len(buffers) - 1
  /\ \A l \in 1 .. Len(buffers) - 1 : bufs[l] = IF l < k THEN buffers[l] ELSE buffers[l + 1]
  /\ idx \in [Files -> Seq(Blocks) \cup {NULL}]
  /\ \A g \in Files : idx[g] # NULL => idx[g] # <<>>
  /\ \A g \in Files : (idx[g] = NULL) <=> (index[g] = NULL)
  /\ \A g \in Files :
       (\A j \in 1 .. Len(buffers) : j > k /\ buffers[j].alive => buffers[j].file # g)
         => idx[g] = index[g]
  /\ \A j \in 1 .. Len(buffers), n \in Nat :
       j > k /\ buffers[j].alive /\ index[buffers[j].file] = <<Block(-j, 0, n)>>
         => idx[buffers[j].file] = <<Block(-j + 1, 0, n)>>

LEMMA Without ==
  ASSUME Fit(index, buffers), NEW f \in Files
  PROVE  \/ Removed(f) = {} /\ BuffersWithout(f) = buffers /\ IndexWithout(f) = index
         \/ \E k : Removed(f) = {k} /\ Gap(f, k, IndexWithout(f), BuffersWithout(f))
<1> DEFINE n == Len(buffers)
<1>0. /\ index \in [Files -> Seq(Blocks) \cup {NULL}] /\ buffers \in Seq(Buffers)
      /\ \A g \in Files : index[g] # NULL => index[g] # <<>>
      /\ \A k \in 1 .. n : buffers[k].alive => index[buffers[k].file] # NULL
      /\ \A k, l \in 1 .. n :
           buffers[k].alive /\ buffers[l].alive /\ buffers[k].file = buffers[l].file => k = l
  BY DEF Fit
<1>1. n \in Nat /\ DOMAIN buffers = 1 .. n /\ \A k \in 1 .. n : buffers[k].file \in Files
  <2>1. n \in Nat /\ DOMAIN buffers = 1 .. n /\ \A k \in 1 .. n : buffers[k] \in Buffers
    BY <1>0, LenProperties, ElementOfSeq
  <2> QED
    BY <2>1 DEF Buffers
<1>2. CASE Removed(f) = {}
  <2>1. IndexWithout(f) = [g \in Files |-> index[g]]
    BY <1>2 DEF IndexWithout
  <2> QED
    BY <1>0, <1>2, <2>1 DEF BuffersWithout
<1>3. CASE Removed(f) # {}
  <2>1. PICK k \in Removed(f) : TRUE
    BY <1>3
  <2>2. k \in 1 .. n /\ buffers[k].alive /\ buffers[k].file = f /\ Removed(f) = PlaceOf(f)
    BY <1>1, <2>1 DEF Removed, PlaceOf
  <2>3. Removed(f) = {k}
    BY <1>0, <1>1, <2>2 DEF PlaceOf
  <2>4. BuffersWithout(f) = RemoveAt(buffers, k)
    BY <2>3 DEF BuffersWithout
  <2> DEFINE behind == {g \in Files : \E j \in PlaceOf(g) : j > k}
             idx == IndexWithout(f)
  <2>5. idx = [g \in Files |-> IF g \in behind THEN [index[g] EXCEPT ![1].page = @ + 1]
                                              ELSE index[g]]
    BY <2>3 DEF IndexWithout
  <2>6. \A g \in Files : g \in behind <=> \E j \in 1 .. n : j > k /\ buffers[j].alive /\ buffers[j].file = g
    BY <1>1 DEF PlaceOf
  <2> HIDE DEF behind, idx
  <2>7. ASSUME NEW g \in Files, g \in behind
        PROVE  /\ idx[g] \in Seq(Blocks) /\ idx[g] # <<>> /\ idx[g] # NULL /\ index[g] # NULL
               /\ \A j \in Nat, m \in Nat : index[g] = <<Block(-j, 0, m)>> => idx[g] = <<Block(-j + 1, 0, m)>>
    <3>1. index[g] # NULL /\ index[g] \in Seq(Blocks) /\ index[g] # <<>>
      BY <1>0, <2>6, <2>7
    <3> DEFINE s == index[g]
               b == [s[1] EXCEPT !.page = @ + 1]
    <3>2. Len(s) \in Nat /\ DOMAIN s = 1 .. Len(s) /\ 1 \in 1 .. Len(s)
      BY <3>1, EmptySeq, LenProperties
    <3>3. s[1] \in Blocks
      BY <3>1, <3>2, ElementOfSeq
    <3>4. b \in Blocks
      BY <3>3 DEF Blocks
    <3>5. idx[g] = [s EXCEPT ![1] = b]
      BY <2>5, <2>7
    <3>6. idx[g] \in Seq(Blocks) /\ Len(idx[g]) = Len(s)
      BY <3>1, <3>2, <3>4, <3>5, ExceptSeq
    <3>7. idx[g] # <<>>
      BY <3>2, <3>6, EmptySeq
    <3>8. ASSUME NEW j \in Nat, NEW m \in Nat, s = <<Block(-j, 0, m)>> PROVE idx[g] = <<Block(-j + 1, 0, m)>>
      <4>1. s[1] = Block(-j, 0, m) /\ Len(s) = 1
        BY <3>8
      <4>2. b = Block(-j + 1, 0, m)
        BY <4>1 DEF Block
      <4>3. idx[g][1] = b
        BY <3>2, <3>5
      <4> HIDE DEF b
      <4> QED
        BY <3>6, <4>1, <4>2, <4>3
    <3> QED
      BY <3>1, <3>6, <3>7, <3>8, WriterAssumption
  <2>8. ASSUME NEW g \in Files, g \notin behind PROVE idx[g] = index[g]
    BY <2>5, <2>8
  <2>9. idx \in [Files -> Seq(Blocks) \cup {NULL}]
    <3>1. \A g \in Files : idx[g] \in Seq(Blocks) \cup {NULL}
      BY <1>0, <2>7, <2>8
    <3>2. idx = [g \in Files |-> idx[g]]
      BY <2>5
    <3> QED
      BY <3>1, <3>2
  <2>10. /\ BuffersWithout(f) \in Seq(Buffers) /\ Len(BuffersWithout(f)) = n - 1
         /\ \A l \in 1 .. n - 1 : BuffersWithout(f)[l] = IF l < k THEN buffers[l] ELSE buffers[l + 1]
    BY <1>0, <2>2, <2>4, RemovedAt
  <2>11. \A g \in Files : idx[g] # NULL => idx[g] # <<>>
    BY <1>0, <2>7, <2>8
  <2>12. \A g \in Files : (idx[g] = NULL) <=> (index[g] = NULL)
    BY <2>7, <2>8
  <2>13. \A g \in Files :
           (\A j \in 1 .. n : j > k /\ buffers[j].alive => buffers[j].file # g) => idx[g] = index[g]
    BY <2>6, <2>8
  <2>14. \A j \in 1 .. n, m \in Nat :
           j > k /\ buffers[j].alive /\ index[buffers[j].file] = <<Block(-j, 0, m)>>
             => idx[buffers[j].file] = <<Block(-j + 1, 0, m)>>
    <3> SUFFICES ASSUME NEW j \in 1 .. n, NEW m \in Nat, j > k, buffers[j].alive,
                        index[buffers[j].file] = <<Block(-j, 0, m)>>
                 PROVE  idx[buffers[j].file] = <<Block(-j + 1, 0, m)>>
      OBVIOUS
    <3>1. buffers[j].file \in Files /\ buffers[j].file \in behind /\ j \in Nat
      BY <1>1, <2>6
    <3> QED
      BY <2>7, <3>1
  <2>15. Gap(f, k, idx, BuffersWithout(f))
    BY <2>2, <2>9, <2>10, <2>11, <2>12, <2>13, <2>14 DEF Gap
  <2> QED
    BY <2>3, <2>15 DEF idx
<1> QED
  BY <1>2, <1>3

\* A buffer that goes leaves the others as they have to be, and none of the file.
LEMMA GapFit ==
  ASSUME Fit(index, buffers), NEW f \in Files, NEW k, NEW idx, NEW bufs, Gap(f, k, idx, bufs)
  PROVE  /\ Fit(idx, bufs)
         /\ \A l \in 1 .. Len(bufs) : bufs[l].alive => bufs[l].file # f
         /\ Total(Lengths(bufs)) <= Total(Lengths(buffers))
<1> DEFINE n == Len(buffers)
<1>0. /\ index \in [Files -> Seq(Blocks) \cup {NULL}] /\ buffers \in Seq(Buffers)
      /\ \A l \in 1 .. n : buffers[l].alive => index[buffers[l].file] # NULL
      /\ \A j, l \in 1 .. n :
           buffers[j].alive /\ buffers[l].alive /\ buffers[j].file = buffers[l].file => j = l
      /\ \A l \in 1 .. n :
           buffers[l].data # NULL /\ ~isWriteToMemory => Len(buffers[l].data) <= PageSize
  BY DEF Fit
<1>1. /\ k \in 1 .. n /\ buffers[k].alive /\ buffers[k].file = f
      /\ bufs \in Seq(Buffers) /\ Len(bufs) = n - 1
      /\ \A l \in 1 .. n - 1 : bufs[l] = IF l < k THEN buffers[l] ELSE buffers[l + 1]
      /\ idx \in [Files -> Seq(Blocks) \cup {NULL}] /\ \A g \in Files : idx[g] # NULL => idx[g] # <<>>
      /\ \A g \in Files : (idx[g] = NULL) <=> (index[g] = NULL)
  BY DEF Gap
<1>2. /\ n \in Nat /\ DOMAIN buffers = 1 .. n
      /\ \A l \in 1 .. n : buffers[l] \in Buffers
      /\ \A l \in 1 .. n : buffers[l].file \in Files /\ buffers[l].length \in Nat
  <2>1. n \in Nat /\ DOMAIN buffers = 1 .. n /\ \A l \in 1 .. n : buffers[l] \in Buffers
    BY <1>0, LenProperties, ElementOfSeq
  <2> QED
    BY <2>1 DEF Buffers
<1> HIDE DEF n
\* Where each of them was
<1>3. \A l \in 1 .. n - 1 :
        \E j \in 1 .. n : j # k /\ bufs[l] = buffers[j] /\ (j < k => l = j) /\ (j > k => l = j - 1)
  <2> SUFFICES ASSUME NEW l \in 1 .. n - 1
               PROVE  \E j \in 1 .. n : j # k /\ bufs[l] = buffers[j] /\ (j < k => l = j) /\ (j > k => l = j - 1)
    OBVIOUS
  <2>1. CASE l < k
    <3>1. bufs[l] = buffers[l] /\ l \in 1 .. n /\ l # k
      BY <1>1, <1>2, <2>1
    <3> QED
      BY <1>1, <2>1, <3>1
  <2>2. CASE ~(l < k)
    <3>1. bufs[l] = buffers[l + 1] /\ l + 1 \in 1 .. n /\ l + 1 # k /\ l = (l + 1) - 1 /\ ~(l + 1 < k)
      BY <1>1, <1>2, <2>2
    <3> QED
      BY <3>1
  <2> QED
    BY <2>1, <2>2
<1>4. \A l \in 1 .. n - 1 : bufs[l].alive => bufs[l].file # f
  BY SMTT(30), <1>0, <1>1, <1>3
<1>5. \A l \in 1 .. n - 1 : bufs[l].alive => idx[bufs[l].file] # NULL
  BY <1>0, <1>1, <1>2, <1>3
<1>6. ASSUME NEW l \in 1 .. n - 1, NEW m \in 1 .. n - 1, bufs[l].alive, bufs[m].alive,
             bufs[l].file = bufs[m].file
      PROVE  l = m
  <2>1. PICK i \in 1 .. n : i # k /\ bufs[l] = buffers[i] /\ (i < k => l = i) /\ (i > k => l = i - 1)
    BY <1>3
  <2>2. PICK j \in 1 .. n : j # k /\ bufs[m] = buffers[j] /\ (j < k => m = j) /\ (j > k => m = j - 1)
    BY <1>3
  <2>3. i = j
    BY <1>0, <1>6, <2>1, <2>2
  <2>4. i < k \/ i > k
    BY <1>1, <1>2, <2>1
  <2> QED
    BY <2>1, <2>2, <2>3, <2>4
<1>7. \A l \in 1 .. n - 1 : bufs[l].data # NULL /\ ~isWriteToMemory => Len(bufs[l].data) <= PageSize
  BY <1>0, <1>3
<1>8. ASSUME ~fatalError
      PROVE  /\ \A l \in 1 .. n - 1 :
                  /\ bufs[l].alive => idx[bufs[l].file] = <<Block(-l, 0, bufs[l].length)>>
                  /\ bufs[l].data \in Contents \ {<<>>} /\ bufs[l].length = Len(bufs[l].data)
             /\ \A g \in Files : idx[g] # NULL =>
                  \A i \in DOMAIN idx[g] : idx[g][i].page >= 0 => Stored(idx[g][i], pages)
  <2>1. /\ \A l \in 1 .. n :
             /\ buffers[l].alive => index[buffers[l].file] = <<Block(-l, 0, buffers[l].length)>>
             /\ buffers[l].data \in Contents \ {<<>>} /\ buffers[l].length = Len(buffers[l].data)
        /\ \A g \in Files : index[g] # NULL =>
             \A i \in DOMAIN index[g] : index[g][i].page >= 0 => Stored(index[g][i], pages)
    BY <1>8 DEF Fit, n
  <2>2. \A j \in 1 .. n : j > k /\ buffers[j].alive =>
          idx[buffers[j].file] = <<Block(-j + 1, 0, buffers[j].length)>>
    BY <1>2, <2>1 DEF Gap, n
  <2>3. ASSUME NEW j \in 1 .. n, j < k, buffers[j].alive
        PROVE  idx[buffers[j].file] = index[buffers[j].file]
    <3>1. \A i \in 1 .. n : i > k /\ buffers[i].alive => buffers[i].file # buffers[j].file
      BY <1>0, <1>1, <1>2, <2>3
    <3> QED
      BY <1>2, <2>3, <3>1 DEF Gap, n
  <2>4. ASSUME NEW l \in 1 .. n - 1
        PROVE  /\ bufs[l].alive => idx[bufs[l].file] = <<Block(-l, 0, bufs[l].length)>>
               /\ bufs[l].data \in Contents \ {<<>>} /\ bufs[l].length = Len(bufs[l].data)
    <3>1. PICK j \in 1 .. n : j # k /\ bufs[l] = buffers[j] /\ (j < k => l = j) /\ (j > k => l = j - 1)
      BY <1>3
    <3>2. CASE j < k
      BY <2>1, <2>3, <3>1, <3>2
    <3>3. CASE j > k
      <4>1. -j + 1 = -l
        BY <1>2, <3>1, <3>3
      <4> QED
        BY <2>1, <2>2, <3>1, <3>3, <4>1
    <3>4. j < k \/ j > k
      BY <1>1, <1>2, <3>1
    <3> QED
      BY <3>2, <3>3, <3>4
  <2>5. ASSUME NEW g \in Files, idx[g] # NULL, NEW i \in DOMAIN idx[g], idx[g][i].page >= 0
        PROVE  Stored(idx[g][i], pages)
    <3>1. CASE \A j \in 1 .. n : j > k /\ buffers[j].alive => buffers[j].file # g
      <4>1. idx[g] = index[g]
        BY <3>1 DEF Gap, n
      <4> QED
        BY <2>1, <2>5, <4>1
    <3>2. CASE ~(\A j \in 1 .. n : j > k /\ buffers[j].alive => buffers[j].file # g)
      <4>1. PICK j \in 1 .. n : j > k /\ buffers[j].alive /\ buffers[j].file = g
        BY <3>2
      <4>2. idx[g] = <<Block(-j + 1, 0, buffers[j].length)>>
        BY <2>2, <4>1
      <4>3. idx[g][i] = Block(-j + 1, 0, buffers[j].length)
        BY <2>5, <4>2
      <4>4. idx[g][i].page = -j + 1 /\ -j + 1 < 0
        BY <1>1, <1>2, <4>1, <4>3 DEF Block
      <4> QED
        BY <2>5, <4>4
    <3> QED
      BY <3>1, <3>2
  <2> QED
    BY <2>4, <2>5
<1>9. Fit(idx, bufs)
  BY <1>1, <1>5, <1>6, <1>7, <1>8 DEF Fit
<1>10. Total(Lengths(bufs)) <= Total(Lengths(buffers))
  <2>1. /\ Lengths(buffers) \in Seq(Nat) /\ Len(Lengths(buffers)) = n
        /\ \A l \in 1 .. n : Lengths(buffers)[l] = buffers[l].length
    BY <1>0, SizeIsTotal DEF n
  <2>2. /\ Lengths(bufs) \in Seq(Nat) /\ Len(Lengths(bufs)) = n - 1
        /\ \A l \in 1 .. n - 1 : Lengths(bufs)[l] = bufs[l].length
    BY <1>1, SizeIsTotal
  <2>3. ASSUME NEW l \in 1 .. n - 1
        PROVE  Lengths(bufs)[l] = IF l < k THEN Lengths(buffers)[l] ELSE Lengths(buffers)[l + 1]
    <3>1. l \in 1 .. n /\ l + 1 \in 1 .. n
      BY <1>2
    <3> QED
      BY ZenonT(40), <1>1, <2>1, <2>2, <3>1
  <2> QED
    BY <1>1, <2>1, <2>2, <2>3, TotalWithout
<1> QED
  BY <1>1, <1>4, <1>9, <1>10 DEF n

\* Without the file: no buffer of it is left, but after a fatal error.
LEMMA WithoutFit ==
  ASSUME Fit(index, buffers), NEW f \in Files
  PROVE  /\ Fit(IndexWithout(f), BuffersWithout(f))
         /\ ~fatalError => \A l \in 1 .. Len(BuffersWithout(f)) :
              BuffersWithout(f)[l].alive => BuffersWithout(f)[l].file # f
         /\ BuffersWithout(f) # <<>> => buffers # <<>>
         /\ Total(Lengths(BuffersWithout(f))) <= Total(Lengths(buffers))
<1>0. buffers \in Seq(Buffers) /\ Len(buffers) \in Nat /\ DOMAIN buffers = 1 .. Len(buffers)
  BY LenProperties DEF Fit
<1>1. CASE Removed(f) = {} /\ BuffersWithout(f) = buffers /\ IndexWithout(f) = index
  <2>1. ASSUME ~fatalError, NEW l \in 1 .. Len(buffers), buffers[l].alive, buffers[l].file = f
        PROVE  FALSE
    <3>1. index[f] = <<Block(-l, 0, buffers[l].length)>> /\ index[f] # NULL
      BY <2>1 DEF Fit
    <3>2. 1 \in DOMAIN index[f] /\ index[f][1].page < 0
      BY <3>1 DEF Block
    <3>3. IsPending(f)
      BY <3>1, <3>2 DEF IsPending
    <3> QED
      BY <1>0, <1>1, <2>1, <3>3 DEF Removed, PlaceOf
  <2>2. Total(Lengths(buffers)) \in Nat
    BY <1>0, SizeIsTotal, TotalNat
  <2> QED
    BY <1>1, <2>1, <2>2
<1>2. CASE \E k : Removed(f) = {k} /\ Gap(f, k, IndexWithout(f), BuffersWithout(f))
  <2>1. PICK k : Gap(f, k, IndexWithout(f), BuffersWithout(f))
    BY <1>2
  <2>2. Fit(IndexWithout(f), BuffersWithout(f))
    BY <2>1, GapFit
  <2>3. \A l \in 1 .. Len(BuffersWithout(f)) : BuffersWithout(f)[l].alive => BuffersWithout(f)[l].file # f
    BY <2>1, GapFit
  <2>4. Total(Lengths(BuffersWithout(f))) <= Total(Lengths(buffers))
    BY <2>1, GapFit
  <2>5. buffers # <<>>
    BY <1>0, <2>1, EmptySeq DEF Gap
  <2> QED
    BY <2>2, <2>3, <2>4, <2>5
<1> QED
  BY <1>1, <1>2, Without

\* Entries that are unset; the buffers stay where they are.
LEMMA UnsetFit ==
  ASSUME NEW idx, NEW bufs, Fit(idx, bufs), NEW F, Unset(F, idx, bufs)
  PROVE  /\ Fit(index', buffers') /\ Lengths(buffers') = Lengths(bufs)
         /\ buffers' # <<>> => bufs # <<>>
<1>0. /\ idx \in [Files -> Seq(Blocks) \cup {NULL}] /\ bufs \in Seq(Buffers)
      /\ \A g \in Files : idx[g] # NULL => idx[g] # <<>>
      /\ UNCHANGED <<pages, modes>>
      /\ index' = [g \in Files |-> IF g \in F THEN NULL ELSE idx[g]]
      /\ buffers' = [k \in DOMAIN bufs |-> [bufs[k] EXCEPT !.alive = @ /\ bufs[k].file \notin F]]
  BY DEF Fit, Unset
<1>1. Len(bufs) \in Nat /\ DOMAIN bufs = 1 .. Len(bufs) /\ \A k \in 1 .. Len(bufs) : bufs[k] \in Buffers
  BY <1>0, LenProperties, ElementOfSeq
<1>2. ASSUME NEW k \in 1 .. Len(bufs)
      PROVE  /\ buffers'[k] \in Buffers /\ buffers'[k].file = bufs[k].file /\ buffers'[k].file \in Files
             /\ buffers'[k].data = bufs[k].data /\ buffers'[k].length = bufs[k].length
             /\ buffers'[k].alive => bufs[k].alive /\ bufs[k].file \notin F
  <2>1. buffers'[k] = [bufs[k] EXCEPT !.alive = @ /\ bufs[k].file \notin F] /\ bufs[k] \in Buffers
    BY <1>0, <1>1
  <2> QED
    BY <2>1 DEF Buffers
<1>3. buffers' \in Seq(Buffers) /\ Len(buffers') = Len(bufs) /\ DOMAIN buffers' = 1 .. Len(bufs)
  <2>1. buffers' = [k \in 1 .. Len(bufs) |-> buffers'[k]]
    BY <1>0, <1>1
  <2>2. buffers' \in [1 .. Len(bufs) -> Buffers]
    BY <1>2, <2>1
  <2> QED
    BY <1>1, <2>2
<1>4. /\ index' \in [Files -> Seq(Blocks) \cup {NULL}]
      /\ \A g \in Files : g \notin F => index'[g] = idx[g]
      /\ \A g \in Files : index'[g] # NULL => g \notin F
  BY <1>0
<1>5. Fit(index', buffers')
  <2>1. \A g \in Files : index'[g] # NULL => index'[g] # <<>>
    BY <1>0, <1>4
  <2>2. \A k \in 1 .. Len(bufs) : buffers'[k].alive => index'[buffers'[k].file] # NULL
    BY <1>2, <1>4 DEF Fit
  <2>3. \A k, l \in 1 .. Len(bufs) :
          buffers'[k].alive /\ buffers'[l].alive /\ buffers'[k].file = buffers'[l].file => k = l
    BY <1>2 DEF Fit
  <2>4. \A k \in 1 .. Len(bufs) :
          buffers'[k].data # NULL /\ ~isWriteToMemory => Len(buffers'[k].data) <= PageSize
    BY <1>2 DEF Fit
  <2>5. ASSUME ~fatalError
        PROVE  /\ \A k \in 1 .. Len(bufs) :
                    /\ buffers'[k].alive => index'[buffers'[k].file] = <<Block(-k, 0, buffers'[k].length)>>
                    /\ buffers'[k].data \in Contents \ {<<>>} /\ buffers'[k].length = Len(buffers'[k].data)
               /\ \A g \in Files : index'[g] # NULL =>
                    \A i \in DOMAIN index'[g] : index'[g][i].page >= 0 => Stored(index'[g][i], pages)
    BY <1>2, <1>4, <2>5 DEF Fit
  <2> QED
    BY <1>3, <1>4, <2>1, <2>2, <2>3, <2>4, <2>5 DEF Fit
<1>6. Lengths(buffers') = Lengths(bufs)
  BY <1>1, <1>2, <1>3 DEF Lengths
<1>7. buffers' # <<>> => bufs # <<>>
  BY <1>0, <1>3, EmptySeq
<1> QED
  BY <1>5, <1>6, <1>7

\* The bound of the buffers, when none was added
LEMMA Bounds ==
  ASSUME IInv, pc = "idle", UNCHANGED isWriteToMemory, pc' \in {"idle", "begin"},
         buffers' \in Seq(Buffers), buffers' # <<>> => buffers # <<>>,
         Total(Lengths(buffers')) <= Total(Lengths(buffers))
  PROVE  ~fatalError => Bounded'
<1> SUFFICES ASSUME ~fatalError, ~isWriteToMemory, buffers' # <<>> PROVE BufferSize' < MaxBufferSize
  BY DEF Bounded
<1>1. BufferSize < MaxBufferSize
  BY DEF IInv, Bounded
<1>2. BufferSize = Total(Lengths(buffers)) /\ BufferSize' = Total(Lengths(buffers'))
  BY DEF BufferSize, Lengths
<1>3. BufferSize \in Nat /\ BufferSize' \in Nat
  BY <1>2, SizeIsTotal, TotalNat DEF IInv, TypeInv
<1> QED
  BY <1>1, <1>2, <1>3, WriterAssumption

LEMMA DeleteFileStep ==
  ASSUME IInv, NEW f \in Files, DeleteFile(f)
  PROVE  IInv'
<1> DEFINE idx == IndexWithout(f)
           bufs == BuffersWithout(f)
<1>0. /\ pc = "idle" /\ Unset({f}, idx, bufs)
      /\ UNCHANGED <<pages, pageMap, modes, pc, job, purge>>
  BY DEF DeleteFile, Unset
<1>1. Fit(index, buffers) /\ job = NULL
  BY <1>0, NowFit DEF IInv, TypeInv, Purging
<1>2. /\ Fit(idx, bufs)
      /\ bufs # <<>> => buffers # <<>>
      /\ Total(Lengths(bufs)) <= Total(Lengths(buffers))
  BY <1>1, WithoutFit
<1> HIDE DEF idx, bufs
<1>3. Fit(index', buffers') /\ Lengths(buffers') = Lengths(bufs) /\ (buffers' # <<>> => bufs # <<>>)
  BY <1>0, <1>2, UnsetFit
<1>4. ~fatalError => MapFits'
  BY <1>0, <1>1, <1>2, <1>3 DEF IInv, MapFits, modes
<1>5. ~fatalError => Bounded'
  BY <1>0, <1>2, <1>3, Bounds DEF modes, Fit
<1> QED
  BY <1>0, <1>1, <1>3, <1>4, <1>5, NextFit

LEMMA RemoveDirectoryStep ==
  ASSUME IInv, RemoveDirectory
  PROVE  IInv'
<1>0. /\ pc = "idle" /\ Unset(Dir, index, buffers)
      /\ UNCHANGED <<pages, pageMap, modes, pc, job, purge>>
  BY DEF RemoveDirectory, Unset
<1>1. Fit(index, buffers) /\ job = NULL
  BY <1>0, NowFit DEF IInv, TypeInv, Purging
<1>2. Fit(index', buffers') /\ Lengths(buffers') = Lengths(buffers) /\ (buffers' # <<>> => buffers # <<>>)
  BY <1>0, <1>1, UnsetFit
<1>3. ~fatalError => MapFits'
  BY <1>0, <1>1, <1>2 DEF IInv, MapFits, modes
<1>4. Total(Lengths(buffers')) <= Total(Lengths(buffers))
  <2>1. Total(Lengths(buffers)) \in Nat
    BY <1>1, SizeIsTotal, TotalNat DEF Fit
  <2> QED
    BY <1>2, <2>1
<1>5. ~fatalError => Bounded'
  BY <1>0, <1>2, <1>4, Bounds DEF modes, Fit
<1> QED
  BY <1>0, <1>1, <1>2, <1>3, <1>5, NextFit

LEMMA PurgeInMemoryStep ==
  ASSUME IInv, PurgeInMemory
  PROVE  IInv'
<1>0. /\ pc = "idle" /\ isWriteToMemory /\ buffers' = <<>>
      /\ UNCHANGED <<index, pages, pageMap, modes, pc, job, purge>>
  BY DEF PurgeInMemory
<1>1. Fit(index, buffers) /\ job = NULL
  BY <1>0, NowFit DEF IInv, TypeInv, Purging
<1>2. buffers' \in Seq(Buffers) /\ Len(buffers') = 0
  BY <1>0
<1>3. Fit(index', buffers')
  BY <1>0, <1>1, <1>2 DEF Fit, modes
<1>4. MapFits' /\ Bounded'
  BY <1>0 DEF MapFits, Bounded, modes
<1> QED
  BY <1>0, <1>1, <1>3, <1>4, NextFit

LEMMA SetWriteToMemoryStep ==
  ASSUME IInv, SetWriteToMemory
  PROVE  IInv'
<1>0. /\ pc = "idle" /\ isWriteToMemory' = TRUE /\ UNCHANGED <<store, fatalError, pc, job, purge>>
  BY DEF SetWriteToMemory
<1> USE DEF store, purge
<1>1. TypeInv' /\ PurgeFits' /\ JobFits' /\ BuffersFit'
  BY <1>0 DEF IInv, TypeInv, PurgeFits, JobFits, BuffersFit, Purging
<1>2. Saved' = Saved /\ Gone' = Gone
  BY <1>0 DEF Saved, Gone
<1>3. ~fatalError => Owned' /\ InPages' /\ SlotFits'
  BY <1>0, <1>2 DEF IInv, Owned, InPages, SlotFits
<1>4. MapFits' /\ PiecesFit' /\ Bounded'
  BY <1>0 DEF MapFits, PiecesFit, Bounded
<1> QED
  BY <1>0, <1>1, <1>3, <1>4 DEF IInv

LEMMA RemountStep ==
  ASSUME IInv, Remount
  PROVE  IInv'
<1>0. /\ pc = "idle" /\ buffers = <<>> /\ pageMap' = NULL
      /\ UNCHANGED <<index, buffers, pages, modes, pc, job, purge>>
  BY DEF Remount
<1>1. Fit(index, buffers) /\ job = NULL /\ TypeInv
  BY <1>0, NowFit DEF IInv, TypeInv, Purging
<1>2. MapFits' /\ Bounded'
  BY <1>0, <1>1 DEF MapFits, Bounded, modes
<1> QED
  BY <1>0, <1>1, <1>2, NextFit DEF modes

\* A step that changes nothing
LEMMA SameStep ==
  ASSUME IInv, UNCHANGED vars
  PROVE  IInv'
<1> USE DEF vars, store, modes, purge
<1>1. TypeInv' /\ PurgeFits' /\ JobFits' /\ BuffersFit'
  BY DEF IInv, TypeInv, PurgeFits, JobFits, BuffersFit, Purging
<1>2. Saved' = Saved /\ Gone' = Gone
  BY DEF Saved, Gone
<1>3. ~fatalError => Owned' /\ InPages' /\ SlotFits'
  BY <1>2 DEF IInv, Owned, InPages, SlotFits
<1>4. ~fatalError => MapFits' /\ PiecesFit' /\ Bounded'
  BY SameSize DEF IInv, MapFits, PiecesFit, Bounded
<1> QED
  BY <1>1, <1>3, <1>4 DEF IInv

\* What is read of a file
LEMMA ReadType ==
  ASSUME TypeInv, NEW f \in Files
  PROVE  ReadFile(f) \in Data \cup {NULL, Unreadable}
<1> DEFINE V == Data \cup {Unreadable}
<1>1. ASSUME NEW data \in Data \cup {NULL}, NEW b \in Blocks PROVE Within(data, b) \in V
  <2>1. CASE data = NULL \/ b.offset + b.size > Len(data)
    BY <2>1 DEF Within
  <2>2. CASE ~(data = NULL \/ b.offset + b.size > Len(data))
    <3>1. data \in Data /\ Len(data) \in Nat
      BY <2>2, LenProperties DEF Data
    <3>2. b.offset \in Nat /\ b.size \in Nat /\ b.offset + b.size <= Len(data)
      BY <2>2, <3>1 DEF Blocks
    <3>3. \A i \in b.offset + 1 .. b.offset + b.size : i \in 1 .. Len(data)
      BY <3>1, <3>2
    <3>4. \A i \in b.offset + 1 .. b.offset + b.size : data[i] \in Byte
      BY <3>1, <3>3, ElementOfSeq DEF Data
    <3>5. SubSeq(data, b.offset + 1, b.offset + b.size) \in Data
      BY <3>2, <3>4, SubSeqProperties DEF Data
    <3> QED
      BY <2>2, <3>5 DEF Within
  <2> QED
    BY <2>1, <2>2
<1>2. ASSUME NEW b \in Blocks PROVE ReadBlock(b) \in V
  <2>1. \A k \in DOMAIN buffers : buffers[k].data \in Data \cup {NULL}
    <3>1. \A k \in DOMAIN buffers : buffers[k] \in Buffers
      BY LenProperties, ElementOfSeq DEF TypeInv
    <3> QED
      BY <3>1, WriterAssumption DEF Buffers, Data
  <2>2. GetBuffer(-b.page) \in Data \cup {NULL}
    BY <2>1 DEF GetBuffer
  <2>3. ASSUME ~(b.page < 0), b.page < Len(pages) PROVE pages[b.page + 1] \in Data
    <3>1. pages \in Seq(Data) /\ b.page \in Int
      BY DEF TypeInv, Blocks
    <3>2. b.page + 1 \in 1 .. Len(pages)
      BY <2>3, <3>1, LenProperties
    <3> QED
      BY <3>1, <3>2, ElementOfSeq
  <2>4. <<>> \in Data
    BY EmptySeq DEF Data
  <2>5. CASE b.size = 0
    BY <2>4, <2>5 DEF ReadBlock
  <2>6. CASE b.size # 0 /\ b.page < 0
    BY <1>1, <2>2, <2>6 DEF ReadBlock
  <2>7. CASE b.size # 0 /\ ~(b.page < 0)
    <3> DEFINE page == IF b.page < Len(pages) THEN pages[b.page + 1] ELSE NULL
    <3>1. page \in Data \cup {NULL}
      BY <2>3, <2>7
    <3>2. ReadBlock(b) = Within(page, b)
      BY <2>7 DEF ReadBlock
    <3> HIDE DEF page
    <3> QED
      BY <1>1, <3>1, <3>2
  <2> QED
    BY <2>5, <2>6, <2>7
<1>3. CASE index[f] # NULL
  <2> DEFINE parts == [i \in DOMAIN index[f] |-> ReadBlock(index[f][i])]
  <2>1. index[f] \in Seq(Blocks)
    BY <1>3 DEF TypeInv
  <2>2. /\ Len(index[f]) \in Nat /\ DOMAIN index[f] = 1 .. Len(index[f])
        /\ \A i \in DOMAIN index[f] : index[f][i] \in Blocks
    BY <2>1, LenProperties, ElementOfSeq
  <2>3. \A i \in DOMAIN index[f] : ReadBlock(index[f][i]) \in V
    BY <1>2, <2>2
  <2>4. parts \in Seq(V)
    BY <2>2, <2>3
  <2>5. ReadFile(f) = Joined(parts)
    BY <1>3 DEF ReadFile
  <2> HIDE DEF parts
  <2>6. PICK g \in [0 .. Len(parts) -> V] : Joined(parts) = g[Len(parts)]
    BY <2>4, JoinedSteps
  <2>7. Len(parts) \in 0 .. Len(parts)
    BY <2>4, LenProperties
  <2> QED
    BY <2>5, <2>6, <2>7
<1>4. CASE index[f] = NULL
  BY <1>4 DEF ReadFile
<1> QED
  BY <1>3, <1>4

\* The map that is made of an index has spans of pages that exist.
LEMMA MapStep ==
  ASSUME IInv, pc = "idle", ~fatalError, InitPageMap, UNCHANGED <<pages, isWriteToMemory>>
  PROVE  MapFits'
<1>1. TypeInv /\ InPages /\ MapFits /\ job = NULL
  BY DEF IInv, TypeInv
<1>2. CASE isWriteToMemory
  BY <1>2 DEF MapFits
<1>3. CASE ~isWriteToMemory /\ pageMap # NULL
  BY <1>1, <1>3 DEF InitPageMap, MapFits
<1>4. CASE ~isWriteToMemory /\ pageMap = NULL
  <2>1. PICK s \in MapOrders :
          pageMap' = {index[f][1] : f \in Mapped} \cup GapsBefore(s) \cup GapsBehind(s)
    BY <1>4 DEF InitPageMap
  <2>2. ASSUME NEW f \in Mapped
        PROVE  /\ index[f][1].page \in Nat /\ index[f][1].page < Len(pages)
               /\ index[f][1].offset \in Nat /\ index[f][1].size \in Nat
               /\ index[f][1] \in Spans
               /\ Len(pages[index[f][1].page + 1]) \in Nat
    <3>1. /\ index[f] # NULL /\ ~IsPending(f) /\ Len(index[f]) = 1 /\ index[f][1].size # 0
          /\ f \in Files
      BY DEF Mapped
    <3>2. index[f] \in Seq(Blocks)
      BY <1>1, <3>1 DEF TypeInv
    <3>3. 1 \in DOMAIN index[f] /\ index[f][1] \in Blocks
      BY <3>1, <3>2, LenProperties, ElementOfSeq
    <3>4. ~(index[f][1].page < 0)
      BY <3>1, <3>3 DEF IsPending
    <3>5. index[f][1].page \in Int /\ index[f][1].offset \in Nat /\ index[f][1].size \in Nat
      BY <3>3 DEF Blocks
    <3>6. InPage(index[f][1], pages)
      BY <1>1, <3>1, <3>3, <3>4, <3>5 DEF InPages, Stored
    <3>7. index[f][1].page \in Nat /\ index[f][1].page + 1 \in 1 .. Len(pages) /\ Len(pages) \in Nat
      BY <1>1, <3>5, <3>6, LenProperties DEF InPage, TypeInv
    <3>8. pages[index[f][1].page + 1] \in Data
      BY <1>1, <3>7, ElementOfSeq DEF TypeInv
    <3>9. Len(pages[index[f][1].page + 1]) \in Nat
      BY <3>8, LenProperties DEF Data
    <3>10. index[f][1] \in Spans
      BY <3>3, <3>5, <3>7 DEF Blocks, Spans
    <3> QED
      BY <3>5, <3>7, <3>9, <3>10
  <2>3. \A i \in DOMAIN s : s[i] \in Mapped
    BY <2>1 DEF MapOrders
  <2>d. \A i \in DOMAIN s : i > 1 => i - 1 \in DOMAIN s
    <3>1. DOMAIN s = 1 .. Cardinality(Mapped)
      BY <2>1 DEF MapOrders
    <3>2. Mapped \subseteq Files
      BY DEF Mapped
    <3>3. Cardinality(Mapped) \in Nat
      BY <3>2, FS_Subset, FS_CardinalityType, WriterAssumption
    <3> QED
      BY <3>1, <3>3
  <2>4. ASSUME NEW x \in GapsBefore(s) PROVE x \in Spans /\ x.page < Len(pages)
    <3>1. PICK i \in DOMAIN s :
            x = Block(index[s[i]][1].page,
                      IF i > 1 /\ index[s[i - 1]][1].page = index[s[i]][1].page
                        THEN index[s[i - 1]][1].offset + index[s[i - 1]][1].size ELSE 0,
                      index[s[i]][1].offset -
                        IF i > 1 /\ index[s[i - 1]][1].page = index[s[i]][1].page
                          THEN index[s[i - 1]][1].offset + index[s[i - 1]][1].size ELSE 0)
      BY <2>4 DEF GapsBefore
    <3> DEFINE start == IF i > 1 /\ index[s[i - 1]][1].page = index[s[i]][1].page
                          THEN index[s[i - 1]][1].offset + index[s[i - 1]][1].size ELSE 0
    <3>2. start \in Nat
      BY <2>2, <2>3, <2>d
    <3>3. x = Block(index[s[i]][1].page, start, index[s[i]][1].offset - start)
      BY <3>1
    <3> HIDE DEF start
    <3> QED
      BY <2>2, <2>3, <3>2, <3>3 DEF Block, Spans
  <2>5. ASSUME NEW x \in GapsBehind(s) PROVE x \in Spans /\ x.page < Len(pages)
    <3>1. PICK i \in DOMAIN s :
            x = Block(index[s[i]][1].page, index[s[i]][1].offset + index[s[i]][1].size,
                      Len(pages[index[s[i]][1].page + 1])
                        - (index[s[i]][1].offset + index[s[i]][1].size))
      BY <2>5 DEF GapsBehind
    <3> QED
      BY SMTT(30), <2>2, <2>3, <3>1 DEF Block, Spans
  <2> QED
    BY <2>1, <2>2, <2>4, <2>5 DEF MapFits
<1> QED
  BY <1>2, <1>3, <1>4

LEMMA AddFileStep ==
  ASSUME IInv, NEW f \in Files, NEW c \in Given[f], AddFile(f, c)
  PROVE  IInv'
<1> DEFINE job1 == [file |-> f, data |-> c, was |-> ReadFile(f), wasPending |-> IsPending(f),
                    written |-> 0]
<1>0. /\ pc = "idle" /\ ~fatalError /\ buffers' = BuffersWithout(f) /\ index' = IndexWithout(f)
      /\ InitPageMap /\ pc' = "begin" /\ job' = job1 /\ UNCHANGED <<pages, modes, purge>>
  BY DEF AddFile, Go
<1>1. Fit(index, buffers) /\ TypeInv
  BY <1>0, NowFit DEF IInv, Purging
<1>2. ReadFile(f) \in Seq(Byte) \cup {NULL, Unreadable}
  BY <1>1, ReadType DEF Data
<1>3. job1 \in Jobs /\ job1.file = f /\ job1.written = 0
  <2>1. c \in Contents
    BY DEF Contents
  <2>2. IsPending(f) \in BOOLEAN
    BY DEF IsPending
  <2> QED
    BY <1>2, <2>1, <2>2 DEF Jobs
<1> HIDE DEF job1
<1>4. job1 # NULL
  BY <1>3, WriterAssumption
<1>5. /\ Fit(index', buffers') /\ \A l \in 1 .. Len(buffers') : buffers'[l].alive => buffers'[l].file # f
      /\ buffers' # <<>> => buffers # <<>>
      /\ Total(Lengths(buffers')) <= Total(Lengths(buffers))
  BY <1>0, <1>1, WithoutFit
<1>6. MapFits'
  BY <1>0, MapStep DEF modes
<1>7. Bounded'
  BY <1>0, <1>5, Bounds DEF modes, Fit
<1> QED
  BY <1>0, <1>3, <1>4, <1>5, <1>6, <1>7, NextFit

-----------------------------------------------------------------------------
(* Purges.                                                                 *)

\* Recursion that starts somewhere
RecursesFrom(f, a, n, V, v, step) ==
  f \in [a .. n -> V] /\ f[a] = v /\ \A k \in a + 1 .. n : f[k] = step[k][f[k - 1]]

LEMMA RecursionFrom ==
  ASSUME NEW a \in Nat, NEW n \in Nat, a <= n, NEW V, NEW v \in V,
         NEW step \in [a + 1 .. n -> [V -> V]]
  PROVE  \E f : RecursesFrom(f, a, n, V, v, step)
<1> DEFINE m == n - a
           from == [k \in 1 .. m |-> step[a + k]]
<1>1. m \in Nat /\ \A k \in 1 .. m : a + k \in a + 1 .. n
  OBVIOUS
<1> HIDE DEF m
<1>2. from \in [1 .. m -> [V -> V]]
  BY <1>1
<1> HIDE DEF from
<1>3. PICK g : Recurses(g, m, V, v, from)
  BY <1>1, <1>2, Recursion, Zenon
<1> DEFINE f == [k \in a .. n |-> g[k - a]]
<1>4. \A k \in a .. n : k - a \in 0 .. m
  BY DEF m
<1>5. f \in [a .. n -> V]
  BY <1>3, <1>4 DEF Recurses
<1>6. f[a] = v
  <2>1. a \in a .. n /\ a - a = 0
    OBVIOUS
  <2> QED
    BY <1>3, <2>1 DEF Recurses
<1>7. ASSUME NEW k \in a + 1 .. n PROVE f[k] = step[k][f[k - 1]]
  <2>1. /\ k \in a .. n /\ k - 1 \in a .. n /\ k - a \in 1 .. m /\ a + (k - a) = k
        /\ (k - a) - 1 = (k - 1) - a
    BY DEF m
  <2>2. f[k] = g[k - a] /\ f[k - 1] = g[(k - a) - 1]
    BY <2>1
  <2>3. g[k - a] = from[k - a][g[(k - a) - 1]]
    BY <1>3, <2>1 DEF Recurses
  <2>4. from[k - a] = step[k]
    BY <2>1 DEF from
  <2> QED
    BY <2>2, <2>3, <2>4
<1> HIDE DEF f
<1> QED
  BY <1>5, <1>6, <1>7 DEF RecursesFrom

LEMMA InductiveFrom ==
  ASSUME NEW a \in Nat, NEW n \in Nat, NEW T, a \in T, \A k \in a + 1 .. n : k - 1 \in T => k \in T
  PROVE  \A k \in a .. n : k \in T
<1> SUFFICES ASSUME a <= n PROVE \A k \in a .. n : k \in T
  OBVIOUS
<1> DEFINE m == n - a
           S == {k \in 0 .. m : a + k \in T}
<1>1. m \in Nat /\ 0 \in S
  OBVIOUS
<1>2. ASSUME NEW k \in 1 .. m, k - 1 \in S PROVE k \in S
  <2>1. a + k \in a + 1 .. n /\ (a + k) - 1 = a + (k - 1) /\ k \in 0 .. m
    OBVIOUS
  <2>2. (a + k) - 1 \in T
    BY <1>2, <2>1
  <2> QED
    BY <2>1, <2>2
<1> HIDE DEF S
<1>3. 0 .. m \subseteq S
  <2> HIDE DEF m
  <2> QED
    BY <1>1, <1>2, Inductive
<1>4. ASSUME NEW k \in a .. n PROVE k \in T
  <2>1. k - a \in 0 .. m /\ a + (k - a) = k
    OBVIOUS
  <2>2. k - a \in S
    BY <1>3, <2>1
  <2> QED
    BY <2>1, <2>2 DEF S
<1> QED
  BY <1>4

\* What is known while buffers are purged
LEMMA Purges ==
  ASSUME IInv, Purging
  PROVE  /\ TypeInv /\ BuffersFit /\ ~isWriteToMemory
         /\ Len(order) = Len(buffers) /\ Len(buffers) \in Nat /\ saved \in Nat
         /\ saved < Len(buffers) /\ (saved > 0 => slot \in Places)
         /\ DOMAIN buffers = 1 .. Len(buffers)
         /\ \A i \in 1 .. Len(buffers) : order[i] \in 1 .. Len(buffers)
         /\ \A i, j \in 1 .. Len(buffers) : order[i] = order[j] => i = j
         /\ \A k \in 1 .. Len(buffers) : buffers[k] \in Buffers
         /\ \A i \in 1 .. Len(buffers) :
              /\ Bytes(i) \in Data /\ Len(Bytes(i)) \in Nat /\ Len(Bytes(i)) <= PageSize
              /\ Sorted(i) \in Buffers
<1>1. /\ TypeInv /\ BuffersFit /\ ~isWriteToMemory
      /\ order \in [1 .. Len(buffers) -> 1 .. Len(buffers)] /\ Distinct(order)
      /\ saved \in 0 .. Len(buffers) - 1 /\ (saved > 0 => slot \in Places)
  BY DEF IInv, PurgeFits
<1>2. Len(buffers) \in Nat /\ DOMAIN buffers = 1 .. Len(buffers)
      /\ \A k \in 1 .. Len(buffers) : buffers[k] \in Buffers
  <2>1. buffers \in Seq(Buffers)
    BY <1>1 DEF TypeInv
  <2> QED
    BY <2>1, LenProperties, ElementOfSeq
<1>3. order \in Seq(1 .. Len(buffers)) /\ Len(order) = Len(buffers)
  BY <1>1, <1>2
<1>4. \A i, j \in 1 .. Len(buffers) : order[i] = order[j] => i = j
  BY <1>1 DEF Distinct
<1>5. ASSUME NEW i \in 1 .. Len(buffers)
      PROVE  /\ Bytes(i) \in Data /\ Len(Bytes(i)) \in Nat /\ Len(Bytes(i)) <= PageSize
             /\ Sorted(i) \in Buffers
  <2>1. Sorted(i) \in Buffers /\ order[i] \in DOMAIN buffers
    BY <1>1, <1>2 DEF Sorted
  <2>2. CASE Sorted(i).data = NULL
    BY <2>1, <2>2, EmptySeq, WriterAssumption DEF Bytes, Data
  <2>3. CASE Sorted(i).data # NULL
    <3>1. Bytes(i) = Sorted(i).data /\ Bytes(i) \in Data
      BY <2>1, <2>3, WriterAssumption DEF Bytes, Buffers, Data
    <3>2. Len(Bytes(i)) <= PageSize
      BY <1>1, <2>1, <2>3, <3>1 DEF BuffersFit, Sorted
    <3> QED
      BY <2>1, <3>1, <3>2, LenProperties DEF Data
  <2> QED
    BY <2>2, <2>3
<1>6. saved \in Nat /\ saved < Len(buffers)
  BY <1>1, <1>2
<1>7. \A i \in 1 .. Len(buffers) : order[i] \in 1 .. Len(buffers)
  BY <1>1
<1> QED
  BY <1>1, <1>2, <1>3, <1>4, <1>5, <1>6, <1>7, Zenon

\* The bytes of a page, buffer by buffer
LEMMA BufferSteps ==
  ASSUME IInv, Purging
  PROVE  /\ PageBuffer \in [saved .. Len(order) -> Data] /\ PageBuffer[saved] = <<>>
         /\ \A k \in saved + 1 .. Len(order) :
              PageBuffer[k] = IF Same(k) THEN PageBuffer[k - 1] ELSE PageBuffer[k - 1] \o Bytes(k)
<1> DEFINE n == Len(order)
           step == [k \in saved + 1 .. n |->
                      [x \in Data |-> IF Same(k) THEN x ELSE x \o Bytes(k)]]
           Body(f) == [k \in saved .. n |-> IF k = saved THEN <<>>
                                            ELSE IF Same(k) THEN f[k - 1] ELSE f[k - 1] \o Bytes(k)]
<1>1. n \in Nat /\ saved \in Nat /\ saved <= n /\ \A k \in saved + 1 .. n : Bytes(k) \in Data
  BY Purges
<1>2. \A a, b \in Data : a \o b \in Data
  BY ConcatProperties DEF Data
<1>3. <<>> \in Data
  BY EmptySeq DEF Data
<1> HIDE DEF n
<1>4. step \in [saved + 1 .. n -> [Data -> Data]]
  <2>1. \A k \in saved + 1 .. n, x \in Data : (IF Same(k) THEN x ELSE x \o Bytes(k)) \in Data
    BY <1>1, <1>2
  <2> HIDE DEF Data
  <2> QED
    BY <2>1
<1> HIDE DEF step
<1>5. PICK g \in [saved .. n -> Data] :
        g[saved] = <<>> /\ \A k \in saved + 1 .. n : g[k] = step[k][g[k - 1]]
  <2> HIDE DEF Data
  <2>1. \E g : RecursesFrom(g, saved, n, Data, <<>>, step)
    BY <1>1, <1>3, <1>4, RecursionFrom, Zenon
  <2> QED
    BY <2>1 DEF RecursesFrom
<1>6. g = Body(g)
  <2>1. ASSUME NEW k \in saved .. n
        PROVE  g[k] = IF k = saved THEN <<>>
                      ELSE IF Same(k) THEN g[k - 1] ELSE g[k - 1] \o Bytes(k)
    <3>1. CASE k # saved
      <4>1. k \in saved + 1 .. n /\ k - 1 \in saved .. n
        BY <1>1, <3>1
      <4>2. g[k - 1] \in Data /\ g[k] = step[k][g[k - 1]]
        BY <1>5, <4>1
      <4>3. step[k] = [x \in Data |-> IF Same(k) THEN x ELSE x \o Bytes(k)]
        BY <4>1 DEF step
      <4> HIDE DEF Data
      <4> QED
        BY <3>1, <4>2, <4>3
    <3> QED
      BY <1>5, <3>1
  <2> QED
    BY <2>1
<1> DEFINE f == CHOOSE f : f = Body(f)
<1>7. f = Body(f)
  <2> HIDE DEF Body
  <2> QED
    BY <1>6
<1>8. PageBuffer = [i \in saved .. n |-> f[i]]
  BY DEF PageBuffer, n
<1> HIDE DEF f
<1>9. PageBuffer = f
  BY <1>7, <1>8
<1>10. f[saved] = <<>>
       /\ \A k \in saved + 1 .. n : f[k] = IF Same(k) THEN f[k - 1] ELSE f[k - 1] \o Bytes(k)
  <2>1. saved \in saved .. n /\ \A k \in saved + 1 .. n : k \in saved .. n /\ k # saved
    BY <1>1
  <2> QED
    BY <1>7, <2>1
<1>11. f \in [saved .. n -> Data]
  <2> DEFINE T == {k \in saved .. n : f[k] \in Data}
  <2>1. saved \in T
    BY <1>1, <1>3, <1>10
  <2>2. ASSUME NEW k \in saved + 1 .. n, k - 1 \in T PROVE k \in T
    <3>1. k \in saved .. n /\ f[k - 1] \in Data /\ Bytes(k) \in Data
      BY <1>1, <2>2
    <3> QED
      BY <1>2, <1>10, <3>1
  <2> HIDE DEF T
  <2>3. \A k \in saved .. n : k \in T
    BY <1>1, <2>1, <2>2, InductiveFrom
  <2>4. \A k \in saved .. n : f[k] \in Data
    BY <2>3 DEF T
  <2>5. f = [k \in saved .. n |-> f[k]]
    BY <1>7
  <2> QED
    BY <2>4, <2>5
<1> QED
  BY <1>9, <1>10, <1>11 DEF n

\* What a page has so far is the start of what it has in the end.
LEMMA BufferGrows ==
  ASSUME IInv, Purging, NEW i \in saved .. Len(order), NEW last \in i .. Len(order)
  PROVE  Grown(PageBuffer[i], PageBuffer[last])
<1> DEFINE n == Len(order)
           T == {k \in i .. n : Grown(PageBuffer[i], PageBuffer[k])}
<1>1. n \in Nat /\ saved \in Nat /\ i \in Nat /\ \A k \in i + 1 .. n : k \in saved + 1 .. n /\ Bytes(k) \in Data
  BY Purges
<1>2. PageBuffer \in [saved .. n -> Data]
  BY BufferSteps
<1>3. i \in T
  BY <1>1, <1>2, LenProperties DEF Grown, Data
<1>4. ASSUME NEW k \in i + 1 .. n, k - 1 \in T PROVE k \in T
  <2> DEFINE a == PageBuffer[i]
             b == PageBuffer[k - 1]
  <2>1. a \in Data /\ b \in Data /\ Grown(a, b) /\ k \in i .. n /\ Bytes(k) \in Data
        /\ PageBuffer[k] = IF Same(k) THEN b ELSE b \o Bytes(k)
    <3>1. i \in saved .. n /\ k - 1 \in saved .. n /\ k \in saved + 1 .. n
      BY <1>1, <1>4
    <3> QED
      BY <1>1, <1>2, <1>4, <3>1, BufferSteps
  <2>2. Grown(a, b \o Bytes(k))
    <3>1. Len(a) \in Nat /\ Len(b) \in Nat /\ Len(Bytes(k)) \in Nat
      BY <2>1, LenProperties DEF Data
    <3>2. Len(b \o Bytes(k)) = Len(b) + Len(Bytes(k))
          /\ \A l \in 1 .. Len(b) + Len(Bytes(k)) :
               (b \o Bytes(k))[l] = IF l <= Len(b) THEN b[l] ELSE Bytes(k)[l - Len(b)]
      BY <2>1, ConcatProperties DEF Data
    <3>3. \A l \in 1 .. Len(a) : l <= Len(b) /\ l \in 1 .. Len(b) + Len(Bytes(k)) /\ b[l] = a[l]
      BY <2>1, <3>1 DEF Grown
    <3>4. Len(a) <= Len(b) + Len(Bytes(k))
      BY <2>1, <3>1 DEF Grown
    <3> HIDE DEF a, b
    <3> QED
      BY <3>2, <3>3, <3>4 DEF Grown
  <2> QED
    BY <2>1, <2>2
<1> HIDE DEF T
<1>5. \A k \in i .. n : k \in T
  BY <1>1, <1>3, <1>4, InductiveFrom
<1> QED
  BY <1>5 DEF T

\* A page is not larger than it may be.
LEMMA BufferFits ==
  ASSUME IInv, Purging, NEW last \in saved + 1 .. Len(order), LastOfPage(last)
  PROVE  PageBuffer[last] \in Data /\ Len(PageBuffer[last]) \in Nat /\ Len(PageBuffer[last]) <= PageSize
<1> DEFINE n == Len(order)
           a == PageBuffer[last - 1]
<1>1. /\ n \in Nat /\ saved \in Nat /\ last \in 1 .. n /\ last - 1 \in saved .. n
      /\ last \in saved .. n /\ PageSize \in Nat
      /\ Bytes(last) \in Data /\ Len(Bytes(last)) \in Nat /\ Len(Bytes(last)) <= PageSize
  BY Purges, WriterAssumption
<1>2. /\ a \in Data /\ PageBuffer[last] \in Data
      /\ PageBuffer[last] = IF Same(last) THEN a ELSE a \o Bytes(last)
      /\ PageBuffer[saved] = <<>>
  BY <1>1, BufferSteps
<1>3. Len(a) \in Nat /\ Len(PageBuffer[last]) \in Nat
  BY <1>2, LenProperties DEF Data
<1>4. Len(PageBuffer[last]) <= Len(a) + Len(Bytes(last))
  <2>1. CASE Same(last)
    BY <1>1, <1>2, <1>3, <2>1
  <2>2. CASE ~Same(last)
    <3>1. Len(a \o Bytes(last)) = Len(a) + Len(Bytes(last))
      BY <1>1, <1>2, ConcatProperties DEF Data
    <3> QED
      BY <1>1, <1>2, <1>3, <2>2, <3>1
  <2> QED
    BY <2>1, <2>2
<1>5. Len(a) + Len(Bytes(last)) <= PageSize
  <2>1. CASE last = saved + 1
    <3>1. last - 1 = saved
      BY <1>1, <2>1
    <3>2. Len(a) = 0
      BY <1>2, <3>1, EmptySeq
    <3> QED
      BY <1>1, <3>2
  <2>2. CASE last # saved + 1
    <3>1. last - 1 \in saved + 1 .. last - 1 /\ (last - 1) + 1 = last
      BY <1>1, <2>2
    <3>2. ~(Len(PageBuffer[last - 1]) + Len(Bytes((last - 1) + 1)) > PageSize)
      BY <3>1 DEF LastOfPage
    <3>3. ~(Len(a) + Len(Bytes(last)) > PageSize)
      BY <3>1, <3>2
    <3> QED
      BY <1>1, <1>3, <3>3
  <2> QED
    BY <2>1, <2>2
<1> HIDE DEF a
<1> QED
  BY <1>1, <1>2, <1>3, <1>4, <1>5

\* Where the buffers of a page are in it
LEMMA SlotSteps ==
  ASSUME IInv, Purging, NEW last \in saved + 1 .. Len(order), NEW n \in Int
  PROVE  /\ Slots(last, n)[saved] = slot
         /\ \A k \in saved + 1 .. last :
              /\ Slots(last, n)[k] = IF Same(k) THEN Slots(last, n)[k - 1]
                                     ELSE [page |-> n, offset |-> Len(PageBuffer[k - 1])]
              /\ Slots(last, n)[k] \in Places
<1> DEFINE V == Places \cup {slot}
           new(k) == [page |-> n, offset |-> Len(PageBuffer[k - 1])]
           step == [k \in saved + 1 .. last |-> [x \in V |-> IF Same(k) THEN x ELSE new(k)]]
           Body(f) == [k \in saved .. last |-> IF k = saved THEN slot
                                               ELSE IF Same(k) THEN f[k - 1] ELSE new(k)]
<1>1. last \in Nat /\ saved \in Nat /\ saved <= last /\ (saved > 0 => slot \in Places)
      /\ \A k \in saved + 1 .. last : k - 1 \in saved .. Len(order)
  BY Purges
<1>2. \A k \in saved + 1 .. last : new(k) \in Places
  <2> SUFFICES ASSUME NEW k \in saved + 1 .. last PROVE new(k) \in Places
    OBVIOUS
  <2>1. PageBuffer[k - 1] \in Data
    BY <1>1, BufferSteps
  <2>2. Len(PageBuffer[k - 1]) \in Nat
    BY <2>1, LenProperties DEF Data
  <2> QED
    BY <2>2 DEF Places
<1> HIDE DEF new
<1>3. slot \in V /\ \A k \in saved + 1 .. last : new(k) \in V
  BY <1>2
<1>4. step \in [saved + 1 .. last -> [V -> V]]
  <2> HIDE DEF V
  <2> QED
    BY <1>3
<1> HIDE DEF step, V
<1>5. \E g : RecursesFrom(g, saved, last, V, slot, step)
  BY <1>1, <1>3, <1>4, RecursionFrom, Zenon
<1>6. PICK g \in [saved .. last -> V] :
        g[saved] = slot /\ \A k \in saved + 1 .. last : g[k] = step[k][g[k - 1]]
  BY <1>5 DEF RecursesFrom
<1>7. g = Body(g)
  <2>1. ASSUME NEW k \in saved .. last
        PROVE  g[k] = IF k = saved THEN slot ELSE IF Same(k) THEN g[k - 1] ELSE new(k)
    <3>1. CASE k # saved
      <4>1. k \in saved + 1 .. last /\ k - 1 \in saved .. last
        BY <1>1, <3>1
      <4>2. g[k - 1] \in V /\ g[k] = step[k][g[k - 1]]
        BY <1>6, <4>1
      <4>3. step[k] = [x \in V |-> IF Same(k) THEN x ELSE new(k)]
        BY <4>1 DEF step
      <4> QED
        BY <3>1, <4>2, <4>3
    <3> QED
      BY <1>6, <3>1
  <2> QED
    BY <2>1
<1> DEFINE f == CHOOSE f : f = Body(f)
<1>8. f = Body(f)
  <2> HIDE DEF Body
  <2> QED
    BY <1>7
<1>9. Slots(last, n) = f
  BY DEF Slots, new
<1> HIDE DEF f
<1>10. f[saved] = slot /\ \A k \in saved + 1 .. last : f[k] = IF Same(k) THEN f[k - 1] ELSE new(k)
  <2>1. saved \in saved .. last /\ \A k \in saved + 1 .. last : k \in saved .. last /\ k # saved
    BY <1>1
  <2> QED
    BY <1>8, <2>1
<1> DEFINE T == {k \in saved .. last : k > 0 => f[k] \in Places}
<1>11. saved \in T
  BY <1>1, <1>10
<1>12. ASSUME NEW k \in saved + 1 .. last, k - 1 \in T PROVE k \in T
  <2>1. k \in saved .. last /\ (k - 1 > 0 => f[k - 1] \in Places)
    BY <1>1, <1>12
  <2>2. CASE Same(k)
    <3>1. k - 1 > 0
      BY <1>1, <2>2 DEF Same
    <3> QED
      BY <1>10, <2>1, <2>2, <3>1
  <2>3. CASE ~Same(k)
    BY <1>2, <1>10, <2>1, <2>3
  <2> QED
    BY <2>2, <2>3
<1> HIDE DEF T
<1>13. \A k \in saved .. last : k \in T
  BY <1>1, <1>11, <1>12, InductiveFrom
<1>14. \A k \in saved + 1 .. last : f[k] \in Places
  <2>1. \A k \in saved + 1 .. last : k \in saved .. last /\ k > 0
    BY <1>1
  <2> QED
    BY <1>13, <2>1 DEF T
<1> QED
  BY <1>9, <1>10, <1>14 DEF new

\* The page of a purge is added, unless there are no bytes for it.
PageAdded(last, n) ==
  /\ last \in saved + 1 .. Len(order) /\ LastOfPage(last)
  /\ n \in -1 .. Len(pages)
  /\ IF PageBuffer[last] = <<>> THEN n = -1 /\ UNCHANGED pages
                                ELSE n >= 0 /\ AddPage(PageBuffer[last], n)

LEMMA PageGrows ==
  ASSUME IInv, Purging, NEW last, NEW n, PageAdded(last, n)
  PROVE  /\ last \in saved + 1 .. Len(order) /\ n \in Int
         /\ pages' \in Seq(Data) /\ \A i \in DOMAIN pages' : Len(pages'[i]) \in 1 .. PageSize
         /\ Grown(pages, pages')
         /\ n >= 0 => n \in 0 .. Len(pages') - 1
         /\ PageBuffer[last] # <<>> => n \in 0 .. Len(pages') - 1 /\ pages'[n + 1] = PageBuffer[last]
<1>1. /\ last \in saved + 1 .. Len(order) /\ LastOfPage(last) /\ n \in Int
      /\ TypeInv /\ pages \in Seq(Data) /\ \A i \in DOMAIN pages : Len(pages[i]) \in 1 .. PageSize
  BY Purges DEF PageAdded, TypeInv
<1>2. CASE PageBuffer[last] = <<>>
  <2>1. n = -1 /\ pages' = pages
    BY <1>2 DEF PageAdded
  <2> QED
    BY <1>1, <1>2, <2>1, GrownSame
<1>3. CASE PageBuffer[last] # <<>>
  <2>1. n >= 0 /\ AddPage(PageBuffer[last], n)
    BY <1>3 DEF PageAdded
  <2>2. PageBuffer[last] \in Data /\ Len(PageBuffer[last]) \in Nat /\ Len(PageBuffer[last]) <= PageSize
    BY <1>1, BufferFits
  <2>3. Len(PageBuffer[last]) # 0
    BY <1>3, <2>2, EmptySeq DEF Data
  <2>4. Len(PageBuffer[last]) \in 1 .. PageSize
    BY <2>2, <2>3, WriterAssumption
  <2> QED
    BY <1>1, <2>1, <2>2, <2>4, AddPageGrows
<1> QED
  BY <1>2, <1>3

\* A buffer whose turn has not come has its data.
LEMMA Waits ==
  ASSUME IInv, Purging, ~fatalError, NEW i \in saved + 1 .. Len(order)
  PROVE  /\ order[i] \in DOMAIN buffers /\ order[i] \notin Saved /\ order[i] \notin Gone
         /\ Sorted(i).data \in Contents \ {<<>>} /\ Sorted(i).data \in Data
         /\ Sorted(i).length = Len(Sorted(i).data) /\ Bytes(i) = Sorted(i).data
<1>1. saved \in Nat /\ i \in 1 .. Len(order) /\ Len(order) = Len(buffers) /\ Len(buffers) \in Nat
  BY Purges
<1>2. order[i] \in DOMAIN buffers
  BY <1>1, Purges
<1>3. \A j \in 1 .. saved : j # i /\ j \in 1 .. Len(buffers)
  BY <1>1
<1>4. order[i] \notin Saved
  BY <1>1, <1>3, Purges DEF Saved
<1>5. \A j \in 1 .. saved - 1 : j \in 1 .. saved
  BY <1>1
<1>6. order[i] \notin Gone
  BY <1>4, <1>5 DEF Saved, Gone
<1>7. Owned
  BY DEF IInv
<1>8. Sorted(i).data \in Contents \ {<<>>} /\ Sorted(i).length = Len(Sorted(i).data)
  BY <1>2, <1>6, <1>7 DEF Owned, Sorted
<1>9. Sorted(i).data \in Data /\ Sorted(i).data # NULL
  BY <1>8, WriterAssumption DEF Data
<1> QED
  BY <1>2, <1>4, <1>6, <1>8, <1>9 DEF Bytes

\* Each buffer of the page is held where its slot says.
LEMMA SlotsHold ==
  ASSUME IInv, Purging, ~fatalError, NEW last, NEW n, PageAdded(last, n)
  PROVE  \A k \in saved + 1 .. last : Holds(pages', Slots(last, n)[k], Sorted(k).data)
<1> DEFINE at == Slots(last, n)
           data(k) == buffers[order[k]].data
           T == {k \in saved .. last : k > 0 => at[k] \in Places /\ Holds(pages', at[k], data(k))}
<1>1. /\ last \in saved + 1 .. Len(order) /\ n \in Int
      /\ pages' \in Seq(Data) /\ pages \in Seq(Data) /\ Grown(pages, pages')
      /\ PageBuffer[last] # <<>> => n \in 0 .. Len(pages') - 1 /\ pages'[n + 1] = PageBuffer[last]
  BY PageGrows, Purges DEF TypeInv
<1>2. saved \in Nat /\ last \in Nat /\ Len(order) \in Nat /\ saved <= last
  BY <1>1, Purges
<1>3. at[saved] = slot
      /\ \A k \in saved + 1 .. last :
           /\ at[k] = IF Same(k) THEN at[k - 1] ELSE [page |-> n, offset |-> Len(PageBuffer[k - 1])]
           /\ at[k] \in Places
  BY <1>1, SlotSteps
<1> HIDE DEF at
<1>4. saved \in T
  <2>1. CASE saved > 0
    <3>1. slot \in Places /\ Holds(pages, slot, data(saved))
      BY <2>1 DEF IInv, SlotFits
    <3>2. Holds(pages', slot, data(saved))
      BY <1>1, <3>1, HoldsGrown
    <3> QED
      BY <1>2, <1>3, <3>1, <3>2
  <2> QED
    BY <1>2, <2>1
<1>5. ASSUME NEW k \in saved + 1 .. last, k - 1 \in T PROVE k \in T
  <2>1. /\ k \in saved .. last /\ k - 1 \in saved .. last /\ k \in saved + 1 .. Len(order)
        /\ k - 1 \in saved .. Len(order) /\ last \in k .. Len(order) /\ k \in saved .. Len(order)
    BY <1>1, <1>2
  <2>2. CASE Same(k)
    <3>1. k - 1 > 0 /\ buffers[order[k]].data = buffers[order[k - 1]].data
      BY <1>2, <2>2 DEF Same, SameContent
    <3>2. Holds(pages', at[k - 1], data(k - 1))
      BY <1>5, <3>1
    <3> QED
      BY <1>3, <2>1, <2>2, <3>1, <3>2
  <2>3. CASE ~Same(k)
    <3> DEFINE a == PageBuffer[k - 1]
               b == PageBuffer[k]
               p == PageBuffer[last]
               d == data(k)
    <3>1. /\ a \in Data /\ b \in Data /\ p \in Data /\ b = a \o Bytes(k)
      <4>1. last \in saved .. Len(order)
        BY <1>1, <1>2
      <4> QED
        BY <2>1, <2>3, <4>1, BufferSteps
    <3>2. d \in Data /\ d # <<>> /\ Bytes(k) = d
      BY <2>1, Waits DEF Sorted
    <3>3. Grown(b, p)
      BY <2>1, BufferGrows
    <3>4. at[k] = [page |-> n, offset |-> Len(a)]
      BY <1>3, <2>3
    <3> HIDE DEF a, b, p, d
    <3>5. Len(a) \in Nat /\ Len(b) \in Nat /\ Len(p) \in Nat /\ Len(d) \in Nat /\ Len(d) # 0
      BY <3>1, <3>2, EmptySeq, LenProperties DEF Data
    <3>6. Len(b) = Len(a) + Len(d)
          /\ \A l \in 1 .. Len(a) + Len(d) : b[l] = IF l <= Len(a) THEN a[l] ELSE d[l - Len(a)]
      BY <3>1, <3>2, ConcatProperties DEF Data
    <3>7. Len(a) + Len(d) <= Len(p) /\ \A l \in 1 .. Len(a) + Len(d) : p[l] = b[l]
      BY <3>3, <3>6 DEF Grown
    <3>8. p # <<>>
      BY <3>5, <3>7, EmptySeq
    <3>9. SubSeq(p, Len(a) + 1, Len(a) + Len(d)) = d
      <4>1. /\ Len(a) + 1 <= Len(a) + Len(d) /\ Len(a) + 1 \in Int /\ Len(a) + Len(d) \in Int
            /\ \A l \in Len(a) + 1 .. Len(a) + Len(d) : l \in 1 .. Len(p)
        BY <3>5, <3>7
      <4>2. \A l \in Len(a) + 1 .. Len(a) + Len(d) : p[l] \in Byte
        BY <3>1, <4>1, ElementOfSeq DEF Data
      <4> DEFINE s == SubSeq(p, Len(a) + 1, Len(a) + Len(d))
      <4>3. /\ s \in Seq(Byte) /\ Len(s) = (Len(a) + Len(d)) - (Len(a) + 1) + 1
            /\ \A l \in 1 .. (Len(a) + Len(d)) - (Len(a) + 1) + 1 : s[l] = p[Len(a) + 1 + l - 1]
        BY <4>1, <4>2, SubSeqProperties
      <4> HIDE DEF s
      <4>4. (Len(a) + Len(d)) - (Len(a) + 1) + 1 = Len(d)
            /\ \A l \in 1 .. Len(d) : /\ Len(a) + 1 + l - 1 = Len(a) + l
                                      /\ Len(a) + l \in 1 .. Len(a) + Len(d)
                                      /\ ~(Len(a) + l <= Len(a)) /\ (Len(a) + l) - Len(a) = l
        BY <3>5
      <4>5. ASSUME NEW l \in 1 .. Len(d) PROVE s[l] = d[l]
        <5>1. s[l] = p[Len(a) + l]
          BY <4>3, <4>4
        <5>2. p[Len(a) + l] = b[Len(a) + l]
          BY <3>7, <4>4
        <5>3. b[Len(a) + l] = d[(Len(a) + l) - Len(a)]
          BY <3>6, <4>4
        <5>4. (Len(a) + l) - Len(a) = l
          BY <4>4
        <5> QED
          BY <5>1, <5>2, <5>3, <5>4
      <4>6. s = d
        BY <3>2, <4>3, <4>4, <4>5, SeqEqual DEF Data
      <4> QED
        BY <4>6 DEF s
    <3>10. n \in 0 .. Len(pages') - 1 /\ pages'[n + 1] = p
      BY <1>1, <3>8 DEF p
    <3>11. Holds(pages', at[k], d)
      BY <3>4, <3>7, <3>9, <3>10 DEF Holds
    <3> QED
      BY <1>3, <2>1, <3>11 DEF d
  <2> QED
    BY <2>2, <2>3
<1> HIDE DEF T
<1>6. \A k \in saved .. last : k \in T
  BY <1>2, <1>4, <1>5, InductiveFrom
<1>7. ASSUME NEW k \in saved + 1 .. last PROVE Holds(pages', at[k], Sorted(k).data)
  <2>1. k \in saved .. last /\ k > 0
    BY <1>2
  <2> QED
    BY <1>6, <2>1 DEF T, Sorted
<1> QED
  BY <1>7 DEF at

\* The buffers whose data is freed are otherwise what they were.
LEMMA FreedFit ==
  ASSUME IInv, Purging, NEW last \in saved + 1 .. Len(order)
  PROVE  /\ Freed(last) \in Seq(Buffers) /\ Len(Freed(last)) = Len(buffers)
         /\ DOMAIN Freed(last) = DOMAIN buffers
         /\ \A k \in DOMAIN buffers :
              /\ Freed(last)[k].file = buffers[k].file /\ Freed(last)[k].alive = buffers[k].alive
              /\ Freed(last)[k].length = buffers[k].length
              /\ Freed(last)[k].data \in {NULL, buffers[k].data}
              /\ k \notin {order[i] : i \in 1 .. last - 1} => Freed(last)[k] = buffers[k]
<1> DEFINE bufs == Freed(last)
<1>1. Len(buffers) \in Nat /\ DOMAIN buffers = 1 .. Len(buffers)
      /\ \A k \in 1 .. Len(buffers) : buffers[k] \in Buffers
  BY Purges
<1>2. bufs = [k \in 1 .. Len(buffers) |->
                IF \E i \in 1 .. last - 1 : order[i] = k
                  THEN [buffers[k] EXCEPT !.data = NULL] ELSE buffers[k]]
  BY <1>1 DEF Freed
<1> HIDE DEF bufs
<1>3. ASSUME NEW k \in 1 .. Len(buffers)
      PROVE  /\ bufs[k] \in Buffers
             /\ bufs[k].file = buffers[k].file /\ bufs[k].alive = buffers[k].alive
             /\ bufs[k].length = buffers[k].length /\ bufs[k].data \in {NULL, buffers[k].data}
             /\ k \notin {order[i] : i \in 1 .. last - 1} => bufs[k] = buffers[k]
  <2>1. buffers[k] \in Buffers
    BY <1>1
  <2>2. CASE \E i \in 1 .. last - 1 : order[i] = k
    <3>1. bufs[k] = [buffers[k] EXCEPT !.data = NULL]
      BY <1>2, <2>2
    <3> QED
      BY <2>1, <2>2, <3>1 DEF Buffers
  <2>3. CASE ~\E i \in 1 .. last - 1 : order[i] = k
    <3>1. bufs[k] = buffers[k]
      BY <1>2, <2>3
    <3> QED
      BY <2>1, <3>1
  <2> QED
    BY <2>2, <2>3
<1>4. bufs \in Seq(Buffers) /\ Len(bufs) = Len(buffers) /\ DOMAIN bufs = 1 .. Len(buffers)
  <2>1. bufs \in [1 .. Len(buffers) -> Buffers]
    BY <1>2, <1>3
  <2> QED
    BY <1>1, <2>1
<1> QED
  BY <1>1, <1>3, <1>4 DEF bufs

LEMMA PurgeFailsStep ==
  ASSUME IInv, PurgeFails
  PROVE  IInv'
<1>0. /\ Purging /\ fatalError' = TRUE /\ order' = <<>> /\ saved' = 0 /\ pc' = "idle" /\ job' = NULL
      /\ UNCHANGED <<index, pages, pageMap, isWriteToMemory>>
  BY DEF PurgeFails, EndPurge, Go, Purging
<1>1. PICK last \in saved + 1 .. Len(order) : buffers' = Freed(last)
  BY DEF PurgeFails
<1>2. /\ buffers' \in Seq(Buffers) /\ DOMAIN buffers' = DOMAIN buffers
      /\ \A k \in DOMAIN buffers :
           /\ buffers'[k].file = buffers[k].file /\ buffers'[k].alive = buffers[k].alive
           /\ buffers'[k].data \in {NULL, buffers[k].data}
  BY <1>0, <1>1, FreedFit
<1>3. TypeInv /\ BuffersFit
  BY <1>0, Purges
<1>4. TypeInv'
  BY <1>0, <1>2, <1>3 DEF TypeInv
<1>5. PurgeFits' /\ JobFits'
  BY <1>0 DEF PurgeFits, JobFits, Purging
<1>6. BuffersFit'
  <2>1. \A k \in DOMAIN buffers' :
          buffers'[k].data # NULL /\ ~isWriteToMemory' => Len(buffers'[k].data) <= PageSize
    BY <1>0, <1>2, <1>3 DEF BuffersFit
  <2> QED
    BY <1>0, <1>2, <1>3, <2>1 DEF BuffersFit
<1> QED
  BY <1>0, <1>4, <1>5, <1>6 DEF IInv

\* The entry of each file after a page: that of a buffer which is in it names
\* the place there.
Entries(last, n) ==
  /\ index' = [f \in Files |-> index'[f]]
  /\ \A f \in Files :
       \/ /\ index'[f] = index[f]
          /\ \A i \in saved + 1 .. last : ~(Sorted(i).file = f /\ Sorted(i).alive)
       \/ \E i \in saved + 1 .. last :
            /\ Sorted(i).file = f /\ Sorted(i).alive
            /\ index'[f] = <<Block(Slots(last, n)[i].page, Slots(last, n)[i].offset, index[f][1].size)>>

PagePurged(last, n) ==
  /\ PageAdded(last, n) /\ Entries(last, n)
  /\ pageMap' = IF n < 0 THEN pageMap
                ELSE pageMap \cup {Block(n, Slots(last, n)[i].offset, Sorted(i).length) :
                                     i \in saved + 1 .. last}
  /\ last = Len(order) =>
       /\ buffers' = <<>> /\ order' = <<>> /\ saved' = 0
       /\ IF pc = "purge" THEN pc' = "idle" /\ job' = NULL ELSE pc' = "add" /\ job' = job
  /\ last # Len(order) =>
       /\ buffers' = Freed(last) /\ saved' = last /\ slot' = Slots(last, n)[last]
       /\ UNCHANGED <<order, pc, job>>
  /\ UNCHANGED modes

LEMMA PurgePageIs ==
  ASSUME PurgePage
  PROVE  Purging /\ \E last, n : PagePurged(last, n)
<1>1. Purging
  BY DEF PurgePage, Purging
<1>2. PICK last \in saved + 1 .. Len(order), n \in -1 .. Len(pages) :
        /\ LastOfPage(last)
        /\ IF PageBuffer[last] = <<>> THEN n = -1 /\ UNCHANGED pages
                                      ELSE n >= 0 /\ AddPage(PageBuffer[last], n)
        /\ LET at == Slots(last, n)
               done == saved + 1 .. last
               entry(f) == {i \in done : Sorted(i).file = f /\ Sorted(i).alive}
           IN /\ index' = [f \in Files |->
                             IF entry(f) = {} THEN index[f]
                             ELSE LET s == at[CHOOSE i \in entry(f) : TRUE]
                                  IN <<Block(s.page, s.offset, index[f][1].size)>>]
              /\ pageMap' = IF n < 0 THEN pageMap
                            ELSE pageMap \cup {Block(n, at[i].offset, Sorted(i).length) : i \in done}
              /\ IF last = Len(order)
                   THEN /\ buffers' = <<>>
                        /\ EndPurge
                        /\ IF pc = "purge" THEN Go("idle", NULL) ELSE Go("add", job)
                   ELSE /\ buffers' = Freed(last)
                        /\ saved' = last /\ slot' = at[last]
                        /\ UNCHANGED <<order, pc, job>>
  BY DEF PurgePage
<1>3. PageAdded(last, n)
  BY <1>2 DEF PageAdded
<1> DEFINE at == Slots(last, n)
           entry(f) == {i \in saved + 1 .. last : Sorted(i).file = f /\ Sorted(i).alive}
<1>4. index' = [f \in Files |->
                  IF entry(f) = {} THEN index[f]
                  ELSE <<Block(at[CHOOSE i \in entry(f) : TRUE].page,
                               at[CHOOSE i \in entry(f) : TRUE].offset, index[f][1].size)>>]
  BY <1>2
<1>5. Entries(last, n)
  <2>1. index' = [f \in Files |-> index'[f]]
    BY <1>4
  <2>2. ASSUME NEW f \in Files
        PROVE  \/ /\ index'[f] = index[f]
                  /\ \A i \in saved + 1 .. last : ~(Sorted(i).file = f /\ Sorted(i).alive)
               \/ \E i \in saved + 1 .. last :
                    /\ Sorted(i).file = f /\ Sorted(i).alive
                    /\ index'[f] = <<Block(at[i].page, at[i].offset, index[f][1].size)>>
    <3>1. CASE entry(f) = {}
      BY <1>4, <3>1
    <3>2. CASE entry(f) # {}
      <4> DEFINE i == CHOOSE i \in entry(f) : TRUE
      <4>1. i \in entry(f)
        BY <3>2
      <4>2. index'[f] = <<Block(at[i].page, at[i].offset, index[f][1].size)>>
        BY <1>4, <3>2
      <4>3. i \in saved + 1 .. last /\ Sorted(i).file = f /\ Sorted(i).alive
        BY <4>1
      <4> HIDE DEF i, at
      <4> QED
        BY <4>2, <4>3
    <3> QED
      BY <3>1, <3>2
  <2> QED
    BY <2>1, <2>2 DEF Entries
<1>6. UNCHANGED modes
  BY DEF PurgePage
<1>7. PagePurged(last, n)
  BY <1>2, <1>3, <1>5, <1>6 DEF PagePurged, EndPurge, Go
<1> QED
  BY <1>1, <1>7

\* The entries have their types, and none is lost.
LEMMA EntriesType ==
  ASSUME IInv, Purging, NEW last, NEW n, PageAdded(last, n), Entries(last, n)
  PROVE  /\ index' \in [Files -> Seq(Blocks) \cup {NULL}]
         /\ \A f \in Files : index'[f] # NULL => index'[f] # <<>>
         /\ \A f \in Files : index[f] # NULL => index'[f] # NULL
<1>1. last \in saved + 1 .. Len(order) /\ n \in Int /\ TypeInv /\ BuffersFit
  BY PageGrows, Purges
<1>2. \A i \in saved + 1 .. last : order[i] \in DOMAIN buffers
  <2>1. \A i \in saved + 1 .. last : i \in 1 .. Len(buffers)
    BY <1>1, Purges
  <2> QED
    BY <2>1, Purges
<1>3. ASSUME NEW f \in Files
      PROVE  /\ index'[f] \in Seq(Blocks) \cup {NULL} /\ (index'[f] # NULL => index'[f] # <<>>)
             /\ index[f] # NULL => index'[f] # NULL
  <2>1. CASE index'[f] = index[f]
    BY <1>1, <2>1 DEF TypeInv
  <2>2. CASE \E i \in saved + 1 .. last :
               /\ Sorted(i).file = f /\ Sorted(i).alive
               /\ index'[f] = <<Block(Slots(last, n)[i].page, Slots(last, n)[i].offset, index[f][1].size)>>
    <3>1. PICK i \in saved + 1 .. last :
            /\ Sorted(i).file = f /\ Sorted(i).alive
            /\ index'[f] = <<Block(Slots(last, n)[i].page, Slots(last, n)[i].offset, index[f][1].size)>>
      BY <2>2
    <3>2. index[f] # NULL
      BY <1>1, <1>2, <3>1 DEF BuffersFit, Sorted
    <3>3. index[f] \in Seq(Blocks) /\ index[f] # <<>>
      BY <1>1, <3>2 DEF TypeInv
    <3>4. Len(index[f]) \in Nat /\ Len(index[f]) # 0
      BY <3>3, EmptySeq, LenProperties
    <3>5. 1 \in 1 .. Len(index[f])
      BY <3>4
    <3>6. index[f][1] \in Blocks
      BY <3>3, <3>5, ElementOfSeq
    <3>7. Slots(last, n)[i] \in Places
      BY <1>1, SlotSteps
    <3> DEFINE b == Block(Slots(last, n)[i].page, Slots(last, n)[i].offset, index[f][1].size)
    <3>8. b \in Blocks
      BY <3>6, <3>7 DEF Block, Blocks, Places
    <3> HIDE DEF b
    <3>9. index'[f] = <<b>>
      BY <3>1 DEF b
    <3>10. index'[f] \in Seq(Blocks) /\ index'[f] # <<>>
      BY <3>8, <3>9
    <3> QED
      BY <3>10, WriterAssumption
  <2> QED
    BY <2>1, <2>2 DEF Entries
<1>4. index' = [f \in Files |-> index'[f]]
  BY DEF Entries
<1> QED
  BY <1>3, <1>4

\* The block of a buffer that was saved lies in its page.
LEMMA EntriesHold ==
  ASSUME IInv, Purging, ~fatalError, NEW last, NEW n, PageAdded(last, n), Entries(last, n),
         NEW f \in Files,
         ~ /\ index'[f] = index[f]
           /\ \A i \in saved + 1 .. last : ~(Sorted(i).file = f /\ Sorted(i).alive)
  PROVE  \E i \in saved + 1 .. last, b \in Blocks :
           /\ Sorted(i).file = f /\ Sorted(i).alive
           /\ index[f] = <<Block(-order[i], 0, Len(Sorted(i).data))>>
           /\ index'[f] = <<b>> /\ b.size = Len(Sorted(i).data)
           /\ Holds(pages', [page |-> b.page, offset |-> b.offset], Sorted(i).data)
<1>1. last \in saved + 1 .. Len(order) /\ n \in Int /\ Owned
  BY PageGrows DEF IInv
<1>2. PICK i \in saved + 1 .. last :
        /\ Sorted(i).file = f /\ Sorted(i).alive
        /\ index'[f] = <<Block(Slots(last, n)[i].page, Slots(last, n)[i].offset, index[f][1].size)>>
  BY DEF Entries
<1>3. i \in saved + 1 .. Len(order)
  BY <1>1, Purges
<1>4. /\ order[i] \in DOMAIN buffers /\ order[i] \notin Saved
      /\ Sorted(i).data \in Data /\ Sorted(i).length = Len(Sorted(i).data)
  BY <1>3, Waits
<1>5. index[f] = <<Block(-order[i], 0, Len(Sorted(i).data))>>
  BY <1>1, <1>2, <1>4 DEF Owned, Sorted
<1> DEFINE place == Slots(last, n)[i]
           b == Block(place.page, place.offset, index[f][1].size)
<1>6. place \in Places /\ Holds(pages', place, Sorted(i).data)
  BY <1>1, SlotSteps, SlotsHold
<1> HIDE DEF place
<1>7. index[f][1].size = Len(Sorted(i).data) /\ Len(Sorted(i).data) \in Nat
  BY <1>4, <1>5, LenProperties DEF Block, Data
<1>8. b \in Blocks /\ b.size = Len(Sorted(i).data) /\ b.page = place.page /\ b.offset = place.offset
  BY <1>6, <1>7 DEF Block, Blocks, Places
<1>9. Holds(pages', [page |-> b.page, offset |-> b.offset], Sorted(i).data)
  BY <1>6, <1>8 DEF Holds
<1>10. index'[f] = <<b>>
  BY <1>2 DEF place
<1> HIDE DEF b
<1> QED
  BY <1>2, <1>5, <1>8, <1>9, <1>10

LEMMA PurgePageStep ==
  ASSUME IInv, PurgePage
  PROVE  IInv'
<1>0. Purging
  BY PurgePageIs
<1>1. PICK last, n : PagePurged(last, n)
  BY PurgePageIs
<1> DEFINE N == Len(order)
<1>2. PageAdded(last, n) /\ Entries(last, n)
  BY <1>1 DEF PagePurged
<1>3. /\ last \in saved + 1 .. N /\ n \in Int
      /\ pages' \in Seq(Data) /\ \A i \in DOMAIN pages' : Len(pages'[i]) \in 1 .. PageSize
      /\ Grown(pages, pages') /\ (n >= 0 => n \in 0 .. Len(pages') - 1)
  BY <1>0, <1>2, PageGrows
<1>4. /\ TypeInv /\ BuffersFit /\ ~isWriteToMemory /\ N = Len(buffers) /\ N \in Nat /\ saved \in Nat
      /\ DOMAIN buffers = 1 .. N
      /\ \A i \in 1 .. N : order[i] \in 1 .. N
      /\ \A i, j \in 1 .. N : order[i] = order[j] => i = j
      /\ JobFits /\ order \in [1 .. N -> 1 .. N] /\ Distinct(order)
  BY <1>0, Purges DEF IInv, PurgeFits
<1>5. /\ index' \in [Files -> Seq(Blocks) \cup {NULL}]
      /\ \A f \in Files : index'[f] # NULL => index'[f] # <<>>
      /\ \A f \in Files : index[f] # NULL => index'[f] # NULL
  BY <1>0, <1>2, EntriesType
<1>6. /\ Freed(last) \in Seq(Buffers) /\ Len(Freed(last)) = N /\ DOMAIN Freed(last) = DOMAIN buffers
      /\ \A k \in DOMAIN buffers :
           /\ Freed(last)[k].file = buffers[k].file /\ Freed(last)[k].alive = buffers[k].alive
           /\ Freed(last)[k].length = buffers[k].length
           /\ Freed(last)[k].data \in {NULL, buffers[k].data}
           /\ k \notin {order[i] : i \in 1 .. last - 1} => Freed(last)[k] = buffers[k]
  BY <1>0, <1>3, <1>4, FreedFit
<1>7. UNCHANGED modes /\ Slots(last, n)[last] \in Places
  <2>1. last \in saved + 1 .. last
    BY <1>3, <1>4
  <2> QED
    BY <1>0, <1>1, <1>3, <2>1, SlotSteps DEF PagePurged
<1>8. ASSUME ~fatalError PROVE InPages'
  <2> SUFFICES ASSUME NEW f \in Files, index'[f] # NULL, NEW i \in DOMAIN index'[f],
                      index'[f][i].page >= 0
               PROVE  Stored(index'[f][i], pages')
    BY DEF InPages
  <2>1. CASE index'[f] = index[f]
    <3>1. index[f] \in Seq(Blocks)
      BY <1>4, <2>1 DEF TypeInv
    <3>2. index[f][i] \in Blocks
      BY <2>1, <3>1, LenProperties, ElementOfSeq
    <3>3. Stored(index[f][i], pages)
      BY <1>8, <2>1 DEF IInv, InPages
    <3> QED
      BY <1>3, <1>4, <2>1, <3>2, <3>3, StoredGrown DEF TypeInv
  <2>2. CASE index'[f] # index[f]
    <3>1. PICK j \in saved + 1 .. last, b \in Blocks :
            /\ index'[f] = <<b>> /\ b.size = Len(Sorted(j).data)
            /\ Holds(pages', [page |-> b.page, offset |-> b.offset], Sorted(j).data)
      BY <1>0, <1>2, <1>8, <2>2, EntriesHold
    <3>2. index'[f][i] = b
      BY <3>1
    <3> QED
      BY <3>1, <3>2 DEF Holds, Stored, InPage
  <2> QED
    BY <2>1, <2>2
<1>9. ASSUME ~fatalError PROVE MapFits'
  <2>1. buffers # <<>>
    BY <1>3, <1>4, EmptySeq
  <2>2. pageMap \subseteq Spans /\ \A s \in pageMap : s.page < Len(pages)
    BY <1>4, <1>9, <2>1 DEF IInv, MapFits
  <2>3. \A s \in pageMap : s.page < Len(pages')
    BY <1>3, <1>4, <2>2, LenProperties DEF Grown, Spans, TypeInv
  <2>4. ASSUME NEW i \in saved + 1 .. last, n >= 0
        PROVE  /\ Block(n, Slots(last, n)[i].offset, Sorted(i).length) \in Spans
               /\ Block(n, Slots(last, n)[i].offset, Sorted(i).length).page < Len(pages')
    <3>1. Slots(last, n)[i] \in Places /\ n \in Nat /\ n < Len(pages')
      <4>1. Slots(last, n)[i] \in Places
        BY <1>0, <1>3, SlotSteps
      <4>2. n \in Nat /\ n \in 0 .. Len(pages') - 1 /\ Len(pages') \in Nat
        BY <1>3, <2>4, LenProperties
      <4> QED
        BY <4>1, <4>2
    <3>2. Sorted(i).length \in Int
      <4>1. i \in 1 .. Len(buffers)
        BY <1>3, <1>4
      <4>2. Sorted(i) \in Buffers
        BY <1>0, <4>1, Purges
      <4> QED
        BY <4>2 DEF Buffers
    <3> QED
      BY <3>1, <3>2 DEF Places, Spans, Block
  <2>5. CASE n < 0
    BY <1>1, <2>2, <2>3, <2>5 DEF PagePurged, MapFits
  <2>6. CASE ~(n < 0)
    <3>1. n >= 0 /\ pageMap' = pageMap \cup {Block(n, Slots(last, n)[i].offset, Sorted(i).length) :
                                               i \in saved + 1 .. last}
      BY <1>1, <1>3, <2>6 DEF PagePurged
    <3> QED
      BY <2>2, <2>3, <2>4, <3>1 DEF MapFits
  <2> QED
    BY <2>5, <2>6
<1> HIDE DEF N
<1>10. CASE last = N
  <2>0. /\ buffers' = <<>> /\ order' = <<>> /\ saved' = 0
        /\ IF pc = "purge" THEN pc' = "idle" /\ job' = NULL ELSE pc' = "add" /\ job' = job
    BY <1>1, <1>10 DEF PagePurged, N
  <2>1. DOMAIN buffers' = {} /\ buffers' \in Seq(Buffers)
    BY <2>0
  <2>2. pc \in {"purge", "purgeFirst"}
    BY <1>0 DEF Purging
  <2>3. TypeInv'
    BY <1>3, <1>4, <1>5, <1>7, <2>0, <2>1, <2>2 DEF TypeInv, modes
  <2>4. PurgeFits' /\ JobFits'
    BY <1>4, <1>7, <2>0, <2>2 DEF PurgeFits, JobFits, Purging, modes
  <2>5. BuffersFit' /\ Owned'
    BY <2>1 DEF BuffersFit, Owned
  <2>6. SlotFits' /\ PiecesFit' /\ Bounded'
    BY <2>0, <2>2 DEF SlotFits, PiecesFit, Bounded
  <2> QED
    BY <1>7, <1>8, <1>9, <2>3, <2>4, <2>5, <2>6 DEF IInv, modes
<1>11. CASE last # N
  <2>0. /\ buffers' = Freed(last) /\ saved' = last /\ slot' = Slots(last, n)[last]
        /\ UNCHANGED <<order, pc, job>>
    BY <1>1, <1>11 DEF PagePurged, N
  <2>1. TypeInv'
    BY <1>3, <1>4, <1>5, <1>6, <1>7, <2>0 DEF TypeInv, modes
  <2>2. PurgeFits' /\ JobFits'
    <3>1. last \in 0 .. N - 1
      BY <1>3, <1>4, <1>11
    <3>2. Purging'
      BY <1>0, <2>0 DEF Purging
    <3>3. PurgeFits'
      BY <1>4, <1>6, <1>7, <2>0, <3>1, <3>2 DEF PurgeFits, modes
    <3>4. JobFits'
      BY <1>0, <1>4, <1>7, <2>0 DEF JobFits, modes, Purging
    <3> QED
      BY <3>3, <3>4
  <2>3. BuffersFit'
    <3>1. \A k \in DOMAIN buffers : buffers[k].file \in Files
      <4>1. \A k \in DOMAIN buffers : buffers[k] \in Buffers
        BY <1>0, <1>4, Purges
      <4> QED
        BY <4>1 DEF Buffers
    <3>s. /\ DOMAIN buffers' = DOMAIN buffers
          /\ \A k \in DOMAIN buffers :
               buffers'[k].file = buffers[k].file /\ buffers'[k].alive = buffers[k].alive
      BY <1>6, <2>0
    <3>2. \A k \in DOMAIN buffers' : buffers'[k].alive => index'[buffers'[k].file] # NULL
      BY <1>4, <1>5, <3>1, <3>s DEF BuffersFit
    <3>3. \A k, l \in DOMAIN buffers' :
            buffers'[k].alive /\ buffers'[l].alive /\ buffers'[k].file = buffers'[l].file => k = l
      BY <1>4, <3>s DEF BuffersFit
    <3>4. \A k \in DOMAIN buffers' :
            buffers'[k].data # NULL /\ ~isWriteToMemory' => Len(buffers'[k].data) <= PageSize
      BY <1>4, <1>6, <1>7, <2>0 DEF BuffersFit, modes
    <3> QED
      BY <3>2, <3>3, <3>4 DEF BuffersFit
  <2>4. ASSUME ~fatalError PROVE Owned'
    <3>1. Owned
      BY <2>4 DEF IInv
    <3>2. Saved' = {order[i] : i \in 1 .. last} /\ Gone' = {order[i] : i \in 1 .. last - 1}
      BY <2>0 DEF Saved, Gone
    <3>3. /\ Saved \subseteq Saved' /\ Gone \subseteq Gone'
          /\ \A i \in saved + 1 .. last : order[i] \in Saved'
      <4>1. /\ \A i \in 1 .. saved : i \in 1 .. last
            /\ \A i \in 1 .. saved - 1 : i \in 1 .. last - 1
            /\ \A i \in saved + 1 .. last : i \in 1 .. last
        BY <1>3, <1>4
      <4> QED
        BY <3>2, <4>1 DEF Saved, Gone
    <3> SUFFICES ASSUME NEW k \in DOMAIN buffers
                 PROVE  LET b == buffers'[k]
                        IN /\ b.alive /\ job' # NULL => b.file # job'.file
                           /\ b.alive /\ k \notin Saved' => index'[b.file] = <<Block(-k, 0, b.length)>>
                           /\ k \notin Gone' => b.data \in Contents \ {<<>>} /\ b.length = Len(b.data)
      BY <1>6, <2>0 DEF Owned
    <3>4. /\ buffers'[k].file = buffers[k].file /\ buffers'[k].alive = buffers[k].alive
          /\ buffers'[k].length = buffers[k].length
      BY <1>6, <2>0
    <3>5. buffers'[k].alive /\ job' # NULL => buffers'[k].file # job'.file
      BY <2>0, <3>1, <3>4 DEF Owned
    <3>6. ASSUME k \notin Gone'
          PROVE  buffers'[k].data \in Contents \ {<<>>} /\ buffers'[k].length = Len(buffers'[k].data)
      <4>1. buffers'[k] = buffers[k] /\ k \notin Gone
        BY <1>6, <2>0, <3>2, <3>3, <3>6
      <4> QED
        BY <3>1, <4>1 DEF Owned
    <3>7. ASSUME buffers[k].alive, k \notin Saved'
          PROVE  index'[buffers[k].file] = <<Block(-k, 0, buffers[k].length)>>
      <4>1. index[buffers[k].file] = <<Block(-k, 0, buffers[k].length)>>
        BY <3>1, <3>3, <3>7 DEF Owned
      <4>2. ASSUME NEW i \in saved + 1 .. last, Sorted(i).file = buffers[k].file, Sorted(i).alive
            PROVE  FALSE
        <5>1. i \in 1 .. N
          BY <1>3, <1>4
        <5>2. order[i] \in DOMAIN buffers
          BY <1>4, <5>1
        <5>3. order[i] = k
          BY <1>4, <3>7, <4>2, <5>2 DEF BuffersFit, Sorted
        <5> QED
          BY <3>3, <3>7, <5>3
      <4>3. buffers[k].file \in Files
        <5>1. buffers[k] \in Buffers
          BY <1>0, <1>4, Purges
        <5> QED
          BY <5>1 DEF Buffers
      <4>4. index'[buffers[k].file] = index[buffers[k].file]
        BY <1>2, <4>2, <4>3 DEF Entries
      <4> QED
        BY <4>1, <4>4
    <3> QED
      BY <3>4, <3>5, <3>6, <3>7
  <2>5. ASSUME ~fatalError PROVE SlotFits'
    <3>1. last \in saved + 1 .. last /\ last \in 1 .. N
      BY <1>3, <1>4
    <3>2. order[last] \in DOMAIN buffers /\ order[last] \notin {order[i] : i \in 1 .. last - 1}
      <4>1. \A i \in 1 .. last - 1 : i \in 1 .. N /\ i # last
        BY <1>3, <1>4
      <4> QED
        BY <1>4, <3>1, <4>1
    <3>3. buffers'[order[last]] = buffers[order[last]]
      BY <1>6, <2>0, <3>2
    <3>4. Holds(pages', Slots(last, n)[last], Sorted(last).data)
      BY <1>0, <1>2, <2>5, <3>1, SlotsHold
    <3> QED
      BY <1>7, <2>0, <3>3, <3>4 DEF SlotFits, Sorted
  <2>6. PiecesFit' /\ Bounded'
    BY <1>0, <2>0 DEF PiecesFit, Bounded, Purging
  <2> QED
    BY <1>7, <1>8, <1>9, <2>1, <2>2, <2>3, <2>4, <2>5, <2>6 DEF IInv, modes
<1> QED
  BY <1>10, <1>11

-----------------------------------------------------------------------------
(* All steps.                                                              *)

LEMMA InitFits == Init => IInv
<1> SUFFICES ASSUME Init PROVE IInv
  OBVIOUS
<1>1. /\ index = [f \in Files |-> NULL] /\ buffers = <<>> /\ pages = <<>> /\ pageMap = NULL
      /\ fatalError = FALSE /\ isWriteToMemory \in BOOLEAN /\ pc = "idle" /\ job = NULL
      /\ order = <<>> /\ saved = 0
  BY DEF Init
<1>2. buffers \in Seq(Buffers) /\ pages \in Seq(Data) /\ DOMAIN buffers = {} /\ DOMAIN pages = {}
  BY <1>1
<1>3. TypeInv
  BY <1>1, <1>2 DEF TypeInv
<1>4. PurgeFits /\ JobFits /\ BuffersFit
  BY <1>1, <1>2 DEF PurgeFits, Purging, JobFits, BuffersFit
<1>5. Owned /\ InPages
  BY <1>1, <1>2 DEF Owned, InPages
<1>6. MapFits /\ SlotFits /\ PiecesFit /\ Bounded
  BY <1>1 DEF MapFits, SlotFits, PiecesFit, Bounded
<1> QED
  BY <1>3, <1>4, <1>5, <1>6 DEF IInv

LEMMA NextFits == IInv /\ [Next]_vars => IInv'
<1> SUFFICES ASSUME IInv, [Next]_vars PROVE IInv'
  OBVIOUS
<1>1. ASSUME NEW f \in Files, DeleteFile(f) PROVE IInv'
  BY <1>1, DeleteFileStep
<1>2. ASSUME NEW f \in Files, NEW c \in Given[f], AddFile(f, c) PROVE IInv'
  BY <1>2, AddFileStep
<1>3. CASE SourceFails \/ AddEmpty \/ MakeRoom \/ AddBuffer \/ PurgeFull
  BY <1>3, SourceFailsStep, AddEmptyStep, MakeRoomStep, AddBufferStep, PurgeFullStep
<1>4. CASE AddEntry \/ WritePage \/ WriteFails
  BY <1>4, AddEntryStep, WritePageStep, WriteFailsStep
<1>5. CASE PurgePage \/ PurgeFails \/ PurgeCommand \/ PurgeInMemory
  BY <1>5, PurgePageStep, PurgeFailsStep, PurgeCommandStep, PurgeInMemoryStep
<1>6. CASE SetWriteToMemory \/ RemoveDirectory \/ Remount
  BY <1>6, SetWriteToMemoryStep, RemoveDirectoryStep, RemountStep
<1>7. CASE UNCHANGED vars
  BY <1>7, SameStep
<1> QED
  BY <1>1, <1>2, <1>3, <1>4, <1>5, <1>6, <1>7 DEF Next

\* The buffers, the entries of pending files, the pages and the map fit in every
\* state, also between the pages of a purge or of a big file.
THEOREM WriterInvariant == Spec => []IInv
<1>1. Init => IInv
  BY InitFits
<1>2. IInv /\ [Next]_vars => IInv'
  BY NextFits
<1> QED
  BY <1>1, <1>2, PTL DEF Spec

\* Every field of the writer, entry and buffer has its type in every state
\* (Cookfs_Writer).
THEOREM WriterTypes == Spec => []TypeOK
<1>1. ASSUME IInv PROVE TypeOK
  <2>1. TypeInv /\ PurgeFits
    BY <1>1 DEF IInv
  <2>2. \A f \in Files : index[f] # NULL => Len(index[f]) > 0
    <3> SUFFICES ASSUME NEW f \in Files, index[f] # NULL PROVE Len(index[f]) > 0
      OBVIOUS
    <3>1. index[f] \in Seq(Blocks) /\ index[f] # <<>>
      BY <2>1 DEF TypeInv
    <3>2. Len(index[f]) \in Nat /\ Len(index[f]) # 0
      BY <3>1, EmptySeq, LenProperties
    <3> QED
      BY <3>2
  <2>3. \A k \in DOMAIN buffers : buffers[k] \in Buffers
    BY <2>1, LenProperties, ElementOfSeq DEF TypeInv
  <2>4. saved \in 0 .. Len(order) /\ DOMAIN order \in {{}, DOMAIN buffers}
    <3>1. CASE Purging
      <4>1. Len(order) = Len(buffers) /\ Len(buffers) \in Nat /\ saved \in Nat /\ saved < Len(buffers)
            /\ DOMAIN buffers = 1 .. Len(buffers)
        BY <1>1, <3>1, Purges
      <4>2. DOMAIN order = 1 .. Len(buffers)
        BY <2>1, <3>1 DEF PurgeFits
      <4> QED
        BY <4>1, <4>2
    <3>2. CASE ~Purging
      <4>1. order = <<>> /\ saved = 0
        BY <2>1, <3>2 DEF PurgeFits
      <4>2. Len(order) = 0 /\ DOMAIN order = {}
        BY <4>1
      <4> QED
        BY <4>1, <4>2
    <3> QED
      BY <3>1, <3>2
  <2> QED
    BY <2>1, <2>2, <2>3, <2>4 DEF TypeOK, TypeInv, Buffers
<1>2. IInv => TypeOK
  BY <1>1
<1> QED
  BY <1>2, WriterInvariant, PTL

\* Between operations the buffers hold less than maxBufferSize, whatever the
\* sizes of the files were (Cookfs_WriterAddFile, before and after adding one).
THEOREM BuffersAreBounded == Spec => []BufferBounded
<1>1. IInv /\ TypeOK => BufferBounded
  BY DEF IInv, Bounded, BufferBounded
<1> QED
  BY <1>1, WriterInvariant, WriterTypes, PTL

-----------------------------------------------------------------------------
(* What is kept.                                                           *)

\* What a step may do with a file that it is not about: nothing, or its buffer
\* moves, or its buffer becomes part of a page.
Moves(f) ==
  \E k \in DOMAIN buffers \ Saved, l \in DOMAIN buffers' :
    /\ buffers[k].alive /\ buffers[k].file = f
    /\ l \notin Saved' /\ buffers'[l].alive /\ buffers'[l].file = f
    /\ buffers'[l].data = buffers[k].data

IsPacked(f) ==
  \E k \in DOMAIN buffers \ Saved, b \in Blocks :
    /\ buffers[k].alive /\ buffers[k].file = f
    /\ index'[f] = <<b>> /\ b.size = Len(buffers[k].data)
    /\ Holds(pages', [page |-> b.page, offset |-> b.offset], buffers[k].data)

Stays(f) ==
  /\ index[f] # NULL /\ index'[f] = index[f]
  /\ \A i \in DOMAIN index[f] : Stored(index[f][i], pages)

Kept(f) == (index[f] = NULL /\ index'[f] = NULL) \/ Stays(f) \/ Moves(f) \/ IsPacked(f)

\* What a buffer that waits has, its file is read as.
LEMMA ReadBuffer ==
  ASSUME IInv, ~fatalError, NEW k \in DOMAIN buffers, k \notin Saved, buffers[k].alive
  PROVE  /\ buffers[k].file \in Files /\ index[buffers[k].file] # NULL
         /\ buffers[k].data \in Data /\ buffers[k].data # <<>>
         /\ Content(index[buffers[k].file], buffers, pages) = buffers[k].data
<1>1. Owned /\ TypeInv
  BY DEF IInv
<1>2. k \in Nat /\ k > 0 /\ buffers[k] \in Buffers
  BY <1>1, LenProperties, ElementOfSeq DEF TypeInv
<1>3. k \notin Gone /\ buffers[k].file \in Files
  <2>1. \A i \in 1 .. saved - 1 : i \in 1 .. saved
    BY DEF IInv, PurgeFits
  <2> QED
    BY <1>2, <2>1 DEF Saved, Gone, Buffers
<1>4. /\ index[buffers[k].file] = <<Block(-k, 0, buffers[k].length)>>
      /\ buffers[k].data \in Contents \ {<<>>} /\ buffers[k].length = Len(buffers[k].data)
  BY <1>1, <1>3 DEF Owned
<1>5. buffers[k].data \in Data /\ buffers[k].length \in Nat
  BY <1>2, <1>4, WriterAssumption DEF Data, Buffers
<1>6. index[buffers[k].file] # NULL
  BY <1>1, <1>4 DEF IInv, BuffersFit
<1> QED
  BY <1>2, <1>3, <1>4, <1>5, <1>6, ContentBuffer

LEMMA ReadNextBuffer ==
  ASSUME IInv', ~fatalError', NEW CONSTANT k, k \in DOMAIN buffers', k \notin Saved', buffers'[k].alive
  PROVE  /\ buffers'[k].file \in Files /\ index'[buffers'[k].file] # NULL
         /\ buffers'[k].data \in Data /\ buffers'[k].data # <<>>
         /\ Content(index'[buffers'[k].file], buffers', pages') = buffers'[k].data
<1>1. Owned' /\ TypeInv'
  BY DEF IInv
<1>2. k \in Nat /\ k > 0 /\ buffers'[k] \in Buffers
  BY <1>1, LenProperties, ElementOfSeq DEF TypeInv
<1>3. k \notin Gone' /\ buffers'[k].file \in Files
  <2>1. \A i \in 1 .. saved' - 1 : i \in 1 .. saved'
    BY DEF IInv, PurgeFits
  <2> QED
    BY <1>2, <2>1 DEF Saved, Gone, Buffers
<1>4. /\ index'[buffers'[k].file] = <<Block(-k, 0, buffers'[k].length)>>
      /\ buffers'[k].data \in Contents \ {<<>>} /\ buffers'[k].length = Len(buffers'[k].data)
  BY <1>1, <1>3 DEF Owned
<1>5. buffers'[k].data \in Data /\ buffers'[k].length \in Nat
  BY <1>2, <1>4, WriterAssumption DEF Data, Buffers
<1>6. index'[buffers'[k].file] # NULL
  BY <1>1, <1>4 DEF IInv, BuffersFit
<1> QED
  BY <1>2, <1>3, <1>4, <1>5, <1>6, ContentBuffer

\* What is kept is read as before.
LEMMA KeptIsRead ==
  ASSUME IInv, IInv', ~fatalError, ~fatalError', Grown(pages, pages'), NEW CONSTANT f \in Files, Kept(f)
  PROVE  ReadFile(f)' = ReadFile(f) /\ Settled(f)'
<1>0. /\ ReadFile(f) = IF index[f] = NULL THEN NULL ELSE Content(index[f], buffers, pages)
      /\ ReadFile(f)' = IF index'[f] = NULL THEN NULL ELSE Content(index'[f], buffers', pages')
  BY ReadIsContent, ReadNextIsContent
<1>1. /\ index \in [Files -> Seq(Blocks) \cup {NULL}] /\ pages \in Seq(Data) /\ pages' \in Seq(Data)
  BY DEF IInv, TypeInv
<1>2. CASE index[f] = NULL /\ index'[f] = NULL
  BY <1>0, <1>2 DEF Settled
<1>3. CASE Stays(f)
  <2>1. /\ index[f] # NULL /\ index'[f] = index[f] /\ \A i \in DOMAIN index[f] : Stored(index[f][i], pages)
        /\ index[f] \in Seq(Blocks)
    BY <1>1, <1>3 DEF Stays
  <2>2. Content(index[f], buffers', pages') = Content(index[f], buffers, pages)
    BY <1>1, <2>1, ContentStored
  <2>3. ASSUME NEW i \in DOMAIN index[f] PROVE Stored(index[f][i], pages')
    <3>1. index[f][i] \in Blocks
      BY <2>1, LenProperties, ElementOfSeq
    <3> QED
      BY <1>1, <2>1, <3>1, StoredGrown
  <2>4. Settled(f)'
    BY <2>1, <2>3 DEF Settled
  <2> QED
    BY <1>0, <2>1, <2>2, <2>4
<1>4. CASE Moves(f)
  <2>1. PICK k \in DOMAIN buffers \ Saved, l \in DOMAIN buffers' :
          /\ buffers[k].alive /\ buffers[k].file = f
          /\ l \notin Saved' /\ buffers'[l].alive /\ buffers'[l].file = f
          /\ buffers'[l].data = buffers[k].data
    BY <1>4 DEF Moves
  <2>2. index[f] # NULL /\ Content(index[f], buffers, pages) = buffers[k].data
    BY <2>1, ReadBuffer
  <2>3. index'[f] # NULL /\ Content(index'[f], buffers', pages') = buffers'[l].data
    BY <2>1, ReadNextBuffer
  <2>4. Settled(f)'
    BY <2>1 DEF Settled
  <2> QED
    BY <1>0, <2>1, <2>2, <2>3, <2>4
<1>5. CASE IsPacked(f)
  <2>1. PICK k \in DOMAIN buffers \ Saved, b \in Blocks :
          /\ buffers[k].alive /\ buffers[k].file = f
          /\ index'[f] = <<b>> /\ b.size = Len(buffers[k].data)
          /\ Holds(pages', [page |-> b.page, offset |-> b.offset], buffers[k].data)
    BY <1>5 DEF IsPacked
  <2>2. index[f] # NULL /\ Content(index[f], buffers, pages) = buffers[k].data
        /\ buffers[k].data \in Data /\ buffers[k].data # <<>>
    BY <2>1, ReadBuffer
  <2>3. Stored(b, pages') /\ Content(<<b>>, buffers', pages') = buffers[k].data
    BY <1>1, <2>1, <2>2, ContentHeld
  <2>4. <<b>> # NULL
    <3>1. <<b>> \in Seq(Blocks)
      BY <2>1
    <3> QED
      BY <3>1, WriterAssumption
  <2>5. Settled(f)'
    <3>1. \A i \in DOMAIN <<b>> : Stored(<<b>>[i], pages')
      BY <2>3
    <3> QED
      BY <2>1, <3>1 DEF Settled
  <2> QED
    BY <1>0, <2>1, <2>2, <2>3, <2>4, <2>5
<1> QED
  BY <1>2, <1>3, <1>4, <1>5 DEF Kept

\* A step without a request, or within one
Within1 ==
  \/ job = NULL /\ job' = NULL
  \/ /\ job # NULL /\ job' # NULL /\ job'.file = job.file /\ job'.data = job.data
     /\ job'.was = job.was /\ job'.wasPending = job.wasPending

LEMMA SameRequest ==
  ASSUME IInv, FilesKept, IInv', ~fatalError, ~fatalError', Grown(pages, pages'), Within1,
         \A f \in Files : ~Unsettled(f)' => ~Unsettled(f) /\ Kept(f)
  PROVE  FilesKept' /\ UNCHANGED <<Visible, Asked, fatalError>>
<1>1. ASSUME NEW f \in Files, ~Unsettled(f)' PROVE ReadFile(f)' = ReadFile(f) /\ Settled(f)' /\ ~Unsettled(f)
  BY <1>1, KeptIsRead
<1>2. NoneDangles'
  BY <1>1 DEF NoneDangles
<1>3. OldStands'
  <2> SUFFICES ASSUME NEW f \in Files, job' # NULL, f = job'.file, ~Unsettled(f)'
               PROVE  ReadFile(f)' = job'.was
    BY DEF OldStands
  <2>1. ReadFile(f)' = ReadFile(f) /\ ~Unsettled(f)
    BY <1>1
  <2>2. job # NULL /\ f = job.file /\ job'.was = job.was
    BY DEF Within1
  <2>3. ReadFile(f) = job.was
    BY <2>1, <2>2 DEF FilesKept, OldStands
  <2> QED
    BY <2>1, <2>2, <2>3
<1>4. Visible' = Visible
  <2>1. ASSUME NEW f \in Files, ~(job # NULL /\ f = job.file)
        PROVE  ReadFile(f)' = ReadFile(f)
    <3>1. ~Unsettled(f)'
      BY <2>1 DEF Unsettled, Within1
    <3> QED
      BY <1>1, <3>1
  <2>2. ASSUME NEW f \in Files
        PROVE  (IF job' # NULL /\ f = job'.file THEN job'.was ELSE ReadFile(f)')
                 = (IF job # NULL /\ f = job.file THEN job.was ELSE ReadFile(f))
    <3>1. CASE job # NULL /\ f = job.file
      BY <3>1 DEF Within1
    <3>2. CASE ~(job # NULL /\ f = job.file)
      BY <2>1, <3>2 DEF Within1
    <3> QED
      BY <3>1, <3>2
  <2> QED
    BY <2>2 DEF Visible
<1>5. Asked' = Asked
  BY DEF Asked, Within1
<1>6. fatalError' = fatalError
  BY DEF IInv, TypeInv
<1> QED
  BY <1>2, <1>3, <1>4, <1>5, <1>6 DEF FilesKept

\* A request ends; the other files are kept.
LEMMA EndOfRequest ==
  ASSUME IInv, FilesKept, IInv', ~fatalError, ~fatalError', Grown(pages, pages'),
         job # NULL, job' = NULL,
         \A f \in Files : f # job.file => Kept(f),
         \A f \in Files : f = job.file => Settled(f)'
  PROVE  /\ FilesKept' /\ Asked' = NULL /\ Asked # NULL /\ fatalError' = fatalError
         /\ job.file \in Files /\ Asked = [file |-> job.file, data |-> job.data]
         /\ Visible[job.file] = job.was
         /\ Visible' = [Visible EXCEPT ![job.file] = Visible'[job.file]]
         /\ \A f \in Files : Visible'[f] = ReadFile(f)'
<1>1. ASSUME NEW f \in Files, f # job.file PROVE ReadFile(f)' = ReadFile(f) /\ Settled(f)'
  BY <1>1, KeptIsRead
<1>2. NoneDangles'
  BY <1>1 DEF NoneDangles
<1>3. OldStands'
  BY DEF OldStands
<1>4. job.file \in Files /\ job.data \in Contents
  BY DEF IInv, TypeInv, Jobs
<1>5. Asked' = NULL /\ Asked # NULL /\ Asked = [file |-> job.file, data |-> job.data]
  <2>1. [file |-> job.file, data |-> job.data] \in Requests
    BY <1>4 DEF Requests
  <2> QED
    BY <2>1, WriterAssumption DEF Asked
<1>6. fatalError' = fatalError
  BY DEF IInv, TypeInv
<1>7. \A f \in Files : Visible'[f] = ReadFile(f)'
  BY DEF Visible
<1>8. \A f \in Files : Visible[f] = IF f = job.file THEN job.was ELSE ReadFile(f)
  BY DEF Visible
<1>9. Visible' = [Visible EXCEPT ![job.file] = Visible'[job.file]]
  <2>1. Visible = [f \in Files |-> Visible[f]] /\ Visible' = [f \in Files |-> Visible'[f]]
    BY DEF Visible
  <2>2. \A f \in Files : f # job.file => Visible'[f] = Visible[f]
    BY <1>1, <1>7, <1>8
  <2> QED
    BY <2>1, <2>2
<1> QED
  BY <1>2, <1>3, <1>4, <1>5, <1>6, <1>7, <1>8, <1>9 DEF FilesKept

\* A file whose entry stays, and its buffer if it has one
LEMMA KeptWhereItIs ==
  ASSUME IInv, FilesKept, ~fatalError, NEW CONSTANT f \in Files, ~Unsettled(f),
         index'[f] = index[f],
         \A k \in DOMAIN buffers \ Saved :
           buffers[k].alive /\ buffers[k].file = f =>
             /\ k \in DOMAIN buffers' /\ k \notin Saved' /\ buffers'[k].alive
             /\ buffers'[k].file = f /\ buffers'[k].data = buffers[k].data
  PROVE  Kept(f)
<1>1. Settled(f)
  BY DEF FilesKept, NoneDangles
<1>2. CASE index[f] = NULL
  BY <1>2 DEF Kept
<1>3. CASE \E k \in DOMAIN buffers \ Saved : buffers[k].alive /\ buffers[k].file = f
  BY <1>3 DEF Kept, Moves
<1>4. CASE index[f] # NULL /\ \A i \in DOMAIN index[f] : Stored(index[f][i], pages)
  BY <1>4 DEF Kept, Stays
<1> QED
  BY <1>1, <1>2, <1>3, <1>4 DEF Settled

\* When nothing changes in the index, the buffers and the pages
LEMMA SameStoreKept ==
  ASSUME IInv, FilesKept, ~fatalError, UNCHANGED <<index, buffers, pages>>, Saved' \subseteq Saved
  PROVE  \A f \in Files : ~Unsettled(f) => Kept(f)
BY KeptWhereItIs

\* When the entry of one file changes, and a buffer is added
LEMMA EntryKept ==
  ASSUME IInv, FilesKept, pc \in {"begin", "add", "write"}, NEW e, SetEntry(job.file, e),
         saved' = 0, \A k \in DOMAIN buffers : k \in DOMAIN buffers' /\ buffers'[k] = buffers[k]
  PROVE  \A f \in Files : f # job.file => Kept(f)
<1> SUFFICES ASSUME NEW CONSTANT f \in Files, f # job.file PROVE Kept(f)
  OBVIOUS
<1>1. TypeInv /\ ~fatalError
  BY Adding
<1>2. index'[f] = index[f]
  BY <1>1 DEF SetEntry, TypeInv
<1>3. Saved' = {}
  BY DEF Saved
<1>4. ~Unsettled(f)
  BY DEF Unsettled
<1> QED
  BY <1>1, <1>2, <1>3, <1>4, KeptWhereItIs

\* Without a file the buffers of the others are still there.
LEMMA Relocated ==
  ASSUME Fit(index, buffers), NEW f \in Files, NEW g \in Files, g # f
  PROVE  /\ \A k \in 1 .. Len(buffers) : buffers[k].alive /\ buffers[k].file = g =>
              \E l \in 1 .. Len(BuffersWithout(f)) : BuffersWithout(f)[l] = buffers[k]
         /\ (\A k \in 1 .. Len(buffers) : ~(buffers[k].alive /\ buffers[k].file = g)) =>
              IndexWithout(f)[g] = index[g]
<1>1. CASE Removed(f) = {} /\ BuffersWithout(f) = buffers /\ IndexWithout(f) = index
  BY <1>1
<1>2. CASE \E k : Removed(f) = {k} /\ Gap(f, k, IndexWithout(f), BuffersWithout(f))
  <2> DEFINE bufs == BuffersWithout(f)
             n == Len(buffers)
  <2>1. PICK j : Gap(f, j, IndexWithout(f), bufs)
    BY <1>2
  <2>2. /\ j \in 1 .. n /\ buffers[j].file = f /\ Len(bufs) = n - 1
        /\ \A l \in 1 .. n - 1 : bufs[l] = IF l < j THEN buffers[l] ELSE buffers[l + 1]
    BY <2>1 DEF Gap
  <2>3. n \in Nat
    BY LenProperties DEF Fit
  <2> HIDE DEF bufs, n
  <2>4. ASSUME NEW k \in 1 .. n, buffers[k].file = g
        PROVE  \E l \in 1 .. n - 1 : bufs[l] = buffers[k]
    <3>1. k # j
      BY <2>2, <2>4
    <3>2. CASE k < j
      <4>1. k \in 1 .. n - 1
        BY <2>2, <2>3, <3>2
      <4> QED
        BY <2>2, <3>2, <4>1
    <3>3. CASE ~(k < j)
      <4>1. k - 1 \in 1 .. n - 1 /\ ~(k - 1 < j) /\ (k - 1) + 1 = k
        BY <2>2, <2>3, <3>1, <3>3
      <4> QED
        BY <2>2, <4>1
    <3> QED
      BY <3>2, <3>3
  <2>5. ASSUME \A k \in 1 .. n : ~(buffers[k].alive /\ buffers[k].file = g)
        PROVE  IndexWithout(f)[g] = index[g]
    BY <2>1, <2>5 DEF Gap, n
  <2> QED
    BY <2>2, <2>4, <2>5 DEF bufs, n
<1> QED
  BY <1>1, <1>2, Without

\* When a file is removed, and others perhaps with it
LEMMA RemovedKept ==
  ASSUME IInv, FilesKept, pc = "idle", ~fatalError, saved' = 0, NEW CONSTANT f \in Files, NEW CONSTANT g \in Files, g # f,
         index'[g] = IndexWithout(f)[g],
         Len(buffers') = Len(BuffersWithout(f)), buffers' \in Seq(Buffers),
         \A l \in 1 .. Len(buffers') :
           BuffersWithout(f)[l].alive /\ BuffersWithout(f)[l].file = g =>
             /\ buffers'[l].alive /\ buffers'[l].file = g
             /\ buffers'[l].data = BuffersWithout(f)[l].data
  PROVE  Kept(g)
<1>1. Fit(index, buffers) /\ job = NULL /\ TypeInv
  BY NowFit DEF IInv, TypeInv, Purging
<1>2. Saved = {} /\ Saved' = {}
  BY DEF IInv, PurgeFits, Purging, Saved
<1>3. DOMAIN buffers = 1 .. Len(buffers) /\ DOMAIN buffers' = 1 .. Len(buffers')
  BY <1>1, LenProperties DEF TypeInv
<1>4. CASE \E k \in 1 .. Len(buffers) : buffers[k].alive /\ buffers[k].file = g
  <2>1. PICK k \in 1 .. Len(buffers) : buffers[k].alive /\ buffers[k].file = g
    BY <1>4
  <2>2. PICK l \in 1 .. Len(BuffersWithout(f)) : BuffersWithout(f)[l] = buffers[k]
    BY <1>1, <2>1, Relocated
  <2>3. buffers'[l].alive /\ buffers'[l].file = g /\ buffers'[l].data = buffers[k].data
    BY <2>1, <2>2
  <2>4. Moves(g)
    BY <1>2, <1>3, <2>1, <2>2, <2>3 DEF Moves
  <2> QED
    BY <2>4 DEF Kept
<1>5. CASE \A k \in 1 .. Len(buffers) : ~(buffers[k].alive /\ buffers[k].file = g)
  <2>1. index'[g] = index[g]
    BY <1>1, <1>5, Relocated
  <2>2. ~Unsettled(g)
    BY <1>1 DEF Unsettled
  <2> QED
    BY <1>3, <1>5, <2>1, <2>2, KeptWhereItIs
<1> QED
  BY <1>4, <1>5

\* A purge goes through all the buffers.
LEMMA AllSorted ==
  ASSUME IInv, Purging, NEW k \in DOMAIN buffers
  PROVE  \E i \in 1 .. Len(order) : order[i] = k
<1> DEFINE n == Len(buffers)
           S == 1 .. n
<1>1. n \in Nat /\ DOMAIN buffers = S /\ Len(order) = n
  BY Purges
<1>2. order \in [S -> S] /\ \A i, j \in S : order[i] = order[j] => i = j
  BY Purges DEF IInv, PurgeFits
<1>3. IsFiniteSet(S)
  BY <1>1, FS_Interval
<1> HIDE DEF S, n
<1>4. order \in Injection(S, S)
  BY <1>2 DEF Injection, IsInjective
<1>5. order \in Surjection(S, S)
  BY <1>3, <1>4, FS_Injection
<1>6. \E i \in S : order[i] = k
  BY <1>1, <1>5 DEF Surjection
<1> QED
  BY <1>1, <1>6 DEF S

\* While buffers are purged every file is kept.
LEMMA PurgePageKept ==
  ASSUME IInv, FilesKept, ~fatalError, PurgePage
  PROVE  Grown(pages, pages') /\ \A f \in Files : ~Unsettled(f) => Kept(f)
<1>0. Purging
  BY PurgePageIs
<1>1. PICK last, n : PagePurged(last, n)
  BY PurgePageIs
<1> DEFINE N == Len(order)
<1>2. PageAdded(last, n) /\ Entries(last, n)
  BY <1>1 DEF PagePurged
<1>3. last \in saved + 1 .. N /\ Grown(pages, pages')
  BY <1>0, <1>2, PageGrows
<1>4. /\ N = Len(buffers) /\ N \in Nat /\ saved \in Nat /\ DOMAIN buffers = 1 .. N
      /\ \A i \in 1 .. N : order[i] \in 1 .. N
      /\ \A i, j \in 1 .. N : order[i] = order[j] => i = j
  BY <1>0, Purges
<1>5. ASSUME NEW CONSTANT f \in Files, ~Unsettled(f) PROVE Kept(f)
  <2>1. CASE /\ index'[f] = index[f]
             /\ \A i \in saved + 1 .. last : ~(Sorted(i).file = f /\ Sorted(i).alive)
    <3>1. ASSUME NEW k \in DOMAIN buffers \ Saved, buffers[k].alive, buffers[k].file = f
          PROVE  /\ k \in DOMAIN buffers' /\ k \notin Saved' /\ buffers'[k].alive
                 /\ buffers'[k].file = f /\ buffers'[k].data = buffers[k].data
      <4>1. PICK i \in 1 .. N : order[i] = k
        BY <1>0, AllSorted
      <4>2. ~(i \in 1 .. saved)
        BY <3>1, <4>1 DEF Saved
      <4>3. ~(i \in saved + 1 .. last)
        BY <2>1, <3>1, <4>1 DEF Sorted
      <4>4. last # N /\ ~(i \in 1 .. last)
        BY <1>3, <1>4, <4>2, <4>3
      <4>5. buffers' = Freed(last) /\ saved' = last /\ order' = order
        BY <1>1, <4>4 DEF PagePurged
      <4>6. \A j \in 1 .. last : j \in 1 .. N /\ j # i
        BY <1>3, <1>4, <4>4
      <4>7. k \notin Saved'
        BY <1>4, <4>1, <4>5, <4>6 DEF Saved
      <4>8. \A j \in 1 .. last - 1 : j \in 1 .. last
        BY <1>3, <1>4
      <4>9. k \notin {order[j] : j \in 1 .. last - 1}
        BY <1>4, <4>1, <4>6, <4>8
      <4>10. k \in DOMAIN buffers' /\ buffers'[k] = buffers[k]
        BY <1>0, <1>3, <4>5, <4>9, FreedFit
      <4> QED
        BY <3>1, <4>7, <4>10
    <3> QED
      BY <1>5, <2>1, <3>1, KeptWhereItIs
  <2>2. CASE ~ /\ index'[f] = index[f]
               /\ \A i \in saved + 1 .. last : ~(Sorted(i).file = f /\ Sorted(i).alive)
    <3>1. PICK i \in saved + 1 .. last, b \in Blocks :
            /\ Sorted(i).file = f /\ Sorted(i).alive
            /\ index'[f] = <<b>> /\ b.size = Len(Sorted(i).data)
            /\ Holds(pages', [page |-> b.page, offset |-> b.offset], Sorted(i).data)
      BY <1>0, <1>2, <2>2, EntriesHold
    <3>2. i \in saved + 1 .. Len(order)
      BY <1>3, <1>4
    <3>3. order[i] \in DOMAIN buffers /\ order[i] \notin Saved
      BY <1>0, <3>2, Waits
    <3>4. IsPacked(f)
      BY <3>1, <3>3 DEF IsPacked, Sorted
    <3> QED
      BY <3>4 DEF Kept
  <2> QED
    BY <2>1, <2>2
<1> QED
  BY <1>3, <1>5

-----------------------------------------------------------------------------
(* The refinement.  Two events are left out: a source of a pending file that *)
(* cannot be read, and a purge in write-to-memory mode, lose a content.      *)

NothingLost == Events \cap {"sourceOfPending", "purgeInMemory"} = {}

Keeps == FilesKept' /\ [Store!Next]_(Store!absVars)

LEMMA Stutters ==
  ASSUME FilesKept', UNCHANGED <<Visible, Asked, fatalError>>
  PROVE  Keeps
BY DEF Keeps, Store!absVars

\* After a fatal error nothing is promised.
LEMMA FatalSteps ==
  ASSUME IInv, IInv', fatalError, fatalError'
  PROVE  Keeps
<1>1. job = NULL /\ job' = NULL
  BY DEF IInv, JobFits, TypeInv
<1>2. FilesKept'
  BY DEF FilesKept
<1>3. Visible = [f \in Files |-> Unreadable] /\ Visible' = [f \in Files |-> Unreadable]
  BY DEF Visible
<1>4. Asked = NULL /\ Asked' = NULL
  BY <1>1 DEF Asked
<1>5. fatalError' = fatalError
  BY DEF IInv, TypeInv
<1> QED
  BY <1>2, <1>3, <1>4, <1>5, Stutters

LEMMA BreakSteps ==
  ASSUME IInv', fatalError'
  PROVE  Keeps
<1>1. job' = NULL
  BY DEF IInv, JobFits, TypeInv
<1>2. FilesKept'
  BY DEF FilesKept
<1>3. Visible' = [f \in Files |-> Unreadable] /\ Asked' = NULL /\ fatalError' = TRUE
  BY <1>1 DEF Visible, Asked, IInv, TypeInv
<1>4. Store!Break
  BY <1>3 DEF Store!Break
<1> QED
  BY <1>2, <1>4 DEF Keeps, Store!Next

LEMMA FatalStays ==
  ASSUME IInv, fatalError, [Next]_vars
  PROVE  fatalError'
<1>1. pc \in {"idle", "purge"}
  BY DEF IInv, JobFits
<1>2. ASSUME NEW f \in Files, DeleteFile(f) \/ \E c \in Given[f] : AddFile(f, c) PROVE fatalError'
  BY <1>2 DEF DeleteFile, AddFile, Unset, modes
<1>3. CASE SourceFails \/ AddEmpty \/ MakeRoom \/ AddBuffer \/ PurgeFull
  BY <1>1, <1>3 DEF SourceFails, AddEmpty, MakeRoom, AddBuffer, PurgeFull
<1>4. CASE AddEntry \/ WritePage \/ WriteFails
  BY <1>1, <1>4 DEF AddEntry, WritePage, WriteFails
<1>5. CASE PurgePage \/ PurgeFails \/ PurgeCommand \/ PurgeInMemory
  BY <1>5 DEF PurgePage, PurgeFails, PurgeCommand, PurgeInMemory, StartPurge, modes
<1>6. CASE SetWriteToMemory \/ RemoveDirectory \/ Remount
  BY <1>6 DEF SetWriteToMemory, RemoveDirectory, Remount, Unset, modes
<1>7. CASE UNCHANGED vars
  BY <1>7 DEF vars, modes
<1> QED
  BY <1>2, <1>3, <1>4, <1>5, <1>6, <1>7 DEF Next

\* Steps that change no index, buffer and page
LEMMA SameStoreKeeps ==
  ASSUME IInv, FilesKept, IInv', ~fatalError, ~fatalError', UNCHANGED <<index, buffers, pages, job>>,
         Saved' \subseteq Saved, (pc # "write" /\ pc' # "write") \/ pc' = pc
  PROVE  Keeps
<1>1. Grown(pages, pages')
  BY GrownSame DEF IInv, TypeInv
<1>2. Within1
  BY DEF Within1
<1>3. \A f \in Files : ~Unsettled(f)' => ~Unsettled(f)
  BY DEF Unsettled
<1>4. \A f \in Files : ~Unsettled(f)' => ~Unsettled(f) /\ Kept(f)
  BY <1>3, SameStoreKept
<1> QED
  BY <1>1, <1>2, <1>4, SameRequest, Stutters

LEMMA StartPurgeKeeps ==
  ASSUME IInv, FilesKept, IInv', ~fatalError, ~fatalError', NEW where, StartPurge(where),
         pc # "write", where # "write"
  PROVE  Keeps
<1>1. UNCHANGED <<index, buffers, pages, job>> /\ saved' = 0 /\ pc' = where
  BY DEF StartPurge, Go, store
<1>2. Saved' = {}
  BY <1>1 DEF Saved
<1> QED
  BY <1>1, <1>2, SameStoreKeeps

LEMMA PurgeKeeps ==
  ASSUME IInv, FilesKept, IInv', ~fatalError, ~fatalError', PurgePage
  PROVE  Keeps
<1>1. Purging
  BY PurgePageIs
<1>2. job' = job /\ pc # "write" /\ pc' # "write"
  <2>1. PICK last, n : PagePurged(last, n)
    BY PurgePageIs
  <2>2. pc = "purge" => job = NULL
    BY DEF IInv, TypeInv
  <2> QED
    BY <1>1, <2>1, <2>2 DEF PagePurged, Purging
<1>3. Within1
  BY <1>2 DEF Within1
<1>4. \A f \in Files : ~Unsettled(f)' => ~Unsettled(f)
  BY <1>2 DEF Unsettled
<1>5. Grown(pages, pages') /\ \A f \in Files : ~Unsettled(f) => Kept(f)
  BY PurgePageKept
<1> QED
  BY <1>3, <1>4, <1>5, SameRequest, Stutters

\* The request of a file
LEMMA AddFileKeeps ==
  ASSUME IInv, FilesKept, IInv', ~fatalError, ~fatalError', NEW CONSTANT f \in Files,
         NEW CONSTANT c \in Given[f], AddFile(f, c)
  PROVE  Keeps
<1> DEFINE job1 == [file |-> f, data |-> c, was |-> ReadFile(f), wasPending |-> IsPending(f),
                    written |-> 0]
<1>0. /\ pc = "idle" /\ buffers' = BuffersWithout(f) /\ index' = IndexWithout(f)
      /\ pc' = "begin" /\ job' = job1 /\ UNCHANGED <<pages, modes, purge>>
  BY DEF AddFile, Go
<1>1. job = NULL /\ saved = 0 /\ saved' = 0 /\ TypeInv /\ Fit(index, buffers) /\ job' # NULL
  BY <1>0, NowFit DEF IInv, PurgeFits, Purging, TypeInv, purge
<1>2. Grown(pages, pages')
  BY <1>0, <1>1, GrownSame DEF TypeInv
<1>3. c \in Contents
  BY DEF Contents
<1>4. ASSUME NEW CONSTANT g \in Files, g # f PROVE Kept(g)
  <2>1. Len(buffers') = Len(BuffersWithout(f)) /\ buffers' \in Seq(Buffers)
    BY <1>0 DEF IInv, TypeInv
  <2>2. index'[g] = IndexWithout(f)[g]
        /\ \A l \in 1 .. Len(buffers') :
             BuffersWithout(f)[l].alive /\ BuffersWithout(f)[l].file = g =>
               /\ buffers'[l].alive /\ buffers'[l].file = g
               /\ buffers'[l].data = BuffersWithout(f)[l].data
    BY <1>0
  <2> QED
    BY <1>0, <1>1, <1>4, <2>1, <2>2, RemovedKept
<1>5. ASSUME ~IsPending(f) PROVE Kept(f)
  <2>1. Removed(f) = {}
    BY <1>5 DEF Removed
  <2>2. buffers' = buffers /\ index' = index
    BY <1>0, <1>1, <2>1, Without
  <2>3. ~Unsettled(f) /\ Saved' = Saved
    BY <1>1 DEF Unsettled, Saved
  <2> QED
    BY <2>2, <2>3, KeptWhereItIs
<1>6. job1.file = f /\ job1.data = c /\ job1.was = ReadFile(f) /\ job1.wasPending = IsPending(f)
  OBVIOUS
<1> HIDE DEF job1
<1>7. ASSUME NEW CONSTANT g \in Files, ~Unsettled(g)' PROVE ReadFile(g)' = ReadFile(g) /\ Settled(g)'
  <2>1. g = f => ~IsPending(f)
    BY <1>0, <1>1, <1>6, <1>7 DEF Unsettled
  <2>2. Kept(g)
    BY <1>4, <1>5, <2>1
  <2> QED
    BY <1>2, <2>2, KeptIsRead
<1>8. FilesKept'
  <2>1. NoneDangles'
    BY <1>7 DEF NoneDangles
  <2>2. OldStands'
    <3> SUFFICES ASSUME NEW CONSTANT g \in Files, g = job'.file, ~Unsettled(g)'
                 PROVE  ReadFile(g)' = job'.was
      BY DEF OldStands
    <3>1. g = f /\ job'.was = ReadFile(f)
      BY <1>0, <1>6
    <3> QED
      BY <1>7, <3>1
  <2> QED
    BY <2>1, <2>2 DEF FilesKept
<1>9. Visible' = Visible
  <2>1. ASSUME NEW CONSTANT g \in Files
        PROVE  (IF g = job'.file THEN job'.was ELSE ReadFile(g)') = ReadFile(g)
    <3>1. CASE g = f
      BY <1>0, <1>6, <3>1
    <3>2. CASE g # f
      <4>1. ~Unsettled(g)' /\ g # job'.file
        BY <1>0, <1>6, <3>2 DEF Unsettled
      <4> QED
        BY <1>7, <4>1
    <3> QED
      BY <3>1, <3>2
  <2> QED
    BY <1>1, <2>1 DEF Visible
<1>10. Asked = NULL /\ Asked' = [file |-> f, data |-> c]
  BY <1>0, <1>1, <1>6 DEF Asked
<1>11. fatalError' = fatalError
  BY <1>0 DEF modes
<1>12. Store!Ask(f, c)
  BY <1>9, <1>10, <1>11 DEF Store!Ask
<1> QED
  BY <1>3, <1>8, <1>12 DEF Keeps, Store!Next

\* Deleting
LEMMA UnsetKeeps ==
  ASSUME IInv, FilesKept, IInv', ~fatalError, ~fatalError', NEW CONSTANT F, F \subseteq Files,
         pc = "idle", UNCHANGED <<pages, modes, job>>,
         \A f \in F : index'[f] = NULL,
         \A f \in Files : f \notin F => Kept(f)
  PROVE  Keeps
<1>1. job = NULL /\ job' = NULL /\ Grown(pages, pages')
  BY GrownSame DEF IInv, TypeInv
<1>2. ASSUME NEW CONSTANT f \in Files
      PROVE  Settled(f)' /\ ReadFile(f)' = IF f \in F THEN NULL ELSE ReadFile(f)
  <2>1. CASE f \in F
    BY <2>1, ReadNextIsContent DEF Settled
  <2>2. CASE f \notin F
    BY <1>1, <2>2, KeptIsRead
  <2> QED
    BY <2>1, <2>2
<1>3. FilesKept'
  BY <1>1, <1>2 DEF FilesKept, NoneDangles, OldStands
<1>4. Visible' = [f \in Files |-> IF f \in F THEN NULL ELSE Visible[f]]
  <2>1. Visible' = [f \in Files |-> ReadFile(f)']
    BY <1>1 DEF Visible
  <2>2. \A f \in Files : Visible[f] = ReadFile(f)
    BY <1>1 DEF Visible
  <2> QED
    BY <1>2, <2>1, <2>2
<1>5. Asked' = Asked /\ fatalError' = fatalError
  BY <1>1 DEF Asked, modes
<1>6. Store!Delete(F)
  BY <1>4, <1>5 DEF Store!Delete
<1> QED
  BY <1>3, <1>6 DEF Keeps, Store!Next

LEMMA DeleteFileKeeps ==
  ASSUME IInv, FilesKept, IInv', ~fatalError, ~fatalError', NEW CONSTANT f \in Files, DeleteFile(f)
  PROVE  Keeps
<1> DEFINE bufs == BuffersWithout(f)
           idx == IndexWithout(f)
<1>0. /\ pc = "idle" /\ UNCHANGED <<pages, pageMap, modes, pc, job, purge>>
      /\ index' = [g \in Files |-> IF g \in {f} THEN NULL ELSE idx[g]]
      /\ buffers' = [k \in DOMAIN bufs |-> [bufs[k] EXCEPT !.alive = @ /\ bufs[k].file \notin {f}]]
  BY DEF DeleteFile, Unset
<1>1. saved' = 0 /\ TypeInv /\ Fit(index, buffers)
  BY <1>0, NowFit DEF IInv, PurgeFits, Purging, purge
<1>2. bufs \in Seq(Buffers)
  BY <1>1, WithoutFit DEF Fit
<1> HIDE DEF bufs, idx
<1>3. DOMAIN bufs = 1 .. Len(bufs) /\ Len(bufs) \in Nat /\ \A l \in 1 .. Len(bufs) : bufs[l] \in Buffers
  BY <1>2, LenProperties, ElementOfSeq
<1>4. buffers' \in Seq(Buffers) /\ Len(buffers') = Len(bufs)
  <2>1. buffers' \in Seq(Buffers)
    BY DEF IInv, TypeInv
  <2>2. DOMAIN buffers' = 1 .. Len(bufs)
    BY <1>0, <1>3
  <2>3. Len(buffers') \in Nat /\ DOMAIN buffers' = 1 .. Len(buffers')
    BY <2>1, LenProperties
  <2> QED
    BY <1>3, <2>1, <2>2, <2>3
<1>5. ASSUME NEW CONSTANT g \in Files, g # f PROVE Kept(g)
  <2>1. index'[g] = IndexWithout(f)[g]
    BY <1>0, <1>5 DEF idx
  <2>2. ASSUME NEW l \in 1 .. Len(bufs), bufs[l].alive, bufs[l].file = g
        PROVE  buffers'[l].alive /\ buffers'[l].file = g /\ buffers'[l].data = bufs[l].data
    <3>1. buffers'[l] = [bufs[l] EXCEPT !.alive = @ /\ bufs[l].file \notin {f}] /\ bufs[l] \in Buffers
      BY <1>0, <1>3
    <3> QED
      BY <1>5, <2>2, <3>1 DEF Buffers
  <2> QED
    BY <1>0, <1>1, <1>4, <1>5, <2>1, <2>2, RemovedKept DEF bufs
<1>6. \A g \in {f} : index'[g] = NULL
  BY <1>0
<1> QED
  BY <1>0, <1>5, <1>6, UnsetKeeps

LEMMA RemoveDirectoryKeeps ==
  ASSUME IInv, FilesKept, IInv', ~fatalError, ~fatalError', RemoveDirectory
  PROVE  Keeps
<1>0. /\ pc = "idle" /\ UNCHANGED <<pages, pageMap, modes, pc, job, purge>>
      /\ index' = [g \in Files |-> IF g \in Dir THEN NULL ELSE index[g]]
      /\ buffers' = [k \in DOMAIN buffers |->
                       [buffers[k] EXCEPT !.alive = @ /\ buffers[k].file \notin Dir]]
  BY DEF RemoveDirectory, Unset
<1>1. saved = 0 /\ saved' = 0 /\ TypeInv /\ job = NULL
  BY <1>0 DEF IInv, PurgeFits, Purging, purge, TypeInv
<1>2. \A k \in DOMAIN buffers : buffers[k] \in Buffers
  BY <1>1, LenProperties, ElementOfSeq DEF TypeInv
<1>3. Saved' = {}
  BY <1>1 DEF Saved
<1>4. ASSUME NEW CONSTANT f \in Files, f \notin Dir PROVE Kept(f)
  <2>1. ASSUME NEW k \in DOMAIN buffers, buffers[k].alive, buffers[k].file = f
        PROVE  /\ k \in DOMAIN buffers' /\ k \notin Saved' /\ buffers'[k].alive
               /\ buffers'[k].file = f /\ buffers'[k].data = buffers[k].data
    <3>1. buffers'[k] = [buffers[k] EXCEPT !.alive = @ /\ buffers[k].file \notin Dir]
          /\ buffers[k] \in Buffers /\ k \in DOMAIN buffers'
      BY <1>0, <1>2
    <3> QED
      BY <1>3, <1>4, <2>1, <3>1 DEF Buffers
  <2>2. index'[f] = index[f] /\ ~Unsettled(f)
    BY <1>0, <1>1, <1>4 DEF Unsettled
  <2> QED
    BY <2>1, <2>2, KeptWhereItIs
<1>5. Dir \subseteq Files /\ \A f \in Dir : index'[f] = NULL
  BY <1>0, WriterAssumption
<1> QED
  BY <1>0, <1>4, <1>5, UnsetKeeps

\* The end of a request, with the content, without the file, or as it was
LEMMA Answered ==
  ASSUME IInv, FilesKept, IInv', ~fatalError, ~fatalError', Grown(pages, pages'),
         job # NULL, job' = NULL,
         \A f \in Files : f # job.file => Kept(f),
         \A f \in Files : f = job.file => Settled(f)' /\ ReadFile(f)' \in {job.data, job.was, NULL}
  PROVE  Keeps
<1>1. /\ FilesKept' /\ Asked' = NULL /\ Asked # NULL /\ fatalError' = fatalError
      /\ job.file \in Files /\ Asked = [file |-> job.file, data |-> job.data]
      /\ Visible[job.file] = job.was
      /\ Visible' = [Visible EXCEPT ![job.file] = Visible'[job.file]]
      /\ \A f \in Files : Visible'[f] = ReadFile(f)'
  BY EndOfRequest
<1>2. Asked.file = job.file /\ Asked.data = job.data
  BY <1>1
<1>3. Visible'[job.file] \in {job.data, job.was, NULL}
  <2>1. \A f \in Files : f = job.file => Visible'[f] \in {job.data, job.was, NULL}
    BY <1>1
  <2> QED
    BY <1>1, <2>1
<1>4. CASE Visible'[job.file] = job.data
  <2>1. Store!Store
    BY <1>1, <1>2, <1>4 DEF Store!Store, Store!Done
  <2> QED
    BY <1>1, <2>1 DEF Keeps, Store!Next
<1>5. CASE Visible'[job.file] = job.was
  <2>1. Visible' = Visible
    <3>1. Visible = [f \in Files |-> Visible[f]]
      BY DEF Visible
    <3>2. [Visible EXCEPT ![job.file] = job.was] = Visible
      BY <1>1, <3>1
    <3> QED
      BY <1>1, <1>5, <3>2
  <2>2. Store!Refuse
    BY <1>1, <2>1 DEF Store!Refuse, Store!Done
  <2> QED
    BY <1>1, <2>2 DEF Keeps, Store!Next
<1>6. CASE Visible'[job.file] = NULL
  <2>1. Store!Lose
    BY <1>1, <1>2, <1>6 DEF Store!Lose, Store!Done
  <2> QED
    BY <1>1, <2>1 DEF Keeps, Store!Next
<1> QED
  BY <1>3, <1>4, <1>5, <1>6

LEMMA SourceFailsKeeps ==
  ASSUME NothingLost, IInv, FilesKept, IInv', ~fatalError, ~fatalError', SourceFails
  PROVE  Keeps
<1>0. /\ pc \in {"begin", "add"} /\ ~job.wasPending /\ job' = NULL
      /\ UNCHANGED <<index, buffers, pages, pageMap>> /\ saved' = saved /\ order' = order
  BY DEF SourceFails, NothingLost, Go, store, purge
<1>1. job # NULL /\ TypeInv /\ Saved' = Saved
  BY <1>0, Adding DEF Saved
<1>2. \A f \in Files : ~Unsettled(f)
  BY <1>0 DEF Unsettled
<1>3. \A f \in Files : Kept(f)
  BY <1>0, <1>1, <1>2, SameStoreKept
<1>4. Grown(pages, pages')
  BY <1>0, <1>1, GrownSame DEF TypeInv
<1>5. ASSUME NEW CONSTANT f \in Files, f = job.file PROVE Settled(f)' /\ ReadFile(f)' = job.was
  <2>1. Settled(f)' /\ ReadFile(f)' = ReadFile(f)
    BY <1>3, <1>4, KeptIsRead
  <2>2. ReadFile(f) = job.was
    BY <1>1, <1>2, <1>5 DEF FilesKept, OldStands
  <2> QED
    BY <2>1, <2>2
<1> QED
  BY <1>0, <1>1, <1>3, <1>4, <1>5, Answered

\* The entry of the file is that of its content.
LEMMA EntryKeeps ==
  ASSUME IInv, FilesKept, IInv', ~fatalError', pc \in {"begin", "add", "write"}, job' = NULL,
         Grown(pages, pages'), UNCHANGED purge, NEW e, SetEntry(job.file, e),
         \A k \in DOMAIN buffers : k \in DOMAIN buffers' /\ buffers'[k] = buffers[k],
         e = NULL \/ Content(e, buffers', pages') = job.data,
         e # NULL =>
           \/ \E k \in DOMAIN buffers' : buffers'[k].alive /\ buffers'[k].file = job.file
           \/ \A i \in DOMAIN e : Stored(e[i], pages')
  PROVE  Keeps
<1>1. ~fatalError /\ job # NULL /\ saved = 0 /\ TypeInv /\ job.file \in Files
  BY Adding
<1>2. saved' = 0 /\ Saved' = {}
  BY <1>1 DEF purge, Saved
<1>3. \A f \in Files : f # job.file => Kept(f)
  BY <1>2, EntryKept
<1>4. ASSUME NEW CONSTANT f \in Files, f = job.file
      PROVE  Settled(f)' /\ ReadFile(f)' \in {job.data, job.was, NULL}
  <2>1. index'[f] = e
    BY <1>1, <1>4 DEF SetEntry, TypeInv
  <2>2. ReadFile(f)' \in {job.data, job.was, NULL}
    BY <2>1, ReadNextIsContent
  <2>3. Settled(f)'
    BY <1>2, <1>4, <2>1 DEF Settled
  <2> QED
    BY <2>2, <2>3
<1> QED
  BY <1>1, <1>3, <1>4, Answered

LEMMA AddEmptyKeeps ==
  ASSUME IInv, FilesKept, IInv', ~fatalError', AddEmpty
  PROVE  Keeps
<1> DEFINE b == Block(-1, 0, 0)
           e == <<b>>
<1>0. /\ pc = "begin" /\ job.data = <<>> /\ job' = NULL /\ SetEntry(job.file, e)
      /\ UNCHANGED <<buffers, pages, pageMap, modes, purge>>
  BY DEF AddEmpty, Go
<1>1. TypeInv /\ Grown(pages, pages')
  BY <1>0, Adding, GrownSame DEF TypeInv
<1>2. b \in Blocks /\ b.size = 0
  BY DEF Block, Blocks
<1> HIDE DEF b
<1>3. Stored(b, pages') /\ BlockOf(b, buffers', pages') = <<>>
  BY <1>2 DEF Stored, BlockOf
<1>4. Content(e, buffers', pages') = <<>>
  BY <1>2, <1>3, ContentOne, EmptySeq DEF Data
<1>5. \A i \in DOMAIN e : Stored(e[i], pages')
  BY <1>3
<1> HIDE DEF e
<1> QED
  BY <1>0, <1>1, <1>4, <1>5, EntryKeeps

LEMMA AddBufferKeeps ==
  ASSUME IInv, FilesKept, IInv', ~fatalError', AddBuffer
  PROVE  Keeps
<1> DEFINE c == job.data
           n == Len(buffers)
<1>0. pc = "add" /\ UNCHANGED <<pages, pageMap, modes, purge>> /\ job' = NULL
  BY DEF AddBuffer, Go
<1>1. /\ TypeInv /\ Grown(pages, pages') /\ c \in Data /\ c # <<>> /\ Len(c) \in Nat
      /\ buffers \in Seq(Buffers) /\ pages' \in Seq(Data) /\ n \in Nat /\ DOMAIN buffers = 1 .. n
  <2>1. TypeInv /\ c \in Data /\ c # <<>>
    BY <1>0, Adding DEF IInv, JobFits
  <2>2. buffers \in Seq(Buffers) /\ pages \in Seq(Data)
    BY <2>1 DEF TypeInv
  <2> QED
    BY <1>0, <2>1, <2>2, GrownSame, LenProperties DEF Data
<1>2. CASE /\ \E b \in Duplicates(c) : SetEntry(job.file, <<b>>)
           /\ UNCHANGED buffers
  <2>1. PICK b \in Duplicates(c) : SetEntry(job.file, <<b>>)
    BY <1>2
  <2>2. /\ b \in Blocks /\ b.size = Len(c)
        /\ Holds(pages', [page |-> b.page, offset |-> b.offset], c)
    BY <1>0, DuplicateHolds
  <2> DEFINE e == <<b>>
  <2>3. Stored(b, pages') /\ Content(e, buffers', pages') = c
    BY <1>1, <2>2, ContentHeld
  <2>4. \A i \in DOMAIN e : Stored(e[i], pages')
    BY <2>3
  <2>5. SetEntry(job.file, e)
    BY <2>1
  <2> HIDE DEF e
  <2> QED
    BY <1>0, <1>1, <1>2, <2>3, <2>4, <2>5, EntryKeeps
<1>3. CASE /\ SetEntry(job.file, <<Block(-n - 1, 0, Len(c))>>)
           /\ buffers' = Append(buffers, [file |-> job.file, data |-> c,
                                          length |-> Len(c), alive |-> TRUE])
  <2> DEFINE d == [file |-> job.file, data |-> c, length |-> Len(c), alive |-> TRUE]
             e == <<Block(-n - 1, 0, Len(c))>>
  <2>1. d \in Buffers /\ d.alive /\ d.file = job.file /\ d.data = c
    BY <1>0, <1>1, Adding DEF Buffers
  <2>2. buffers' = Append(buffers, d) /\ SetEntry(job.file, e)
    BY <1>3
  <2> HIDE DEF d
  <2>3. /\ buffers' \in Seq(Buffers) /\ Len(buffers') = n + 1
        /\ \A k \in 1 .. n : buffers'[k] = buffers[k]
        /\ buffers'[n + 1] = d
    BY <1>1, <2>1, <2>2, AppendProperties
  <2>4. DOMAIN buffers' = 1 .. n + 1
    BY <2>3, LenProperties
  <2>5. \A k \in DOMAIN buffers : k \in DOMAIN buffers' /\ buffers'[k] = buffers[k]
    BY <1>1, <2>3, <2>4
  <2>6. n + 1 \in DOMAIN buffers' /\ n + 1 \in Nat /\ n + 1 > 0 /\ -(n + 1) = -n - 1
    BY <1>1, <2>4
  <2>7. e = <<Block(-(n + 1), 0, Len(c))>>
    BY <2>6
  <2>8. Content(e, buffers', pages') = c
    BY <1>1, <2>1, <2>3, <2>6, <2>7, ContentBuffer
  <2> HIDE DEF e
  <2> QED
    BY <1>0, <1>1, <2>1, <2>2, <2>3, <2>5, <2>6, <2>8, EntryKeeps
<1> QED
  BY <1>2, <1>3 DEF AddBuffer

LEMMA AddEntryKeeps ==
  ASSUME IInv, FilesKept, IInv', ~fatalError', AddEntry
  PROVE  Keeps
<1>0. /\ pc = "begin" /\ pc' = "write" /\ job' = job
      /\ UNCHANGED <<buffers, pages, pageMap, modes, purge>>
      /\ \E e : SetEntry(job.file, e)
  BY DEF AddEntry, Go
<1>1. TypeInv /\ Grown(pages, pages') /\ job # NULL /\ ~fatalError /\ saved' = 0
  BY <1>0, Adding, GrownSame DEF TypeInv, purge
<1>2. PICK e : SetEntry(job.file, e)
  BY <1>0
<1>3. \A f \in Files : f # job.file => Kept(f)
  BY <1>0, <1>1, <1>2, EntryKept
<1>4. Within1
  BY <1>0 DEF Within1
<1>5. \A f \in Files : ~Unsettled(f)' => f # job.file /\ ~Unsettled(f)
  BY <1>0, <1>1 DEF Unsettled
<1> QED
  BY <1>1, <1>3, <1>4, <1>5, SameRequest, Stutters

LEMMA WriteFailsKeeps ==
  ASSUME IInv, FilesKept, IInv', ~fatalError', WriteFails
  PROVE  Keeps
<1>0. /\ pc = "write" /\ job' = NULL /\ SetEntry(job.file, NULL)
      /\ UNCHANGED <<buffers, pages, purge>>
  BY DEF WriteFails, Go
<1>1. TypeInv /\ Grown(pages, pages')
  BY <1>0, Adding, GrownSame DEF TypeInv
<1> QED
  BY <1>0, <1>1, EntryKeeps

LEMMA WritePageKeeps ==
  ASSUME IInv, FilesKept, IInv', ~fatalError', WritePage
  PROVE  Keeps
<1> DEFINE c == job.data
           q == BlocksOf(c)
           next == job.written + 1
<1>0. /\ pc = "write" /\ UNCHANGED <<buffers, pageMap, modes, purge>>
      /\ IF next = Len(index[job.file]) THEN job' = NULL
                                        ELSE pc' = "write" /\ job' = [job EXCEPT !.written = next]
  BY DEF WritePage, Go
<1>1. /\ ~fatalError /\ job # NULL /\ job \in Jobs /\ c \in Data /\ c # <<>> /\ saved' = 0 /\ TypeInv
      /\ Len(index[job.file]) = q
  BY <1>0, Adding DEF IInv, JobFits, purge
<1>2. PICK e \in Seq(Blocks) :
        /\ SetEntry(job.file, e) /\ e # <<>> /\ Len(e) = q
        /\ \A i \in 1 .. next : PieceHeld(e[i], pages', c, i)
  BY PiecesWritten
<1>3. pages' \in Seq(Data) /\ Grown(pages, pages')
  BY PiecesWritten
<1>4. next \in 1 .. q /\ q \in Nat
  BY <1>0, <1>1, NextPiece, Pieces
<1>5. CASE next # q
  <2> DEFINE job1 == [job EXCEPT !.written = next]
  <2>1. job1 \in Jobs /\ job1.file = job.file /\ job1.data = job.data /\ job1.was = job.was
        /\ job1.wasPending = job.wasPending
    BY <1>1, <1>4 DEF Jobs
  <2>2. job' = job1 /\ pc' = "write"
    BY <1>0, <1>1, <1>5
  <2> HIDE DEF job1
  <2>3. job' # NULL
    BY <2>1, <2>2, WriterAssumption
  <2>4. Within1
    BY <1>1, <2>1, <2>2, <2>3 DEF Within1
  <2>5. \A f \in Files : f # job.file => Kept(f)
    BY <1>0, <1>1, <1>2, EntryKept
  <2>6. \A f \in Files : ~Unsettled(f)' => f # job.file /\ ~Unsettled(f)
    BY <2>1, <2>2, <2>3 DEF Unsettled
  <2> QED
    BY <1>1, <1>3, <2>4, <2>5, <2>6, SameRequest, Stutters
<1>6. CASE next = q
  <2> DEFINE parts == [i \in DOMAIN e |-> BlockOf(e[i], buffers', pages')]
  <2>0. DOMAIN e = 1 .. q /\ job' = NULL
    BY <1>0, <1>1, <1>2, <1>6, LenProperties
  <2>1. ASSUME NEW i \in 1 .. q
        PROVE  /\ Stored(e[i], pages') /\ BlockOf(e[i], buffers', pages') = PieceOf(c, i)
               /\ PieceOf(c, i) \in Data
    <3>1. PieceHeld(e[i], pages', c, i) /\ e[i] \in Blocks
      BY <1>2, <1>6, <2>0, ElementOfSeq
    <3>2. PieceOf(c, i) \in Data /\ Len(PieceOf(c, i)) \in 1 .. PageSize
      BY <1>1, PieceFits
    <3>3. /\ e[i].offset = 0 /\ e[i].size = Len(PieceOf(c, i)) /\ e[i].size # 0
          /\ e[i].page \in 0 .. Len(pages') - 1
          /\ e[i].offset + e[i].size <= Len(pages'[e[i].page + 1])
          /\ SubSeq(pages'[e[i].page + 1], e[i].offset + 1, e[i].offset + e[i].size) = PieceOf(c, i)
      BY <3>1, <3>2 DEF PieceHeld, Holds
    <3>4. InPage(e[i], pages')
      BY <3>3 DEF InPage
    <3>5. BlockOf(e[i], buffers', pages') = PieceOf(c, i)
      BY <1>3, <3>1, <3>3, <3>4, BlockInPage
    <3> QED
      BY <3>2, <3>4, <3>5 DEF Stored
  <2>2. parts \in Seq(Data) /\ Len(parts) = q /\ \A i \in 1 .. q : parts[i] = PieceOf(c, i)
    <3>1. parts = [i \in 1 .. q |-> PieceOf(c, i)]
      BY <2>0, <2>1
    <3> HIDE DEF parts
    <3>2. parts \in [1 .. q -> Data]
      BY <2>1, <3>1
    <3> HIDE DEF q
    <3>3. parts \in Seq(Data) /\ Len(parts) = q
      BY <1>4, <3>2
    <3> QED
      BY <3>1, <3>3
  <2>3. Content(e, buffers', pages') = Joined(parts)
    BY DEF Content
  <2> HIDE DEF parts
  <2>4. Content(e, buffers', pages') = c
    BY <1>1, <2>2, <2>3, PiecesJoined
  <2>5. \A i \in DOMAIN e : Stored(e[i], pages')
    BY <2>0, <2>1
  <2> QED
    BY <1>0, <1>2, <1>3, <2>0, <2>4, <2>5, EntryKeeps
<1> QED
  BY <1>5, <1>6

LEMMA PurgeInMemoryKeeps ==
  ASSUME NothingLost, IInv, FilesKept, IInv', ~fatalError, ~fatalError', PurgeInMemory
  PROVE  Keeps
<1>0. /\ pc = "idle" /\ UNCHANGED <<index, pages, pageMap, modes, pc, job, purge>>
      /\ \A k \in DOMAIN buffers : ~buffers[k].alive
  BY DEF PurgeInMemory, NothingLost
<1>1. TypeInv /\ job = NULL /\ Grown(pages, pages')
  BY <1>0, GrownSame DEF IInv, TypeInv
<1>2. Within1 /\ \A f \in Files : ~Unsettled(f)
  BY <1>0, <1>1 DEF Within1, Unsettled
<1>3. \A f \in Files : Kept(f)
  BY <1>0, <1>2, KeptWhereItIs
<1> QED
  BY <1>1, <1>2, <1>3, SameRequest, Stutters

-----------------------------------------------------------------------------
(* Every file is kept.                                                     *)

LEMMA InitKept == Init => FilesKept
<1> SUFFICES ASSUME Init PROVE FilesKept
  OBVIOUS
<1>1. \A f \in Files : index[f] = NULL
  BY DEF Init
<1>2. job = NULL
  BY DEF Init
<1> QED
  BY <1>1, <1>2 DEF FilesKept, NoneDangles, OldStands, Settled

LEMMA NextKeeps ==
  ASSUME NothingLost, IInv, FilesKept, [Next]_vars, IInv'
  PROVE  Keeps
<1>1. CASE fatalError
  BY <1>1, FatalStays, FatalSteps
<1>2. CASE fatalError'
  BY <1>2, BreakSteps
<1>3. CASE ~fatalError /\ ~fatalError'
  <2>0. ~fatalError /\ ~fatalError'
    BY <1>3
  <2>1. ASSUME NEW CONSTANT f \in Files, DeleteFile(f) PROVE Keeps
    BY <2>0, <2>1, DeleteFileKeeps
  <2>2. ASSUME NEW CONSTANT f \in Files, NEW CONSTANT c \in Given[f], AddFile(f, c) PROVE Keeps
    BY <2>0, <2>2, AddFileKeeps
  <2>3. CASE SourceFails \/ AddEmpty \/ AddBuffer
    BY <2>0, <2>3, SourceFailsKeeps, AddEmptyKeeps, AddBufferKeeps
  <2>4. CASE AddEntry \/ WritePage \/ WriteFails
    BY <2>0, <2>4, AddEntryKeeps, WritePageKeeps, WriteFailsKeeps
  <2>5. CASE PurgePage
    BY <2>0, <2>5, PurgeKeeps
  <2>6. CASE PurgeFails
    BY <2>0, <2>6 DEF PurgeFails
  <2>7. CASE PurgeFull \/ PurgeCommand
    <3>1. pc # "write" /\ StartPurge("purge")
      BY <2>7 DEF PurgeFull, PurgeCommand
    <3> QED
      BY <2>0, <3>1, StartPurgeKeeps
  <2>8. CASE MakeRoom
    <3>1. CASE StartPurge("purgeFirst")
      <4>1. pc # "write"
        BY <2>8 DEF MakeRoom
      <4> QED
        BY <2>0, <3>1, <4>1, StartPurgeKeeps
    <3>2. CASE Go("add", job) /\ UNCHANGED <<store, modes, purge>>
      <4>1. /\ UNCHANGED <<index, buffers, pages, job>> /\ Saved' = Saved
            /\ pc # "write" /\ pc' # "write"
        BY <2>8, <3>2 DEF MakeRoom, Go, store, purge, Saved
      <4> QED
        BY <2>0, <4>1, SameStoreKeeps
    <3> QED
      BY <2>8, <3>1, <3>2 DEF MakeRoom
  <2>9. CASE PurgeInMemory
    BY <2>0, <2>9, PurgeInMemoryKeeps
  <2>10. CASE RemoveDirectory
    BY <2>0, <2>10, RemoveDirectoryKeeps
  <2>11. CASE SetWriteToMemory \/ Remount \/ UNCHANGED vars
    <3>1. UNCHANGED <<index, buffers, pages, job>> /\ Saved' = Saved /\ pc' = pc
      BY <2>11 DEF SetWriteToMemory, Remount, vars, store, purge, Saved
    <3> QED
      BY <2>0, <3>1, SameStoreKeeps
  <2> QED
    BY <2>1, <2>2, <2>3, <2>4, <2>5, <2>6, <2>7, <2>8, <2>9, <2>10, <2>11 DEF Next
<1> QED
  BY <1>1, <1>2, <1>3

\* Until a fatal error an entry is that of a buffer which waits, or all of it is in
\* pages; the entry of a file that is being written reads as it was.
THEOREM EveryFileIsKept ==
  ASSUME NothingLost
  PROVE  Spec => []FilesKept
<1>1. Init => IInv /\ FilesKept
  BY InitFits, InitKept
<1>2. IInv /\ FilesKept /\ [Next]_vars => (IInv /\ FilesKept)'
  BY NextFits, NextKeeps DEF Keeps
<1> QED
  BY <1>1, <1>2, PTL DEF Spec

\* Between operations, unless there was a fatal error, a file is pending with
\* block -k exactly when the k-th buffer is its own (Cookfs_WriterRemoveFile).
THEOREM PendingFilesOwnBuffers ==
  ASSUME NothingLost
  PROVE  Spec => []PendingIsOwn
<1>1. ASSUME IInv, FilesKept PROVE PendingIsOwn
  <2> SUFFICES ASSUME pc = "idle", ~fatalError
               PROVE  /\ \A k \in DOMAIN buffers : buffers[k].alive =>
                           index[buffers[k].file] = <<Block(-k, 0, buffers[k].length)>>
                      /\ \A f \in Files : index[f] # NULL =>
                           \A i \in DOMAIN index[f] :
                             LET b == index[f][i]
                             IN b.page < 0 /\ b.size > 0 =>
                                  -b.page \in DOMAIN buffers /\ -b.page \in PlaceOf(f)
    BY DEF PendingIsOwn
  <2>1. Owned /\ Saved = {} /\ job = NULL /\ TypeInv
    BY <1>1 DEF IInv, PurgeFits, Purging, Saved, TypeInv
  <2>2. \A k \in DOMAIN buffers : buffers[k].alive =>
          index[buffers[k].file] = <<Block(-k, 0, buffers[k].length)>>
    BY <2>1 DEF Owned
  <2>3. ASSUME NEW f \in Files, index[f] # NULL, NEW i \in DOMAIN index[f],
               index[f][i].page < 0, index[f][i].size > 0
        PROVE  -index[f][i].page \in DOMAIN buffers /\ -index[f][i].page \in PlaceOf(f)
    <3>1. index[f] \in Seq(Blocks)
      BY <2>1, <2>3 DEF TypeInv
    <3>2. index[f][i] \in Blocks
      BY <2>3, <3>1, LenProperties, ElementOfSeq
    <3>3. ~Stored(index[f][i], pages)
      BY <2>3, <3>2 DEF Stored, InPage, Blocks
    <3>4. PICK k \in DOMAIN buffers : buffers[k].alive /\ buffers[k].file = f
      BY <1>1, <2>1, <2>3, <3>3 DEF FilesKept, NoneDangles, Unsettled, Settled
    <3>5. index[f] = <<Block(-k, 0, buffers[k].length)>>
      BY <2>2, <3>4
    <3>6. index[f][i] = Block(-k, 0, buffers[k].length)
      BY <2>3, <3>5
    <3>7. k \in Nat
      BY <2>1, LenProperties DEF TypeInv
    <3>8. -index[f][i].page = k
      BY <3>6, <3>7 DEF Block
    <3> QED
      BY <3>4, <3>8 DEF PlaceOf
  <2> QED
    BY <2>2, <2>3
<1>2. IInv /\ FilesKept => PendingIsOwn
  BY <1>1
<1> QED
  BY <1>2, WriterInvariant, EveryFileIsKept, PTL

\* The writer keeps every file: the content of a file is what was last written
\* to it, whether it waits in a buffer, was found to be a duplicate or was
\* packed into a page (Cookfs_WriterAddFile, Cookfs_WriterPurge).
THEOREM WriterImplementsStore ==
  ASSUME NothingLost
  PROVE  Spec => ImplementsStore
<1>1. Init => Store!Init
  <2> SUFFICES ASSUME Init PROVE Store!Init
    OBVIOUS
  <2>1. \A f \in Files : index[f] = NULL
    BY DEF Init
  <2>2. job = NULL /\ fatalError = FALSE
    BY DEF Init
  <2>3. \A f \in Files : ReadFile(f) = NULL
    BY <2>1 DEF ReadFile
  <2>4. Visible = [f \in Files |-> NULL] /\ Asked = NULL
    BY <2>2, <2>3 DEF Visible, Asked
  <2> QED
    BY <2>2, <2>4 DEF Store!Init
<1>2. IInv /\ FilesKept /\ [Next]_vars /\ IInv' => [Store!Next]_(Store!absVars)
  BY NextKeeps DEF Keeps
<1> QED
  BY <1>1, <1>2, WriterInvariant, EveryFileIsKept, PTL DEF Spec, ImplementsStore, Store!Spec
=============================================================================
