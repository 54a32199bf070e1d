------------------------- MODULE MountLife_proofs -------------------------
(***************************************************************************)
(* Proofs about MountLife.                                                 *)
(*                                                                         *)
(* Every call is a list of lock operations.  Safe(s, may, hold, soft, kind)*)
(* says that what is left of a call, with the locks and soft locks it has, *)
(* does only what it may do, whatever its locks answer, and ends with the  *)
(* soft locks of its channel and no others.  Ending says the same of       *)
(* Cookfs_VfsFini, which takes the objects apart.  First each list of      *)
(* MountLife is shown to be Safe or Ending, step by step from its end;     *)
(* then the invariant (Sound) relates the lists of all threads to the      *)
(* mutexes, the soft locks and the objects, and each action is shown to    *)
(* keep it; the properties follow from it.                                 *)
(***************************************************************************)
EXTENDS MountLife, FiniteSetTheorems, SequenceTheorems, TLAPS

-----------------------------------------------------------------------------
(* Lists of steps *)

IsCall(s) == \E S : s \in Seq(S)

\* The call opens or closes a channel: MountLife's Channelling.
OpensOrCloses(s) == \E i \in DOMAIN s : s[i].do \in {"opened", "unlockSoft"}

\* Nothing is killed in it: only Cookfs_VfsFini does that.
KillsNothing(s) == \A i \in DOMAIN s : s[i].do # "kill"

LEMMA NoStep == IsCall(<<>>) /\ ~OpensOrCloses(<<>>) /\ KillsNothing(<<>>)
<1>1. <<>> \in Seq({}) /\ DOMAIN <<>> = {}
  BY EmptySeq
<1> QED
  BY <1>1 DEF IsCall, OpensOrCloses, KillsNothing

LEMMA ConsAlone == ASSUME NEW a PROVE <<a>> = <<a>> \o <<>>
  OBVIOUS

LEMMA CatIsCall ==
  ASSUME NEW s, NEW t, IsCall(s), IsCall(t)
  PROVE  IsCall(s \o t)
<1>1. PICK S : s \in Seq(S)
  BY DEF IsCall
<1>2. PICK T : t \in Seq(T)
  BY DEF IsCall
<1>3. s \in Seq(S \cup T) /\ t \in Seq(S \cup T)
  BY <1>1, <1>2, SeqMonotonic
<1>4. s \o t \in Seq(S \cup T)
  BY <1>3
<1> QED
  BY <1>4 DEF IsCall

LEMMA CatAssoc ==
  ASSUME NEW r, NEW s, NEW t, IsCall(r), IsCall(s), IsCall(t)
  PROVE  (r \o s) \o t = r \o (s \o t)
  BY DEF IsCall

\* A list begins with its first step.
LEMMA Cons ==
  ASSUME NEW a, NEW t, IsCall(t)
  PROVE  /\ IsCall(<<a>> \o t) /\ <<a>> \o t # <<>>
         /\ Head(<<a>> \o t) = a /\ Tail(<<a>> \o t) = t
         /\ OpensOrCloses(<<a>> \o t)
              <=> a.do \in {"opened", "unlockSoft"} \/ OpensOrCloses(t)
         /\ KillsNothing(<<a>> \o t) <=> a.do # "kill" /\ KillsNothing(t)
<1>1. PICK S : t \in Seq(S)
  BY DEF IsCall
<1>2. t \in Seq(S \cup {a}) /\ <<a>> \in Seq(S \cup {a})
  BY <1>1
<1> DEFINE c == <<a>> \o t
<1>3. /\ c \in Seq(S \cup {a}) /\ Len(c) = Len(t) + 1 /\ c[1] = a
      /\ \A i \in 1..Len(t) : c[i + 1] = t[i]
      /\ Len(t) \in Nat
  BY <1>2
<1>4. DOMAIN c = 1..(Len(t) + 1) /\ DOMAIN t = 1..Len(t)
  BY <1>2, <1>3
<1>5. IsCall(c) /\ c # <<>> /\ Head(c) = a
  BY <1>3 DEF IsCall
<1>6. Tail(c) = t
  BY <1>2
<1>7. \A i \in DOMAIN c : i = 1 \/ (i - 1 \in DOMAIN t /\ c[i] = t[i - 1])
  BY <1>3, <1>4
<1>8. 1 \in DOMAIN c /\ \A i \in DOMAIN t : i + 1 \in DOMAIN c /\ c[i + 1] = t[i]
  BY <1>3, <1>4
<1>9. OpensOrCloses(c) <=> a.do \in {"opened", "unlockSoft"} \/ OpensOrCloses(t)
  <2>1. OpensOrCloses(c) => a.do \in {"opened", "unlockSoft"} \/ OpensOrCloses(t)
    BY <1>3, <1>7 DEF OpensOrCloses
  <2>2. a.do \in {"opened", "unlockSoft"} => OpensOrCloses(c)
    BY <1>3, <1>8 DEF OpensOrCloses
  <2>3. OpensOrCloses(t) => OpensOrCloses(c)
    BY <1>3, <1>8 DEF OpensOrCloses
  <2> QED
    BY <2>1, <2>2, <2>3
<1>10. KillsNothing(c) <=> a.do # "kill" /\ KillsNothing(t)
  <2>1. KillsNothing(c) => a.do # "kill" /\ KillsNothing(t)
    BY <1>3, <1>8 DEF KillsNothing
  <2>2. a.do # "kill" /\ KillsNothing(t) => KillsNothing(c)
    BY <1>3, <1>7 DEF KillsNothing
  <2> QED
    BY <2>1, <2>2
<1> HIDE DEF c
<1> QED
  BY <1>5, <1>6, <1>9, <1>10 DEF c

LEMMA Two == ASSUME NEW a, NEW b PROVE <<a, b>> = <<a>> \o <<b>>
<1>1. <<a>> \in Seq({a, b}) /\ <<b>> \in Seq({a, b}) /\ <<a, b>> \in Seq({a, b})
  OBVIOUS
<1> DEFINE c == <<a>> \o <<b>>
           d == <<a, b>>
<1>2. c \in Seq({a, b}) /\ Len(c) = 2 /\ c[1] = a /\ c[2] = b
  BY <1>1
<1>3. d \in Seq({a, b}) /\ Len(d) = 2 /\ d[1] = a /\ d[2] = b
  BY <1>1
<1> HIDE DEF c, d
<1>4. c = d
  BY <1>2, <1>3, SeqEqual
<1> QED
  BY <1>4 DEF c, d

\* A list of a few steps followed by another list
LEMMA Literals ==
  ASSUME NEW a, NEW b, NEW c, NEW d, NEW e
  PROVE  /\ IsCall(<<a>>) /\ IsCall(<<a, b>>) /\ IsCall(<<a, b, c>>)
         /\ IsCall(<<a, b, c, d>>) /\ IsCall(<<a, b, c, d, e>>)
<1>1. <<a>> \in Seq({a})
  OBVIOUS
<1>2. <<a, b>> \in Seq({a, b})
  OBVIOUS
<1>3. <<a, b, c>> \in Seq({a, b, c})
  OBVIOUS
<1>4. <<a, b, c, d>> \in Seq({a, b, c, d})
  OBVIOUS
<1>5. <<a, b, c, d, e>> \in Seq({a, b, c, d, e})
  OBVIOUS
<1>6. IsCall(<<a>>)
  BY <1>1 DEF IsCall
<1>7. IsCall(<<a, b>>)
  BY <1>2 DEF IsCall
<1>8. IsCall(<<a, b, c>>)
  BY <1>3 DEF IsCall
<1>9. IsCall(<<a, b, c, d>>)
  BY <1>4 DEF IsCall
<1>10. IsCall(<<a, b, c, d, e>>)
  BY <1>5 DEF IsCall
<1> QED
  BY <1>6, <1>7, <1>8, <1>9, <1>10

LEMMA Cat2 ==
  ASSUME NEW a, NEW b, NEW t, IsCall(t)
  PROVE  <<a, b>> \o t = <<a>> \o (<<b>> \o t)
<1> DEFINE q == <<a>>
           r == <<b>>
<1>1. <<a, b>> = q \o r
  BY Two
<1>2. IsCall(q) /\ IsCall(r)
  BY Literals
<1> HIDE DEF q, r
<1>4. (q \o r) \o t = q \o (r \o t)
  BY <1>2, CatAssoc
<1> QED
  BY <1>1, <1>4 DEF q, r

LEMMA Cat3 ==
  ASSUME NEW a, NEW b, NEW c, NEW t, IsCall(t)
  PROVE  <<a, b, c>> \o t = <<a>> \o (<<b>> \o (<<c>> \o t))
<1> DEFINE q == <<a>>
           r == <<b, c>>
<1>1. <<a, b, c>> = q \o r
  OBVIOUS
<1>2. IsCall(q) /\ IsCall(r)
  BY Literals
<1>3. <<b, c>> \o t = <<b>> \o (<<c>> \o t)
  BY Cat2, SMTT(30)
<1> HIDE DEF q, r
<1>4. (q \o r) \o t = q \o (r \o t)
  BY <1>2, CatAssoc
<1> QED
  BY <1>1, <1>3, <1>4 DEF q, r

LEMMA Cat4 ==
  ASSUME NEW a, NEW b, NEW c, NEW d, NEW t, IsCall(t)
  PROVE  <<a, b, c, d>> \o t = <<a>> \o (<<b>> \o (<<c>> \o (<<d>> \o t)))
<1> DEFINE q == <<a, b>>
           r == <<c, d>>
           u == r \o t
<1>1. <<a, b, c, d>> = q \o r
  OBVIOUS
<1>2. IsCall(q) /\ IsCall(r)
  BY Literals
<1>3. IsCall(u) /\ (q \o r) \o t = q \o u
  <2> HIDE DEF q, r
  <2> QED
    BY <1>2, CatAssoc, CatIsCall
<1>4. u = <<c>> \o (<<d>> \o t)
  BY Cat2, SMTT(30)
<1> HIDE DEF u
<1>5. <<a, b>> \o u = <<a>> \o (<<b>> \o u)
  BY <1>3, Cat2, SMTT(30)
<1> QED
  BY <1>1, <1>3, <1>4, <1>5 DEF q, r

LEMMA Cat5 ==
  ASSUME NEW a, NEW b, NEW c, NEW d, NEW e, NEW t, IsCall(t)
  PROVE  <<a, b, c, d, e>> \o t = <<a>> \o (<<b>> \o (<<c>> \o (<<d>> \o (<<e>> \o t))))
<1> DEFINE q == <<a>>
           r == <<b, c, d, e>>
<1>1. <<a, b, c, d, e>> = q \o r
  OBVIOUS
<1>2. IsCall(q) /\ IsCall(r)
  BY Literals
<1>3. <<b, c, d, e>> \o t = <<b>> \o (<<c>> \o (<<d>> \o (<<e>> \o t)))
  BY Cat4, SMTT(30)
<1> HIDE DEF q, r
<1>4. (q \o r) \o t = q \o (r \o t)
  BY <1>2, CatAssoc
<1> QED
  BY <1>1, <1>3, <1>4 DEF q, r

-----------------------------------------------------------------------------
(* Calls that are safe *)

Kinds == {"none", "reader", "writer"}

\* The soft locks that an open channel of a kind keeps
SoftOf(kind) ==
  CASE kind = "reader" -> {"index", "pages"}
    [] kind = "writer" -> Objects
    [] OTHER -> {}

Up(hold, o) == [hold EXCEPT ![o] = @ + 1]
Down(hold, o) == [hold EXCEPT ![o] = @ - 1]

Legal(s, may, hold, soft, kind) ==
  /\ IsCall(s) /\ KillsNothing(s)
  /\ may \subseteq {"path", "handle"} /\ hold \in [Objects -> Nat]
  /\ soft \subseteq Objects /\ kind \in Kinds
  /\ soft # SoftOf(kind) => OpensOrCloses(s)
  /\ s = <<>> => "path" \notin may
  /\ s # <<>> =>
       LET step == Head(s)
           o == step.on
       IN \/ /\ step.do \in {"read", "write"} /\ o \in Objects
             /\ may # {} \/ hold["index"] > 0 \/ o \in soft
             /\ step.do = "write" /\ o = "pages" => hold["index"] > 0 \/ hold["writer"] > 0
             /\ OpensOrCloses(step.or) => OpensOrCloses(s)
          \/ step.do = "unlock" /\ o \in Objects /\ hold[o] > 0
          \/ step.do = "vfsUnlock" /\ o = "index" /\ "path" \in may
          \/ /\ step.do = "lockSoft" /\ o \in Objects \ soft
             /\ hold["index"] > 0 /\ OpensOrCloses(s)
          \/ step.do = "unlockSoft" /\ o \in soft
          \/ step.do = "opened" /\ o \in Kinds \ {"none"} /\ kind = "none" /\ soft = SoftOf(o)

After(s, may, hold, soft, kind) ==
  IF s = <<>> THEN {}
  ELSE LET step == Head(s)
           o == step.on
       IN CASE step.do \in {"read", "write"} ->
                 {<<Tail(s), may, Up(hold, o), soft, kind>>,
                  <<step.or, may, hold, soft, kind>>}
            [] step.do = "unlock" ->
                 {<<Tail(s), may, Down(hold, o), soft, kind>>}
            [] step.do = "vfsUnlock" -> {<<Tail(s), may \ {"path"}, hold, soft, kind>>}
            [] step.do = "lockSoft" -> {<<Tail(s), may, hold, soft \cup {o}, kind>>}
            [] step.do = "unlockSoft" -> {<<Tail(s), may, hold, soft \ {o}, kind>>}
            [] OTHER -> {<<Tail(s), may, hold, soft, o>>}

Closed(R) ==
  \A s, may, hold, soft, kind :
    <<s, may, hold, soft, kind>> \in R
      => Legal(s, may, hold, soft, kind) /\ After(s, may, hold, soft, kind) \subseteq R

\* A call that may do all it does, however its locks are granted
Safe(s, may, hold, soft, kind) ==
  \E R : Closed(R) /\ <<s, may, hold, soft, kind>> \in R

LEMMA SafeIsLegal ==
  ASSUME NEW s, NEW may, NEW hold, NEW soft, NEW kind, Safe(s, may, hold, soft, kind)
  PROVE  /\ Legal(s, may, hold, soft, kind)
         /\ \A s2, may2, hold2, soft2, kind2 :
              <<s2, may2, hold2, soft2, kind2>> \in After(s, may, hold, soft, kind)
                => Safe(s2, may2, hold2, soft2, kind2)
<1>1. PICK R : Closed(R) /\ <<s, may, hold, soft, kind>> \in R
  BY DEF Safe
<1>2. Legal(s, may, hold, soft, kind) /\ After(s, may, hold, soft, kind) \subseteq R
  BY <1>1 DEF Closed
<1> QED
  BY <1>1, <1>2 DEF Safe

LEMMA LegalIsSafe ==
  ASSUME NEW s, NEW may, NEW hold, NEW soft, NEW kind, Legal(s, may, hold, soft, kind),
         NEW s1, NEW may1, NEW hold1, NEW soft1, NEW kind1, Safe(s1, may1, hold1, soft1, kind1),
         NEW s2, NEW may2, NEW hold2, NEW soft2, NEW kind2, Safe(s2, may2, hold2, soft2, kind2),
         After(s, may, hold, soft, kind) \subseteq
           {<<s1, may1, hold1, soft1, kind1>>, <<s2, may2, hold2, soft2, kind2>>}
  PROVE  Safe(s, may, hold, soft, kind)
<1>1. PICK R1 : Closed(R1) /\ <<s1, may1, hold1, soft1, kind1>> \in R1
  BY DEF Safe
<1>2. PICK R2 : Closed(R2) /\ <<s2, may2, hold2, soft2, kind2>> \in R2
  BY DEF Safe
<1> DEFINE x == <<s, may, hold, soft, kind>>
           R == (R1 \cup R2) \cup {x}
<1>3. After(s, may, hold, soft, kind) \subseteq R
  BY <1>1, <1>2
<1>4. ASSUME NEW s3, NEW may3, NEW hold3, NEW soft3, NEW kind3,
             <<s3, may3, hold3, soft3, kind3>> \in R
      PROVE  /\ Legal(s3, may3, hold3, soft3, kind3)
             /\ After(s3, may3, hold3, soft3, kind3) \subseteq R
  <2>1. CASE <<s3, may3, hold3, soft3, kind3>> \in R1
    BY <2>1, <1>1 DEF Closed
  <2>2. CASE <<s3, may3, hold3, soft3, kind3>> \in R2
    BY <2>2, <1>2 DEF Closed
  <2>3. CASE <<s3, may3, hold3, soft3, kind3>> = <<s, may, hold, soft, kind>>
    <3>1. s3 = s /\ may3 = may /\ hold3 = hold /\ soft3 = soft /\ kind3 = kind
      BY <2>3
    <3> QED
      BY <3>1, <1>3
  <2> QED
    BY <1>4, <2>1, <2>2, <2>3
<1>5. Closed(R) /\ x \in R
  BY <1>4 DEF Closed
<1> HIDE DEF R
<1> QED
  BY <1>5 DEF Safe

-----------------------------------------------------------------------------
(* One rule for each kind of step *)

LEMMA SafeEnd ==
  ASSUME NEW may, NEW hold, NEW kind,
         may \subseteq {"handle"}, hold \in [Objects -> Nat], kind \in Kinds
  PROVE  Safe(<<>>, may, hold, SoftOf(kind), kind)
<1> DEFINE x == <<<<>>, may, hold, SoftOf(kind), kind>>
           R == {x}
<1>1. SoftOf(kind) \subseteq Objects
  BY DEF SoftOf, Objects, Kinds
<1>2. Legal(<<>>, may, hold, SoftOf(kind), kind)
  BY <1>1, NoStep DEF Legal
<1>3. After(<<>>, may, hold, SoftOf(kind), kind) = {}
  BY DEF After
<1>4. ASSUME NEW s3, NEW may3, NEW hold3, NEW soft3, NEW kind3,
             <<s3, may3, hold3, soft3, kind3>> \in R
      PROVE  /\ Legal(s3, may3, hold3, soft3, kind3)
             /\ After(s3, may3, hold3, soft3, kind3) \subseteq R
  <2>1. s3 = <<>> /\ may3 = may /\ hold3 = hold /\ soft3 = SoftOf(kind) /\ kind3 = kind
    BY <1>4
  <2> QED
    BY <2>1, <1>2, <1>3
<1>5. Closed(R) /\ x \in R
  BY <1>4 DEF Closed
<1> HIDE DEF R
<1> QED
  BY <1>5 DEF Safe

\* A lock, granted or refused
LEMMA SafeLock ==
  ASSUME NEW do \in {"read", "write"}, NEW o \in Objects, NEW or, NEW t,
         NEW may, NEW hold, NEW soft, NEW kind,
         Safe(t, may, Up(hold, o), soft, kind),
         Safe(or, may, hold, soft, kind),
         may # {} \/ hold["index"] > 0 \/ o \in soft,
         do = "write" /\ o = "pages" => hold["index"] > 0 \/ hold["writer"] > 0,
         OpensOrCloses(or) => OpensOrCloses(t)
  PROVE  /\ Safe(<<Lock(do, o, or)>> \o t, may, hold, soft, kind)
         /\ OpensOrCloses(<<Lock(do, o, or)>> \o t) <=> OpensOrCloses(t)
<1> DEFINE a == Lock(do, o, or)
           s == <<a>> \o t
           up == Up(hold, o)
<1>1. Legal(t, may, up, soft, kind) /\ Legal(or, may, hold, soft, kind)
  BY SafeIsLegal
<1>2. IsCall(t)
  BY <1>1 DEF Legal
<1>3. /\ IsCall(s) /\ s # <<>> /\ Head(s) = a /\ Tail(s) = t
      /\ OpensOrCloses(s) <=> a.do \in {"opened", "unlockSoft"} \/ OpensOrCloses(t)
      /\ KillsNothing(s) <=> a.do # "kill" /\ KillsNothing(t)
  BY <1>2, Cons
<1>4. a.do = do /\ a.on = o /\ a.or = or
  BY DEF Lock
<1>5. do \notin {"opened", "unlockSoft", "kill"}
  OBVIOUS
<1> HIDE DEF s, a, up
<1>6. OpensOrCloses(s) <=> OpensOrCloses(t)
  BY <1>3, <1>4, <1>5
<1>7. Legal(s, may, hold, soft, kind)
  BY <1>1, <1>3, <1>4, <1>5, <1>6 DEF Legal
<1>8. After(s, may, hold, soft, kind)
        = {<<t, may, up, soft, kind>>, <<or, may, hold, soft, kind>>}
  BY <1>3, <1>4 DEF After, up
<1>9. Safe(t, may, up, soft, kind)
  BY DEF up
<1>10. Safe(s, may, hold, soft, kind)
  BY <1>7, <1>8, <1>9, LegalIsSafe
<1> QED
  BY <1>6, <1>10 DEF s, a

LEMMA SafeRead ==
  ASSUME NEW o \in Objects, NEW or, NEW t, NEW may, NEW hold, NEW soft, NEW kind,
         Safe(t, may, Up(hold, o), soft, kind), Safe(or, may, hold, soft, kind),
         may # {} \/ hold["index"] > 0 \/ o \in soft,
         OpensOrCloses(or) => OpensOrCloses(t)
  PROVE  /\ Safe(<<Lock("read", o, or)>> \o t, may, hold, soft, kind)
         /\ OpensOrCloses(<<Lock("read", o, or)>> \o t) <=> OpensOrCloses(t)
  BY SafeLock

LEMMA SafeWrite ==
  ASSUME NEW o \in Objects, NEW or, NEW t, NEW may, NEW hold, NEW soft, NEW kind,
         Safe(t, may, Up(hold, o), soft, kind), Safe(or, may, hold, soft, kind),
         may # {} \/ hold["index"] > 0 \/ o \in soft,
         o = "pages" => hold["index"] > 0 \/ hold["writer"] > 0,
         OpensOrCloses(or) => OpensOrCloses(t)
  PROVE  /\ Safe(<<Lock("write", o, or)>> \o t, may, hold, soft, kind)
         /\ OpensOrCloses(<<Lock("write", o, or)>> \o t) <=> OpensOrCloses(t)
  BY SafeLock

LEMMA SafeUnlock ==
  ASSUME NEW o \in Objects, NEW t, NEW may, NEW hold \in [Objects -> Nat], NEW soft, NEW kind,
         Safe(t, may, Down(hold, o), soft, kind), hold[o] > 0
  PROVE  /\ Safe(<<Unlock(o)>> \o t, may, hold, soft, kind)
         /\ OpensOrCloses(<<Unlock(o)>> \o t) <=> OpensOrCloses(t)
<1> DEFINE a == Unlock(o)
           s == <<a>> \o t
           down == Down(hold, o)
<1>1. Legal(t, may, down, soft, kind)
  BY SafeIsLegal
<1>2. IsCall(t)
  BY <1>1 DEF Legal
<1>3. /\ IsCall(s) /\ s # <<>> /\ Head(s) = a /\ Tail(s) = t
      /\ OpensOrCloses(s) <=> a.do \in {"opened", "unlockSoft"} \/ OpensOrCloses(t)
      /\ KillsNothing(s) <=> a.do # "kill" /\ KillsNothing(t)
  BY <1>2, Cons
<1>4. a.do = "unlock" /\ a.on = o
  BY DEF Unlock, Do
<1> HIDE DEF s, a, down
<1>6. OpensOrCloses(s) <=> OpensOrCloses(t)
  BY <1>3, <1>4
<1>7. Legal(s, may, hold, soft, kind)
  BY <1>1, <1>3, <1>4, <1>6 DEF Legal
<1>8. After(s, may, hold, soft, kind) = {<<t, may, down, soft, kind>>}
  BY <1>3, <1>4 DEF After, down
<1>9. Safe(t, may, down, soft, kind)
  BY DEF down
<1>10. Safe(s, may, hold, soft, kind)
  BY <1>7, <1>8, <1>9, LegalIsSafe
<1> QED
  BY <1>6, <1>10 DEF s, a

LEMMA SafeVfsUnlock ==
  ASSUME NEW t, NEW may, NEW hold, NEW soft, NEW kind,
         Safe(t, may \ {"path"}, hold, soft, kind),
         "path" \in may, may \subseteq {"path", "handle"}
  PROVE  /\ Safe(<<Do("vfsUnlock", "index")>> \o t, may, hold, soft, kind)
         /\ OpensOrCloses(<<Do("vfsUnlock", "index")>> \o t) <=> OpensOrCloses(t)
<1> DEFINE a == Do("vfsUnlock", "index")
           s == <<a>> \o t
           rest == may \ {"path"}
<1>1. Legal(t, rest, hold, soft, kind)
  BY SafeIsLegal
<1>2. IsCall(t)
  BY <1>1 DEF Legal
<1>3. /\ IsCall(s) /\ s # <<>> /\ Head(s) = a /\ Tail(s) = t
      /\ OpensOrCloses(s) <=> a.do \in {"opened", "unlockSoft"} \/ OpensOrCloses(t)
      /\ KillsNothing(s) <=> a.do # "kill" /\ KillsNothing(t)
  BY <1>2, Cons
<1>4. a.do = "vfsUnlock" /\ a.on = "index"
  BY DEF Do
<1> HIDE DEF s, a, rest
<1>6. OpensOrCloses(s) <=> OpensOrCloses(t)
  BY <1>3, <1>4
<1>7. Legal(s, may, hold, soft, kind)
  BY <1>1, <1>3, <1>4, <1>6 DEF Legal
<1>8. After(s, may, hold, soft, kind) = {<<t, rest, hold, soft, kind>>}
  BY <1>3, <1>4 DEF After, rest
<1>9. Safe(t, rest, hold, soft, kind)
  BY DEF rest
<1>10. Safe(s, may, hold, soft, kind)
  BY <1>7, <1>8, <1>9, LegalIsSafe
<1> QED
  BY <1>6, <1>10 DEF s, a

LEMMA SafeLockSoft ==
  ASSUME NEW o \in Objects, NEW t, NEW may, NEW hold, NEW soft, NEW kind,
         Safe(t, may, hold, soft \cup {o}, kind), o \notin soft,
         hold["index"] > 0, OpensOrCloses(t)
  PROVE  /\ Safe(<<Do("lockSoft", o)>> \o t, may, hold, soft, kind)
         /\ OpensOrCloses(<<Do("lockSoft", o)>> \o t)
<1> DEFINE a == Do("lockSoft", o)
           s == <<a>> \o t
           left == soft \cup {o}
<1>1. Legal(t, may, hold, left, kind)
  BY SafeIsLegal
<1>2. IsCall(t)
  BY <1>1 DEF Legal
<1>3. /\ IsCall(s) /\ s # <<>> /\ Head(s) = a /\ Tail(s) = t
      /\ OpensOrCloses(s) <=> a.do \in {"opened", "unlockSoft"} \/ OpensOrCloses(t)
      /\ KillsNothing(s) <=> a.do # "kill" /\ KillsNothing(t)
  BY <1>2, Cons
<1>4. a.do = "lockSoft" /\ a.on = o
  BY DEF Do
<1> HIDE DEF s, a, left
<1>7. Legal(s, may, hold, soft, kind)
  BY <1>1, <1>3, <1>4 DEF Legal, left
<1>8. After(s, may, hold, soft, kind) = {<<t, may, hold, left, kind>>}
  BY <1>3, <1>4 DEF After, left
<1>9. Safe(t, may, hold, left, kind)
  BY DEF left
<1>10. Safe(s, may, hold, soft, kind)
  BY <1>7, <1>8, <1>9, LegalIsSafe
<1> QED
  BY <1>3, <1>10 DEF s, a

LEMMA SafeUnlockSoft ==
  ASSUME NEW o \in Objects, NEW t, NEW may, NEW hold, NEW soft, NEW kind,
         Safe(t, may, hold, soft \ {o}, kind), o \in soft, soft \subseteq Objects
  PROVE  /\ Safe(<<Do("unlockSoft", o)>> \o t, may, hold, soft, kind)
         /\ OpensOrCloses(<<Do("unlockSoft", o)>> \o t)
<1> DEFINE a == Do("unlockSoft", o)
           s == <<a>> \o t
           left == soft \ {o}
<1>1. Legal(t, may, hold, left, kind)
  BY SafeIsLegal
<1>2. IsCall(t)
  BY <1>1 DEF Legal
<1>3. /\ IsCall(s) /\ s # <<>> /\ Head(s) = a /\ Tail(s) = t
      /\ OpensOrCloses(s) <=> a.do \in {"opened", "unlockSoft"} \/ OpensOrCloses(t)
      /\ KillsNothing(s) <=> a.do # "kill" /\ KillsNothing(t)
  BY <1>2, Cons
<1>4. a.do = "unlockSoft" /\ a.on = o
  BY DEF Do
<1> HIDE DEF s, a, left
<1>7. Legal(s, may, hold, soft, kind)
  BY <1>1, <1>3, <1>4 DEF Legal, left
<1>8. After(s, may, hold, soft, kind) = {<<t, may, hold, left, kind>>}
  BY <1>3, <1>4 DEF After, left
<1>9. Safe(t, may, hold, left, kind)
  BY DEF left
<1>10. Safe(s, may, hold, soft, kind)
  BY <1>7, <1>8, <1>9, LegalIsSafe
<1> QED
  BY <1>3, <1>4, <1>10 DEF s, a

LEMMA SafeOpened ==
  ASSUME NEW kind \in Kinds \ {"none"}, NEW t, NEW may, NEW hold,
         Safe(t, may, hold, SoftOf(kind), kind)
  PROVE  /\ Safe(<<Do("opened", kind)>> \o t, may, hold, SoftOf(kind), "none")
         /\ OpensOrCloses(<<Do("opened", kind)>> \o t)
<1> DEFINE a == Do("opened", kind)
           s == <<a>> \o t
<1>1. Legal(t, may, hold, SoftOf(kind), kind)
  BY SafeIsLegal
<1>2. IsCall(t)
  BY <1>1 DEF Legal
<1>3. /\ IsCall(s) /\ s # <<>> /\ Head(s) = a /\ Tail(s) = t
      /\ OpensOrCloses(s) <=> a.do \in {"opened", "unlockSoft"} \/ OpensOrCloses(t)
      /\ KillsNothing(s) <=> a.do # "kill" /\ KillsNothing(t)
  BY <1>2, Cons
<1>4. a.do = "opened" /\ a.on = kind
  BY DEF Do
<1> HIDE DEF s, a
<1>7. Legal(s, may, hold, SoftOf(kind), "none")
  BY <1>1, <1>3, <1>4 DEF Legal, Kinds
<1>8. After(s, may, hold, SoftOf(kind), "none") = {<<t, may, hold, SoftOf(kind), kind>>}
  BY <1>3, <1>4 DEF After
<1>10. Safe(s, may, hold, SoftOf(kind), "none")
  BY <1>7, <1>8, LegalIsSafe
<1> QED
  BY <1>3, <1>4, <1>10 DEF s, a

-----------------------------------------------------------------------------
(* The calls of MountLife are safe *)

Hold(writer, index, pages) ==
  [o \in Objects |-> IF o = "writer" THEN writer
                     ELSE IF o = "index" THEN index ELSE pages]

LEMMA HoldOne ==
  ASSUME NEW w \in Nat, NEW i \in Nat, NEW p \in Nat, NEW n \in Nat
  PROVE  /\ Hold(w, i, p) \in [Objects -> Nat]
         /\ Hold(w, i, p)["writer"] = w /\ Hold(w, i, p)["index"] = i
         /\ Hold(w, i, p)["pages"] = p
         /\ n = w + 1 => /\ Up(Hold(w, i, p), "writer") = Hold(n, i, p)
                         /\ Down(Hold(n, i, p), "writer") = Hold(w, i, p)
         /\ n = i + 1 => /\ Up(Hold(w, i, p), "index") = Hold(w, n, p)
                         /\ Down(Hold(w, n, p), "index") = Hold(w, i, p)
         /\ n = p + 1 => /\ Up(Hold(w, i, p), "pages") = Hold(w, i, n)
                         /\ Down(Hold(w, i, n), "pages") = Hold(w, i, p)
<1> USE DEF Hold, Objects, Up, Down
<1>1. Hold(w, i, p) \in [Objects -> Nat]
  OBVIOUS
<1>2. Hold(w, i, p)["writer"] = w /\ Hold(w, i, p)["index"] = i /\ Hold(w, i, p)["pages"] = p
  OBVIOUS
<1>3. Up(Hold(w, i, p), "writer") = Hold(w + 1, i, p)
  OBVIOUS
<1>4. Down(Hold(n, i, p), "writer") = Hold(n - 1, i, p)
  OBVIOUS
<1>5. Up(Hold(w, i, p), "index") = Hold(w, i + 1, p)
  OBVIOUS
<1>6. Down(Hold(w, n, p), "index") = Hold(w, n - 1, p)
  OBVIOUS
<1>7. Up(Hold(w, i, p), "pages") = Hold(w, i, p + 1)
  OBVIOUS
<1>8. Down(Hold(w, i, n), "pages") = Hold(w, i, n - 1)
  OBVIOUS
<1>9. n = w + 1 => n - 1 = w
  OBVIOUS
<1>10. n = i + 1 => n - 1 = i
  OBVIOUS
<1>11. n = p + 1 => n - 1 = p
  OBVIOUS
<1> HIDE DEF Hold, Objects, Up, Down
<1> QED
  BY <1>1, <1>2, <1>3, <1>4, <1>5, <1>6, <1>7, <1>8, <1>9, <1>10, <1>11

LEMMA Holds ==
  /\ Hold(0, 0, 0) \in [Objects -> Nat] /\ Hold(0, 0, 0)["index"] = 0
  /\ Hold(0, 0, 0)["writer"] = 0 /\ Hold(0, 0, 0)["pages"] = 0
  /\ Hold(0, 1, 0) \in [Objects -> Nat] /\ Hold(0, 1, 0)["index"] = 1
  /\ Hold(0, 1, 0)["writer"] = 0 /\ Hold(0, 1, 0)["pages"] = 0
  /\ Hold(0, 1, 1) \in [Objects -> Nat] /\ Hold(0, 1, 1)["index"] = 1
  /\ Hold(0, 1, 1)["writer"] = 0 /\ Hold(0, 1, 1)["pages"] = 1
  /\ Hold(0, 2, 0) \in [Objects -> Nat] /\ Hold(0, 2, 0)["index"] = 2
  /\ Hold(0, 2, 0)["writer"] = 0 /\ Hold(0, 2, 0)["pages"] = 0
  /\ Hold(0, 2, 1) \in [Objects -> Nat] /\ Hold(0, 2, 1)["index"] = 2
  /\ Hold(0, 2, 1)["writer"] = 0 /\ Hold(0, 2, 1)["pages"] = 1
  /\ Hold(1, 0, 0) \in [Objects -> Nat] /\ Hold(1, 0, 0)["index"] = 0
  /\ Hold(1, 0, 0)["writer"] = 1 /\ Hold(1, 0, 0)["pages"] = 0
  /\ Hold(1, 0, 1) \in [Objects -> Nat] /\ Hold(1, 0, 1)["index"] = 0
  /\ Hold(1, 0, 1)["writer"] = 1 /\ Hold(1, 0, 1)["pages"] = 1
  /\ Hold(1, 1, 0) \in [Objects -> Nat] /\ Hold(1, 1, 0)["index"] = 1
  /\ Hold(1, 1, 0)["writer"] = 1 /\ Hold(1, 1, 0)["pages"] = 0
  /\ Hold(1, 1, 1) \in [Objects -> Nat] /\ Hold(1, 1, 1)["index"] = 1
  /\ Hold(1, 1, 1)["writer"] = 1 /\ Hold(1, 1, 1)["pages"] = 1
  /\ Hold(1, 2, 0) \in [Objects -> Nat] /\ Hold(1, 2, 0)["index"] = 2
  /\ Hold(1, 2, 0)["writer"] = 1 /\ Hold(1, 2, 0)["pages"] = 0
  /\ Hold(1, 2, 1) \in [Objects -> Nat] /\ Hold(1, 2, 1)["index"] = 2
  /\ Hold(1, 2, 1)["writer"] = 1 /\ Hold(1, 2, 1)["pages"] = 1
  /\ Up(Hold(0, 0, 0), "index") = Hold(0, 1, 0)
  /\ Down(Hold(0, 1, 0), "index") = Hold(0, 0, 0)
  /\ Up(Hold(0, 0, 0), "writer") = Hold(1, 0, 0)
  /\ Down(Hold(1, 0, 0), "writer") = Hold(0, 0, 0)
  /\ Up(Hold(0, 1, 0), "index") = Hold(0, 2, 0)
  /\ Down(Hold(0, 2, 0), "index") = Hold(0, 1, 0)
  /\ Up(Hold(0, 1, 0), "writer") = Hold(1, 1, 0)
  /\ Down(Hold(1, 1, 0), "writer") = Hold(0, 1, 0)
  /\ Up(Hold(0, 1, 0), "pages") = Hold(0, 1, 1)
  /\ Down(Hold(0, 1, 1), "pages") = Hold(0, 1, 0)
  /\ Up(Hold(0, 2, 0), "pages") = Hold(0, 2, 1)
  /\ Down(Hold(0, 2, 1), "pages") = Hold(0, 2, 0)
  /\ Up(Hold(0, 2, 0), "writer") = Hold(1, 2, 0)
  /\ Down(Hold(1, 2, 0), "writer") = Hold(0, 2, 0)
  /\ Up(Hold(1, 2, 0), "pages") = Hold(1, 2, 1)
  /\ Down(Hold(1, 2, 1), "pages") = Hold(1, 2, 0)
  /\ Up(Hold(1, 1, 0), "pages") = Hold(1, 1, 1)
  /\ Down(Hold(1, 1, 1), "pages") = Hold(1, 1, 0)
  /\ Up(Hold(1, 0, 0), "index") = Hold(1, 1, 0)
  /\ Down(Hold(1, 1, 0), "index") = Hold(1, 0, 0)
  /\ Up(Hold(1, 0, 0), "pages") = Hold(1, 0, 1)
  /\ Down(Hold(1, 0, 1), "pages") = Hold(1, 0, 0)
  /\ Up(Hold(1, 1, 0), "index") = Hold(1, 2, 0)
  /\ Down(Hold(1, 2, 0), "index") = Hold(1, 1, 0)
<1>1. /\ Hold(0, 0, 0) \in [Objects -> Nat] /\ Hold(0, 0, 0)["index"] = 0
      /\ Hold(0, 0, 0)["writer"] = 0 /\ Hold(0, 0, 0)["pages"] = 0
  BY HoldOne
<1>2. /\ Hold(0, 1, 0) \in [Objects -> Nat] /\ Hold(0, 1, 0)["index"] = 1
      /\ Hold(0, 1, 0)["writer"] = 0 /\ Hold(0, 1, 0)["pages"] = 0
  BY HoldOne
<1>3. /\ Hold(0, 1, 1) \in [Objects -> Nat] /\ Hold(0, 1, 1)["index"] = 1
      /\ Hold(0, 1, 1)["writer"] = 0 /\ Hold(0, 1, 1)["pages"] = 1
  BY HoldOne
<1>4. /\ Hold(0, 2, 0) \in [Objects -> Nat] /\ Hold(0, 2, 0)["index"] = 2
      /\ Hold(0, 2, 0)["writer"] = 0 /\ Hold(0, 2, 0)["pages"] = 0
  BY HoldOne
<1>5. /\ Hold(0, 2, 1) \in [Objects -> Nat] /\ Hold(0, 2, 1)["index"] = 2
      /\ Hold(0, 2, 1)["writer"] = 0 /\ Hold(0, 2, 1)["pages"] = 1
  BY HoldOne
<1>6. /\ Hold(1, 0, 0) \in [Objects -> Nat] /\ Hold(1, 0, 0)["index"] = 0
      /\ Hold(1, 0, 0)["writer"] = 1 /\ Hold(1, 0, 0)["pages"] = 0
  BY HoldOne
<1>7. /\ Hold(1, 0, 1) \in [Objects -> Nat] /\ Hold(1, 0, 1)["index"] = 0
      /\ Hold(1, 0, 1)["writer"] = 1 /\ Hold(1, 0, 1)["pages"] = 1
  BY HoldOne
<1>8. /\ Hold(1, 1, 0) \in [Objects -> Nat] /\ Hold(1, 1, 0)["index"] = 1
      /\ Hold(1, 1, 0)["writer"] = 1 /\ Hold(1, 1, 0)["pages"] = 0
  BY HoldOne
<1>9. /\ Hold(1, 1, 1) \in [Objects -> Nat] /\ Hold(1, 1, 1)["index"] = 1
      /\ Hold(1, 1, 1)["writer"] = 1 /\ Hold(1, 1, 1)["pages"] = 1
  BY HoldOne
<1>10. /\ Hold(1, 2, 0) \in [Objects -> Nat] /\ Hold(1, 2, 0)["index"] = 2
       /\ Hold(1, 2, 0)["writer"] = 1 /\ Hold(1, 2, 0)["pages"] = 0
  BY HoldOne
<1>11. /\ Hold(1, 2, 1) \in [Objects -> Nat] /\ Hold(1, 2, 1)["index"] = 2
       /\ Hold(1, 2, 1)["writer"] = 1 /\ Hold(1, 2, 1)["pages"] = 1
  BY HoldOne
<1>12. /\ Up(Hold(0, 0, 0), "index") = Hold(0, 1, 0)
       /\ Down(Hold(0, 1, 0), "index") = Hold(0, 0, 0)
  BY HoldOne
<1>13. /\ Up(Hold(0, 0, 0), "writer") = Hold(1, 0, 0)
       /\ Down(Hold(1, 0, 0), "writer") = Hold(0, 0, 0)
  BY HoldOne
<1>14. /\ Up(Hold(0, 1, 0), "index") = Hold(0, 2, 0)
       /\ Down(Hold(0, 2, 0), "index") = Hold(0, 1, 0)
  BY HoldOne
<1>15. /\ Up(Hold(0, 1, 0), "writer") = Hold(1, 1, 0)
       /\ Down(Hold(1, 1, 0), "writer") = Hold(0, 1, 0)
  BY HoldOne
<1>16. /\ Up(Hold(0, 1, 0), "pages") = Hold(0, 1, 1)
       /\ Down(Hold(0, 1, 1), "pages") = Hold(0, 1, 0)
  BY HoldOne
<1>17. /\ Up(Hold(0, 2, 0), "pages") = Hold(0, 2, 1)
       /\ Down(Hold(0, 2, 1), "pages") = Hold(0, 2, 0)
  BY HoldOne
<1>18. /\ Up(Hold(0, 2, 0), "writer") = Hold(1, 2, 0)
       /\ Down(Hold(1, 2, 0), "writer") = Hold(0, 2, 0)
  BY HoldOne
<1>19. /\ Up(Hold(1, 2, 0), "pages") = Hold(1, 2, 1)
       /\ Down(Hold(1, 2, 1), "pages") = Hold(1, 2, 0)
  BY HoldOne
<1>20. /\ Up(Hold(1, 1, 0), "pages") = Hold(1, 1, 1)
       /\ Down(Hold(1, 1, 1), "pages") = Hold(1, 1, 0)
  BY HoldOne
<1>21. /\ Up(Hold(1, 0, 0), "index") = Hold(1, 1, 0)
       /\ Down(Hold(1, 1, 0), "index") = Hold(1, 0, 0)
  BY HoldOne
<1>22. /\ Up(Hold(1, 0, 0), "pages") = Hold(1, 0, 1)
       /\ Down(Hold(1, 0, 1), "pages") = Hold(1, 0, 0)
  BY HoldOne
<1>23. /\ Up(Hold(1, 1, 0), "index") = Hold(1, 2, 0)
      /\ Down(Hold(1, 2, 0), "index") = Hold(1, 1, 0)
  BY HoldOne
<1> QED
  BY <1>1, <1>2, <1>3, <1>4, <1>5, <1>6, <1>7, <1>8, <1>9, <1>10, <1>11, <1>12, <1>13, <1>14, <1>15, <1>16, <1>17, <1>18, <1>19, <1>20, <1>21, <1>22, <1>23

LEMMA LastUnlock ==
  ASSUME NEW o \in Objects, NEW may, NEW hold \in [Objects -> Nat], NEW kind \in Kinds,
         NEW soft, may \subseteq {"handle"}, hold[o] > 0, soft = SoftOf(kind)
  PROVE  /\ Safe(<<Unlock(o)>>, may, hold, soft, kind)
         /\ ~OpensOrCloses(<<Unlock(o)>>)
<1>1. Down(hold, o) \in [Objects -> Nat]
  BY DEF Down
<1>2. Safe(<<>>, may, Down(hold, o), soft, kind)
  BY <1>1, SafeEnd
<1> DEFINE e == <<>>
<1> HIDE DEF e
<1>3. /\ Safe(<<Unlock(o)>> \o e, may, hold, soft, kind)
      /\ OpensOrCloses(<<Unlock(o)>> \o e) <=> OpensOrCloses(e)
  BY <1>2, SafeUnlock DEF e
<1>4. <<Unlock(o)>> \o e = <<Unlock(o)>>
  BY ConsAlone DEF e
<1> QED
  BY <1>3, <1>4, NoStep DEF e

\* CookfsValidatePathAndLockFsindex: the index is locked before global.mx is let go.
LEMMA SafeEnter ==
  ASSUME NEW do \in {"read", "write"}, NEW t, NEW may, NEW m, NEW kind \in Kinds, NEW soft,
         may \subseteq {"path", "handle"}, "path" \in may, m = may \ {"path"},
         soft = SoftOf(kind), Safe(t, m, Hold(0, 1, 0), soft, kind)
  PROVE  /\ Safe(Enter(do) \o t, may, Hold(0, 0, 0), soft, kind)
         /\ OpensOrCloses(Enter(do) \o t) <=> OpensOrCloses(t)
<1> DEFINE let == Do("vfsUnlock", "index")
           h == Hold(0, 0, 0)
           h1 == Hold(0, 1, 0)
           e == <<>>
           or == <<let>>
           lock == Lock(do, "index", or)
           r == <<let>> \o t
<1>1. h \in [Objects -> Nat] /\ Up(h, "index") = h1
  BY Holds
<1>2. IsCall(t)
  BY SafeIsLegal DEF Legal
<1>3. Safe(e, m, h, soft, kind)
  BY <1>1, SafeEnd
<1>4. Safe(t, m, h1, soft, kind)
  OBVIOUS
<1>5. or = <<let>> \o e
  BY ConsAlone
<1>6. Enter(do) \o t = <<lock>> \o (<<let>> \o t)
  BY <1>2, Cat2 DEF Enter
<1> HIDE DEF h, h1, e, or
<1>7. Safe(or, may, h, soft, kind) /\ (OpensOrCloses(or) <=> OpensOrCloses(e))
  BY <1>3, <1>5, SafeVfsUnlock
<1>8. Safe(r, may, h1, soft, kind) /\ (OpensOrCloses(r) <=> OpensOrCloses(t))
  BY <1>4, SafeVfsUnlock
<1>9. ~OpensOrCloses(or)
  BY <1>7, NoStep DEF e
<1> HIDE DEF r
<1>10. may # {} /\ "index" \in Objects
  BY DEF Objects
<1>11. /\ Safe(<<lock>> \o r, may, h, soft, kind)
       /\ OpensOrCloses(<<lock>> \o r) <=> OpensOrCloses(r)
  BY <1>1, <1>7, <1>8, <1>9, <1>10, SafeLock
<1> QED
  BY <1>6, <1>8, <1>11 DEF r, h

\* Reading from an open reader channel
LEMMA ReadChannelIsSafe ==
  ASSUME NEW may, may \subseteq {"handle"}
  PROVE  /\ Safe(ReadChannel, may, Hold(0, 0, 0), SoftOf("reader"), "reader")
         /\ ~OpensOrCloses(ReadChannel)
<1> DEFINE soft == SoftOf("reader")
           none == Hold(0, 0, 0)
           i == Hold(0, 1, 0)
           ip == Hold(0, 1, 1)
           e == <<>>
           s1 == <<Unlock("index")>>
           s2 == <<Unlock("pages")>> \o s1
           s3 == <<Lock("read", "pages", s1)>> \o s2
           s4 == <<Lock("read", "index", e)>> \o s3
<1>1. /\ "writer" \in Objects /\ "index" \in Objects /\ "pages" \in Objects
      /\ "index" \in soft /\ soft = SoftOf("reader") /\ "reader" \in Kinds
  BY DEF Objects, Kinds, SoftOf
<1>2. /\ none \in [Objects -> Nat] /\ i \in [Objects -> Nat]
      /\ ip \in [Objects -> Nat] /\ i["index"] > 0 /\ ip["index"] > 0
      /\ ip["pages"] > 0 /\ Up(none, "index") = i /\ Down(i, "index") = none
      /\ Up(i, "pages") = ip /\ Down(ip, "pages") = i
  BY Holds
<1> HIDE DEF soft, none, i, ip, e, s1, s2, s3, s4
<1>3. Safe(e, may, none, soft, "reader") /\ ~OpensOrCloses(e)
  BY <1>1, <1>2, SafeEnd, NoStep DEF e
<1>4. Safe(s1, may, i, soft, "reader") /\ ~OpensOrCloses(s1)
  BY <1>1, <1>2, LastUnlock DEF s1
<1>5. Safe(s2, may, ip, soft, "reader") /\ ~OpensOrCloses(s2)
  BY <1>1, <1>2, <1>4, SafeUnlock DEF s2
<1>6. Safe(s3, may, i, soft, "reader") /\ ~OpensOrCloses(s3)
  <2>1. /\ Up(i, "pages") = ip /\ "pages" \in Objects /\ i["index"] > 0
    BY <1>1, <1>2
  <2> QED
    BY <2>1, <1>5, <1>4, SafeRead DEF s3
<1>7. Safe(s4, may, none, soft, "reader") /\ ~OpensOrCloses(s4)
  <2>1. /\ Up(none, "index") = i /\ "index" \in Objects /\ "index" \in soft
    BY <1>1, <1>2
  <2> QED
    BY <2>1, <1>6, <1>3, SafeRead DEF s4
<1>8. IsCall(s1)
  BY <1>4, SafeIsLegal DEF Legal
<1>9. ReadChannel = <<Lock("read", "index", e), Lock("read", "pages", s1), Unlock("pages")>> \o s1
  BY DEF s1, e, ReadChannel
<1>10. ReadChannel = s4
  BY <1>8, <1>9, Cat3 DEF s4, s3, s2
<1> QED
  BY <1>7, <1>10 DEF soft, none

\* The calls that need the index only
LEMMA StatIsSafe ==
  ASSUME NEW may, NEW kind \in Kinds, may \subseteq {"path", "handle"}, "path" \in may
  PROVE  /\ Safe(Stat, may, Hold(0, 0, 0), SoftOf(kind), kind) /\ ~OpensOrCloses(Stat)
         /\ Safe(Update, may, Hold(0, 0, 0), SoftOf(kind), kind) /\ ~OpensOrCloses(Update)
<1> DEFINE soft == SoftOf(kind)
           m == may \ {"path"}
           none == Hold(0, 0, 0)
           i == Hold(0, 1, 0)
           s1 == <<Unlock("index")>>
<1>1. /\ "writer" \in Objects /\ "index" \in Objects /\ "pages" \in Objects
      /\ soft = SoftOf(kind) /\ m = may \ {"path"} /\ m \subseteq {"handle"}
  BY DEF Objects, Kinds, SoftOf
<1>2. /\ none \in [Objects -> Nat] /\ i \in [Objects -> Nat] /\ i["index"] > 0
      /\ Down(i, "index") = none
  BY Holds
<1> HIDE DEF soft, m, none, i, s1
<1>3. Safe(s1, m, i, soft, kind) /\ ~OpensOrCloses(s1)
  BY <1>1, <1>2, LastUnlock DEF s1
<1>4. /\ Safe(Enter("read") \o s1, may, none, soft, kind) /\ ~OpensOrCloses(Enter("read") \o s1)
      /\ Safe(Enter("write") \o s1, may, none, soft, kind) /\ ~OpensOrCloses(Enter("write") \o s1)
  BY <1>1, <1>3, SafeEnter DEF none, i
<1>5. Stat = Enter("read") \o s1 /\ Update = Enter("write") \o s1
  BY DEF Stat, Update, s1
<1> QED
  BY <1>4, <1>5 DEF soft, none

\* Getting an attribute of the writer
LEMMA FileAttrsGetIsSafe ==
  ASSUME NEW may, NEW kind \in Kinds, may \subseteq {"path", "handle"}, "path" \in may
  PROVE  /\ Safe(FileAttrsGet, may, Hold(0, 0, 0), SoftOf(kind), kind) /\ ~OpensOrCloses(FileAttrsGet)
<1> DEFINE soft == SoftOf(kind)
           m == may \ {"path"}
           none == Hold(0, 0, 0)
           i == Hold(0, 1, 0)
           wi == Hold(1, 1, 0)
           s1 == <<Unlock("index")>>
           s2 == <<Unlock("writer")>> \o s1
           s3 == <<Lock("read", "writer", s1)>> \o s2
<1>1. /\ "writer" \in Objects /\ "index" \in Objects /\ "pages" \in Objects
      /\ soft = SoftOf(kind) /\ m = may \ {"path"} /\ m \subseteq {"handle"}
  BY DEF Objects, Kinds, SoftOf
<1>2. /\ none \in [Objects -> Nat] /\ i \in [Objects -> Nat]
      /\ wi \in [Objects -> Nat] /\ i["index"] > 0 /\ wi["index"] > 0
      /\ wi["writer"] > 0 /\ Down(i, "index") = none /\ Up(i, "writer") = wi
      /\ Down(wi, "writer") = i
  BY Holds
<1> HIDE DEF soft, m, none, i, wi, s1, s2, s3
<1>3. Safe(s1, m, i, soft, kind) /\ ~OpensOrCloses(s1)
  BY <1>1, <1>2, LastUnlock DEF s1
<1>4. Safe(s2, m, wi, soft, kind) /\ ~OpensOrCloses(s2)
  BY <1>1, <1>2, <1>3, SafeUnlock DEF s2
<1>5. Safe(s3, m, i, soft, kind) /\ ~OpensOrCloses(s3)
  <2>1. /\ Up(i, "writer") = wi /\ "writer" \in Objects /\ i["index"] > 0
    BY <1>1, <1>2
  <2> QED
    BY <2>1, <1>4, <1>3, SafeRead DEF s3
<1>6. /\ Safe(Enter("read") \o s3, may, none, soft, kind)
      /\ ~OpensOrCloses(Enter("read") \o s3)
  BY <1>1, <1>5, SafeEnter DEF none, i
<1>7. IsCall(s1)
  BY <1>3, SafeIsLegal DEF Legal
<1>8. <<Lock("read", "writer", s1), Unlock("writer"), Unlock("index")>>
         = <<Lock("read", "writer", s1), Unlock("writer")>> \o s1
  BY DEF s1
<1>9. <<Lock("read", "writer", s1), Unlock("writer"), Unlock("index")>> = s3
  BY <1>7, <1>8, Cat2 DEF s3, s2
<1>10. FileAttrsGet = Enter("read") \o s3
  BY <1>9 DEF FileAttrsGet, s1
<1> QED
  BY <1>6, <1>10 DEF soft, none

\* Setting an attribute of the writer
LEMMA FileAttrsSetIsSafe ==
  ASSUME NEW may, NEW kind \in Kinds, may \subseteq {"path", "handle"}, "path" \in may
  PROVE  /\ Safe(FileAttrsSet, may, Hold(0, 0, 0), SoftOf(kind), kind) /\ ~OpensOrCloses(FileAttrsSet)
<1> DEFINE soft == SoftOf(kind)
           m == may \ {"path"}
           none == Hold(0, 0, 0)
           i == Hold(0, 1, 0)
           wi == Hold(1, 1, 0)
           wip == Hold(1, 1, 1)
           s1 == <<Unlock("index")>>
           rest == <<Unlock("writer")>> \o s1
           s3 == <<Unlock("pages")>> \o rest
           s4 == <<Lock("write", "pages", rest)>> \o s3
           s5 == <<Lock("write", "writer", s1)>> \o s4
<1>1. /\ "writer" \in Objects /\ "index" \in Objects /\ "pages" \in Objects
      /\ soft = SoftOf(kind) /\ m = may \ {"path"} /\ m \subseteq {"handle"}
  BY DEF Objects, Kinds, SoftOf
<1>2. /\ none \in [Objects -> Nat] /\ i \in [Objects -> Nat]
      /\ wi \in [Objects -> Nat] /\ wip \in [Objects -> Nat] /\ i["index"] > 0
      /\ wi["index"] > 0 /\ wi["writer"] > 0 /\ wip["index"] > 0
      /\ wip["writer"] > 0 /\ wip["pages"] > 0 /\ Down(i, "index") = none
      /\ Up(i, "writer") = wi /\ Down(wi, "writer") = i /\ Up(wi, "pages") = wip
      /\ Down(wip, "pages") = wi
  BY Holds
<1> HIDE DEF soft, m, none, i, wi, wip, s1, rest, s3, s4, s5
<1>3. Safe(s1, m, i, soft, kind) /\ ~OpensOrCloses(s1)
  BY <1>1, <1>2, LastUnlock DEF s1
<1>4. Safe(rest, m, wi, soft, kind) /\ ~OpensOrCloses(rest)
  BY <1>1, <1>2, <1>3, SafeUnlock DEF rest
<1>5. Safe(s3, m, wip, soft, kind) /\ ~OpensOrCloses(s3)
  BY <1>1, <1>2, <1>4, SafeUnlock DEF s3
<1>6. Safe(s4, m, wi, soft, kind) /\ ~OpensOrCloses(s4)
  <2>1. /\ Up(wi, "pages") = wip /\ "pages" \in Objects /\ wi["index"] > 0
    BY <1>1, <1>2
  <2> QED
    BY <2>1, <1>5, <1>4, SafeWrite DEF s4
<1>7. Safe(s5, m, i, soft, kind) /\ ~OpensOrCloses(s5)
  <2>1. /\ Up(i, "writer") = wi /\ "writer" \in Objects /\ i["index"] > 0
    BY <1>1, <1>2
  <2> QED
    BY <2>1, <1>6, <1>3, SafeWrite DEF s5
<1>8. /\ Safe(Enter("write") \o s5, may, none, soft, kind)
      /\ ~OpensOrCloses(Enter("write") \o s5)
  BY <1>1, <1>7, SafeEnter DEF none, i
<1>9. IsCall(rest)
  BY <1>4, SafeIsLegal DEF Legal
<1>10. rest = <<Unlock("writer"), Unlock("index")>>
  BY Two DEF rest, s1
<1> DEFINE p == <<Lock("write", "writer", s1), Lock("write", "pages", rest), Unlock("pages")>>
<1>11. p \o rest = s5
  BY <1>9, Cat3 DEF s5, s4, s3
<1>12. IsCall(p) /\ IsCall(Enter("write"))
  BY Literals DEF Enter
<1>13. FileAttrsSet = (Enter("write") \o p) \o rest
  BY <1>10 DEF FileAttrsSet, s1
<1> HIDE DEF p
<1>14. (Enter("write") \o p) \o rest = Enter("write") \o (p \o rest)
  BY <1>9, <1>12, CatAssoc
<1>15. FileAttrsSet = Enter("write") \o s5
  BY <1>11, <1>13, <1>14
<1> QED
  BY <1>8, <1>15 DEF soft, none

\* The handle's -aside command
LEMMA AsideIsSafe ==
  ASSUME NEW kind \in Kinds
  PROVE  /\ Safe(Aside, {"handle"}, Hold(0, 0, 0), SoftOf(kind), kind) /\ ~OpensOrCloses(Aside)
<1> DEFINE soft == SoftOf(kind)
           m == {"handle"}
           none == Hold(0, 0, 0)
           w == Hold(1, 0, 0)
           wi == Hold(1, 1, 0)
           wip == Hold(1, 1, 1)
           e == <<>>
           s1 == <<Unlock("writer")>>
           rest == <<Unlock("index")>> \o s1
           s3 == <<Unlock("pages")>> \o rest
           s4 == <<Lock("write", "pages", e)>> \o s3
           s5 == <<Lock("write", "index", s1)>> \o s4
           s6 == <<Lock("write", "writer", e)>> \o s5
<1>1. /\ "writer" \in Objects /\ "index" \in Objects /\ "pages" \in Objects
      /\ soft = SoftOf(kind) /\ m \subseteq {"handle"} /\ m # {}
  BY DEF Objects, Kinds, SoftOf
<1>2. /\ none \in [Objects -> Nat] /\ w \in [Objects -> Nat]
      /\ wi \in [Objects -> Nat] /\ wip \in [Objects -> Nat] /\ w["writer"] > 0
      /\ wi["index"] > 0 /\ wi["writer"] > 0 /\ wip["index"] > 0
      /\ wip["writer"] > 0 /\ wip["pages"] > 0 /\ Up(none, "writer") = w
      /\ Down(w, "writer") = none /\ Up(w, "index") = wi /\ Down(wi, "index") = w
      /\ Up(wi, "pages") = wip /\ Down(wip, "pages") = wi
  BY Holds
<1> HIDE DEF soft, m, none, w, wi, wip, e, s1, rest, s3, s4, s5, s6
<1>3. Safe(e, m, none, soft, kind) /\ ~OpensOrCloses(e)
  BY <1>1, <1>2, SafeEnd, NoStep DEF e
<1>4. Safe(e, m, wi, soft, kind) /\ ~OpensOrCloses(e)
  BY <1>1, <1>2, SafeEnd, NoStep DEF e
<1>5. Safe(s1, m, w, soft, kind) /\ ~OpensOrCloses(s1)
  BY <1>1, <1>2, LastUnlock DEF s1
<1>6. Safe(rest, m, wi, soft, kind) /\ ~OpensOrCloses(rest)
  BY <1>1, <1>2, <1>5, SafeUnlock DEF rest
<1>7. Safe(s3, m, wip, soft, kind) /\ ~OpensOrCloses(s3)
  BY <1>1, <1>2, <1>6, SafeUnlock DEF s3
<1>8. Safe(s4, m, wi, soft, kind) /\ ~OpensOrCloses(s4)
  <2>1. /\ Up(wi, "pages") = wip /\ "pages" \in Objects /\ wi["index"] > 0
    BY <1>1, <1>2
  <2> QED
    BY <2>1, <1>7, <1>4, SafeWrite DEF s4
<1>9. Safe(s5, m, w, soft, kind) /\ ~OpensOrCloses(s5)
  <2>1. /\ Up(w, "index") = wi /\ "index" \in Objects /\ m # {}
    BY <1>1, <1>2
  <2> QED
    BY <2>1, <1>8, <1>5, SafeWrite DEF s5
<1>10. Safe(s6, m, none, soft, kind) /\ ~OpensOrCloses(s6)
  <2>1. /\ Up(none, "writer") = w /\ "writer" \in Objects /\ m # {}
    BY <1>1, <1>2
  <2> QED
    BY <2>1, <1>9, <1>3, SafeWrite DEF s6
<1>11. IsCall(rest)
  BY <1>6, SafeIsLegal DEF Legal
<1>12. rest = <<Unlock("index"), Unlock("writer")>>
  BY Two DEF rest, s1
<1>13. Aside = <<Lock("write", "writer", e), Lock("write", "index", s1), Lock("write", "pages", e),
               Unlock("pages")>> \o rest
  BY <1>12 DEF Aside, s1, e
<1>14. Aside = s6
  BY <1>11, <1>13, Cat4 DEF s6, s5, s4, s3
<1> QED
  BY <1>10, <1>14 DEF soft, none, m

\* Soft locks of a channel are taken and given back.
LEMMA FreeIsSafe ==
  ASSUME NEW t, NEW may, NEW hold, NEW kind, Safe(t, may, hold, {}, kind)
  PROVE  /\ Safe(ReaderFree \o t, may, hold, SoftOf("reader"), kind)
         /\ Safe(WriterFree \o t, may, hold, SoftOf("writer"), kind)
         /\ OpensOrCloses(ReaderFree \o t) /\ OpensOrCloses(WriterFree \o t)
         /\ IsCall(ReaderFree \o t) /\ IsCall(WriterFree \o t)
<1> DEFINE ui == Do("unlockSoft", "index")
           up == Do("unlockSoft", "pages")
           uw == Do("unlockSoft", "writer")
           r1 == <<up>> \o t
           r2 == <<ui>> \o r1
           w0 == <<uw>> \o t
           w1 == <<up>> \o w0
           w2 == <<ui>> \o w1
           none == {}
           p == {"pages"}
           w == {"writer"}
           pw == {"pages", "writer"}
           reader == SoftOf("reader")
           writer == SoftOf("writer")
<1>1. /\ p \subseteq Objects /\ w \subseteq Objects /\ pw \subseteq Objects
      /\ reader \subseteq Objects /\ writer \subseteq Objects
      /\ "pages" \in p /\ "writer" \in w /\ "pages" \in pw
      /\ "index" \in reader /\ "index" \in writer
      /\ p \ {"pages"} = none /\ w \ {"writer"} = none /\ pw \ {"pages"} = w
      /\ reader \ {"index"} = p /\ writer \ {"index"} = pw
      /\ "index" \in Objects /\ "pages" \in Objects /\ "writer" \in Objects
  BY DEF Objects, SoftOf
<1>2. Safe(t, may, hold, none, kind)
  OBVIOUS
<1> HIDE DEF r1, r2, w0, w1, w2, none, p, w, pw, reader, writer
<1>3. Safe(r1, may, hold, p, kind)
  BY <1>1, <1>2, SafeUnlockSoft DEF r1
<1>4. Safe(r2, may, hold, reader, kind) /\ OpensOrCloses(r2)
  BY <1>1, <1>3, SafeUnlockSoft DEF r2
<1>5. Safe(w0, may, hold, w, kind)
  BY <1>1, <1>2, SafeUnlockSoft DEF w0
<1>6. Safe(w1, may, hold, pw, kind)
  BY <1>1, <1>5, SafeUnlockSoft DEF w1
<1>7. Safe(w2, may, hold, writer, kind) /\ OpensOrCloses(w2)
  BY <1>1, <1>6, SafeUnlockSoft DEF w2
<1>8. IsCall(t) /\ IsCall(w0) /\ IsCall(r2) /\ IsCall(w2)
  BY <1>2, <1>5, <1>4, <1>7, SafeIsLegal DEF Legal
<1>9. ReaderFree \o t = r2 /\ ReaderFree \o w0 = w2
  BY <1>8, Cat2, SMTT(30) DEF ReaderFree, r1, r2, w1, w2
<1>10. WriterFree \o t = ReaderFree \o w0
  <2>1. IsCall(ReaderFree) /\ IsCall(<<uw>>)
    BY Literals DEF ReaderFree
  <2> DEFINE q == <<uw>>
  <2> HIDE DEF q
  <2>2. (ReaderFree \o q) \o t = ReaderFree \o (q \o t)
    BY <1>8, <2>1, CatAssoc DEF q
  <2> QED
    BY <2>2 DEF WriterFree, w0, q
<1> QED
  BY <1>4, <1>7, <1>8, <1>9, <1>10 DEF reader, writer

LEMMA AllocIsSafe ==
  ASSUME NEW t, NEW may, NEW hold, NEW kind, hold["index"] > 0, OpensOrCloses(t), IsCall(t)
  PROVE  /\ Safe(t, may, hold, SoftOf("reader"), kind)
              => Safe(ReaderAlloc \o t, may, hold, {}, kind)
         /\ Safe(t, may, hold, SoftOf("writer"), kind)
              => Safe(WriterAlloc \o t, may, hold, {}, kind)
         /\ IsCall(ReaderAlloc \o t) /\ IsCall(WriterAlloc \o t)
<1> DEFINE li == Do("lockSoft", "index")
           lp == Do("lockSoft", "pages")
           lw == Do("lockSoft", "writer")
           r1 == <<li>> \o t
           r2 == <<lp>> \o r1
           w0 == <<lw>> \o t
           w1 == <<li>> \o w0
           w2 == <<lp>> \o w1
           none == {}
           p == {"pages"}
           reader == SoftOf("reader")
           writer == SoftOf("writer")
<1>1. /\ "pages" \notin none /\ "index" \notin p /\ "writer" \notin reader
      /\ none \cup {"pages"} = p /\ p \cup {"index"} = reader /\ reader \cup {"writer"} = writer
      /\ "index" \in Objects /\ "pages" \in Objects /\ "writer" \in Objects
  BY DEF Objects, SoftOf
<1> HIDE DEF r1, r2, w0, w1, w2, none, p, reader, writer
<1>2. ASSUME Safe(t, may, hold, reader, kind)
      PROVE  Safe(r2, may, hold, none, kind)
  <2>1. Safe(r1, may, hold, p, kind) /\ OpensOrCloses(r1)
    BY <1>1, <1>2, SafeLockSoft DEF r1
  <2> QED
    BY <1>1, <2>1, SafeLockSoft DEF r2
<1>3. ASSUME Safe(t, may, hold, writer, kind)
      PROVE  Safe(w2, may, hold, none, kind)
  <2>1. Safe(w0, may, hold, reader, kind) /\ OpensOrCloses(w0)
    BY <1>1, <1>3, SafeLockSoft DEF w0
  <2>2. Safe(w1, may, hold, p, kind) /\ OpensOrCloses(w1)
    BY <1>1, <2>1, SafeLockSoft DEF w1
  <2> QED
    BY <1>1, <2>2, SafeLockSoft DEF w2
<1>4. IsCall(w0) /\ IsCall(ReaderAlloc) /\ IsCall(<<lw>>)
  BY Cons, Literals DEF w0, ReaderAlloc
<1>5. ReaderAlloc \o t = r2
  BY Cat2 DEF ReaderAlloc, r1, r2
<1>8. ReaderAlloc \o w0 = w2
  BY <1>4, Cat2 DEF ReaderAlloc, w1, w2
<1>6. WriterAlloc \o t = ReaderAlloc \o w0
  <2> DEFINE q == <<lw>>
  <2> HIDE DEF q
  <2>1. (ReaderAlloc \o q) \o t = ReaderAlloc \o (q \o t)
    BY <1>4, CatAssoc DEF q
  <2> QED
    BY <2>1 DEF WriterAlloc, w0, q
<1>7. IsCall(ReaderAlloc \o t) /\ IsCall(ReaderAlloc \o w0)
  BY <1>4, CatIsCall
<1> QED
  BY <1>2, <1>3, <1>5, <1>6, <1>7, <1>8 DEF none, reader, writer

\* Opening with a writer channel
LEMMA OpenWriterIsSafe ==
  ASSUME NEW may, may \subseteq {"path", "handle"}, "path" \in may
  PROVE  Safe(OpenWriter, may, Hold(0, 0, 0), SoftOf("none"), "none")
<1> DEFINE soft == {}
           writer == SoftOf("writer")
           m == may \ {"path"}
           none == Hold(0, 0, 0)
           i == Hold(0, 1, 0)
           a1 == <<Unlock("index")>>
           a2 == <<Do("opened", "writer")>> \o a1
<1>1. /\ "writer" \in Objects /\ "index" \in Objects /\ "pages" \in Objects
      /\ m = may \ {"path"} /\ soft = SoftOf("none") /\ soft = {}
      /\ writer = SoftOf("writer") /\ "none" \in Kinds
      /\ "writer" \in Kinds \ {"none"} /\ m \subseteq {"handle"}
  BY DEF Objects, Kinds, SoftOf
<1>2. /\ none \in [Objects -> Nat] /\ i \in [Objects -> Nat] /\ i["index"] > 0
      /\ Down(i, "index") = none
  BY Holds
<1> HIDE DEF soft, writer, m, none, i, a1, a2
<1>3. Safe(a1, m, i, writer, "writer") /\ ~OpensOrCloses(a1)
  BY <1>1, <1>2, LastUnlock DEF a1
<1>4. Safe(a2, m, i, writer, "none") /\ OpensOrCloses(a2)
  BY <1>1, <1>2, <1>3, SafeOpened DEF a2
<1>5. IsCall(a2)
  BY <1>4, SafeIsLegal DEF Legal
<1> DEFINE al == WriterAlloc \o a2
<1>6. Safe(al, m, i, soft, "none") /\ IsCall(al)
  BY <1>1, <1>2, <1>5, <1>4, AllocIsSafe
<1> HIDE DEF al
<1>7. Safe(Enter("read") \o al, may, none, soft, "none")
  BY <1>1, <1>6, SafeEnter DEF none, i
<1>8. <<Do("opened", "writer"), Unlock("index")>> = a2
  BY Two DEF a2, a1
<1>9. IsCall(Enter("read")) /\ IsCall(WriterAlloc)
  BY Literals, CatIsCall DEF Enter, WriterAlloc, ReaderAlloc
<1>10. (Enter("read") \o WriterAlloc) \o a2 = Enter("read") \o (WriterAlloc \o a2)
  BY <1>5, <1>9, CatAssoc
<1>11. OpenWriter = Enter("read") \o al
  BY <1>8, <1>10 DEF OpenWriter, al
<1> QED
  BY <1>1, <1>7, <1>11 DEF none

\* Opening with a reader channel
LEMMA OpenReaderIsSafe ==
  ASSUME NEW may, may \subseteq {"path", "handle"}, "path" \in may
  PROVE  Safe(OpenReader, may, Hold(0, 0, 0), SoftOf("none"), "none")
<1> DEFINE soft == {}
           reader == SoftOf("reader")
           m == may \ {"path"}
           none == Hold(0, 0, 0)
           i == Hold(0, 1, 0)
           ii == Hold(0, 2, 0)
           iip == Hold(0, 2, 1)
           u == <<Unlock("index")>>
           fail == ReaderFree \o u
           g == <<Unlock("index")>> \o fail
           a1 == <<Unlock("index")>>
           a2 == <<Do("opened", "reader")>> \o a1
           a3 == <<Unlock("index")>> \o a2
           a4 == <<Unlock("pages")>> \o a3
           a5 == <<Lock("read", "pages", g)>> \o a4
           a6 == <<Lock("read", "index", fail)>> \o a5
<1>1. /\ "writer" \in Objects /\ "index" \in Objects /\ "pages" \in Objects
      /\ m = may \ {"path"} /\ soft = SoftOf("none") /\ soft = {}
      /\ reader = SoftOf("reader") /\ "none" \in Kinds
      /\ "reader" \in Kinds \ {"none"} /\ m \subseteq {"handle"}
      /\ "index" \in reader /\ "pages" \in reader
  BY DEF Objects, Kinds, SoftOf
<1>2. /\ none \in [Objects -> Nat] /\ i \in [Objects -> Nat]
      /\ ii \in [Objects -> Nat] /\ iip \in [Objects -> Nat] /\ i["index"] > 0
      /\ ii["index"] > 0 /\ iip["index"] > 0 /\ iip["pages"] > 0
      /\ Down(i, "index") = none /\ Up(i, "index") = ii /\ Down(ii, "index") = i
      /\ Up(ii, "pages") = iip /\ Down(iip, "pages") = ii
  BY Holds
<1> HIDE DEF soft, reader, m, fail, none, i, ii, iip, u, g, a1, a2, a3, a4, a5, a6
<1>3. Safe(u, m, i, soft, "none") /\ ~OpensOrCloses(u)
  BY <1>1, <1>2, LastUnlock DEF u
<1>4. Safe(fail, m, i, reader, "none") /\ OpensOrCloses(fail)
  BY <1>1, <1>3, FreeIsSafe DEF fail, soft, reader
<1>5. Safe(g, m, ii, reader, "none") /\ OpensOrCloses(g)
  BY <1>1, <1>2, <1>4, SafeUnlock DEF g
<1>6. Safe(a1, m, i, reader, "reader") /\ ~OpensOrCloses(a1)
  BY <1>1, <1>2, LastUnlock DEF a1
<1>7. Safe(a2, m, i, reader, "none") /\ OpensOrCloses(a2)
  BY <1>1, <1>2, <1>6, SafeOpened DEF a2
<1>8. Safe(a3, m, ii, reader, "none") /\ OpensOrCloses(a3)
  BY <1>1, <1>2, <1>7, SafeUnlock DEF a3
<1>9. Safe(a4, m, iip, reader, "none") /\ OpensOrCloses(a4)
  BY <1>1, <1>2, <1>8, SafeUnlock DEF a4
<1>10. Safe(a5, m, ii, reader, "none") /\ OpensOrCloses(a5)
  <2>1. /\ Up(ii, "pages") = iip /\ "pages" \in Objects /\ ii["index"] > 0
    BY <1>1, <1>2
  <2> QED
    BY <2>1, <1>9, <1>5, SafeRead DEF a5
<1>11. Safe(a6, m, i, reader, "none") /\ OpensOrCloses(a6)
  <2>1. /\ Up(i, "index") = ii /\ "index" \in Objects /\ i["index"] > 0
    BY <1>1, <1>2
  <2> QED
    BY <2>1, <1>10, <1>4, SafeRead DEF a6
<1>12. IsCall(a6)
  BY <1>11, SafeIsLegal DEF Legal
<1> DEFINE al == ReaderAlloc \o a6
<1>13. Safe(al, m, i, soft, "none") /\ IsCall(al)
  BY <1>1, <1>2, <1>12, <1>11, AllocIsSafe
<1> HIDE DEF al
<1>14. Safe(Enter("read") \o al, may, none, soft, "none")
  BY <1>1, <1>13, SafeEnter DEF none, i
<1>15. IsCall(a1)
  BY <1>6, SafeIsLegal DEF Legal
<1> DEFINE body == <<Lock("read", "index", fail), Lock("read", "pages", g), Unlock("pages"),
                     Unlock("index"), Do("opened", "reader")>>
<1>16. body \o a1 = a6
  BY <1>15, Cat5 DEF a6, a5, a4, a3, a2
<1>17. OpenReader
         = Enter("read") \o ReaderAlloc
             \o <<Lock("read", "index", fail), Lock("read", "pages", g), Unlock("pages"),
                  Unlock("index"), Do("opened", "reader"), Unlock("index")>>
  BY DEF OpenReader, g, fail, u
<1>18. <<Lock("read", "index", fail), Lock("read", "pages", g), Unlock("pages"),
           Unlock("index"), Do("opened", "reader"), Unlock("index")>> = body \o a1
  BY DEF a1
<1> HIDE DEF body
<1>19. IsCall(Enter("read")) /\ IsCall(ReaderAlloc)
  BY Literals DEF Enter, ReaderAlloc
<1>20. (Enter("read") \o ReaderAlloc) \o a6 = Enter("read") \o (ReaderAlloc \o a6)
  BY <1>12, <1>19, CatAssoc
<1>21. OpenReader = Enter("read") \o al
  BY <1>16, <1>17, <1>18, <1>20 DEF al
<1> QED
  BY <1>1, <1>14, <1>21 DEF none

\* Opening with a writer channel that first reads the file
LEMMA OpenExistingIsSafe ==
  ASSUME NEW may, may \subseteq {"path", "handle"}, "path" \in may
  PROVE  Safe(OpenExisting, may, Hold(0, 0, 0), SoftOf("none"), "none")
<1> DEFINE soft == {}
           writer == SoftOf("writer")
           m == may \ {"path"}
           none == Hold(0, 0, 0)
           i == Hold(0, 1, 0)
           ii == Hold(0, 2, 0)
           wi == Hold(1, 1, 0)
           wii == Hold(1, 2, 0)
           wiip == Hold(1, 2, 1)
           u == <<Unlock("index")>>
           fail == WriterFree \o u
           g1 == <<Unlock("index")>> \o fail
           g2 == <<Unlock("writer")>> \o fail
           g3 == <<Unlock("index")>> \o g2
           a1 == <<Unlock("index")>>
           a2 == <<Do("opened", "writer")>> \o a1
           a3 == <<Unlock("writer")>> \o a2
           a4 == <<Unlock("index")>> \o a3
           a5 == <<Unlock("pages")>> \o a4
           a6 == <<Lock("read", "pages", g3)>> \o a5
           a7 == <<Lock("read", "writer", g1)>> \o a6
           a8 == <<Lock("read", "index", fail)>> \o a7
<1>1. /\ "writer" \in Objects /\ "index" \in Objects /\ "pages" \in Objects
      /\ m = may \ {"path"} /\ soft = SoftOf("none") /\ soft = {}
      /\ writer = SoftOf("writer") /\ "none" \in Kinds
      /\ "writer" \in Kinds \ {"none"} /\ m \subseteq {"handle"}
      /\ "index" \in writer /\ "pages" \in writer /\ "writer" \in writer
  BY DEF Objects, Kinds, SoftOf
<1>2. /\ none \in [Objects -> Nat] /\ i \in [Objects -> Nat]
      /\ ii \in [Objects -> Nat] /\ wi \in [Objects -> Nat]
      /\ wii \in [Objects -> Nat] /\ wiip \in [Objects -> Nat] /\ i["index"] > 0
      /\ ii["index"] > 0 /\ wi["index"] > 0 /\ wi["writer"] > 0 /\ wii["index"] > 0
      /\ wii["writer"] > 0 /\ wiip["index"] > 0 /\ wiip["writer"] > 0
      /\ wiip["pages"] > 0 /\ Down(i, "index") = none /\ Up(i, "index") = ii
      /\ Down(ii, "index") = i /\ Down(wi, "writer") = i /\ Down(wii, "index") = wi
      /\ Up(wii, "pages") = wiip /\ Down(wiip, "pages") = wii
      /\ Up(ii, "writer") = wii
  BY Holds
<1> HIDE DEF soft, writer, m, fail, none, i, ii, wi, wii, wiip, u, g1, g2, g3, a1, a2, a3,
            a4, a5, a6, a7, a8
<1>3. Safe(u, m, i, soft, "none") /\ ~OpensOrCloses(u)
  BY <1>1, <1>2, LastUnlock DEF u
<1>4. Safe(fail, m, i, writer, "none") /\ OpensOrCloses(fail)
  BY <1>1, <1>3, FreeIsSafe DEF fail, soft, writer
<1>5. Safe(g1, m, ii, writer, "none") /\ OpensOrCloses(g1)
  BY <1>1, <1>2, <1>4, SafeUnlock DEF g1
<1>6. Safe(g2, m, wi, writer, "none") /\ OpensOrCloses(g2)
  BY <1>1, <1>2, <1>4, SafeUnlock DEF g2
<1>7. Safe(g3, m, wii, writer, "none") /\ OpensOrCloses(g3)
  BY <1>1, <1>2, <1>6, SafeUnlock DEF g3
<1>8. Safe(a1, m, i, writer, "writer") /\ ~OpensOrCloses(a1)
  BY <1>1, <1>2, LastUnlock DEF a1
<1>9. Safe(a2, m, i, writer, "none") /\ OpensOrCloses(a2)
  BY <1>1, <1>2, <1>8, SafeOpened DEF a2
<1>10. Safe(a3, m, wi, writer, "none") /\ OpensOrCloses(a3)
  BY <1>1, <1>2, <1>9, SafeUnlock DEF a3
<1>11. Safe(a4, m, wii, writer, "none") /\ OpensOrCloses(a4)
  BY <1>1, <1>2, <1>10, SafeUnlock DEF a4
<1>12. Safe(a5, m, wiip, writer, "none") /\ OpensOrCloses(a5)
  BY <1>1, <1>2, <1>11, SafeUnlock DEF a5
<1>13. Safe(a6, m, wii, writer, "none") /\ OpensOrCloses(a6)
  <2>1. /\ Up(wii, "pages") = wiip /\ "pages" \in Objects /\ wii["index"] > 0
    BY <1>1, <1>2
  <2> QED
    BY <2>1, <1>12, <1>7, SafeRead DEF a6
<1>14. Safe(a7, m, ii, writer, "none") /\ OpensOrCloses(a7)
  <2>1. /\ Up(ii, "writer") = wii /\ "writer" \in Objects /\ ii["index"] > 0
    BY <1>1, <1>2
  <2> QED
    BY <2>1, <1>13, <1>5, SafeRead DEF a7
<1>15. Safe(a8, m, i, writer, "none") /\ OpensOrCloses(a8)
  <2>1. /\ Up(i, "index") = ii /\ "index" \in Objects /\ i["index"] > 0
    BY <1>1, <1>2
  <2> QED
    BY <2>1, <1>14, <1>4, SafeRead DEF a8
<1>16. IsCall(a8)
  BY <1>15, SafeIsLegal DEF Legal
<1> DEFINE al == WriterAlloc \o a8
<1>17. Safe(al, m, i, soft, "none") /\ IsCall(al)
  BY <1>1, <1>2, <1>16, <1>15, AllocIsSafe, SMTT(30)
<1> HIDE DEF al
<1>18. Safe(Enter("read") \o al, may, none, soft, "none")
  BY <1>1, <1>17, SafeEnter DEF none, i
<1>19. IsCall(a1)
  BY <1>8, SafeIsLegal DEF Legal
<1> DEFINE body == <<Lock("read", "index", fail), Lock("read", "writer", g1),
                     Lock("read", "pages", g3)>>
           more == <<Unlock("pages"), Unlock("index"), Unlock("writer"), Do("opened", "writer")>>
<1>20. more \o a1 = a5
  BY <1>19, Cat4 DEF a5, a4, a3, a2
<1>21. body \o a5 = a8
  <2>1. IsCall(more)
    BY Literals
  <2> HIDE DEF more
  <2>2. IsCall(a5)
    BY <1>19, <1>20, <2>1, CatIsCall
  <2> QED
    BY <2>2, Cat3 DEF a8, a7, a6
<1>22. g3 = <<Unlock("index"), Unlock("writer")>> \o fail
  <2>1. IsCall(fail)
    BY <1>4, SafeIsLegal DEF Legal
  <2> QED
    BY <2>1, Cat2 DEF g3, g2
<1>23. OpenExisting
         = Enter("read") \o WriterAlloc
             \o <<Lock("read", "index", fail), Lock("read", "writer", g1),
                  Lock("read", "pages", g3), Unlock("pages"), Unlock("index"),
                  Unlock("writer"), Do("opened", "writer"), Unlock("index")>>
  BY <1>22 DEF OpenExisting, g1, fail, u
<1>24. <<Lock("read", "index", fail), Lock("read", "writer", g1),
           Lock("read", "pages", g3), Unlock("pages"), Unlock("index"),
           Unlock("writer"), Do("opened", "writer"), Unlock("index")>> = body \o (more \o a1)
  BY DEF a1
<1> HIDE DEF body, more
<1>25. IsCall(Enter("read")) /\ IsCall(WriterAlloc)
  BY Literals, CatIsCall DEF Enter, WriterAlloc, ReaderAlloc
<1>26. (Enter("read") \o WriterAlloc) \o a8 = Enter("read") \o (WriterAlloc \o a8)
  BY <1>16, <1>25, CatAssoc
<1>27. OpenExisting = Enter("read") \o al
  BY <1>20, <1>21, <1>23, <1>24, <1>26 DEF al
<1> QED
  BY <1>1, <1>18, <1>27 DEF none

LEMMA CatEmpty ==
  ASSUME NEW s, IsCall(s)
  PROVE  s \o <<>> = s /\ <<>> \o s = s
  BY ConcatEmptySeq DEF IsCall

\* Closing a channel, at any number of locks held
LEMMA FreeAloneIsSafe ==
  ASSUME NEW may, NEW hold \in [Objects -> Nat], may \subseteq {"handle"}
  PROVE  /\ Safe(ReaderFree, may, hold, SoftOf("reader"), "none")
         /\ Safe(WriterFree, may, hold, SoftOf("writer"), "none")
         /\ OpensOrCloses(ReaderFree) /\ OpensOrCloses(WriterFree)
<1> DEFINE e == <<>>
<1>1. SoftOf("none") = {} /\ "none" \in Kinds
  BY DEF SoftOf, Kinds
<1>2. Safe(e, may, hold, {}, "none")
  BY <1>1, SafeEnd
<1>3. IsCall(ReaderFree) /\ IsCall(WriterFree)
  BY Literals, CatIsCall DEF WriterFree, ReaderFree
<1> HIDE DEF e
<1>4. ReaderFree \o e = ReaderFree /\ WriterFree \o e = WriterFree
  BY <1>3, CatEmpty DEF e
<1>5. /\ Safe(ReaderFree \o e, may, hold, SoftOf("reader"), "none")
      /\ Safe(WriterFree \o e, may, hold, SoftOf("writer"), "none")
      /\ OpensOrCloses(ReaderFree \o e) /\ OpensOrCloses(WriterFree \o e)
  BY <1>2, FreeIsSafe
<1> QED
  BY <1>4, <1>5

\* Closing a writer channel: a small file is copied to a buffer,
LEMMA CloseSmallIsSafe ==
  ASSUME NEW may, may \subseteq {"handle"}
  PROVE  Safe(CloseWriter(TRUE), may, Hold(0, 0, 0), SoftOf("writer"), "none")
<1> DEFINE soft == SoftOf("writer")
           none == Hold(0, 0, 0)
           i == Hold(0, 1, 0)
           w == Hold(1, 0, 0)
           wi == Hold(1, 1, 0)
           wip == Hold(1, 1, 1)
           wf == WriterFree
           f == <<Unlock("writer")>> \o wf
           n1 == <<Unlock("index")>> \o f
           c2 == <<Unlock("pages")>> \o n1
           c3 == <<Lock("read", "pages", n1)>> \o c2
           c4 == <<Lock("write", "index", f)>> \o c3
           c5 == <<Unlock("index")>> \o c4
           c6 == <<Lock("read", "index", f)>> \o c5
           c7 == <<Lock("write", "writer", wf)>> \o c6
<1>1. /\ "writer" \in Objects /\ "index" \in Objects /\ "pages" \in Objects
      /\ soft = SoftOf("writer") /\ "index" \in soft /\ "pages" \in soft
      /\ "writer" \in soft
  BY DEF Objects, Kinds, SoftOf
<1>2. /\ none \in [Objects -> Nat] /\ i \in [Objects -> Nat]
      /\ w \in [Objects -> Nat] /\ wi \in [Objects -> Nat]
      /\ wip \in [Objects -> Nat] /\ i["index"] > 0 /\ w["writer"] > 0
      /\ wi["index"] > 0 /\ wi["writer"] > 0 /\ wip["index"] > 0
      /\ wip["writer"] > 0 /\ wip["pages"] > 0 /\ Up(none, "writer") = w
      /\ Down(w, "writer") = none /\ Down(wi, "writer") = i /\ Up(w, "index") = wi
      /\ Down(wi, "index") = w /\ Up(wi, "pages") = wip /\ Down(wip, "pages") = wi
  BY Holds
<1> HIDE DEF soft, wf, none, i, w, wi, wip, f, n1, c2, c3, c4, c5, c6, c7
<1>3. Safe(wf, may, none, soft, "none") /\ OpensOrCloses(wf)
  BY <1>1, <1>2, FreeAloneIsSafe DEF wf
<1>4. Safe(wf, may, i, soft, "none") /\ OpensOrCloses(wf)
  BY <1>1, <1>2, FreeAloneIsSafe DEF wf
<1>5. Safe(f, may, w, soft, "none") /\ OpensOrCloses(f)
  BY <1>1, <1>2, <1>3, SafeUnlock DEF f
<1>6. Safe(f, may, wi, soft, "none") /\ OpensOrCloses(f)
  BY <1>1, <1>2, <1>4, SafeUnlock DEF f
<1>7. Safe(n1, may, wi, soft, "none") /\ OpensOrCloses(n1)
  BY <1>1, <1>2, <1>5, SafeUnlock DEF n1
<1>8. Safe(c2, may, wip, soft, "none") /\ OpensOrCloses(c2)
  BY <1>1, <1>2, <1>7, SafeUnlock DEF c2
<1>9. Safe(c3, may, wi, soft, "none") /\ OpensOrCloses(c3)
  <2>1. /\ Up(wi, "pages") = wip /\ "pages" \in Objects /\ wi["index"] > 0
    BY <1>1, <1>2
  <2> QED
    BY <2>1, <1>8, <1>7, SafeRead DEF c3
<1>10. Safe(c4, may, w, soft, "none") /\ OpensOrCloses(c4)
  <2>1. /\ Up(w, "index") = wi /\ "index" \in Objects /\ "index" \in soft
    BY <1>1, <1>2
  <2> QED
    BY <2>1, <1>9, <1>5, SafeWrite DEF c4
<1>11. Safe(c5, may, wi, soft, "none") /\ OpensOrCloses(c5)
  BY <1>1, <1>2, <1>10, SafeUnlock DEF c5
<1>12. Safe(c6, may, w, soft, "none") /\ OpensOrCloses(c6)
  <2>1. /\ Up(w, "index") = wi /\ "index" \in Objects /\ "index" \in soft
    BY <1>1, <1>2
  <2> QED
    BY <2>1, <1>11, <1>5, SafeRead DEF c6
<1>13. Safe(c7, may, none, soft, "none") /\ OpensOrCloses(c7)
  <2>1. /\ Up(none, "writer") = w /\ "writer" \in Objects /\ "writer" \in soft
    BY <1>1, <1>2
  <2> QED
    BY <2>1, <1>12, <1>3, SafeWrite DEF c7
<1> DEFINE first == <<Lock("write", "writer", wf), Lock("read", "index", f)>>
           mid == <<Unlock("index"), Lock("write", "index", f), Lock("read", "pages", n1),
                    Unlock("pages"), Unlock("index")>>
<1>14. IsCall(f) /\ IsCall(first) /\ IsCall(mid)
  BY <1>5, SafeIsLegal, Literals DEF Legal
<1>15. mid \o f = c5
  BY <1>14, Cat5 DEF c5, c4, c3, c2, n1
<1>16. CloseWriter(TRUE) = (first \o mid) \o f
  BY DEF CloseWriter, n1, f, wf
<1> HIDE DEF mid
<1>17. IsCall(c5)
  BY <1>14, <1>15, CatIsCall
<1>18. first \o c5 = c7
  BY <1>17, Cat2 DEF c7, c6
<1> HIDE DEF first
<1>19. (first \o mid) \o f = first \o (mid \o f)
  BY <1>14, CatAssoc
<1> QED
  BY <1>13, <1>15, <1>16, <1>18, <1>19 DEF soft, none

\* or a big one is cut into pages.
LEMMA CloseBigIsSafe ==
  ASSUME NEW may, may \subseteq {"handle"}
  PROVE  Safe(CloseWriter(FALSE), may, Hold(0, 0, 0), SoftOf("writer"), "none")
<1> DEFINE soft == SoftOf("writer")
           none == Hold(0, 0, 0)
           i == Hold(0, 1, 0)
           w == Hold(1, 0, 0)
           wi == Hold(1, 1, 0)
           wip == Hold(1, 1, 1)
           wp == Hold(1, 0, 1)
           wf == WriterFree
           f == <<Unlock("writer")>> \o wf
           n1 == <<Unlock("index")>> \o f
           unset == <<Lock("write", "index", f)>> \o n1
           b3 == <<Unlock("pages")>> \o unset
           b4 == <<Lock("write", "pages", unset)>> \o b3
           b5 == <<Unlock("index")>> \o b4
           b6 == <<Lock("write", "index", f)>> \o b5
           b7 == <<Unlock("index")>> \o b6
           b8 == <<Unlock("pages")>> \o b7
           b9 == <<Lock("read", "pages", f)>> \o b8
           b10 == <<Lock("read", "index", f)>> \o b9
           b11 == <<Lock("write", "writer", wf)>> \o b10
<1>1. /\ "writer" \in Objects /\ "index" \in Objects /\ "pages" \in Objects
      /\ soft = SoftOf("writer") /\ "index" \in soft /\ "pages" \in soft
      /\ "writer" \in soft
  BY DEF Objects, Kinds, SoftOf
<1>2. /\ none \in [Objects -> Nat] /\ i \in [Objects -> Nat]
      /\ w \in [Objects -> Nat] /\ wi \in [Objects -> Nat]
      /\ wip \in [Objects -> Nat] /\ wp \in [Objects -> Nat] /\ i["index"] > 0
      /\ w["writer"] > 0 /\ wi["index"] > 0 /\ wi["writer"] > 0 /\ wip["index"] > 0
      /\ wip["writer"] > 0 /\ wip["pages"] > 0 /\ wp["writer"] > 0
      /\ wp["pages"] > 0 /\ Up(none, "writer") = w /\ Down(w, "writer") = none
      /\ Down(wi, "writer") = i /\ Up(w, "index") = wi /\ Down(wi, "index") = w
      /\ Up(w, "pages") = wp /\ Down(wp, "pages") = w /\ Up(wi, "pages") = wip
      /\ Down(wip, "pages") = wi
  BY Holds
<1> HIDE DEF soft, wf, none, i, w, wi, wip, wp, f, n1, unset, b3, b4, b5, b6, b7, b8, b9,
            b10, b11
<1>3. Safe(wf, may, none, soft, "none") /\ OpensOrCloses(wf)
  BY <1>1, <1>2, FreeAloneIsSafe DEF wf
<1>4. Safe(wf, may, i, soft, "none") /\ OpensOrCloses(wf)
  BY <1>1, <1>2, FreeAloneIsSafe DEF wf
<1>5. Safe(f, may, w, soft, "none") /\ OpensOrCloses(f)
  BY <1>1, <1>2, <1>3, SafeUnlock DEF f
<1>6. Safe(f, may, wi, soft, "none") /\ OpensOrCloses(f)
  BY <1>1, <1>2, <1>4, SafeUnlock DEF f
<1>7. Safe(n1, may, wi, soft, "none") /\ OpensOrCloses(n1)
  BY <1>1, <1>2, <1>5, SafeUnlock DEF n1
<1>8. Safe(unset, may, w, soft, "none") /\ OpensOrCloses(unset)
  <2>1. /\ Up(w, "index") = wi /\ "index" \in Objects /\ "index" \in soft
    BY <1>1, <1>2
  <2> QED
    BY <2>1, <1>7, <1>5, SafeWrite DEF unset
<1>9. Safe(b3, may, wp, soft, "none") /\ OpensOrCloses(b3)
  BY <1>1, <1>2, <1>8, SafeUnlock DEF b3
<1>10. Safe(b4, may, w, soft, "none") /\ OpensOrCloses(b4)
  <2>1. /\ Up(w, "pages") = wp /\ "pages" \in Objects /\ "pages" \in soft
        /\ w["writer"] > 0
    BY <1>1, <1>2
  <2> QED
    BY <2>1, <1>9, <1>8, SafeWrite DEF b4
<1>11. Safe(b5, may, wi, soft, "none") /\ OpensOrCloses(b5)
  BY <1>1, <1>2, <1>10, SafeUnlock DEF b5
<1>12. Safe(b6, may, w, soft, "none") /\ OpensOrCloses(b6)
  <2>1. /\ Up(w, "index") = wi /\ "index" \in Objects /\ "index" \in soft
    BY <1>1, <1>2
  <2> QED
    BY <2>1, <1>11, <1>5, SafeWrite DEF b6
<1>13. Safe(b7, may, wi, soft, "none") /\ OpensOrCloses(b7)
  BY <1>1, <1>2, <1>12, SafeUnlock DEF b7
<1>14. Safe(b8, may, wip, soft, "none") /\ OpensOrCloses(b8)
  BY <1>1, <1>2, <1>13, SafeUnlock DEF b8
<1>15. Safe(b9, may, wi, soft, "none") /\ OpensOrCloses(b9)
  <2>1. /\ Up(wi, "pages") = wip /\ "pages" \in Objects /\ wi["index"] > 0
    BY <1>1, <1>2
  <2> QED
    BY <2>1, <1>14, <1>6, SafeRead DEF b9
<1>16. Safe(b10, may, w, soft, "none") /\ OpensOrCloses(b10)
  <2>1. /\ Up(w, "index") = wi /\ "index" \in Objects /\ "index" \in soft
    BY <1>1, <1>2
  <2> QED
    BY <2>1, <1>15, <1>5, SafeRead DEF b10
<1>17. Safe(b11, may, none, soft, "none") /\ OpensOrCloses(b11)
  <2>1. /\ Up(none, "writer") = w /\ "writer" \in Objects /\ "writer" \in soft
    BY <1>1, <1>2
  <2> QED
    BY <2>1, <1>16, <1>3, SafeWrite DEF b11
<1> DEFINE first == <<Lock("write", "writer", wf), Lock("read", "index", f)>>
           p == <<Lock("read", "pages", f), Unlock("pages"), Unlock("index"),
                  Lock("write", "index", f)>>
           q == <<Unlock("index"), Lock("write", "pages", unset), Unlock("pages"),
                  Lock("write", "index", f), Unlock("index")>>
<1>18. IsCall(f) /\ IsCall(first) /\ IsCall(p) /\ IsCall(q)
  BY <1>5, SafeIsLegal, Literals DEF Legal
<1>19. unset = <<Lock("write", "index", f), Unlock("index")>> \o f
  BY <1>18, Cat2, SMTT(30) DEF unset, n1
<1>20. q \o f = b5
  BY <1>18, Cat5 DEF b5, b4, b3, unset, n1
<1>21. CloseWriter(FALSE)
         = (first \o <<Lock("read", "pages", f), Unlock("pages"), Unlock("index"),
                       Lock("write", "index", f), Unlock("index"), Lock("write", "pages", unset),
                       Unlock("pages"), Lock("write", "index", f), Unlock("index")>>) \o f
  BY <1>19 DEF CloseWriter, f, wf
<1>22. <<Lock("read", "pages", f), Unlock("pages"), Unlock("index"),
           Lock("write", "index", f), Unlock("index"), Lock("write", "pages", unset),
           Unlock("pages"), Lock("write", "index", f), Unlock("index")>> = p \o q
  OBVIOUS
<1> HIDE DEF q
<1>23. IsCall(b5)
  BY <1>18, <1>20, CatIsCall
<1>24. p \o b5 = b9
  BY <1>23, Cat4 DEF b9, b8, b7, b6
<1> HIDE DEF p
<1>25. IsCall(b9)
  BY <1>18, <1>23, <1>24, CatIsCall
<1>26. first \o b9 = b11
  BY <1>25, Cat2 DEF b11, b10
<1> HIDE DEF first
<1>27. (p \o q) \o f = p \o (q \o f)
  BY <1>18, CatAssoc
<1>28. (first \o (p \o q)) \o f = first \o ((p \o q) \o f)
  <2> DEFINE r == p \o q
  <2>1. IsCall(r)
    BY <1>18, CatIsCall
  <2> HIDE DEF r
  <2>2. (first \o r) \o f = first \o (r \o f)
    BY <1>18, <2>1, CatAssoc, SMTT(30)
  <2> QED
    BY <2>2 DEF r
<1> QED
  BY <1>17, <1>20, <1>21, <1>22, <1>24, <1>26, <1>27, <1>28 DEF soft, none

-----------------------------------------------------------------------------
(* Unmounting: the rest of Cookfs_VfsFini, with the objects that its thread  *)
(* owns, those that are dead, the soft locks of the writer, the object whose *)
(* mxLockSoft is locked, and the locks that it took since and gives back     *)

EndLegal(s, own, dead, soft, dying, w) ==
  /\ IsCall(s)
  /\ own \subseteq Objects /\ dead \subseteq Objects /\ soft \subseteq Objects
  /\ dying \subseteq Objects /\ w \subseteq Objects
  /\ s = <<>> => /\ dying = {} /\ own = Objects
                 /\ \/ dead = Objects /\ soft = {}
                    \/ dead = {} /\ "fails" \in Purges
  /\ s # <<>> =>
       LET step == Head(s)
           o == step.on
       IN \/ step.do = "write" /\ o \in Objects \ (dead \cup w)
          \/ step.do = "own" /\ o \in w \ dead
          \/ /\ step.do = "kill" /\ o \in Objects \ dead
             /\ own = Objects /\ dying = {} /\ (o # "writer" => soft = {})
          \/ step.do = "unlockSoft" /\ o \in soft \ dead
          \/ /\ step.do = "unlock" /\ o \in w
             /\ o \in dying \/ (o = "pages" /\ o \notin dead /\ own = Objects)
          \/ step.do = "finish" /\ o \in Objects /\ dying = {o}

EndNext(s, own, dead, soft, dying, w) ==
  LET step == Head(s)
      o == step.on
  IN CASE step.do = "write" -> <<Tail(s), own, dead, soft, dying, w \cup {o}>>
       [] step.do = "own" ->
            <<Tail(s), own \cup {o}, dead, soft, dying, IF o \in own THEN w ELSE w \ {o}>>
       [] step.do = "kill" -> <<Tail(s), own, dead \cup {o}, soft, {o}, w>>
       [] step.do = "unlockSoft" -> <<Tail(s), own, dead, soft \ {o}, dying, w>>
       [] step.do = "unlock" -> <<Tail(s), own, dead, soft, dying, w \ {o}>>
       [] OTHER -> <<Tail(s), own, dead, soft, {}, w>>

EndClosed(R) ==
  \A s, own, dead, soft, dying, w :
    <<s, own, dead, soft, dying, w>> \in R
      => /\ EndLegal(s, own, dead, soft, dying, w)
         /\ s # <<>> => EndNext(s, own, dead, soft, dying, w) \in R

Ending(s, own, dead, soft, dying, w) ==
  \E R : EndClosed(R) /\ <<s, own, dead, soft, dying, w>> \in R

LEMMA EndingIsLegal ==
  ASSUME NEW s, NEW own, NEW dead, NEW soft, NEW dying, NEW w,
         Ending(s, own, dead, soft, dying, w)
  PROVE  /\ EndLegal(s, own, dead, soft, dying, w)
         /\ \A s2, own2, dead2, soft2, dying2, w2 :
              s # <<>> /\ EndNext(s, own, dead, soft, dying, w) = <<s2, own2, dead2, soft2, dying2, w2>>
                => Ending(s2, own2, dead2, soft2, dying2, w2)
<1>1. PICK R : EndClosed(R) /\ <<s, own, dead, soft, dying, w>> \in R
  BY DEF Ending
<1>2. /\ EndLegal(s, own, dead, soft, dying, w)
      /\ s # <<>> => EndNext(s, own, dead, soft, dying, w) \in R
  BY <1>1 DEF EndClosed
<1> QED
  BY <1>1, <1>2 DEF Ending

LEMMA LegalIsEnding ==
  ASSUME NEW s, NEW own, NEW dead, NEW soft, NEW dying, NEW w,
         EndLegal(s, own, dead, soft, dying, w), s # <<>>,
         NEW s1, NEW own1, NEW dead1, NEW soft1, NEW dying1, NEW w1,
         Ending(s1, own1, dead1, soft1, dying1, w1),
         EndNext(s, own, dead, soft, dying, w) = <<s1, own1, dead1, soft1, dying1, w1>>
  PROVE  Ending(s, own, dead, soft, dying, w)
<1>1. PICK R1 : EndClosed(R1) /\ <<s1, own1, dead1, soft1, dying1, w1>> \in R1
  BY DEF Ending
<1> DEFINE x == <<s, own, dead, soft, dying, w>>
           R == R1 \cup {x}
<1>2. EndNext(s, own, dead, soft, dying, w) \in R
  BY <1>1
<1>3. ASSUME NEW s3, NEW own3, NEW dead3, NEW soft3, NEW dying3, NEW w3,
             <<s3, own3, dead3, soft3, dying3, w3>> \in R
      PROVE  /\ EndLegal(s3, own3, dead3, soft3, dying3, w3)
             /\ s3 # <<>> => EndNext(s3, own3, dead3, soft3, dying3, w3) \in R
  <2>1. CASE <<s3, own3, dead3, soft3, dying3, w3>> \in R1
    BY <2>1, <1>1 DEF EndClosed
  <2>2. CASE <<s3, own3, dead3, soft3, dying3, w3>> = <<s, own, dead, soft, dying, w>>
    <3>1. /\ s3 = s /\ own3 = own /\ dead3 = dead /\ soft3 = soft
          /\ dying3 = dying /\ w3 = w
      BY <2>2
    <3> QED
      BY <3>1, <1>2
  <2> QED
    BY <1>3, <2>1, <2>2
<1>4. EndClosed(R) /\ x \in R
  BY <1>3 DEF EndClosed
<1> HIDE DEF R
<1> QED
  BY <1>4 DEF Ending

LEMMA EndingStops ==
  ASSUME NEW dead, NEW w \in SUBSET Objects, NEW soft \in SUBSET Objects,
         \/ dead = Objects /\ soft = {}
         \/ dead = {} /\ "fails" \in Purges
  PROVE  Ending(<<>>, Objects, dead, soft, {}, w)
<1> DEFINE x == <<<<>>, Objects, dead, soft, {}, w>>
           R == {x}
<1>1. EndLegal(<<>>, Objects, dead, soft, {}, w)
  BY NoStep DEF EndLegal
<1>2. ASSUME NEW s3, NEW own3, NEW dead3, NEW soft3, NEW dying3, NEW w3,
             <<s3, own3, dead3, soft3, dying3, w3>> \in R
      PROVE  EndLegal(s3, own3, dead3, soft3, dying3, w3) /\ s3 = <<>>
  <2>1. /\ s3 = <<>> /\ own3 = Objects /\ dead3 = dead /\ soft3 = soft
        /\ dying3 = {} /\ w3 = w
    BY <1>2
  <2> QED
    BY <2>1, <1>1
<1>3. EndClosed(R) /\ x \in R
  BY <1>2 DEF EndClosed
<1> HIDE DEF R
<1> QED
  BY <1>3 DEF Ending

LEMMA EndWrite ==
  ASSUME NEW o \in Objects, NEW or, NEW t, NEW own \in SUBSET Objects, NEW dead \in SUBSET Objects,
         NEW soft \in SUBSET Objects, NEW dying \in SUBSET Objects, NEW w \in SUBSET Objects,
         NEW own2, NEW dead2, NEW soft2, NEW dying2, NEW w2,
         own2 = own, dead2 = dead, soft2 = soft, dying2 = dying,
         w2 = w \cup {o},
         o \notin dead, o \notin w,
         Ending(t, own2, dead2, soft2, dying2, w2)
  PROVE  Ending(<<Lock("write", o, or)>> \o t, own, dead, soft, dying, w)
<1> DEFINE a == Lock("write", o, or)
           s == <<a>> \o t
<1>1. IsCall(t)
  BY EndingIsLegal DEF EndLegal
<1>2. IsCall(s) /\ s # <<>> /\ Head(s) = a /\ Tail(s) = t
  BY <1>1, Cons
<1>3. a.do = "write" /\ a.on = o
  BY DEF Lock, Unlock, Do
<1> HIDE DEF s, a
<1>4. EndLegal(s, own, dead, soft, dying, w)
  BY <1>2, <1>3 DEF EndLegal
<1>5. EndNext(s, own, dead, soft, dying, w) = <<t, own2, dead2, soft2, dying2, w2>>
  BY <1>2, <1>3 DEF EndNext
<1>6. Ending(s, own, dead, soft, dying, w)
  BY <1>2, <1>4, <1>5, LegalIsEnding
<1> QED
  BY <1>6 DEF s, a

LEMMA EndOwn ==
  ASSUME NEW o \in Objects, NEW t, NEW own \in SUBSET Objects, NEW dead \in SUBSET Objects,
         NEW soft \in SUBSET Objects, NEW dying \in SUBSET Objects, NEW w \in SUBSET Objects,
         NEW own2, NEW dead2, NEW soft2, NEW dying2, NEW w2,
         own2 = own \cup {o}, dead2 = dead, soft2 = soft, dying2 = dying,
         w2 = IF o \in own THEN w ELSE w \ {o},
         o \in w, o \notin dead,
         Ending(t, own2, dead2, soft2, dying2, w2)
  PROVE  Ending(<<Do("own", o)>> \o t, own, dead, soft, dying, w)
<1> DEFINE a == Do("own", o)
           s == <<a>> \o t
<1>1. IsCall(t)
  BY EndingIsLegal DEF EndLegal
<1>2. IsCall(s) /\ s # <<>> /\ Head(s) = a /\ Tail(s) = t
  BY <1>1, Cons
<1>3. a.do = "own" /\ a.on = o
  BY DEF Lock, Unlock, Do
<1> HIDE DEF s, a
<1>4. EndLegal(s, own, dead, soft, dying, w)
  BY <1>2, <1>3 DEF EndLegal
<1>5. EndNext(s, own, dead, soft, dying, w) = <<t, own2, dead2, soft2, dying2, w2>>
  BY <1>2, <1>3 DEF EndNext
<1>6. Ending(s, own, dead, soft, dying, w)
  BY <1>2, <1>4, <1>5, LegalIsEnding
<1> QED
  BY <1>6 DEF s, a

LEMMA EndKill ==
  ASSUME NEW o \in Objects, NEW t, NEW own \in SUBSET Objects, NEW dead \in SUBSET Objects,
         NEW soft \in SUBSET Objects, NEW dying \in SUBSET Objects, NEW w \in SUBSET Objects,
         NEW own2, NEW dead2, NEW soft2, NEW dying2, NEW w2,
         own2 = own, dead2 = dead \cup {o}, soft2 = soft, dying2 = {o},
         w2 = w,
         o \notin dead, own = Objects, dying = {}, o # "writer" => soft = {},
         Ending(t, own2, dead2, soft2, dying2, w2)
  PROVE  Ending(<<Do("kill", o)>> \o t, own, dead, soft, dying, w)
<1> DEFINE a == Do("kill", o)
           s == <<a>> \o t
<1>1. IsCall(t)
  BY EndingIsLegal DEF EndLegal
<1>2. IsCall(s) /\ s # <<>> /\ Head(s) = a /\ Tail(s) = t
  BY <1>1, Cons
<1>3. a.do = "kill" /\ a.on = o
  BY DEF Lock, Unlock, Do
<1> HIDE DEF s, a
<1>4. EndLegal(s, own, dead, soft, dying, w)
  BY <1>2, <1>3 DEF EndLegal
<1>5. EndNext(s, own, dead, soft, dying, w) = <<t, own2, dead2, soft2, dying2, w2>>
  BY <1>2, <1>3 DEF EndNext
<1>6. Ending(s, own, dead, soft, dying, w)
  BY <1>2, <1>4, <1>5, LegalIsEnding
<1> QED
  BY <1>6 DEF s, a

LEMMA EndUnlockSoft ==
  ASSUME NEW o \in Objects, NEW t, NEW own \in SUBSET Objects, NEW dead \in SUBSET Objects,
         NEW soft \in SUBSET Objects, NEW dying \in SUBSET Objects, NEW w \in SUBSET Objects,
         NEW own2, NEW dead2, NEW soft2, NEW dying2, NEW w2,
         own2 = own, dead2 = dead, soft2 = soft \ {o}, dying2 = dying,
         w2 = w,
         o \in soft, o \notin dead,
         Ending(t, own2, dead2, soft2, dying2, w2)
  PROVE  Ending(<<Do("unlockSoft", o)>> \o t, own, dead, soft, dying, w)
<1> DEFINE a == Do("unlockSoft", o)
           s == <<a>> \o t
<1>1. IsCall(t)
  BY EndingIsLegal DEF EndLegal
<1>2. IsCall(s) /\ s # <<>> /\ Head(s) = a /\ Tail(s) = t
  BY <1>1, Cons
<1>3. a.do = "unlockSoft" /\ a.on = o
  BY DEF Lock, Unlock, Do
<1> HIDE DEF s, a
<1>4. EndLegal(s, own, dead, soft, dying, w)
  BY <1>2, <1>3 DEF EndLegal
<1>5. EndNext(s, own, dead, soft, dying, w) = <<t, own2, dead2, soft2, dying2, w2>>
  BY <1>2, <1>3 DEF EndNext
<1>6. Ending(s, own, dead, soft, dying, w)
  BY <1>2, <1>4, <1>5, LegalIsEnding
<1> QED
  BY <1>6 DEF s, a

LEMMA EndUnlock ==
  ASSUME NEW o \in Objects, NEW t, NEW own \in SUBSET Objects, NEW dead \in SUBSET Objects,
         NEW soft \in SUBSET Objects, NEW dying \in SUBSET Objects, NEW w \in SUBSET Objects,
         NEW own2, NEW dead2, NEW soft2, NEW dying2, NEW w2,
         own2 = own, dead2 = dead, soft2 = soft, dying2 = dying,
         w2 = w \ {o},
         o \in w, o \in dying \/ (o = "pages" /\ o \notin dead /\ own = Objects),
         Ending(t, own2, dead2, soft2, dying2, w2)
  PROVE  Ending(<<Unlock(o)>> \o t, own, dead, soft, dying, w)
<1> DEFINE a == Unlock(o)
           s == <<a>> \o t
<1>1. IsCall(t)
  BY EndingIsLegal DEF EndLegal
<1>2. IsCall(s) /\ s # <<>> /\ Head(s) = a /\ Tail(s) = t
  BY <1>1, Cons
<1>3. a.do = "unlock" /\ a.on = o
  BY DEF Lock, Unlock, Do
<1> HIDE DEF s, a
<1>4. EndLegal(s, own, dead, soft, dying, w)
  BY <1>2, <1>3 DEF EndLegal
<1>5. EndNext(s, own, dead, soft, dying, w) = <<t, own2, dead2, soft2, dying2, w2>>
  BY <1>2, <1>3 DEF EndNext
<1>6. Ending(s, own, dead, soft, dying, w)
  BY <1>2, <1>4, <1>5, LegalIsEnding
<1> QED
  BY <1>6 DEF s, a

LEMMA EndFinish ==
  ASSUME NEW o \in Objects, NEW t, NEW own \in SUBSET Objects, NEW dead \in SUBSET Objects,
         NEW soft \in SUBSET Objects, NEW dying \in SUBSET Objects, NEW w \in SUBSET Objects,
         NEW own2, NEW dead2, NEW soft2, NEW dying2, NEW w2,
         own2 = own, dead2 = dead, soft2 = soft, dying2 = {},
         w2 = w,
         dying = {o},
         Ending(t, own2, dead2, soft2, dying2, w2)
  PROVE  Ending(<<Do("finish", o)>> \o t, own, dead, soft, dying, w)
<1> DEFINE a == Do("finish", o)
           s == <<a>> \o t
<1>1. IsCall(t)
  BY EndingIsLegal DEF EndLegal
<1>2. IsCall(s) /\ s # <<>> /\ Head(s) = a /\ Tail(s) = t
  BY <1>1, Cons
<1>3. a.do = "finish" /\ a.on = o
  BY DEF Lock, Unlock, Do
<1> HIDE DEF s, a
<1>4. EndLegal(s, own, dead, soft, dying, w)
  BY <1>2, <1>3 DEF EndLegal
<1>5. EndNext(s, own, dead, soft, dying, w) = <<t, own2, dead2, soft2, dying2, w2>>
  BY <1>2, <1>3 DEF EndNext
<1>6. Ending(s, own, dead, soft, dying, w)
  BY <1>2, <1>4, <1>5, LegalIsEnding
<1> QED
  BY <1>6 DEF s, a

LEMMA ExclusiveIsEnding ==
  ASSUME NEW o \in Objects, NEW t, NEW own \in SUBSET Objects, NEW soft \in SUBSET Objects,
         NEW more, o \notin own, more = own \cup {o}, Ending(t, more, {}, soft, {}, {})
  PROVE  Ending(LockExclusive(o) \o t, own, {}, soft, {}, {})
<1> DEFINE e == <<>>
           none == {}
           w == {o}
           s1 == <<Do("own", o)>> \o t
           s2 == <<Lock("write", o, e)>> \o s1
<1>1. /\ none \subseteq Objects /\ w \subseteq Objects /\ o \in w /\ o \notin none
      /\ none = IF o \in own THEN w ELSE w \ {o}
      /\ w = none \cup {o}
      /\ more = own \cup {o}
  OBVIOUS
<1>2. IsCall(t)
  BY EndingIsLegal DEF EndLegal
<1>3. Ending(t, more, none, soft, none, none)
  OBVIOUS
<1>4. LockExclusive(o) \o t = s2
  BY <1>2, Cat2 DEF LockExclusive
<1> HIDE DEF e, none, w, s1, s2
<1>5. Ending(s1, own, none, soft, none, w)
  BY <1>1, <1>3, EndOwn DEF s1
<1>6. Ending(s2, own, none, soft, none, none)
  BY <1>1, <1>5, EndWrite DEF s2
<1> QED
  BY <1>4, <1>6 DEF none

\* One list after another, as an operator: the provers look into \o.
Cat(s, t) == s \o t

LEMMA CatCat ==
  ASSUME NEW r, NEW s, NEW t, IsCall(r), IsCall(s), IsCall(t)
  PROVE  Cat(Cat(r, s), t) = Cat(r, Cat(s, t)) /\ IsCall(Cat(r, s))
  BY CatAssoc, CatIsCall, SMTT(30) DEF Cat

LEMMA CatFive ==
  ASSUME NEW x, NEW k, NEW r, NEW u, NEW t,
         IsCall(x), IsCall(k), IsCall(r), IsCall(u), IsCall(t)
  PROVE  Cat(Cat(Cat(Cat(x, k), r), u), t) = Cat(x, Cat(k, Cat(r, Cat(u, t))))
<1>1. IsCall(Cat(x, k)) /\ IsCall(Cat(u, t))
  BY CatCat
<1>2. IsCall(Cat(Cat(x, k), r)) /\ IsCall(Cat(r, Cat(u, t)))
  BY <1>1, CatCat
<1>3. Cat(Cat(Cat(Cat(x, k), r), u), t) = Cat(Cat(Cat(x, k), r), Cat(u, t))
  BY <1>2, CatCat
<1>4. Cat(Cat(Cat(x, k), r), Cat(u, t)) = Cat(Cat(x, k), Cat(r, Cat(u, t)))
  BY <1>1, CatCat
<1>5. Cat(Cat(x, k), Cat(r, Cat(u, t))) = Cat(x, Cat(k, Cat(r, Cat(u, t))))
  BY <1>2, CatCat
<1> QED
  BY <1>3, <1>4, <1>5

LEMMA FiniIsCall ==
  ASSUME NEW o
  PROVE  IsCall(Fini(o))
<1> DEFINE x == LockExclusive(o)
           k == <<Do("kill", o)>>
           r == IF o = "writer" THEN ReaderFree ELSE <<>>
           u == <<Unlock(o), Do("finish", o)>>
<1>1. Fini(o) = ((x \o k) \o r) \o u
  BY DEF Fini
<1>2. IsCall(x) /\ IsCall(k) /\ IsCall(u) /\ IsCall(r)
  BY Literals, NoStep DEF LockExclusive, ReaderFree
<1> HIDE DEF x, k, r, u
<1>3. IsCall(x \o k)
  BY <1>2, CatIsCall
<1>4. IsCall((x \o k) \o r)
  BY <1>2, <1>3, CatIsCall
<1>5. IsCall(((x \o k) \o r) \o u)
  BY <1>2, <1>4, CatIsCall
<1> QED
  BY <1>1, <1>5

\* Fini of the fsindex and the pages, when the writer is dead
LEMMA FiniIsEnding ==
  ASSUME NEW o \in Objects, NEW t, NEW dead \in SUBSET Objects, NEW more,
         o # "writer", o \notin dead, more = dead \cup {o}, Ending(t, Objects, more, {}, {}, {})
  PROVE  Ending(Fini(o) \o t, Objects, dead, {}, {}, {}) /\ IsCall(Fini(o) \o t)
<1> DEFINE e == <<>>
           none == {}
           w == {o}
           own == Objects
           s1 == <<Do("finish", o)>> \o t
           s2 == <<Unlock(o)>> \o s1
           s3 == <<Do("kill", o)>> \o s2
           s4 == <<Do("own", o)>> \o s3
           s5 == <<Lock("write", o, e)>> \o s4
<1>1. /\ none \subseteq Objects /\ w \subseteq Objects /\ own \subseteq Objects
      /\ o \in w /\ o \notin none /\ own = Objects
      /\ w = IF o \in own THEN w ELSE w \ {o}
      /\ w = none \cup {o} /\ none = w \ {o} /\ w = {o} /\ own = own \cup {o}
      /\ more = dead \cup {o} /\ more \subseteq Objects
      /\ o # "writer" => none = {}
  OBVIOUS
<1>2. IsCall(t)
  BY EndingIsLegal DEF EndLegal
<1>3. Ending(t, own, more, none, none, none) /\ none = {}
  OBVIOUS
<1> HIDE DEF e, none, w, own, s1, s2, s3, s4, s5
<1>4. Ending(s1, own, more, none, w, none)
  BY <1>1, <1>3, EndFinish DEF s1
<1>5. Ending(s2, own, more, none, w, w)
  BY <1>1, <1>4, EndUnlock DEF s2
<1>6. Ending(s3, own, dead, none, none, w)
  BY <1>1, <1>3, <1>5, EndKill DEF s3
<1>7. Ending(s4, own, dead, none, none, w)
  BY <1>1, <1>6, EndOwn DEF s4
<1>8. Ending(s5, own, dead, none, none, none)
  BY <1>1, <1>7, EndWrite DEF s5
<1>9. Fini(o) \o t = s5
  <2> DEFINE x == LockExclusive(o)
             k == <<Do("kill", o)>>
             u == <<Unlock(o), Do("finish", o)>>
  <2>1. Fini(o) \o t = Cat(Cat(Cat(Cat(x, k), e), u), t)
    BY DEF Fini, Cat, e
  <2>2. IsCall(x) /\ IsCall(k) /\ IsCall(u)
    BY Literals DEF LockExclusive
  <2>3. Cat(u, t) = s2
    BY <1>2, Cat2 DEF s2, s1, Cat
  <2>4. IsCall(s2) /\ IsCall(s3)
    BY <1>5, <1>6, EndingIsLegal DEF EndLegal
  <2>5. Cat(x, s3) = s5
    BY <2>4, Cat2 DEF LockExclusive, s5, s4, e, Cat
  <2>6. Cat(k, s2) = s3
    BY DEF s3, Cat
  <2> HIDE DEF x, k, u
  <2>7. IsCall(e) /\ Cat(e, s2) = s2
    BY <2>4, NoStep, CatEmpty DEF e, Cat
  <2>8. Cat(Cat(Cat(Cat(x, k), e), u), t) = Cat(x, Cat(k, Cat(e, Cat(u, t))))
    BY <1>2, <2>2, <2>7, CatFive
  <2> QED
    BY <2>1, <2>3, <2>5, <2>6, <2>7, <2>8
<1>10. IsCall(s5)
  BY <1>8, EndingIsLegal DEF EndLegal
<1> QED
  BY <1>8, <1>9, <1>10 DEF none, own

\* Cookfs_WriterFini gives back the writer's own soft locks.
LEMMA WriterFiniIsEnding ==
  ASSUME NEW t, Ending(t, Objects, {"writer"}, {}, {}, {})
  PROVE  /\ Ending(Fini("writer") \o t, Objects, {}, {"index", "pages"}, {}, {})
         /\ IsCall(Fini("writer") \o t)
<1> DEFINE e == <<>>
           o == "writer"
           none == {}
           w == {"writer"}
           p == {"pages"}
           ip == {"index", "pages"}
           own == Objects
           s1 == <<Do("finish", o)>> \o t
           s2 == <<Unlock(o)>> \o s1
           r1 == <<Do("unlockSoft", "pages")>> \o s2
           r2 == <<Do("unlockSoft", "index")>> \o r1
           s3 == <<Do("kill", o)>> \o r2
           s4 == <<Do("own", o)>> \o s3
           s5 == <<Lock("write", o, e)>> \o s4
<1>1. /\ none \subseteq Objects /\ w \subseteq Objects /\ own \subseteq Objects
      /\ p \subseteq Objects /\ ip \subseteq Objects
      /\ o \in Objects /\ "index" \in Objects /\ "pages" \in Objects
      /\ o \in w /\ o \notin none /\ own = Objects /\ o = "writer" /\ none = {}
      /\ w = IF o \in own THEN w ELSE w \ {o}
      /\ w = none \cup {o} /\ none = w \ {o} /\ w = {o} /\ own = own \cup {o}
      /\ "pages" \in p /\ "index" \in ip /\ "pages" \notin w /\ "index" \notin w
      /\ none = p \ {"pages"} /\ p = ip \ {"index"}
  BY DEF Objects
<1>2. IsCall(t)
  BY EndingIsLegal DEF EndLegal
<1>3. Ending(t, own, w, none, none, none)
  OBVIOUS
<1> HIDE DEF e, none, w, p, ip, own, s1, s2, s3, s4, s5, r1, r2, o
<1>4. Ending(s1, own, w, none, w, none)
  BY <1>1, <1>3, EndFinish DEF s1
<1>5. Ending(s2, own, w, none, w, w)
  BY <1>1, <1>4, EndUnlock DEF s2
<1>6. Ending(r1, own, w, p, w, w)
  BY <1>1, <1>5, EndUnlockSoft DEF r1
<1>7. Ending(r2, own, w, ip, w, w)
  BY <1>1, <1>6, EndUnlockSoft DEF r2
<1>8. Ending(s3, own, none, ip, none, w)
  BY <1>1, <1>7, EndKill DEF s3
<1>9. Ending(s4, own, none, ip, none, w)
  BY <1>1, <1>8, EndOwn DEF s4
<1>10. Ending(s5, own, none, ip, none, none)
  BY <1>1, <1>9, EndWrite DEF s5
<1>11. Fini(o) \o t = s5
  <2> DEFINE x == LockExclusive(o)
             k == <<Do("kill", o)>>
             u == <<Unlock(o), Do("finish", o)>>
             r == ReaderFree
  <2>1. Fini(o) \o t = Cat(Cat(Cat(Cat(x, k), r), u), t)
    BY DEF Fini, Cat, o
  <2>2. IsCall(x) /\ IsCall(k) /\ IsCall(u) /\ IsCall(r)
    BY Literals DEF LockExclusive, ReaderFree
  <2>3. Cat(u, t) = s2
    BY <1>2, Cat2 DEF s2, s1, Cat
  <2>4. IsCall(s2) /\ IsCall(s3) /\ IsCall(r2)
    BY <1>5, <1>7, <1>8, EndingIsLegal DEF EndLegal
  <2>5. Cat(x, s3) = s5
    BY <2>4, Cat2 DEF LockExclusive, s5, s4, e, Cat
  <2>6. Cat(k, r2) = s3
    BY DEF s3, Cat
  <2>7. Cat(r, s2) = r2
    BY <2>4, Cat2 DEF ReaderFree, r2, r1, Cat
  <2> HIDE DEF x, k, u, r
  <2>8. Cat(Cat(Cat(Cat(x, k), r), u), t) = Cat(x, Cat(k, Cat(r, Cat(u, t))))
    BY <1>2, <2>2, CatFive
  <2> QED
    BY <2>1, <2>3, <2>5, <2>6, <2>7, <2>8
<1>12. IsCall(s5)
  BY <1>10, EndingIsLegal DEF EndLegal
<1> QED
  BY <1>10, <1>11, <1>12 DEF none, own, ip, o


\* All of Cookfs_VfsFini, whatever the purge comes to
LEMMA VfsFiniIsEnding ==
  ASSUME NEW purge \in Purges
  PROVE  Ending(VfsFini(purge), {}, {}, {"index", "pages"}, {}, {})
<1> DEFINE e == <<>>
           none == {}
           ip == {"index", "pages"}
           wr == {"writer"}
           wi == {"writer", "index"}
           wp == {"writer", "pages"}
           own == Objects
           f1 == Fini("index") \o e
           f2 == Fini("pages") \o f1
           f3 == Fini("writer") \o f2
           all == IF purge = "fails" THEN e ELSE Fini("writer") \o Fini("pages") \o Fini("index")
           pages == IF purge = "pages" THEN <<Lock("write", "pages", e), Unlock("pages")>> ELSE e
           p1 == pages \o all
           l3 == LockExclusive("pages") \o p1
           l2 == LockExclusive("index") \o l3
           l1 == LockExclusive("writer") \o l2
<1>1. /\ none \subseteq Objects /\ ip \subseteq Objects /\ wr \subseteq Objects
      /\ wi \subseteq Objects /\ wp \subseteq Objects /\ own \subseteq Objects
      /\ "writer" \in Objects /\ "index" \in Objects /\ "pages" \in Objects
      /\ wr = none \cup {"writer"} /\ wi = wr \cup {"index"} /\ own = wi \cup {"pages"}
      /\ wp = wr \cup {"pages"} /\ own = wp \cup {"index"}
      /\ "writer" \notin none /\ "index" \notin wr /\ "pages" \notin wi
      /\ "pages" \notin wr /\ "index" \notin wp /\ none = {} /\ own = Objects
      /\ "pages" # "writer" /\ "index" # "writer"
  BY DEF Objects
<1>2. IsCall(e)
  BY NoStep
<1>3. Ending(all, own, none, ip, none, none) /\ IsCall(all)
  <2>1. CASE purge = "fails"
    <3>1. Ending(e, own, none, ip, none, none)
      BY <2>1, <1>1, EndingStops
    <3> QED
      BY <2>1, <3>1, <1>2
  <2>2. CASE purge # "fails"
    <3>1. Ending(e, own, own, none, none, none)
      BY <1>1, EndingStops
    <3> HIDE DEF e, none, own, wp, wr, f1, f2, f3, ip
    <3>2. Ending(f1, own, wp, none, none, none) /\ IsCall(f1)
      BY <1>1, <3>1, FiniIsEnding DEF f1, own, none
    <3>3. Ending(f2, own, wr, none, none, none) /\ IsCall(f2)
      BY <1>1, <3>2, FiniIsEnding DEF f2, own, none
    <3>4. Ending(f3, own, none, ip, none, none) /\ IsCall(f3)
      BY <1>1, <3>3, WriterFiniIsEnding DEF f3, none, own, wr, ip
    <3>5. (Fini("writer") \o Fini("pages")) \o Fini("index") = f3
      <4> DEFINE a == Fini("writer")
                 b == Fini("pages")
                 c == Fini("index")
      <4>1. IsCall(a) /\ IsCall(b) /\ IsCall(c)
        BY FiniIsCall
      <4> HIDE DEF a, b, c
      <4>2. (a \o b) \o c = a \o (b \o c) /\ c \o e = c
        BY <4>1, CatAssoc, CatEmpty, SMTT(30) DEF e
      <4> QED
        BY <4>2 DEF f1, f2, f3, a, b, c
    <3> QED
      BY <2>2, <3>4, <3>5
  <2> QED
    BY <2>1, <2>2
<1>4. IsCall(pages) /\ Ending(p1, own, none, ip, none, none)
  <2>1. CASE purge = "pages"
    <3> DEFINE q == {"pages"}
               s1 == <<Unlock("pages")>> \o all
               s2 == <<Lock("write", "pages", e)>> \o s1
    <3>1. /\ q \subseteq Objects /\ q = none \cup {"pages"} /\ none = q \ {"pages"}
          /\ "pages" \in q
      BY <1>1
    <3>2. pages = <<Lock("write", "pages", e), Unlock("pages")>>
      BY <2>1
    <3>3. p1 = s2 /\ IsCall(pages)
      <4> HIDE DEF pages, all
      <4>1. <<Lock("write", "pages", e), Unlock("pages")>> \o all = s2
        BY <1>3, Cat2
      <4>2. IsCall(<<Lock("write", "pages", e), Unlock("pages")>>)
        BY Literals
      <4> QED
        BY <3>2, <4>1, <4>2
    <3> HIDE DEF e, none, own, ip, s1, s2, q, all, p1
    <3>4. Ending(s1, own, none, ip, none, q)
      BY <1>1, <1>3, <3>1, EndUnlock DEF s1
    <3>5. Ending(s2, own, none, ip, none, none)
      BY <1>1, <3>1, <3>4, EndWrite DEF s2
    <3> QED
      BY <3>3, <3>5
  <2>2. CASE purge # "pages"
    <3>1. pages = e
      BY <2>2
    <3>2. e \o all = all
      <4> HIDE DEF all
      <4> QED
        BY <1>3, CatEmpty
    <3> QED
      BY <3>1, <3>2, <1>2, <1>3
  <2> QED
    BY <2>1, <2>2
<1>5. VfsFini(purge)
        = Cat(Cat(Cat(Cat(LockExclusive("writer"), LockExclusive("index")),
                      LockExclusive("pages")), pages), all)
  BY DEF VfsFini, Cat
<1>6. IsCall(LockExclusive("writer")) /\ IsCall(LockExclusive("index")) /\ IsCall(LockExclusive("pages"))
  BY Literals DEF LockExclusive
<1> HIDE DEF pages, all, e, none, ip, wr, wi, wp, own, p1, l1, l2, l3
<1>7. VfsFini(purge)
        = Cat(LockExclusive("writer"),
              Cat(LockExclusive("index"), Cat(LockExclusive("pages"), Cat(pages, all))))
  BY <1>3, <1>4, <1>5, <1>6, CatFive
<1>8. Ending(l3, wi, none, ip, none, none)
  BY <1>1, <1>4, ExclusiveIsEnding DEF l3, none
<1>9. Ending(l2, wr, none, ip, none, none)
  BY <1>1, <1>8, ExclusiveIsEnding DEF l2, none
<1>10. Ending(l1, none, none, ip, none, none)
  BY <1>1, <1>9, ExclusiveIsEnding DEF l1, none
<1> QED
  BY <1>7, <1>10 DEF l1, l2, l3, p1, none, ip, Cat

-----------------------------------------------------------------------------
(* Counting locks and soft locks *)

\* One token for each lock that a thread has on an object
Tokens(h) == {p \in Threads \X Nat : 1 <= p[2] /\ p[2] <= h[p[1]]}

\* What numLocks says of the locks that are granted: h has their number for
\* each thread.
Counts(n, h) ==
  \/ /\ n = -1
     /\ \E t \in Threads : h[t] = 1 /\ \A s \in Threads \ {t} : h[s] = 0
  \/ IsFiniteSet(Tokens(h)) /\ n = Cardinality(Tokens(h))

\* h2 is h with one lock more for t.
OneMore(h, h2, t) ==
  /\ h2[t] = h[t] + 1
  /\ \A s \in Threads \ {t} : h2[s] = h[s]

LEMMA TokensOneMore ==
  ASSUME NEW h \in [Threads -> Nat], NEW h2 \in [Threads -> Nat], NEW t \in Threads,
         OneMore(h, h2, t)
  PROVE  /\ Tokens(h2) = Tokens(h) \cup {<<t, h[t] + 1>>}
         /\ <<t, h[t] + 1>> \notin Tokens(h)
<1>1. h2[t] = h[t] + 1 /\ \A s \in Threads \ {t} : h2[s] = h[s]
  BY DEF OneMore
<1>2. ASSUME NEW s \in Threads, NEW k \in Nat
      PROVE  <<s, k>> \in Tokens(h2) <=> <<s, k>> \in Tokens(h) \/ (s = t /\ k = h[t] + 1)
  <2>1. <<s, k>> \in Tokens(h2) <=> 1 <= k /\ k <= h2[s]
    BY DEF Tokens
  <2>2. <<s, k>> \in Tokens(h) <=> 1 <= k /\ k <= h[s]
    BY DEF Tokens
  <2>3. h[s] \in Nat /\ h2[s] \in Nat
    OBVIOUS
  <2> QED
    BY <1>1, <2>1, <2>2, <2>3
<1>3. /\ Tokens(h2) \subseteq Threads \X Nat /\ Tokens(h) \subseteq Threads \X Nat
      /\ h[t] + 1 \in Nat
  BY DEF Tokens
<1>4. Tokens(h2) \subseteq Tokens(h) \cup {<<t, h[t] + 1>>}
  <2> SUFFICES ASSUME NEW p \in Tokens(h2) PROVE p \in Tokens(h) \cup {<<t, h[t] + 1>>}
    OBVIOUS
  <2>1. PICK s \in Threads, k \in Nat : p = <<s, k>>
    BY <1>3
  <2> QED
    BY <1>2, <2>1
<1>5. Tokens(h) \cup {<<t, h[t] + 1>>} \subseteq Tokens(h2)
  <2> SUFFICES ASSUME NEW p \in Tokens(h) \cup {<<t, h[t] + 1>>} PROVE p \in Tokens(h2)
    OBVIOUS
  <2>1. PICK s \in Threads, k \in Nat : p = <<s, k>>
    BY <1>3
  <2> QED
    BY <1>2, <1>3, <2>1
<1>6. <<t, h[t] + 1>> \notin Tokens(h)
  BY DEF Tokens
<1> QED
  BY <1>4, <1>5, <1>6

LEMMA NoTokens ==
  ASSUME NEW h \in [Threads -> Nat]
  PROVE  /\ (\A t \in Threads : h[t] = 0) <=> Tokens(h) = {}
         /\ (\A t \in Threads : h[t] = 0) => Counts(0, h)
<1>1. (\A t \in Threads : h[t] = 0) => Tokens(h) = {}
  BY DEF Tokens
<1>2. ASSUME Tokens(h) = {}, NEW t \in Threads PROVE h[t] = 0
  <2>1. <<t, 1>> \notin Tokens(h)
    BY <1>2
  <2> QED
    BY <2>1 DEF Tokens
<1>3. IsFiniteSet({}) /\ Cardinality({}) = 0
  BY FS_EmptySet
<1> QED
  BY <1>1, <1>2, <1>3 DEF Counts

LEMMA CountsType ==
  ASSUME NEW h \in [Threads -> Nat], NEW n, Counts(n, h)
  PROVE  n \in Nat \cup {-1}
  BY FS_CardinalityType DEF Counts

\* A free mutex: nobody has a lock, and the one that is granted is alone.
LEMMA CountsWrite ==
  ASSUME NEW h \in [Threads -> Nat], NEW h2 \in [Threads -> Nat], NEW t \in Threads,
         Counts(0, h), OneMore(h, h2, t)
  PROVE  Counts(-1, h2) /\ \A s \in Threads : h[s] = 0
<1>1. IsFiniteSet(Tokens(h)) /\ Cardinality(Tokens(h)) = 0
  BY DEF Counts
<1>2. Tokens(h) = {}
  BY <1>1, FS_EmptySet
<1>3. \A s \in Threads : h[s] = 0
  BY <1>2, NoTokens
<1> QED
  BY <1>3 DEF Counts, OneMore

LEMMA CountsRead ==
  ASSUME NEW h \in [Threads -> Nat], NEW h2 \in [Threads -> Nat], NEW t \in Threads,
         NEW n, Counts(n, h), n >= 0, OneMore(h, h2, t)
  PROVE  Counts(n + 1, h2)
<1>1. IsFiniteSet(Tokens(h)) /\ Cardinality(Tokens(h)) = n
  BY DEF Counts
<1>2. /\ Tokens(h2) = Tokens(h) \cup {<<t, h[t] + 1>>}
      /\ <<t, h[t] + 1>> \notin Tokens(h)
  BY TokensOneMore
<1>3. IsFiniteSet(Tokens(h2)) /\ Cardinality(Tokens(h2)) = n + 1
  BY <1>1, <1>2, FS_AddElement
<1> QED
  BY <1>3 DEF Counts

LEMMA CountsUnlock ==
  ASSUME NEW h \in [Threads -> Nat], NEW h2 \in [Threads -> Nat], NEW t \in Threads,
         NEW n, Counts(n, h), OneMore(h2, h, t)
  PROVE  Counts(IF n <= 0 THEN 0 ELSE n - 1, h2)
<1>1. h[t] = h2[t] + 1 /\ \A s \in Threads \ {t} : h[s] = h2[s]
  BY DEF OneMore
<1>2. CASE /\ n = -1
           /\ \E s \in Threads : h[s] = 1 /\ \A r \in Threads \ {s} : h[r] = 0
  <2>1. \A s \in Threads : h2[s] = 0
    BY <1>1, <1>2
  <2>2. (IF n <= 0 THEN 0 ELSE n - 1) = 0
    BY <1>2
  <2> QED
    BY <2>1, <2>2, NoTokens
<1>3. CASE IsFiniteSet(Tokens(h)) /\ n = Cardinality(Tokens(h))
  <2>1. /\ Tokens(h) = Tokens(h2) \cup {<<t, h2[t] + 1>>}
        /\ <<t, h2[t] + 1>> \notin Tokens(h2)
    BY TokensOneMore
  <2>2. IsFiniteSet(Tokens(h2))
    BY <1>3, <2>1, FS_Subset
  <2>3. Cardinality(Tokens(h)) = Cardinality(Tokens(h2)) + 1 /\ Cardinality(Tokens(h2)) \in Nat
    BY <2>1, <2>2, FS_AddElement, FS_CardinalityType
  <2>4. n > 0 /\ n - 1 = Cardinality(Tokens(h2))
    BY <1>3, <2>3
  <2>5. Counts(n - 1, h2)
    BY <2>2, <2>4 DEF Counts
  <2>6. (IF n <= 0 THEN 0 ELSE n - 1) = n - 1
    BY <1>3, <2>3, <2>4
  <2> QED
    BY <2>5, <2>6
<1> QED
  BY <1>2, <1>3 DEF Counts

\* The only one that has a write lock
LEMMA CountsAlone ==
  ASSUME NEW h \in [Threads -> Nat], NEW t \in Threads, Counts(-1, h), h[t] >= 1
  PROVE  \A s \in Threads \ {t} : h[s] = 0
<1>1. ~(IsFiniteSet(Tokens(h)) /\ -1 = Cardinality(Tokens(h)))
  BY FS_CardinalityType
<1>2. PICK u \in Threads : h[u] = 1 /\ \A s \in Threads \ {u} : h[s] = 0
  BY <1>1 DEF Counts
<1> QED
  BY <1>2

\* The threads that have a soft lock on o, other than the writer
SoftOwners(soft, o) == {t \in Threads : o \in soft[t]}

LEMMA SoftFinite ==
  ASSUME NEW soft, NEW o
  PROVE  /\ IsFiniteSet(SoftOwners(soft, o)) /\ Cardinality(SoftOwners(soft, o)) \in Nat
         /\ Cardinality(SoftOwners(soft, o)) = 0 <=> \A t \in Threads : o \notin soft[t]
<1>1. IsFiniteSet(SoftOwners(soft, o)) /\ Cardinality(SoftOwners(soft, o)) \in Nat
  <2>1. IsFiniteSet(Threads) /\ SoftOwners(soft, o) \subseteq Threads
    BY MountAssumption DEF SoftOwners
  <2>2. IsFiniteSet(SoftOwners(soft, o))
    BY <2>1, FS_Subset
  <2> QED
    BY <2>2, FS_CardinalityType
<1>2. Cardinality(SoftOwners(soft, o)) = 0 <=> SoftOwners(soft, o) = {}
  BY <1>1, FS_EmptySet
<1> QED
  BY <1>1, <1>2 DEF SoftOwners

LEMMA SoftOneMore ==
  ASSUME NEW soft, NEW soft2, NEW o, NEW t \in Threads,
         o \notin soft[t], o \in soft2[t],
         \A s \in Threads \ {t} : o \in soft[s] <=> o \in soft2[s]
  PROVE  Cardinality(SoftOwners(soft2, o)) = Cardinality(SoftOwners(soft, o)) + 1
<1>1. SoftOwners(soft2, o) = SoftOwners(soft, o) \cup {t} /\ t \notin SoftOwners(soft, o)
  BY DEF SoftOwners
<1>2. IsFiniteSet(SoftOwners(soft, o))
  BY SoftFinite
<1> QED
  BY <1>1, <1>2, FS_AddElement

LEMMA SoftSame ==
  ASSUME NEW soft, NEW soft2, NEW o,
         \A s \in Threads : o \in soft[s] <=> o \in soft2[s]
  PROVE  SoftOwners(soft2, o) = SoftOwners(soft, o)
  BY DEF SoftOwners

-----------------------------------------------------------------------------
(* The inductive invariant *)

Kind(t) ==
  IF <<t, "reader">> \in channels THEN "reader"
  ELSE IF <<t, "writer">> \in channels THEN "writer" ELSE "none"

\* What lets a call go on: global.mx is its own, or it is one of the handle's.
Rights(t) ==
  {r \in {"path", "handle"} : \/ r = "path" /\ globalMx = t
                              \/ r = "handle" /\ listed /\ t = Unmounter}

Owned == {o \in Objects : threadId[o] = Unmounter}
Dead == {o \in Objects : isDead[o]}
Dying == {o \in Objects : mxLockSoft[o] # NULL}

\* The invariant speaks of five things that the state leaves unsaid: the locks
\* that each thread's call has taken (hold) and its soft locks (soft), the soft
\* locks of the writer (wsoft), whether the unmounting thread is in
\* Cookfs_VfsFini (fin), and the locks it took there and gives back (w).
Ghosts(hold, soft, wsoft, w, fin) ==
  /\ hold \in [Threads -> [Objects -> Nat]] /\ soft \in [Threads -> SUBSET Objects]
  /\ wsoft \subseteq {"index", "pages"} /\ w \subseteq Objects /\ fin \in BOOLEAN
  /\ \A t \in Threads : \A o \in Objects : hold[t][o] <= held[t][o]

Scripts(hold, soft, fin) ==
  \A t \in Threads :
    ~(fin /\ t = Unmounter) => Safe(todo[t], Rights(t), hold[t], soft[t], Kind(t))

Ends(hold, soft, wsoft, w, fin) ==
  fin => /\ Ending(todo[Unmounter], Owned, Dead, wsoft, Dying, w)
         /\ soft[Unmounter] = SoftOf(Kind(Unmounter))
         /\ hold[Unmounter] = Hold(0, 0, 0)

Phase(hold, wsoft, fin) ==
  /\ \A o \in Objects : threadId[o] \in {NULL, Unmounter}
  /\ Dying \subseteq Dead
  /\ listed => ~fin /\ Owned = {} /\ wsoft = {"index", "pages"}
  /\ globalMx # NULL => listed
  /\ Dead # {} => Owned = Objects
  /\ ~fin => Dying = {}
  /\ ~fin /\ ~listed =>
       /\ Owned = Objects
       /\ \/ Dead = Objects /\ wsoft = {} /\ hold[Unmounter] = Hold(0, 0, 0)
          \/ Dead = {} /\ "fails" \in Purges
  /\ wsoft \cap Dead = {}
  /\ \A t \in Threads : ~(<<t, "reader">> \in channels /\ <<t, "writer">> \in channels)

\* The number of locks on o that each thread has
Col(o) == [t \in Threads |-> held[t][o]]

LocksKept(w, fin) ==
  /\ fin \/ Dead # {} =>
       \A o \in Owned : \A t \in Threads \ {Unmounter} : held[t][o] = 0
  /\ \A o \in Objects : threadId[o] = NULL => Counts(numLocks[o], Col(o))
  /\ fin =>
       /\ \A o \in w \ Owned : numLocks[o] = -1
       /\ \A o \in Owned \ Dead :
            numLocks[o] = -1 \/ (o = "pages" /\ Owned = Objects /\ numLocks[o] = 0)
       /\ \A o \in w : held[Unmounter][o] >= 1

SoftKept(soft, wsoft) ==
  \A o \in Objects :
    /\ lockSoft[o] = Cardinality(SoftOwners(soft, o)) + (IF o \in wsoft THEN 1 ELSE 0)
    /\ isDead[o] /\ o \notin Dying /\ ~freed[o] => \E t \in Threads : o \in soft[t]
    /\ freed[o] => isDead[o] /\ o \notin Dying

\* With one channel at a time, whoever gives back the last soft lock of a dead
\* object is the last that had one.
Busy(t, fin) ==
  Kind(t) # "none" \/ (OpensOrCloses(todo[t]) /\ ~(fin /\ t = Unmounter))

OneBusy(soft, fin) ==
  MaxChannels <= 1 =>
    /\ \A s, t \in Threads : Busy(s, fin) /\ Busy(t, fin) => s = t
    /\ \A o \in Objects : freed[o] => \A t \in Threads : o \notin soft[t]

Sound(hold, soft, wsoft, w, fin) ==
  /\ TypeOK /\ Ghosts(hold, soft, wsoft, w, fin)
  /\ Scripts(hold, soft, fin) /\ Ends(hold, soft, wsoft, w, fin)
  /\ Phase(hold, wsoft, fin) /\ LocksKept(w, fin)
  /\ SoftKept(soft, wsoft) /\ OneBusy(soft, fin)

LifeIsSound == \E hold, soft, wsoft, w, fin : Sound(hold, soft, wsoft, w, fin)

-----------------------------------------------------------------------------
(* What a step of a call does to the scripts *)

LEMMA TailOpens ==
  ASSUME NEW s, IsCall(s), s # <<>>
  PROVE  /\ OpensOrCloses(Tail(s)) => OpensOrCloses(s)
         /\ Head(s).do \in {"opened", "unlockSoft"} => OpensOrCloses(s)
<1>1. PICK S : s \in Seq(S)
  BY DEF IsCall
<1>2. /\ Len(s) \in Nat /\ Len(s) > 0 /\ DOMAIN s = 1..Len(s)
      /\ Tail(s) \in Seq(S) /\ Len(Tail(s)) = Len(s) - 1
      /\ \A i \in 1..Len(Tail(s)) : Tail(s)[i] = s[i + 1]
      /\ Head(s) = s[1]
  BY <1>1
<1>3. DOMAIN Tail(s) = 1..Len(Tail(s))
  BY <1>2
<1>4. \A i \in DOMAIN Tail(s) : i + 1 \in DOMAIN s /\ Tail(s)[i] = s[i + 1]
  BY <1>2, <1>3
<1>5. 1 \in DOMAIN s
  BY <1>2
<1> QED
  BY <1>2, <1>4, <1>5 DEF OpensOrCloses

LEMMA KindIsKind == \A t : Kind(t) \in Kinds
  BY DEF Kind, Kinds

LEMMA RightsAreRights == \A t : Rights(t) \subseteq {"path", "handle"}
  BY DEF Rights

\* The call that a thread is in, outside of Cookfs_VfsFini
LEMMA CallStep ==
  ASSUME NEW hold, NEW soft, NEW wsoft, NEW w, NEW fin, Sound(hold, soft, wsoft, w, fin),
         NEW t \in Threads, ~(fin /\ t = Unmounter)
  PROVE  /\ Legal(todo[t], Rights(t), hold[t], soft[t], Kind(t))
         /\ \A s2, may2, hold2, soft2, kind2 :
              <<s2, may2, hold2, soft2, kind2>>
                  \in After(todo[t], Rights(t), hold[t], soft[t], Kind(t))
                => Safe(s2, may2, hold2, soft2, kind2)
<1>1. Safe(todo[t], Rights(t), hold[t], soft[t], Kind(t))
  BY DEF Sound, Scripts
<1> QED
  BY <1>1, SafeIsLegal

\* While a call may go on by its rights or its locks, nothing is dead.
LEMMA NothingIsDead ==
  ASSUME NEW hold, NEW soft, NEW wsoft, NEW w, NEW fin, Sound(hold, soft, wsoft, w, fin),
         NEW t \in Threads, ~(fin /\ t = Unmounter),
         Rights(t) # {} \/ \E o \in Objects : hold[t][o] > 0
  PROVE  Dead = {}
<1>1. Phase(hold, wsoft, fin) /\ LocksKept(w, fin) /\ TypeOK /\ Ghosts(hold, soft, wsoft, w, fin)
  BY DEF Sound
<1>2. listed => Dead = {}
  <2>1. "index" \in Objects
    BY DEF Objects
  <2> QED
    BY <1>1, <2>1 DEF Phase
<1>3. Rights(t) # {} => listed
  <2>1. globalMx = t => globalMx # NULL
    BY MountAssumption
  <2> QED
    BY <1>1, <2>1 DEF Rights, Phase
<1>4. ASSUME NEW o \in Objects, hold[t][o] > 0 PROVE Dead = {}
  <2>1. hold[t][o] <= held[t][o] /\ hold[t][o] \in Nat /\ held[t][o] \in Nat
    BY <1>1 DEF Ghosts, TypeOK
  <2>2. held[t][o] # 0
    BY <1>4, <2>1
  <2>3. CASE t # Unmounter
    <3>1. Dead # {} => o \in Owned
      BY <1>1 DEF Phase
    <3> QED
      BY <1>1, <2>2, <2>3, <3>1 DEF LocksKept
  <2>4. CASE t = Unmounter
    <3>1. hold[t] # Hold(0, 0, 0)
      BY <1>4 DEF Hold
    <3> QED
      BY <1>1, <1>2, <2>4, <3>1 DEF Phase
  <2> QED
    BY <2>3, <2>4
<1> QED
  BY <1>2, <1>3, <1>4

LEMMA CallMoves ==
  ASSUME NEW hold, NEW soft, NEW wsoft, NEW w, NEW fin, Sound(hold, soft, wsoft, w, fin),
         NEW t \in Threads, ~(fin /\ t = Unmounter),
         NEW s2, NEW hold2, NEW soft2,
         todo' = [todo EXCEPT ![t] = s2],
         \A s \in Threads \ {t} : hold2[s] = hold[s] /\ soft2[s] = soft[s],
         <<s2, Rights(t)', hold2[t], soft2[t], Kind(t)'>>
           \in After(todo[t], Rights(t), hold[t], soft[t], Kind(t)),
         \A s \in Threads \ {t} : Rights(s)' = Rights(s) /\ Kind(s)' = Kind(s),
         Owned' = Owned, Dead' = Dead, Dying' = Dying,
         Kind(t)' # "none" => Kind(t) # "none" \/ OpensOrCloses(todo[t])
  PROVE  /\ Scripts(hold2, soft2, fin)' /\ Ends(hold2, soft2, wsoft, w, fin)'
         /\ DOMAIN todo' = Threads
         /\ \A s \in Threads : Busy(s, fin)' => Busy(s, fin)
<1>1. /\ DOMAIN todo = Threads
      /\ Scripts(hold, soft, fin) /\ Ends(hold, soft, wsoft, w, fin)
  BY DEF Sound, TypeOK
<1>2. /\ DOMAIN todo' = Threads /\ todo'[t] = s2
      /\ \A s \in Threads \ {t} : todo'[s] = todo[s]
  BY <1>1
<1>3. Safe(s2, Rights(t)', hold2[t], soft2[t], Kind(t)')
  BY CallStep
<1>4. Scripts(hold2, soft2, fin)'
  <2> SUFFICES ASSUME NEW s \in Threads, ~(fin /\ s = Unmounter)
               PROVE  Safe(todo'[s], Rights(s)', hold2[s], soft2[s], Kind(s)')
    BY DEF Scripts
  <2>1. CASE s = t
    BY <1>2, <1>3, <2>1
  <2>2. CASE s # t
    BY <1>1, <1>2, <2>2 DEF Scripts
  <2> QED
    BY <2>1, <2>2
<1>5. Ends(hold2, soft2, wsoft, w, fin)'
  <2> SUFFICES ASSUME fin
               PROVE  /\ Ending(todo'[Unmounter], Owned', Dead', wsoft, Dying', w)
                      /\ soft2[Unmounter] = SoftOf(Kind(Unmounter)')
                      /\ hold2[Unmounter] = Hold(0, 0, 0)
    BY DEF Ends
  <2>1. Unmounter \in Threads \ {t}
    BY MountAssumption
  <2> QED
    BY <1>1, <1>2, <2>1 DEF Ends
<1>6. OpensOrCloses(s2) => OpensOrCloses(todo[t])
  <2>1. Legal(todo[t], Rights(t), hold[t], soft[t], Kind(t))
    BY CallStep
  <2>2. todo[t] # <<>>
    BY DEF After
  <2>3. s2 = Tail(todo[t]) \/ (Head(todo[t]).do \in {"read", "write"} /\ s2 = Head(todo[t]).or)
    BY <2>2 DEF After
  <2>4. IsCall(todo[t])
    BY <2>1 DEF Legal
  <2>5. CASE s2 = Tail(todo[t])
    BY <2>2, <2>4, <2>5, TailOpens
  <2>6. CASE Head(todo[t]).do \in {"read", "write"} /\ s2 = Head(todo[t]).or
    BY <2>1, <2>2, <2>6 DEF Legal
  <2> QED
    BY <2>3, <2>5, <2>6
<1>7. \A s \in Threads : Busy(s, fin)' => Busy(s, fin)
  <2> SUFFICES ASSUME NEW s \in Threads, Busy(s, fin)' PROVE Busy(s, fin)
    OBVIOUS
  <2>1. CASE s = t
    BY <1>2, <1>6, <2>1 DEF Busy
  <2>2. CASE s # t
    BY <1>2, <2>2 DEF Busy
  <2> QED
    BY <2>1, <2>2
<1> QED
  BY <1>2, <1>4, <1>5, <1>7

\* The call that a thread begins: with hold2, the locks it is to have at first
Begun(hold, soft, fin, t, s2, hold2) ==
  /\ ~(fin /\ t = Unmounter)
  /\ todo' = [todo EXCEPT ![t] = s2]
  /\ \A s \in Threads \ {t} : hold2[s] = hold[s]
  /\ Safe(s2, Rights(t)', hold2[t], soft[t], Kind(t)')
  /\ \A s \in Threads \ {t} : Rights(s)' = Rights(s) /\ Kind(s)' = Kind(s)
  /\ Owned' = Owned /\ Dead' = Dead /\ Dying' = Dying

LEMMA CallBegins ==
  ASSUME NEW hold, NEW soft, NEW wsoft, NEW w, NEW fin, Sound(hold, soft, wsoft, w, fin),
         NEW t \in Threads, NEW s2, NEW hold2, Begun(hold, soft, fin, t, s2, hold2)
  PROVE  /\ Scripts(hold2, soft, fin)' /\ Ends(hold2, soft, wsoft, w, fin)'
         /\ DOMAIN todo' = Threads
         /\ \A s \in Threads \ {t} : Busy(s, fin)' => Busy(s, fin)
         /\ todo'[t] = s2
<1>1. /\ DOMAIN todo = Threads
      /\ Scripts(hold, soft, fin) /\ Ends(hold, soft, wsoft, w, fin)
  BY DEF Sound, TypeOK
<1>2. /\ DOMAIN todo' = Threads /\ todo'[t] = s2
      /\ \A s \in Threads \ {t} : todo'[s] = todo[s]
  BY <1>1 DEF Begun
<1>3. /\ ~(fin /\ t = Unmounter)
      /\ \A s \in Threads \ {t} : hold2[s] = hold[s]
      /\ Safe(s2, Rights(t)', hold2[t], soft[t], Kind(t)')
      /\ \A s \in Threads \ {t} : Rights(s)' = Rights(s) /\ Kind(s)' = Kind(s)
      /\ Owned' = Owned /\ Dead' = Dead /\ Dying' = Dying
  BY DEF Begun
<1>4. Scripts(hold2, soft, fin)'
  <2> SUFFICES ASSUME NEW s \in Threads, ~(fin /\ s = Unmounter)
               PROVE  Safe(todo'[s], Rights(s)', hold2[s], soft[s], Kind(s)')
    BY DEF Scripts
  <2>1. CASE s = t
    BY <1>2, <1>3, <2>1
  <2>2. CASE s # t
    BY <1>1, <1>2, <1>3, <2>2 DEF Scripts
  <2> QED
    BY <2>1, <2>2
<1>5. Ends(hold2, soft, wsoft, w, fin)'
  <2> SUFFICES ASSUME fin
               PROVE  /\ Ending(todo'[Unmounter], Owned', Dead', wsoft, Dying', w)
                      /\ soft[Unmounter] = SoftOf(Kind(Unmounter)')
                      /\ hold2[Unmounter] = Hold(0, 0, 0)
    BY DEF Ends
  <2>1. Unmounter \in Threads \ {t}
    BY <1>3, MountAssumption
  <2> QED
    BY <1>1, <1>2, <1>3, <2>1 DEF Ends
<1>7. ASSUME NEW s \in Threads \ {t}, Busy(s, fin)' PROVE Busy(s, fin)
  BY <1>2, <1>3, <1>7 DEF Busy
<1> QED
  BY <1>2, <1>4, <1>5, <1>7

\* A step of Cookfs_VfsFini
LEMMA FiniMoves ==
  ASSUME NEW hold, NEW soft, NEW wsoft, NEW w, NEW fin, Sound(hold, soft, wsoft, w, fin),
         fin, todo[Unmounter] # <<>>, NEW wsoft2, NEW w2,
         todo' = [todo EXCEPT ![Unmounter] = Tail(@)],
         EndNext(todo[Unmounter], Owned, Dead, wsoft, Dying, w)
           = <<Tail(todo[Unmounter]), Owned', Dead', wsoft2, Dying', w2>>,
         \A s \in Threads : Rights(s)' = Rights(s) /\ Kind(s)' = Kind(s)
  PROVE  /\ Scripts(hold, soft, fin)' /\ Ends(hold, soft, wsoft2, w2, fin)'
         /\ DOMAIN todo' = Threads
         /\ \A s \in Threads : Busy(s, fin)' => Busy(s, fin)
<1>1. /\ DOMAIN todo = Threads
      /\ Scripts(hold, soft, fin) /\ Ends(hold, soft, wsoft, w, fin) /\ Unmounter \in Threads
  BY MountAssumption DEF Sound, TypeOK
<1>2. /\ DOMAIN todo' = Threads /\ todo'[Unmounter] = Tail(todo[Unmounter])
      /\ \A s \in Threads \ {Unmounter} : todo'[s] = todo[s]
  BY <1>1
<1>3. Ending(Tail(todo[Unmounter]), Owned', Dead', wsoft2, Dying', w2)
  <2>1. Ending(todo[Unmounter], Owned, Dead, wsoft, Dying, w)
    BY <1>1 DEF Ends
  <2> QED
    BY <2>1, EndingIsLegal
<1>4. Scripts(hold, soft, fin)'
  BY <1>1, <1>2 DEF Scripts
<1>5. Ends(hold, soft, wsoft2, w2, fin)'
  BY <1>1, <1>2, <1>3 DEF Ends
<1>7. \A s \in Threads : Busy(s, fin)' => Busy(s, fin)
  BY <1>2 DEF Busy
<1> QED
  BY <1>2, <1>4, <1>5, <1>7

-----------------------------------------------------------------------------
(* What stays as it was *)

LEMMA KindsStay ==
  ASSUME UNCHANGED channels
  PROVE  \A s : Kind(s)' = Kind(s)
  BY DEF Kind

LEMMA RightsStay ==
  ASSUME UNCHANGED <<listed, globalMx>>
  PROVE  \A s : Rights(s)' = Rights(s)
  BY DEF Rights

LEMMA LivesStay ==
  ASSUME UNCHANGED <<threadId, isDead, mxLockSoft>>
  PROVE  Owned' = Owned /\ Dead' = Dead /\ Dying' = Dying
  BY DEF Owned, Dead, Dying

LEMMA LocksStay ==
  ASSUME NEW w, NEW fin, LocksKept(w, fin),
         UNCHANGED <<numLocks, threadId, held, isDead>>
  PROVE  LocksKept(w, fin)'
  BY DEF LocksKept, Owned, Dead, Col

LEMMA SoftStay ==
  ASSUME NEW soft, NEW wsoft, SoftKept(soft, wsoft), UNCHANGED life
  PROVE  SoftKept(soft, wsoft)'
  BY DEF SoftKept, Dying, life

LEMMA BusyStay ==
  ASSUME NEW soft, NEW fin, OneBusy(soft, fin), UNCHANGED freed,
         \A s \in Threads : Busy(s, fin)' => Busy(s, fin)
  PROVE  OneBusy(soft, fin)'
  BY DEF OneBusy

LEMMA PhaseStays ==
  ASSUME NEW hold, NEW hold2, NEW wsoft, NEW fin, Phase(hold, wsoft, fin),
         UNCHANGED <<listed, globalMx, threadId, isDead, mxLockSoft, channels>>,
         ~fin /\ Dead = Objects => hold2[Unmounter] = hold[Unmounter]
  PROVE  Phase(hold2, wsoft, fin)'
<1>1. Owned' = Owned /\ Dead' = Dead /\ Dying' = Dying
  BY LivesStay
<1> QED
  BY <1>1 DEF Phase

LEMMA WokenType ==
  ASSUME wait \in [Threads -> {"no", "asleep", "woken"}], NEW o
  PROVE  Woken(o) \in [Threads -> {"no", "asleep", "woken"}]
  BY DEF Woken

-----------------------------------------------------------------------------
(* Locking *)

LEMMA SleepKeeps ==
  ASSUME LifeIsSound, NEW t \in Threads, wait' = [wait EXCEPT ![t] = "asleep"],
         UNCHANGED <<listed, globalMx, numLocks, threadId, held, life, todo, channels>>
  PROVE  LifeIsSound'
<1>1. PICK hold, soft, wsoft, w, fin : Sound(hold, soft, wsoft, w, fin)
  BY DEF LifeIsSound
<1>2. /\ TypeOK /\ Ghosts(hold, soft, wsoft, w, fin)
      /\ Scripts(hold, soft, fin) /\ Ends(hold, soft, wsoft, w, fin)
      /\ Phase(hold, wsoft, fin) /\ LocksKept(w, fin)
      /\ SoftKept(soft, wsoft) /\ OneBusy(soft, fin)
  BY <1>1 DEF Sound
<1>3. /\ \A s : Kind(s)' = Kind(s) /\ Rights(s)' = Rights(s)
      /\ Owned' = Owned /\ Dead' = Dead /\ Dying' = Dying
  BY KindsStay, RightsStay, LivesStay DEF life
<1>4. TypeOK'
  BY <1>2 DEF TypeOK, life
<1>5. Ghosts(hold, soft, wsoft, w, fin)'
  BY <1>2 DEF Ghosts
<1>6. Scripts(hold, soft, fin)' /\ Ends(hold, soft, wsoft, w, fin)'
  BY <1>2, <1>3 DEF Scripts, Ends
<1>7. Phase(hold, wsoft, fin)' /\ LocksKept(w, fin)' /\ SoftKept(soft, wsoft)'
  BY <1>2, PhaseStays, LocksStay, SoftStay DEF life
<1>8. OneBusy(soft, fin)'
  <2>1. \A s \in Threads : Busy(s, fin)' => Busy(s, fin)
    BY <1>3 DEF Busy
  <2> QED
    BY <1>2, <2>1, BusyStay DEF life
<1> QED
  BY <1>4, <1>5, <1>6, <1>7, <1>8 DEF Sound, LifeIsSound

\* The locks that Cookfs_VfsFini takes are never refused: its thread has the
\* objects for itself or waits for them, and none is dead yet.
LEMMA FiniAt ==
  ASSUME NEW hold, NEW soft, NEW wsoft, NEW w, NEW fin, Sound(hold, soft, wsoft, w, fin),
         fin, NEW step, NEW o, At(Unmounter, step, o)
  PROVE  /\ todo[Unmounter] # <<>>
         /\ Head(todo[Unmounter]).do = step /\ Head(todo[Unmounter]).on = o
         /\ EndLegal(todo[Unmounter], Owned, Dead, wsoft, Dying, w)
<1>1. Ending(todo[Unmounter], Owned, Dead, wsoft, Dying, w)
  BY DEF Sound, Ends
<1> QED
  BY <1>1, EndingIsLegal DEF At, Idle

LEMMA CallAt ==
  ASSUME NEW hold, NEW soft, NEW wsoft, NEW w, NEW fin, Sound(hold, soft, wsoft, w, fin),
         NEW t \in Threads, ~(fin /\ t = Unmounter), NEW step, NEW o, At(t, step, o)
  PROVE  /\ todo[t] # <<>> /\ Head(todo[t]).do = step /\ Head(todo[t]).on = o
         /\ Legal(todo[t], Rights(t), hold[t], soft[t], Kind(t))
  BY CallStep DEF At, Idle

LEMMA RefusedKeeps ==
  ASSUME LifeIsSound, NEW t \in Threads, NEW o \in Objects,
         At(t, "read", o) \/ At(t, "write", o),
         Refused(t), wait' \in [Threads -> {"no", "asleep", "woken"}],
         isDead[o] \/ threadId[o] \notin {t, NULL},
         UNCHANGED <<listed, globalMx, numLocks, threadId, held, life, channels>>
  PROVE  LifeIsSound'
<1>1. PICK hold, soft, wsoft, w, fin : Sound(hold, soft, wsoft, w, fin)
  BY DEF LifeIsSound
<1>2. /\ TypeOK /\ Ghosts(hold, soft, wsoft, w, fin)
      /\ Phase(hold, wsoft, fin) /\ LocksKept(w, fin)
      /\ SoftKept(soft, wsoft) /\ OneBusy(soft, fin)
  BY <1>1 DEF Sound
<1>3. /\ \A s : Kind(s)' = Kind(s) /\ Rights(s)' = Rights(s)
      /\ Owned' = Owned /\ Dead' = Dead /\ Dying' = Dying
  BY KindsStay, RightsStay, LivesStay DEF life
<1>4. ~(fin /\ t = Unmounter)
  <2> SUFFICES ASSUME fin, t = Unmounter PROVE FALSE
    OBVIOUS
  <2>1. isDead[o]
    BY <1>2 DEF Phase
  <2>2. PICK step \in {"read", "write"} : At(t, step, o)
    OBVIOUS
  <2>3. /\ todo[t] # <<>> /\ Head(todo[t]).do = step /\ Head(todo[t]).on = o
        /\ EndLegal(todo[t], Owned, Dead, wsoft, Dying, w)
    BY <1>1, <2>2, FiniAt
  <2>4. o \notin Dead
    BY <2>3 DEF EndLegal
  <2> QED
    BY <2>1, <2>4 DEF Dead
<1>5. PICK step \in {"read", "write"} : At(t, step, o)
  OBVIOUS
<1>6. todo[t] # <<>> /\ Head(todo[t]).do = step /\ Head(todo[t]).on = o
  BY <1>1, <1>4, <1>5, CallAt
<1> DEFINE s2 == Head(todo[t]).or
<1>7. todo' = [todo EXCEPT ![t] = s2]
  BY <1>2, <1>6 DEF Refused, TypeOK
<1>8. <<s2, Rights(t)', hold[t], soft[t], Kind(t)'>>
        \in After(todo[t], Rights(t), hold[t], soft[t], Kind(t))
  BY <1>3, <1>6 DEF After
<1> HIDE DEF s2
<1>9. /\ Scripts(hold, soft, fin)' /\ Ends(hold, soft, wsoft, w, fin)'
      /\ DOMAIN todo' = Threads
      /\ \A s \in Threads : Busy(s, fin)' => Busy(s, fin)
  BY <1>1, <1>3, <1>4, <1>7, <1>8, CallMoves
<1>10. TypeOK'
  BY <1>2, <1>9 DEF TypeOK, life
<1>11. Ghosts(hold, soft, wsoft, w, fin)'
  BY <1>2 DEF Ghosts
<1>12. Phase(hold, wsoft, fin)' /\ LocksKept(w, fin)' /\ SoftKept(soft, wsoft)'
  BY <1>2, PhaseStays, LocksStay, SoftStay DEF life
<1>13. OneBusy(soft, fin)'
  BY <1>2, <1>9, BusyStay DEF life
<1> QED
  BY <1>9, <1>10, <1>11, <1>12, <1>13 DEF Sound, LifeIsSound

LEMMA HeldUp ==
  ASSUME NEW t \in Threads, NEW o \in Objects,
         held \in [Threads -> [Objects -> Nat]],
         held' = [held EXCEPT ![t][o] = @ + 1]
  PROVE  /\ held' \in [Threads -> [Objects -> Nat]]
         /\ held'[t][o] = held[t][o] + 1
         /\ \A s \in Threads : \A p \in Objects : s # t \/ p # o => held'[s][p] = held[s][p]
         /\ \A p \in Objects : /\ Col(p) \in [Threads -> Nat] /\ Col(p)' \in [Threads -> Nat]
                               /\ p # o => Col(p)' = Col(p)
         /\ OneMore(Col(o), Col(o)', t)
<1>1. held' \in [Threads -> [Objects -> Nat]]
  OBVIOUS
<1>2. held'[t][o] = held[t][o] + 1
  OBVIOUS
<1>3. \A s \in Threads : \A p \in Objects : s # t \/ p # o => held'[s][p] = held[s][p]
  OBVIOUS
<1>4. ASSUME NEW p \in Objects
      PROVE  /\ Col(p) \in [Threads -> Nat] /\ Col(p)' \in [Threads -> Nat]
             /\ p # o => Col(p)' = Col(p)
  BY <1>1, <1>3 DEF Col
<1>5. OneMore(Col(o), Col(o)', t)
  BY <1>2, <1>3 DEF Col, OneMore
<1> QED
  BY <1>1, <1>2, <1>3, <1>4, <1>5

LEMMA HeldDown ==
  ASSUME NEW t \in Threads, NEW o \in Objects,
         held \in [Threads -> [Objects -> Nat]], held[t][o] > 0,
         held' = [held EXCEPT ![t][o] = @ - 1]
  PROVE  /\ held' \in [Threads -> [Objects -> Nat]]
         /\ held'[t][o] = held[t][o] - 1
         /\ \A s \in Threads : \A p \in Objects : s # t \/ p # o => held'[s][p] = held[s][p]
         /\ \A p \in Objects : /\ Col(p) \in [Threads -> Nat] /\ Col(p)' \in [Threads -> Nat]
                               /\ p # o => Col(p)' = Col(p)
         /\ OneMore(Col(o)', Col(o), t)
<1>1. held' \in [Threads -> [Objects -> Nat]]
  OBVIOUS
<1>2. held'[t][o] = held[t][o] - 1 /\ held[t][o] \in Nat
  OBVIOUS
<1>3. \A s \in Threads : \A p \in Objects : s # t \/ p # o => held'[s][p] = held[s][p]
  OBVIOUS
<1>4. ASSUME NEW p \in Objects
      PROVE  /\ Col(p) \in [Threads -> Nat] /\ Col(p)' \in [Threads -> Nat]
             /\ p # o => Col(p)' = Col(p)
  BY <1>1, <1>3 DEF Col
<1>5. OneMore(Col(o)', Col(o), t)
  BY <1>2, <1>3 DEF Col, OneMore
<1> QED
  BY <1>1, <1>2, <1>3, <1>4, <1>5

\* How Cookfs_RWMutexLockRead and ...LockWrite set numLocks
GrantedAs(t, step, o, n) ==
  \/ threadId[o] = t /\ n = numLocks[o]
  \/ step = "read" /\ threadId[o] = NULL /\ numLocks[o] >= 0 /\ n = numLocks[o] + 1
  \/ step = "write" /\ threadId[o] = NULL /\ numLocks[o] = 0 /\ n = -1
  \/ step = "write" /\ numLocks[o] = 0 /\ n = -1

Takes(t, o, n) ==
  /\ numLocks' = [numLocks EXCEPT ![o] = n]
  /\ held' = [held EXCEPT ![t][o] = @ + 1]

\* A thread that is not in Cookfs_VfsFini gets a lock only as far as those of
\* Cookfs_VfsFini let it.
LEMMA GrantKeepsLocks ==
  ASSUME NEW hold, NEW soft, NEW wsoft, NEW w, NEW fin, Sound(hold, soft, wsoft, w, fin),
         NEW t \in Threads, NEW step \in {"read", "write"}, NEW o \in Objects, NEW n,
         NEW w2, w2 = IF fin /\ t = Unmounter THEN w \cup {o} ELSE w,
         At(t, step, o), GrantedAs(t, step, o, n), ~isDead[o], Takes(t, o, n),
         UNCHANGED <<threadId, isDead, mxLockSoft>>
  PROVE  LocksKept(w2, fin)' /\ numLocks' \in [Objects -> Nat \cup {-1}]
<1>1. /\ TypeOK /\ Ghosts(hold, soft, wsoft, w, fin)
      /\ Phase(hold, wsoft, fin) /\ LocksKept(w, fin)
  BY DEF Sound
<1>2. held \in [Threads -> [Objects -> Nat]] /\ numLocks \in [Objects -> Nat \cup {-1}]
  BY <1>1 DEF TypeOK
<1>3. /\ held' \in [Threads -> [Objects -> Nat]]
      /\ held'[t][o] = held[t][o] + 1
      /\ \A s \in Threads : \A p \in Objects : s # t \/ p # o => held'[s][p] = held[s][p]
      /\ \A p \in Objects : /\ Col(p) \in [Threads -> Nat] /\ Col(p)' \in [Threads -> Nat]
                            /\ p # o => Col(p)' = Col(p)
      /\ OneMore(Col(o), Col(o)', t)
  BY <1>2, HeldUp DEF Takes
<1>4. Owned' = Owned /\ Dead' = Dead /\ Dying' = Dying
  BY LivesStay
<1>5. numLocks'[o] = n /\ \A p \in Objects \ {o} : numLocks'[p] = numLocks[p]
  BY <1>2 DEF Takes
<1>6. threadId[o] \in {NULL, Unmounter} /\ NULL # Unmounter /\ o \notin Dead
  BY <1>1, MountAssumption DEF Phase, Dead
<1>7. o \in Owned <=> threadId[o] = Unmounter
  BY DEF Owned
<1>8. ASSUME o \in Owned, t # Unmounter PROVE ~fin /\ Dead = {}
  <2>1. step = "write" /\ numLocks[o] = 0
    BY <1>6, <1>7, <1>8 DEF GrantedAs
  <2>2. ASSUME fin PROVE FALSE
    <3>1. o = "pages" /\ Owned = Objects
      BY <1>1, <1>6, <1>8, <2>1, <2>2 DEF LocksKept
    <3>2. /\ todo[t] # <<>> /\ Head(todo[t]).do = "write" /\ Head(todo[t]).on = "pages"
          /\ Legal(todo[t], Rights(t), hold[t], soft[t], Kind(t))
      BY <1>8, <2>1, <3>1, CallAt
    <3>3. hold[t]["index"] > 0 \/ hold[t]["writer"] > 0
      BY <3>2 DEF Legal
    <3>4. PICK p \in Objects : hold[t][p] > 0
      BY <3>3 DEF Objects
    <3>5. held[t][p] = 0
      BY <1>1, <1>8, <2>2, <3>1 DEF LocksKept
    <3>6. hold[t][p] <= held[t][p]
      BY <1>1 DEF Ghosts
    <3>7. hold[t][p] \in Nat
      BY <1>1 DEF Ghosts
    <3> QED
      BY <3>4, <3>5, <3>6, <3>7
  <2>3. ASSUME Dead # {} PROVE fin
    BY <1>1, <1>6, <2>3 DEF Phase
  <2> QED
    BY <2>2, <2>3
<1>9. Counts(numLocks[o], Col(o)) \/ threadId[o] # NULL
  BY <1>1 DEF LocksKept
<1>10. ASSUME threadId[o] = NULL PROVE Counts(n, Col(o)')
  <2>1. Counts(numLocks[o], Col(o)) /\ t # NULL
    BY <1>9, <1>10, MountAssumption
  <2>2. CASE numLocks[o] = 0 /\ n = -1
    BY <1>3, <2>1, <2>2, CountsWrite
  <2>3. CASE numLocks[o] >= 0 /\ n = numLocks[o] + 1
    BY <1>3, <2>1, <2>3, CountsRead
  <2> QED
    BY <1>10, <2>1, <2>2, <2>3 DEF GrantedAs
<1>11. fin \/ Dead # {} =>
         \A p \in Owned : \A s \in Threads \ {Unmounter} : held'[s][p] = 0
  <2> SUFFICES ASSUME fin \/ Dead # {}, NEW p \in Owned, NEW s \in Threads \ {Unmounter}
               PROVE  held'[s][p] = 0
    OBVIOUS
  <2>1. held[s][p] = 0 /\ p \in Objects
    BY <1>1 DEF LocksKept, Owned
  <2>2. ~(s = t /\ p = o)
    BY <1>8
  <2> QED
    BY <1>3, <2>1, <2>2
<1>12. \A p \in Objects : threadId[p] = NULL => Counts(numLocks'[p], Col(p)')
  BY <1>1, <1>3, <1>5, <1>10 DEF LocksKept
<1>13. ASSUME fin, NEW p \in w2 \ Owned PROVE numLocks'[p] = -1
  <2>1. CASE p # o
    <3>1. p \in w \ Owned /\ p \in Objects
      BY <1>1, <2>1, <1>13 DEF Ghosts
    <3> QED
      BY <1>1, <1>5, <1>13, <2>1, <3>1 DEF LocksKept
  <2>2. CASE p = o /\ t # Unmounter
    <3>1. numLocks[o] = -1 /\ threadId[o] = NULL
      BY <1>1, <1>6, <1>7, <1>13, <2>2 DEF LocksKept
    <3> QED
      BY <3>1, <2>2, MountAssumption DEF GrantedAs
  <2>3. CASE p = o /\ t = Unmounter
    <3>1. step = "write"
      <4>1. /\ todo[t] # <<>> /\ Head(todo[t]).do = step
            /\ EndLegal(todo[t], Owned, Dead, wsoft, Dying, w)
        BY <1>13, <2>3, FiniAt
      <4> QED
        BY <4>1 DEF EndLegal
    <3>2. threadId[o] = NULL
      BY <1>6, <1>7, <1>13, <2>3
    <3>3. n = -1
      BY <3>1, <3>2, MountAssumption DEF GrantedAs
    <3> QED
      BY <1>5, <2>3, <3>3
  <2> QED
    BY <2>1, <2>2, <2>3
<1>14. ASSUME fin, NEW p \in Owned \ Dead
       PROVE  numLocks'[p] = -1 \/ (p = "pages" /\ Owned = Objects /\ numLocks'[p] = 0)
  <2>1. p \in Objects
    BY DEF Owned
  <2>2. numLocks[p] = -1 \/ (p = "pages" /\ Owned = Objects /\ numLocks[p] = 0)
    BY <1>1, <1>14 DEF LocksKept
  <2>3. CASE p # o
    BY <1>5, <2>1, <2>2, <2>3
  <2>4. CASE p = o
    <3>1. t = Unmounter
      BY <1>8, <1>14, <2>4
    <3>2. n = numLocks[o] \/ n = -1
      BY <1>6, <1>7, <1>14, <2>4, <3>1 DEF GrantedAs
    <3> QED
      BY <1>5, <2>2, <2>4, <3>2
  <2> QED
    BY <2>3, <2>4
<1>15. ASSUME fin, NEW p \in w2 PROVE held'[Unmounter][p] >= 1
  <2>1. CASE p \in w
    <3>1. held[Unmounter][p] >= 1 /\ p \in Objects
      BY <1>1, <1>15, <2>1 DEF LocksKept, Ghosts
    <3>2. Unmounter \in Threads
      BY MountAssumption
    <3>3. held'[Unmounter][p] = held[Unmounter][p] \/ held'[Unmounter][p] = held[Unmounter][p] + 1
      BY <1>3, <3>1, <3>2
    <3>4. held[Unmounter][p] \in Nat
      BY <1>2, <3>1, <3>2
    <3> QED
      BY <3>1, <3>3, <3>4
  <2>2. CASE p \notin w
    <3>1. p = o /\ t = Unmounter /\ held[t][o] \in Nat
      BY <1>2, <1>15, <2>2
    <3> QED
      BY <1>3, <3>1
  <2> QED
    BY <2>1, <2>2
<1>16. LocksKept(w2, fin)'
  <2>1. \A p \in Objects : threadId'[p] = NULL => Counts(numLocks'[p], Col(p)')
    BY <1>12
  <2> QED
    BY <1>4, <1>11, <2>1, <1>13, <1>14, <1>15 DEF LocksKept
<1>17. n \in Nat \cup {-1}
  BY <1>2 DEF GrantedAs
<1> QED
  BY <1>2, <1>16, <1>17 DEF Takes

LEMMA GrantKeeps ==
  ASSUME LifeIsSound,
         NEW t \in Threads, NEW step \in {"read", "write"}, NEW o \in Objects, NEW n,
         At(t, step, o), GrantedAs(t, step, o, n), ~isDead[o],
         numLocks' = [numLocks EXCEPT ![o] = n],
         held' = [held EXCEPT ![t][o] = @ + 1],
         wait' = [wait EXCEPT ![t] = "no"], Advance(t),
         UNCHANGED <<listed, globalMx, threadId, life, channels>>
  PROVE  LifeIsSound'
<1>1. PICK hold, soft, wsoft, w, fin : Sound(hold, soft, wsoft, w, fin)
  BY DEF LifeIsSound
<1>2. /\ TypeOK /\ Ghosts(hold, soft, wsoft, w, fin)
      /\ Phase(hold, wsoft, fin) /\ LocksKept(w, fin)
      /\ SoftKept(soft, wsoft) /\ OneBusy(soft, fin)
  BY <1>1 DEF Sound
<1>3. /\ \A s : Kind(s)' = Kind(s) /\ Rights(s)' = Rights(s)
      /\ Owned' = Owned /\ Dead' = Dead /\ Dying' = Dying
  BY KindsStay, RightsStay, LivesStay DEF life
<1>w. PICK w2 : w2 = IF fin /\ t = Unmounter THEN w \cup {o} ELSE w
  OBVIOUS
<1>4. LocksKept(w2, fin)' /\ numLocks' \in [Objects -> Nat \cup {-1}]
  <2>1. UNCHANGED <<threadId, isDead, mxLockSoft>> /\ Takes(t, o, n)
    BY DEF life, Takes
  <2> QED
    BY <1>1, <1>w, <2>1, GrantKeepsLocks
<1>5. /\ held' \in [Threads -> [Objects -> Nat]]
      /\ held'[t][o] = held[t][o] + 1
      /\ \A s \in Threads : \A p \in Objects : s # t \/ p # o => held'[s][p] = held[s][p]
  BY <1>2, HeldUp DEF TypeOK
<1>6. SoftKept(soft, wsoft)'
  BY <1>2, SoftStay DEF life
<1>7. ASSUME DOMAIN todo' = Threads PROVE TypeOK'
  BY <1>2, <1>4, <1>5, <1>7 DEF TypeOK, life
<1>8. o \notin Dead
  BY DEF Dead
<1>9. CASE ~(fin /\ t = Unmounter)
  <2>1. /\ todo[t] # <<>> /\ Head(todo[t]).do = step /\ Head(todo[t]).on = o
    BY <1>1, <1>9, CallAt
  <2> DEFINE s2 == Tail(todo[t])
             hold2 == [hold EXCEPT ![t] = Up(@, o)]
  <2>2. todo' = [todo EXCEPT ![t] = s2]
    BY <1>2 DEF Advance, TypeOK
  <2>3. /\ hold2[t] = Up(hold[t], o)
        /\ \A s \in Threads \ {t} : hold2[s] = hold[s]
        /\ hold2 \in [Threads -> [Objects -> Nat]]
        /\ \A p \in Objects : hold2[t][p] = IF p = o THEN hold[t][p] + 1 ELSE hold[t][p]
    BY <1>2 DEF Ghosts, Up
  <2> HIDE DEF s2, hold2
  <2>4. <<s2, Rights(t)', hold2[t], soft[t], Kind(t)'>>
          \in After(todo[t], Rights(t), hold[t], soft[t], Kind(t))
    BY <1>3, <2>1, <2>3 DEF After, s2
  <2>5. /\ Scripts(hold2, soft, fin)' /\ Ends(hold2, soft, wsoft, w, fin)'
        /\ DOMAIN todo' = Threads
        /\ \A s \in Threads : Busy(s, fin)' => Busy(s, fin)
    <3>1. \A s \in Threads \ {t} : hold2[s] = hold[s] /\ soft[s] = soft[s]
      BY <2>3
    <3>2. /\ \A s \in Threads \ {t} : Rights(s)' = Rights(s) /\ Kind(s)' = Kind(s)
          /\ Kind(t)' # "none" => Kind(t) # "none" \/ OpensOrCloses(todo[t])
      BY <1>3
    <3> QED
      BY <1>1, <1>3, <1>9, <2>2, <2>4, <3>1, <3>2, CallMoves
  <2>6. Ghosts(hold2, soft, wsoft, w, fin)'
    <3>1. ASSUME NEW s \in Threads, NEW p \in Objects PROVE hold2[s][p] <= held'[s][p]
      <4>1. hold[s][p] <= held[s][p] /\ hold[s][p] \in Nat /\ held[s][p] \in Nat
        BY <1>2 DEF Ghosts, TypeOK
      <4>2. CASE s = t /\ p = o
        BY <1>5, <2>3, <4>1, <4>2
      <4>3. CASE ~(s = t /\ p = o)
        <5>1. held'[s][p] = held[s][p] /\ hold2[s][p] = hold[s][p]
          BY <1>5, <2>3, <4>3
        <5> QED
          BY <4>1, <5>1
      <4> QED
        BY <4>2, <4>3
    <3> QED
      BY <1>2, <2>3, <3>1 DEF Ghosts
  <2>7. Phase(hold2, wsoft, fin)'
    <3>1. ~(~fin /\ Dead = Objects)
      BY <1>8
    <3> QED
      BY <1>2, <3>1, PhaseStays DEF life
  <2>8. OneBusy(soft, fin)'
    BY <1>2, <2>5, BusyStay DEF life
  <2>9. LocksKept(w, fin)'
    BY <1>4, <1>9, <1>w
  <2>10. Sound(hold2, soft, wsoft, w, fin)'
    BY <1>6, <1>7, <2>5, <2>6, <2>7, <2>8, <2>9 DEF Sound
  <2> QED
    BY <2>10 DEF LifeIsSound
<1>10. CASE fin /\ t = Unmounter
  <2>1. /\ todo[Unmounter] # <<>> /\ Head(todo[Unmounter]).do = step
        /\ Head(todo[Unmounter]).on = o
        /\ EndLegal(todo[Unmounter], Owned, Dead, wsoft, Dying, w)
    BY <1>1, <1>10, FiniAt
  <2>2. step = "write"
    BY <2>1 DEF EndLegal
  <2>3. todo' = [todo EXCEPT ![Unmounter] = Tail(@)]
    BY <1>10 DEF Advance
  <2>4. w2 = w \cup {o} /\ w2 \subseteq Objects
    BY <1>2, <1>10, <1>w DEF Ghosts
  <2>5. EndNext(todo[Unmounter], Owned, Dead, wsoft, Dying, w)
           = <<Tail(todo[Unmounter]), Owned', Dead', wsoft, Dying', w2>>
    BY <1>3, <2>1, <2>2, <2>4 DEF EndNext
  <2>6. /\ Scripts(hold, soft, fin)' /\ Ends(hold, soft, wsoft, w2, fin)'
        /\ DOMAIN todo' = Threads
        /\ \A s \in Threads : Busy(s, fin)' => Busy(s, fin)
    BY <1>1, <1>3, <1>10, <2>1, <2>3, <2>5, FiniMoves
  <2>7. Ghosts(hold, soft, wsoft, w2, fin)'
    <3>1. ASSUME NEW s \in Threads, NEW p \in Objects PROVE hold[s][p] <= held'[s][p]
      <4>1. hold[s][p] <= held[s][p] /\ hold[s][p] \in Nat /\ held[s][p] \in Nat
        BY <1>2 DEF Ghosts, TypeOK
      <4>2. held'[s][p] = held[s][p] \/ held'[s][p] = held[s][p] + 1
        BY <1>5
      <4> QED
        BY <4>1, <4>2
    <3> QED
      BY <1>2, <2>4, <3>1 DEF Ghosts
  <2>8. Phase(hold, wsoft, fin)'
    BY <1>2, PhaseStays DEF life
  <2>9. OneBusy(soft, fin)'
    BY <1>2, <2>6, BusyStay DEF life
  <2>10. Sound(hold, soft, wsoft, w2, fin)'
    BY <1>4, <1>6, <1>7, <2>6, <2>7, <2>8, <2>9 DEF Sound
  <2> QED
    BY <2>10 DEF LifeIsSound
<1> QED
  BY <1>9, <1>10

LEMMA GrantOrRefuse ==
  ASSUME LifeIsSound,
         NEW t \in Threads, NEW step \in {"read", "write"}, NEW o \in Objects, NEW n,
         At(t, step, o), GrantedAs(t, step, o, n), Grant(t, o, n),
         UNCHANGED <<listed, globalMx, threadId, life, channels>>
  PROVE  LifeIsSound'
<1>1. CASE /\ ~isDead[o]
           /\ numLocks' = [numLocks EXCEPT ![o] = n]
           /\ held' = [held EXCEPT ![t][o] = @ + 1]
           /\ wait' = [wait EXCEPT ![t] = "no"]
           /\ Advance(t)
  BY <1>1, GrantKeeps
<1>2. CASE /\ isDead[o]
           /\ wait' = [Woken(o) EXCEPT ![t] = "no"]
           /\ Refused(t)
           /\ UNCHANGED <<numLocks, held>>
  <2>1. wait \in [Threads -> {"no", "asleep", "woken"}]
    BY DEF LifeIsSound, Sound, TypeOK
  <2>2. Woken(o) \in [Threads -> {"no", "asleep", "woken"}]
    BY <2>1, WokenType
  <2>3. wait' \in [Threads -> {"no", "asleep", "woken"}]
    BY <1>2, <2>2
  <2> QED
    BY <1>2, <2>3, RefusedKeeps
<1> QED
  BY <1>1, <1>2 DEF Grant

LEMMA TurnDownKeeps ==
  ASSUME LifeIsSound, NEW t \in Threads, NEW step \in {"read", "write"}, NEW o \in Objects,
         At(t, step, o), threadId[o] \notin {t, NULL}, TurnDown(t),
         UNCHANGED <<listed, globalMx, threadId, life, channels>>
  PROVE  LifeIsSound'
<1>1. wait \in [Threads -> {"no", "asleep", "woken"}]
  BY DEF LifeIsSound, Sound, TypeOK
<1>2. wait' \in [Threads -> {"no", "asleep", "woken"}]
  BY <1>1 DEF TurnDown
<1> QED
  BY <1>2, RefusedKeeps DEF TurnDown

LEMMA LockReadKeeps ==
  ASSUME LifeIsSound, NEW t \in Threads, NEW o \in Objects, LockRead(t, o)
  PROVE  LifeIsSound'
<1>1. At(t, "read", o) /\ UNCHANGED <<listed, globalMx, threadId, life, channels>>
  BY DEF LockRead
<1>2. CASE threadId[o] = t /\ Grant(t, o, numLocks[o])
  <2>1. GrantedAs(t, "read", o, numLocks[o])
    BY <1>2 DEF GrantedAs
  <2> QED
    BY <1>1, <1>2, <2>1, GrantOrRefuse
<1>3. CASE threadId[o] \notin {t, NULL} /\ TurnDown(t)
  BY <1>1, <1>3, TurnDownKeeps
<1>4. CASE Sleep(t)
  BY <1>1, <1>4, SleepKeeps DEF Sleep
<1>5. CASE threadId[o] = NULL /\ numLocks[o] >= 0 /\ Grant(t, o, numLocks[o] + 1)
  <2>1. GrantedAs(t, "read", o, numLocks[o] + 1)
    BY <1>5 DEF GrantedAs
  <2> QED
    BY <1>1, <1>5, <2>1, GrantOrRefuse
<1> QED
  BY <1>2, <1>3, <1>4, <1>5 DEF LockRead

LEMMA LockWriteKeeps ==
  ASSUME LifeIsSound, NEW t \in Threads, NEW o \in Objects, LockWrite(t, o)
  PROVE  LifeIsSound'
<1>1. At(t, "write", o) /\ UNCHANGED <<listed, globalMx, threadId, life, channels>>
  BY DEF LockWrite
<1>2. CASE threadId[o] = t /\ Grant(t, o, numLocks[o])
  <2>1. GrantedAs(t, "write", o, numLocks[o])
    BY <1>2 DEF GrantedAs
  <2> QED
    BY <1>1, <1>2, <2>1, GrantOrRefuse
<1>3. CASE threadId[o] \notin {t, NULL} /\ TurnDown(t)
  BY <1>1, <1>3, TurnDownKeeps
<1>4. CASE Sleep(t)
  BY <1>1, <1>4, SleepKeeps DEF Sleep
<1>5. CASE numLocks[o] = 0 /\ Grant(t, o, -1)
  <2>1. GrantedAs(t, "write", o, -1)
    BY <1>5 DEF GrantedAs
  <2> QED
    BY <1>1, <1>5, <2>1, GrantOrRefuse
<1> QED
  BY <1>2, <1>3, <1>4, <1>5 DEF LockWrite

-----------------------------------------------------------------------------
(* Owning and unlocking *)

LEMMA OwnKeeps ==
  ASSUME LifeIsSound, NEW t \in Threads, NEW o \in Objects, Own(t, o)
  PROVE  LifeIsSound'
<1>1. PICK hold, soft, wsoft, w, fin : Sound(hold, soft, wsoft, w, fin)
  BY DEF LifeIsSound
<1>2. /\ TypeOK /\ Ghosts(hold, soft, wsoft, w, fin)
      /\ Phase(hold, wsoft, fin) /\ LocksKept(w, fin)
      /\ SoftKept(soft, wsoft) /\ OneBusy(soft, fin)
  BY <1>1 DEF Sound
<1>3. /\ At(t, "own", o) /\ threadId' = [threadId EXCEPT ![o] = t] /\ Advance(t)
      /\ UNCHANGED <<listed, globalMx, numLocks, wait, held, life, channels>>
  BY DEF Own
<1>4. fin /\ t = Unmounter
  <2> SUFFICES ASSUME ~(fin /\ t = Unmounter) PROVE FALSE
    OBVIOUS
  <2>1. /\ todo[t] # <<>> /\ Head(todo[t]).do = "own"
        /\ Legal(todo[t], Rights(t), hold[t], soft[t], Kind(t))
    BY <1>1, <1>3, CallAt
  <2> QED
    BY <2>1 DEF Legal
<1>5. /\ todo[Unmounter] # <<>> /\ Head(todo[Unmounter]).do = "own"
      /\ Head(todo[Unmounter]).on = o
      /\ EndLegal(todo[Unmounter], Owned, Dead, wsoft, Dying, w)
  BY <1>1, <1>3, <1>4, FiniAt
<1>6. o \in w /\ o \notin Dead
  BY <1>5 DEF EndLegal
<1>7. threadId \in [Objects -> Threads \cup {NULL}]
  BY <1>2 DEF TypeOK
<1>8. threadId'[o] = Unmounter /\ \A p \in Objects \ {o} : threadId'[p] = threadId[p]
  BY <1>3, <1>4, <1>7
<1>9. Owned' = Owned \cup {o} /\ Dead' = Dead /\ Dying' = Dying
  BY <1>3, <1>8 DEF Owned, Dead, Dying, life
<1>10. \A s : Kind(s)' = Kind(s) /\ Rights(s)' = Rights(s)
  BY <1>3, KindsStay, RightsStay
<1>w. PICK w2 : w2 = IF o \in Owned THEN w ELSE w \ {o}
  OBVIOUS
<1>11. EndNext(todo[Unmounter], Owned, Dead, wsoft, Dying, w)
         = <<Tail(todo[Unmounter]), Owned', Dead', wsoft, Dying', w2>>
  BY <1>5, <1>9, <1>w DEF EndNext
<1>12. todo' = [todo EXCEPT ![Unmounter] = Tail(@)]
  BY <1>3, <1>4 DEF Advance
<1>13. /\ Scripts(hold, soft, fin)' /\ Ends(hold, soft, wsoft, w2, fin)'
       /\ DOMAIN todo' = Threads
       /\ \A s \in Threads : Busy(s, fin)' => Busy(s, fin)
  BY <1>1, <1>4, <1>5, <1>10, <1>11, <1>12, FiniMoves
<1>14. TypeOK'
  <2>1. threadId' \in [Objects -> Threads \cup {NULL}]
    BY <1>3, <1>7
  <2> QED
    BY <1>2, <1>3, <1>13, <2>1 DEF TypeOK, life
<1>15. w2 \subseteq w
  BY <1>w
<1>16. Ghosts(hold, soft, wsoft, w2, fin)'
  BY <1>2, <1>3, <1>15 DEF Ghosts
<1>17. Phase(hold, wsoft, fin)'
  <2>1. \A p \in Objects : threadId'[p] \in {NULL, Unmounter}
    BY <1>2, <1>8 DEF Phase
  <2>2. ~listed /\ (Dead # {} => Owned = Objects)
    BY <1>2, <1>4 DEF Phase
  <2>3. Dead' # {} => Owned' = Objects
    BY <1>9, <2>2
  <2> QED
    BY <1>2, <1>3, <1>4, <1>9, <2>1, <2>2, <2>3 DEF Phase
<1>18. SoftKept(soft, wsoft)'
  BY <1>2, <1>3, SoftStay
<1>19. OneBusy(soft, fin)'
  BY <1>2, <1>3, <1>13, BusyStay DEF life
<1>20. LocksKept(w2, fin)'
  <2>1. o \notin Owned => threadId[o] = NULL /\ numLocks[o] = -1 /\ held[Unmounter][o] >= 1
    BY <1>2, <1>4, <1>6 DEF Phase, LocksKept, Owned
  <2>2. \A p \in Objects : Col(p) \in [Threads -> Nat] /\ Col(p)' = Col(p)
    BY <1>2, <1>3 DEF Col, TypeOK
  <2>3. ASSUME o \notin Owned, NEW s \in Threads \ {Unmounter} PROVE held[s][o] = 0
    <3>1. Counts(-1, Col(o)) /\ Col(o)[Unmounter] >= 1
      BY <1>2, <2>1, <2>3, MountAssumption DEF LocksKept, Col
    <3>2. Col(o)[s] = 0
      BY <2>2, <3>1, MountAssumption, CountsAlone
    <3> QED
      BY <3>2 DEF Col
  <2>4. \A p \in Owned \cup {o} : \A s \in Threads \ {Unmounter} : held[s][p] = 0
    BY <1>2, <1>4, <2>3 DEF LocksKept
  <2>5. \A p \in Objects : threadId'[p] = NULL => Counts(numLocks[p], Col(p))
    BY <1>2, <1>8, MountAssumption DEF LocksKept
  <2>6. \A p \in w2 \ (Owned \cup {o}) : numLocks[p] = -1
    BY <1>2, <1>4, <1>15 DEF LocksKept
  <2>7. ASSUME NEW p \in (Owned \cup {o}) \ Dead
        PROVE  numLocks[p] = -1
                 \/ (p = "pages" /\ Owned \cup {o} = Objects /\ numLocks[p] = 0)
    <3>1. CASE p \in Owned
      <4>1. numLocks[p] = -1 \/ (p = "pages" /\ Owned = Objects /\ numLocks[p] = 0)
        BY <1>2, <1>4, <3>1, <2>7 DEF LocksKept
      <4> QED
        BY <4>1
    <3>2. CASE p \notin Owned
      BY <2>1, <2>7, <3>2
    <3> QED
      BY <3>1, <3>2
  <2>8. \A p \in w2 : held[Unmounter][p] >= 1
    BY <1>2, <1>4, <1>15 DEF LocksKept
  <2> QED
    BY <1>3, <1>9, <2>2, <2>4, <2>5, <2>6, <2>7, <2>8 DEF LocksKept
<1> QED
  BY <1>13, <1>14, <1>16, <1>17, <1>18, <1>19, <1>20 DEF Sound, LifeIsSound

GivesBack(t, o) ==
  /\ numLocks' = [numLocks EXCEPT ![o] = IF @ <= 0 THEN 0 ELSE @ - 1]
  /\ held' = [held EXCEPT ![t][o] = @ - 1]

LEMMA UnlockKeepsLocks ==
  ASSUME NEW hold, NEW soft, NEW wsoft, NEW w, NEW fin, Sound(hold, soft, wsoft, w, fin),
         NEW t \in Threads, NEW o \in Objects, held[t][o] > 0,
         fin /\ t = Unmounter =>
           o \in w /\ (o \in Dying \/ (o = "pages" /\ Owned = Objects)),
         NEW w2, w2 = IF fin /\ t = Unmounter THEN w \ {o} ELSE w,
         GivesBack(t, o), UNCHANGED <<threadId, isDead, mxLockSoft>>
  PROVE  LocksKept(w2, fin)' /\ numLocks' \in [Objects -> Nat \cup {-1}]
<1>1. TypeOK /\ Phase(hold, wsoft, fin) /\ LocksKept(w, fin) /\ w \subseteq Objects
  BY DEF Sound, Ghosts
<1>2. held \in [Threads -> [Objects -> Nat]] /\ numLocks \in [Objects -> Nat \cup {-1}]
  BY <1>1 DEF TypeOK
<1>3. /\ held' \in [Threads -> [Objects -> Nat]]
      /\ \A s \in Threads : \A p \in Objects : s # t \/ p # o => held'[s][p] = held[s][p]
      /\ \A p \in Objects : /\ Col(p) \in [Threads -> Nat] /\ Col(p)' \in [Threads -> Nat]
                            /\ p # o => Col(p)' = Col(p)
      /\ OneMore(Col(o)', Col(o), t)
  <2>1. held' = [held EXCEPT ![t][o] = @ - 1]
    BY DEF GivesBack
  <2>2. held \in [Threads -> [Objects -> Nat]] /\ held[t][o] > 0
    BY <1>2
  <2>3. /\ held' \in [Threads -> [Objects -> Nat]]
        /\ held'[t][o] = held[t][o] - 1
        /\ \A s \in Threads : \A p \in Objects : s # t \/ p # o => held'[s][p] = held[s][p]
        /\ \A p \in Objects : /\ Col(p) \in [Threads -> Nat] /\ Col(p)' \in [Threads -> Nat]
                              /\ p # o => Col(p)' = Col(p)
        /\ OneMore(Col(o)', Col(o), t)
    BY <2>1, <2>2, HeldDown, Zenon
  <2> QED
    BY <2>3
<1>4. Owned' = Owned /\ Dead' = Dead /\ Dying' = Dying
  BY LivesStay
<1>5. /\ numLocks'[o] = IF numLocks[o] <= 0 THEN 0 ELSE numLocks[o] - 1
      /\ \A p \in Objects \ {o} : numLocks'[p] = numLocks[p]
  BY <1>2 DEF GivesBack
<1>6. Unmounter \in Threads /\ NULL # Unmounter
  BY MountAssumption
<1>7. \A p \in Objects : threadId[p] = NULL => Counts(numLocks'[p], Col(p)')
  <2>1. ASSUME threadId[o] = NULL PROVE Counts(numLocks'[o], Col(o)')
    <3>1. Counts(numLocks[o], Col(o))
      BY <1>1, <2>1 DEF LocksKept
    <3>2. Counts(IF numLocks[o] <= 0 THEN 0 ELSE numLocks[o] - 1, Col(o)')
      BY <1>3, <3>1, CountsUnlock
    <3> QED
      BY <1>5, <3>2
  <2> QED
    BY <1>1, <1>3, <1>5, <2>1 DEF LocksKept
<1>8. fin \/ Dead # {} =>
         \A p \in Owned : \A s \in Threads \ {Unmounter} : held'[s][p] = 0
  <2> SUFFICES ASSUME fin \/ Dead # {}, NEW p \in Owned, NEW s \in Threads \ {Unmounter}
               PROVE  held'[s][p] = 0
    OBVIOUS
  <2>1. held[s][p] = 0 /\ p \in Objects
    BY <1>1 DEF LocksKept, Owned
  <2>2. ~(s = t /\ p = o)
    BY <2>1
  <2> QED
    BY <1>3, <2>1, <2>2
<1>9. ASSUME fin, NEW p \in w2 \ Owned PROVE numLocks'[p] = -1
  <2>1. p \in w \ Owned /\ p \in Objects
    BY <1>1, <1>9
  <2>2. numLocks[p] = -1 /\ held[Unmounter][p] >= 1 /\ threadId[p] = NULL
    BY <1>1, <1>9, <2>1 DEF LocksKept, Phase, Owned
  <2>3. CASE p = o
    <3>1. t # Unmounter
      BY <1>9, <2>3
    <3>2. Counts(-1, Col(p)) /\ Col(p)[Unmounter] >= 1
      BY <1>1, <1>6, <2>1, <2>2 DEF LocksKept, Col
    <3>3. Col(p)[t] = 0
      BY <1>3, <1>6, <2>1, <3>1, <3>2, CountsAlone
    <3>4. held[t][o] = 0
      BY <2>3, <3>3 DEF Col
    <3> QED
      BY <3>4
  <2>4. CASE p # o
    BY <1>5, <2>1, <2>2, <2>4
  <2> QED
    BY <2>3, <2>4
<1>10. ASSUME fin, NEW p \in Owned \ Dead
       PROVE  numLocks'[p] = -1 \/ (p = "pages" /\ Owned = Objects /\ numLocks'[p] = 0)
  <2>1. p \in Objects
    BY DEF Owned
  <2>2. numLocks[p] = -1 \/ (p = "pages" /\ Owned = Objects /\ numLocks[p] = 0)
    BY <1>1, <1>10 DEF LocksKept
  <2>3. CASE p # o
    BY <1>5, <2>1, <2>2, <2>3
  <2>4. CASE p = o
    <3>1. t = Unmounter
      <4>1. t # Unmounter => held[t][o] = 0
        BY <1>1, <1>10, <2>4 DEF LocksKept
      <4> QED
        BY <4>1
    <3>2. o = "pages" /\ Owned = Objects
      BY <1>1, <1>10, <2>4, <3>1 DEF Phase
    <3>3. numLocks'[o] = 0
      BY <1>5, <2>2, <2>4
    <3> QED
      BY <2>4, <3>2, <3>3
  <2> QED
    BY <2>3, <2>4
<1>11. ASSUME fin, NEW p \in w2 PROVE held'[Unmounter][p] >= 1
  <2>1. p \in w /\ p \in Objects /\ held[Unmounter][p] >= 1
    BY <1>1, <1>11 DEF LocksKept
  <2>2. Unmounter # t \/ p # o
    BY <1>11
  <2> QED
    BY <1>3, <1>6, <2>1, <2>2
<1>12. LocksKept(w2, fin)'
  <2>1. \A p \in Objects : threadId'[p] = NULL => Counts(numLocks'[p], Col(p)')
    BY <1>7
  <2> QED
    BY <1>4, <1>8, <2>1, <1>9, <1>10, <1>11 DEF LocksKept
<1>13. (IF numLocks[o] <= 0 THEN 0 ELSE numLocks[o] - 1) \in Nat \cup {-1}
  BY <1>2
<1> QED
  BY <1>2, <1>12, <1>13 DEF GivesBack

LEMMA DoUnlockKeeps ==
  ASSUME LifeIsSound, NEW t \in Threads, NEW o \in Objects, DoUnlock(t, o)
  PROVE  LifeIsSound'
<1>1. PICK hold, soft, wsoft, w, fin : Sound(hold, soft, wsoft, w, fin)
  BY DEF LifeIsSound
<1>2. /\ TypeOK /\ Ghosts(hold, soft, wsoft, w, fin)
      /\ Phase(hold, wsoft, fin) /\ LocksKept(w, fin)
      /\ SoftKept(soft, wsoft) /\ OneBusy(soft, fin)
  BY <1>1 DEF Sound
<1>3. /\ At(t, "unlock", o) /\ GivesBack(t, o) /\ wait' = Woken(o) /\ Advance(t)
      /\ held' = [held EXCEPT ![t][o] = @ - 1]
      /\ UNCHANGED <<listed, globalMx, threadId, life, channels>>
      /\ UNCHANGED <<threadId, isDead, mxLockSoft>>
  BY DEF DoUnlock, GivesBack, life
<1>4. /\ \A s : Kind(s)' = Kind(s) /\ Rights(s)' = Rights(s)
      /\ Owned' = Owned /\ Dead' = Dead /\ Dying' = Dying
  BY <1>3, KindsStay, RightsStay, LivesStay DEF life
<1>w. PICK w2 : w2 = IF fin /\ t = Unmounter THEN w \ {o} ELSE w
  OBVIOUS
<1>5. ASSUME ~(fin /\ t = Unmounter)
      PROVE  /\ todo[t] # <<>> /\ Head(todo[t]).do = "unlock" /\ Head(todo[t]).on = o
             /\ hold[t][o] > 0
  <2>1. /\ todo[t] # <<>> /\ Head(todo[t]).do = "unlock" /\ Head(todo[t]).on = o
        /\ Legal(todo[t], Rights(t), hold[t], soft[t], Kind(t))
    BY <1>1, <1>3, <1>5, CallAt
  <2> QED
    BY <2>1 DEF Legal
<1>6. ASSUME fin, t = Unmounter
      PROVE  /\ todo[Unmounter] # <<>> /\ Head(todo[Unmounter]).do = "unlock"
             /\ Head(todo[Unmounter]).on = o /\ o \in w
             /\ o \in Dying \/ (o = "pages" /\ Owned = Objects)
  <2>1. /\ todo[Unmounter] # <<>> /\ Head(todo[Unmounter]).do = "unlock"
        /\ Head(todo[Unmounter]).on = o
        /\ EndLegal(todo[Unmounter], Owned, Dead, wsoft, Dying, w)
    BY <1>1, <1>3, <1>6, FiniAt
  <2> QED
    BY <2>1 DEF EndLegal
<1>7. held \in [Threads -> [Objects -> Nat]] /\ hold[t][o] \in Nat /\ hold[t][o] <= held[t][o]
  BY <1>2 DEF TypeOK, Ghosts
<1>8. held[t][o] > 0
  <2>1. CASE fin /\ t = Unmounter
    BY <1>2, <1>6, <1>7, <2>1 DEF LocksKept
  <2>2. CASE ~(fin /\ t = Unmounter)
    BY <1>5, <1>7, <2>2
  <2> QED
    BY <2>1, <2>2
<1>9. LocksKept(w2, fin)' /\ numLocks' \in [Objects -> Nat \cup {-1}]
  BY <1>1, <1>3, <1>6, <1>8, <1>w, UnlockKeepsLocks
<1>10. /\ held' \in [Threads -> [Objects -> Nat]]
       /\ held'[t][o] = held[t][o] - 1
       /\ \A s \in Threads : \A p \in Objects : s # t \/ p # o => held'[s][p] = held[s][p]
  BY <1>3, <1>7, <1>8, HeldDown
<1>11. SoftKept(soft, wsoft)'
  BY <1>2, <1>3, SoftStay
<1>12. wait' \in [Threads -> {"no", "asleep", "woken"}]
  BY <1>2, <1>3, WokenType DEF TypeOK
<1>13. ASSUME DOMAIN todo' = Threads PROVE TypeOK'
  BY <1>2, <1>3, <1>9, <1>10, <1>12, <1>13 DEF TypeOK, life
<1>14. CASE ~(fin /\ t = Unmounter)
  <2> DEFINE s2 == Tail(todo[t])
             hold2 == [hold EXCEPT ![t] = Down(@, o)]
  <2>2. todo' = [todo EXCEPT ![t] = s2]
    BY <1>2, <1>3 DEF Advance, TypeOK
  <2>3. /\ hold2[t] = Down(hold[t], o)
        /\ \A s \in Threads \ {t} : hold2[s] = hold[s]
        /\ \A p \in Objects : hold2[t][p] = IF p = o THEN hold[t][p] - 1 ELSE hold[t][p]
    BY <1>2 DEF Ghosts, Down
  <2>h. hold2 \in [Threads -> [Objects -> Nat]]
    <3>1. Down(hold[t], o) \in [Objects -> Nat]
      BY <1>2, <1>5, <1>14 DEF Ghosts, Down
    <3> QED
      BY <1>2, <3>1 DEF Ghosts
  <2> HIDE DEF s2, hold2
  <2>4. <<s2, Rights(t)', hold2[t], soft[t], Kind(t)'>>
          \in After(todo[t], Rights(t), hold[t], soft[t], Kind(t))
    BY <1>4, <1>5, <1>14, <2>3 DEF After, s2
  <2>5. /\ Scripts(hold2, soft, fin)' /\ Ends(hold2, soft, wsoft, w, fin)'
        /\ DOMAIN todo' = Threads
        /\ \A s \in Threads : Busy(s, fin)' => Busy(s, fin)
    <3>1. \A s \in Threads \ {t} : hold2[s] = hold[s] /\ soft[s] = soft[s]
      BY <2>3
    <3>2. /\ \A s \in Threads \ {t} : Rights(s)' = Rights(s) /\ Kind(s)' = Kind(s)
          /\ Kind(t)' # "none" => Kind(t) # "none" \/ OpensOrCloses(todo[t])
      BY <1>4
    <3> QED
      BY <1>1, <1>4, <1>14, <2>2, <2>4, <3>1, <3>2, CallMoves
  <2>6. Ghosts(hold2, soft, wsoft, w, fin)'
    <3>1. ASSUME NEW s \in Threads, NEW p \in Objects PROVE hold2[s][p] <= held'[s][p]
      <4>1. hold[s][p] <= held[s][p] /\ hold[s][p] \in Nat /\ held[s][p] \in Nat
        BY <1>2 DEF Ghosts, TypeOK
      <4>2. CASE s = t /\ p = o
        BY <1>10, <2>3, <4>1, <4>2
      <4>3. CASE ~(s = t /\ p = o)
        <5>1. held'[s][p] = held[s][p] /\ hold2[s][p] = hold[s][p]
          BY <1>10, <2>3, <4>3
        <5> QED
          BY <4>1, <5>1
      <4> QED
        BY <4>2, <4>3
    <3> QED
      BY <1>2, <2>h, <3>1 DEF Ghosts
  <2>7. Phase(hold2, wsoft, fin)'
    <3>1. ASSUME ~fin, Dead = Objects PROVE hold2[Unmounter] = hold[Unmounter]
      <4>1. Dead # {}
        BY <3>1 DEF Objects
      <4>2. ~(\E p \in Objects : hold[t][p] > 0)
        BY <1>1, <1>14, <4>1, NothingIsDead
      <4> QED
        BY <1>5, <1>14, <4>2
    <3> QED
      BY <1>2, <1>3, <3>1, PhaseStays
  <2>8. OneBusy(soft, fin)'
    BY <1>2, <1>3, <2>5, BusyStay DEF life
  <2>9. LocksKept(w, fin)'
    BY <1>9, <1>14, <1>w
  <2>10. Sound(hold2, soft, wsoft, w, fin)'
    BY <1>11, <1>13, <2>5, <2>6, <2>7, <2>8, <2>9 DEF Sound
  <2> QED
    BY <2>10 DEF LifeIsSound
<1>15. CASE fin /\ t = Unmounter
  <2>3. todo' = [todo EXCEPT ![Unmounter] = Tail(@)]
    BY <1>3, <1>15 DEF Advance
  <2>4. w2 = w \ {o} /\ w2 \subseteq Objects
    BY <1>2, <1>15, <1>w DEF Ghosts
  <2>5. EndNext(todo[Unmounter], Owned, Dead, wsoft, Dying, w)
           = <<Tail(todo[Unmounter]), Owned', Dead', wsoft, Dying', w2>>
    BY <1>4, <1>6, <1>15, <2>4 DEF EndNext
  <2>6. /\ Scripts(hold, soft, fin)' /\ Ends(hold, soft, wsoft, w2, fin)'
        /\ DOMAIN todo' = Threads
        /\ \A s \in Threads : Busy(s, fin)' => Busy(s, fin)
    BY <1>1, <1>4, <1>6, <1>15, <2>3, <2>5, FiniMoves
  <2>7. Ghosts(hold, soft, wsoft, w2, fin)'
    <3>1. hold[t][o] = 0
      BY <1>1, <1>15 DEF Sound, Ends, Hold
    <3>2. ASSUME NEW s \in Threads, NEW p \in Objects PROVE hold[s][p] <= held'[s][p]
      <4>1. hold[s][p] <= held[s][p] /\ hold[s][p] \in Nat /\ held[s][p] \in Nat
        BY <1>2 DEF Ghosts, TypeOK
      <4>2. CASE s = t /\ p = o
        BY <1>10, <3>1, <4>2
      <4>3. CASE ~(s = t /\ p = o)
        BY <1>10, <4>1, <4>3
      <4> QED
        BY <4>2, <4>3
    <3> QED
      BY <1>2, <2>4, <3>2 DEF Ghosts
  <2>8. Phase(hold, wsoft, fin)'
    BY <1>2, <1>3, PhaseStays
  <2>9. OneBusy(soft, fin)'
    BY <1>2, <1>3, <2>6, BusyStay DEF life
  <2>10. Sound(hold, soft, wsoft, w2, fin)'
    BY <1>9, <1>11, <1>13, <2>6, <2>7, <2>8, <2>9 DEF Sound
  <2> QED
    BY <2>10 DEF LifeIsSound
<1> QED
  BY <1>14, <1>15

LEMMA VfsUnlockKeeps ==
  ASSUME LifeIsSound, NEW t \in Threads, VfsUnlock(t)
  PROVE  LifeIsSound'
<1>1. PICK hold, soft, wsoft, w, fin : Sound(hold, soft, wsoft, w, fin)
  BY DEF LifeIsSound
<1>2. /\ TypeOK /\ Ghosts(hold, soft, wsoft, w, fin)
      /\ Phase(hold, wsoft, fin) /\ LocksKept(w, fin)
      /\ SoftKept(soft, wsoft) /\ OneBusy(soft, fin)
  BY <1>1 DEF Sound
<1>3. /\ At(t, "vfsUnlock", "index") /\ globalMx' = NULL /\ Advance(t)
      /\ UNCHANGED <<listed, locks, life, channels>>
  BY DEF VfsUnlock
<1>4. ~(fin /\ t = Unmounter)
  <2> SUFFICES ASSUME fin, t = Unmounter PROVE FALSE
    OBVIOUS
  <2>1. /\ todo[t] # <<>> /\ Head(todo[t]).do = "vfsUnlock"
        /\ EndLegal(todo[t], Owned, Dead, wsoft, Dying, w)
    BY <1>1, <1>3, FiniAt
  <2> QED
    BY <2>1 DEF EndLegal
<1>5. /\ todo[t] # <<>> /\ Head(todo[t]).do = "vfsUnlock" /\ Head(todo[t]).on = "index"
      /\ Legal(todo[t], Rights(t), hold[t], soft[t], Kind(t))
  BY <1>1, <1>3, <1>4, CallAt
<1>6. "path" \in Rights(t)
  BY <1>5 DEF Legal
<1>7. globalMx = t /\ t # NULL
  BY <1>6, MountAssumption DEF Rights
<1>8. /\ Rights(t)' = Rights(t) \ {"path"}
      /\ \A s \in Threads \ {t} : Rights(s)' = Rights(s)
  <2>1. NULL \notin Threads
    BY MountAssumption
  <2> QED
    BY <1>3, <1>7, <2>1 DEF Rights
<1>9. /\ \A s : Kind(s)' = Kind(s)
      /\ Owned' = Owned /\ Dead' = Dead /\ Dying' = Dying
  BY <1>3, KindsStay, LivesStay DEF life, locks
<1> DEFINE s2 == Tail(todo[t])
<1>10. todo' = [todo EXCEPT ![t] = s2]
  BY <1>2, <1>3 DEF Advance, TypeOK
<1> HIDE DEF s2
<1>11. <<s2, Rights(t)', hold[t], soft[t], Kind(t)'>>
         \in After(todo[t], Rights(t), hold[t], soft[t], Kind(t))
  BY <1>5, <1>8, <1>9 DEF After, s2
<1>12. /\ Scripts(hold, soft, fin)' /\ Ends(hold, soft, wsoft, w, fin)'
       /\ DOMAIN todo' = Threads
       /\ \A s \in Threads : Busy(s, fin)' => Busy(s, fin)
  BY <1>1, <1>4, <1>8, <1>9, <1>10, <1>11, CallMoves
<1>13. TypeOK'
  BY <1>2, <1>3, <1>12 DEF TypeOK, life, locks
<1>14. Ghosts(hold, soft, wsoft, w, fin)'
  BY <1>2, <1>3 DEF Ghosts, locks
<1>15. Phase(hold, wsoft, fin)'
  BY <1>2, <1>3, <1>9 DEF Phase, locks
<1>16. LocksKept(w, fin)' /\ SoftKept(soft, wsoft)'
  BY <1>2, <1>3, LocksStay, SoftStay DEF life, locks
<1>17. OneBusy(soft, fin)'
  BY <1>2, <1>3, <1>12, BusyStay DEF life
<1> QED
  BY <1>12, <1>13, <1>14, <1>15, <1>16, <1>17 DEF Sound, LifeIsSound

-----------------------------------------------------------------------------
(* Soft locks, dying and being freed *)

LEMMA LockSoftKeeps ==
  ASSUME LifeIsSound, NEW t \in Threads, NEW o \in Objects, LockSoft(t, o)
  PROVE  LifeIsSound'
<1>1. PICK hold, soft, wsoft, w, fin : Sound(hold, soft, wsoft, w, fin)
  BY DEF LifeIsSound
<1>2. /\ TypeOK /\ Ghosts(hold, soft, wsoft, w, fin)
      /\ Phase(hold, wsoft, fin) /\ LocksKept(w, fin)
      /\ SoftKept(soft, wsoft) /\ OneBusy(soft, fin)
  BY <1>1 DEF Sound
<1>3. /\ At(t, "lockSoft", o) /\ Advance(t)
      /\ lockSoft' = [lockSoft EXCEPT ![o] = IF isDead[o] THEN @ ELSE @ + 1]
      /\ UNCHANGED <<listed, globalMx, locks, isDead, freed, mxLockSoft, channels>>
  BY DEF LockSoft
<1>4. ~(fin /\ t = Unmounter)
  <2> SUFFICES ASSUME fin, t = Unmounter PROVE FALSE
    OBVIOUS
  <2>1. /\ todo[t] # <<>> /\ Head(todo[t]).do = "lockSoft"
        /\ EndLegal(todo[t], Owned, Dead, wsoft, Dying, w)
    BY <1>1, <1>3, FiniAt
  <2> QED
    BY <2>1 DEF EndLegal
<1>5. /\ todo[t] # <<>> /\ Head(todo[t]).do = "lockSoft" /\ Head(todo[t]).on = o
      /\ Legal(todo[t], Rights(t), hold[t], soft[t], Kind(t))
  BY <1>1, <1>3, <1>4, CallAt
<1>6. o \notin soft[t] /\ hold[t]["index"] > 0
  BY <1>5 DEF Legal
<1>7. Dead = {} /\ ~isDead[o]
  <2>1. "index" \in Objects
    BY DEF Objects
  <2>2. Dead = {}
    BY <1>1, <1>4, <1>6, <2>1, NothingIsDead
  <2> QED
    BY <2>2 DEF Dead
<1>8. /\ \A s : Kind(s)' = Kind(s) /\ Rights(s)' = Rights(s)
      /\ Owned' = Owned /\ Dead' = Dead /\ Dying' = Dying
  BY <1>3, KindsStay, RightsStay, LivesStay DEF locks
<1> DEFINE s2 == Tail(todo[t])
           soft2 == [soft EXCEPT ![t] = @ \cup {o}]
<1>10. todo' = [todo EXCEPT ![t] = s2]
  BY <1>2, <1>3 DEF Advance, TypeOK
<1>11. /\ soft2[t] = soft[t] \cup {o}
       /\ \A s \in Threads \ {t} : soft2[s] = soft[s]
       /\ soft2 \in [Threads -> SUBSET Objects]
  BY <1>2 DEF Ghosts
<1> HIDE DEF s2, soft2
<1>12. <<s2, Rights(t)', hold[t], soft2[t], Kind(t)'>>
         \in After(todo[t], Rights(t), hold[t], soft[t], Kind(t))
  BY <1>5, <1>8, <1>11 DEF After, s2
<1>13. /\ Scripts(hold, soft2, fin)' /\ Ends(hold, soft2, wsoft, w, fin)'
       /\ DOMAIN todo' = Threads
       /\ \A s \in Threads : Busy(s, fin)' => Busy(s, fin)
  <2>1. \A s \in Threads \ {t} : hold[s] = hold[s] /\ soft2[s] = soft[s]
    BY <1>11
  <2>2. /\ \A s \in Threads \ {t} : Rights(s)' = Rights(s) /\ Kind(s)' = Kind(s)
        /\ Kind(t)' # "none" => Kind(t) # "none" \/ OpensOrCloses(todo[t])
    BY <1>8
  <2> QED
    BY <1>1, <1>4, <1>8, <1>10, <1>12, <2>1, <2>2, CallMoves
<1>14. lockSoft \in [Objects -> Nat]
  BY <1>2 DEF TypeOK
<1>15. lockSoft'[o] = lockSoft[o] + 1 /\ \A p \in Objects \ {o} : lockSoft'[p] = lockSoft[p]
  BY <1>3, <1>7, <1>14
<1>16. TypeOK'
  <2>1. lockSoft' \in [Objects -> Nat]
    BY <1>3, <1>14
  <2> QED
    BY <1>2, <1>3, <1>13, <2>1 DEF TypeOK, locks
<1>17. Ghosts(hold, soft2, wsoft, w, fin)'
  BY <1>2, <1>3, <1>11 DEF Ghosts, locks
<1>18. Phase(hold, wsoft, fin)' /\ LocksKept(w, fin)'
  BY <1>2, <1>3, PhaseStays, LocksStay DEF locks
<1>19. SoftKept(soft2, wsoft)'
  <2> SUFFICES ASSUME NEW p \in Objects
               PROVE  /\ lockSoft'[p] = Cardinality(SoftOwners(soft2, p)) + (IF p \in wsoft THEN 1 ELSE 0)
                      /\ isDead'[p] /\ p \notin Dying' /\ ~freed'[p] => \E s \in Threads : p \in soft2[s]
                      /\ freed'[p] => isDead'[p] /\ p \notin Dying'
    BY DEF SoftKept
  <2>1. /\ lockSoft[p] = Cardinality(SoftOwners(soft, p)) + (IF p \in wsoft THEN 1 ELSE 0)
        /\ freed[p] => isDead[p] /\ p \notin Dying
    BY <1>2 DEF SoftKept
  <2>2. ~isDead'[p] /\ isDead' = isDead /\ freed' = freed
    BY <1>3, <1>7 DEF Dead
  <2>3. lockSoft'[p] = Cardinality(SoftOwners(soft2, p)) + (IF p \in wsoft THEN 1 ELSE 0)
    <3>1. Cardinality(SoftOwners(soft, p)) \in Nat
      BY SoftFinite
    <3>2. CASE p = o
      <4>1. Cardinality(SoftOwners(soft2, o)) = Cardinality(SoftOwners(soft, o)) + 1
        BY <1>6, <1>11, SoftOneMore
      <4> QED
        BY <1>15, <2>1, <3>1, <3>2, <4>1
    <3>3. CASE p # o
      <4>1. \A s \in Threads : p \in soft[s] <=> p \in soft2[s]
        BY <1>11, <3>3
      <4>2. SoftOwners(soft2, p) = SoftOwners(soft, p)
        BY <4>1, SoftSame
      <4> QED
        BY <1>15, <2>1, <3>3, <4>2
    <3> QED
      BY <3>2, <3>3
  <2> QED
    BY <1>8, <2>1, <2>2, <2>3
<1>20. OneBusy(soft2, fin)'
  <2>1. \A p \in Objects : ~freed'[p]
    BY <1>2, <1>3, <1>7 DEF SoftKept, Dead
  <2> QED
    BY <1>2, <1>13, <2>1 DEF OneBusy
<1> QED
  BY <1>13, <1>16, <1>17, <1>18, <1>19, <1>20 DEF Sound, LifeIsSound

LEMMA SoftUnlockKeeps ==
  ASSUME LifeIsSound, NEW t \in Threads, NEW o \in Objects, UnlockSoft(t, o)
  PROVE  LifeIsSound'
<1>1. PICK hold, soft, wsoft, w, fin : Sound(hold, soft, wsoft, w, fin)
  BY DEF LifeIsSound
<1>2. /\ TypeOK /\ Ghosts(hold, soft, wsoft, w, fin)
      /\ Phase(hold, wsoft, fin) /\ LocksKept(w, fin)
      /\ SoftKept(soft, wsoft) /\ OneBusy(soft, fin)
  BY <1>1 DEF Sound
<1>3. /\ At(t, "unlockSoft", o) /\ mxLockSoft[o] = NULL /\ Advance(t)
      /\ lockSoft' = [lockSoft EXCEPT ![o] = @ - 1]
      /\ freed' = [freed EXCEPT ![o] = @ \/ isDead[o]]
      /\ UNCHANGED <<listed, globalMx, locks, isDead, mxLockSoft, channels>>
  BY DEF UnlockSoft
<1>4. /\ \A s : Kind(s)' = Kind(s) /\ Rights(s)' = Rights(s)
      /\ Owned' = Owned /\ Dead' = Dead /\ Dying' = Dying
  BY <1>3, KindsStay, RightsStay, LivesStay DEF locks
<1>5. /\ lockSoft \in [Objects -> Nat] /\ freed \in [Objects -> BOOLEAN]
      /\ isDead \in [Objects -> BOOLEAN]
  BY <1>2 DEF TypeOK
<1>6. /\ lockSoft'[o] = lockSoft[o] - 1 /\ (freed'[o] <=> freed[o] \/ isDead[o])
      /\ \A p \in Objects \ {o} : lockSoft'[p] = lockSoft[p] /\ freed'[p] = freed[p]
  BY <1>3, <1>5
<1>7. freed' \in [Objects -> BOOLEAN]
  BY <1>3, <1>5
<1>8. ASSUME DOMAIN todo' = Threads, lockSoft'[o] \in Nat PROVE TypeOK'
  <2>1. lockSoft' \in [Objects -> Nat]
    BY <1>3, <1>5, <1>6, <1>8
  <2> QED
    BY <1>2, <1>3, <1>7, <1>8, <2>1 DEF TypeOK, locks
<1>9. Phase(hold, wsoft, fin)' /\ LocksKept(w, fin)'
  BY <1>2, <1>3, PhaseStays, LocksStay DEF locks
<1>10. o \notin Dying
  BY <1>3 DEF Dying
<1>11. CASE ~(fin /\ t = Unmounter)
  <2>1. /\ todo[t] # <<>> /\ Head(todo[t]).do = "unlockSoft" /\ Head(todo[t]).on = o
        /\ Legal(todo[t], Rights(t), hold[t], soft[t], Kind(t))
    BY <1>1, <1>3, <1>11, CallAt
  <2>2. o \in soft[t] /\ IsCall(todo[t])
    BY <2>1 DEF Legal
  <2> DEFINE s2 == Tail(todo[t])
             soft2 == [soft EXCEPT ![t] = @ \ {o}]
  <2>3. todo' = [todo EXCEPT ![t] = s2]
    BY <1>2, <1>3 DEF Advance, TypeOK
  <2>4. /\ soft2[t] = soft[t] \ {o}
        /\ \A s \in Threads \ {t} : soft2[s] = soft[s]
        /\ soft2 \in [Threads -> SUBSET Objects]
    BY <1>2 DEF Ghosts
  <2> HIDE DEF s2, soft2
  <2>5. <<s2, Rights(t)', hold[t], soft2[t], Kind(t)'>>
          \in After(todo[t], Rights(t), hold[t], soft[t], Kind(t))
    BY <1>4, <2>1, <2>4 DEF After, s2
  <2>6. /\ Scripts(hold, soft2, fin)' /\ Ends(hold, soft2, wsoft, w, fin)'
        /\ DOMAIN todo' = Threads
        /\ \A s \in Threads : Busy(s, fin)' => Busy(s, fin)
    <3>1. \A s \in Threads \ {t} : hold[s] = hold[s] /\ soft2[s] = soft[s]
      BY <2>4
    <3>2. /\ \A s \in Threads \ {t} : Rights(s)' = Rights(s) /\ Kind(s)' = Kind(s)
          /\ Kind(t)' # "none" => Kind(t) # "none" \/ OpensOrCloses(todo[t])
      BY <1>4
    <3> QED
      BY <1>1, <1>4, <1>11, <2>3, <2>5, <3>1, <3>2, CallMoves
  <2>7. Ghosts(hold, soft2, wsoft, w, fin)'
    BY <1>2, <1>3, <2>4 DEF Ghosts, locks
  <2>8. Cardinality(SoftOwners(soft, o)) = Cardinality(SoftOwners(soft2, o)) + 1
    <3>1. o \notin soft2[t]
      BY <2>4
    <3>2. \A s \in Threads \ {t} : o \in soft2[s] <=> o \in soft[s]
      BY <2>4
    <3> QED
      BY <2>2, <3>1, <3>2, SoftOneMore
  <2>9. Cardinality(SoftOwners(soft2, o)) \in Nat
    BY SoftFinite
  <2>10. SoftKept(soft2, wsoft)'
    <3> SUFFICES ASSUME NEW p \in Objects
                 PROVE  /\ lockSoft'[p] = Cardinality(SoftOwners(soft2, p)) + (IF p \in wsoft THEN 1 ELSE 0)
                        /\ isDead'[p] /\ p \notin Dying' /\ ~freed'[p] => \E s \in Threads : p \in soft2[s]
                        /\ freed'[p] => isDead'[p] /\ p \notin Dying'
      BY DEF SoftKept
    <3>1. /\ lockSoft[p] = Cardinality(SoftOwners(soft, p)) + (IF p \in wsoft THEN 1 ELSE 0)
          /\ isDead[p] /\ p \notin Dying /\ ~freed[p] => \E s \in Threads : p \in soft[s]
          /\ freed[p] => isDead[p] /\ p \notin Dying
      BY <1>2 DEF SoftKept
    <3>2. isDead' = isDead
      BY <1>3
    <3>3. CASE p = o
      BY <1>4, <1>6, <1>10, <2>8, <2>9, <3>1, <3>2, <3>3
    <3>4. CASE p # o
      <4>1. \A s \in Threads : p \in soft[s] <=> p \in soft2[s]
        BY <2>4, <3>4
      <4>2. SoftOwners(soft2, p) = SoftOwners(soft, p)
        BY <4>1, SoftSame
      <4> QED
        BY <1>4, <1>6, <3>1, <3>2, <3>4, <4>1, <4>2
    <3> QED
      BY <3>3, <3>4
  <2>11. OneBusy(soft2, fin)'
    <3> SUFFICES ASSUME MaxChannels <= 1
                 PROVE  /\ \A s, r \in Threads : Busy(s, fin)' /\ Busy(r, fin)' => s = r
                        /\ \A p \in Objects : freed'[p] => \A s \in Threads : p \notin soft2[s]
      BY DEF OneBusy
    <3>1. /\ \A s, r \in Threads : Busy(s, fin) /\ Busy(r, fin) => s = r
          /\ \A p \in Objects : freed[p] => \A s \in Threads : p \notin soft[s]
      BY <1>2 DEF OneBusy
    <3>2. Busy(t, fin)
      BY <1>11, <2>1, <2>2, TailOpens DEF Busy
    <3>3. ASSUME NEW s \in Threads \ {t} PROVE soft[s] = {}
      <4>1. ~Busy(s, fin)
        BY <3>1, <3>2, <3>3
      <4>2. Kind(s) = "none" /\ SoftOf("none") = {}
        BY <4>1 DEF Busy, SoftOf
      <4>3. CASE fin /\ s = Unmounter
        BY <1>1, <4>2, <4>3 DEF Sound, Ends
      <4>4. CASE ~(fin /\ s = Unmounter)
        <5>1. Legal(todo[s], Rights(s), hold[s], soft[s], Kind(s)) /\ ~OpensOrCloses(todo[s])
          BY <1>1, <4>1, <4>4, CallStep DEF Busy
        <5> QED
          BY <4>2, <5>1 DEF Legal
      <4> QED
        BY <4>3, <4>4
    <3>4. \A s \in Threads : o \notin soft2[s]
      BY <2>4, <3>3
    <3>5. ASSUME NEW p \in Objects, freed'[p], NEW s \in Threads PROVE p \notin soft2[s]
      <4>1. CASE p = o
        BY <3>4, <4>1
      <4>2. CASE p # o
        <5>1. p \notin soft[s]
          BY <1>6, <3>1, <3>5, <4>2
        <5> QED
          BY <2>4, <5>1
      <4> QED
        BY <4>1, <4>2
    <3> QED
      BY <2>6, <3>1, <3>5
  <2>12. lockSoft'[o] \in Nat
    BY <2>9, <2>10 DEF SoftKept
  <2>13. Sound(hold, soft2, wsoft, w, fin)'
    BY <1>8, <1>9, <2>6, <2>7, <2>10, <2>11, <2>12 DEF Sound
  <2> QED
    BY <2>13 DEF LifeIsSound
<1>12. CASE fin /\ t = Unmounter
  <2>1. /\ todo[Unmounter] # <<>> /\ Head(todo[Unmounter]).do = "unlockSoft"
        /\ Head(todo[Unmounter]).on = o
        /\ EndLegal(todo[Unmounter], Owned, Dead, wsoft, Dying, w)
    BY <1>1, <1>3, <1>12, FiniAt
  <2>2. o \in wsoft /\ ~isDead[o]
    BY <2>1 DEF EndLegal, Dead
  <2>w. PICK wsoft2 : wsoft2 = wsoft \ {o}
    OBVIOUS
  <2>3. todo' = [todo EXCEPT ![Unmounter] = Tail(@)]
    BY <1>3, <1>12 DEF Advance
  <2>5. EndNext(todo[Unmounter], Owned, Dead, wsoft, Dying, w)
           = <<Tail(todo[Unmounter]), Owned', Dead', wsoft2, Dying', w>>
    BY <1>4, <2>1, <2>w DEF EndNext
  <2>6. /\ Scripts(hold, soft, fin)' /\ Ends(hold, soft, wsoft2, w, fin)'
        /\ DOMAIN todo' = Threads
        /\ \A s \in Threads : Busy(s, fin)' => Busy(s, fin)
    BY <1>1, <1>4, <1>12, <2>1, <2>3, <2>5, FiniMoves
  <2>7. Ghosts(hold, soft, wsoft2, w, fin)'
    BY <1>2, <1>3, <2>w DEF Ghosts, locks
  <2>8. Phase(hold, wsoft2, fin)'
    BY <1>9, <1>12, <2>w DEF Phase
  <2>9. ~freed[o]
    BY <1>2, <2>2 DEF SoftKept
  <2>10. freed' = freed
    BY <1>3, <1>5, <2>2, <2>9
  <2>11. SoftKept(soft, wsoft2)'
    <3> SUFFICES ASSUME NEW p \in Objects
                 PROVE  /\ lockSoft'[p] = Cardinality(SoftOwners(soft, p)) + (IF p \in wsoft2 THEN 1 ELSE 0)
                        /\ isDead'[p] /\ p \notin Dying' /\ ~freed'[p] => \E s \in Threads : p \in soft[s]
                        /\ freed'[p] => isDead'[p] /\ p \notin Dying'
      BY DEF SoftKept
    <3>1. /\ lockSoft[p] = Cardinality(SoftOwners(soft, p)) + (IF p \in wsoft THEN 1 ELSE 0)
          /\ isDead[p] /\ p \notin Dying /\ ~freed[p] => \E s \in Threads : p \in soft[s]
          /\ freed[p] => isDead[p] /\ p \notin Dying
      BY <1>2 DEF SoftKept
    <3>2. isDead' = isDead
      BY <1>3
    <3>3. lockSoft'[p] = Cardinality(SoftOwners(soft, p)) + (IF p \in wsoft2 THEN 1 ELSE 0)
      <4>1. Cardinality(SoftOwners(soft, p)) \in Nat
        BY SoftFinite
      <4> QED
        BY <1>6, <2>2, <2>w, <3>1, <4>1
    <3> QED
      BY <1>4, <2>10, <3>1, <3>2, <3>3
  <2>12. OneBusy(soft, fin)'
    BY <1>2, <2>6, <2>10, BusyStay
  <2>13. lockSoft'[o] \in Nat
    <3>1. Cardinality(SoftOwners(soft, o)) \in Nat
      BY SoftFinite
    <3> QED
      BY <2>11, <3>1 DEF SoftKept
  <2>14. Sound(hold, soft, wsoft2, w, fin)'
    BY <1>8, <1>9, <2>6, <2>7, <2>8, <2>11, <2>12, <2>13 DEF Sound
  <2> QED
    BY <2>14 DEF LifeIsSound
<1> QED
  BY <1>11, <1>12

LEMMA KillKeeps ==
  ASSUME LifeIsSound, NEW t \in Threads, NEW o \in Objects, Kill(t, o)
  PROVE  LifeIsSound'
<1>1. PICK hold, soft, wsoft, w, fin : Sound(hold, soft, wsoft, w, fin)
  BY DEF LifeIsSound
<1>2. /\ TypeOK /\ Ghosts(hold, soft, wsoft, w, fin)
      /\ Phase(hold, wsoft, fin) /\ LocksKept(w, fin)
      /\ SoftKept(soft, wsoft) /\ OneBusy(soft, fin)
  BY <1>1 DEF Sound
<1>3. /\ At(t, "kill", o) /\ Advance(t)
      /\ mxLockSoft' = [mxLockSoft EXCEPT ![o] = t]
      /\ isDead' = [isDead EXCEPT ![o] = TRUE]
      /\ UNCHANGED <<listed, globalMx, locks, lockSoft, freed, channels>>
  BY DEF Kill
<1>4. fin /\ t = Unmounter
  <2> SUFFICES ASSUME ~(fin /\ t = Unmounter) PROVE FALSE
    OBVIOUS
  <2>1. /\ todo[t] # <<>> /\ Head(todo[t]).do = "kill"
        /\ Legal(todo[t], Rights(t), hold[t], soft[t], Kind(t))
    BY <1>1, <1>3, CallAt
  <2> QED
    BY <2>1 DEF Legal
<1>5. /\ todo[Unmounter] # <<>> /\ Head(todo[Unmounter]).do = "kill"
      /\ Head(todo[Unmounter]).on = o
      /\ EndLegal(todo[Unmounter], Owned, Dead, wsoft, Dying, w)
  BY <1>1, <1>3, <1>4, FiniAt
<1>6. o \notin Dead /\ Owned = Objects /\ Dying = {} /\ (o # "writer" => wsoft = {})
  BY <1>5 DEF EndLegal
<1>7. /\ isDead \in [Objects -> BOOLEAN] /\ mxLockSoft \in [Objects -> Threads \cup {NULL}]
  BY <1>2 DEF TypeOK
<1>8. /\ isDead'[o] /\ mxLockSoft'[o] # NULL
      /\ \A p \in Objects \ {o} : isDead'[p] = isDead[p] /\ mxLockSoft'[p] = mxLockSoft[p]
  BY <1>3, <1>7, MountAssumption
<1>9. Owned' = Owned /\ Dead' = Dead \cup {o} /\ Dying' = {o}
  <2>1. Owned' = Owned
    BY <1>3 DEF Owned, locks
  <2>2. Dead' = Dead \cup {o}
    BY <1>8 DEF Dead
  <2>3. Dying' = {o}
    BY <1>6, <1>8 DEF Dying
  <2> QED
    BY <2>1, <2>2, <2>3
<1>10. \A s : Kind(s)' = Kind(s) /\ Rights(s)' = Rights(s)
  BY <1>3, KindsStay, RightsStay
<1>11. EndNext(todo[Unmounter], Owned, Dead, wsoft, Dying, w)
         = <<Tail(todo[Unmounter]), Owned', Dead', wsoft, Dying', w>>
  BY <1>5, <1>9 DEF EndNext
<1>12. todo' = [todo EXCEPT ![Unmounter] = Tail(@)]
  BY <1>3, <1>4 DEF Advance
<1>13. /\ Scripts(hold, soft, fin)' /\ Ends(hold, soft, wsoft, w, fin)'
       /\ DOMAIN todo' = Threads
       /\ \A s \in Threads : Busy(s, fin)' => Busy(s, fin)
  BY <1>1, <1>4, <1>5, <1>10, <1>11, <1>12, FiniMoves
<1>14. TypeOK'
  <2>1. /\ isDead' \in [Objects -> BOOLEAN]
        /\ mxLockSoft' \in [Objects -> Threads \cup {NULL}]
    BY <1>3, <1>7
  <2> QED
    BY <1>2, <1>3, <1>13, <2>1 DEF TypeOK, locks
<1>15. Ghosts(hold, soft, wsoft, w, fin)'
  BY <1>2, <1>3 DEF Ghosts, locks
<1>16. Phase(hold, wsoft, fin)'
  <2>1. wsoft \cap Dead' = {}
    <3>1. wsoft \cap Dead = {} /\ wsoft \subseteq {"index", "pages"}
      BY <1>2 DEF Phase, Ghosts
    <3> QED
      BY <1>6, <1>9, <3>1
  <2>2. \A p \in Objects : threadId'[p] \in {NULL, Unmounter}
    BY <1>2, <1>3 DEF Phase, locks
  <2>3. Dying' \subseteq Dead' /\ (Dead' # {} => Owned' = Objects)
    BY <1>6, <1>9
  <2>4. ~listed /\ globalMx = NULL
    BY <1>2, <1>4 DEF Phase
  <2>5. \A s \in Threads : ~(<<s, "reader">> \in channels /\ <<s, "writer">> \in channels)
    BY <1>2 DEF Phase
  <2> QED
    BY <1>3, <1>4, <2>1, <2>2, <2>3, <2>4, <2>5 DEF Phase
<1>17. LocksKept(w, fin)'
  <2>1. \A p \in Objects : Col(p)' = Col(p)
    BY <1>3 DEF Col, locks
  <2>2. /\ \A p \in Owned : \A s \in Threads \ {Unmounter} : held[s][p] = 0
        /\ \A p \in Objects : threadId[p] = NULL => Counts(numLocks[p], Col(p))
        /\ \A p \in w \ Owned : numLocks[p] = -1
        /\ \A p \in Owned \ Dead :
             numLocks[p] = -1 \/ (p = "pages" /\ Owned = Objects /\ numLocks[p] = 0)
        /\ \A p \in w : held[Unmounter][p] >= 1
    BY <1>2, <1>4 DEF LocksKept
  <2>3. UNCHANGED <<numLocks, threadId, held>>
    BY <1>3 DEF locks
  <2> QED
    BY <1>9, <2>1, <2>2, <2>3 DEF LocksKept
<1>18. SoftKept(soft, wsoft)'
  <2> SUFFICES ASSUME NEW p \in Objects
               PROVE  /\ lockSoft'[p] = Cardinality(SoftOwners(soft, p)) + (IF p \in wsoft THEN 1 ELSE 0)
                      /\ isDead'[p] /\ p \notin Dying' /\ ~freed'[p] => \E s \in Threads : p \in soft[s]
                      /\ freed'[p] => isDead'[p] /\ p \notin Dying'
    BY DEF SoftKept
  <2>1. /\ lockSoft[p] = Cardinality(SoftOwners(soft, p)) + (IF p \in wsoft THEN 1 ELSE 0)
        /\ isDead[p] /\ p \notin Dying /\ ~freed[p] => \E s \in Threads : p \in soft[s]
        /\ freed[p] => isDead[p] /\ p \notin Dying
    BY <1>2 DEF SoftKept
  <2>2. lockSoft' = lockSoft /\ freed' = freed
    BY <1>3
  <2>3. CASE p = o
    <3>1. ~freed[p]
      BY <1>6, <2>1, <2>3 DEF Dead
    <3> QED
      BY <1>9, <2>1, <2>2, <2>3, <3>1
  <2>4. CASE p # o
    BY <1>6, <1>8, <1>9, <2>1, <2>2, <2>4
  <2> QED
    BY <2>3, <2>4
<1>19. OneBusy(soft, fin)'
  BY <1>2, <1>3, <1>13, BusyStay
<1> QED
  BY <1>13, <1>14, <1>15, <1>16, <1>17, <1>18, <1>19 DEF Sound, LifeIsSound

LEMMA FinishKeeps ==
  ASSUME LifeIsSound, NEW t \in Threads, NEW o \in Objects, Finish(t, o)
  PROVE  LifeIsSound'
<1>1. PICK hold, soft, wsoft, w, fin : Sound(hold, soft, wsoft, w, fin)
  BY DEF LifeIsSound
<1>2. /\ TypeOK /\ Ghosts(hold, soft, wsoft, w, fin)
      /\ Phase(hold, wsoft, fin) /\ LocksKept(w, fin)
      /\ SoftKept(soft, wsoft) /\ OneBusy(soft, fin)
  BY <1>1 DEF Sound
<1>3. /\ At(t, "finish", o) /\ Advance(t)
      /\ mxLockSoft' = [mxLockSoft EXCEPT ![o] = NULL]
      /\ freed' = [freed EXCEPT ![o] = lockSoft[o] = 0]
      /\ UNCHANGED <<listed, globalMx, locks, lockSoft, isDead, channels>>
  BY DEF Finish
<1>4. fin /\ t = Unmounter
  <2> SUFFICES ASSUME ~(fin /\ t = Unmounter) PROVE FALSE
    OBVIOUS
  <2>1. /\ todo[t] # <<>> /\ Head(todo[t]).do = "finish"
        /\ Legal(todo[t], Rights(t), hold[t], soft[t], Kind(t))
    BY <1>1, <1>3, CallAt
  <2> QED
    BY <2>1 DEF Legal
<1>5. /\ todo[Unmounter] # <<>> /\ Head(todo[Unmounter]).do = "finish"
      /\ Head(todo[Unmounter]).on = o
      /\ EndLegal(todo[Unmounter], Owned, Dead, wsoft, Dying, w)
  BY <1>1, <1>3, <1>4, FiniAt
<1>6. Dying = {o}
  BY <1>5 DEF EndLegal
<1>7. /\ freed \in [Objects -> BOOLEAN] /\ mxLockSoft \in [Objects -> Threads \cup {NULL}]
  BY <1>2 DEF TypeOK
<1>8. /\ (freed'[o] <=> lockSoft[o] = 0) /\ mxLockSoft'[o] = NULL
      /\ \A p \in Objects \ {o} : freed'[p] = freed[p] /\ mxLockSoft'[p] = mxLockSoft[p]
  BY <1>3, <1>7
<1>9. Owned' = Owned /\ Dead' = Dead /\ Dying' = {}
  <2>1. Owned' = Owned /\ Dead' = Dead
    BY <1>3 DEF Owned, Dead, locks
  <2>2. Dying' = {}
    BY <1>6, <1>8 DEF Dying
  <2> QED
    BY <2>1, <2>2
<1>10. \A s : Kind(s)' = Kind(s) /\ Rights(s)' = Rights(s)
  BY <1>3, KindsStay, RightsStay
<1>11. EndNext(todo[Unmounter], Owned, Dead, wsoft, Dying, w)
         = <<Tail(todo[Unmounter]), Owned', Dead', wsoft, Dying', w>>
  BY <1>5, <1>9 DEF EndNext
<1>12. todo' = [todo EXCEPT ![Unmounter] = Tail(@)]
  BY <1>3, <1>4 DEF Advance
<1>13. /\ Scripts(hold, soft, fin)' /\ Ends(hold, soft, wsoft, w, fin)'
       /\ DOMAIN todo' = Threads
       /\ \A s \in Threads : Busy(s, fin)' => Busy(s, fin)
  BY <1>1, <1>4, <1>5, <1>10, <1>11, <1>12, FiniMoves
<1>14. TypeOK'
  <2>1. /\ freed' \in [Objects -> BOOLEAN]
        /\ mxLockSoft' \in [Objects -> Threads \cup {NULL}]
    BY <1>3, <1>7
  <2> QED
    BY <1>2, <1>3, <1>13, <2>1 DEF TypeOK, locks
<1>15. Ghosts(hold, soft, wsoft, w, fin)'
  BY <1>2, <1>3 DEF Ghosts, locks
<1>16. Phase(hold, wsoft, fin)'
  <2>1. wsoft \cap Dead' = {} /\ (Dead' # {} => Owned' = Objects)
    BY <1>2, <1>9 DEF Phase
  <2>2. \A p \in Objects : threadId'[p] \in {NULL, Unmounter}
    BY <1>2, <1>3 DEF Phase, locks
  <2>3. Dying' \subseteq Dead'
    BY <1>9
  <2>4. ~listed /\ globalMx = NULL
    BY <1>2, <1>4 DEF Phase
  <2>5. \A s \in Threads : ~(<<s, "reader">> \in channels /\ <<s, "writer">> \in channels)
    BY <1>2 DEF Phase
  <2> QED
    BY <1>3, <1>4, <2>1, <2>2, <2>3, <2>4, <2>5 DEF Phase
<1>17. LocksKept(w, fin)'
  BY <1>2, <1>3, LocksStay DEF locks
<1>18. lockSoft[o] = Cardinality(SoftOwners(soft, o)) /\ isDead[o]
  <2>1. o \in Dead /\ o \notin wsoft
    BY <1>2, <1>6 DEF Phase
  <2>2. Cardinality(SoftOwners(soft, o)) \in Nat
    BY SoftFinite
  <2> QED
    BY <1>2, <2>1, <2>2 DEF SoftKept, Dead
<1>19. freed'[o] <=> \A s \in Threads : o \notin soft[s]
  BY <1>8, <1>18, SoftFinite
<1>20. SoftKept(soft, wsoft)'
  <2> SUFFICES ASSUME NEW p \in Objects
               PROVE  /\ lockSoft'[p] = Cardinality(SoftOwners(soft, p)) + (IF p \in wsoft THEN 1 ELSE 0)
                      /\ isDead'[p] /\ p \notin Dying' /\ ~freed'[p] => \E s \in Threads : p \in soft[s]
                      /\ freed'[p] => isDead'[p] /\ p \notin Dying'
    BY DEF SoftKept
  <2>1. /\ lockSoft[p] = Cardinality(SoftOwners(soft, p)) + (IF p \in wsoft THEN 1 ELSE 0)
        /\ isDead[p] /\ p \notin Dying /\ ~freed[p] => \E s \in Threads : p \in soft[s]
        /\ freed[p] => isDead[p] /\ p \notin Dying
    BY <1>2 DEF SoftKept
  <2>2. lockSoft' = lockSoft /\ isDead' = isDead
    BY <1>3
  <2>3. CASE p = o
    BY <1>9, <1>18, <1>19, <2>1, <2>2, <2>3
  <2>4. CASE p # o
    BY <1>6, <1>8, <1>9, <2>1, <2>2, <2>4
  <2> QED
    BY <2>3, <2>4
<1>21. OneBusy(soft, fin)'
  <2> SUFFICES ASSUME MaxChannels <= 1
               PROVE  /\ \A s, r \in Threads : Busy(s, fin)' /\ Busy(r, fin)' => s = r
                      /\ \A p \in Objects : freed'[p] => \A s \in Threads : p \notin soft[s]
    BY DEF OneBusy
  <2>1. /\ \A s, r \in Threads : Busy(s, fin) /\ Busy(r, fin) => s = r
        /\ \A p \in Objects : freed[p] => \A s \in Threads : p \notin soft[s]
    BY <1>2 DEF OneBusy
  <2>2. ASSUME NEW p \in Objects, freed'[p], NEW s \in Threads PROVE p \notin soft[s]
    <3>1. CASE p = o
      BY <1>19, <2>2, <3>1
    <3>2. CASE p # o
      BY <1>8, <2>1, <2>2, <3>2
    <3> QED
      BY <3>1, <3>2
  <2> QED
    BY <1>13, <2>1, <2>2
<1> QED
  BY <1>13, <1>14, <1>15, <1>16, <1>17, <1>20, <1>21 DEF Sound, LifeIsSound

LEMMA OpenedKeeps ==
  ASSUME LifeIsSound, NEW t \in Threads, NEW kind \in {"reader", "writer"}, Opened(t, kind)
  PROVE  LifeIsSound'
<1>1. PICK hold, soft, wsoft, w, fin : Sound(hold, soft, wsoft, w, fin)
  BY DEF LifeIsSound
<1>2. /\ TypeOK /\ Ghosts(hold, soft, wsoft, w, fin)
      /\ Phase(hold, wsoft, fin) /\ LocksKept(w, fin)
      /\ SoftKept(soft, wsoft) /\ OneBusy(soft, fin)
  BY <1>1 DEF Sound
<1>3. /\ At(t, "opened", kind) /\ Advance(t) /\ channels' = channels \cup {<<t, kind>>}
      /\ UNCHANGED <<listed, globalMx, locks, life>>
  BY DEF Opened
<1>4. ~(fin /\ t = Unmounter)
  <2> SUFFICES ASSUME fin, t = Unmounter PROVE FALSE
    OBVIOUS
  <2>1. /\ todo[t] # <<>> /\ Head(todo[t]).do = "opened"
        /\ EndLegal(todo[t], Owned, Dead, wsoft, Dying, w)
    BY <1>1, <1>3, FiniAt
  <2> QED
    BY <2>1 DEF EndLegal
<1>5. /\ todo[t] # <<>> /\ Head(todo[t]).do = "opened" /\ Head(todo[t]).on = kind
      /\ Legal(todo[t], Rights(t), hold[t], soft[t], Kind(t))
  BY <1>1, <1>3, <1>4, CallAt
<1>6. Kind(t) = "none" /\ IsCall(todo[t])
  BY <1>5 DEF Legal
<1>7. <<t, "reader">> \notin channels /\ <<t, "writer">> \notin channels
  BY <1>6 DEF Kind
<1>8. \A s \in Threads, k \in {"reader", "writer"} :
        <<s, k>> \in channels' <=> <<s, k>> \in channels \/ (s = t /\ k = kind)
  BY <1>3
<1>9. Kind(t)' = kind /\ \A s \in Threads \ {t} : Kind(s)' = Kind(s)
  <2>1. Kind(t)' = kind
    BY <1>7, <1>8 DEF Kind
  <2>2. ASSUME NEW s \in Threads \ {t} PROVE Kind(s)' = Kind(s)
    BY <1>8 DEF Kind
  <2> QED
    BY <2>1, <2>2
<1>10. /\ \A s : Rights(s)' = Rights(s)
       /\ Owned' = Owned /\ Dead' = Dead /\ Dying' = Dying
  BY <1>3, RightsStay, LivesStay DEF life, locks
<1> DEFINE s2 == Tail(todo[t])
<1>11. todo' = [todo EXCEPT ![t] = s2]
  BY <1>2, <1>3 DEF Advance, TypeOK
<1> HIDE DEF s2
<1>12. <<s2, Rights(t)', hold[t], soft[t], Kind(t)'>>
         \in After(todo[t], Rights(t), hold[t], soft[t], Kind(t))
  BY <1>5, <1>9, <1>10 DEF After, s2
<1>13. OpensOrCloses(todo[t])
  BY <1>5, <1>6, TailOpens
<1>14. /\ Scripts(hold, soft, fin)' /\ Ends(hold, soft, wsoft, w, fin)'
       /\ DOMAIN todo' = Threads
       /\ \A s \in Threads : Busy(s, fin)' => Busy(s, fin)
  BY <1>1, <1>4, <1>9, <1>10, <1>11, <1>12, <1>13, CallMoves
<1>15. TypeOK'
  BY <1>2, <1>3, <1>14 DEF TypeOK, life, locks
<1>16. Ghosts(hold, soft, wsoft, w, fin)'
  BY <1>2, <1>3 DEF Ghosts, locks
<1>17. Phase(hold, wsoft, fin)'
  <2>1. \A s \in Threads : ~(<<s, "reader">> \in channels' /\ <<s, "writer">> \in channels')
    <3>1. \A s \in Threads : ~(<<s, "reader">> \in channels /\ <<s, "writer">> \in channels)
      BY <1>2 DEF Phase
    <3> QED
      BY <1>7, <1>8, <3>1
  <2> QED
    BY <1>2, <1>3, <1>10, <2>1 DEF Phase, locks
<1>18. LocksKept(w, fin)' /\ SoftKept(soft, wsoft)'
  BY <1>2, <1>3, LocksStay, SoftStay DEF life, locks
<1>19. OneBusy(soft, fin)'
  BY <1>2, <1>3, <1>14, BusyStay DEF life
<1> QED
  BY <1>14, <1>15, <1>16, <1>17, <1>18, <1>19 DEF Sound, LifeIsSound

-----------------------------------------------------------------------------
(* Beginning a call *)

\* Cookfs_VfsFini is over when nothing of it is left to do.
LEMMA FiniIsOver ==
  ASSUME NEW hold, NEW soft, NEW wsoft, NEW w, Sound(hold, soft, wsoft, w, TRUE),
         todo[Unmounter] = <<>>
  PROVE  Sound(hold, soft, wsoft, w, FALSE)
<1>1. /\ TypeOK /\ Ghosts(hold, soft, wsoft, w, TRUE)
      /\ Scripts(hold, soft, TRUE) /\ Ends(hold, soft, wsoft, w, TRUE)
      /\ Phase(hold, wsoft, TRUE) /\ LocksKept(w, TRUE)
      /\ SoftKept(soft, wsoft) /\ OneBusy(soft, TRUE)
  BY DEF Sound
<1>2. /\ Ending(todo[Unmounter], Owned, Dead, wsoft, Dying, w)
      /\ soft[Unmounter] = SoftOf(Kind(Unmounter))
      /\ hold[Unmounter] = Hold(0, 0, 0)
  BY <1>1 DEF Ends
<1>3. EndLegal(todo[Unmounter], Owned, Dead, wsoft, Dying, w)
  BY <1>2, EndingIsLegal
<1>4. /\ Dying = {} /\ Owned = Objects
      /\ \/ Dead = Objects /\ wsoft = {}
         \/ Dead = {} /\ "fails" \in Purges
  BY <1>3 DEF EndLegal
<1>5. Rights(Unmounter) = {}
  <2>1. ~listed /\ globalMx = NULL
    BY <1>1 DEF Phase
  <2> QED
    BY <2>1, MountAssumption DEF Rights
<1>6. Safe(todo[Unmounter], Rights(Unmounter), hold[Unmounter], soft[Unmounter], Kind(Unmounter))
  <2>1. Kind(Unmounter) \in Kinds /\ Hold(0, 0, 0) \in [Objects -> Nat]
    BY KindIsKind, Holds
  <2> DEFINE none == {}
  <2>2. none \subseteq {"handle"} /\ Rights(Unmounter) = none
    BY <1>5
  <2> HIDE DEF none
  <2>3. Safe(<<>>, none, Hold(0, 0, 0), SoftOf(Kind(Unmounter)), Kind(Unmounter))
    BY <2>1, <2>2, SafeEnd
  <2> QED
    BY <1>2, <2>2, <2>3
<1>7. Scripts(hold, soft, FALSE)
  BY <1>1, <1>6 DEF Scripts
<1>8. Ends(hold, soft, wsoft, w, FALSE) /\ Ghosts(hold, soft, wsoft, w, FALSE)
  BY <1>1 DEF Ends, Ghosts
<1>9. Phase(hold, wsoft, FALSE)
  BY <1>1, <1>2, <1>4 DEF Phase
<1>10. LocksKept(w, FALSE)
  BY <1>1 DEF LocksKept
<1>11. \A s : Busy(s, FALSE) => Busy(s, TRUE)
  BY NoStep DEF Busy
<1>12. OneBusy(soft, FALSE)
  BY <1>1, <1>11 DEF OneBusy
<1> QED
  BY <1>1, <1>7, <1>8, <1>9, <1>10, <1>12 DEF Sound

\* A thread that is in no call has the soft locks of its channel and no rights
\* but those of the handle.
LEMMA IdleThread ==
  ASSUME LifeIsSound, NEW t \in Threads, todo[t] = <<>>
  PROVE  \E hold, soft, wsoft, w, fin :
           /\ Sound(hold, soft, wsoft, w, fin) /\ ~(fin /\ t = Unmounter)
           /\ soft[t] = SoftOf(Kind(t)) /\ Rights(t) \subseteq {"handle"}
           /\ ~Busy(t, fin) <=> Kind(t) = "none"
<1>1. PICK hold, soft, wsoft, w, fin : Sound(hold, soft, wsoft, w, fin)
  BY DEF LifeIsSound
<1>2. fin \in BOOLEAN
  BY <1>1 DEF Sound, Ghosts
<1>3. PICK f \in BOOLEAN : Sound(hold, soft, wsoft, w, f) /\ ~(f /\ t = Unmounter)
  <2>1. CASE fin /\ t = Unmounter
    <3>1. fin = TRUE
      BY <1>2, <2>1
    <3>2. Sound(hold, soft, wsoft, w, TRUE) /\ todo[Unmounter] = <<>>
      BY <1>1, <2>1, <3>1
    <3>3. Sound(hold, soft, wsoft, w, FALSE)
      BY <3>2, FiniIsOver
    <3> QED
      BY <3>3
  <2>2. CASE ~(fin /\ t = Unmounter)
    BY <1>1, <1>2, <2>2
  <2> QED
    BY <2>1, <2>2
<1>4. Legal(todo[t], Rights(t), hold[t], soft[t], Kind(t))
  BY <1>3, CallStep
<1>5. ~OpensOrCloses(todo[t])
  BY NoStep
<1>6. soft[t] = SoftOf(Kind(t)) /\ Rights(t) \subseteq {"handle"}
  BY <1>4, <1>5 DEF Legal
<1>7. ~Busy(t, f) <=> Kind(t) = "none"
  BY <1>5 DEF Busy
<1> QED
  BY <1>3, <1>6, <1>7

LEMMA FileCallIsSafe ==
  ASSUME "delete" \notin Ops, NEW op \in Ops \cap DOMAIN FileCalls,
         NEW may, may \subseteq {"path", "handle"}, "path" \in may,
         NEW kind \in Kinds, op \in Opens => kind = "none"
  PROVE  /\ Safe(FileCalls[op], may, Hold(0, 0, 0), SoftOf(kind), kind)
         /\ op \notin Opens => ~OpensOrCloses(FileCalls[op])
<1>1. op \in {"stat", "update", "getAttr", "setAttr", "openReader", "openWriter", "openExisting"}
  BY DEF FileCalls
<1>2. CASE op = "stat"
  <2>1. FileCalls[op] = Stat
    BY <1>2 DEF FileCalls
  <2> QED
    BY <2>1, StatIsSafe
<1>3. CASE op = "update"
  <2>1. FileCalls[op] = Update
    BY <1>3 DEF FileCalls
  <2> QED
    BY <2>1, StatIsSafe
<1>4. CASE op = "getAttr"
  <2>1. FileCalls[op] = FileAttrsGet
    BY <1>4 DEF FileCalls
  <2> QED
    BY <2>1, FileAttrsGetIsSafe
<1>5. CASE op = "setAttr"
  <2>1. FileCalls[op] = FileAttrsSet
    BY <1>5 DEF FileCalls
  <2> QED
    BY <2>1, FileAttrsSetIsSafe
<1>6. CASE op = "openReader"
  <2>1. FileCalls[op] = OpenReader /\ kind = "none" /\ op \in Opens
    BY <1>6 DEF FileCalls, Opens
  <2> QED
    BY <2>1, OpenReaderIsSafe
<1>7. CASE op = "openWriter"
  <2>1. FileCalls[op] = OpenWriter /\ kind = "none" /\ op \in Opens
    BY <1>7 DEF FileCalls, Opens
  <2> QED
    BY <2>1, OpenWriterIsSafe
<1>8. CASE op = "openExisting"
  <2>1. FileCalls[op] = OpenExisting /\ kind = "none" /\ op \in Opens
    BY <1>8 DEF FileCalls, Opens
  <2> QED
    BY <2>1, OpenExistingIsSafe
<1> QED
  BY <1>1, <1>2, <1>3, <1>4, <1>5, <1>6, <1>7, <1>8

\* With at most one channel, one is opened only when there is none.
LEMMA NobodyIsBusy ==
  ASSUME TypeOK, MaxChannels <= 1,
         Cardinality(channels) + Cardinality(Channelling) < MaxChannels
  PROVE  \A s \in Threads : \A fin : ~Busy(s, fin)
<1>1. MaxChannels \in Nat /\ IsFiniteSet(Threads)
  BY MountAssumption
<1>2. IsFiniteSet({"reader", "writer"})
  <2>1. IsFiniteSet({"reader"})
    BY FS_Singleton
  <2>2. IsFiniteSet({"reader"} \cup {"writer"})
    BY <2>1, FS_AddElement
  <2>3. {"reader"} \cup {"writer"} = {"reader", "writer"}
    OBVIOUS
  <2> QED
    BY <2>2, <2>3
<1>3. IsFiniteSet(Threads \X {"reader", "writer"})
  BY <1>1, <1>2, FS_Product
<1>4. IsFiniteSet(channels)
  BY <1>3, FS_Subset DEF TypeOK
<1>5. IsFiniteSet(Channelling)
  BY <1>1, FS_Subset DEF Channelling
<1>6. Cardinality(channels) \in Nat /\ Cardinality(Channelling) \in Nat
  BY <1>4, <1>5, FS_CardinalityType
<1>7. Cardinality(channels) = 0 /\ Cardinality(Channelling) = 0
  BY <1>1, <1>6
<1>8. channels = {} /\ Channelling = {}
  BY <1>4, <1>5, <1>7, FS_EmptySet
<1>9. \A s \in Threads : ~OpensOrCloses(todo[s])
  BY <1>8 DEF Channelling, OpensOrCloses
<1>10. \A s \in Threads : Kind(s) = "none"
  BY <1>8 DEF Kind
<1> QED
  BY <1>9, <1>10 DEF Busy

LEMMA CallFileKeeps ==
  ASSUME "delete" \notin Ops, LifeIsSound, NEW t \in Threads, CallFile(t)
  PROVE  LifeIsSound'
<1>1. PICK op \in Ops \cap DOMAIN FileCalls :
        /\ op \in Opens =>
             /\ Cardinality(channels) + Cardinality(Channelling) < MaxChannels
             /\ \A c \in channels : c[1] # t
        /\ Begin(t, FileCalls[op])
  BY DEF CallFile
<1>2. /\ listed /\ globalMx = NULL /\ globalMx' = t
      /\ UNCHANGED <<listed, locks, life, channels>>
      /\ todo[t] = <<>> /\ todo' = [todo EXCEPT ![t] = FileCalls[op]]
  BY <1>1 DEF CallFile, Begin, Idle
<1>3. PICK hold, soft, wsoft, w, fin :
        /\ Sound(hold, soft, wsoft, w, fin) /\ ~(fin /\ t = Unmounter)
        /\ soft[t] = SoftOf(Kind(t)) /\ Rights(t) \subseteq {"handle"}
        /\ ~Busy(t, fin) <=> Kind(t) = "none"
  BY <1>2, IdleThread
<1>4. /\ TypeOK /\ Ghosts(hold, soft, wsoft, w, fin)
      /\ Phase(hold, wsoft, fin) /\ LocksKept(w, fin)
      /\ SoftKept(soft, wsoft) /\ OneBusy(soft, fin)
  BY <1>3 DEF Sound
<1>5. "path" \in Rights(t)' /\ Rights(t)' \subseteq {"path", "handle"}
  BY <1>2 DEF Rights
<1>6. \A s \in Threads \ {t} : Rights(s)' = Rights(s)
  BY <1>2, MountAssumption DEF Rights
<1>7. /\ \A s : Kind(s)' = Kind(s)
      /\ Owned' = Owned /\ Dead' = Dead /\ Dying' = Dying
  BY <1>2, KindsStay, LivesStay DEF life, locks
<1>8. op \in Opens => Kind(t) = "none"
  <2>1. ASSUME NEW k, <<t, k>> \in channels PROVE op \notin Opens
    <3>1. <<t, k>>[1] = t
      OBVIOUS
    <3> QED
      BY <1>1, <2>1, <3>1
  <2> QED
    BY <2>1 DEF Kind
<1>9. Kind(t) \in Kinds
  BY KindIsKind
<1> DEFINE may == Rights(t)'
<1>10. /\ Safe(FileCalls[op], may, Hold(0, 0, 0), SoftOf(Kind(t)), Kind(t))
       /\ op \notin Opens => ~OpensOrCloses(FileCalls[op])
  <2>1. "path" \in may /\ may \subseteq {"path", "handle"}
    BY <1>5
  <2> HIDE DEF may
  <2> QED
    BY <1>8, <1>9, <2>1, FileCallIsSafe
<1> DEFINE s2 == FileCalls[op]
<1>h. PICK hold2 : hold2 = [hold EXCEPT ![t] = Hold(0, 0, 0)]
  OBVIOUS
<1>11. /\ hold2[t] = Hold(0, 0, 0) /\ \A s \in Threads \ {t} : hold2[s] = hold[s]
       /\ hold2 \in [Threads -> [Objects -> Nat]]
  BY <1>4, <1>h, Holds DEF Ghosts
<1> HIDE DEF s2
<1>12. Safe(s2, Rights(t)', hold2[t], soft[t], Kind(t)')
  BY <1>3, <1>7, <1>10, <1>11 DEF s2
<1>13. todo' = [todo EXCEPT ![t] = s2]
  BY <1>2 DEF s2
<1>14. /\ Scripts(hold2, soft, fin)' /\ Ends(hold2, soft, wsoft, w, fin)'
       /\ DOMAIN todo' = Threads
       /\ \A s \in Threads \ {t} : Busy(s, fin)' => Busy(s, fin)
       /\ todo'[t] = s2
  <2>1. Sound(hold, soft, wsoft, w, fin) /\ ~(fin /\ t = Unmounter)
    BY <1>3
  <2>2. \A s \in Threads \ {t} : hold2[s] = hold[s]
    BY <1>11
  <2>3. \A s \in Threads \ {t} : Rights(s)' = Rights(s) /\ Kind(s)' = Kind(s)
    BY <1>6, <1>7
  <2>4. Owned' = Owned /\ Dead' = Dead /\ Dying' = Dying
    BY <1>7
  <2>6. Begun(hold, soft, fin, t, s2, hold2)
    BY <1>12, <1>13, <2>1, <2>2, <2>3, <2>4 DEF Begun
  <2> QED
    BY <2>1, <2>6, CallBegins
<1>15. TypeOK'
  BY <1>2, <1>4, <1>14 DEF TypeOK, life, locks
<1>16. Ghosts(hold2, soft, wsoft, w, fin)'
  <2>1. ASSUME NEW s \in Threads, NEW p \in Objects PROVE hold2[s][p] <= held[s][p]
    <3>1. Hold(0, 0, 0)[p] = 0
      BY DEF Hold
    <3>2. hold[s][p] <= held[s][p] /\ held[s][p] \in Nat
      BY <1>4 DEF Ghosts, TypeOK
    <3> QED
      BY <1>11, <3>1, <3>2
  <2> QED
    BY <1>2, <1>4, <1>11, <2>1 DEF Ghosts, locks
<1>17. Phase(hold2, wsoft, fin)'
  <2>1. t # NULL
    BY MountAssumption
  <2> QED
    BY <1>2, <1>4, <1>7 DEF Phase, locks
<1>18. LocksKept(w, fin)' /\ SoftKept(soft, wsoft)'
  BY <1>2, <1>4, LocksStay, SoftStay DEF life, locks
<1>19. OneBusy(soft, fin)'
  <2>1. freed' = freed
    BY <1>2 DEF life
  <2>2. CASE op \in Opens
    <3>1. ASSUME MaxChannels <= 1, NEW s \in Threads, Busy(s, fin)' PROVE s = t
      BY <1>1, <1>4, <1>14, <2>2, <3>1, NobodyIsBusy
    <3> QED
      BY <1>4, <2>1, <3>1 DEF OneBusy
  <2>3. CASE op \notin Opens
    <3>1. ~OpensOrCloses(todo'[t])
      BY <1>10, <1>14, <2>3 DEF s2
    <3>2. Busy(t, fin)' => Busy(t, fin)
      BY <1>7, <3>1 DEF Busy
    <3>3. \A s \in Threads : Busy(s, fin)' => Busy(s, fin)
      BY <1>14, <3>2
    <3> QED
      BY <1>4, <2>1, <3>3, BusyStay
  <2> QED
    BY <2>2, <2>3
<1> QED
  BY <1>14, <1>15, <1>16, <1>17, <1>18, <1>19 DEF Sound, LifeIsSound

\* Begins of a call on a channel and on the handle, neither of which opens
\* or closes anything
LEMMA BeginKeeps ==
  ASSUME LifeIsSound, NEW t \in Threads, NEW s2,
         Begin(t, s2), ~OpensOrCloses(s2),
         Safe(s2, Rights(t), Hold(0, 0, 0), SoftOf(Kind(t)), Kind(t)),
         UNCHANGED <<listed, globalMx, locks, life, channels>>
  PROVE  LifeIsSound'
<1>2. todo[t] = <<>> /\ todo' = [todo EXCEPT ![t] = s2]
  BY DEF Begin, Idle
<1>3. PICK hold, soft, wsoft, w, fin :
        /\ Sound(hold, soft, wsoft, w, fin) /\ ~(fin /\ t = Unmounter)
        /\ soft[t] = SoftOf(Kind(t)) /\ Rights(t) \subseteq {"handle"}
        /\ ~Busy(t, fin) <=> Kind(t) = "none"
  BY <1>2, IdleThread
<1>4. /\ TypeOK /\ Ghosts(hold, soft, wsoft, w, fin)
      /\ Phase(hold, wsoft, fin) /\ LocksKept(w, fin)
      /\ SoftKept(soft, wsoft) /\ OneBusy(soft, fin)
  BY <1>3 DEF Sound
<1>7. /\ \A s : Kind(s)' = Kind(s) /\ Rights(s)' = Rights(s)
      /\ Owned' = Owned /\ Dead' = Dead /\ Dying' = Dying
  BY KindsStay, RightsStay, LivesStay DEF life, locks
<1>h. PICK hold2 : hold2 = [hold EXCEPT ![t] = Hold(0, 0, 0)]
  OBVIOUS
<1>11. /\ hold2[t] = Hold(0, 0, 0) /\ \A s \in Threads \ {t} : hold2[s] = hold[s]
       /\ hold2 \in [Threads -> [Objects -> Nat]]
  BY <1>4, <1>h, Holds DEF Ghosts
<1>12. Safe(s2, Rights(t)', hold2[t], soft[t], Kind(t)')
  BY <1>3, <1>7, <1>11
<1>14. /\ Scripts(hold2, soft, fin)' /\ Ends(hold2, soft, wsoft, w, fin)'
       /\ DOMAIN todo' = Threads
       /\ \A s \in Threads \ {t} : Busy(s, fin)' => Busy(s, fin)
       /\ todo'[t] = s2
  <2>1. Sound(hold, soft, wsoft, w, fin) /\ ~(fin /\ t = Unmounter)
    BY <1>3
  <2>2. \A s \in Threads \ {t} : hold2[s] = hold[s]
    BY <1>11
  <2>3. \A s \in Threads \ {t} : Rights(s)' = Rights(s) /\ Kind(s)' = Kind(s)
    BY <1>7
  <2>4. Owned' = Owned /\ Dead' = Dead /\ Dying' = Dying
    BY <1>7
  <2>5. todo' = [todo EXCEPT ![t] = s2]
    BY <1>2
  <2>6. Begun(hold, soft, fin, t, s2, hold2)
    BY <1>12, <2>1, <2>2, <2>3, <2>4, <2>5 DEF Begun
  <2> QED
    BY <2>1, <2>6, CallBegins
<1>15. TypeOK'
  BY <1>4, <1>14 DEF TypeOK, life, locks
<1>16. Ghosts(hold2, soft, wsoft, w, fin)'
  <2>1. ASSUME NEW s \in Threads, NEW p \in Objects PROVE hold2[s][p] <= held[s][p]
    <3>1. Hold(0, 0, 0)[p] = 0
      BY DEF Hold
    <3>2. hold[s][p] <= held[s][p] /\ held[s][p] \in Nat
      BY <1>4 DEF Ghosts, TypeOK
    <3> QED
      BY <1>11, <3>1, <3>2
  <2> QED
    BY <1>4, <1>11, <2>1 DEF Ghosts, locks
<1>17. Phase(hold2, wsoft, fin)'
  <2>1. ASSUME ~fin, Dead = Objects PROVE hold2[Unmounter] = hold[Unmounter]
    <3>1. ~listed
      BY <1>4, <2>1 DEF Phase, Objects
    <3>2. Dead # {}
      BY <2>1 DEF Objects
    <3>3. hold[Unmounter] = Hold(0, 0, 0)
      BY <1>4, <2>1, <3>1, <3>2 DEF Phase
    <3> QED
      BY <1>11, <3>3, MountAssumption
  <2> QED
    BY <1>4, <2>1, PhaseStays DEF life, locks
<1>18. LocksKept(w, fin)' /\ SoftKept(soft, wsoft)'
  BY <1>4, LocksStay, SoftStay DEF life, locks
<1>19. OneBusy(soft, fin)'
  <2>1. freed' = freed
    BY DEF life
  <2>2. Busy(t, fin)' => Busy(t, fin)
    BY <1>7, <1>14 DEF Busy
  <2>3. \A s \in Threads : Busy(s, fin)' => Busy(s, fin)
    BY <1>14, <2>2
  <2> QED
    BY <1>4, <2>1, <2>3, BusyStay
<1> QED
  BY <1>14, <1>15, <1>16, <1>17, <1>18, <1>19 DEF Sound, LifeIsSound

LEMMA IdleRights ==
  ASSUME LifeIsSound, NEW t \in Threads, todo[t] = <<>>
  PROVE  Rights(t) \subseteq {"handle"}
  BY IdleThread

LEMMA CallChannelKeeps ==
  ASSUME LifeIsSound, NEW t \in Threads, CallChannel(t)
  PROVE  LifeIsSound'
<1>1. /\ <<t, "reader">> \in channels /\ Begin(t, ReadChannel)
      /\ UNCHANGED <<listed, globalMx, locks, life, channels>>
  BY DEF CallChannel
<1>2. Kind(t) = "reader"
  BY <1>1 DEF Kind
<1>3. Rights(t) \subseteq {"handle"}
  BY <1>1, IdleRights DEF Begin, Idle
<1>4. /\ Safe(ReadChannel, Rights(t), Hold(0, 0, 0), SoftOf("reader"), "reader")
      /\ ~OpensOrCloses(ReadChannel)
  BY <1>3, ReadChannelIsSafe
<1> QED
  BY <1>1, <1>2, <1>4, BeginKeeps

LEMMA CallHandleKeeps ==
  ASSUME LifeIsSound, NEW t \in Threads, CallHandle(t)
  PROVE  LifeIsSound'
<1>1. /\ t = Unmounter /\ listed /\ Begin(t, Aside)
      /\ UNCHANGED <<listed, globalMx, locks, life, channels>>
  BY DEF CallHandle
<1>2. Rights(t) \subseteq {"handle"}
  BY <1>1, IdleRights DEF Begin, Idle
<1>3. Rights(t) = {"handle"}
  BY <1>1, <1>2 DEF Rights
<1>4. Kind(t) \in Kinds
  BY KindIsKind
<1>5. /\ Safe(Aside, Rights(t), Hold(0, 0, 0), SoftOf(Kind(t)), Kind(t))
      /\ ~OpensOrCloses(Aside)
  BY <1>3, <1>4, AsideIsSafe
<1> QED
  BY <1>1, <1>5, BeginKeeps

\* The closing of a channel
LEMMA CloseKeeps ==
  ASSUME LifeIsSound, NEW t \in Threads, NEW s2, Kind(t) # "none", Begin(t, s2),
         Safe(s2, Rights(t), Hold(0, 0, 0), SoftOf(Kind(t)), "none"),
         channels' = {c \in channels : c[1] # t},
         UNCHANGED <<listed, globalMx, locks, life>>
  PROVE  LifeIsSound'
<1>2. todo[t] = <<>> /\ todo' = [todo EXCEPT ![t] = s2]
  BY DEF Begin, Idle
<1>3. PICK hold, soft, wsoft, w, fin :
        /\ Sound(hold, soft, wsoft, w, fin) /\ ~(fin /\ t = Unmounter)
        /\ soft[t] = SoftOf(Kind(t)) /\ Rights(t) \subseteq {"handle"}
        /\ ~Busy(t, fin) <=> Kind(t) = "none"
  BY <1>2, IdleThread
<1>4. /\ TypeOK /\ Ghosts(hold, soft, wsoft, w, fin)
      /\ Phase(hold, wsoft, fin) /\ LocksKept(w, fin)
      /\ SoftKept(soft, wsoft) /\ OneBusy(soft, fin)
  BY <1>3 DEF Sound
<1>5. \A s, k : <<s, k>> \in channels' <=> <<s, k>> \in channels /\ s # t
  <2>1. \A s, k : <<s, k>>[1] = s
    OBVIOUS
  <2> QED
    BY <2>1
<1>6. Kind(t)' = "none" /\ \A s \in Threads \ {t} : Kind(s)' = Kind(s)
  BY <1>5 DEF Kind
<1>7. /\ \A s : Rights(s)' = Rights(s)
      /\ Owned' = Owned /\ Dead' = Dead /\ Dying' = Dying
  BY RightsStay, LivesStay DEF life, locks
<1>h. PICK hold2 : hold2 = [hold EXCEPT ![t] = Hold(0, 0, 0)]
  OBVIOUS
<1>11. /\ hold2[t] = Hold(0, 0, 0) /\ \A s \in Threads \ {t} : hold2[s] = hold[s]
       /\ hold2 \in [Threads -> [Objects -> Nat]]
  BY <1>4, <1>h, Holds DEF Ghosts
<1>12. Safe(s2, Rights(t)', hold2[t], soft[t], Kind(t)')
  BY <1>3, <1>6, <1>7, <1>11
<1>14. /\ Scripts(hold2, soft, fin)' /\ Ends(hold2, soft, wsoft, w, fin)'
       /\ DOMAIN todo' = Threads
       /\ \A s \in Threads \ {t} : Busy(s, fin)' => Busy(s, fin)
       /\ todo'[t] = s2
  <2>1. Sound(hold, soft, wsoft, w, fin) /\ ~(fin /\ t = Unmounter)
    BY <1>3
  <2>2. \A s \in Threads \ {t} : hold2[s] = hold[s]
    BY <1>11
  <2>3. \A s \in Threads \ {t} : Rights(s)' = Rights(s) /\ Kind(s)' = Kind(s)
    BY <1>6, <1>7
  <2>4. Owned' = Owned /\ Dead' = Dead /\ Dying' = Dying
    BY <1>7
  <2>5. todo' = [todo EXCEPT ![t] = s2]
    BY <1>2
  <2>6. Begun(hold, soft, fin, t, s2, hold2)
    BY <1>12, <2>1, <2>2, <2>3, <2>4, <2>5 DEF Begun
  <2> QED
    BY <2>1, <2>6, CallBegins
<1>15. TypeOK'
  BY <1>4, <1>14 DEF TypeOK, life, locks
<1>16. Ghosts(hold2, soft, wsoft, w, fin)'
  <2>1. ASSUME NEW s \in Threads, NEW p \in Objects PROVE hold2[s][p] <= held[s][p]
    <3>1. Hold(0, 0, 0)[p] = 0
      BY DEF Hold
    <3>2. hold[s][p] <= held[s][p] /\ held[s][p] \in Nat
      BY <1>4 DEF Ghosts, TypeOK
    <3> QED
      BY <1>11, <3>1, <3>2
  <2> QED
    BY <1>4, <1>11, <2>1 DEF Ghosts, locks
<1>17. Phase(hold2, wsoft, fin)'
  <2>1. ASSUME ~fin, hold[Unmounter] = Hold(0, 0, 0) PROVE hold2[Unmounter] = Hold(0, 0, 0)
    BY <1>11, <2>1, MountAssumption
  <2>2. \A s \in Threads : ~(<<s, "reader">> \in channels' /\ <<s, "writer">> \in channels')
    BY <1>4, <1>5 DEF Phase
  <2> QED
    BY <1>4, <1>7, <2>1, <2>2 DEF Phase, locks
<1>18. LocksKept(w, fin)' /\ SoftKept(soft, wsoft)'
  BY <1>4, LocksStay, SoftStay DEF life, locks
<1>19. OneBusy(soft, fin)'
  <2>1. freed' = freed
    BY DEF life
  <2>2. Busy(t, fin)
    BY DEF Busy
  <2>3. \A s \in Threads : Busy(s, fin)' => Busy(s, fin)
    BY <1>14, <2>2
  <2> QED
    BY <1>4, <2>1, <2>3, BusyStay
<1> QED
  BY <1>14, <1>15, <1>16, <1>17, <1>18, <1>19 DEF Sound, LifeIsSound

LEMMA CloseChannelKeeps ==
  ASSUME LifeIsSound, NEW t \in Threads, CloseChannel(t)
  PROVE  LifeIsSound'
<1>1. /\ channels' = {c \in channels : c[1] # t}
      /\ UNCHANGED <<listed, globalMx, locks, life>>
  BY DEF CloseChannel
<1>2. todo[t] = <<>>
  BY DEF CloseChannel, Begin, Idle
<1>3. Rights(t) \subseteq {"handle"}
  BY <1>2, IdleRights
<1>4. ~(<<t, "reader">> \in channels /\ <<t, "writer">> \in channels)
  BY DEF LifeIsSound, Sound, Phase
<1>5. Hold(0, 0, 0) \in [Objects -> Nat]
  BY Holds
<1>6. CASE <<t, "reader">> \in channels /\ Begin(t, ReaderFree)
  <2>1. Kind(t) = "reader"
    BY <1>6 DEF Kind
  <2>2. Safe(ReaderFree, Rights(t), Hold(0, 0, 0), SoftOf("reader"), "none")
    BY <1>3, <1>5, FreeAloneIsSafe
  <2> QED
    BY <1>1, <1>6, <2>1, <2>2, CloseKeeps
<1>7. ASSUME <<t, "writer">> \in channels, NEW isSmall \in BOOLEAN, Begin(t, CloseWriter(isSmall))
      PROVE  LifeIsSound'
  <2>1. Kind(t) = "writer" /\ Kind(t) # "none"
    BY <1>4, <1>7 DEF Kind
  <2>2. CASE isSmall = TRUE
    <3>1. Safe(CloseWriter(TRUE), Rights(t), Hold(0, 0, 0), SoftOf("writer"), "none")
      BY <1>3, CloseSmallIsSafe
    <3>2. Begin(t, CloseWriter(TRUE))
      BY <1>7, <2>2
    <3> QED
      BY <1>1, <2>1, <3>1, <3>2, CloseKeeps
  <2>3. CASE isSmall = FALSE
    <3>1. Safe(CloseWriter(FALSE), Rights(t), Hold(0, 0, 0), SoftOf("writer"), "none")
      BY <1>3, CloseBigIsSafe
    <3>2. Begin(t, CloseWriter(FALSE))
      BY <1>7, <2>3
    <3> QED
      BY <1>1, <2>1, <3>1, <3>2, CloseKeeps
  <2> QED
    BY <2>2, <2>3
<1> QED
  BY <1>6, <1>7 DEF CloseChannel

\* From here on the thread that mounted is in Cookfs_VfsFini: its soft locks are
\* those of its channel, and it has taken no lock there yet.
LEMMA UnmountKeeps ==
  ASSUME LifeIsSound, NEW t \in Threads, Unmount(t)
  PROVE  LifeIsSound'
<1>1. PICK purge \in Purges : Begin(t, VfsFini(purge))
  BY DEF Unmount
<1>2. /\ t = Unmounter /\ listed /\ globalMx = NULL /\ listed' = FALSE
      /\ UNCHANGED <<globalMx, locks, life, channels>>
      /\ todo[t] = <<>> /\ todo' = [todo EXCEPT ![t] = VfsFini(purge)]
  BY <1>1 DEF Unmount, Begin, Idle
<1>3. PICK hold, soft, wsoft, w, fin :
        /\ Sound(hold, soft, wsoft, w, fin) /\ ~(fin /\ t = Unmounter)
        /\ soft[t] = SoftOf(Kind(t))
        /\ ~Busy(t, fin) <=> Kind(t) = "none"
  BY <1>2, IdleThread
<1>4. /\ TypeOK /\ Ghosts(hold, soft, wsoft, w, fin) /\ Scripts(hold, soft, fin)
      /\ Phase(hold, wsoft, fin) /\ LocksKept(w, fin)
      /\ SoftKept(soft, wsoft) /\ OneBusy(soft, fin)
  BY <1>3 DEF Sound
<1>5. /\ ~fin /\ Owned = {} /\ wsoft = {"index", "pages"} /\ Dying = {} /\ Dead = {}
  <2>1. "index" \in Objects
    BY DEF Objects
  <2> QED
    BY <1>2, <1>4, <2>1 DEF Phase
<1>6. /\ \A s : Kind(s)' = Kind(s)
      /\ Owned' = Owned /\ Dead' = Dead /\ Dying' = Dying
  BY <1>2, KindsStay, LivesStay DEF life, locks
<1>7. \A s \in Threads \ {Unmounter} : Rights(s)' = Rights(s)
  BY <1>2 DEF Rights
<1>h. PICK hold2 : hold2 = [hold EXCEPT ![t] = Hold(0, 0, 0)]
  OBVIOUS
<1>8. /\ hold2[t] = Hold(0, 0, 0) /\ \A s \in Threads \ {t} : hold2[s] = hold[s]
      /\ hold2 \in [Threads -> [Objects -> Nat]]
  BY <1>4, <1>h, Holds DEF Ghosts
<1>9. /\ DOMAIN todo' = Threads /\ todo'[t] = VfsFini(purge)
      /\ \A s \in Threads \ {t} : todo'[s] = todo[s]
  BY <1>2, <1>4 DEF TypeOK
<1>10. TypeOK'
  BY <1>2, <1>4, <1>9 DEF TypeOK, life, locks
<1>11. Ghosts(hold2, soft, wsoft, {}, TRUE)'
  <2>1. ASSUME NEW s \in Threads, NEW p \in Objects PROVE hold2[s][p] <= held[s][p]
    <3>1. Hold(0, 0, 0)[p] = 0
      BY DEF Hold
    <3>2. hold[s][p] <= held[s][p] /\ held[s][p] \in Nat
      BY <1>4 DEF Ghosts, TypeOK
    <3> QED
      BY <1>8, <3>1, <3>2
  <2> QED
    BY <1>2, <1>4, <1>8, <2>1 DEF Ghosts, locks
<1>12. Scripts(hold2, soft, TRUE)'
  <2> SUFFICES ASSUME NEW s \in Threads, s # Unmounter
               PROVE  Safe(todo'[s], Rights(s)', hold2[s], soft[s], Kind(s)')
    BY DEF Scripts
  <2>1. Safe(todo[s], Rights(s), hold[s], soft[s], Kind(s))
    BY <1>4 DEF Scripts
  <2>2. s \in Threads \ {t}
    BY <1>2
  <2>3. Rights(s)' = Rights(s) /\ Kind(s)' = Kind(s)
    BY <1>6, <1>7
  <2> QED
    BY <1>8, <1>9, <2>1, <2>2, <2>3
<1>13. Ends(hold2, soft, wsoft, {}, TRUE)'
  <2>1. Ending(VfsFini(purge), {}, {}, {"index", "pages"}, {}, {})
    BY VfsFiniIsEnding
  <2>2. Ending(todo'[Unmounter], Owned', Dead', wsoft, Dying', {})
    BY <1>2, <1>5, <1>6, <1>9, <2>1
  <2>3. soft[Unmounter] = SoftOf(Kind(Unmounter)')
    BY <1>2, <1>3, <1>6
  <2>4. hold2[Unmounter] = Hold(0, 0, 0)
    BY <1>2, <1>8
  <2> QED
    BY <2>2, <2>3, <2>4 DEF Ends
<1>14. Phase(hold2, wsoft, TRUE)'
  BY <1>2, <1>4, <1>5, <1>6 DEF Phase, locks
<1>15. LocksKept({}, TRUE)'
  BY <1>2, <1>4, <1>5, <1>6 DEF LocksKept, Col, locks
<1>16. SoftKept(soft, wsoft)'
  BY <1>2, <1>4, SoftStay
<1>17. OneBusy(soft, TRUE)'
  <2>1. \A s \in Threads : Busy(s, TRUE)' => Busy(s, fin)
    <3>1. Busy(t, TRUE)' => Kind(t)' # "none"
      BY <1>2 DEF Busy
    <3>2. \A s \in Threads \ {t} : Busy(s, TRUE)' => Busy(s, fin)
      BY <1>2, <1>5, <1>6, <1>9 DEF Busy
    <3> QED
      BY <1>3, <1>6, <3>1, <3>2
  <2>2. freed' = freed
    BY <1>2 DEF life
  <2> QED
    BY <1>4, <2>1, <2>2 DEF OneBusy
<1>18. Sound(hold2, soft, wsoft, {}, TRUE)'
  BY <1>10, <1>11, <1>12, <1>13, <1>14, <1>15, <1>16, <1>17 DEF Sound
<1> QED
  BY <1>18 DEF LifeIsSound

-----------------------------------------------------------------------------
(* The invariant holds in every state.                                     *)

LEMMA StutterKeeps ==
  ASSUME LifeIsSound, UNCHANGED vars
  PROVE  LifeIsSound'
<1>1. PICK hold, soft, wsoft, w, fin : Sound(hold, soft, wsoft, w, fin)
  BY DEF LifeIsSound
<1>2. /\ TypeOK /\ Ghosts(hold, soft, wsoft, w, fin)
      /\ Scripts(hold, soft, fin) /\ Ends(hold, soft, wsoft, w, fin)
      /\ Phase(hold, wsoft, fin) /\ LocksKept(w, fin)
      /\ SoftKept(soft, wsoft) /\ OneBusy(soft, fin)
  BY <1>1 DEF Sound
<1>3. /\ \A s : Kind(s)' = Kind(s) /\ Rights(s)' = Rights(s)
      /\ Owned' = Owned /\ Dead' = Dead /\ Dying' = Dying
  BY KindsStay, RightsStay, LivesStay DEF vars, life, locks
<1>4. TypeOK' /\ Ghosts(hold, soft, wsoft, w, fin)'
  BY <1>2 DEF TypeOK, Ghosts, vars, life, locks
<1>5. Scripts(hold, soft, fin)' /\ Ends(hold, soft, wsoft, w, fin)'
  BY <1>2, <1>3 DEF Scripts, Ends, vars
<1>6. Phase(hold, wsoft, fin)' /\ LocksKept(w, fin)' /\ SoftKept(soft, wsoft)'
  BY <1>2, PhaseStays, LocksStay, SoftStay DEF vars, life, locks
<1>7. OneBusy(soft, fin)'
  <2>1. \A s \in Threads : Busy(s, fin)' => Busy(s, fin)
    BY <1>3 DEF Busy, vars
  <2> QED
    BY <1>2, <2>1, BusyStay DEF vars, life
<1> QED
  BY <1>4, <1>5, <1>6, <1>7 DEF Sound, LifeIsSound

LEMMA InitSound == Init => LifeIsSound
<1> SUFFICES ASSUME Init PROVE LifeIsSound
  OBVIOUS
<1> USE DEF Init
<1>h. PICK hold : hold = [t \in Threads |-> Hold(0, 0, 0)]
  OBVIOUS
<1>s. PICK soft : soft = [t \in Threads |-> {}]
  OBVIOUS
<1> DEFINE wsoft == {"index", "pages"}
<1>1. /\ \A t : Kind(t) = "none"
      /\ \A t \in Threads : Rights(t) \subseteq {"handle"}
      /\ Owned = {} /\ Dead = {} /\ Dying = {}
  BY MountAssumption DEF Kind, Rights, Owned, Dead, Dying
<1>2. TypeOK
  BY MountAssumption DEF TypeOK
<1>3. Ghosts(hold, soft, wsoft, {}, FALSE)
  <2>1. \A o \in Objects : Hold(0, 0, 0)[o] = 0
    BY DEF Hold
  <2>2. {"index", "pages"} \subseteq Objects
    BY DEF Objects
  <2> QED
    BY <1>h, <1>s, <2>1, <2>2, Holds DEF Ghosts
<1>4. Scripts(hold, soft, FALSE)
  <2> SUFFICES ASSUME NEW t \in Threads
               PROVE  Safe(todo[t], Rights(t), hold[t], soft[t], Kind(t))
    BY DEF Scripts
  <2>1. Hold(0, 0, 0) \in [Objects -> Nat] /\ "none" \in Kinds /\ SoftOf("none") = {}
    BY Holds DEF Kinds, SoftOf
  <2>2. Rights(t) \subseteq {"handle"}
    BY <1>1
  <2>3. Safe(<<>>, Rights(t), Hold(0, 0, 0), SoftOf("none"), "none")
    BY <2>1, <2>2, SafeEnd
  <2> QED
    BY <1>h, <1>s, <1>1, <2>1, <2>3
<1>5. Ends(hold, soft, wsoft, {}, FALSE)
  BY DEF Ends
<1>6. Phase(hold, wsoft, FALSE)
  BY <1>1 DEF Phase
<1>7. LocksKept({}, FALSE)
  <2>1. ASSUME NEW o \in Objects PROVE Counts(numLocks[o], Col(o))
    <3>1. numLocks[o] = 0 /\ Col(o) \in [Threads -> Nat] /\ \A t \in Threads : Col(o)[t] = 0
      BY DEF Col
    <3>2. Counts(0, Col(o))
      BY <3>1, NoTokens
    <3> QED
      BY <3>1, <3>2
  <2> QED
    BY <1>1, <2>1 DEF LocksKept
<1>8. SoftKept(soft, wsoft)
  <2>1. ASSUME NEW o \in Objects
        PROVE  lockSoft[o] = Cardinality(SoftOwners(soft, o)) + (IF o \in wsoft THEN 1 ELSE 0)
    <3>1. Cardinality(SoftOwners(soft, o)) = 0
      BY <1>s, SoftFinite
    <3> QED
      BY <3>1 DEF Objects
  <2> QED
    BY <1>1, <2>1 DEF SoftKept
<1>9. OneBusy(soft, FALSE)
  <2>1. \A t \in Threads : ~Busy(t, FALSE)
    BY <1>1, NoStep DEF Busy
  <2> QED
    BY <1>s, <2>1 DEF OneBusy
<1>10. Sound(hold, soft, wsoft, {}, FALSE)
  BY <1>2, <1>3, <1>4, <1>5, <1>6, <1>7, <1>8, <1>9 DEF Sound
<1> QED
  BY <1>10 DEF LifeIsSound

LEMMA NextKeeps ==
  ASSUME "delete" \notin Ops, LifeIsSound, [Next]_vars
  PROVE  LifeIsSound'
<1>1. CASE UNCHANGED vars
  BY <1>1, StutterKeeps
<1>2. CASE Quiet
  BY <1>2, StutterKeeps DEF Quiet
<1>3. ASSUME NEW t \in Threads, NewCall(t) PROVE LifeIsSound'
  BY <1>3, CallFileKeeps, CallChannelKeeps, CallHandleKeeps, UnmountKeeps DEF NewCall
<1>4. ASSUME NEW t \in Threads, CloseChannel(t) PROVE LifeIsSound'
  BY <1>4, CloseChannelKeeps
<1>5. ASSUME NEW t \in Threads, Step(t) PROVE LifeIsSound'
  <2>1. ASSUME NEW o \in Objects,
               \/ LockRead(t, o) \/ LockWrite(t, o) \/ Own(t, o) \/ DoUnlock(t, o)
               \/ LockSoft(t, o) \/ UnlockSoft(t, o) \/ Kill(t, o) \/ Finish(t, o)
        PROVE  LifeIsSound'
    BY <2>1, LockReadKeeps, LockWriteKeeps, OwnKeeps, DoUnlockKeeps,
       LockSoftKeeps, SoftUnlockKeeps, KillKeeps, FinishKeeps
  <2>2. CASE VfsUnlock(t)
    BY <2>2, VfsUnlockKeeps
  <2>3. ASSUME NEW kind \in {"reader", "writer"}, Opened(t, kind) PROVE LifeIsSound'
    BY <2>3, OpenedKeeps
  <2> QED
    BY <1>5, <2>1, <2>2, <2>3 DEF Step
<1> QED
  BY <1>1, <1>2, <1>3, <1>4, <1>5 DEF Next

\* The invariant holds whatever the calls of the threads are, as long as none is
\* CookfsDeleteFile, which goes on without the writer's lock when it is refused
\* and gives it back all the same (vfsDriver.c).
THEOREM LifeInvariant ==
  ASSUME "delete" \notin Ops
  PROVE  Spec => []LifeIsSound
<1>1. Init => LifeIsSound
  BY InitSound
<1>2. LifeIsSound /\ [Next]_vars => LifeIsSound'
  BY NextKeeps
<1> QED
  BY <1>1, <1>2, PTL DEF Spec

-----------------------------------------------------------------------------
(* What follows from it                                                    *)

LEMMA SoundIsAlone == LifeIsSound => FiniIsAlone
<1> SUFFICES ASSUME LifeIsSound, \A o \in Objects : threadId[o] = Unmounter,
                    \E i \in DOMAIN todo[Unmounter] : todo[Unmounter][i].do = "kill",
                    NEW t \in Threads \ {Unmounter}, NEW o \in Objects
             PROVE  held[t][o] = 0
  BY DEF FiniIsAlone
<1>1. PICK hold, soft, wsoft, w, fin : Sound(hold, soft, wsoft, w, fin)
  BY DEF LifeIsSound
<1>2. fin
  <2> SUFFICES ASSUME ~fin PROVE FALSE
    OBVIOUS
  <2>1. Legal(todo[Unmounter], Rights(Unmounter), hold[Unmounter], soft[Unmounter], Kind(Unmounter))
    BY <1>1, CallStep, MountAssumption
  <2> QED
    BY <2>1 DEF Legal, KillsNothing
<1>3. o \in Owned
  BY DEF Owned
<1> QED
  BY <1>1, <1>2, <1>3 DEF Sound, LocksKept

\* While the writer, the pages and the index are purged and taken apart, no other
\* thread is between the lock and the unlock of one of them (Cookfs_VfsFini,
\* Cookfs_RWMutexLockExclusive), for any number of threads and channels.
THEOREM UnmountingIsAlone ==
  ASSUME "delete" \notin Ops
  PROVE  Spec => []FiniIsAlone
<1>1. Spec => []LifeIsSound
  BY LifeInvariant
<1> QED
  BY <1>1, SoundIsAlone, PTL

LEMMA SoundIsFreed == LifeIsSound => UnmountedIsFreed
<1> SUFFICES ASSUME LifeIsSound, ~listed, channels = {}, \A t \in Threads : Idle(t)
             PROVE  \/ \A o \in Objects : freed[o]
                    \/ "fails" \in Purges /\ \A o \in Objects : ~isDead[o] /\ ~freed[o]
  BY DEF UnmountedIsFreed
<1>1. \A t \in Threads : todo[t] = <<>>
  BY DEF Idle
<1>2. Unmounter \in Threads
  BY MountAssumption
<1>3. PICK hold, soft, wsoft, w, fin :
        Sound(hold, soft, wsoft, w, fin) /\ ~(fin /\ Unmounter = Unmounter)
  BY <1>1, <1>2, IdleThread
<1>4. ~fin /\ Phase(hold, wsoft, fin) /\ SoftKept(soft, wsoft) /\ TypeOK
  BY <1>3 DEF Sound
<1>5. /\ Dying = {}
      /\ \/ Dead = Objects
         \/ Dead = {} /\ "fails" \in Purges
  BY <1>4 DEF Phase
<1>6. ASSUME NEW t \in Threads PROVE soft[t] = {}
  <2>1. Legal(todo[t], Rights(t), hold[t], soft[t], Kind(t))
    BY <1>3, <1>4, CallStep
  <2>2. soft[t] = SoftOf(Kind(t))
    BY <1>1, <2>1, NoStep DEF Legal
  <2> QED
    BY <2>2 DEF SoftOf, Kind
<1>7. ASSUME NEW o \in Objects PROVE freed[o] <=> isDead[o]
  BY <1>4, <1>5, <1>6 DEF SoftKept, TypeOK
<1>8. CASE Dead = Objects
  BY <1>7, <1>8 DEF Dead
<1>9. CASE Dead = {} /\ "fails" \in Purges
  BY <1>7, <1>9 DEF Dead
<1> QED
  BY <1>5, <1>8, <1>9

\* When the mount is gone, the calls are over and the last channel is closed, the
\* three objects have been freed, or the purge failed and none has been: by
\* Cookfs_WriterFini, Cookfs_FsindexFini and Cookfs_PagesFini or by the
\* UnlockSoft of a channel, for any number of threads and channels.
THEOREM UnmountedLeavesNothing ==
  ASSUME "delete" \notin Ops
  PROVE  Spec => []UnmountedIsFreed
<1>1. Spec => []LifeIsSound
  BY LifeInvariant
<1> QED
  BY <1>1, SoundIsFreed, PTL

\* A thread unlocks only what it was granted, and soft locks only what lives.
LocksAreItsOwn ==
  \A t \in Threads : \A o \in Objects :
    /\ At(t, "unlock", o) => held[t][o] > 0
    /\ At(t, "lockSoft", o) => ~isDead[o]

LEMMA SoundLocks == LifeIsSound => TypeOK /\ LocksAreItsOwn
<1> SUFFICES ASSUME LifeIsSound PROVE TypeOK /\ LocksAreItsOwn
  OBVIOUS
<1>1. PICK hold, soft, wsoft, w, fin : Sound(hold, soft, wsoft, w, fin)
  BY DEF LifeIsSound
<1>2. TypeOK /\ Ghosts(hold, soft, wsoft, w, fin) /\ LocksKept(w, fin)
  BY <1>1 DEF Sound
<1> SUFFICES ASSUME NEW t \in Threads, NEW o \in Objects
             PROVE  /\ At(t, "unlock", o) => held[t][o] > 0
                    /\ At(t, "lockSoft", o) => ~isDead[o]
  BY <1>2 DEF LocksAreItsOwn
<1>3. held[t][o] \in Nat
  BY <1>2 DEF TypeOK
<1>4. ASSUME At(t, "unlock", o) PROVE held[t][o] > 0
  <2>1. CASE fin /\ t = Unmounter
    <3>1. /\ todo[t] # <<>> /\ Head(todo[t]).do = "unlock" /\ Head(todo[t]).on = o
          /\ EndLegal(todo[t], Owned, Dead, wsoft, Dying, w)
      BY <1>1, <1>4, <2>1, FiniAt
    <3>2. o \in w
      BY <3>1 DEF EndLegal
    <3> QED
      BY <1>2, <1>3, <2>1, <3>2 DEF LocksKept
  <2>2. CASE ~(fin /\ t = Unmounter)
    <3>1. /\ todo[t] # <<>> /\ Head(todo[t]).do = "unlock" /\ Head(todo[t]).on = o
          /\ Legal(todo[t], Rights(t), hold[t], soft[t], Kind(t))
      BY <1>1, <1>4, <2>2, CallAt
    <3>2. hold[t][o] > 0
      BY <3>1 DEF Legal
    <3>3. hold[t][o] <= held[t][o] /\ hold[t][o] \in Nat
      BY <1>2 DEF Ghosts
    <3> QED
      BY <1>3, <3>2, <3>3
  <2> QED
    BY <2>1, <2>2
<1>5. ASSUME At(t, "lockSoft", o) PROVE ~isDead[o]
  <2>1. CASE fin /\ t = Unmounter
    <3>1. /\ todo[t] # <<>> /\ Head(todo[t]).do = "lockSoft" /\ Head(todo[t]).on = o
          /\ EndLegal(todo[t], Owned, Dead, wsoft, Dying, w)
      BY <1>1, <1>5, <2>1, FiniAt
    <3> QED
      BY <3>1 DEF EndLegal
  <2>2. CASE ~(fin /\ t = Unmounter)
    <3>1. /\ todo[t] # <<>> /\ Head(todo[t]).do = "lockSoft" /\ Head(todo[t]).on = o
          /\ Legal(todo[t], Rights(t), hold[t], soft[t], Kind(t))
      BY <1>1, <1>5, <2>2, CallAt
    <3>2. hold[t]["index"] > 0 /\ "index" \in Objects
      BY <3>1 DEF Legal, Objects
    <3>3. Dead = {}
      BY <1>1, <2>2, <3>2, NothingIsDead
    <3> QED
      BY <3>3 DEF Dead
  <2> QED
    BY <2>1, <2>2
<1> QED
  BY <1>4, <1>5

\* Whatever a lock call answers, the call goes on so that it gives back only
\* locks it was granted, and no channel soft locks an object that is dead
\* (readerchannel.c and writerchannel.c do not look at what LockSoft returns).
THEOREM UnlocksWhatItLocked ==
  ASSUME "delete" \notin Ops
  PROVE  Spec => [](TypeOK /\ LocksAreItsOwn)
<1>1. Spec => []LifeIsSound
  BY LifeInvariant
<1> QED
  BY <1>1, SoundLocks, PTL

LEMMA SoundIsTouched ==
  ASSUME MaxChannels <= 1, LifeIsSound
  PROVE  NothingFreedIsTouched
<1>1. PICK hold, soft, wsoft, w, fin : Sound(hold, soft, wsoft, w, fin)
  BY DEF LifeIsSound
<1>2. SoftKept(soft, wsoft) /\ OneBusy(soft, fin)
  BY <1>1 DEF Sound
<1>3. ASSUME NEW t \in Threads, NEW o \in Objects, ~Idle(t), Head(todo[t]).on = o
      PROVE  ~freed[o]
  <2>1. todo[t] # <<>>
    BY <1>3 DEF Idle
  <2>2. freed[o] => o \in Dead /\ o \notin Dying
    BY <1>2 DEF SoftKept, Dead
  <2>3. CASE fin /\ t = Unmounter
    <3>1. EndLegal(todo[t], Owned, Dead, wsoft, Dying, w)
      <4>1. Ending(todo[Unmounter], Owned, Dead, wsoft, Dying, w)
        BY <1>1, <2>3 DEF Sound, Ends
      <4> QED
        BY <2>3, <4>1, EndingIsLegal
    <3>2. o \notin Dead \/ o \in Dying
      BY <1>3, <2>1, <3>1 DEF EndLegal
    <3> QED
      BY <2>2, <3>2
  <2>4. CASE ~(fin /\ t = Unmounter)
    <3>1. Legal(todo[t], Rights(t), hold[t], soft[t], Kind(t))
      BY <1>1, <2>4, CallStep
    <3>2. Rights(t) # {} \/ (\E p \in Objects : hold[t][p] > 0) \/ o \in soft[t]
      <4>1. "index" \in Objects
        BY DEF Objects
      <4>2. o \in Kinds \ {"none"} /\ soft[t] = SoftOf(o) => o \in soft[t]
        <5>1. o \in Kinds \ {"none"} => o = "writer"
          BY DEF Kinds, Objects
        <5> QED
          BY <5>1 DEF SoftOf
      <4> QED
        BY <1>3, <2>1, <3>1, <4>1, <4>2 DEF Legal
    <3>3. o \in soft[t] => ~freed[o]
      BY <1>2 DEF OneBusy
    <3>4. Rights(t) # {} \/ (\E p \in Objects : hold[t][p] > 0) => Dead = {}
      BY <1>1, <2>4, NothingIsDead
    <3> QED
      BY <2>2, <3>2, <3>3, <3>4
  <2> QED
    BY <2>3, <2>4
<1>4. TypeOK /\ LocksAreItsOwn
  BY SoundLocks
<1> QED
  BY <1>3, <1>4 DEF NothingFreedIsTouched, LocksAreItsOwn

\* With one channel at a time no call works on an object that is freed (writer.c,
\* fsindex.c, pages.c), for any number of threads.  With two it may: the first
\* channel to give its soft lock back frees a dead object under the other.
THEOREM FreedIsLeftAlone ==
  ASSUME "delete" \notin Ops, MaxChannels <= 1
  PROVE  Spec => []NothingFreedIsTouched
<1>1. Spec => []LifeIsSound
  BY LifeInvariant
<1>2. LifeIsSound => NothingFreedIsTouched
  BY SoundIsTouched
<1> QED
  BY <1>1, <1>2, PTL
=============================================================================
