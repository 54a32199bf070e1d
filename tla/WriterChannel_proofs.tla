------------------------ MODULE WriterChannel_proofs ------------------------
(* Proofs about WriterChannel: the channel stays in its buffer, its events    *)
(* reach it, and the buffer is the file.                                      *)
EXTENDS WriterChannel, SequenceTheorems, FiniteSetTheorems, TLAPS

USE UnitsAssumption, ChannelAssumption

\* What is behind the end of the file is zero, ready for the end to move.
ClearBehind(c) == \A k \in (c.currentSize + 1)..Len(c.buffer) : c.buffer[k] = 0

\* While a file is read the buffer is as long as the file and begins with it.
ReadSoFar ==
  reading =>
    /\ channel # NULL /\ stored # NULL
    /\ Len(channel.buffer) = Len(stored)
    /\ channel.currentOffset = channel.currentSize
    /\ \A k \in 1..channel.currentSize : channel.buffer[k] = stored[k]
    /\ ~channel.interest /\ ~channel.event

\* One event of the queue q is for a channel that has one, and none for another.
Awaited(q, has) ==
  /\ \A k \in 1..Len(q) : q[k] # "freed"
  /\ IF has THEN \E k \in 1..Len(q) : \A j \in 1..Len(q) : q[j] = "open" <=> j = k
     ELSE \A k \in 1..Len(q) : q[k] # "open"

EventsFit ==
  /\ Awaited(queue, channel # NULL /\ channel.event)
  /\ channel # NULL /\ channel.interest => channel.event

SoundInv == TypeOK /\ StaysInBuffer /\ ReadSoFar /\ EventsFit

ZeroInv == IsOpen => ClearBehind(channel)

-----------------------------------------------------------------------------
(* The buffer.                                                             *)

\* Rounding up gives a whole number of units, and no less than there was.
LEMMA RoundedUp ==
  ASSUME NEW n \in Nat
  PROVE  /\ RoundUp(n) \in Nat /\ RoundUp(n) >= n /\ RoundUp(n) < n + KIB
         /\ RoundUp(n) % KIB = 0
<1> DEFINE q == (n + KIB - 1) \div KIB
<1>1. /\ n + KIB - 1 \in Nat /\ q \in Nat
      /\ KIB * q <= n + KIB - 1 /\ n + KIB - 1 < KIB * q + KIB
  OBVIOUS
<1>2. RoundUp(n) = KIB * q /\ KIB * q \in Nat
  BY <1>1 DEF RoundUp
<1>3. (KIB * q) % KIB = 0
  BY <1>1
<1> QED
  BY <1>1, <1>2, <1>3

\* A buffer has room for what was wanted, and keeps what was in it.
LEMMA Reallocated ==
  ASSUME NEW buffer \in Seq(Nat), NEW wanted \in Nat, NEW clear \in BOOLEAN
  PROVE  LET new == Realloc(buffer, wanted, clear)
         IN /\ new \in Seq(Nat) /\ Len(new) >= wanted
            /\ \A k \in 1..wanted : k <= Len(buffer) => new[k] = buffer[k]
<1> DEFINE new == Realloc(buffer, wanted, clear)
<1>1. CASE wanted = 0
  BY <1>1 DEF Realloc
<1>2. CASE wanted > Len(buffer)
  <2> DEFINE diff == wanted - Len(buffer)
             actual == IF diff < KIB THEN KIB ELSE IF diff < MIB THEN MIB ELSE RoundUp(diff)
             place(k) == IF k <= Len(buffer) THEN buffer[k]
                         ELSE IF IF clear THEN actual # diff ELSE k > wanted THEN 0
                         ELSE Junk
  <2>1. diff \in Nat /\ RoundUp(diff) \in Nat /\ RoundUp(diff) >= diff
    <3>1. diff \in Nat
      BY <1>2
    <3> HIDE DEF diff
    <3> QED
      BY <3>1, RoundedUp
  <2>2. actual \in Nat /\ actual >= diff
    BY <2>1
  <2>3. new = [k \in 1..(Len(buffer) + actual) |-> place(k)]
    BY <1>2 DEF Realloc, Grown
  <2> HIDE DEF actual
  <2>4. \A k \in 1..(Len(buffer) + actual) : place(k) \in Nat
    BY <2>2 DEF Junk
  <2> HIDE DEF place
  <2>5. new \in Seq(Nat) /\ Len(new) = Len(buffer) + actual
    BY <2>2, <2>3, <2>4
  <2>6. \A k \in 1..wanted : k <= Len(buffer) => new[k] = buffer[k]
    BY <2>2, <2>3 DEF place
  <2> QED
    BY SMTT(60), <2>2, <2>5, <2>6
<1>3. CASE wanted \in 1..(Len(buffer) - 1)
  <2> DEFINE size == RoundUp(wanted)
             place(k) == IF k <= Len(buffer) THEN buffer[k]
                         ELSE IF k <= Len(buffer) + size - wanted THEN 0
                         ELSE Junk
  <2>1. size \in Nat /\ size >= wanted
    BY RoundedUp
  <2>2. new = [k \in 1..size |-> place(k)]
    BY <1>3 DEF Realloc, Shrunk
  <2> HIDE DEF size
  <2>3. \A k \in 1..size : place(k) \in Nat
    BY <2>1 DEF Junk
  <2> HIDE DEF place
  <2>4. new \in Seq(Nat) /\ Len(new) = size
    BY <2>1, <2>2, <2>3
  <2>5. \A k \in 1..wanted : k <= Len(buffer) => new[k] = buffer[k]
    BY <2>1, <2>2 DEF place
  <2> QED
    BY <2>1, <2>4, <2>5
<1>4. CASE wanted = Len(buffer)
  BY <1>4 DEF Realloc
<1> QED
  BY <1>1, <1>2, <1>3, <1>4

\* A buffer that grew for a write is cleared behind what is written.
LEMMA GrownForWrite ==
  ASSUME NEW buffer \in Seq(Nat), NEW wanted \in Nat, wanted > Len(buffer)
  PROVE  LET new == Realloc(buffer, wanted, FALSE)
         IN \A k \in (wanted + 1)..Len(new) : new[k] = 0
<1> DEFINE new == Realloc(buffer, wanted, FALSE)
           diff == wanted - Len(buffer)
           actual == IF diff < KIB THEN KIB ELSE IF diff < MIB THEN MIB ELSE RoundUp(diff)
<1>1. diff \in Nat /\ RoundUp(diff) \in Nat /\ RoundUp(diff) >= diff
  <2>1. diff \in Nat
    OBVIOUS
  <2> HIDE DEF diff
  <2> QED
    BY <2>1, RoundedUp
<1>2. actual \in Nat /\ actual >= diff
  BY <1>1
<1>3. new = [k \in 1..(Len(buffer) + actual) |->
               IF k <= Len(buffer) THEN buffer[k] ELSE IF k > wanted THEN 0 ELSE Junk]
  BY DEF Realloc, Grown
<1> HIDE DEF actual, new
<1>4. Len(new) = Len(buffer) + actual
  BY <1>2, <1>3
<1>5. ASSUME NEW k \in (wanted + 1)..(Len(buffer) + actual) PROVE new[k] = 0
  <2>1. k \in 1..(Len(buffer) + actual) /\ k > Len(buffer) /\ k > wanted
    BY <1>2
  <2> QED
    BY <1>2, <1>3, <2>1
<1> QED
  BY <1>4, <1>5 DEF new

\* One that grew to be filled with zeros is, in the calls that are tame.
LEMMA GrownForZeros ==
  ASSUME NEW buffer \in Seq(Nat), NEW wanted \in Nat, wanted > Len(buffer),
         Tame(buffer, wanted), "hole" \notin Careless
  PROVE  LET new == Realloc(buffer, wanted, TRUE)
         IN \A k \in (Len(buffer) + 1)..Len(new) : new[k] = 0
<1> DEFINE new == Realloc(buffer, wanted, TRUE)
           diff == wanted - Len(buffer)
           actual == IF diff < KIB THEN KIB ELSE IF diff < MIB THEN MIB ELSE RoundUp(diff)
<1>1. /\ diff \in Nat /\ RoundUp(diff) \in Nat /\ RoundUp(diff) >= diff
      /\ RoundUp(diff) % KIB = 0
  <2>1. diff \in Nat
    OBVIOUS
  <2> HIDE DEF diff
  <2> QED
    BY <2>1, RoundedUp
<1>2. diff < MIB \/ diff % KIB # 0
  BY DEF Tame
<1>3. actual \in Nat /\ actual # diff
  BY <1>1, <1>2
<1>4. new = [k \in 1..(Len(buffer) + actual) |->
               IF k <= Len(buffer) THEN buffer[k] ELSE IF actual # diff THEN 0 ELSE Junk]
  BY DEF Realloc, Grown
<1> HIDE DEF actual, new
<1>5. Len(new) = Len(buffer) + actual
  BY <1>3, <1>4
<1>6. ASSUME NEW k \in (Len(buffer) + 1)..(Len(buffer) + actual) PROVE new[k] = 0
  <2>1. k \in 1..(Len(buffer) + actual) /\ k > Len(buffer)
    BY <1>3
  <2> QED
    BY <1>3, <1>4, <2>1
<1> QED
  BY <1>5, <1>6 DEF new

\* One that shrinks ends where it was asked to, when that is a whole number of units.
LEMMA CutOff ==
  ASSUME NEW buffer \in Seq(Nat), NEW wanted \in Nat, wanted <= Len(buffer),
         ~ClearsBehind(buffer, wanted), NEW clear \in BOOLEAN
  PROVE  Len(Realloc(buffer, wanted, clear)) = wanted
<1>1. RoundUp(wanted) \in Nat /\ RoundUp(wanted) >= wanted
  BY RoundedUp
<1>2. CASE wanted \in 1..(Len(buffer) - 1)
  <2>1. RoundUp(wanted) = wanted
    BY <1>1, <1>2 DEF ClearsBehind
  <2>2. Len(Shrunk(buffer, wanted)) = wanted
    BY <2>1 DEF Shrunk
  <2> QED
    BY <1>2, <2>2 DEF Realloc
<1>3. CASE wanted = 0 \/ wanted = Len(buffer)
  BY <1>3 DEF Realloc
<1> QED
  BY <1>2, <1>3

-----------------------------------------------------------------------------
(* The channel.                                                            *)

\* A channel whose position and size are in its buffer
Fits(c) ==
  c \in InstData /\ c.currentOffset <= c.currentSize /\ c.currentSize <= Len(c.buffer)

\* Writing puts the data where the channel stands.
LEMMA OutputDone ==
  ASSUME NEW c, Fits(c), NEW data \in Seq(Nat)
  PROVE  LET d == Output(c, data)
             end == c.currentOffset + Len(data)
         IN /\ Fits(d) /\ d.currentOffset = end
            /\ d.currentSize = IF c.currentSize < end THEN end ELSE c.currentSize
            /\ d.pathObj = c.pathObj /\ d.interest = c.interest /\ d.event = c.event
            /\ end <= Len(c.buffer) => Len(d.buffer) = Len(c.buffer)
            /\ \A k \in 1..d.currentSize :
                 d.buffer[k] = IF k > c.currentOffset /\ k <= end
                               THEN data[k - c.currentOffset] ELSE c.buffer[k]
            /\ ClearBehind(c) => ClearBehind(d)
<1> DEFINE end == c.currentOffset + Len(data)
           grown == IF end > Len(c.buffer) THEN Realloc(c.buffer, end, FALSE) ELSE c.buffer
           place(k) == IF k \in (c.currentOffset + 1)..end
                       THEN data[k - c.currentOffset] ELSE grown[k]
           new == [k \in DOMAIN grown |-> place(k)]
           size == IF c.currentSize < end THEN end ELSE c.currentSize
           d == [c EXCEPT !.buffer = new, !.currentOffset = end, !.currentSize = size]
<1>1. /\ c.buffer \in Seq(Nat) /\ c.currentOffset \in Nat /\ c.currentSize \in Nat
      /\ c.currentOffset <= c.currentSize /\ c.currentSize <= Len(c.buffer)
      /\ Len(data) \in Nat /\ Len(c.buffer) \in Nat
  BY DEF Fits, InstData
<1>2. end \in Nat /\ size \in Nat /\ end <= size
  BY <1>1
<1>3. Output(c, data) = d
  BY DEF Output
<1> HIDE DEF end
<1>4. /\ grown \in Seq(Nat) /\ Len(grown) >= size
      /\ \A k \in 1..Len(c.buffer) : grown[k] = c.buffer[k]
      /\ end <= Len(c.buffer) => Len(grown) = Len(c.buffer)
      /\ end > Len(c.buffer) => \A k \in (end + 1)..Len(grown) : grown[k] = 0
  <2>1. CASE end > Len(c.buffer)
    <3>1. grown = Realloc(c.buffer, end, FALSE)
      BY <2>1
    <3> HIDE DEF grown
    <3>2. /\ grown \in Seq(Nat) /\ Len(grown) >= end
          /\ \A k \in 1..end : k <= Len(c.buffer) => grown[k] = c.buffer[k]
          /\ \A k \in (end + 1)..Len(grown) : grown[k] = 0
      BY ZenonT(60), <1>1, <1>2, <2>1, <3>1, Reallocated, GrownForWrite
    <3>3. \A k \in 1..Len(c.buffer) : k \in 1..end
      BY <1>1, <1>2, <2>1
    <3>4. size = end
      BY <1>1, <1>2, <2>1
    <3> HIDE DEF size
    <3> QED
      BY <1>1, <1>2, <2>1, <3>2, <3>3, <3>4
  <2>2. CASE ~(end > Len(c.buffer))
    <3>1. grown = c.buffer
      BY <2>2
    <3>2. size <= Len(c.buffer)
      BY <1>1, <1>2, <2>2
    <3> HIDE DEF grown, size
    <3> QED
      BY <1>1, <1>2, <2>2, <3>1, <3>2
  <2> QED
    BY <2>1, <2>2
<1> HIDE DEF grown
<1>5. ASSUME NEW k \in 1..Len(grown) PROVE place(k) \in Nat
  <2>1. CASE k \in (c.currentOffset + 1)..end
    <3>1. k - c.currentOffset \in 1..Len(data)
      BY <1>1, <2>1 DEF end
    <3> QED
      BY <2>1, <3>1
  <2>2. CASE k \notin (c.currentOffset + 1)..end
    BY <1>4, <2>2
  <2> QED
    BY <2>1, <2>2
<1>6. DOMAIN grown = 1..Len(grown) /\ Len(grown) \in Nat
  BY <1>4
<1> HIDE DEF place
<1>7. new \in Seq(Nat) /\ Len(new) = Len(grown) /\ \A k \in 1..Len(grown) : new[k] = place(k)
  BY <1>5, <1>6
<1> HIDE DEF new, size
<1>8. /\ d \in InstData /\ d.buffer = new /\ d.currentOffset = end /\ d.currentSize = size
      /\ d.pathObj = c.pathObj /\ d.interest = c.interest /\ d.event = c.event
  BY <1>2, <1>7 DEF Fits, InstData
<1> HIDE DEF d
<1>9. Fits(d)
  BY <1>2, <1>4, <1>7, <1>8 DEF Fits
<1>10. ASSUME NEW k \in 1..size
       PROVE  new[k] = IF k > c.currentOffset /\ k <= end
                       THEN data[k - c.currentOffset] ELSE c.buffer[k]
  <2>1. k \in 1..Len(grown)
    BY <1>2, <1>4, <1>6
  <2>2. new[k] = place(k)
    BY <1>7, <2>1
  <2>3. CASE k > c.currentOffset /\ k <= end
    BY <1>1, <1>2, <2>2, <2>3 DEF place
  <2>4. CASE ~(k > c.currentOffset /\ k <= end)
    <3>1. k \in 1..Len(c.buffer)
      BY <1>1, <1>2, <2>4 DEF size
    <3> QED
      BY SMTT(60), <1>1, <1>2, <1>4, <2>2, <2>4, <3>1 DEF place
  <2> QED
    BY <2>3, <2>4
<1>11. ASSUME ClearBehind(c) PROVE ClearBehind(d)
  <2> SUFFICES ASSUME NEW k \in (size + 1)..Len(grown) PROVE new[k] = 0
    BY <1>7, <1>8 DEF ClearBehind
  <2>1. k \in 1..Len(grown) /\ k > end /\ k > c.currentSize
    BY <1>1, <1>2, <1>6 DEF size
  <2>2. new[k] = grown[k]
    BY <1>1, <1>2, <1>7, <2>1 DEF place
  <2>3. CASE end > Len(c.buffer)
    BY <1>2, <1>4, <1>6, <2>1, <2>2, <2>3
  <2>4. CASE end <= Len(c.buffer)
    <3>1. k \in (c.currentSize + 1)..Len(c.buffer)
      BY <1>1, <1>4, <2>1, <2>4
    <3> QED
      BY <1>1, <1>4, <1>11, <2>1, <2>2, <2>4, <3>1 DEF ClearBehind
  <2> QED
    BY <1>1, <1>2, <2>3, <2>4
<1> QED
  BY <1>3, <1>4, <1>7, <1>8, <1>9, <1>10, <1>11 DEF end, size

-----------------------------------------------------------------------------
(* The events.                                                             *)

Queues == Seq({"open", "freed", NULL})

LEMMA EventQueued ==
  ASSUME NEW q \in Queues, Awaited(q, FALSE)
  PROVE  Append(q, "open") \in Queues /\ Awaited(Append(q, "open"), TRUE)
<1> DEFINE r == Append(q, "open")
<1>1. /\ r \in Queues /\ Len(r) = Len(q) + 1 /\ Len(q) \in Nat
      /\ r[Len(q) + 1] = "open" /\ \A k \in 1..Len(q) : r[k] = q[k]
  BY DEF Queues
<1> HIDE DEF r
<1>2. Len(q) + 1 \in 1..Len(r)
  BY <1>1
<1>3. \A j \in 1..Len(r) : j # Len(q) + 1 => j \in 1..Len(q)
  BY <1>1
<1>4. \A j \in 1..Len(r) : r[j] = "open" <=> j = Len(q) + 1
  BY <1>1, <1>3 DEF Awaited
<1>5. \A j \in 1..Len(r) : r[j] # "freed"
  BY <1>1, <1>3 DEF Awaited
<1>6. Awaited(r, TRUE)
  BY <1>2, <1>4, <1>5 DEF Awaited
<1> QED
  BY <1>1, <1>6 DEF r

\* The event a channel knows of forgets it.
LEMMA EventForgotten ==
  ASSUME NEW q \in Queues, NEW has \in BOOLEAN, Awaited(q, has)
  PROVE  LET r == Forgotten(q, IF has THEN NULL ELSE "freed")
         IN r \in Queues /\ Awaited(r, FALSE)
<1> DEFINE as == IF has THEN NULL ELSE "freed"
           r == [k \in DOMAIN q |-> IF q[k] = "open" THEN as ELSE q[k]]
<1>1. DOMAIN q = 1..Len(q) /\ Len(q) \in Nat /\ \A k \in 1..Len(q) : q[k] \in {"open", "freed", NULL}
  BY DEF Queues
<1>2. \A k \in 1..Len(q) : r[k] = IF q[k] = "open" THEN as ELSE q[k]
  BY <1>1
<1>3. \A k \in 1..Len(q) : r[k] \in {"open", "freed", NULL}
  BY <1>1, <1>2
<1>4. r \in Queues /\ Len(r) = Len(q)
  BY <1>1, <1>3 DEF Queues
<1>5. \A k \in 1..Len(q) : r[k] # "open" /\ r[k] # "freed"
  BY <1>2 DEF Awaited
<1> HIDE DEF r
<1>6. Awaited(r, FALSE)
  BY <1>4, <1>5 DEF Awaited
<1> QED
  BY <1>4, <1>6 DEF Forgotten, r

\* The event that is served was the one of the channel, or of none.
LEMMA EventServed ==
  ASSUME NEW q \in Queues, NEW has \in BOOLEAN, Awaited(q, has), q # <<>>
  PROVE  /\ Tail(q) \in Queues
         /\ Head(q) # "open" => Awaited(Tail(q), has)
         /\ Head(q) = "open" => has /\ Awaited(Tail(q), FALSE)
<1> DEFINE r == Tail(q)
<1>1. /\ Len(q) \in Nat \ {0} /\ r \in Queues /\ Len(r) = Len(q) - 1
      /\ \A k \in 1..Len(r) : r[k] = q[k + 1]
      /\ Head(q) = q[1]
  BY DEF Queues
<1> HIDE DEF r
<1>2. \A k \in 1..Len(r) : k + 1 \in 1..Len(q) /\ k + 1 # 1
  BY <1>1
<1>3. \A k \in 1..Len(r) : r[k] # "freed"
  BY <1>1, <1>2 DEF Awaited
<1>4. 1 \in 1..Len(q)
  BY <1>1
<1>5. ASSUME Head(q) = "open" PROVE has /\ Awaited(r, FALSE)
  <2>1. has
    BY <1>1, <1>4, <1>5 DEF Awaited
  <2>2. PICK k \in 1..Len(q) : \A j \in 1..Len(q) : q[j] = "open" <=> j = k
    BY <2>1 DEF Awaited
  <2>3. k = 1
    BY <1>1, <1>4, <1>5, <2>2
  <2>4. \A j \in 1..Len(r) : r[j] # "open"
    BY <1>1, <1>2, <2>2, <2>3
  <2> QED
    BY <1>3, <2>1, <2>4 DEF Awaited
<1>6. ASSUME Head(q) # "open" PROVE Awaited(r, has)
  <2>1. CASE has
    <3>1. PICK k \in 1..Len(q) : \A j \in 1..Len(q) : q[j] = "open" <=> j = k
      BY <2>1 DEF Awaited
    <3>2. k # 1
      BY <1>1, <1>4, <1>6, <3>1
    <3>3. k - 1 \in 1..Len(r)
      BY <1>1, <3>2
    <3>4. ASSUME NEW j \in 1..Len(r) PROVE r[j] = "open" <=> j = k - 1
      <4>1. r[j] = "open" <=> j + 1 = k
        BY <1>1, <1>2, <3>1
      <4> QED
        BY <4>1
    <3> QED
      BY <1>3, <2>1, <3>3, <3>4 DEF Awaited
  <2>2. CASE ~has
    <3>1. \A k \in 1..Len(r) : r[k] # "open"
      BY <1>1, <1>2, <2>2 DEF Awaited
    <3> QED
      BY <1>3, <2>2, <3>1 DEF Awaited
  <2> QED
    BY <2>1, <2>2
<1> QED
  BY <1>1, <1>5, <1>6 DEF r

\* Asking for events leaves a channel with one that waits, or with none.
LEMMA WatchedFits ==
  ASSUME NEW c \in InstData, NEW q \in Queues, Awaited(q, c.event),
         NEW mask \in BOOLEAN, Watched(c, q, mask)
  PROVE  /\ channel' \in InstData /\ channel' # NULL /\ queue' \in Queues
         /\ Awaited(queue', channel'.event) /\ (channel'.interest => channel'.event)
         /\ channel'.buffer = c.buffer /\ channel'.currentOffset = c.currentOffset
         /\ channel'.currentSize = c.currentSize /\ channel'.pathObj = c.pathObj
<1>1. /\ channel' = [c EXCEPT !.interest = mask, !.event = mask]
      /\ queue' = IF mask THEN IF c.event THEN q ELSE Append(q, "open")
                  ELSE IF c.event THEN Forgotten(q, NULL) ELSE q
  BY DEF Watched, InstData
<1>2. /\ channel' \in InstData /\ channel'.event = mask /\ channel'.interest = mask
      /\ channel'.buffer = c.buffer /\ channel'.currentOffset = c.currentOffset
      /\ channel'.currentSize = c.currentSize /\ channel'.pathObj = c.pathObj
  BY <1>1 DEF InstData
<1>3. c.event \in BOOLEAN
  BY DEF InstData
<1>4. queue' \in Queues /\ Awaited(queue', mask)
  <2>1. CASE mask /\ c.event
    BY <1>1, <2>1
  <2>2. CASE mask /\ ~c.event
    BY <1>1, <1>3, <2>2, EventQueued
  <2>3. CASE ~mask /\ c.event
    <3>1. c.event = TRUE
      BY <1>3, <2>3
    <3>2. Forgotten(q, NULL) \in Queues /\ Awaited(Forgotten(q, NULL), FALSE)
      BY <3>1, EventForgotten
    <3> QED
      BY <1>1, <2>3, <3>2
  <2>4. CASE ~mask /\ ~c.event
    BY <1>1, <1>3, <2>4
  <2> QED
    BY <1>3, <2>1, <2>2, <2>3, <2>4
<1> QED
  BY <1>2, <1>4

-----------------------------------------------------------------------------
(* The steps.                                                              *)

Answers == [bytes : Seq(Nat), failed : BOOLEAN]

\* A part of a sequence
LEMMA PartOf ==
  ASSUME NEW s \in Seq(Nat), NEW a \in Nat \ {0}, NEW b \in Nat, a <= b + 1, b <= Len(s)
  PROVE  /\ SubSeq(s, a, b) \in Seq(Nat) /\ Len(SubSeq(s, a, b)) = b - a + 1
         /\ SubSeq(s, a, b) = [k \in 1..(b - a + 1) |-> s[k + a - 1]]
         /\ \A k \in 1..(b - a + 1) : SubSeq(s, a, b)[k] = s[k + a - 1]
<1> DEFINE t == SubSeq(s, a, b)
<1>1. /\ t \in Seq(Nat) /\ Len(t) = IF a <= b THEN b - a + 1 ELSE 0
      /\ \A i \in 1..(b - a + 1) : t[i] = s[a + i - 1]
  <2>1. \A i \in a..b : s[i] \in Nat
    OBVIOUS
  <2> QED
    BY <2>1, SubSeqProperties
<1> HIDE DEF t
<1>2. Len(t) = b - a + 1 /\ \A k \in 1..(b - a + 1) : t[k] = s[k + a - 1]
  BY <1>1
<1>3. t \in [1..Len(t) -> Nat]
  BY <1>1, LenProperties
<1>4. t = [k \in 1..Len(t) |-> t[k]]
  BY <1>3
<1>5. t = [k \in 1..(b - a + 1) |-> s[k + a - 1]]
  BY <1>2, <1>4
<1> QED
  BY <1>1, <1>2, <1>5 DEF t

LEMMA SaidType ==
  ASSUME NEW bytes \in Seq(Nat), NEW failed \in BOOLEAN, Said(bytes, failed)
  PROVE  answer' \in Answers
BY DEF Said, Answers

\* What the program has is a channel in its buffer.
LEMMA OpenFits ==
  ASSUME SoundInv, IsOpen
  PROVE  /\ Fits(channel) /\ channel.currentSize <= MaxLength /\ channel # NULL
         /\ Awaited(queue, channel.event) /\ queue \in Queues
         /\ channel.interest => channel.event
         /\ ~reading /\ ~wild
<1>1. channel \in InstData
  BY DEF SoundInv, TypeOK, IsOpen
<1>2. Awaited(queue, channel # NULL /\ channel.event)
  BY DEF SoundInv, EventsFit
<1>3. (channel # NULL /\ channel.event) = channel.event
  BY <1>1 DEF IsOpen, InstData
<1>4. Awaited(queue, channel.event)
  BY <1>2, <1>3
<1> QED
  BY <1>1, <1>4 DEF SoundInv, TypeOK, StaysInBuffer, EventsFit, Fits, IsOpen, Queues

\* A channel that stays in its buffer, with its events, is sound.
LEMMA ChannelFits ==
  ASSUME Fits(channel'), channel'.currentSize <= MaxLength, ~reading', ~wild',
         reading' \in BOOLEAN, wild' \in BOOLEAN,
         stored' = NULL \/ (stored' \in Seq(Nat) /\ Len(stored') <= MaxLength),
         queue' \in Queues, Awaited(queue', channel'.event),
         channel'.interest => channel'.event, answer' \in Answers
  PROVE  SoundInv'
<1>1. channel' \in InstData /\ channel' # NULL
  BY DEF Fits
<1>2. (channel' # NULL /\ channel'.event) = channel'.event
  BY <1>1 DEF InstData
<1>3. Awaited(queue', channel' # NULL /\ channel'.event)
  BY <1>2
<1>4. TypeOK'
  BY <1>1 DEF TypeOK, Queues, Answers
<1>5. StaysInBuffer'
  BY DEF StaysInBuffer, Fits
<1>6. ReadSoFar'
  BY DEF ReadSoFar
<1>7. EventsFit'
  BY <1>1, <1>3 DEF EventsFit
<1> QED
  BY <1>4, <1>5, <1>6, <1>7 DEF SoundInv

LEMMA ChannelMoves ==
  ASSUME SoundInv, IsOpen, Fits(channel'), channel'.currentSize <= MaxLength,
         channel'.event = channel.event, channel'.interest = channel.interest,
         ~wild', wild' \in BOOLEAN, UNCHANGED <<stored, reading, queue>>, answer' \in Answers
  PROVE  SoundInv'
<1>1. (stored = NULL \/ (stored \in Seq(Nat) /\ Len(stored) <= MaxLength)) /\ reading \in BOOLEAN
  BY DEF SoundInv, TypeOK
<1>2. Awaited(queue', channel'.event) /\ (channel'.interest => channel'.event)
  BY OpenFits
<1> QED
  BY <1>1, <1>2, OpenFits, ChannelFits

LEMMA InputStep ==
  ASSUME SoundInv, NEW toRead \in Nat, Input(toRead)
  PROVE  SoundInv' /\ Fits(channel') /\ (ZeroInv => ZeroInv')
<1> DEFINE available == channel.currentSize - channel.currentOffset
           n == IF available < toRead THEN available ELSE toRead
           bytes == SubSeq(channel.buffer, channel.currentOffset + 1, channel.currentOffset + n)
<1>1. IsOpen /\ Fits(channel)
  BY OpenFits DEF Input
<1>2. /\ channel.buffer \in Seq(Nat) /\ Len(channel.buffer) \in Nat
      /\ channel.currentOffset \in Nat /\ channel.currentSize \in Nat
      /\ channel.currentOffset <= channel.currentSize
      /\ channel.currentSize <= Len(channel.buffer)
  BY <1>1 DEF Fits, InstData
<1>3. n \in Nat /\ channel.currentOffset + n <= channel.currentSize
  BY <1>2
<1>4. /\ channel' = [channel EXCEPT !.currentOffset = channel.currentOffset + n]
      /\ Said(bytes, FALSE) /\ UNCHANGED <<stored, reading, wild, queue>>
  BY DEF Input
<1> HIDE DEF n
<1>5. bytes \in Seq(Nat)
  <2>1. /\ channel.currentOffset + 1 \in Nat \ {0} /\ channel.currentOffset + n \in Nat
        /\ channel.currentOffset + 1 <= channel.currentOffset + n + 1
        /\ channel.currentOffset + n <= Len(channel.buffer)
    BY SMTT(60), <1>2, <1>3
  <2> QED
    BY <1>2, <2>1, PartOf
<1>6. answer' \in Answers
  <2> HIDE DEF bytes
  <2> QED
    BY <1>4, <1>5, SaidType
<1>7. /\ channel' \in InstData /\ channel'.buffer = channel.buffer
      /\ channel'.currentSize = channel.currentSize
      /\ channel'.currentOffset = channel.currentOffset + n
      /\ channel'.event = channel.event /\ channel'.interest = channel.interest
  <2>1. channel.currentOffset + n \in Nat /\ channel \in InstData
    BY <1>1, <1>2, <1>3 DEF Fits
  <2> QED
    BY <1>4, <2>1 DEF InstData
<1>8. Fits(channel')
  BY <1>2, <1>3, <1>7 DEF Fits
<1>9. SoundInv'
  <2>1. channel'.currentSize <= MaxLength /\ ~wild' /\ wild' \in BOOLEAN
    BY <1>1, <1>4, <1>7, OpenFits DEF SoundInv, TypeOK
  <2>2. UNCHANGED <<stored, reading, queue>>
    BY <1>4
  <2> QED
    BY <1>1, <1>6, <1>7, <1>8, <2>1, <2>2, ChannelMoves
<1>10. ZeroInv => ZeroInv'
  BY <1>1, <1>7 DEF ZeroInv, ClearBehind
<1> QED
  BY <1>8, <1>9, <1>10

LEMMA WriteStep ==
  ASSUME SoundInv, NEW data \in Chunks, Write(data)
  PROVE  SoundInv' /\ Fits(channel') /\ (ZeroInv => ZeroInv')
<1>1. IsOpen /\ Fits(channel) /\ channel.currentSize <= MaxLength
  BY OpenFits DEF Write
<1>2. channel' = Output(channel, data) /\ channel.currentOffset + Len(data) <= MaxLength
      /\ Said(<<>>, FALSE) /\ UNCHANGED <<stored, reading, wild, queue>>
  BY DEF Write
<1>3. /\ Fits(channel') /\ channel'.event = channel.event
      /\ channel'.interest = channel.interest
      /\ channel'.currentSize <= MaxLength
      /\ ClearBehind(channel) => ClearBehind(channel')
  BY <1>1, <1>2, OutputDone
<1>4. answer' \in Answers
  BY <1>2, EmptySeq, SaidType
<1>5. ~wild' /\ wild' \in BOOLEAN
  BY <1>1, <1>2, OpenFits DEF SoundInv, TypeOK
<1>6. UNCHANGED <<stored, reading, queue>>
  BY <1>2
<1>7. SoundInv'
  BY <1>1, <1>3, <1>4, <1>5, <1>6, ChannelMoves
<1> QED
  BY <1>1, <1>3, <1>7 DEF ZeroInv

LEMMA WideSeekStep ==
  ASSUME SoundInv, NEW n \in 0..MaxLength, WideSeek(n)
  PROVE  /\ SoundInv' /\ Fits(channel')
         /\ ZeroInv /\ "hole" \notin Careless => ZeroInv'
         /\ channel'.currentOffset = n /\ channel'.pathObj = channel.pathObj
         /\ channel'.currentSize = IF channel.currentSize < n THEN n ELSE channel.currentSize
         /\ ZeroInv /\ "hole" \notin Careless =>
              \A k \in 1..channel'.currentSize :
                channel'.buffer[k] = IF k <= channel.currentSize THEN channel.buffer[k] ELSE 0
<1> DEFINE old == channel.buffer
           new == IF n > Len(old) THEN Realloc(old, n, TRUE) ELSE old
           size == IF channel.currentSize < n THEN n ELSE channel.currentSize
<1>1. IsOpen /\ Fits(channel) /\ channel.currentSize <= MaxLength
  BY OpenFits DEF WideSeek
<1>2. /\ old \in Seq(Nat) /\ Len(old) \in Nat /\ n \in Nat
      /\ channel.currentOffset \in Nat /\ channel.currentSize \in Nat
      /\ channel.currentOffset <= channel.currentSize
      /\ channel.currentSize <= Len(old)
  BY <1>1 DEF Fits, InstData
<1>3. /\ channel' = [channel EXCEPT !.buffer = new, !.currentSize = size, !.currentOffset = n]
      /\ Tame(old, n) \/ n <= Len(old)
      /\ Said(<<>>, FALSE) /\ UNCHANGED <<stored, reading, wild, queue>>
  BY DEF WideSeek
<1>4. /\ new \in Seq(Nat) /\ Len(new) >= size
      /\ \A k \in 1..Len(old) : new[k] = old[k]
      /\ "hole" \notin Careless => \A k \in (Len(old) + 1)..Len(new) : new[k] = 0
  <2>1. CASE n > Len(old)
    <3>1. new = Realloc(old, n, TRUE)
      BY <2>1
    <3> HIDE DEF new
    <3>2. /\ new \in Seq(Nat) /\ Len(new) >= n
          /\ \A k \in 1..n : k <= Len(old) => new[k] = old[k]
      BY <1>2, <3>1, Reallocated
    <3>3. Tame(old, n)
      BY <1>2, <1>3, <2>1
    <3>5. "hole" \notin Careless => \A k \in (Len(old) + 1)..Len(new) : new[k] = 0
      <4> HIDE DEF old
      <4> QED
        BY <1>2, <2>1, <3>1, <3>3, GrownForZeros
    <3>4. (\A k \in 1..Len(old) : k \in 1..n) /\ size = n
      BY <1>2, <2>1
    <3> HIDE DEF old, size
    <3> QED
      BY <1>2, <3>2, <3>4, <3>5
  <2>2. CASE ~(n > Len(old))
    <3>1. new = old
      BY <2>2
    <3>2. size <= Len(old)
      BY <1>2, <2>2
    <3> HIDE DEF new, old, size
    <3> QED
      BY <1>2, <3>1, <3>2
  <2> QED
    BY <2>1, <2>2
<1> HIDE DEF new
<1>5. size \in Nat /\ size <= MaxLength /\ n <= size
  BY <1>1, <1>2
<1>6. /\ channel' \in InstData /\ channel'.buffer = new /\ channel'.currentSize = size
      /\ channel'.currentOffset = n /\ channel'.pathObj = channel.pathObj
      /\ channel'.event = channel.event /\ channel'.interest = channel.interest
  <2>1. channel \in InstData
    BY <1>1 DEF Fits
  <2> HIDE DEF size, old
  <2> QED
    BY <1>2, <1>3, <1>4, <1>5, <2>1 DEF InstData
<1>7. Fits(channel')
  BY <1>4, <1>5, <1>6 DEF Fits
<1>8. answer' \in Answers
  BY <1>3, EmptySeq, SaidType
<1>9. SoundInv'
  <2>1. channel'.currentSize <= MaxLength /\ ~wild' /\ wild' \in BOOLEAN
    BY <1>1, <1>3, <1>5, <1>6, OpenFits DEF SoundInv, TypeOK
  <2>2. UNCHANGED <<stored, reading, queue>>
    BY <1>3
  <2> QED
    BY <1>1, <1>6, <1>7, <1>8, <2>1, <2>2, ChannelMoves
<1>10. ASSUME ZeroInv, "hole" \notin Careless
       PROVE  \A k \in (channel.currentSize + 1)..Len(new) : new[k] = 0
  <2> SUFFICES ASSUME NEW k \in (channel.currentSize + 1)..Len(new) PROVE new[k] = 0
    OBVIOUS
  <2>1. CASE k <= Len(old)
    <3>1. k \in (channel.currentSize + 1)..Len(old) /\ k \in 1..Len(old)
      BY <1>2, <1>4, <2>1
    <3>2. old[k] = 0
      BY <1>1, <1>10, <3>1 DEF ZeroInv, ClearBehind
    <3> QED
      BY <1>4, <3>1, <3>2
  <2>2. CASE ~(k <= Len(old))
    <3>1. k \in (Len(old) + 1)..Len(new)
      BY <1>2, <1>4, <2>2
    <3> QED
      BY <1>4, <1>10, <3>1
  <2> QED
    BY <2>1, <2>2
<1>11. ASSUME ZeroInv, "hole" \notin Careless PROVE ZeroInv'
  <2> SUFFICES ASSUME NEW k \in (size + 1)..Len(new) PROVE new[k] = 0
    BY <1>6 DEF ZeroInv, ClearBehind
  <2>1. k \in (channel.currentSize + 1)..Len(new)
    BY <1>2, <1>4, <1>5
  <2> QED
    BY <1>10, <1>11, <2>1
<1>12. ASSUME ZeroInv, "hole" \notin Careless, NEW k \in 1..size
       PROVE  new[k] = IF k <= channel.currentSize THEN old[k] ELSE 0
  <2>1. CASE k <= channel.currentSize
    <3>1. k \in 1..Len(old)
      BY <1>2, <2>1
    <3> QED
      BY <1>4, <2>1, <3>1
  <2>2. CASE ~(k <= channel.currentSize)
    <3>1. k \in (channel.currentSize + 1)..Len(new)
      BY <1>2, <1>4, <1>5, <2>2
    <3> QED
      BY <1>10, <1>12, <2>2, <3>1
  <2> QED
    BY <2>1, <2>2
<1> QED
  BY <1>6, <1>7, <1>9, <1>11, <1>12

LEMMA TruncateStep ==
  ASSUME SoundInv, "shrink" \notin Careless, NEW n \in 0..MaxLength, Truncate(n)
  PROVE  /\ SoundInv' /\ Fits(channel')
         /\ ZeroInv /\ "hole" \notin Careless => ZeroInv'
         /\ channel'.currentOffset = IF channel.currentOffset > n THEN n ELSE channel.currentOffset
         /\ channel'.currentSize = n /\ channel'.pathObj = channel.pathObj
         /\ ZeroInv /\ "hole" \notin Careless =>
              \A k \in 1..n :
                channel'.buffer[k] = IF k <= channel.currentSize THEN channel.buffer[k] ELSE 0
<1> DEFINE old == channel.buffer
           new == Realloc(old, n, n > Len(old))
           offset == IF channel.currentOffset > n THEN n ELSE channel.currentOffset
<1>1. IsOpen /\ Fits(channel) /\ channel.currentSize <= MaxLength
  BY OpenFits DEF Truncate
<1>2. /\ old \in Seq(Nat) /\ Len(old) \in Nat /\ n \in Nat /\ n <= MaxLength
      /\ channel.currentOffset \in Nat /\ channel.currentSize \in Nat
      /\ channel.currentOffset <= channel.currentSize
      /\ channel.currentSize <= Len(old)
  BY <1>1 DEF Fits, InstData
<1>3. /\ channel' = [channel EXCEPT !.buffer = new, !.currentOffset = offset, !.currentSize = n]
      /\ Tame(old, n) /\ wild' = (wild \/ ClearsBehind(old, n))
      /\ Said(<<>>, FALSE) /\ UNCHANGED <<stored, reading, queue>>
  BY DEF Truncate
<1>4. ~ClearsBehind(old, n)
  BY <1>3 DEF Tame
<1>5. /\ new \in Seq(Nat) /\ Len(new) >= n
      /\ \A k \in 1..n : k <= Len(old) => new[k] = old[k]
      /\ n <= Len(old) => Len(new) = n
      /\ n > Len(old) /\ "hole" \notin Careless => \A k \in (Len(old) + 1)..Len(new) : new[k] = 0
  <2>1. (n > Len(old)) \in BOOLEAN
    OBVIOUS
  <2>2. n > Len(old) => new = Realloc(old, n, TRUE)
    BY <1>2
  <2> HIDE DEF old
  <2>3. /\ new \in Seq(Nat) /\ Len(new) >= n
        /\ \A k \in 1..n : k <= Len(old) => new[k] = old[k]
    BY <1>2, <2>1, Reallocated
  <2>4. n <= Len(old) => Len(new) = n
    BY <1>2, <1>4, <2>1, CutOff
  <2>5. n > Len(old) /\ "hole" \notin Careless => \A k \in (Len(old) + 1)..Len(new) : new[k] = 0
    <3> HIDE DEF new
    <3> QED
      BY <1>2, <1>3, <2>2, GrownForZeros
  <2> QED
    BY <2>3, <2>4, <2>5
<1> HIDE DEF new
<1>6. offset \in Nat /\ offset <= n
  BY <1>2
<1>7. /\ channel' \in InstData /\ channel'.buffer = new /\ channel'.currentSize = n
      /\ channel'.currentOffset = offset /\ channel'.pathObj = channel.pathObj
      /\ channel'.event = channel.event /\ channel'.interest = channel.interest
  <2>1. channel \in InstData
    BY <1>1 DEF Fits
  <2> HIDE DEF offset, old
  <2> QED
    BY <1>2, <1>3, <1>5, <1>6, <2>1 DEF InstData
<1>8. Fits(channel')
  BY <1>5, <1>6, <1>7 DEF Fits
<1>9. answer' \in Answers
  BY <1>3, EmptySeq, SaidType
<1>10. SoundInv'
  <2>1. channel'.currentSize <= MaxLength /\ ~wild' /\ wild' \in BOOLEAN
    BY <1>1, <1>2, <1>3, <1>4, <1>7, OpenFits
  <2>2. UNCHANGED <<stored, reading, queue>>
    BY <1>3
  <2> QED
    BY <1>1, <1>7, <1>8, <1>9, <2>1, <2>2, ChannelMoves
<1>11. ASSUME ZeroInv, "hole" \notin Careless, NEW k \in 1..Len(new), k > channel.currentSize
       PROVE  new[k] = 0
  <2>1. CASE k <= Len(old)
    <3>1. k \in (channel.currentSize + 1)..Len(old)
      BY <1>2, <1>5, <1>11, <2>1
    <3>2. old[k] = 0
      BY <1>1, <1>11, <3>1 DEF ZeroInv, ClearBehind
    <3>3. k <= n
      BY <1>2, <1>5, <2>1
    <3>4. k \in 1..n
      BY <1>2, <3>3
    <3> QED
      BY <1>5, <2>1, <3>2, <3>4
  <2>2. CASE ~(k <= Len(old))
    <3>1. k \in (Len(old) + 1)..Len(new)
      BY <1>2, <1>5, <2>2
    <3>2. n > Len(old)
      BY <1>2, <1>5, <2>2
    <3> QED
      BY <1>5, <1>11, <3>1, <3>2
  <2> QED
    BY <2>1, <2>2
<1>12. ASSUME ZeroInv, "hole" \notin Careless PROVE ZeroInv'
  <2> SUFFICES ASSUME NEW k \in (n + 1)..Len(new) PROVE new[k] = 0
    BY <1>7 DEF ZeroInv, ClearBehind
  <2>1. n > Len(old)
    BY <1>2, <1>5
  <2>2. k \in 1..Len(new) /\ k > channel.currentSize
    BY <1>2, <1>5, <2>1
  <2> QED
    BY <1>11, <1>12, <2>2
<1>13. ASSUME ZeroInv, "hole" \notin Careless, NEW k \in 1..n
       PROVE  new[k] = IF k <= channel.currentSize THEN old[k] ELSE 0
  <2>1. CASE k <= channel.currentSize
    <3>1. k <= Len(old)
      BY <1>2, <2>1
    <3> QED
      BY <1>5, <2>1, <3>1
  <2>2. CASE ~(k <= channel.currentSize)
    <3>1. k \in 1..Len(new) /\ k > channel.currentSize
      BY <1>2, <1>5, <2>2
    <3> QED
      BY <1>11, <1>13, <2>2, <3>1
  <2> QED
    BY <2>1, <2>2
<1> QED
  BY <1>7, <1>8, <1>10, <1>12, <1>13

\* Serving events and asking for them changes no bytes.
SameFile ==
  /\ IsOpen /\ channel' # NULL /\ channel'.pathObj = channel.pathObj
  /\ channel'.buffer = channel.buffer /\ channel'.currentOffset = channel.currentOffset
  /\ channel'.currentSize = channel.currentSize
  /\ UNCHANGED <<stored, reading, wild, answer>>

LEMMA EventStep ==
  ASSUME SoundInv, SameFile, channel' \in InstData, queue' \in Queues,
         Awaited(queue', channel'.event), channel'.interest => channel'.event
  PROVE  SoundInv' /\ (ZeroInv => ZeroInv')
<1>1. Fits(channel')
  BY OpenFits DEF Fits, SameFile
<1>2. channel'.currentSize <= MaxLength /\ ~reading' /\ ~wild'
  BY OpenFits DEF SameFile
<1>3. /\ reading' \in BOOLEAN /\ wild' \in BOOLEAN /\ answer' \in Answers
      /\ stored' = NULL \/ (stored' \in Seq(Nat) /\ Len(stored') <= MaxLength)
  BY DEF SameFile, SoundInv, TypeOK, Answers
<1>4. SoundInv'
  BY <1>1, <1>2, <1>3, ChannelFits
<1> QED
  BY <1>4 DEF ZeroInv, ClearBehind, SameFile

\* So does asking for them, when a channel c and events q are as they were but for
\* an event that is served.
LEMMA WatchedStep ==
  ASSUME SoundInv, IsOpen, NEW c \in InstData, NEW q \in Queues, Awaited(q, c.event),
         NEW mask \in BOOLEAN, Watched(c, q, mask),
         c.buffer = channel.buffer, c.currentOffset = channel.currentOffset,
         c.currentSize = channel.currentSize, c.pathObj = channel.pathObj,
         UNCHANGED <<stored, reading, wild, answer>>
  PROVE  SameFile /\ SoundInv' /\ (ZeroInv => ZeroInv')
<1>1. /\ channel' \in InstData /\ channel' # NULL /\ queue' \in Queues
      /\ Awaited(queue', channel'.event) /\ (channel'.interest => channel'.event)
      /\ channel'.buffer = c.buffer /\ channel'.currentOffset = c.currentOffset
      /\ channel'.currentSize = c.currentSize /\ channel'.pathObj = c.pathObj
  BY WatchedFits
<1>2. SameFile
  BY <1>1 DEF SameFile
<1> QED
  BY <1>1, <1>2, EventStep

LEMMA WatchStep ==
  ASSUME SoundInv, (\E mask \in BOOLEAN : Watch(mask)) \/ ThreadAction
  PROVE  SameFile /\ SoundInv' /\ (ZeroInv => ZeroInv')
<1>1. PICK mask \in BOOLEAN : /\ IsOpen /\ Watched(channel, queue, mask)
                              /\ UNCHANGED <<stored, reading, wild, answer>>
  BY DEF Watch, ThreadAction, Watched
<1>2. channel \in InstData /\ Awaited(queue, channel.event) /\ queue \in Queues
  BY <1>1, OpenFits DEF Fits
<1> QED
  BY <1>1, <1>2, WatchedStep

\* No channel is sound too.
LEMMA NoChannel ==
  ASSUME channel' = NULL, reading' = FALSE, wild' = FALSE,
         stored' = NULL \/ (stored' \in Seq(Nat) /\ Len(stored') <= MaxLength),
         queue' \in Queues, Awaited(queue', FALSE), answer' \in Answers
  PROVE  SoundInv' /\ ZeroInv'
<1>1. TypeOK'
  BY DEF TypeOK, Queues, Answers
<1>2. (channel' # NULL /\ channel'.event) = FALSE
  OBVIOUS
<1>3. EventsFit'
  BY <1>2 DEF EventsFit
<1> QED
  BY <1>1, <1>3 DEF SoundInv, StaysInBuffer, ReadSoFar, ZeroInv, IsOpen

LEMMA ReadyStep ==
  ASSUME SoundInv, Ready
  PROVE  /\ SoundInv' /\ (ZeroInv => ZeroInv')
         /\ \/ SameFile
            \/ channel = NULL /\ UNCHANGED <<stored, channel, reading, answer>>
<1>1. ~reading /\ queue # <<>> /\ UNCHANGED <<stored, reading, wild, answer>>
  BY DEF Ready
<1>2. CASE channel = NULL
  <2>1. queue \in Queues /\ Awaited(queue, FALSE) /\ wild = FALSE /\ reading = FALSE
    <3>1. Awaited(queue, channel # NULL /\ channel.event)
      BY DEF SoundInv, EventsFit
    <3>2. (channel # NULL /\ channel.event) = FALSE
      BY <1>2
    <3>3. Awaited(queue, FALSE)
      BY <3>1, <3>2
    <3> QED
      BY <1>1, <3>3 DEF SoundInv, TypeOK, StaysInBuffer, Queues
  <2>2. /\ Tail(queue) \in Queues /\ Head(queue) # "open"
        /\ Awaited(Tail(queue), FALSE)
    BY <1>1, <2>1, EventServed
  <2>3. queue' = Tail(queue) /\ UNCHANGED channel
    BY <2>2 DEF Ready
  <2>4. /\ stored' = NULL \/ (stored' \in Seq(Nat) /\ Len(stored') <= MaxLength)
        /\ answer' \in Answers
    BY <1>1 DEF SoundInv, TypeOK, Answers
  <2>5. SoundInv' /\ ZeroInv'
    BY <1>1, <1>2, <2>1, <2>2, <2>3, <2>4, NoChannel
  <2> QED
    BY <1>1, <1>2, <2>3, <2>5
<1>3. CASE channel # NULL
  <2>1. IsOpen
    BY <1>1, <1>3 DEF IsOpen
  <2>2. /\ channel \in InstData /\ Awaited(queue, channel.event) /\ queue \in Queues
        /\ channel.interest => channel.event
        /\ channel.event \in BOOLEAN /\ channel.interest \in BOOLEAN
    BY <2>1, OpenFits DEF Fits, InstData
  <2>3. /\ Tail(queue) \in Queues
        /\ Head(queue) # "open" => Awaited(Tail(queue), channel.event)
        /\ Head(queue) = "open" => Awaited(Tail(queue), FALSE)
    BY <1>1, <2>2, EventServed
  <2>4. CASE Head(queue) # "open"
    <3>1. queue' = Tail(queue) /\ UNCHANGED channel
      BY <2>4 DEF Ready
    <3>2. SameFile
      BY <1>1, <1>3, <2>1, <3>1 DEF SameFile
    <3> QED
      BY <2>2, <2>3, <2>4, <3>1, <3>2, EventStep
  <2>5. CASE Head(queue) = "open"
    <3> DEFINE c == [channel EXCEPT !.event = FALSE]
    <3>1. /\ c \in InstData /\ c.event = FALSE /\ c.interest = channel.interest
          /\ c.buffer = channel.buffer /\ c.currentOffset = channel.currentOffset
          /\ c.currentSize = channel.currentSize /\ c.pathObj = channel.pathObj
      BY <2>2 DEF InstData
    <3>2. IF c.interest THEN \E mask \in BOOLEAN : Watched(c, Tail(queue), mask)
          ELSE channel' = c /\ queue' = Tail(queue)
      BY <2>5 DEF Ready
    <3> HIDE DEF c
    <3>3. Awaited(Tail(queue), c.event)
      BY <2>3, <2>5, <3>1
    <3>4. CASE c.interest
      <4>1. PICK mask \in BOOLEAN : Watched(c, Tail(queue), mask)
        BY <3>2, <3>4
      <4> QED
        BY <1>1, <2>1, <2>3, <3>1, <3>3, <4>1, WatchedStep
    <3>5. CASE ~c.interest
      <4>1. channel' = c /\ queue' = Tail(queue)
        BY <3>2, <3>5
      <4>2. SameFile
        BY <1>1, <2>1, <3>1, <4>1 DEF SameFile
      <4> QED
        BY <2>3, <3>1, <3>3, <3>5, <4>1, <4>2, EventStep
    <3> QED
      BY <3>4, <3>5
  <2> QED
    BY <2>4, <2>5
<1> QED
  BY <1>2, <1>3

-----------------------------------------------------------------------------
(* Opening and closing.                                                    *)

\* A new channel has an empty file in a buffer of its size.
LEMMA Allocated ==
  ASSUME NEW n \in Nat, NEW pathObj \in BOOLEAN
  PROVE  LET c == Alloc(n, pathObj)
         IN /\ Fits(c) /\ c.currentOffset = 0 /\ c.currentSize = 0 /\ c.pathObj = pathObj
            /\ ~c.interest /\ c.event = FALSE /\ Len(c.buffer) = n
<1> DEFINE b == [k \in 1..n |-> Junk]
<1>1. b \in Seq(Nat) /\ Len(b) = n
  BY DEF Junk
<1>2. Alloc(n, pathObj) =
        [buffer |-> b, currentOffset |-> 0, currentSize |-> 0, pathObj |-> pathObj,
         interest |-> FALSE, event |-> FALSE]
  BY DEF Alloc
<1> HIDE DEF b
<1> QED
  BY <1>1, <1>2 DEF Fits, InstData

\* Nobody waits for events of a channel that is not there or not read yet.
LEMMA NoneAwaited ==
  ASSUME SoundInv, channel = NULL \/ reading
  PROVE  Awaited(queue, FALSE) /\ queue \in Queues /\ wild = FALSE
<1>1. Awaited(queue, channel # NULL /\ channel.event)
  BY DEF SoundInv, EventsFit
<1>2. (channel # NULL /\ channel.event) = FALSE
  BY DEF SoundInv, ReadSoFar
<1>3. Awaited(queue, FALSE)
  BY <1>1, <1>2
<1> QED
  BY <1>3 DEF SoundInv, TypeOK, StaysInBuffer, Queues

\* While the file is read the channel is in a buffer of its size.
LEMMA ReadingFits ==
  ASSUME SoundInv, reading
  PROVE  /\ Fits(channel) /\ channel # NULL /\ ~channel.interest /\ channel.event = FALSE
         /\ stored \in Seq(Nat) /\ Len(stored) <= MaxLength /\ stored # NULL
         /\ Len(channel.buffer) = Len(stored) /\ channel.currentOffset = channel.currentSize
         /\ \A k \in 1..channel.currentSize : channel.buffer[k] = stored[k]
<1>1. channel \in InstData /\ channel # NULL
  BY DEF SoundInv, TypeOK, ReadSoFar
<1> QED
  BY <1>1 DEF SoundInv, TypeOK, StaysInBuffer, ReadSoFar, Fits, InstData

\* A channel into which a file is read
LEMMA ReadingStays ==
  ASSUME Fits(channel'), reading' = TRUE, wild' = FALSE,
         stored' \in Seq(Nat), stored' # NULL, Len(stored') <= MaxLength,
         Len(channel'.buffer) = Len(stored'), channel'.currentOffset = channel'.currentSize,
         \A k \in 1..channel'.currentSize : channel'.buffer[k] = stored'[k],
         ~channel'.interest, channel'.event = FALSE,
         queue' \in Queues, Awaited(queue', FALSE), answer' \in Answers
  PROVE  SoundInv' /\ ZeroInv'
<1>1. channel' \in InstData /\ channel' # NULL /\ channel'.currentSize <= MaxLength
  BY DEF Fits, InstData
<1>2. TypeOK'
  BY <1>1 DEF TypeOK, Queues, Answers
<1>3. (channel' # NULL /\ channel'.event) = FALSE
  OBVIOUS
<1>4. EventsFit'
  BY <1>3 DEF EventsFit
<1>5. StaysInBuffer'
  BY DEF StaysInBuffer, Fits
<1>6. ReadSoFar'
  BY <1>1 DEF ReadSoFar
<1> QED
  BY <1>2, <1>4, <1>5, <1>6 DEF SoundInv, ZeroInv, IsOpen

LEMMA OpenExistingStep ==
  ASSUME SoundInv, OpenExisting
  PROVE  SoundInv' /\ ZeroInv'
<1>1. PICK pathObj \in BOOLEAN : channel' = Alloc(Len(stored), pathObj)
  BY DEF OpenExisting
<1>2. /\ channel = NULL /\ stored # NULL /\ reading' = TRUE
      /\ UNCHANGED <<stored, wild, queue, answer>>
  BY DEF OpenExisting
<1>3. stored \in Seq(Nat) /\ Len(stored) \in Nat /\ Len(stored) <= MaxLength /\ answer \in Answers
  BY <1>2 DEF SoundInv, TypeOK, Answers
<1>4. /\ Fits(channel') /\ channel'.currentOffset = 0 /\ channel'.currentSize = 0
      /\ ~channel'.interest /\ channel'.event = FALSE /\ Len(channel'.buffer) = Len(stored)
  BY <1>1, <1>3, Allocated
<1>5. \A k \in 1..channel'.currentSize : channel'.buffer[k] = stored'[k]
  BY <1>4
<1> QED
  BY <1>2, <1>3, <1>4, <1>5, NoneAwaited, ReadingStays

LEMMA ReadBlockStep ==
  ASSUME SoundInv, NEW n \in 1..MaxLength, ReadBlock(n)
  PROVE  SoundInv' /\ ZeroInv'
<1> DEFINE at == channel.currentOffset
           data == SubSeq(stored, at + 1, at + n)
<1>1. /\ reading /\ at + n <= Len(stored) /\ channel' = Output(channel, data)
      /\ UNCHANGED <<stored, reading, wild, queue, answer>>
  BY DEF ReadBlock
<1>2. /\ Fits(channel) /\ channel # NULL /\ ~channel.interest /\ channel.event = FALSE
      /\ stored \in Seq(Nat) /\ Len(stored) <= MaxLength /\ stored # NULL
      /\ Len(channel.buffer) = Len(stored) /\ at = channel.currentSize
      /\ \A k \in 1..channel.currentSize : channel.buffer[k] = stored[k]
  BY <1>1, ReadingFits
<1>3. at \in Nat /\ n \in Nat /\ Len(stored) \in Nat
  BY <1>2 DEF Fits, InstData
<1>4. /\ data \in Seq(Nat) /\ Len(data) = n
      /\ \A k \in 1..n : data[k] = stored[at + k]
  <2>1. PICK a \in Nat \ {0}, b \in Nat : a = at + 1 /\ b = at + n
    BY <1>3
  <2>2. data = SubSeq(stored, a, b) /\ stored \in Seq(Nat)
    BY <1>2, <2>1
  <2>3. at + n <= Len(stored)
    BY <1>1
  <2> HIDE DEF at, data
  <2>4. b - a + 1 = n /\ a <= b + 1 /\ b <= Len(stored) /\ \A k \in 1..n : k + a - 1 = at + k
    BY <1>3, <2>1, <2>3
  <2>5. /\ data \in Seq(Nat) /\ Len(data) = b - a + 1
        /\ \A k \in 1..(b - a + 1) : data[k] = stored[k + a - 1]
    BY SMTT(60), <2>2, <2>4, PartOf
  <2> QED
    BY <2>4, <2>5
<1> HIDE DEF data
<1>5. /\ Fits(channel') /\ channel'.currentOffset = at + n
      /\ channel'.currentSize = IF channel.currentSize < at + n THEN at + n ELSE channel.currentSize
      /\ channel'.interest = channel.interest /\ channel'.event = channel.event
      /\ at + n <= Len(channel.buffer) => Len(channel'.buffer) = Len(channel.buffer)
      /\ \A k \in 1..channel'.currentSize :
           channel'.buffer[k] = IF k > at /\ k <= at + n THEN data[k - at] ELSE channel.buffer[k]
  BY ZenonT(60), <1>1, <1>2, <1>4, OutputDone
<1>6. channel'.currentSize = at + n
  BY <1>2, <1>3, <1>5
<1>7. ASSUME NEW k \in 1..(at + n) PROVE channel'.buffer[k] = stored[k]
  <2>1. CASE k > at
    <3>1. k - at \in 1..n /\ at + (k - at) = k /\ k <= at + n
      BY <1>3, <2>1
    <3>2. data[k - at] = stored[at + (k - at)]
      BY <1>4, <3>1
    <3> QED
      BY <1>5, <1>6, <2>1, <3>1, <3>2
  <2>2. CASE ~(k > at)
    <3>1. k \in 1..channel.currentSize
      BY <1>2, <1>3, <2>2
    <3> QED
      BY <1>2, <1>5, <1>6, <2>2, <3>1
  <2> QED
    BY <2>1, <2>2
<1>8. answer' \in Answers /\ reading' = TRUE
  BY <1>1 DEF SoundInv, TypeOK, Answers
<1>9. \A k \in 1..channel'.currentSize : channel'.buffer[k] = stored'[k]
  BY <1>1, <1>6, <1>7
<1>10. Len(channel'.buffer) = Len(stored') /\ channel'.currentOffset = channel'.currentSize
  BY <1>1, <1>2, <1>5, <1>6
<1> QED
  BY <1>1, <1>2, <1>5, <1>8, <1>9, <1>10, NoneAwaited, ReadingStays

\* The file that was read is the file that is stored.
LEMMA OpenedStep ==
  ASSUME SoundInv, Opened
  PROVE  /\ SoundInv' /\ ZeroInv' /\ channel' # NULL
         /\ channel'.currentSize = Len(stored) /\ stored \in Seq(Nat) /\ stored # NULL
         /\ channel'.currentOffset \in {0, Len(stored)} /\ channel'.pathObj \in BOOLEAN
         /\ Fits(channel')
         /\ \A k \in 1..Len(stored) : channel'.buffer[k] = stored[k]
<1>1. PICK atEnd \in BOOLEAN :
        channel' = [channel EXCEPT !.currentOffset = IF atEnd THEN channel.currentSize ELSE 0]
  BY DEF Opened
<1>2. /\ reading /\ channel.currentOffset = Len(stored) /\ reading' = FALSE
      /\ Said(<<>>, FALSE) /\ UNCHANGED <<stored, wild, queue>>
  BY DEF Opened
<1>3. /\ Fits(channel) /\ channel # NULL /\ ~channel.interest /\ channel.event = FALSE
      /\ stored \in Seq(Nat) /\ Len(stored) <= MaxLength /\ stored # NULL
      /\ Len(channel.buffer) = Len(stored) /\ channel.currentOffset = channel.currentSize
      /\ \A k \in 1..channel.currentSize : channel.buffer[k] = stored[k]
  BY <1>2, ReadingFits
<1>4. /\ channel \in InstData /\ channel.currentSize \in Nat /\ channel.currentSize = Len(stored)
      /\ channel.buffer \in Seq(Nat)
  BY <1>2, <1>3 DEF Fits, InstData
<1>5. /\ channel' \in InstData /\ channel'.buffer = channel.buffer
      /\ channel'.currentSize = channel.currentSize
      /\ channel'.currentOffset = IF atEnd THEN channel.currentSize ELSE 0
      /\ channel'.event = channel.event /\ channel'.interest = channel.interest
      /\ channel'.pathObj \in BOOLEAN
  BY <1>1, <1>4 DEF InstData
<1>6. Fits(channel') /\ channel' # NULL
  BY <1>3, <1>4, <1>5 DEF Fits
<1>7. answer' \in Answers
  BY <1>2, EmptySeq, SaidType
<1>8. Awaited(queue', channel'.event) /\ queue' \in Queues /\ wild' = FALSE
  BY <1>2, <1>3, <1>5, NoneAwaited
<1>9. SoundInv'
  BY <1>2, <1>3, <1>4, <1>5, <1>6, <1>7, <1>8, ChannelFits
<1>10. ZeroInv'
  BY <1>3, <1>4, <1>5 DEF ZeroInv, ClearBehind
<1> QED
  BY <1>3, <1>4, <1>5, <1>6, <1>9, <1>10

LEMMA OpenNewStep ==
  ASSUME SoundInv, OpenNew
  PROVE  /\ SoundInv' /\ ZeroInv' /\ Fits(channel') /\ channel'.currentOffset = 0
         /\ channel'.currentSize = 0 /\ channel'.pathObj /\ ~reading'
<1>1. /\ channel = NULL /\ channel' = Alloc(0, TRUE) /\ Said(<<>>, FALSE)
      /\ UNCHANGED <<stored, reading, wild, queue>>
  BY DEF OpenNew
<1>2. /\ Fits(channel') /\ channel'.currentOffset = 0 /\ channel'.currentSize = 0
      /\ channel'.pathObj /\ ~channel'.interest /\ channel'.event = FALSE
      /\ Len(channel'.buffer) = 0
  BY <1>1, Allocated
<1>3. reading = FALSE
  BY <1>1 DEF SoundInv, TypeOK, ReadSoFar
<1>4. answer' \in Answers
  BY <1>1, EmptySeq, SaidType
<1>5. /\ stored' = NULL \/ (stored' \in Seq(Nat) /\ Len(stored') <= MaxLength)
      /\ Awaited(queue', channel'.event) /\ queue' \in Queues /\ wild' = FALSE
  BY <1>1, <1>2, NoneAwaited DEF SoundInv, TypeOK
<1>6. SoundInv'
  <2>1. /\ channel'.currentSize <= MaxLength /\ ~reading' /\ ~wild'
        /\ reading' \in BOOLEAN /\ wild' \in BOOLEAN
        /\ channel'.interest => channel'.event
    <3>1. reading' = FALSE /\ wild' = FALSE
      BY <1>1, <1>3, <1>5
    <3>2. channel'.currentSize <= MaxLength
      BY <1>2
    <3> QED
      BY <1>2, <3>1, <3>2
  <2> QED
    BY <1>2, <1>4, <1>5, <2>1, ChannelFits
<1>7. ZeroInv'
  BY <1>2 DEF ZeroInv, ClearBehind
<1> QED
  BY <1>1, <1>2, <1>3, <1>6, <1>7

\* A channel that is freed leaves no event for it.
LEMMA FreeStep ==
  ASSUME SoundInv, Free, channel # NULL, reading' = FALSE, wild' = wild,
         stored' = NULL \/ (stored' \in Seq(Nat) /\ Len(stored') <= MaxLength),
         answer' \in Answers
  PROVE  SoundInv' /\ ZeroInv'
<1>1. channel \in InstData /\ channel.event \in BOOLEAN
  BY DEF SoundInv, TypeOK, InstData
<1>2. (channel # NULL /\ channel.event) = channel.event
  BY <1>1
<1>3. Awaited(queue, channel.event) /\ queue \in Queues /\ wild = FALSE
  BY <1>2 DEF SoundInv, EventsFit, TypeOK, StaysInBuffer, Queues
<1>4. /\ channel' = NULL
      /\ queue' = Forgotten(queue, IF channel.event THEN NULL ELSE "freed")
  BY DEF Free
<1>5. queue' \in Queues /\ Awaited(queue', FALSE)
  BY <1>1, <1>3, <1>4, EventForgotten
<1> QED
  BY <1>3, <1>4, <1>5, NoChannel

LEMMA OpenFailsStep ==
  ASSUME SoundInv, OpenFails
  PROVE  SoundInv' /\ ZeroInv'
<1>1. Free /\ reading' = FALSE /\ channel # NULL /\ Said(<<>>, TRUE) /\ UNCHANGED <<stored, wild>>
  BY ReadingFits DEF OpenFails
<1>2. answer' \in Answers
  BY <1>1, EmptySeq, SaidType
<1> QED
  BY <1>1, <1>2, FreeStep DEF SoundInv, TypeOK

\* What the program has written
Bytes(c) == SubSeq(c.buffer, 1, c.currentSize)

LEMMA BytesAre ==
  ASSUME NEW c, Fits(c)
  PROVE  /\ Bytes(c) \in Seq(Nat) /\ Len(Bytes(c)) = c.currentSize /\ c.currentSize \in Nat
         /\ Bytes(c) = [k \in 1..c.currentSize |-> c.buffer[k]]
         /\ \A k \in 1..c.currentSize : Bytes(c)[k] = c.buffer[k]
<1>1. /\ c.buffer \in Seq(Nat) /\ c.currentSize \in Nat /\ c.currentSize <= Len(c.buffer)
      /\ 1 <= c.currentSize + 1 /\ c.currentSize - 1 + 1 = c.currentSize
      /\ \A k \in 1..c.currentSize : k + 1 - 1 = k
  BY DEF Fits, InstData
<1> DEFINE n == c.currentSize
<1>2. /\ SubSeq(c.buffer, 1, n) \in Seq(Nat) /\ Len(SubSeq(c.buffer, 1, n)) = n - 1 + 1
      /\ SubSeq(c.buffer, 1, n) = [k \in 1..(n - 1 + 1) |-> c.buffer[k + 1 - 1]]
      /\ \A k \in 1..(n - 1 + 1) : SubSeq(c.buffer, 1, n)[k] = c.buffer[k + 1 - 1]
  BY SMTT(60), <1>1, PartOf
<1>3. [k \in 1..(n - 1 + 1) |-> c.buffer[k + 1 - 1]] = [k \in 1..n |-> c.buffer[k]]
  BY <1>1
<1> QED
  BY <1>1, <1>2, <1>3 DEF Bytes

LEMMA CloseStep ==
  ASSUME SoundInv, Close
  PROVE  SoundInv' /\ ZeroInv'
<1>1. IsOpen /\ Free /\ UNCHANGED <<reading, wild>>
  BY DEF Close
<1>2. /\ Fits(channel) /\ channel # NULL /\ ~reading /\ channel.currentSize <= MaxLength
      /\ reading' = FALSE
  BY <1>1, OpenFits DEF SoundInv, TypeOK
<1>3. stored' \in {stored, NULL, Bytes(channel)}
  BY DEF Close, Bytes
<1>4. stored' = NULL \/ (stored' \in Seq(Nat) /\ Len(stored') <= MaxLength)
  BY <1>2, <1>3, BytesAre DEF SoundInv, TypeOK
<1>5. \E failed \in BOOLEAN : Said(<<>>, failed)
  BY DEF Close
<1>6. answer' \in Answers
  BY <1>5, EmptySeq, SaidType
<1> QED
  BY <1>1, <1>2, <1>4, <1>6, FreeStep

-----------------------------------------------------------------------------
(* The invariant.                                                          *)

LEMMA InitInv == Init => SoundInv /\ ZeroInv
<1> SUFFICES ASSUME Init PROVE SoundInv /\ ZeroInv
  OBVIOUS
<1>1. queue = <<>> /\ channel = NULL /\ reading = FALSE /\ wild = FALSE /\ stored = NULL
  BY DEF Init
<1>2. queue \in Seq({"open", "freed", NULL}) /\ Len(queue) = 0
  BY <1>1, EmptySeq
<1>3. answer \in [bytes : Seq(Nat), failed : BOOLEAN]
  BY EmptySeq DEF Init
<1>4. Awaited(queue, FALSE)
  BY <1>2 DEF Awaited
<1>5. EventsFit
  <2>1. (channel # NULL /\ channel.event) = FALSE
    BY <1>1
  <2> QED
    BY <1>1, <1>4, <2>1 DEF EventsFit
<1> QED
  BY <1>1, <1>2, <1>3, <1>5
     DEF SoundInv, TypeOK, StaysInBuffer, ReadSoFar, ZeroInv, IsOpen

LEMMA StepInv ==
  ASSUME SoundInv, "shrink" \notin Careless, [Next]_vars
  PROVE  SoundInv' /\ (ZeroInv /\ "hole" \notin Careless => ZeroInv')
<1>1. CASE UNCHANGED vars
  BY <1>1 DEF vars, SoundInv, TypeOK, StaysInBuffer, ReadSoFar, EventsFit, ZeroInv, ClearBehind,
     IsOpen
<1>2. ASSUME NEW n \in 0..MaxLength, Input(n) \/ WideSeek(n) \/ Truncate(n)
      PROVE  SoundInv' /\ (ZeroInv /\ "hole" \notin Careless => ZeroInv')
  <2>1. n \in Nat
    OBVIOUS
  <2> QED
    BY <1>2, <2>1, InputStep, WideSeekStep, TruncateStep
<1>3. CASE Next
  BY <1>2, <1>3, OpenExistingStep, OpenedStep, OpenFailsStep, OpenNewStep, CloseStep,
     ReadBlockStep, WriteStep, WatchStep, ReadyStep DEF Next
<1> QED
  BY <1>1, <1>3

\* The channel stands in its buffer, nothing is cleared behind it, and its events
\* reach it and no channel that was freed, whatever a program writes, seeks, cuts,
\* watches and closes; unless it makes a file shorter to a length that is no whole
\* number of units ("shrink": the range that is cleared then begins where the old
\* buffer ended, writerchannelIO.c:103-116 and 138-144).
THEOREM ChannelIsSound ==
  ASSUME "shrink" \notin Careless
  PROVE  Spec => []ChannelSound
<1>1. Init => SoundInv
  BY InitInv
<1>2. SoundInv /\ [Next]_vars => SoundInv'
  BY StepInv
<1>3. ASSUME SoundInv PROVE ChannelSound
  <2> DEFINE mine == {k \in DOMAIN queue : queue[k] = "open"}
  <2>1. TypeOK /\ StaysInBuffer /\ EventsFit /\ queue \in Queues
    BY <1>3 DEF SoundInv, TypeOK, Queues
  <2>2. DOMAIN queue = 1..Len(queue)
    BY <2>1 DEF Queues
  <2>3. \A k \in DOMAIN queue : queue[k] # "freed"
    BY <2>1, <2>2 DEF EventsFit, Awaited
  <2>4. CASE channel = NULL
    <3>1. mine = {}
      BY <2>1, <2>2, <2>4 DEF EventsFit, Awaited
    <3> QED
      BY <2>1, <2>3, <2>4, <3>1 DEF ChannelSound, EventsReachTheChannel
  <2>5. CASE channel # NULL
    <3>1. channel.event \in BOOLEAN
      BY <2>1, <2>5 DEF TypeOK, InstData
    <3>2. Cardinality(mine) = IF channel.event THEN 1 ELSE 0
      <4>1. CASE channel.event
        <5>1. PICK k \in 1..Len(queue) : \A j \in 1..Len(queue) : queue[j] = "open" <=> j = k
          BY <2>1, <2>5, <4>1 DEF EventsFit, Awaited
        <5>2. mine = {k}
          BY <2>2, <5>1
        <5> QED
          BY <4>1, <5>2, FS_Singleton
      <4>2. CASE ~channel.event
        <5>1. mine = {}
          BY <2>1, <2>2, <4>2 DEF EventsFit, Awaited
        <5> QED
          BY <4>2, <5>1, FS_EmptySet
      <4> QED
        BY <4>1, <4>2
    <3> HIDE DEF mine
    <3>3. channel.interest => channel.event
      BY <2>1, <2>5 DEF EventsFit
    <3> QED
      BY <2>1, <2>3, <2>5, <3>2, <3>3 DEF ChannelSound, EventsReachTheChannel, mine
  <2> QED
    BY <2>4, <2>5
<1> QED
  BY <1>1, <1>2, <1>3, PTL DEF Spec

-----------------------------------------------------------------------------
(* The buffer is the file.                                                 *)

\* How OpenFile sees channel c, and the channel there is
View(c) == [bytes |-> Bytes(c), pos |-> c.currentOffset, keeps |-> c.pathObj]

Handle == IF channel = NULL \/ reading THEN NULL ELSE View(channel)

FileStep == [File!Next]_(File!absVars)

LEMMA HandleIsView ==
  ASSUME SoundInv, IsOpen
  PROVE  /\ Handle = View(channel) /\ Handle # NULL
         /\ Handle.bytes = Bytes(channel) /\ Handle.pos = channel.currentOffset
         /\ Handle.keeps = channel.pathObj
<1>1. Bytes(channel) \in Seq(Nat) /\ channel.currentOffset \in Nat /\ channel.pathObj \in BOOLEAN
  BY OpenFits, BytesAre DEF Fits, InstData
<1>2. View(channel) \in Handles
  BY <1>1 DEF View, Handles
<1> QED
  BY <1>2 DEF Handle, View, IsOpen

\* A step of a channel that stays open, and its parts
LEMMA HandleMoves ==
  ASSUME SoundInv, IsOpen, Fits(channel'), UNCHANGED <<stored, reading>>,
         \/ \E n \in 0..MaxLength : File!Read(n) \/ File!Seek(n) \/ File!Truncate(n)
         \/ \E data \in Chunks : File!Write(data)
  PROVE  FileStep
<1>1. Handle # NULL
  BY HandleIsView
<1> QED
  BY <1>1 DEF FileStep, File!Next, Handle, View, Bytes

LEMMA NextHandle ==
  ASSUME Fits(channel'), reading' = FALSE
  PROVE  Handle' = View(channel')
BY DEF Fits, Handle

\* The bytes of the file after its end moved to n
LEMMA BytesResized ==
  ASSUME NEW c, Fits(c), NEW d, Fits(d), NEW n \in Nat, d.currentSize = n,
         \A k \in 1..n : d.buffer[k] = IF k <= c.currentSize THEN c.buffer[k] ELSE 0
  PROVE  Bytes(d) = File!Resized(Bytes(c), n)
<1>1. Bytes(d) = [k \in 1..n |-> d.buffer[k]]
  BY BytesAre
<1>2. /\ Len(Bytes(c)) = c.currentSize /\ c.currentSize \in Nat
      /\ \A k \in 1..c.currentSize : Bytes(c)[k] = c.buffer[k]
  BY BytesAre
<1>3. File!Resized(Bytes(c), n) = [k \in 1..n |-> IF k <= Len(Bytes(c)) THEN Bytes(c)[k] ELSE 0]
  BY DEF File!Resized
<1>4. \A k \in 1..n : d.buffer[k] = IF k <= Len(Bytes(c)) THEN Bytes(c)[k] ELSE 0
  BY <1>2
<1> QED
  BY <1>1, <1>3, <1>4

\* A channel whose bytes and position changed
LEMMA ViewMoved ==
  ASSUME Fits(channel), Fits(channel'), channel'.pathObj = channel.pathObj,
         NEW bytes, NEW pos, Bytes(channel') = bytes, channel'.currentOffset = pos
  PROVE  /\ View(channel') = [View(channel) EXCEPT !.bytes = bytes, !.pos = pos]
         /\ View(channel') = [View(channel) EXCEPT !.pos = pos, !.bytes = bytes]
<1>1. /\ Bytes(channel) \in Seq(Nat) /\ channel.currentOffset \in Nat
      /\ channel.pathObj \in BOOLEAN
  BY BytesAre DEF Fits, InstData
<1>2. Bytes(channel') \in Seq(Nat) /\ channel'.currentOffset \in Nat
  <2>1. PICK c : c = channel' /\ Fits(c)
    OBVIOUS
  <2>2. Bytes(c) \in Seq(Nat) /\ c.currentOffset \in Nat
    BY <2>1, BytesAre DEF Fits, InstData
  <2> QED
    BY <2>1, <2>2 DEF Bytes
<1>3. PICK g, h : g = View(channel') /\ h = View(channel)
  OBVIOUS
<1>4. /\ g \in Handles /\ h \in Handles /\ bytes \in Seq(Nat) /\ pos \in Nat
      /\ g.bytes = bytes /\ g.pos = pos /\ g.keeps = h.keeps
  BY <1>1, <1>2, <1>3 DEF View, Handles
<1>5. /\ g = [h EXCEPT !.bytes = bytes, !.pos = pos]
      /\ g = [h EXCEPT !.pos = pos, !.bytes = bytes]
  BY <1>4 DEF Handles
<1> QED
  BY <1>3, <1>5

LEMMA SeekIsSeek ==
  ASSUME SoundInv, ZeroInv, "hole" \notin Careless, NEW n \in 0..MaxLength, WideSeek(n)
  PROVE  FileStep
<1>1. IsOpen /\ Fits(channel) /\ n \in Nat /\ reading = FALSE
  BY OpenFits DEF WideSeek, SoundInv, TypeOK
<1>2. Said(<<>>, FALSE) /\ UNCHANGED <<stored, reading>>
  BY DEF WideSeek
<1>3. /\ Fits(channel') /\ channel'.currentOffset = n /\ channel'.pathObj = channel.pathObj
      /\ channel'.currentSize = IF channel.currentSize < n THEN n ELSE channel.currentSize
      /\ \A k \in 1..channel'.currentSize :
           channel'.buffer[k] = IF k <= channel.currentSize THEN channel.buffer[k] ELSE 0
  BY WideSeekStep
<1>4. Len(Bytes(channel)) = channel.currentSize /\ channel.currentSize \in Nat
  BY <1>1, BytesAre
<1>5. Bytes(channel') = IF n > Len(Bytes(channel)) THEN File!Resized(Bytes(channel), n)
                        ELSE Bytes(channel)
  <2>1. CASE n > channel.currentSize
    <3>1. channel'.currentSize = n
      BY <1>1, <1>3, <1>4, <2>1
    <3> QED
      BY <1>1, <1>3, <1>4, <2>1, <3>1, BytesResized
  <2>2. CASE ~(n > channel.currentSize)
    <3>1. channel'.currentSize = channel.currentSize
      BY <1>1, <1>3, <1>4, <2>2
    <3>2. \A k \in 1..channel.currentSize : channel'.buffer[k] = channel.buffer[k]
      BY <1>3, <1>4, <3>1
    <3>3. /\ Bytes(channel') = [k \in 1..channel.currentSize |-> channel'.buffer[k]]
          /\ Bytes(channel) = [k \in 1..channel.currentSize |-> channel.buffer[k]]
      BY <1>1, <1>3, <3>1, BytesAre
    <3> QED
      BY <1>4, <2>2, <3>2, <3>3
  <2> QED
    BY <2>1, <2>2
<1>6. Handle' = View(channel') /\ Handle = View(channel)
  BY <1>1, <1>2, <1>3, HandleIsView, NextHandle
<1>7. View(channel') = [View(channel) EXCEPT !.pos = n,
                          !.bytes = IF n > Len(@) THEN File!Resized(@, n) ELSE @]
  <2> DEFINE b == Bytes(channel)
  <2>1. PICK r : r = IF n > Len(b) THEN File!Resized(b, n) ELSE b
    OBVIOUS
  <2>2. View(channel') = [View(channel) EXCEPT !.pos = n, !.bytes = r]
    BY <1>1, <1>3, <1>5, <2>1, ViewMoved
  <2>3. View(channel).bytes = b
    BY DEF View
  <2> QED
    BY <2>1, <2>2, <2>3
<1>8. File!Seek(n)
  BY <1>2, <1>6, <1>7 DEF File!Seek, File!Said, Said, Handle, View, Bytes
<1> QED
  BY <1>1, <1>2, <1>3, <1>8, HandleMoves

LEMMA TruncateIsTruncate ==
  ASSUME SoundInv, ZeroInv, "hole" \notin Careless, "shrink" \notin Careless,
         NEW n \in 0..MaxLength, Truncate(n)
  PROVE  FileStep
<1>1. IsOpen /\ Fits(channel) /\ n \in Nat /\ reading = FALSE
  BY OpenFits DEF Truncate, SoundInv, TypeOK
<1>2. Said(<<>>, FALSE) /\ UNCHANGED <<stored, reading>>
  BY DEF Truncate
<1>3. /\ Fits(channel') /\ channel'.pathObj = channel.pathObj /\ channel'.currentSize = n
      /\ channel'.currentOffset = IF channel.currentOffset > n THEN n ELSE channel.currentOffset
      /\ \A k \in 1..n :
           channel'.buffer[k] = IF k <= channel.currentSize THEN channel.buffer[k] ELSE 0
  BY TruncateStep
<1>4. Bytes(channel') = File!Resized(Bytes(channel), n)
  BY <1>1, <1>3, BytesResized
<1>5. Handle' = View(channel') /\ Handle = View(channel)
  BY <1>1, <1>2, <1>3, HandleIsView, NextHandle
<1>6. View(channel') = [View(channel) EXCEPT !.bytes = File!Resized(@, n),
                          !.pos = IF @ > n THEN n ELSE @]
  <2> DEFINE b == Bytes(channel)
  <2>1. PICK r, p : /\ r = File!Resized(b, n)
                    /\ p = IF channel.currentOffset > n THEN n ELSE channel.currentOffset
    OBVIOUS
  <2>2. View(channel') = [View(channel) EXCEPT !.bytes = r, !.pos = p]
    <3>1. Bytes(channel') = r /\ channel'.currentOffset = p
      BY <1>3, <1>4, <2>1
    <3>2. Fits(channel) /\ Fits(channel') /\ channel'.pathObj = channel.pathObj
      BY <1>1, <1>3
    <3> QED
      BY <3>1, <3>2, ViewMoved
  <2>3. View(channel).bytes = b /\ View(channel).pos = channel.currentOffset
    BY DEF View
  <2> QED
    BY <2>1, <2>2, <2>3
<1>7. File!Truncate(n)
  BY <1>2, <1>5, <1>6 DEF File!Truncate, File!Said, Said, Handle, View, Bytes
<1> QED
  BY <1>1, <1>2, <1>3, <1>7, HandleMoves

LEMMA WriteIsWrite ==
  ASSUME SoundInv, NEW data \in Chunks, Write(data)
  PROVE  FileStep
<1> DEFINE end == channel.currentOffset + Len(data)
           size == IF channel.currentSize < end THEN end ELSE channel.currentSize
           old == Bytes(channel)
<1>1. IsOpen /\ Fits(channel) /\ reading = FALSE /\ data \in Seq(Nat)
  BY OpenFits DEF Write, SoundInv, TypeOK
<1>2. Said(<<>>, FALSE) /\ UNCHANGED <<stored, reading>> /\ channel' = Output(channel, data)
  BY DEF Write
<1>3. /\ Fits(channel') /\ channel'.pathObj = channel.pathObj
      /\ channel'.currentOffset = end /\ channel'.currentSize = size
      /\ \A k \in 1..size :
           channel'.buffer[k] = IF k > channel.currentOffset /\ k <= end
                                THEN data[k - channel.currentOffset] ELSE channel.buffer[k]
  BY SMTT(60), <1>1, <1>2, OutputDone
<1>4. /\ Len(old) = channel.currentSize /\ channel.currentSize \in Nat
      /\ \A k \in 1..channel.currentSize : old[k] = channel.buffer[k]
      /\ channel.currentOffset \in Nat /\ channel.currentOffset <= channel.currentSize
      /\ end \in Nat
  <2>1. /\ channel.currentOffset \in Nat /\ channel.currentOffset <= channel.currentSize
        /\ Len(data) \in Nat
    BY <1>1 DEF Fits, InstData
  <2>2. /\ Len(old) = channel.currentSize /\ channel.currentSize \in Nat
        /\ \A k \in 1..channel.currentSize : old[k] = channel.buffer[k]
    BY <1>1, BytesAre
  <2> QED
    BY <2>1, <2>2
<1>5. size = IF end > Len(old) THEN end ELSE Len(old)
  BY <1>4
<1>6. Bytes(channel') = [k \in 1..size |-> channel'.buffer[k]]
  BY <1>3, BytesAre
<1>7. \A k \in 1..size :
        channel'.buffer[k] = IF k > channel.currentOffset /\ k <= end
                             THEN data[k - channel.currentOffset] ELSE old[k]
  <2> SUFFICES ASSUME NEW k \in 1..size
               PROVE channel'.buffer[k] = IF k > channel.currentOffset /\ k <= end
                             THEN data[k - channel.currentOffset] ELSE old[k]
    OBVIOUS
  <2>1. ~(k > channel.currentOffset /\ k <= end) => k \in 1..channel.currentSize
    BY <1>4
  <2> HIDE DEF end, size, old
  <2> QED
    BY <1>3, <1>4, <2>1
<1>8. Bytes(channel') = File!Overwritten(old, channel.currentOffset, data)
  BY <1>5, <1>6, <1>7 DEF File!Overwritten
<1>9. Handle' = View(channel') /\ Handle = View(channel)
  BY <1>1, <1>2, <1>3, HandleIsView, NextHandle
<1>10. View(channel') = [View(channel) EXCEPT
                           !.bytes = File!Overwritten(@, View(channel).pos, data),
                           !.pos = @ + Len(data)]
  <2>1. PICK r, p : /\ r = File!Overwritten(old, channel.currentOffset, data)
                    /\ p = end
    OBVIOUS
  <2>2. View(channel') = [View(channel) EXCEPT !.bytes = r, !.pos = p]
    BY <1>1, <1>3, <1>8, <2>1, ViewMoved
  <2>3. View(channel).bytes = old /\ View(channel).pos = channel.currentOffset
    BY DEF View
  <2> QED
    BY <2>1, <2>2, <2>3
<1>11. File!Write(data)
  BY <1>2, <1>9, <1>10 DEF File!Write, File!Said, Said, Handle, View, Bytes
<1> QED
  BY <1>1, <1>2, <1>3, <1>11, HandleMoves

LEMMA InputIsRead ==
  ASSUME SoundInv, NEW toRead \in 0..MaxLength, Input(toRead)
  PROVE  FileStep
<1> DEFINE available == channel.currentSize - channel.currentOffset
           n == IF available < toRead THEN available ELSE toRead
           from == channel.currentOffset
           s == Bytes(channel)
           end == IF from + toRead < Len(s) THEN from + toRead ELSE Len(s)
<1>1. IsOpen /\ Fits(channel) /\ reading = FALSE /\ toRead \in Nat /\ Fits(channel')
  <2>1. toRead \in Nat /\ IsOpen
    BY DEF Input
  <2>2. Fits(channel')
    BY <2>1, InputStep
  <2>3. Fits(channel) /\ reading = FALSE
    BY <2>1, OpenFits DEF SoundInv, TypeOK
  <2> QED
    BY <2>1, <2>2, <2>3
<1>2. /\ Said(SubSeq(channel.buffer, from + 1, from + n), FALSE)
      /\ channel' = [channel EXCEPT !.currentOffset = from + n]
      /\ UNCHANGED <<stored, reading>>
  BY DEF Input
<1>3. /\ s \in Seq(Nat) /\ Len(s) = channel.currentSize /\ channel.currentSize \in Nat
      /\ \A k \in 1..channel.currentSize : s[k] = channel.buffer[k]
      /\ from \in Nat /\ from <= channel.currentSize
      /\ channel.buffer \in Seq(Nat) /\ channel.currentSize <= Len(channel.buffer)
      /\ channel \in InstData
  <2>1. /\ from \in Nat /\ from <= channel.currentSize
        /\ channel.buffer \in Seq(Nat) /\ channel.currentSize <= Len(channel.buffer)
        /\ channel \in InstData
    BY <1>1 DEF Fits, InstData
  <2>2. /\ s \in Seq(Nat) /\ Len(s) = channel.currentSize /\ channel.currentSize \in Nat
        /\ \A k \in 1..channel.currentSize : s[k] = channel.buffer[k]
    BY <1>1, BytesAre
  <2> QED
    BY <2>1, <2>2
<1>4. from + n = end /\ end \in Nat /\ from <= end /\ end <= channel.currentSize
  <2>1. PICK a \in Nat, z \in Nat : a = from /\ z = channel.currentSize
    BY <1>3
  <2>2. /\ n = IF z - a < toRead THEN z - a ELSE toRead
        /\ end = IF a + toRead < z THEN a + toRead ELSE z
    BY <1>3, <2>1
  <2>3. a <= z
    BY <1>3, <2>1
  <2> HIDE DEF n, end
  <2>4. a + n = end /\ end \in Nat /\ a <= end /\ end <= z
    BY <1>1, <2>2, <2>3
  <2> QED
    BY <2>1, <2>4
<1>5. SubSeq(channel.buffer, from + 1, end) = SubSeq(s, from + 1, end)
  <2>1. PICK a \in Nat \ {0}, b \in Nat : a = from + 1 /\ b = end
    <3> HIDE DEF end
    <3>1. from + 1 \in Nat \ {0} /\ end \in Nat
      BY <1>3, <1>4
    <3> HIDE DEF from, end
    <3> QED
      BY <3>1
  <2> HIDE DEF end
  <2>2. a <= b + 1 /\ b <= Len(s) /\ b <= Len(channel.buffer) /\ b <= channel.currentSize
    <3>1. b <= channel.currentSize /\ from <= b
      BY <1>4, <2>1
    <3>2. channel.currentSize <= Len(channel.buffer) /\ Len(s) = channel.currentSize
          /\ channel.currentSize \in Nat /\ channel.buffer \in Seq(Nat) /\ from \in Nat
      BY <1>3
    <3> HIDE DEF s
    <3> QED
      BY <2>1, <3>1, <3>2
  <2> HIDE DEF s
  <2>3. /\ SubSeq(channel.buffer, a, b) = [k \in 1..(b - a + 1) |-> channel.buffer[k + a - 1]]
        /\ SubSeq(s, a, b) = [k \in 1..(b - a + 1) |-> s[k + a - 1]]
    BY <1>3, <2>2, PartOf
  <2>4. \A k \in 1..(b - a + 1) : k + a - 1 \in 1..channel.currentSize
    BY <1>3, <2>2
  <2>5. \A k \in 1..(b - a + 1) : channel.buffer[k + a - 1] = s[k + a - 1]
    BY <1>3, <2>4
  <2>6. [k \in 1..(b - a + 1) |-> channel.buffer[k + a - 1]]
          = [k \in 1..(b - a + 1) |-> s[k + a - 1]]
    BY <2>5
  <2> HIDE DEF from, end
  <2> QED
    BY <2>1, <2>3, <2>6
<1>6. View(channel') = [View(channel) EXCEPT !.pos = end]
  <2> HIDE DEF end
  <2>1. /\ channel'.buffer = channel.buffer /\ channel'.currentSize = channel.currentSize
        /\ channel'.pathObj = channel.pathObj /\ channel'.currentOffset = end
    BY <1>2, <1>3, <1>4 DEF InstData
  <2>2. /\ View(channel') = [bytes |-> s, pos |-> end, keeps |-> channel.pathObj]
        /\ View(channel) = [bytes |-> s, pos |-> from, keeps |-> channel.pathObj]
    BY <2>1 DEF View, Bytes
  <2> HIDE DEF s, from
  <2> QED
    BY <2>2
<1>7. Handle' = View(channel') /\ Handle = View(channel)
  BY <1>1, <1>2, HandleIsView, NextHandle
<1>8. Said(SubSeq(s, from + 1, end), FALSE)
  BY <1>2, <1>4, <1>5
<1>9. View(channel).bytes = s /\ View(channel).pos = from
  BY DEF View
<1>10. File!Read(toRead)
  <2>1. Handle.bytes = s /\ Handle.pos = from
    BY <1>7, <1>9
  <2>2. Handle' = [Handle EXCEPT !.pos = end]
    BY <1>6, <1>7
  <2>3. /\ File!Said(SubSeq(Handle.bytes, Handle.pos + 1,
                IF Handle.pos + toRead < Len(Handle.bytes) THEN Handle.pos + toRead
                ELSE Len(Handle.bytes)), FALSE)
        /\ Handle' = [Handle EXCEPT !.pos =
                IF Handle.pos + toRead < Len(Handle.bytes) THEN Handle.pos + toRead
                ELSE Len(Handle.bytes)]
    BY <1>8, <2>1, <2>2 DEF File!Said, Said
  <2> QED
    BY <1>2, <2>3 DEF File!Read, Handle, View, Bytes
<1> QED
  BY <1>1, <1>2, <1>10, HandleMoves

-----------------------------------------------------------------------------
LEMMA CloseIsClose ==
  ASSUME SoundInv, "fatal" \notin Careless, Close
  PROVE  FileStep
<1>1. IsOpen /\ Handle = View(channel) /\ Handle # NULL
      /\ Handle.bytes = Bytes(channel) /\ Handle.keeps = channel.pathObj
      /\ channel.pathObj \in BOOLEAN
  BY HandleIsView, OpenFits DEF Close, Fits, InstData
<1>2. Handle' = NULL
  BY DEF Close, Free, Handle
<1>3. File!Close
  <2>1. CASE ~channel.pathObj
    <3>1. Said(<<>>, FALSE) /\ UNCHANGED stored
      BY <2>1 DEF Close
    <3>2. /\ Handle' = NULL /\ ~Handle.keeps /\ File!Said(<<>>, FALSE) /\ UNCHANGED stored
      BY <1>1, <1>2, <2>1, <3>1 DEF Said, File!Said
    <3> QED
      BY <3>2 DEF File!Close, Handle, View, Bytes
  <2>2. CASE channel.pathObj
    <3>1. PICK locked, added, lost \in BOOLEAN :
            IF locked /\ added
            THEN /\ stored' = SubSeq(channel.buffer, 1, channel.currentSize)
                 /\ Said(<<>>, FALSE)
            ELSE /\ stored' = IF locked /\ lost THEN NULL ELSE stored
                 /\ Said(<<>>, "fatal" \notin Careless \/ ~locked)
      BY <2>2 DEF Close
    <3>2. ("fatal" \notin Careless \/ ~locked) = TRUE
      OBVIOUS
    <3>3. CASE locked /\ added
      <4>1. /\ Handle' = NULL /\ Handle.keeps /\ stored' = Handle.bytes /\ File!Said(<<>>, FALSE)
        BY <1>1, <1>2, <2>2, <3>1, <3>3 DEF Said, File!Said, Bytes
      <4> QED
        BY <4>1 DEF File!Close, Handle, View, Bytes
    <3>4. CASE ~(locked /\ added)
      <4>1. stored' \in {stored, NULL} /\ Said(<<>>, TRUE)
        BY <3>1, <3>2, <3>4
      <4>2. /\ Handle' = NULL /\ Handle.keeps /\ stored' \in {stored, NULL}
            /\ File!Said(<<>>, TRUE)
        BY <1>1, <1>2, <2>2, <4>1 DEF Said, File!Said
      <4> QED
        BY <4>2 DEF File!Close, Handle, View, Bytes
    <3> QED
      BY <3>3, <3>4
  <2> QED
    BY <1>1, <2>1, <2>2
<1> QED
  BY <1>1, <1>3 DEF FileStep, File!Next, Handle, View, Bytes

\* A channel that the program gets: of the stored file, or of an empty one.
LEMMA OpenIsOpen ==
  ASSUME SoundInv, Opened \/ OpenNew
  PROVE  FileStep
<1>1. CASE Opened
  <2>1. /\ channel'.currentSize = Len(stored) /\ stored \in Seq(Nat) /\ stored # NULL
        /\ channel'.currentOffset \in {0, Len(stored)} /\ channel'.pathObj \in BOOLEAN
        /\ Fits(channel') /\ \A k \in 1..Len(stored) : channel'.buffer[k] = stored[k]
    BY <1>1, OpenedStep
  <2>2. reading /\ reading' = FALSE /\ Said(<<>>, FALSE) /\ UNCHANGED stored
    BY <1>1 DEF Opened
  <2>3. PICK c : c = channel' /\ Fits(c)
    BY <2>1
  <2>4. Bytes(c) = stored
    <3>1. Bytes(c) = [k \in 1..Len(stored) |-> c.buffer[k]]
      BY <2>1, <2>3, BytesAre
    <3>2. stored = [k \in 1..Len(stored) |-> stored[k]]
      BY <2>1
    <3> QED
      BY <2>1, <2>3, <3>1, <3>2
  <2>5. Handle = NULL /\ Handle' = View(channel')
    BY <2>1, <2>2, NextHandle DEF Handle
  <2>6. Handle' = [bytes |-> stored, pos |-> c.currentOffset, keeps |-> c.pathObj]
    BY <2>3, <2>4, <2>5 DEF View, Bytes
  <2>7. File!Open(stored, c.currentOffset, c.pathObj)
    BY <2>2, <2>5, <2>6 DEF File!Open, Said, File!Said, Handle, View, Bytes
  <2> QED
    BY <2>1, <2>3, <2>7 DEF FileStep, File!Next
<1>2. CASE OpenNew
  <2>1. /\ Fits(channel') /\ channel'.currentOffset = 0 /\ channel'.currentSize = 0
        /\ channel'.pathObj /\ ~reading' /\ reading' \in BOOLEAN
    BY <1>2, OpenNewStep DEF SoundInv, TypeOK
  <2>2. channel = NULL /\ Said(<<>>, FALSE) /\ UNCHANGED stored
    BY <1>2 DEF OpenNew
  <2>3. PICK c : c = channel' /\ Fits(c)
    BY <2>1
  <2>4. Bytes(c) = <<>>
    BY <2>1, <2>3, BytesAre
  <2>5. Handle = NULL /\ Handle' = View(channel')
    BY <2>1, <2>2, NextHandle DEF Handle
  <2>6. c.pathObj = TRUE
    BY <2>1, <2>3 DEF Fits, InstData
  <2>7. Handle' = [bytes |-> <<>>, pos |-> 0, keeps |-> TRUE]
    BY <2>1, <2>3, <2>4, <2>5, <2>6 DEF View, Bytes
  <2>8. File!Open(<<>>, 0, TRUE)
    BY <2>2, <2>5, <2>7 DEF File!Open, Said, File!Said, Handle, View, Bytes
  <2> QED
    BY <2>8 DEF FileStep, File!Next
<1> QED
  BY <1>1, <1>2

LEMMA OpenFailsAsTold ==
  ASSUME SoundInv, OpenFails
  PROVE  FileStep
<1>1. reading /\ channel' = NULL /\ Said(<<>>, TRUE) /\ UNCHANGED stored
  BY DEF OpenFails, Free
<1>2. Handle = NULL /\ Handle' = NULL
  BY <1>1 DEF Handle
<1>3. File!OpenFails
  BY <1>1, <1>2 DEF File!OpenFails, Said, File!Said, Handle, View, Bytes
<1> QED
  BY <1>3 DEF FileStep, File!Next

\* The other steps are not seen: opening a file, reading its blocks, and events.
LEMMA Unseen ==
  ASSUME SoundInv,
         \/ OpenExisting \/ \E n \in 1..MaxLength : ReadBlock(n)
         \/ SameFile
         \/ channel = NULL /\ UNCHANGED <<stored, channel, reading, answer>>
  PROVE  FileStep
<1>1. Handle' = Handle /\ UNCHANGED <<stored, answer>>
  <2>1. CASE OpenExisting
    BY <2>1 DEF OpenExisting, Handle
  <2>2. CASE \E n \in 1..MaxLength : ReadBlock(n)
    BY <2>2 DEF ReadBlock, Handle
  <2>3. CASE SameFile
    BY <2>3 DEF SameFile, IsOpen, Handle, View, Bytes
  <2>4. CASE channel = NULL /\ UNCHANGED <<stored, channel, reading, answer>>
    BY <2>4 DEF Handle, View, Bytes
  <2> QED
    BY <2>1, <2>2, <2>3, <2>4
<1> QED
  BY <1>1 DEF FileStep, File!absVars, Handle, View, Bytes

-----------------------------------------------------------------------------
\* What a program reads from a channel, and what is stored when it closes it, are
\* the bytes it wrote where it wrote them, with zeros where it skipped (OpenFile),
\* for every size of the units in which the buffer grows: unless it moves the end
\* by whole units so far that they are not cleared ("hole",
\* writerchannelIO.c:96-101 and 138), cuts the file to a length that is no whole
\* number of units ("shrink", :103-116 and 138-144), or the writer refuses the file
\* without a message ("fatal": the close handler then tells nothing, :183-195).
THEOREM BufferIsTheFile ==
  ASSUME "hole" \notin Careless, "shrink" \notin Careless, "fatal" \notin Careless
  PROVE  Spec => BytesAreTheFile
<1>1. Init => SoundInv /\ ZeroInv /\ File!Init
  BY InitInv DEF Init, File!Init
<1>2. SoundInv /\ ZeroInv /\ [Next]_vars => SoundInv' /\ ZeroInv'
  BY StepInv
<1>3. ASSUME SoundInv, ZeroInv, [Next]_vars PROVE FileStep
  <2>1. CASE UNCHANGED vars
    <3>1. Handle' = Handle /\ UNCHANGED <<stored, answer>>
      BY <2>1 DEF vars, Handle, View, Bytes
    <3> QED
      BY <3>1 DEF FileStep, File!absVars, Handle, View, Bytes
  <2>2. CASE OpenExisting \/ \E n \in 1..MaxLength : ReadBlock(n)
    BY <1>3, <2>2, Unseen
  <2>3. CASE Opened \/ OpenNew
    BY <1>3, <2>3, OpenIsOpen
  <2>4. CASE OpenFails
    BY <1>3, <2>4, OpenFailsAsTold
  <2>5. CASE Close
    BY <1>3, <2>5, CloseIsClose
  <2>6. CASE \E n \in 0..MaxLength : Input(n) \/ WideSeek(n) \/ Truncate(n)
    BY <1>3, <2>6, InputIsRead, SeekIsSeek, TruncateIsTruncate
  <2>7. CASE \E data \in Chunks : Write(data)
    BY <1>3, <2>7, WriteIsWrite
  <2>8. CASE (\E mask \in BOOLEAN : Watch(mask)) \/ ThreadAction
    BY <1>3, <2>8, WatchStep, Unseen
  <2>9. CASE Ready
    BY <1>3, <2>9, ReadyStep, Unseen
  <2> QED
    BY <1>3, <2>1, <2>2, <2>3, <2>4, <2>5, <2>6, <2>7, <2>8, <2>9 DEF Next
<1> QED
  BY <1>1, <1>2, <1>3, PTL DEF Spec, BytesAreTheFile, File!Spec, FileStep
=============================================================================
