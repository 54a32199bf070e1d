--------------------------- MODULE WriterChannel ---------------------------
(***************************************************************************)
(* generic/writerchannel.c and writerchannelIO.c: a file of the archive    *)
(* that is written, or one whose content is not in pages yet and is read,  *)
(* is held as a whole in one growing buffer.  Opening reads the file into  *)
(* the buffer, block by block, closing hands it to the writer.  Between    *)
(* them the program reads, writes, seeks and truncates in any order, and   *)
(* the event loop may hold an event for the channel, which may be closed   *)
(* or handed to another thread before the event is served.                 *)
(*                                                                         *)
(* Bytes are numbers; what ckalloc or ckrealloc returns without setting it *)
(* is Junk.  One channel is open at a time: channels share nothing but the *)
(* objects of module MountLife and the entries of module Driver.  Memory   *)
(* does not run out (ckalloc panics).                                      *)
(***************************************************************************)
EXTENDS Integers, Sequences, FiniteSets

CONSTANTS
  Chunks,    \* what a program writes at once: sequences of bytes
  MaxLength, \* the positions and lengths it asks for are at most this
  KIB, MIB,  \* 1024 and 131072: the units in which the buffer grows
  MaxEvents, \* bound: events in the queue of the thread
  Careless,  \* calls that leave or touch what they should not: see Tame
  NULL

ASSUME UnitsAssumption == KIB \in Nat \ {0} /\ MIB \in Nat /\ KIB <= MIB

\* A channel, and how OpenFile sees it
InstData == [buffer : Seq(Nat), currentOffset : Nat, currentSize : Nat,
             pathObj : BOOLEAN, interest : BOOLEAN, event : BOOLEAN]
Handles == [bytes : Seq(Nat), pos : Nat, keeps : BOOLEAN]

ASSUME ChannelAssumption ==
  /\ MaxLength \in Nat /\ MaxEvents \in Nat
  /\ Chunks \subseteq Seq(Nat)
  /\ NULL \notin InstData /\ NULL \notin Handles /\ NULL \notin {"open", "freed"}

VARIABLES
  stored,  \* the bytes of the stored file, or NULL
  channel, \* Cookfs_WriterChannelInstData, or NULL when no channel is open
  reading, \* Cookfs_CreateWriterchannel reads the file into the channel
  wild,    \* memset has written behind the end of the buffer
  queue,   \* the events for channels: "open", "freed" or NULL for the instData of each
  answer   \* as in OpenFile

vars == <<stored, channel, reading, wild, queue, answer>>

Junk == 2

File == INSTANCE OpenFile WITH
  file <- stored,
  handle <- IF channel = NULL \/ reading THEN NULL
            ELSE [bytes |-> SubSeq(channel.buffer, 1, channel.currentSize),
                  pos |-> channel.currentOffset,
                  keeps |-> channel.pathObj]

Said(bytes, failed) == answer' = [bytes |-> bytes, failed |-> failed]

-----------------------------------------------------------------------------
(* The buffer.                                                             *)

RoundUp(n) == ((n + KIB - 1) \div KIB) * KIB

\* The places of a buffer that grew: cleared behind the wanted size, or, for
\* a caller that does not fill what it asked for, all of them, except when
\* the size came out as it was asked for.
Grown(buffer, wanted, clear) ==
  LET diff == wanted - Len(buffer)
      diffActual == IF diff < KIB THEN KIB ELSE IF diff < MIB THEN MIB ELSE RoundUp(diff)
  IN [k \in 1..(Len(buffer) + diffActual) |->
        IF k <= Len(buffer) THEN buffer[k]
        ELSE IF IF clear THEN diffActual # diff ELSE k > wanted THEN 0
        ELSE Junk]

\* A buffer that shrinks is cleared from where it ended before, by as many
\* places as the rounding added.
Shrunk(buffer, wanted) ==
  LET size == RoundUp(wanted)
  IN [k \in 1..size |->
        IF k <= Len(buffer) THEN buffer[k]
        ELSE IF k <= Len(buffer) + size - wanted THEN 0
        ELSE Junk]

Realloc(buffer, wanted, clear) ==
  CASE wanted = 0 -> <<>>
    [] wanted > Len(buffer) -> Grown(buffer, wanted, clear)
    [] wanted \in 1..(Len(buffer) - 1) -> Shrunk(buffer, wanted)
    [] wanted = Len(buffer) -> buffer

ClearsBehind(buffer, wanted) ==
  wanted \in 1..(Len(buffer) - 1) /\ wanted < RoundUp(wanted)

\* The calls in which the buffer is cleared as it should: not a move of the
\* end by a whole number of units and at least MIB, and not a cut to a length
\* that is no whole number of units.
Tame(buffer, wanted) ==
  /\ \/ "hole" \in Careless
     \/ wanted - Len(buffer) < MIB
     \/ (wanted - Len(buffer)) % KIB # 0
  /\ "shrink" \in Careless \/ ~ClearsBehind(buffer, wanted)

\* Mutant: every write sets the size to where it ends.
OutputSetsSize(c, data) ==
  LET endOffset == c.currentOffset + Len(data)
      buffer == IF endOffset > Len(c.buffer) THEN Realloc(c.buffer, endOffset, FALSE)
                ELSE c.buffer
  IN [c EXCEPT !.buffer = [k \in DOMAIN buffer |->
                             IF k \in (c.currentOffset + 1)..endOffset
                             THEN data[k - c.currentOffset] ELSE buffer[k]],
               !.currentOffset = endOffset,
               !.currentSize = endOffset]

Output(c, data) ==
  LET endOffset == c.currentOffset + Len(data)
      buffer == IF endOffset > Len(c.buffer) THEN Realloc(c.buffer, endOffset, FALSE)
                ELSE c.buffer
  IN [c EXCEPT !.buffer = [k \in DOMAIN buffer |->
                             IF k \in (c.currentOffset + 1)..endOffset
                             THEN data[k - c.currentOffset] ELSE buffer[k]],
               !.currentOffset = endOffset,
               !.currentSize = IF @ < endOffset THEN endOffset ELSE @]

-----------------------------------------------------------------------------
(* Opening and closing.                                                    *)

Alloc(initialBufferSize, pathObj) ==
  [buffer |-> [k \in 1..initialBufferSize |-> Junk],
   currentOffset |-> 0, currentSize |-> 0, pathObj |-> pathObj,
   interest |-> FALSE, event |-> FALSE]

\* Opening a file that is there: to read it while it is pending, or to change it.
OpenExisting ==
  /\ channel = NULL /\ stored # NULL
  /\ \E pathObj \in BOOLEAN : channel' = Alloc(Len(stored), pathObj)
  /\ reading' = TRUE
  /\ UNCHANGED <<stored, wild, queue, answer>>

\* The next block, of n bytes, is put into the buffer, as the program would write it.
ReadBlock(n) ==
  /\ reading /\ channel.currentOffset + n <= Len(stored)
  /\ channel' = Output(channel, SubSeq(stored, channel.currentOffset + 1,
                                              channel.currentOffset + n))
  /\ UNCHANGED <<stored, reading, wild, queue, answer>>

\* All blocks are read.  A file that is only written is opened at its end.
Opened ==
  /\ reading /\ channel.currentOffset = Len(stored)
  /\ \E atEnd \in BOOLEAN :
       /\ atEnd => channel.pathObj
       /\ channel' = [channel EXCEPT !.currentOffset = IF atEnd THEN channel.currentSize ELSE 0]
  /\ reading' = FALSE
  /\ Said(<<>>, FALSE)
  /\ UNCHANGED <<stored, wild, queue>>

\* Opening a new file, or one that is to be written from scratch.
OpenNew ==
  /\ channel = NULL
  /\ channel' = Alloc(0, TRUE)
  /\ Said(<<>>, FALSE)
  /\ UNCHANGED <<stored, reading, wild, queue>>

Forgotten(q, as) == [k \in DOMAIN q |-> IF q[k] = "open" THEN as ELSE q[k]]

\* Cookfs_CreateWriterchannelFree: the event the channel knows of forgets it.
Free ==
  /\ channel' = NULL
  /\ queue' = Forgotten(queue, IF channel.event THEN NULL ELSE "freed")

\* A block cannot be read: the channel is closed again, without its path, so
\* that the close handler stores nothing.
OpenFails ==
  /\ reading
  /\ Free
  /\ reading' = FALSE
  /\ Said(<<>>, TRUE)
  /\ UNCHANGED <<stored, wild>>

\* The program has the channel.
IsOpen == channel # NULL /\ ~reading

\* The close handler hands the buffer to the writer, which keeps it, refuses
\* it or loses the file (FileStore); then the channel is freed.
Close ==
  /\ IsOpen
  /\ Free
  /\ IF ~channel.pathObj
     THEN Said(<<>>, FALSE) /\ UNCHANGED stored
     ELSE \E locked, added, lost \in BOOLEAN :
            IF locked /\ added
            THEN /\ stored' = SubSeq(channel.buffer, 1, channel.currentSize)
                 /\ Said(<<>>, FALSE)
            ELSE /\ stored' = IF locked /\ lost THEN NULL ELSE stored
                 /\ Said(<<>>, "fatal" \notin Careless \/ ~locked)
  /\ UNCHANGED <<reading, wild>>

-----------------------------------------------------------------------------
(* Reading, writing, moving.                                               *)

Input(toRead) ==
  /\ IsOpen
  /\ LET available == channel.currentSize - channel.currentOffset
         n == IF available < toRead THEN available ELSE toRead
     IN /\ Said(SubSeq(channel.buffer, channel.currentOffset + 1, channel.currentOffset + n),
                FALSE)
        /\ channel' = [channel EXCEPT !.currentOffset = @ + n]
  /\ UNCHANGED <<stored, reading, wild, queue>>

Write(data) ==
  /\ IsOpen
  /\ channel.currentOffset + Len(data) <= MaxLength
  /\ channel' = Output(channel, data)
  /\ Said(<<>>, FALSE)
  /\ UNCHANGED <<stored, reading, wild, queue>>

\* Seeking behind the end makes the file longer at once.
WideSeek(offset) ==
  /\ IsOpen
  /\ Tame(channel.buffer, offset) \/ offset <= Len(channel.buffer)
  /\ channel' =
       [channel EXCEPT
          !.buffer = IF offset > Len(@) THEN Realloc(@, offset, TRUE) ELSE @,
          !.currentSize = IF @ < offset THEN offset ELSE @,
          !.currentOffset = offset]
  /\ Said(<<>>, FALSE)
  /\ UNCHANGED <<stored, reading, wild, queue>>

\* Mutant: the position stays where it was when the file gets shorter.
TruncateKeepsOffset(length) ==
  /\ IsOpen
  /\ Tame(channel.buffer, length)
  /\ wild' = (wild \/ ClearsBehind(channel.buffer, length))
  /\ channel' =
       [channel EXCEPT
          !.buffer = Realloc(@, length, length > Len(@)),
          !.currentSize = length]
  /\ Said(<<>>, FALSE)
  /\ UNCHANGED <<stored, reading, queue>>

Truncate(length) ==
  /\ IsOpen
  /\ Tame(channel.buffer, length)
  /\ wild' = (wild \/ ClearsBehind(channel.buffer, length))
  /\ channel' =
       [channel EXCEPT
          !.buffer = Realloc(@, length, length > Len(@)),
          !.currentOffset = IF @ > length THEN length ELSE @,
          !.currentSize = length]
  /\ Said(<<>>, FALSE)
  /\ UNCHANGED <<stored, reading, queue>>

-----------------------------------------------------------------------------
(* Events.                                                                 *)

Watched(c, q, mask) ==
  IF mask
  THEN /\ channel' = [c EXCEPT !.interest = TRUE, !.event = TRUE]
       /\ queue' = IF c.event THEN q ELSE Append(q, "open")
  ELSE /\ channel' = [c EXCEPT !.interest = FALSE, !.event = FALSE]
       /\ queue' = IF c.event THEN Forgotten(q, NULL) ELSE q

\* The program asks for events, or asks for none any more.
Watch(mask) ==
  /\ IsOpen /\ Len(queue) < MaxEvents
  /\ Watched(channel, queue, mask)
  /\ UNCHANGED <<stored, reading, wild, answer>>

\* Cookfs_Writerchannel_Ready serves the first event.  Tcl_NotifyChannel runs
\* the program's handler and then calls Watch with what the program wants now.
Ready ==
  /\ ~reading /\ queue # <<>>
  /\ IF Head(queue) # "open"
     THEN queue' = Tail(queue) /\ UNCHANGED channel
     ELSE LET c == [channel EXCEPT !.event = FALSE]
          IN IF c.interest
             THEN \E mask \in BOOLEAN : Watched(c, Tail(queue), mask)
             ELSE channel' = c /\ queue' = Tail(queue)
  /\ UNCHANGED <<stored, reading, wild, answer>>

\* The channel is taken out of its thread.
ThreadAction ==
  /\ IsOpen
  /\ channel' = [channel EXCEPT !.interest = FALSE, !.event = FALSE]
  /\ queue' = IF channel.event THEN Forgotten(queue, NULL) ELSE queue
  /\ UNCHANGED <<stored, reading, wild, answer>>

-----------------------------------------------------------------------------
Init ==
  /\ stored = NULL /\ channel = NULL /\ reading = FALSE
  /\ wild = FALSE /\ queue = <<>>
  /\ answer = [bytes |-> <<>>, failed |-> FALSE]

Next ==
  \/ OpenExisting \/ Opened \/ OpenFails \/ OpenNew \/ Close
  \/ \E n \in 1..MaxLength : ReadBlock(n)
  \/ \E n \in 0..MaxLength : Input(n) \/ WideSeek(n) \/ Truncate(n)
  \/ \E data \in Chunks : Write(data)
  \/ \E mask \in BOOLEAN : Watch(mask)
  \/ Ready \/ ThreadAction

Spec == Init /\ [][Next]_vars

-----------------------------------------------------------------------------
(* Properties.                                                             *)

\* The variables have these types.
TypeOK ==
  /\ stored = NULL \/ (stored \in Seq(Nat) /\ Len(stored) <= MaxLength)
  /\ channel = NULL \/ (channel \in InstData /\ channel.currentSize <= MaxLength)
  /\ reading \in BOOLEAN /\ wild \in BOOLEAN
  /\ queue \in Seq({"open", "freed", NULL})
  /\ answer \in [bytes : Seq(Nat), failed : BOOLEAN]

\* What the program reads, and what is stored when it closes the channel, is
\* what it wrote where it wrote it, with zeros in the places it skipped,
\* however the buffer was resized, and memory behind the buffer is not
\* touched (writerchannelIO.c:64-150, 241-369, 463-491).
BytesAreTheFile == File!Spec

\* The channel stands and ends inside its buffer, and nothing is cleared
\* behind it (writerchannelIO.c:130-150, 262, 299).
StaysInBuffer ==
  /\ ~wild
  /\ channel # NULL =>
       /\ channel.currentOffset <= channel.currentSize
       /\ channel.currentSize <= Len(channel.buffer)

\* An event in the queue never leads to a channel that was freed, and while
\* the program waits for events exactly one is on its way
\* (writerchannelIO.c:379-461, writerchannel.c:101-104).
EventsReachTheChannel ==
  LET mine == {k \in DOMAIN queue : queue[k] = "open"}
  IN /\ \A k \in DOMAIN queue : queue[k] # "freed"
     /\ IF channel = NULL THEN mine = {}
        ELSE /\ channel.interest => channel.event
             /\ Cardinality(mine) = IF channel.event THEN 1 ELSE 0

\* A channel, its buffer and its events fit each other from the first write to
\* the last event.
ChannelSound == TypeOK /\ StaysInBuffer /\ EventsReachTheChannel
=============================================================================
