------------------------- MODULE ShmBroadcastProofs -------------------------
(***************************************************************************)
(* Proof that writer and readers of the shared-memory ring exclude each    *)
(* other, and that ring and sockets implement the broadcast queue (safety),*)
(* for any number of readers, chunks and messages.                         *)
(***************************************************************************)
EXTENDS ShmBroadcast, SequenceTheorems, FiniteSetTheorems, TLAPS

WriterStates ==
  [pc : WriterPcs, idx : Chunks, obj : 0 .. MaxMessages, size : Sizes, reset : 0 .. NumLocal]
ReaderStates ==
  [pc : LocalPcs, idx : Chunks, flag : BOOLEAN, overflow : BOOLEAN, obj : Objects \cup {Torn}]

ReadingPcs == {"overflow", "payload", "mark"}

\* TypeOK with the contents of the sockets.
Shapes ==
  /\ written \in [Chunks -> BOOLEAN]
  /\ readFlag \in [Chunks -> [Local -> BOOLEAN]]
  /\ data \in [Chunks -> [overflow : BOOLEAN, obj : Objects \cup {Torn}]]
  /\ sock \in [Readers -> Seq(0 .. MaxMessages \cup {READY})]
  /\ \A r \in Readers : Len(sock[r]) <= HighWater
  /\ subscribed \subseteq Readers
  /\ writer \in WriterStates
  /\ reader \in [Readers -> ReaderStates]
  /\ published \in 0 .. MaxMessages

\* A reader on another node never touches the ring.
RemoteOutside == \A r \in Remote : reader[r].pc \in {"connect", "ready", "recv"}

\* The object being written is the one after the last published.
OneAhead ==
  writer.obj = published + IF writer.pc \in {"acquire"} \cup WritingPcs THEN 1 ELSE 0

\* Inside acquire_write the chunk does not count as written.
WriterHolds == writer.pc \in WritingPcs => ~ written[writer.idx]

\* A reader that found its own flag down, and one inside acquire_read: only the
\* reader itself raises the flag, so it stays down, and the writer can take a
\* written chunk only over raised flags.
ReaderHolds ==
  \A r \in Local :
    LET c == reader[r].idx
    IN /\ reader[r].pc = "written" /\ ~ reader[r].flag => ~ readFlag[c][r]
       /\ reader[r].pc \in ReadingPcs => written[c] /\ ~ readFlag[c][r]

IInv == Shapes /\ RemoteOutside /\ OneAhead /\ WriterHolds /\ ReaderHolds

-----------------------------------------------------------------------------
\* Facts about the constants.
LEMMA Constants ==
  /\ 0 \in Chunks
  /\ \A c \in Chunks : NextChunk(c) \in Chunks
  /\ MaxChunkBytes \in Sizes /\ Sizes \subseteq Nat
  /\ NumLocal \in Nat \ {0} /\ MaxMessages \in Nat \ {0} /\ HighWater \in Nat
  /\ \A i \in 0 .. NumLocal : i < NumLocal => i + 1 \in Local /\ i + 1 \in 0 .. NumLocal
  /\ 0 \in 0 .. NumLocal
  /\ \A r \in Remote : r \notin Local
  /\ Local \subseteq Readers /\ Remote \subseteq Readers
<1>1. MaxChunks \in Nat \ {0} /\ MaxChunkBytes \in Nat \ {0} /\ NumLocal \in Nat \ {0} /\ MaxMessages \in Nat \ {0}
  BY ShmAssumption
<1>2. \A c \in Chunks : NextChunk(c) \in Chunks
  BY <1>1 DEF Chunks, NextChunk
<1> QED
  BY <1>1, <1>2, ShmAssumption DEF Chunks, Sizes, Local, Readers

\* A send changes no queue of another group and keeps the high-water mark.
LEMMA PublishQueues ==
  ASSUME Shapes, NEW G, NEW m \in 0 .. MaxMessages \cup {READY}, Publish(G, m)
  PROVE  /\ sock' \in [Readers -> Seq(0 .. MaxMessages \cup {READY})]
         /\ \A r \in Readers : Len(sock'[r]) <= HighWater
<1>1. ASSUME NEW r \in Readers
      PROVE  /\ sock'[r] \in Seq(0 .. MaxMessages \cup {READY})
             /\ Len(sock'[r]) <= HighWater
  <2> DEFINE S == 0 .. MaxMessages \cup {READY}
  <2>0. HighWater \in Nat
    BY Constants
  <2>1. sock[r] \in Seq(S) /\ m \in S /\ Len(sock[r]) <= HighWater
    BY DEF Shapes
  <2>2. sock'[r] = IF r \in G \cap subscribed /\ Len(sock[r]) < HighWater
                   THEN Append(sock[r], m) ELSE sock[r]
    BY DEF Publish
  <2>3. Append(sock[r], m) \in Seq(S) /\ Len(Append(sock[r], m)) = Len(sock[r]) + 1
    BY <2>1, AppendProperties
  <2> HIDE DEF S
  <2>4. Len(sock[r]) \in Nat
    BY <2>1, LenProperties
  <2> QED
    BY <2>0, <2>1, <2>2, <2>3, <2>4 DEF S
<1>2. sock' = [r \in Readers |-> sock'[r]]
  BY DEF Publish
<1> QED
  BY <1>1, <1>2

-----------------------------------------------------------------------------
\* The initial state satisfies the invariant.
LEMMA InitIInv == Init => IInv
<1> SUFFICES ASSUME Init PROVE IInv
  OBVIOUS
<1> USE Constants DEF Init
<1>1. Shapes
  <2>1. writer \in WriterStates
    BY DEF WriterStates, WriterPcs
  <2>2. reader \in [Readers -> ReaderStates]
    BY DEF ReaderStates, LocalPcs
  <2>3. sock \in [Readers -> Seq(0 .. MaxMessages \cup {READY})] /\ \A r \in Readers : Len(sock[r]) <= HighWater
    BY EmptySeq
  <2>4. /\ written \in [Chunks -> BOOLEAN]
        /\ readFlag \in [Chunks -> [Local -> BOOLEAN]]
        /\ data \in [Chunks -> [overflow : BOOLEAN, obj : Objects \cup {Torn}]]
    OBVIOUS
  <2>5. subscribed \subseteq Readers /\ published \in 0 .. MaxMessages
    OBVIOUS
  <2> QED
    BY <2>1, <2>2, <2>3, <2>4, <2>5 DEF Shapes
<1>2. RemoteOutside /\ ReaderHolds
  BY DEF RemoteOutside, ReaderHolds, ReadingPcs
<1>3. OneAhead /\ WriterHolds
  BY DEF OneAhead, WriterHolds, WritingPcs
<1> QED
  BY <1>1, <1>2, <1>3 DEF IInv

\* The writer.
LEMMA GreetIInv ==
  ASSUME IInv, GreetLocal \/ GreetRemote
  PROVE  IInv'
<1> USE DEF IInv, GreetLocal, GreetRemote, ring
<1>1. writer' \in WriterStates
  BY DEF Shapes, WriterStates, WriterPcs
<1>2. Shapes'
  BY <1>1, PublishQueues DEF Shapes
<1>3. RemoteOutside' /\ ReaderHolds'
  BY DEF RemoteOutside, ReaderHolds
<1>4. OneAhead' /\ WriterHolds'
  BY DEF OneAhead, WriterHolds, WritingPcs, Shapes, WriterStates
<1> QED
  BY <1>2, <1>3, <1>4

LEMMA EnqueueIInv ==
  ASSUME IInv, NEW size \in Sizes, Enqueue(size)
  PROVE  IInv'
<1> USE DEF IInv, Enqueue, ring
<1>1. writer' \in WriterStates
  <2>1. writer \in WriterStates /\ writer.obj + 1 \in 0 .. MaxMessages
    BY Constants DEF Shapes, WriterStates
  <2> QED
    BY <2>1 DEF WriterStates, WriterPcs
<1>2. Shapes'
  BY <1>1 DEF Shapes
<1>3. RemoteOutside' /\ ReaderHolds'
  BY DEF RemoteOutside, ReaderHolds
<1>4. OneAhead' /\ WriterHolds'
  BY DEF OneAhead, WriterHolds, WritingPcs, Shapes, WriterStates
<1> QED
  BY <1>2, <1>3, <1>4

LEMMA AcquireWriteIInv ==
  ASSUME IInv, AcquireWrite
  PROVE  IInv'
<1> USE DEF IInv, AcquireWrite
<1>0. writer \in WriterStates /\ writer.idx \in Chunks
  BY DEF Shapes, WriterStates
<1>1. writer' \in WriterStates
  BY <1>0 DEF WriterStates, WriterPcs
<1>2. Shapes'
  BY <1>1 DEF Shapes
<1>3. RemoteOutside'
  BY DEF RemoteOutside
<1>4. OneAhead' /\ WriterHolds'
  BY <1>0 DEF OneAhead, WriterHolds, WritingPcs, Shapes, WriterStates
<1>5. ReaderHolds'
  BY <1>0 DEF ReaderHolds, Writable, Shapes
<1> QED
  BY <1>2, <1>3, <1>4, <1>5

LEMMA WriteIInv ==
  ASSUME IInv, WriteOverflow \/ WritePayload
  PROVE  IInv'
<1> USE DEF IInv, WriteOverflow, WritePayload
<1>0. writer \in WriterStates /\ writer.idx \in Chunks /\ writer.size \in Nat
  BY Constants DEF Shapes, WriterStates
<1>1. writer' \in WriterStates
  BY <1>0, Constants DEF WriterStates, WriterPcs
<1>2. data' \in [Chunks -> [overflow : BOOLEAN, obj : Objects \cup {Torn}]]
  <2>1. CASE WriteOverflow
    <3>1. Big(writer.size) \in BOOLEAN
      BY DEF Big
    <3> QED
      BY <1>0, <2>1, <3>1 DEF Shapes
  <2>2. CASE WritePayload
    <3>1. writer.obj \in Objects
      BY <2>2, Constants DEF OneAhead, WritingPcs, Shapes, WriterStates, Objects
    <3> QED
      BY <1>0, <2>2, <3>1 DEF Shapes
  <2> QED
    BY <2>1, <2>2
<1>3. Shapes'
  BY <1>1, <1>2 DEF Shapes
<1>4. RemoteOutside' /\ ReaderHolds'
  BY DEF RemoteOutside, ReaderHolds
<1>5. OneAhead' /\ WriterHolds'
  BY <1>0 DEF OneAhead, WriterHolds, WritingPcs, WriterStates
<1> QED
  BY <1>3, <1>4, <1>5

LEMMA ResetFlagIInv ==
  ASSUME IInv, ResetFlag
  PROVE  IInv'
<1> USE DEF IInv, ResetFlag, ResetCount
<1>0. writer \in WriterStates /\ writer.idx \in Chunks /\ writer.reset \in 0 .. NumLocal
  BY DEF Shapes, WriterStates
<1>1. writer.reset + 1 \in Local /\ writer.reset + 1 \in 0 .. NumLocal
  BY <1>0, Constants
<1>2. writer' \in WriterStates
  BY <1>0, <1>1 DEF WriterStates, WriterPcs
<1>3. Shapes'
  BY <1>0, <1>1, <1>2 DEF Shapes
<1>4. RemoteOutside'
  BY DEF RemoteOutside
<1>5. OneAhead' /\ WriterHolds'
  BY <1>0 DEF OneAhead, WriterHolds, WritingPcs, WriterStates
<1>6. ReaderHolds'
  BY <1>0, <1>1 DEF ReaderHolds, Shapes
<1> QED
  BY <1>3, <1>4, <1>5, <1>6

LEMMA CommitIInv ==
  ASSUME IInv, Commit
  PROVE  IInv'
<1> USE DEF IInv, Commit
<1>0. writer \in WriterStates /\ writer.idx \in Chunks /\ NextChunk(writer.idx) \in Chunks
  BY Constants DEF Shapes, WriterStates
<1>1. writer' \in WriterStates
  BY <1>0 DEF WriterStates, WriterPcs
<1>2. published' \in 0 .. MaxMessages
  BY <1>0, Constants DEF OneAhead, WritingPcs, WriterStates, Shapes
<1>3. Shapes'
  BY <1>0, <1>1, <1>2 DEF Shapes
<1>4. RemoteOutside'
  BY DEF RemoteOutside
<1>5. OneAhead' /\ WriterHolds'
  BY <1>0, <1>2 DEF OneAhead, WriterHolds, WritingPcs, WriterStates, Shapes
<1>6. ReaderHolds'
  BY <1>0 DEF ReaderHolds, Shapes
<1> QED
  BY <1>3, <1>4, <1>5, <1>6

LEMMA SendIInv ==
  ASSUME IInv, SendLocal \/ SendRemote
  PROVE  IInv'
<1> USE DEF IInv, SendLocal, SendRemote, ring
<1>0. writer \in WriterStates /\ writer.obj \in 0 .. MaxMessages
  BY DEF Shapes, WriterStates
<1>1. writer' \in WriterStates
  BY <1>0 DEF WriterStates, WriterPcs
<1>2. Shapes'
  BY <1>0, <1>1, PublishQueues DEF Shapes
<1>3. RemoteOutside' /\ ReaderHolds'
  BY DEF RemoteOutside, ReaderHolds
<1>4. OneAhead' /\ WriterHolds'
  BY <1>0 DEF OneAhead, WriterHolds, WritingPcs, WriterStates
<1> QED
  BY <1>2, <1>3, <1>4

\* The readers.
LEMMA SocketIInv ==
  ASSUME IInv, NEW r \in Readers, Connect(r) \/ AwaitReady(r) \/ Receive(r)
  PROVE  IInv'
<1> USE DEF IInv, Connect, AwaitReady, Receive, ring
<1>0. reader[r] \in ReaderStates
  BY DEF Shapes
<1>1. PICK pc \in {"ready", "flag", "recv"} :
        reader' = [reader EXCEPT ![r].pc = pc] /\ (r \in Remote => pc \in {"ready", "recv"})
  BY Constants
<1>a. reader' \in [Readers -> ReaderStates]
  <2>1. [reader[r] EXCEPT !.pc = pc] \in ReaderStates
    BY <1>0 DEF ReaderStates, LocalPcs
  <2>2. reader' = [reader EXCEPT ![r] = [reader[r] EXCEPT !.pc = pc]]
    BY <1>1
  <2> QED
    BY <2>1, <2>2 DEF Shapes
<1>b. reader'[r].pc = pc /\ \A q \in Readers : q # r => reader'[q] = reader[q]
  BY <1>0, <1>1 DEF Shapes, ReaderStates
<1>2. /\ sock' \in [Readers -> Seq(0 .. MaxMessages \cup {READY})]
      /\ \A q \in Readers : Len(sock'[q]) <= HighWater
  <2>1. CASE UNCHANGED sock
    BY <2>1 DEF Shapes
  <2>2. CASE sock[r] # << >> /\ sock' = [sock EXCEPT ![r] = Tail(@)]
    <3> DEFINE S == 0 .. MaxMessages \cup {READY}
    <3>1. Tail(sock[r]) \in Seq(S) /\ Len(Tail(sock[r])) = Len(sock[r]) - 1
      BY <2>2, HeadTailProperties DEF Shapes
    <3>2. Len(sock[r]) \in Nat /\ Len(sock[r]) <= HighWater /\ HighWater \in Nat
      BY Constants, LenProperties DEF Shapes
    <3> HIDE DEF S
    <3>3. Len(Tail(sock[r])) <= HighWater
      BY <3>1, <3>2
    <3> QED
      BY <2>2, <3>1, <3>3 DEF Shapes, S
  <2> QED
    BY <2>1, <2>2
<1>3. Shapes'
  BY <1>a, <1>2 DEF Shapes
<1>4. RemoteOutside'
  BY <1>1, <1>b, Constants DEF RemoteOutside
<1>6. ReaderHolds'
  BY <1>1, <1>b, Constants DEF ReaderHolds, ReadingPcs
<1>5. OneAhead' /\ WriterHolds'
  BY DEF OneAhead, WriterHolds
<1> QED
  BY <1>3, <1>4, <1>5, <1>6

LEMMA LoadIInv ==
  ASSUME IInv, NEW r \in Readers, LoadReadFlag(r) \/ LoadWrittenFlag(r)
  PROVE  IInv'
<1> USE DEF IInv, LoadReadFlag, LoadWrittenFlag, ring
<1>0. r \in Local
  BY DEF RemoteOutside, Readers
<1>1. reader[r] \in ReaderStates /\ reader[r].idx \in Chunks /\ readFlag[reader[r].idx][r] \in BOOLEAN
  BY <1>0 DEF Shapes, ReaderStates
<1>2. reader' \in [Readers -> ReaderStates]
  <2>1. CASE LoadReadFlag(r)
    BY <1>1, <2>1 DEF Shapes, ReaderStates, LocalPcs
  <2>2. CASE LoadWrittenFlag(r)
    BY <1>1, <2>2 DEF Shapes, ReaderStates, LocalPcs
  <2> QED
    BY <2>1, <2>2
<1>3. Shapes'
  BY <1>2 DEF Shapes
<1>4. RemoteOutside'
  BY <1>0, Constants DEF RemoteOutside, Shapes
<1>5. ReaderHolds'
  <2>0. ASSUME NEW q \in Local, q # r
        PROVE  reader'[q] = reader[q]
    BY <2>0, Constants DEF Shapes
  <2>1. CASE LoadReadFlag(r)
    BY <1>0, <1>1, <2>0, <2>1, Constants DEF ReaderHolds, Shapes, ReaderStates, ReadingPcs
  <2>2. CASE LoadWrittenFlag(r)
    BY <1>0, <1>1, <2>0, <2>2, Constants DEF ReaderHolds, Shapes, ReaderStates, ReadingPcs
  <2> QED
    BY <2>1, <2>2
<1>6. OneAhead' /\ WriterHolds'
  BY DEF OneAhead, WriterHolds
<1> QED
  BY <1>3, <1>4, <1>5, <1>6

LEMMA ReadIInv ==
  ASSUME IInv, NEW r \in Readers, ReadOverflow(r) \/ ReadPayload(r)
  PROVE  IInv'
<1> USE DEF IInv, ReadOverflow, ReadPayload, ring
<1>0. r \in Local
  BY DEF RemoteOutside, Readers
<1>1. /\ reader[r] \in ReaderStates /\ reader[r].idx \in Chunks
      /\ data[reader[r].idx].overflow \in BOOLEAN /\ data[reader[r].idx].obj \in Objects \cup {Torn}
  BY DEF Shapes, ReaderStates
<1>2. reader' \in [Readers -> ReaderStates]
  <2>1. CASE ReadOverflow(r)
    BY <1>1, <2>1 DEF Shapes, ReaderStates, LocalPcs
  <2>2. CASE ReadPayload(r)
    BY <1>1, <2>2 DEF Shapes, ReaderStates, LocalPcs
  <2> QED
    BY <2>1, <2>2
<1>3. Shapes'
  BY <1>2 DEF Shapes
<1>4. RemoteOutside'
  BY <1>0, Constants DEF RemoteOutside, Shapes
<1>5. ReaderHolds'
  <2>0. ASSUME NEW q \in Local, q # r
        PROVE  reader'[q] = reader[q]
    BY <2>0, Constants DEF Shapes
  <2>1. CASE ReadOverflow(r)
    BY <1>0, <1>1, <2>0, <2>1, Constants DEF ReaderHolds, Shapes, ReaderStates, ReadingPcs
  <2>2. CASE ReadPayload(r)
    BY <1>0, <1>1, <2>0, <2>2, Constants DEF ReaderHolds, Shapes, ReaderStates, ReadingPcs
  <2> QED
    BY <2>1, <2>2
<1>6. OneAhead' /\ WriterHolds'
  BY DEF OneAhead, WriterHolds
<1> QED
  BY <1>3, <1>4, <1>5, <1>6

LEMMA MarkReadIInv ==
  ASSUME IInv, NEW r \in Readers, MarkRead(r)
  PROVE  IInv'
<1> USE DEF IInv, MarkRead
<1>0. r \in Local
  BY DEF RemoteOutside, Readers
<1>1. reader[r] \in ReaderStates /\ reader[r].idx \in Chunks /\ NextChunk(reader[r].idx) \in Chunks
  BY Constants DEF Shapes, ReaderStates
<1>2. reader' \in [Readers -> ReaderStates]
  BY <1>1 DEF Shapes, ReaderStates, LocalPcs
<1>3. Shapes'
  BY <1>0, <1>1, <1>2 DEF Shapes
<1>4. RemoteOutside'
  BY <1>0, Constants DEF RemoteOutside, Shapes
<1>5. ReaderHolds'
  BY <1>0, <1>1, Constants DEF ReaderHolds, Shapes, ReaderStates, ReadingPcs
<1>6. OneAhead' /\ WriterHolds'
  BY DEF OneAhead, WriterHolds
<1> QED
  BY <1>3, <1>4, <1>5, <1>6

\* The invariant is inductive.
LEMMA NextIInv == IInv /\ [Next]_vars => IInv'
<1> SUFFICES ASSUME IInv, [Next]_vars PROVE IInv'
  OBVIOUS
<1>1. CASE UNCHANGED vars
  BY <1>1 DEF vars, IInv, Shapes, RemoteOutside, OneAhead, WriterHolds, ReaderHolds
<1>2. CASE WriterStep
  BY <1>2, GreetIInv, AcquireWriteIInv, WriteIInv, ResetFlagIInv, CommitIInv, SendIInv
     DEF WriterStep
<1>3. ASSUME NEW size \in Sizes, Enqueue(size) PROVE IInv'
  BY <1>3, EnqueueIInv
<1>4. ASSUME NEW r \in Readers, ReaderStep(r) PROVE IInv'
  BY <1>4, SocketIInv, LoadIInv, ReadIInv, MarkReadIInv DEF ReaderStep
<1> QED
  BY <1>1, <1>2, <1>3, <1>4 DEF Next

LEMMA InductiveInvariance == Spec => []IInv
BY InitIInv, NextIInv, PTL DEF Spec

-----------------------------------------------------------------------------
\* acquire_write and acquire_read: without a lock, whatever the order of their
\* loads and stores of the flags, the writer is never inside a chunk that a
\* reader is reading.
THEOREM RingExcludesReaders == Spec => []NoTornRead
<1>1. IInv => NoTornRead
  BY DEF IInv, Shapes, WriterStates, ReaderStates, TypeOK, NoTornRead, WriterHolds, ReaderHolds,
         ReadingPcs
<1> QED
  BY <1>1, InductiveInvariance, PTL


-----------------------------------------------------------------------------
(* The ring implements the broadcast queue *)

\* The last object the reader got, and the last one it marked as read in the ring:
\* a big one is marked before it is received.
Got(r) == IF delivered[r] = << >> THEN 0 ELSE delivered[r][Len(delivered[r])]
Marked(r) == IF reader[r].pc = "recv" THEN Got(r) + 1 ELSE Got(r)

ChunkOf(m) == (m - 1) % MaxChunks

\* Object m is published and its chunk not yet taken for another one.
InRing(m) ==
  /\ m <= published /\ published < m + MaxChunks
  /\ writer.pc \in WritingPcs => published + 1 < m + MaxChunks

\* The objects sent to the local sockets, if they are big.
Sent == IF writer.pc = "sendLocal" THEN published - 1 ELSE published

\* What a socket holds behind the greeting.
Mail(r) ==
  IF reader[r].pc \in {"connect", "ready"} /\ sock[r] # << >> THEN Tail(sock[r]) ELSE sock[r]

Rising(s) == \A i, j \in 1 .. Len(s) : i < j => s[i] + (j - i) <= s[j]

\* Where writer and readers are, and how far apart.
Places ==
  /\ delivered \in [Readers -> Seq(Nat)]
  /\ writer.idx = published % MaxChunks
  /\ \A r \in Local :
       /\ reader[r].idx = Marked(r) % MaxChunks
       /\ Marked(r) <= published /\ published <= Marked(r) + MaxChunks
       /\ writer.pc \in WritingPcs => published < Marked(r) + MaxChunks

\* The chunk of an object: its flags and its bytes.
Chunked(m) ==
  LET c == ChunkOf(m)
  IN /\ written[c] /\ (~ data[c].overflow => data[c].obj = m)
     /\ \A r \in Local : readFlag[c][r] <=> m <= Marked(r)

RingInv ==
  /\ \A m \in 1 .. published : InRing(m) => Chunked(m)
  /\ \A c \in Chunks : c >= published => ~ written[c]

\* The chunk being written.
WritingInv ==
  LET c == writer.idx
  IN /\ writer.pc = "payload" => ~ Big(writer.size) /\ ~ data[c].overflow /\ writer.reset = 0
     /\ writer.pc \in {"reset", "commit"} =>
          /\ data[c].overflow <=> Big(writer.size)
          /\ ~ Big(writer.size) => data[c].obj = published + 1
     /\ writer.pc = "reset" => \A r \in Local : r <= writer.reset => ~ readFlag[c][r]
     /\ writer.pc = "commit" => \A r \in Local : ~ readFlag[c][r]
     /\ writer.pc \in {"sendLocal", "sendRemote"} => published >= 1
     /\ writer.pc = "sendLocal" => data[ChunkOf(published)].overflow

\* A reader inside acquire_read has the object after the last it marked.
ReadingInv(r) ==
  LET c == reader[r].idx
  IN /\ reader[r].pc \in ReadingPcs => Marked(r) < published
     /\ reader[r].pc = "payload" => ~ data[c].overflow /\ ~ reader[r].overflow
     /\ reader[r].pc = "mark" =>
          /\ reader[r].overflow <=> data[c].overflow
          /\ ~ data[c].overflow => reader[r].obj = data[c].obj

\* The greeting comes first; nothing is sent to who has not joined.
GreetingInv(r) ==
  LET greeted == writer.pc # "local" /\ (r \in Local \/ writer.pc # "remote")
  IN /\ reader[r].pc = "connect" <=> r \notin subscribed
     /\ greeted => r \in subscribed
     /\ reader[r].pc \in {"connect", "ready"} => Got(r) = 0
     /\ reader[r].pc = "ready" => (greeted <=> sock[r] # << >>)
     /\ ~ greeted => reader[r].pc \in {"connect", "ready"} /\ sock[r] = << >> /\ published = 0

\* The socket of a local reader holds the big objects it has not received.
LocalMail(r) ==
  /\ Mail(r) \in Seq(Nat) /\ Rising(Mail(r)) /\ Got(r) <= Sent
  /\ \A i \in 1 .. Len(Mail(r)) : Got(r) < Mail(r)[i] /\ Mail(r)[i] <= Sent
  /\ \A m \in 1 .. Sent : m > Got(r) =>
       ((\E i \in 1 .. Len(Mail(r)) : Mail(r)[i] = m) <=> m <= Marked(r) \/ data[ChunkOf(m)].overflow)

\* That of a remote one holds some objects, in their order.
RemoteMail(r) ==
  /\ Mail(r) \in Seq(Nat) /\ Rising(Mail(r)) /\ Got(r) <= published
  /\ \A i \in 1 .. Len(Mail(r)) :
       /\ Got(r) < Mail(r)[i] /\ Mail(r)[i] <= published
       /\ writer.pc \in {"sendLocal", "sendRemote"} => Mail(r)[i] < published
  /\ writer.pc \in {"sendLocal", "sendRemote"} => Got(r) < published

RInv ==
  /\ IInv /\ Places /\ RingInv /\ WritingInv
  /\ \A r \in Readers : GreetingInv(r)
  /\ \A r \in Local : ReadingInv(r) /\ LocalMail(r)
  /\ \A r \in Remote : RemoteMail(r)


-----------------------------------------------------------------------------
\* Positions in the ring.
LEMMA Remainder ==
  ASSUME NEW M \in Nat \ {0}, NEW q \in Int, NEW p \in Int, NEW r \in 0 .. M - 1, NEW s \in 0 .. M - 1,
         M * q + r = M * p + s
  PROVE  r = s
<1>1. ASSUME NEW d \in Int, d >= 1 PROVE M * d >= M
  <2>1. d - 1 \in Nat /\ M \in Nat
    BY <1>1
  <2>2. \A x \in Nat, y \in Nat : x * y >= 0
    OBVIOUS
  <2>3. M * (d - 1) >= 0
    BY <2>1, <2>2
  <2>4. M * d = M * (d - 1) + M
    OBVIOUS
  <2>5. M * d \in Int /\ M * (d - 1) \in Int
    OBVIOUS
  <2> QED
    BY <2>1, <2>3, <2>4, <2>5
<1>2. M * (q - p) = M * q - M * p /\ M * (p - q) = M * p - M * q
  OBVIOUS
<1>3. M * q \in Int /\ M * p \in Int
  OBVIOUS
<1>4. CASE q > p
  <2>1. q - p \in Int /\ q - p >= 1
    BY <1>4
  <2>2. M * (q - p) >= M
    BY <1>1, <2>1
  <2> QED
    BY <1>2, <1>3, <2>2
<1>5. CASE p > q
  <2>1. p - q \in Int /\ p - q >= 1
    BY <1>5
  <2>2. M * (p - q) >= M
    BY <1>1, <2>1
  <2> QED
    BY <1>2, <1>3, <2>2
<1>6. CASE p = q
  BY <1>3, <1>6
<1> QED
  BY <1>4, <1>5, <1>6

LEMMA Quotient ==
  ASSUME NEW M \in Nat \ {0}, NEW a \in Nat
  PROVE  /\ a \div M \in Nat /\ a % M \in 0 .. M - 1 /\ a % M \in Nat
         /\ a % M = a - M * (a \div M) /\ M * (a \div M) \in Int
<1>1. a \div M \in Nat
  OBVIOUS
<1>2. a % M \in 0 .. M - 1 /\ a % M \in Nat
  OBVIOUS
<1>3. a % M = a - M * (a \div M)
  OBVIOUS
<1>4. M * (a \div M) \in Int
  BY <1>1
<1> QED
  BY <1>1, <1>2, <1>3, <1>4

LEMMA Modulus ==
  ASSUME NEW M \in Nat \ {0}, NEW a \in Nat
  PROVE  /\ a % M \in 0 .. M - 1 /\ a % M \in Nat
         /\ ((a % M) + 1) % M = (a + 1) % M /\ (a + M) % M = a % M
         /\ a < M => a % M = a
<1>1. a % M \in 0 .. M - 1 /\ a % M \in Nat
  BY Quotient
<1>2. a < M => a % M = a
  OBVIOUS
<1> DEFINE q == a \div M
           r == a % M
<1>3. q \in Nat /\ r \in 0 .. M - 1 /\ r = a - M * q /\ M \in Nat /\ M * q \in Int
  BY Quotient
<1>4. (a + M) % M = r
  <2> DEFINE p == (a + M) \div M
             s == (a + M) % M
  <2>1. a + M \in Nat
    OBVIOUS
  <2>2. p \in Nat /\ s \in 0 .. M - 1 /\ s = (a + M) - M * p /\ M * p \in Int
    BY <2>1, Quotient
  <2> HIDE DEF p, s, q, r
  <2>3. M * (q + 1) = M * q + M
    BY <1>3
  <2>4. q + 1 \in Int /\ p \in Int /\ M * q \in Int
    BY <1>3, <2>2
  <2>5. M * (q + 1) + r = M * p + s
    BY <1>3, <2>2, <2>3, <2>4
  <2>6. r = s
    BY <1>3, <2>2, <2>4, <2>5, Remainder
  <2> QED
    BY <2>6 DEF s
<1>5. (r + 1) % M = (a + 1) % M
  <2> DEFINE p == (a + 1) \div M
             s == (a + 1) % M
             u == (r + 1) \div M
             t == (r + 1) % M
  <2>1. a + 1 \in Nat /\ r + 1 \in Nat
    BY <1>3
  <2>2. p \in Nat /\ s \in 0 .. M - 1 /\ s = (a + 1) - M * p /\ M * p \in Int
    BY <2>1, Quotient
  <2>3. u \in Nat /\ t \in 0 .. M - 1 /\ t = (r + 1) - M * u /\ M * u \in Int
    BY <2>1, Quotient
  <2> HIDE DEF p, s, q, r, u, t
  <2>4. M * (q + u) = M * q + M * u
    BY <1>3, <2>3
  <2>5. q + u \in Int /\ p \in Int /\ M * q \in Int /\ M * u \in Int /\ r \in Int
    BY <1>3, <2>2, <2>3
  <2>6. M * (q + u) + t = M * p + s
    BY <1>3, <2>2, <2>3, <2>4, <2>5
  <2>7. t = s
    BY <2>2, <2>3, <2>5, <2>6, Remainder
  <2> QED
    BY <2>7 DEF s, t
<1> QED
  BY <1>1, <1>2, <1>4, <1>5

LEMMA ModulusDiffers ==
  ASSUME NEW M \in Nat \ {0}, NEW a \in Nat, NEW b \in Nat, a < b, b < a + M
  PROVE  a % M # b % M
<1> DEFINE q == a \div M
           p == b \div M
           r == a % M
<1> SUFFICES ASSUME r = b % M PROVE FALSE
  OBVIOUS
<1>1. q \in Nat /\ p \in Nat /\ r \in 0 .. M - 1 /\ r = a - M * q /\ r = b - M * p /\ M \in Nat
  BY Quotient
<1> HIDE DEF q, p, r
<1>2. M * q \in Int /\ M * p \in Int /\ r \in Int
  BY <1>1
<1>3. M * (p - q) = b - a /\ p - q \in Int
  <2>1. M * (p - q) = M * p - M * q
    BY <1>1
  <2> QED
    BY <1>1, <1>2, <2>1
<1> DEFINE d == b - a
<1>4. d \in 0 .. M - 1 /\ d # 0
  OBVIOUS
<1>5. M * (p - q) + 0 = M * 0 + d
  <2>1. M * 0 = 0
    OBVIOUS
  <2> QED
    BY <1>3, <2>1
<1>6. 0 \in 0 .. M - 1 /\ 0 \in Int
  OBVIOUS
<1> HIDE DEF d
<1>7. 0 = d
  BY <1>3, <1>4, <1>5, <1>6, Remainder
<1> QED
  BY <1>4, <1>7

LEMMA ChunkFacts ==
  /\ MaxChunks \in Nat \ {0}
  /\ \A n \in Nat : /\ n % MaxChunks \in Chunks /\ ChunkOf(n + 1) = n % MaxChunks
                    /\ NextChunk(n % MaxChunks) = (n + 1) % MaxChunks
                    /\ n < MaxChunks => n % MaxChunks = n
  /\ \A m \in Nat \ {0} : ChunkOf(m) \in Chunks /\ ChunkOf(m + MaxChunks) = ChunkOf(m)
  /\ \A m, n \in Nat \ {0} : m < n /\ n < m + MaxChunks => ChunkOf(m) # ChunkOf(n)
<1>1. MaxChunks \in Nat \ {0}
  BY ShmAssumption
<1>2. ASSUME NEW n \in Nat
      PROVE  /\ n % MaxChunks \in Chunks /\ ChunkOf(n + 1) = n % MaxChunks
             /\ NextChunk(n % MaxChunks) = (n + 1) % MaxChunks
             /\ n < MaxChunks => n % MaxChunks = n
  <2>1. n + 1 - 1 = n
    OBVIOUS
  <2>2. n % MaxChunks \in 0 .. MaxChunks - 1 /\ (n < MaxChunks => n % MaxChunks = n)
        /\ ((n % MaxChunks) + 1) % MaxChunks = (n + 1) % MaxChunks
    BY <1>1, Modulus
  <2> QED
    BY <2>1, <2>2 DEF Chunks, ChunkOf, NextChunk
<1>3. ASSUME NEW m \in Nat \ {0} PROVE ChunkOf(m) \in Chunks /\ ChunkOf(m + MaxChunks) = ChunkOf(m)
  <2>1. m - 1 \in Nat /\ (m + MaxChunks) - 1 = m - 1 + MaxChunks
    BY <1>1
  <2>2. (m - 1) % MaxChunks \in 0 .. MaxChunks - 1 /\ (m - 1 + MaxChunks) % MaxChunks = (m - 1) % MaxChunks
    BY <1>1, <2>1, Modulus
  <2> DEFINE x == (m + MaxChunks) - 1
             y == m - 1 + MaxChunks
  <2>3. ChunkOf(m + MaxChunks) = y % MaxChunks
    <3>1. ChunkOf(m + MaxChunks) = x % MaxChunks
      BY DEF ChunkOf
    <3>2. x = y
      BY <2>1
    <3> HIDE DEF x, y
    <3> QED
      BY <3>1, <3>2
  <2> QED
    BY <2>2, <2>3 DEF ChunkOf, Chunks
<1>4. ASSUME NEW m \in Nat \ {0}, NEW n \in Nat \ {0}, m < n, n < m + MaxChunks
      PROVE  ChunkOf(m) # ChunkOf(n)
  <2>1. m - 1 \in Nat /\ n - 1 \in Nat /\ m - 1 < n - 1 /\ n - 1 < m - 1 + MaxChunks
    BY <1>1, <1>4
  <2> QED
    BY <1>1, <2>1, ModulusDiffers DEF ChunkOf
<1> QED
  BY <1>1, <1>2, <1>3, <1>4


-----------------------------------------------------------------------------
(* Frames *)

LEMMA GotFacts ==
  ASSUME Places, NEW r \in Readers
  PROVE  Got(r) \in Nat /\ Marked(r) \in Nat /\ (Marked(r) = Got(r) \/ Marked(r) = Got(r) + 1)
<1>1. delivered[r] \in Seq(Nat)
  BY DEF Places
<1>2. delivered[r] # << >> => Len(delivered[r]) \in 1 .. Len(delivered[r])
  BY <1>1, EmptySeq, LenProperties
<1>3. Got(r) \in Nat
  BY <1>1, <1>2, ElementOfSeq DEF Got
<1> QED
  BY <1>3 DEF Marked

LEMMA StateFacts ==
  ASSUME IInv
  PROVE  /\ published \in Nat /\ writer.idx \in Chunks /\ writer.size \in Nat /\ writer.reset \in Nat
         /\ writer.pc \in WriterPcs /\ writer \in WriterStates /\ MaxChunks \in Nat \ {0}
         /\ \A r \in Readers : reader[r] \in ReaderStates /\ reader[r].idx \in Chunks /\ reader[r].pc \in LocalPcs
         /\ \A c \in Chunks : data[c].overflow \in BOOLEAN
         /\ data \in [Chunks -> [overflow : BOOLEAN, obj : Objects \cup {Torn}]]
         /\ written \in [Chunks -> BOOLEAN] /\ readFlag \in [Chunks -> [Local -> BOOLEAN]]
<1>1. Shapes
  BY DEF IInv
<1>2. writer \in WriterStates /\ \A r \in Readers : reader[r] \in ReaderStates
  BY <1>1 DEF Shapes
<1>3. writer.idx \in Chunks /\ writer.size \in Sizes /\ writer.reset \in 0 .. NumLocal /\ writer.pc \in WriterPcs
  BY <1>2 DEF WriterStates
<1>4. \A r \in Readers : reader[r].idx \in Chunks /\ reader[r].pc \in LocalPcs
  BY <1>2 DEF ReaderStates
<1>5. published \in Nat /\ \A c \in Chunks : data[c].overflow \in BOOLEAN
  BY <1>1, Constants DEF Shapes
<1>6. writer.reset \in Nat
  BY <1>3, Constants
<1>7. writer.size \in Nat
  BY <1>3, Constants
<1>8. data \in [Chunks -> [overflow : BOOLEAN, obj : Objects \cup {Torn}]]
      /\ written \in [Chunks -> BOOLEAN] /\ readFlag \in [Chunks -> [Local -> BOOLEAN]]
  BY <1>1 DEF Shapes
<1> QED
  BY <1>2, <1>3, <1>4, <1>5, <1>6, <1>7, <1>8, ChunkFacts

\* An object of the ring is not in the chunk the writer is at.
LEMMA Elsewhere ==
  ASSUME RInv, NEW m \in Nat \ {0}, m <= published, published + 1 < m + MaxChunks
  PROVE  ChunkOf(m) # writer.idx /\ ChunkOf(m) \in Chunks
<1>1. published \in Nat /\ writer.idx = published % MaxChunks
  BY StateFacts DEF RInv, Places
<1>2. ChunkOf(published + 1) = writer.idx
  BY <1>1, ChunkFacts
<1>3. published + 1 \in Nat \ {0} /\ m < published + 1
  BY <1>1
<1> QED
  BY <1>2, <1>3, ChunkFacts

\* What a local reader has not marked is in the ring, and not where the writer is.
LEMMA Unmarked ==
  ASSUME RInv, NEW r \in Local, NEW m \in Nat, Marked(r) < m, m <= published
  PROVE  InRing(m) /\ m \in Nat \ {0} /\ m \in 1 .. published
         /\ (writer.pc \in WritingPcs => ChunkOf(m) # writer.idx) /\ ChunkOf(m) \in Chunks
<1>1. published \in Nat /\ Marked(r) \in Nat /\ MaxChunks \in Nat
  BY StateFacts, GotFacts, Constants DEF RInv
<1>2. published <= Marked(r) + MaxChunks /\ (writer.pc \in WritingPcs => published < Marked(r) + MaxChunks)
  BY DEF RInv, Places
<1>3. InRing(m) /\ m \in Nat \ {0} /\ m \in 1 .. published
  BY <1>1, <1>2 DEF InRing
<1>4. writer.pc \in WritingPcs => published + 1 < m + MaxChunks
  BY <1>1, <1>2
<1> QED
  BY <1>3, <1>4, Elsewhere, ChunkFacts

\* The chunk a reader is in is that of the next object.
LEMMA ReaderChunk ==
  ASSUME RInv, NEW r \in Local, reader[r].pc \in ReadingPcs
  PROVE  /\ Marked(r) = Got(r) /\ Got(r) \in Nat /\ Got(r) + 1 <= published
         /\ reader[r].idx = ChunkOf(Got(r) + 1) /\ InRing(Got(r) + 1) /\ Chunked(Got(r) + 1)
         /\ writer.pc \in WritingPcs => reader[r].idx # writer.idx
<1>1. r \in Readers /\ Got(r) \in Nat /\ published \in Nat
  BY Constants, GotFacts, StateFacts DEF RInv
<1>2. Marked(r) = Got(r) /\ Marked(r) < published
  BY DEF RInv, ReadingInv, ReadingPcs, Marked
<1>3. reader[r].idx = ChunkOf(Got(r) + 1)
  BY <1>1, <1>2, ChunkFacts DEF RInv, Places
<1>4. Got(r) + 1 \in Nat /\ Marked(r) < Got(r) + 1 /\ Got(r) + 1 <= published
  BY <1>1, <1>2
<1>5. InRing(Got(r) + 1) /\ Got(r) + 1 \in 1 .. published
      /\ (writer.pc \in WritingPcs => ChunkOf(Got(r) + 1) # writer.idx)
  BY <1>4, Unmarked
<1>6. Chunked(Got(r) + 1)
  BY <1>5 DEF RInv, RingInv
<1> QED
  BY <1>1, <1>2, <1>3, <1>4, <1>5, <1>6

LEMMA SameReader ==
  ASSUME NEW r, reader'[r] = reader[r], delivered'[r] = delivered[r], sock'[r] = sock[r]
  PROVE  Got(r)' = Got(r) /\ Marked(r)' = Marked(r) /\ Mail(r)' = Mail(r)
BY DEF Got, Marked, Mail

LEMMA SameLocalMail ==
  ASSUME NEW r, LocalMail(r), Mail(r)' = Mail(r), Got(r)' = Got(r), Marked(r)' = Marked(r), Sent' = Sent,
         \A m \in 1 .. Sent : m > Marked(r) =>
           (data'[ChunkOf(m)].overflow <=> data[ChunkOf(m)].overflow),
         Sent \in Int, Marked(r) \in Nat
  PROVE  LocalMail(r)'
<1>1. ASSUME NEW m \in 1 .. Sent
      PROVE  (m <= Marked(r) \/ data'[ChunkOf(m)].overflow) <=> (m <= Marked(r) \/ data[ChunkOf(m)].overflow)
  OBVIOUS
<1> QED
  BY <1>1 DEF LocalMail

LEMMA SameRemoteMail ==
  ASSUME NEW r, RemoteMail(r), Mail(r)' = Mail(r), Got(r)' = Got(r), published' = published,
         writer'.pc \in {"sendLocal", "sendRemote"} => writer.pc \in {"sendLocal", "sendRemote"}
  PROVE  RemoteMail(r)'
BY DEF RemoteMail

LEMMA SameGreeting ==
  ASSUME NEW r, GreetingInv(r), Got(r)' = Got(r), published' = published,
         reader'[r].pc = reader[r].pc, sock'[r] = sock[r], r \in subscribed' <=> r \in subscribed,
         writer'.pc = "local" <=> writer.pc = "local", writer'.pc = "remote" <=> writer.pc = "remote"
  PROVE  GreetingInv(r)'
BY DEF GreetingInv

LEMMA SentFacts == ASSUME RInv PROVE Sent \in Nat /\ Sent <= published
BY StateFacts DEF RInv, Sent, WritingInv

\* A step of the writer that publishes and sends nothing, and touches no chunk but
\* the one it is in.
LEMMA WriterFrame ==
  ASSUME RInv, IInv', UNCHANGED <<sock, subscribed, reader, published, delivered>>,
         writer'.idx = writer.idx,
         {writer.pc, writer'.pc} \cap {"local", "remote", "sendLocal", "sendRemote"} = {},
         writer.pc \in WritingPcs => writer'.pc \in WritingPcs,
         writer'.pc \in WritingPcs => \A r \in Local : published < Marked(r) + MaxChunks,
         \A c \in Chunks : c # writer.idx =>
           data'[c] = data[c] /\ written'[c] = written[c] /\ readFlag'[c] = readFlag[c],
         data' = data \/ writer.pc \in WritingPcs,
         UNCHANGED <<written, readFlag>> \/ writer'.pc \in WritingPcs,
         written'[writer.idx] => written[writer.idx],
         WritingInv'
  PROVE  RInv'
<1>0. /\ published \in Nat /\ MaxChunks \in Nat \ {0} /\ Sent \in Nat /\ Sent <= published
      /\ writer.idx \in Chunks
  BY StateFacts, SentFacts DEF RInv
<1>1. \A r \in Readers : /\ Got(r)' = Got(r) /\ Marked(r)' = Marked(r) /\ Mail(r)' = Mail(r)
                         /\ Got(r) \in Nat /\ Marked(r) \in Nat
  BY SameReader, GotFacts DEF RInv
<1>2. Sent' = Sent
  BY DEF Sent
<1>3. Places'
  BY <1>1, Constants DEF RInv, Places
<1>4. RingInv'
  <2>1. ASSUME NEW m \in 1 .. published, InRing(m)' PROVE Chunked(m)'
    <3>1. InRing(m) /\ m \in Nat \ {0} /\ m <= published /\ (writer'.pc \in WritingPcs => published + 1 < m + MaxChunks)
      BY <1>0, <2>1 DEF InRing
    <3>2. Chunked(m)
      BY <3>1 DEF RInv, RingInv
    <3>3. /\ written'[ChunkOf(m)] = written[ChunkOf(m)] /\ readFlag'[ChunkOf(m)] = readFlag[ChunkOf(m)]
          /\ data'[ChunkOf(m)] = data[ChunkOf(m)]
      <4>1. CASE writer'.pc \in WritingPcs
        BY <3>1, <4>1, Elsewhere
      <4>2. CASE writer'.pc \notin WritingPcs
        BY <4>2
      <4> QED
        BY <4>1, <4>2
    <3> QED
      BY <1>1, <3>2, <3>3, Constants DEF Chunked
  <2>2. ASSUME NEW c \in Chunks, c >= published PROVE ~ written'[c]
    BY <2>2 DEF RInv, RingInv
  <2> QED
    BY <2>1, <2>2 DEF RingInv
<1>5. ASSUME NEW r \in Readers PROVE GreetingInv(r)'
  BY <1>1, SameGreeting DEF RInv
<1>6. ASSUME NEW r \in Local PROVE ReadingInv(r)' /\ LocalMail(r)'
  <2>0. r \in Readers /\ ReadingInv(r) /\ LocalMail(r)
    BY Constants DEF RInv
  <2>1. ReadingInv(r)'
    <3>1. reader[r].pc \in ReadingPcs => data'[reader[r].idx] = data[reader[r].idx]
      BY <2>0, ReaderChunk, StateFacts DEF RInv
    <3> QED
      BY <1>1, <2>0, <3>1 DEF ReadingInv, ReadingPcs
  <2>2. ASSUME NEW m \in 1 .. Sent, m > Marked(r) PROVE data'[ChunkOf(m)] = data[ChunkOf(m)]
    <3>1. m \in Nat /\ m <= published
      BY <1>0, <2>2
    <3> QED
      BY <1>1, <2>0, <2>2, <3>1, Unmarked
  <2>3. LocalMail(r)'
    BY <1>0, <1>1, <1>2, <2>0, <2>2, SameLocalMail
  <2> QED
    BY <2>1, <2>3
<1>7. ASSUME NEW r \in Remote PROVE RemoteMail(r)'
  BY <1>1, Constants, SameRemoteMail DEF RInv
<1> QED
  BY <1>3, <1>4, <1>5, <1>6, <1>7 DEF RInv


-----------------------------------------------------------------------------
(* The writer's steps *)

\* The chunk at the writer's place, when the ring is full.
LEMMA OldestChunk ==
  ASSUME RInv, writer.pc \notin WritingPcs, published >= MaxChunks
  PROVE  \E m \in 1 .. published : m + MaxChunks = published + 1 /\ ChunkOf(m) = writer.idx /\ Chunked(m)
<1>0. published \in Nat /\ MaxChunks \in Nat \ {0} /\ writer.idx = published % MaxChunks
  BY StateFacts DEF RInv, Places
<1> DEFINE m == (published + 1) - MaxChunks
<1>1. m \in Nat \ {0} /\ m \in 1 .. published /\ m + MaxChunks = published + 1
  BY <1>0
<1> HIDE DEF m
<1>2. ChunkOf(m) = ChunkOf(published + 1)
  BY <1>1, ChunkFacts
<1>3. ChunkOf(m) = writer.idx
  BY <1>0, <1>2, ChunkFacts
<1>4. InRing(m)
  BY <1>0, <1>1 DEF InRing
<1> QED
  BY <1>1, <1>3, <1>4 DEF RInv, RingInv

LEMMA EnqueueRInv ==
  ASSUME RInv, NEW size \in Sizes, Enqueue(size)
  PROVE  RInv'
<1>1. IInv' /\ writer \in WriterStates
  BY EnqueueIInv, StateFacts DEF RInv
<1>2. /\ writer.pc = "idle" /\ writer'.pc = "acquire" /\ writer'.idx = writer.idx
      /\ UNCHANGED <<written, readFlag, data, sock, subscribed, reader, published, delivered>>
  BY <1>1 DEF Enqueue, ring, WriterStates
<1>3. WritingInv'
  BY <1>2 DEF WritingInv
<1> QED
  BY <1>1, <1>2, <1>3, WriterFrame DEF WritingPcs

LEMMA AcquireWriteRInv ==
  ASSUME RInv, AcquireWrite
  PROVE  RInv'
<1>1. IInv' /\ writer \in WriterStates /\ writer.idx \in Chunks /\ published \in Nat
      /\ MaxChunks \in Nat \ {0} /\ written \in [Chunks -> BOOLEAN]
  BY AcquireWriteIInv, StateFacts DEF RInv
<1>2. /\ writer.pc = "acquire" /\ writer'.pc = "overflow" /\ writer'.idx = writer.idx
      /\ written' = [written EXCEPT ![writer.idx] = FALSE] /\ Writable(writer.idx)
      /\ UNCHANGED <<readFlag, data, sock, subscribed, reader, published, delivered>>
  BY <1>1 DEF AcquireWrite, WriterStates
<1>3. WritingInv'
  BY <1>2 DEF WritingInv
<1>4. ASSUME NEW r \in Local PROVE published < Marked(r) + MaxChunks
  <2>0. Marked(r) \in Nat
    BY GotFacts, Constants DEF RInv
  <2>1. CASE published < MaxChunks
    BY <1>1, <2>0, <2>1
  <2>2. CASE published >= MaxChunks
    <3>1. PICK m \in 1 .. published : m + MaxChunks = published + 1 /\ ChunkOf(m) = writer.idx /\ Chunked(m)
      BY <1>2, <2>2, OldestChunk DEF WritingPcs
    <3>2. m <= Marked(r)
      BY <1>2, <3>1 DEF Chunked, Writable
    <3> QED
      BY <1>1, <2>0, <3>1, <3>2
  <2> QED
    BY <1>1, <2>1, <2>2
<1>5. \A c \in Chunks : c # writer.idx => written'[c] = written[c]
  BY <1>1, <1>2
<1>6. ~ written'[writer.idx]
  BY <1>1, <1>2
<1> QED
  BY <1>1, <1>2, <1>3, <1>4, <1>5, <1>6, WriterFrame DEF WritingPcs

\* The writer is in a chunk no reader has still to read.
LEMMA WritingAhead ==
  ASSUME RInv, writer.pc \in WritingPcs
  PROVE  \A r \in Local : published < Marked(r) + MaxChunks
BY DEF RInv, Places

LEMMA WriteOverflowRInv ==
  ASSUME RInv, WriteOverflow
  PROVE  RInv'
<1>1. /\ IInv' /\ writer \in WriterStates /\ writer.idx \in Chunks
      /\ data \in [Chunks -> [overflow : BOOLEAN, obj : Objects \cup {Torn}]]
  BY WriteIInv, StateFacts DEF RInv
<1>2. /\ writer.pc = "overflow" /\ data' = [data EXCEPT ![writer.idx].overflow = Big(writer.size)]
      /\ writer' = [writer EXCEPT !.pc = IF Big(writer.size) THEN "reset" ELSE "payload", !.reset = 0]
      /\ UNCHANGED <<written, readFlag, sock, subscribed, reader, published, delivered>>
  BY DEF WriteOverflow
<1>3. /\ writer'.pc = IF Big(writer.size) THEN "reset" ELSE "payload"
      /\ writer'.idx = writer.idx /\ writer'.size = writer.size /\ writer'.reset = 0
  BY <1>1, <1>2 DEF WriterStates
<1>4. \A c \in Chunks : c # writer.idx => data'[c] = data[c]
  BY <1>1, <1>2
<1>5. data'[writer.idx].overflow <=> Big(writer.size)
  BY <1>1, <1>2
<1>6. WritingInv'
  BY <1>3, <1>5 DEF WritingInv, Local, Big
<1>7. {writer.pc, writer'.pc} \subseteq WritingPcs
  BY <1>2, <1>3 DEF WritingPcs
<1>8. {writer.pc, writer'.pc} \cap {"local", "remote", "sendLocal", "sendRemote"} = {}
  BY <1>2, <1>3
<1> QED
  BY <1>1, <1>2, <1>3, <1>4, <1>6, <1>7, <1>8, WritingAhead, WriterFrame

LEMMA WritePayloadRInv ==
  ASSUME RInv, WritePayload
  PROVE  RInv'
<1>1. /\ IInv' /\ writer \in WriterStates /\ writer.idx \in Chunks /\ writer.size \in Nat
      /\ data \in [Chunks -> [overflow : BOOLEAN, obj : Objects \cup {Torn}]]
  BY WriteIInv, StateFacts DEF RInv
<1>2. /\ writer.pc = "payload"
      /\ data' = [data EXCEPT ![writer.idx].obj =
                    IF 1 + writer.size <= MaxChunkBytes THEN writer.obj ELSE Torn]
      /\ writer' = [writer EXCEPT !.pc = "reset"]
      /\ UNCHANGED <<written, readFlag, sock, subscribed, reader, published, delivered>>
  BY DEF WritePayload
<1>3. /\ writer'.pc = "reset" /\ writer'.idx = writer.idx /\ writer'.size = writer.size
      /\ writer'.reset = writer.reset
  BY <1>1, <1>2 DEF WriterStates
<1>4. \A c \in Chunks : c # writer.idx => data'[c] = data[c]
  BY <1>1, <1>2
<1>5. ~ Big(writer.size) /\ ~ data[writer.idx].overflow /\ writer.reset = 0
  BY <1>2 DEF RInv, WritingInv
<1>6. 1 + writer.size <= MaxChunkBytes
  BY <1>1, <1>5, ShmAssumption DEF Big
<1>7. writer.obj = published + 1
  BY <1>2 DEF RInv, IInv, OneAhead, WritingPcs
<1>8. data'[writer.idx].overflow = data[writer.idx].overflow /\ data'[writer.idx].obj = published + 1
  BY <1>1, <1>2, <1>6, <1>7
<1>9. WritingInv'
  BY <1>2, <1>3, <1>5, <1>8 DEF WritingInv, Local, Big
<1>10. {writer.pc, writer'.pc} \subseteq WritingPcs
  BY <1>2, <1>3 DEF WritingPcs
<1>11. {writer.pc, writer'.pc} \cap {"local", "remote", "sendLocal", "sendRemote"} = {}
  BY <1>2, <1>3
<1> QED
  BY <1>1, <1>2, <1>3, <1>4, <1>9, <1>10, <1>11, WritingAhead, WriterFrame

LEMMA ResetFlagRInv ==
  ASSUME RInv, ResetFlag
  PROVE  RInv'
<1>1. /\ IInv' /\ writer \in WriterStates /\ writer.idx \in Chunks /\ writer.reset \in Nat
      /\ readFlag \in [Chunks -> [Local -> BOOLEAN]]
  BY ResetFlagIInv, StateFacts DEF RInv
<1>2. /\ writer.pc = "reset" /\ writer.reset < NumLocal
      /\ readFlag' = [readFlag EXCEPT ![writer.idx][writer.reset + 1] = FALSE]
      /\ writer' = [writer EXCEPT !.reset = @ + 1, !.pc = IF writer.reset + 1 = NumLocal THEN "commit" ELSE @]
      /\ UNCHANGED <<written, data, sock, subscribed, reader, published, delivered>>
  BY DEF ResetFlag, ResetCount
<1>3. /\ writer'.pc = (IF writer.reset + 1 = NumLocal THEN "commit" ELSE "reset")
      /\ writer'.idx = writer.idx /\ writer'.size = writer.size /\ writer'.reset = writer.reset + 1
  BY <1>1, <1>2 DEF WriterStates
<1>4. \A c \in Chunks : c # writer.idx => readFlag'[c] = readFlag[c]
  BY <1>1, <1>2
<1>5. ASSUME NEW r \in Local, r <= writer.reset + 1 PROVE ~ readFlag'[writer.idx][r]
  <2>1. NumLocal \in Nat /\ r \in Nat
    BY Constants DEF Local
  <2>2. CASE r = writer.reset + 1
    BY <1>1, <1>2, <2>2
  <2>3. CASE r # writer.reset + 1
    <3>1. r <= writer.reset
      BY <1>1, <1>5, <2>1, <2>3
    <3>2. ~ readFlag[writer.idx][r]
      BY <1>2, <3>1 DEF RInv, WritingInv
    <3>3. readFlag'[writer.idx][r] = readFlag[writer.idx][r]
      BY <1>1, <1>2, <2>3
    <3> QED
      BY <3>2, <3>3
  <2> QED
    BY <2>2, <2>3
<1>6. WritingInv'
  <2>1. writer.reset + 1 = NumLocal => \A r \in Local : r <= writer.reset + 1
    BY Constants DEF Local
  <2> QED
    BY <1>2, <1>3, <1>5, <2>1 DEF RInv, WritingInv, Big
<1>7. {writer.pc, writer'.pc} \subseteq WritingPcs
  BY <1>2, <1>3 DEF WritingPcs
<1>8. {writer.pc, writer'.pc} \cap {"local", "remote", "sendLocal", "sendRemote"} = {}
  BY <1>2, <1>3
<1> QED
  BY <1>1, <1>2, <1>3, <1>4, <1>6, <1>7, <1>8, WritingAhead, WriterFrame

LEMMA CommitRInv ==
  ASSUME RInv, Commit
  PROVE  RInv'
<1>0. /\ IInv' /\ writer \in WriterStates /\ writer.idx \in Chunks /\ published \in Nat
      /\ written \in [Chunks -> BOOLEAN] /\ MaxChunks \in Nat \ {0}
  BY CommitIInv, StateFacts DEF RInv
<1>1. /\ writer.pc = "commit" /\ written' = [written EXCEPT ![writer.idx] = TRUE]
      /\ published' = published + 1
      /\ UNCHANGED <<readFlag, data, sock, subscribed, reader, delivered>>
  BY DEF Commit
<1>2. /\ writer'.idx = NextChunk(writer.idx) /\ writer'.size = writer.size
      /\ writer'.pc = IF Big(writer.size) THEN "sendLocal" ELSE "sendRemote"
  BY <1>0 DEF Commit, WriterStates
<1>3. writer.pc \in WritingPcs /\ writer'.pc \notin WritingPcs /\ writer'.pc \notin {"local", "remote"}
  BY <1>1, <1>2 DEF WritingPcs
<1>4. \A r \in Readers : /\ Got(r)' = Got(r) /\ Marked(r)' = Marked(r) /\ Mail(r)' = Mail(r)
                         /\ Got(r) \in Nat /\ Marked(r) \in Nat
  BY <1>1, SameReader, GotFacts DEF RInv
<1>5. writer.idx = published % MaxChunks /\ ChunkOf(published + 1) = writer.idx
  BY <1>0, ChunkFacts DEF RInv, Places
<1>6. ASSUME NEW r \in Local
      PROVE  /\ reader'[r].idx = Marked(r)' % MaxChunks /\ Marked(r)' <= published
             /\ published' <= Marked(r)' + MaxChunks /\ r \in Readers
             /\ Marked(r)' <= published'
  BY <1>0, <1>1, <1>3, <1>4, Constants DEF RInv, Places
<1>7. Places'
  <2>1. writer'.idx = published' % MaxChunks
    BY <1>0, <1>1, <1>2, <1>5, ChunkFacts
  <2> QED
    BY <1>1, <1>3, <1>6, <2>1 DEF RInv, Places
<1>8. /\ data[writer.idx].overflow <=> Big(writer.size)
      /\ ~ Big(writer.size) => data[writer.idx].obj = published + 1
      /\ \A r \in Local : ~ readFlag[writer.idx][r]
  BY <1>1 DEF RInv, WritingInv
<1>9. RingInv'
  <2>1. ASSUME NEW m \in 1 .. published', InRing(m)' PROVE Chunked(m)'
    <3>1. CASE m = published + 1
      <4>1. written'[writer.idx]
        BY <1>0, <1>1
      <4>2. \A r \in Local : ~ (m <= Marked(r)')
        BY <1>0, <1>4, <1>6, <3>1
      <4>3. ChunkOf(m) = writer.idx
        BY <1>5, <3>1
      <4> QED
        BY <1>1, <1>8, <3>1, <4>1, <4>2, <4>3 DEF Chunked
    <3>2. CASE m # published + 1
      <4>1. m \in 1 .. published /\ m \in Nat \ {0} /\ m <= published /\ published + 1 < m + MaxChunks
        BY <1>0, <1>1, <2>1, <3>2 DEF InRing
      <4>2. Chunked(m) /\ ChunkOf(m) # writer.idx /\ ChunkOf(m) \in Chunks
        BY <1>0, <4>1, Elsewhere DEF RInv, RingInv, InRing
      <4>3. written'[ChunkOf(m)] = written[ChunkOf(m)]
        BY <1>0, <1>1, <4>2
      <4> QED
        BY <1>1, <1>4, <4>2, <4>3, Constants DEF Chunked
    <3> QED
      BY <3>1, <3>2
  <2>2. ASSUME NEW c \in Chunks, c >= published' PROVE ~ written'[c]
    <3>1. c \in Nat /\ c < MaxChunks
      BY <1>0 DEF Chunks
    <3>2. published < MaxChunks /\ c >= published /\ c # published
      BY <1>0, <1>1, <2>2, <3>1
    <3>3. c # writer.idx
      BY <1>0, <1>5, <3>2, ChunkFacts
    <3>4. ~ written[c]
      BY <3>2 DEF RInv, RingInv
    <3> QED
      BY <1>0, <1>1, <3>3, <3>4
  <2> QED
    BY <2>1, <2>2 DEF RingInv
<1>10. WritingInv'
  <2>1. published' >= 1 /\ ChunkOf(published') = writer.idx
    BY <1>0, <1>1, <1>5
  <2> QED
    BY <1>1, <1>2, <1>8, <2>1 DEF WritingInv
<1>11. ASSUME NEW r \in Readers PROVE GreetingInv(r)'
  BY <1>1, <1>3, <1>4 DEF RInv, GreetingInv
<1>12. ASSUME NEW r \in Local PROVE ReadingInv(r)' /\ LocalMail(r)'
  <2>0. r \in Readers /\ ReadingInv(r) /\ LocalMail(r) /\ Marked(r) \in Nat
    BY <1>4, Constants DEF RInv
  <2>1. ReadingInv(r)'
    BY <1>0, <1>1, <1>4, <2>0 DEF ReadingInv
  <2>2. Sent = published
    BY <1>1 DEF Sent
  <2>3. CASE Big(writer.size)
    <3>1. Sent' = Sent /\ Sent \in Int
      BY <1>0, <1>1, <1>2, <2>2, <2>3 DEF Sent
    <3> QED
      BY <1>1, <1>4, <2>0, <2>1, <3>1, SameLocalMail
  <2>4. CASE ~ Big(writer.size)
    <3>1. Sent' = published + 1
      BY <1>0, <1>1, <1>2, <2>4 DEF Sent
    <3>2. \A i \in 1 .. Len(Mail(r)) : Got(r) < Mail(r)[i] /\ Mail(r)[i] <= published /\ Mail(r)[i] \in Nat
      BY <2>0, <2>2, ElementOfSeq DEF LocalMail
    <3>3. ASSUME NEW m \in 1 .. published + 1, m > Got(r)
          PROVE  (\E i \in 1 .. Len(Mail(r)) : Mail(r)[i] = m) <=> m <= Marked(r) \/ data[ChunkOf(m)].overflow
      <4>1. CASE m = published + 1
        <5>1. ~ (m <= Marked(r)) /\ ~ data[ChunkOf(m)].overflow
          BY <1>0, <1>4, <1>5, <1>6, <1>8, <2>0, <2>4, <4>1
        <5>2. \A i \in 1 .. Len(Mail(r)) : Mail(r)[i] # m
          BY <1>0, <3>2, <4>1
        <5> QED
          BY <5>1, <5>2
      <4>2. CASE m # published + 1
        <5>1. m \in 1 .. Sent
          BY <1>0, <2>2, <4>2
        <5> QED
          BY <2>0, <3>3, <5>1 DEF LocalMail
      <4> QED
        BY <4>1, <4>2
    <3>4. \A i \in 1 .. Len(Mail(r)) : Got(r) < Mail(r)[i] /\ Mail(r)[i] <= published + 1
      BY <1>0, <3>2
    <3>6. Got(r) <= published + 1
      BY <1>0, <1>4, <2>0, <2>2 DEF LocalMail
    <3>5. LocalMail(r)'
      BY <1>1, <1>4, <2>0, <3>1, <3>3, <3>4, <3>6 DEF LocalMail
    <3> QED
      BY <2>1, <3>5
  <2> QED
    BY <2>3, <2>4
<1>13. ASSUME NEW r \in Remote PROVE RemoteMail(r)'
  <2>0. r \in Readers /\ RemoteMail(r) /\ Got(r) \in Nat
    BY <1>4, Constants DEF RInv
  <2>1. \A i \in 1 .. Len(Mail(r)) : Mail(r)[i] \in Nat
    BY <2>0, ElementOfSeq DEF RemoteMail
  <2> QED
    BY <1>0, <1>1, <1>4, <2>0, <2>1 DEF RemoteMail
<1> QED
  BY <1>0, <1>7, <1>9, <1>10, <1>11, <1>12, <1>13 DEF RInv



-----------------------------------------------------------------------------
(* The sockets *)

LEMMA AppendRising ==
  ASSUME NEW s \in Seq(Nat), Rising(s), NEW p \in Nat, \A i \in 1 .. Len(s) : s[i] < p
  PROVE  /\ Append(s, p) \in Seq(Nat) /\ Rising(Append(s, p)) /\ Len(Append(s, p)) = Len(s) + 1
         /\ Append(s, p)[Len(s) + 1] = p /\ \A i \in 1 .. Len(s) : Append(s, p)[i] = s[i]
<1> DEFINE t == Append(s, p)
<1>1. /\ t \in Seq(Nat) /\ Len(t) = Len(s) + 1 /\ t[Len(s) + 1] = p
      /\ \A i \in 1 .. Len(s) : t[i] = s[i]
  BY AppendProperties
<1>2. Len(s) \in Nat /\ \A i \in 1 .. Len(s) : s[i] \in Nat
  BY LenProperties, ElementOfSeq
<1> HIDE DEF t
<1>3. ASSUME NEW i \in 1 .. Len(t), NEW j \in 1 .. Len(t), i < j PROVE t[i] + (j - i) <= t[j]
  <2>0. i \in 1 .. Len(s) /\ t[i] = s[i] /\ s[i] \in Nat
    BY <1>1, <1>2, <1>3
  <2>1. CASE j \in 1 .. Len(s)
    BY <1>1, <1>3, <2>0, <2>1 DEF Rising
  <2>2. CASE j = Len(s) + 1
    <3>0. Len(s) \in 1 .. Len(s) /\ s[Len(s)] \in Nat /\ s[Len(s)] < p
      BY <1>2, <2>0
    <3>1. s[i] + (Len(s) - i) <= s[Len(s)]
      <4>1. CASE i = Len(s)
        BY <2>0, <3>0, <4>1
      <4>2. CASE i # Len(s)
        BY <1>2, <2>0, <3>0, <4>2 DEF Rising
      <4> QED
        BY <4>1, <4>2
    <3>2. t[j] = p
      BY <1>1, <2>2
    <3> QED
      BY <1>2, <2>0, <2>2, <3>0, <3>1, <3>2
  <2> QED
    BY <1>1, <1>2, <2>1, <2>2
<1>4. Rising(t)
  BY <1>3 DEF Rising
<1> QED
  BY <1>1, <1>4 DEF t

\* The first of a rising sequence, and the rest.
LEMMA TailRising ==
  ASSUME NEW s \in Seq(Nat), Rising(s), s # << >>
  PROVE  /\ Head(s) = s[1] /\ s[1] \in Nat /\ 1 \in 1 .. Len(s)
         /\ Tail(s) \in Seq(Nat) /\ Rising(Tail(s)) /\ Len(Tail(s)) = Len(s) - 1
         /\ \A i \in 1 .. Len(Tail(s)) : i + 1 \in 1 .. Len(s) /\ Tail(s)[i] = s[i + 1] /\ s[1] < Tail(s)[i]
<1> DEFINE t == Tail(s)
<1>1. Len(s) \in Nat \ {0} /\ \A i \in 1 .. Len(s) : s[i] \in Nat
  BY EmptySeq, ElementOfSeq
<1>2. t \in Seq(Nat) /\ Len(t) = Len(s) - 1 /\ \A i \in 1 .. Len(t) : t[i] = s[i + 1]
  BY HeadTailProperties
<1>3. Head(s) = s[1] /\ 1 \in 1 .. Len(s) /\ s[1] \in Nat
  BY <1>1
<1> HIDE DEF t
<1>4. ASSUME NEW i \in 1 .. Len(t) PROVE i + 1 \in 1 .. Len(s) /\ t[i] = s[i + 1] /\ s[1] < t[i]
  <2>1. i + 1 \in 1 .. Len(s) /\ 1 < i + 1 /\ (i + 1) - 1 = i /\ i >= 1 /\ i \in Nat
    BY <1>1, <1>2
  <2>2. s[1] + i <= s[i + 1] /\ s[i + 1] \in Nat
    BY <1>1, <1>3, <2>1 DEF Rising
  <2> QED
    BY SMTT(30), <1>2, <1>3, <2>1, <2>2
<1>5. ASSUME NEW i \in 1 .. Len(t), NEW j \in 1 .. Len(t), i < j PROVE t[i] + (j - i) <= t[j]
  <2>1. i + 1 \in 1 .. Len(s) /\ j + 1 \in 1 .. Len(s) /\ i + 1 < j + 1 /\ (j + 1) - (i + 1) = j - i
    BY <1>1, <1>2, <1>5
  <2>2. s[i + 1] + (j - i) <= s[j + 1]
    BY <2>1 DEF Rising
  <2> QED
    BY <1>2, <2>2
<1>6. Rising(t)
  BY <1>5 DEF Rising
<1> QED
  BY <1>2, <1>3, <1>4, <1>6 DEF t

\* A rising sequence between two bounds is no longer than they are apart.
LEMMA RisingLength ==
  ASSUME NEW s \in Seq(Nat), Rising(s), NEW a \in Nat, NEW b \in Nat, a <= b,
         \A i \in 1 .. Len(s) : a < s[i] /\ s[i] <= b
  PROVE  Len(s) \in Nat /\ a + Len(s) <= b
<1>1. Len(s) \in Nat /\ \A i \in 1 .. Len(s) : s[i] \in Nat
  BY LenProperties, ElementOfSeq
<1>2. CASE Len(s) = 0
  BY <1>2
<1>3. CASE Len(s) # 0
  <2>1. 1 \in 1 .. Len(s) /\ Len(s) \in 1 .. Len(s)
    BY <1>1, <1>3
  <2>2. s[1] \in Nat /\ s[Len(s)] \in Nat /\ a < s[1] /\ s[Len(s)] <= b
    BY <1>1, <2>1
  <2>3. s[1] + (Len(s) - 1) <= s[Len(s)]
    <3>1. CASE Len(s) = 1
      BY <2>2, <3>1
    <3>2. CASE Len(s) # 1
      BY <1>1, <1>3, <2>1, <3>2 DEF Rising
    <3> QED
      BY <3>1, <3>2
  <2> QED
    BY <1>1, <2>2, <2>3
<1> QED
  BY <1>2, <1>3, <1>1

\* n_local_reader and n_remote_reader subscriptions are those of all readers.
LEMMA Joined ==
  ASSUME NEW G, IsFiniteSet(G), AllJoined(G)
  PROVE  G \subseteq subscribed
<1>1. subscribed \cap G \in SUBSET G
  OBVIOUS
<1>2. Cardinality(G) = Cardinality(subscribed \cap G)
  BY DEF AllJoined
<1>3. G = subscribed \cap G
  BY <1>1, <1>2, FS_Subset
<1> QED
  BY <1>3

LEMMA FiniteGroups == IsFiniteSet(Local) /\ IsFiniteSet(Remote)
<1>1. 1 \in Int /\ NumLocal \in Int
  BY Constants
<1>2. IsFiniteSet(1 .. NumLocal)
  BY <1>1, FS_Interval
<1> QED
  BY <1>2, ShmAssumption DEF Local

LEMMA MailGrows ==
  ASSUME IInv, NEW r \in Readers, NEW x, sock'[r] = Append(sock[r], x), x \in 0 .. MaxMessages \cup {READY},
         reader'[r] = reader[r], reader[r].pc # "connect",
         reader[r].pc = "ready" => sock[r] # << >>
  PROVE  Mail(r)' = Append(Mail(r), x) /\ sock'[r] # << >>
<1> DEFINE S == 0 .. MaxMessages \cup {READY}
<1>1. sock[r] \in Seq(S)
  BY DEF IInv, Shapes
<1> HIDE DEF S
<1>2. Append(sock[r], x) # << >>
  BY <1>1, AppendProperties DEF S
<1>3. sock[r] # << >> => Tail(Append(sock[r], x)) = Append(Tail(sock[r]), x)
  BY <1>1, HeadTailAppend
<1> QED
  BY <1>2, <1>3 DEF Mail

\* A message to a group: the others' sockets stay, a subscriber's grows unless full.
LEMMA PublishTo ==
  ASSUME NEW G, NEW x, Publish(G, x), NEW r \in Readers
  PROVE  /\ r \notin G => sock'[r] = sock[r]
         /\ r \in G /\ r \in subscribed /\ Len(sock[r]) < HighWater => sock'[r] = Append(sock[r], x)
         /\ sock'[r] = sock[r] \/ sock'[r] = Append(sock[r], x)
BY DEF Publish

\* A step of the writer on the sockets only.
LEMMA SendFrame ==
  ASSUME RInv, UNCHANGED <<written, readFlag, data, subscribed, reader, published, delivered>>,
         writer'.idx = writer.idx, {writer.pc, writer'.pc} \cap WritingPcs = {}
  PROVE  /\ Places' /\ RingInv' /\ \A r \in Local : ReadingInv(r)'
         /\ \A r \in Readers : /\ Got(r)' = Got(r) /\ Marked(r)' = Marked(r)
                               /\ Got(r) \in Nat /\ Marked(r) \in Nat
<1>1. \A r \in Readers : /\ Got(r)' = Got(r) /\ Marked(r)' = Marked(r)
                         /\ Got(r) \in Nat /\ Marked(r) \in Nat
  BY GotFacts DEF RInv, Got, Marked
<1>2. Places'
  BY <1>1, Constants DEF RInv, Places
<1>3. RingInv'
  <2>1. ASSUME NEW m \in 1 .. published, InRing(m)' PROVE Chunked(m)'
    <3>1. InRing(m)
      BY <2>1 DEF InRing
    <3>2. Chunked(m)
      BY <3>1 DEF RInv, RingInv
    <3> QED
      BY <1>1, <3>2, Constants DEF Chunked
  <2> QED
    BY <2>1 DEF RInv, RingInv
<1>4. ASSUME NEW r \in Local PROVE ReadingInv(r)'
  BY <1>1, Constants DEF RInv, ReadingInv
<1> QED
  BY <1>1, <1>2, <1>3, <1>4


LEMMA GreetRInv ==
  ASSUME RInv, GreetLocal \/ GreetRemote
  PROVE  RInv'
<1>0. IInv' /\ writer \in WriterStates /\ published \in Nat
  BY GreetIInv, StateFacts DEF RInv
<1>1. PICK G \in {Local, Remote} :
        /\ AllJoined(G) /\ Publish(G, READY)
        /\ G = Local => writer.pc = "local" /\ writer'.pc = "remote"
        /\ G # Local => G = Remote /\ writer.pc = "remote" /\ writer'.pc = "idle"
        /\ writer'.idx = writer.idx
        /\ UNCHANGED <<written, readFlag, data, subscribed, reader, published, delivered>>
  <2>1. CASE GreetLocal
    BY <1>0, <2>1 DEF GreetLocal, ring, WriterStates
  <2>2. CASE GreetRemote
    <3>1. Remote # Local
      BY Constants DEF Local
    <3> QED
      BY <1>0, <2>2, <3>1 DEF GreetRemote, ring, WriterStates
  <2> QED
    BY <2>1, <2>2
<1>2. {writer.pc, writer'.pc} \cap WritingPcs = {}
  BY <1>1 DEF WritingPcs
<1>3. /\ Places' /\ RingInv' /\ \A r \in Local : ReadingInv(r)'
      /\ \A r \in Readers : /\ Got(r)' = Got(r) /\ Marked(r)' = Marked(r)
                            /\ Got(r) \in Nat /\ Marked(r) \in Nat
  BY <1>1, <1>2, SendFrame
<1>4. WritingInv'
  BY <1>1 DEF WritingInv
<1>5. G \subseteq subscribed
  BY <1>1, FiniteGroups, Joined
<1>6. ASSUME NEW r \in Readers PROVE GreetingInv(r)' /\ Mail(r)' = Mail(r)
  <2>0. GreetingInv(r) /\ (r \in Local <=> r \notin Remote)
    BY Constants DEF RInv, Readers
  <2>1. CASE r \in G
    <3>1. reader[r].pc = "ready" /\ sock[r] = << >> /\ Got(r) = 0 /\ r \in subscribed
      BY <1>1, <1>5, <2>0, <2>1, Constants DEF GreetingInv
    <3>2. Len(sock[r]) < HighWater
      BY <3>1, EmptySeq, ShmAssumption
    <3>3. sock'[r] = Append(<< >>, READY)
      BY <1>1, <2>1, <3>1, <3>2, PublishTo
    <3>4. sock'[r] = <<READY>> /\ Tail(<<READY>>) = << >> /\ <<READY>> # << >>
      BY <3>3
    <3>5. Mail(r)' = Mail(r)
      BY <1>1, <3>1, <3>4 DEF Mail
    <3>6. GreetingInv(r)'
      BY <1>1, <1>3, <2>0, <2>1, <3>1, <3>4 DEF GreetingInv
    <3> QED
      BY <3>5, <3>6
  <2>2. CASE r \notin G
    <3>1. sock'[r] = sock[r]
      BY <1>1, <2>2, PublishTo
    <3>2. Mail(r)' = Mail(r)
      BY <1>1, <3>1 DEF Mail
    <3>3. GreetingInv(r)'
      BY <1>1, <1>3, <2>0, <2>2, <3>1 DEF GreetingInv
    <3> QED
      BY <3>2, <3>3
  <2> QED
    BY <2>1, <2>2
<1>7. Sent' = Sent /\ Sent \in Int
  BY <1>0, <1>1 DEF Sent
<1>8. ASSUME NEW r \in Local PROVE LocalMail(r)'
  BY <1>1, <1>3, <1>6, <1>7, Constants, SameLocalMail DEF RInv
<1>9. ASSUME NEW r \in Remote PROVE RemoteMail(r)'
  BY <1>1, <1>3, <1>6, Constants, SameRemoteMail DEF RInv
<1> QED
  BY <1>0, <1>3, <1>4, <1>6, <1>8, <1>9 DEF RInv

\* The socket of a local reader has room: it holds no more than the ring does.
LEMMA SendLocalRInv ==
  ASSUME RInv, SendLocal
  PROVE  RInv'
<1>0. IInv' /\ IInv /\ writer \in WriterStates /\ published \in Nat /\ MaxChunks \in Nat
  BY SendIInv, StateFacts DEF RInv
<1>1. /\ writer.pc = "sendLocal" /\ writer'.pc = "sendRemote" /\ writer'.idx = writer.idx
      /\ Publish(Local, writer.obj)
      /\ UNCHANGED <<written, readFlag, data, subscribed, reader, published, delivered>>
  BY <1>0 DEF SendLocal, ring, WriterStates
<1>2. {writer.pc, writer'.pc} \cap WritingPcs = {}
  BY <1>1 DEF WritingPcs
<1>3. /\ Places' /\ RingInv' /\ \A r \in Local : ReadingInv(r)'
      /\ \A r \in Readers : /\ Got(r)' = Got(r) /\ Marked(r)' = Marked(r)
                            /\ Got(r) \in Nat /\ Marked(r) \in Nat
  BY <1>1, <1>2, SendFrame
<1>4. WritingInv' /\ published >= 1 /\ data[ChunkOf(published)].overflow
  BY <1>1 DEF RInv, WritingInv
<1>5. writer.obj = published /\ published \in 0 .. MaxMessages
  BY <1>0, <1>1 DEF IInv, OneAhead, WritingPcs, Shapes
<1>6. Sent = published - 1 /\ Sent' = published /\ Sent \in Nat
  BY <1>0, <1>1, <1>4 DEF Sent
<1>7. ASSUME NEW r \in Remote PROVE RemoteMail(r)' /\ GreetingInv(r)'
  <2>1. r \in Readers /\ r \notin Local
    BY Constants
  <2>2. sock'[r] = sock[r]
    BY <1>1, <2>1, PublishTo
  <2>3. Mail(r)' = Mail(r)
    BY <1>1, <2>2 DEF Mail
  <2> QED
    BY <1>1, <1>3, <2>1, <2>2, <2>3, SameRemoteMail, SameGreeting DEF RInv
<1>8. ASSUME NEW r \in Local PROVE LocalMail(r)' /\ GreetingInv(r)'
  <2>0. r \in Readers /\ GreetingInv(r) /\ LocalMail(r) /\ Got(r) \in Nat /\ Marked(r) \in Nat
    BY <1>3, Constants DEF RInv
  <2>1. r \in subscribed /\ reader[r].pc # "connect" /\ (reader[r].pc = "ready" => sock[r] # << >> /\ Got(r) = 0)
    BY <1>1, <2>0 DEF GreetingInv
  <2> DEFINE s == Mail(r)
  <2>2. /\ s \in Seq(Nat) /\ Rising(s) /\ Got(r) <= Sent
        /\ \A i \in 1 .. Len(s) : Got(r) < s[i] /\ s[i] <= Sent
    BY <2>0 DEF LocalMail
  <2>3. Len(s) \in Nat /\ Got(r) + Len(s) <= published - 1
    BY <1>6, <2>0, <2>2, RisingLength
  <2>4. published <= Marked(r) + MaxChunks
    BY DEF RInv, Places
  <2>5. Len(sock[r]) <= MaxChunks
    <3>1. CASE reader[r].pc = "ready"
      <4>1. s = Tail(sock[r]) /\ Marked(r) = Got(r)
        BY <2>1, <3>1 DEF Mail, Marked
      <4>2. sock[r] \in Seq(0 .. MaxMessages \cup {READY})
        BY <1>0, <2>0 DEF IInv, Shapes
      <4>3. Len(s) = Len(sock[r]) - 1 /\ Len(sock[r]) \in Nat
        BY <2>1, <3>1, <4>1, <4>2, HeadTailProperties, LenProperties
      <4> QED
        BY <1>0, <2>0, <2>3, <2>4, <4>1, <4>3
    <3>2. CASE reader[r].pc # "ready"
      <4>1. s = sock[r] /\ Marked(r) <= Got(r) + 1
        BY <2>0, <2>1, <3>2 DEF Mail, Marked
      <4> QED
        BY <1>0, <2>0, <2>3, <2>4, <4>1
    <3> QED
      BY <3>1, <3>2
  <2>6. Len(sock[r]) < HighWater
    <3>1. Len(sock[r]) \in Nat /\ HighWater \in Nat /\ HighWater > MaxChunks
      BY <1>0, <2>0, LenProperties, ShmAssumption DEF IInv, Shapes
    <3> QED
      BY <1>0, <2>5, <3>1
  <2>7. sock'[r] = Append(sock[r], published)
    BY <1>1, <1>5, <2>0, <2>1, <2>6, PublishTo
  <2> DEFINE t == Append(s, published)
  <2>8. Mail(r)' = t /\ sock'[r] # << >>
    BY <1>0, <1>1, <1>5, <2>0, <2>1, <2>7, MailGrows
  <2>9. \A i \in 1 .. Len(s) : s[i] \in Nat /\ s[i] < published
    BY <1>0, <1>6, <2>2, ElementOfSeq
  <2> HIDE DEF s
  <2>10. /\ t \in Seq(Nat) /\ Rising(t) /\ Len(t) = Len(s) + 1
         /\ t[Len(s) + 1] = published /\ \A i \in 1 .. Len(s) : t[i] = s[i]
    BY <1>0, <2>2, <2>9, AppendRising
  <2> HIDE DEF t
  <2>11. Got(r) < published /\ Got(r) <= published
    BY <1>0, <1>6, <2>0, <2>2
  <2>12. ASSUME NEW i \in 1 .. Len(t) PROVE Got(r) < t[i] /\ t[i] <= published
    <3>1. CASE i \in 1 .. Len(s)
      BY SMTT(30), <1>0, <2>0, <2>2, <2>9, <2>10, <3>1
    <3>2. CASE i = Len(s) + 1
      BY <1>0, <2>0, <2>10, <2>11, <3>2
    <3> QED
      BY <2>3, <2>10, <3>1, <3>2
  <2>13. ASSUME NEW m \in 1 .. published, m > Got(r)
         PROVE  (\E i \in 1 .. Len(t) : t[i] = m) <=> m <= Marked(r) \/ data[ChunkOf(m)].overflow
    <3>1. CASE m = published
      <4>1. Len(s) + 1 \in 1 .. Len(t)
        BY <2>3, <2>10
      <4> QED
        BY <1>4, <2>10, <3>1, <4>1
    <3>2. CASE m # published
      <4>1. m \in 1 .. Sent
        BY <1>0, <1>6, <3>2
      <4>2. (\E i \in 1 .. Len(s) : s[i] = m) <=> m <= Marked(r) \/ data[ChunkOf(m)].overflow
        BY <2>0, <2>13, <4>1 DEF LocalMail, s
      <4>3. ASSUME NEW i \in 1 .. Len(s), s[i] = m PROVE i \in 1 .. Len(t) /\ t[i] = m
        BY <2>3, <2>10, <4>3
      <4>4. ASSUME NEW i \in 1 .. Len(t), t[i] = m PROVE i \in 1 .. Len(s) /\ s[i] = m
        <5>1. i # Len(s) + 1
          BY <2>10, <3>2, <4>4
        <5>2. i \in 1 .. Len(s)
          BY <2>3, <2>10, <5>1
        <5> QED
          BY <2>10, <4>4, <5>2
      <4> QED
        BY <4>2, <4>3, <4>4
    <3> QED
      BY <3>1, <3>2
  <2>14. LocalMail(r)'
    BY <1>1, <1>3, <1>6, <2>0, <2>8, <2>10, <2>11, <2>12, <2>13 DEF LocalMail
  <2>15. GreetingInv(r)'
    BY <1>1, <1>3, <2>0, <2>8 DEF GreetingInv
  <2> QED
    BY <2>14, <2>15
<1> QED
  BY <1>0, <1>3, <1>4, <1>7, <1>8 DEF RInv, Readers

LEMMA SendRemoteRInv ==
  ASSUME RInv, SendRemote
  PROVE  RInv'
<1>0. IInv' /\ IInv /\ writer \in WriterStates /\ published \in Nat
  BY SendIInv, StateFacts DEF RInv
<1>1. /\ writer.pc = "sendRemote" /\ writer'.pc = "idle" /\ writer'.idx = writer.idx
      /\ Publish(Remote, writer.obj)
      /\ UNCHANGED <<written, readFlag, data, subscribed, reader, published, delivered>>
  BY <1>0 DEF SendRemote, ring, WriterStates
<1>2. {writer.pc, writer'.pc} \cap WritingPcs = {}
  BY <1>1 DEF WritingPcs
<1>3. /\ Places' /\ RingInv' /\ \A r \in Local : ReadingInv(r)'
      /\ \A r \in Readers : /\ Got(r)' = Got(r) /\ Marked(r)' = Marked(r)
                            /\ Got(r) \in Nat /\ Marked(r) \in Nat
  BY <1>1, <1>2, SendFrame
<1>4. WritingInv'
  BY <1>1 DEF WritingInv
<1>5. writer.obj = published /\ published \in 0 .. MaxMessages
  BY <1>0, <1>1 DEF IInv, OneAhead, WritingPcs, Shapes
<1>6. Sent = published /\ Sent' = published /\ Sent \in Int
  BY <1>0, <1>1 DEF Sent
<1>7. ASSUME NEW r \in Local PROVE LocalMail(r)' /\ GreetingInv(r)'
  <2>1. r \in Readers /\ r \notin Remote
    BY Constants
  <2>2. sock'[r] = sock[r]
    BY <1>1, <2>1, PublishTo
  <2>3. Mail(r)' = Mail(r)
    BY <1>1, <2>2 DEF Mail
  <2> QED
    BY <1>1, <1>3, <1>6, <2>1, <2>2, <2>3, SameLocalMail, SameGreeting DEF RInv
<1>8. ASSUME NEW r \in Remote PROVE RemoteMail(r)' /\ GreetingInv(r)'
  <2>0. r \in Readers /\ GreetingInv(r) /\ RemoteMail(r) /\ Got(r) \in Nat
    BY <1>3, Constants DEF RInv
  <2>1. r \in subscribed /\ reader[r].pc # "connect" /\ (reader[r].pc = "ready" => sock[r] # << >>)
    BY <1>1, <2>0 DEF GreetingInv
  <2> DEFINE s == Mail(r)
  <2>2. /\ s \in Seq(Nat) /\ Rising(s) /\ Got(r) < published /\ Got(r) <= published
        /\ \A i \in 1 .. Len(s) : Got(r) < s[i] /\ s[i] < published
    BY <1>1, <2>0 DEF RemoteMail
  <2>3. CASE sock'[r] = sock[r]
    <3>1. Mail(r)' = Mail(r)
      BY <1>1, <2>3 DEF Mail
    <3> QED
      BY <1>1, <1>3, <2>0, <2>3, <3>1, SameRemoteMail, SameGreeting
  <2>4. CASE sock'[r] = Append(sock[r], published)
    <3> DEFINE t == Append(s, published)
    <3>1. Mail(r)' = t /\ sock'[r] # << >>
      BY <1>0, <1>1, <1>5, <2>0, <2>1, <2>4, MailGrows
    <3> HIDE DEF s
    <3>2. /\ t \in Seq(Nat) /\ Rising(t) /\ Len(t) = Len(s) + 1 /\ Len(s) \in Nat
          /\ t[Len(s) + 1] = published /\ \A i \in 1 .. Len(s) : t[i] = s[i] /\ s[i] \in Nat
      BY <1>0, <2>2, AppendRising, LenProperties, ElementOfSeq
    <3> HIDE DEF t
    <3>3. ASSUME NEW i \in 1 .. Len(t) PROVE Got(r) < t[i] /\ t[i] <= published
      <4>1. CASE i \in 1 .. Len(s)
        <5>1. t[i] = s[i] /\ s[i] \in Nat
          BY <3>2, <4>1
        <5>2. Got(r) < s[i] /\ s[i] < published
          BY <2>2, <4>1
        <5> QED
          BY <1>0, <5>1, <5>2
      <4>2. CASE i = Len(s) + 1
        BY <1>0, <2>0, <2>2, <3>2, <4>2
      <4> QED
        BY <3>2, <4>1, <4>2
    <3>4. RemoteMail(r)'
      BY <1>1, <1>3, <2>0, <2>2, <3>1, <3>2, <3>3 DEF RemoteMail
    <3>5. GreetingInv(r)'
      BY <1>1, <1>3, <2>0, <3>1 DEF GreetingInv
    <3> QED
      BY <3>4, <3>5
  <2> QED
    BY <1>1, <1>5, <2>0, <2>3, <2>4, PublishTo
<1> QED
  BY <1>0, <1>3, <1>4, <1>7, <1>8 DEF RInv, Readers



-----------------------------------------------------------------------------
(* The readers' steps *)

\* A step of one reader: the others, the writer and the bytes of the chunks stay.
LEMMA ReaderFrame ==
  ASSUME RInv, IInv', NEW r \in Readers, UNCHANGED <<written, data, writer, published>>,
         \A q \in Readers : q # r =>
           /\ reader'[q] = reader[q] /\ delivered'[q] = delivered[q] /\ sock'[q] = sock[q]
           /\ q \in subscribed' <=> q \in subscribed,
         delivered' \in [Readers -> Seq(Nat)],
         GreetingInv(r)',
         r \in Local => /\ reader'[r].idx = Marked(r)' % MaxChunks /\ Marked(r)' \in Nat
                        /\ Marked(r) <= Marked(r)' /\ Marked(r)' <= published
                        /\ ReadingInv(r)' /\ LocalMail(r)',
         r \in Remote => RemoteMail(r)',
         \A m \in 1 .. published, q \in Local :
           InRing(m) => (readFlag'[ChunkOf(m)][q] <=> m <= Marked(q)'),
         writer.pc \in WritingPcs => readFlag'[writer.idx] = readFlag[writer.idx]
  PROVE  RInv'
<1>0. published \in Nat /\ MaxChunks \in Nat /\ Sent \in Nat
  BY StateFacts, SentFacts DEF RInv
<1>1. \A q \in Readers : q # r =>
        /\ Got(q)' = Got(q) /\ Marked(q)' = Marked(q) /\ Mail(q)' = Mail(q)
  BY SameReader
<1>2. \A q \in Readers : Got(q) \in Nat /\ Marked(q) \in Nat
  BY GotFacts DEF RInv
<1>3. ASSUME NEW q \in Local
      PROVE  /\ reader'[q].idx = Marked(q)' % MaxChunks
             /\ Marked(q)' <= published /\ published <= Marked(q)' + MaxChunks
             /\ writer.pc \in WritingPcs => published < Marked(q)' + MaxChunks
  <2>0. q \in Readers
    BY Constants
  <2>1. /\ reader[q].idx = Marked(q) % MaxChunks
        /\ Marked(q) <= published /\ published <= Marked(q) + MaxChunks
        /\ writer.pc \in WritingPcs => published < Marked(q) + MaxChunks
    BY DEF RInv, Places
  <2>2. CASE q = r
    BY <1>0, <1>2, <2>0, <2>1, <2>2
  <2>3. CASE q # r
    BY <1>1, <2>0, <2>1, <2>3
  <2> QED
    BY <2>2, <2>3
<1>4. Places'
  BY <1>3 DEF RInv, Places
<1>5. RingInv'
  <2>1. ASSUME NEW m \in 1 .. published, InRing(m)' PROVE Chunked(m)'
    <3>1. InRing(m)
      BY <2>1 DEF InRing
    <3>2. Chunked(m)
      BY <3>1 DEF RInv, RingInv
    <3> QED
      BY <3>1, <3>2 DEF Chunked
  <2> QED
    BY <2>1 DEF RInv, RingInv
<1>6. WritingInv'
  BY DEF RInv, WritingInv, WritingPcs
<1>7. ASSUME NEW q \in Readers PROVE GreetingInv(q)'
  <2>1. CASE q = r
    BY <2>1
  <2>2. CASE q # r
    BY <1>1, <2>2, SameGreeting DEF RInv
  <2> QED
    BY <2>1, <2>2
<1>8. ASSUME NEW q \in Local PROVE ReadingInv(q)' /\ LocalMail(q)'
  <2>0. q \in Readers /\ ReadingInv(q) /\ LocalMail(q)
    BY Constants DEF RInv
  <2>1. CASE q = r
    BY <2>1
  <2>2. CASE q # r
    <3>1. ReadingInv(q)'
      BY <1>1, <2>0, <2>2 DEF ReadingInv
    <3>2. Sent' = Sent
      BY DEF Sent
    <3>3. LocalMail(q)'
      BY <1>0, <1>1, <1>2, <2>0, <2>2, <3>2, SameLocalMail
    <3> QED
      BY <3>1, <3>3
  <2> QED
    BY <2>1, <2>2
<1>9. ASSUME NEW q \in Remote PROVE RemoteMail(q)'
  <2>0. q \in Readers /\ RemoteMail(q)
    BY Constants DEF RInv
  <2>1. CASE q = r
    BY <2>1
  <2>2. CASE q # r
    BY <1>1, <2>0, <2>2, SameRemoteMail
  <2> QED
    BY <2>1, <2>2
<1> QED
  BY <1>4, <1>5, <1>6, <1>7, <1>8, <1>9 DEF RInv

\* A step that leaves the ring and what the reader has marked.
LEMMA FlagsStay ==
  ASSUME RInv, readFlag' = readFlag, \A q \in Local : Marked(q)' = Marked(q)
  PROVE  /\ \A m \in 1 .. published, q \in Local :
              InRing(m) => (readFlag'[ChunkOf(m)][q] <=> m <= Marked(q)')
         /\ writer.pc \in WritingPcs => readFlag'[writer.idx] = readFlag[writer.idx]
BY DEF RInv, RingInv, Chunked

\* The other readers' state when reader' changes in one place.
LEMMA OtherReaders ==
  ASSUME IInv, NEW r \in Readers, NEW x, reader' = [reader EXCEPT ![r] = x]
  PROVE  reader'[r] = x /\ \A q \in Readers : q # r => reader'[q] = reader[q]
BY DEF IInv, Shapes

LEMMA ConnectRInv ==
  ASSUME RInv, NEW r \in Readers, Connect(r)
  PROVE  RInv'
<1>0. IInv /\ IInv' /\ reader[r] \in ReaderStates /\ published \in Nat
  BY SocketIInv, StateFacts DEF RInv
<1> DEFINE x == [reader[r] EXCEPT !.pc = "ready"]
<1>1. /\ reader[r].pc = "connect" /\ subscribed' = subscribed \cup {r}
      /\ reader' = [reader EXCEPT ![r] = x]
      /\ UNCHANGED <<written, readFlag, data, sock, writer, published, delivered>>
  BY DEF Connect, ring
<1>2. x.pc = "ready" /\ x.idx = reader[r].idx
  BY <1>0 DEF ReaderStates
<1> HIDE DEF x
<1>3. reader'[r] = x /\ \A q \in Readers : q # r => reader'[q] = reader[q]
  BY <1>0, <1>1, OtherReaders
<1>4. GreetingInv(r) /\ Got(r) \in Nat /\ Marked(r) \in Nat
  BY GotFacts DEF RInv
<1>5. sock[r] = << >> /\ Got(r) = 0 /\ r \notin subscribed
  BY <1>1, <1>4 DEF GreetingInv
<1>6. Got(r)' = Got(r) /\ Marked(r)' = Marked(r) /\ Mail(r)' = Mail(r)
  BY <1>1, <1>2, <1>3, <1>5 DEF Got, Marked, Mail
<1>7. GreetingInv(r)'
  BY <1>1, <1>2, <1>3, <1>4, <1>5, <1>6 DEF GreetingInv
<1>8. \A q \in Local : Marked(q)' = Marked(q)
  BY <1>1, <1>3, <1>6, Constants DEF Marked, Got
<1>9. ASSUME r \in Local
      PROVE  /\ reader'[r].idx = Marked(r)' % MaxChunks /\ Marked(r)' <= published
             /\ ReadingInv(r)' /\ LocalMail(r)'
  <2>1. Sent' = Sent /\ Sent \in Int
    BY <1>1, SentFacts DEF Sent
  <2>2. LocalMail(r)'
    BY <1>1, <1>4, <1>6, <1>9, <2>1, SameLocalMail DEF RInv
  <2> QED
    BY <1>2, <1>3, <1>6, <1>9, <2>2 DEF RInv, Places, ReadingInv, ReadingPcs
<1>10. ASSUME r \in Remote PROVE RemoteMail(r)'
  BY <1>1, <1>6, <1>10, SameRemoteMail DEF RInv
<1>11. delivered' \in [Readers -> Seq(Nat)]
  BY <1>1 DEF RInv, Places
<1>12. \A q \in Readers : q # r => (q \in subscribed' <=> q \in subscribed)
  BY <1>1
<1>13. Marked(r) <= Marked(r)' /\ Marked(r)' \in Nat
  BY <1>4, <1>6
<1> QED
  BY <1>0, <1>1, <1>3, <1>7, <1>8, <1>9, <1>10, <1>11, <1>12, <1>13, FlagsStay, ReaderFrame

LEMMA AwaitReadyRInv ==
  ASSUME RInv, NEW r \in Readers, AwaitReady(r)
  PROVE  RInv'
<1>0. IInv /\ IInv' /\ reader[r] \in ReaderStates /\ published \in Nat
  BY SocketIInv, StateFacts DEF RInv
<1> DEFINE x == [reader[r] EXCEPT !.pc = IF r \in Local THEN "flag" ELSE "recv"]
<1>1. /\ reader[r].pc = "ready" /\ sock[r] # << >> /\ sock' = [sock EXCEPT ![r] = Tail(@)]
      /\ reader' = [reader EXCEPT ![r] = x]
      /\ UNCHANGED <<written, readFlag, data, subscribed, writer, published, delivered>>
  BY DEF AwaitReady, ring
<1>2. x.pc = (IF r \in Local THEN "flag" ELSE "recv") /\ x.idx = reader[r].idx
  BY <1>0 DEF ReaderStates
<1> HIDE DEF x
<1>3. /\ reader'[r] = x /\ \A q \in Readers : q # r => reader'[q] = reader[q]
      /\ sock'[r] = Tail(sock[r]) /\ \A q \in Readers : q # r => sock'[q] = sock[q]
  BY <1>0, <1>1, OtherReaders DEF IInv, Shapes
<1>4. GreetingInv(r) /\ Got(r) \in Nat /\ Marked(r) \in Nat /\ (r \in Local <=> r \notin Remote)
  BY GotFacts, Constants DEF RInv, Readers
<1>5. Got(r) = 0 /\ r \in subscribed /\ writer.pc # "local" /\ (r \in Local \/ writer.pc # "remote")
  BY <1>1, <1>4 DEF GreetingInv
<1>6. Got(r)' = Got(r) /\ Mail(r)' = Mail(r) /\ (r \in Local => Marked(r)' = Marked(r))
  BY <1>1, <1>2, <1>3, <1>5 DEF Got, Marked, Mail
<1>7. GreetingInv(r)'
  BY <1>1, <1>2, <1>3, <1>4, <1>5, <1>6 DEF GreetingInv
<1>8. \A q \in Local : Marked(q)' = Marked(q)
  BY <1>1, <1>3, <1>6, Constants DEF Marked, Got
<1>9. ASSUME r \in Local
      PROVE  /\ reader'[r].idx = Marked(r)' % MaxChunks /\ Marked(r)' <= published
             /\ ReadingInv(r)' /\ LocalMail(r)' /\ Marked(r) <= Marked(r)' /\ Marked(r)' \in Nat
  <2>1. Sent' = Sent /\ Sent \in Int
    BY <1>1, SentFacts DEF Sent
  <2>2. LocalMail(r)'
    BY <1>1, <1>4, <1>6, <1>9, <2>1, SameLocalMail DEF RInv
  <2>3. Marked(r) <= Marked(r)' /\ Marked(r)' \in Nat
    BY <1>4, <1>6, <1>9
  <2> QED
    BY <1>2, <1>3, <1>6, <1>9, <2>2, <2>3 DEF RInv, Places, ReadingInv, ReadingPcs
<1>10. ASSUME r \in Remote PROVE RemoteMail(r)'
  BY <1>1, <1>6, <1>10, SameRemoteMail DEF RInv
<1>11. delivered' \in [Readers -> Seq(Nat)]
  BY <1>1 DEF RInv, Places
<1> QED
  BY <1>0, <1>1, <1>3, <1>7, <1>8, <1>9, <1>10, <1>11, FlagsStay, ReaderFrame

\* A load by a local reader.
LEMMA LoadFrame ==
  ASSUME RInv, IInv', NEW r \in Local, NEW x, reader' = [reader EXCEPT ![r] = x],
         UNCHANGED <<written, readFlag, data, sock, subscribed, writer, published, delivered>>,
         {reader[r].pc, x.pc} \subseteq {"flag", "written", "overflow", "payload", "mark"},
         x.idx = reader[r].idx, ReadingInv(r)'
  PROVE  RInv'
<1>0. r \in Readers /\ IInv /\ published \in Nat
  BY Constants, StateFacts DEF RInv
<1>1. reader'[r] = x /\ \A q \in Readers : q # r => reader'[q] = reader[q]
  BY <1>0, OtherReaders
<1>2. GreetingInv(r) /\ Got(r) \in Nat /\ Marked(r) \in Nat /\ r \notin Remote
  BY <1>0, GotFacts, Constants DEF RInv
<1>3. Got(r)' = Got(r) /\ Marked(r)' = Marked(r) /\ Mail(r)' = Mail(r)
  BY <1>1 DEF Got, Marked, Mail
<1>4. GreetingInv(r)'
  BY <1>1, <1>2, <1>3 DEF GreetingInv
<1>5. \A q \in Local : Marked(q)' = Marked(q)
  BY <1>1, <1>3, Constants DEF Marked, Got
<1>6. Sent' = Sent /\ Sent \in Int
  BY SentFacts DEF Sent
<1>7. LocalMail(r)'
  BY <1>2, <1>3, <1>6, SameLocalMail DEF RInv
<1>8. /\ reader'[r].idx = Marked(r)' % MaxChunks /\ Marked(r)' <= published
      /\ delivered' \in [Readers -> Seq(Nat)]
  BY <1>1, <1>3 DEF RInv, Places
<1>9. Marked(r) <= Marked(r)' /\ Marked(r)' \in Nat
  BY <1>2, <1>3
<1> QED
  BY <1>0, <1>1, <1>2, <1>4, <1>5, <1>7, <1>8, <1>9, FlagsStay, ReaderFrame


LEMMA LoadReadFlagRInv ==
  ASSUME RInv, NEW r \in Readers, LoadReadFlag(r)
  PROVE  RInv'
<1>0. IInv /\ IInv' /\ reader[r] \in ReaderStates
  BY LoadIInv, StateFacts DEF RInv
<1> DEFINE x == [reader[r] EXCEPT !.pc = "written", !.flag = readFlag[reader[r].idx][r]]
<1>1. /\ reader[r].pc = "flag" /\ reader' = [reader EXCEPT ![r] = x]
      /\ UNCHANGED <<written, readFlag, data, sock, subscribed, writer, published, delivered>>
  BY DEF LoadReadFlag, ring
<1>2. x.pc = "written" /\ x.idx = reader[r].idx
  BY <1>0 DEF ReaderStates
<1> HIDE DEF x
<1>3. r \in Local
  BY <1>0, <1>1 DEF IInv, RemoteOutside, Readers
<1>4. ReadingInv(r)'
  BY <1>0, <1>1, <1>2, OtherReaders DEF ReadingInv, ReadingPcs
<1> QED
  BY <1>0, <1>1, <1>2, <1>3, <1>4, LoadFrame

\* A written chunk whose flag the reader found down holds the next object.
LEMMA LoadWrittenFlagRInv ==
  ASSUME RInv, NEW r \in Readers, LoadWrittenFlag(r)
  PROVE  RInv'
<1>0. IInv /\ IInv' /\ reader[r] \in ReaderStates /\ published \in Nat /\ MaxChunks \in Nat
  BY LoadIInv, StateFacts DEF RInv
<1> DEFINE enter == written[reader[r].idx] /\ ~ reader[r].flag
           x == [reader[r] EXCEPT !.pc = IF enter THEN "overflow" ELSE "flag"]
<1>1. /\ reader[r].pc = "written" /\ reader' = [reader EXCEPT ![r] = x]
      /\ UNCHANGED <<written, readFlag, data, sock, subscribed, writer, published, delivered>>
  BY DEF LoadWrittenFlag, ring
<1>2. x.pc = (IF enter THEN "overflow" ELSE "flag") /\ x.idx = reader[r].idx
  BY <1>0 DEF ReaderStates
<1> HIDE DEF x
<1>3. r \in Local
  BY <1>0, <1>1 DEF IInv, RemoteOutside, Readers
<1>4. enter => Marked(r) < published
  <2> SUFFICES ASSUME enter, ~ (Marked(r) < published) PROVE FALSE
    OBVIOUS
  <2>1. Marked(r) \in Nat /\ Marked(r) <= published /\ reader[r].idx = Marked(r) % MaxChunks
    BY <1>3, GotFacts DEF RInv, Places
  <2>2. Marked(r) = published
    BY <1>0, <2>1
  <2>3. reader[r].idx = writer.idx
    BY <2>1, <2>2 DEF RInv, Places
  <2>4. ~ readFlag[writer.idx][r] /\ written[writer.idx]
    BY <1>0, <1>1, <1>3, <2>3 DEF IInv, ReaderHolds
  <2>5. writer.pc \notin WritingPcs
    BY <1>0, <2>4 DEF IInv, WriterHolds
  <2>6. CASE published >= MaxChunks
    <3>1. PICK m \in 1 .. published : ChunkOf(m) = writer.idx /\ Chunked(m)
      BY <2>5, <2>6, OldestChunk
    <3>2. m <= Marked(r)
      BY <1>0, <2>2, <3>1
    <3> QED
      BY <1>3, <2>4, <3>1, <3>2 DEF Chunked
  <2>7. CASE published < MaxChunks
    <3>1. writer.idx = published /\ writer.idx \in Chunks
      BY <1>0, <2>7, ChunkFacts, StateFacts DEF RInv, Places
    <3>2. published >= published
      BY <1>0
    <3> QED
      BY <2>4, <3>1, <3>2 DEF RInv, RingInv
  <2> QED
    BY <1>0, <2>6, <2>7
<1>5. reader'[r] = x
  BY <1>0, <1>1, OtherReaders
<1>6. Marked(r)' = Marked(r)
  BY <1>1, <1>2, <1>5 DEF Marked, Got
<1>7. ReadingInv(r)'
  <2>1. CASE enter
    BY <1>1, <1>2, <1>4, <1>5, <1>6, <2>1 DEF ReadingInv
  <2>2. CASE ~ enter
    BY <1>2, <1>5, <2>2 DEF ReadingInv, ReadingPcs
  <2> QED
    BY <2>1, <2>2
<1>8. x.pc \in {"overflow", "flag"}
  BY <1>2
<1> QED
  BY <1>0, <1>1, <1>2, <1>3, <1>7, <1>8, LoadFrame

LEMMA ReadRInv ==
  ASSUME RInv, NEW r \in Readers, ReadOverflow(r) \/ ReadPayload(r)
  PROVE  RInv'
<1>0. IInv /\ IInv' /\ reader[r] \in ReaderStates /\ reader[r].pc \in {"overflow", "payload"}
  BY ReadIInv, StateFacts DEF RInv, ReadOverflow, ReadPayload
<1>1. r \in Local
  BY <1>0 DEF IInv, RemoteOutside, Readers
<1>2. reader[r].idx \in Chunks /\ data[reader[r].idx].overflow \in BOOLEAN
  BY StateFacts DEF RInv
<1>3. Marked(r) < published
  BY <1>0, <1>1 DEF RInv, ReadingInv, ReadingPcs
<1>4. CASE ReadOverflow(r)
  <2> DEFINE over == data[reader[r].idx].overflow
             x == [reader[r] EXCEPT !.overflow = over, !.pc = IF over THEN "mark" ELSE "payload"]
  <2>1. /\ reader' = [reader EXCEPT ![r] = x]
        /\ UNCHANGED <<written, readFlag, data, sock, subscribed, writer, published, delivered>>
    BY <1>4 DEF ReadOverflow, ring
  <2>2. x.pc = (IF over THEN "mark" ELSE "payload") /\ x.idx = reader[r].idx /\ x.overflow = over
    BY <1>0 DEF ReaderStates
  <2>3. x.pc \in {"mark", "payload"} /\ (x.pc = "mark" <=> over)
    BY <1>2, <2>2
  <2> HIDE DEF x
  <2>4. reader'[r] = x
    BY <1>0, <2>1, OtherReaders
  <2>5. Marked(r)' = Marked(r)
    BY <1>0, <2>1, <2>3, <2>4 DEF Marked, Got
  <2>6. ReadingInv(r)'
    BY <1>2, <1>3, <2>1, <2>2, <2>3, <2>4, <2>5 DEF ReadingInv
  <2>7. {reader[r].pc, x.pc} \subseteq {"flag", "written", "overflow", "payload", "mark"}
    BY <1>0, <2>3
  <2> QED
    BY <1>0, <1>1, <2>1, <2>2, <2>6, <2>7, LoadFrame
<1>5. CASE ReadPayload(r)
  <2> DEFINE x == [reader[r] EXCEPT !.obj = data[reader[r].idx].obj, !.pc = "mark"]
  <2>1. /\ reader' = [reader EXCEPT ![r] = x] /\ reader[r].pc = "payload"
        /\ UNCHANGED <<written, readFlag, data, sock, subscribed, writer, published, delivered>>
    BY <1>5 DEF ReadPayload, ring
  <2>2. /\ x.pc = "mark" /\ x.idx = reader[r].idx /\ x.overflow = reader[r].overflow
        /\ x.obj = data[reader[r].idx].obj
    BY <1>0 DEF ReaderStates
  <2> HIDE DEF x
  <2>3. ~ data[reader[r].idx].overflow /\ ~ reader[r].overflow
    BY <1>1, <2>1 DEF RInv, ReadingInv
  <2>4. reader'[r] = x
    BY <1>0, <2>1, OtherReaders
  <2>5. Marked(r)' = Marked(r)
    BY <2>1, <2>2, <2>4 DEF Marked, Got
  <2>6. ReadingInv(r)'
    BY <1>3, <2>1, <2>2, <2>3, <2>4, <2>5 DEF ReadingInv
  <2>7. {reader[r].pc, x.pc} \subseteq {"flag", "written", "overflow", "payload", "mark"}
    BY <2>1, <2>2
  <2> QED
    BY <1>0, <1>1, <2>1, <2>2, <2>6, <2>7, LoadFrame
<1> QED
  BY <1>4, <1>5

\* What dequeue() returns becomes the last object the reader got.
LEMMA GotAppended ==
  ASSUME NEW r, delivered[r] \in Seq(Nat), NEW m \in Nat, delivered'[r] = Append(delivered[r], m)
  PROVE  Got(r)' = m /\ delivered'[r] \in Seq(Nat)
<1>1. /\ Append(delivered[r], m) \in Seq(Nat) /\ Append(delivered[r], m) # << >>
      /\ Len(Append(delivered[r], m)) = Len(delivered[r]) + 1
      /\ Append(delivered[r], m)[Len(delivered[r]) + 1] = m
  BY AppendProperties
<1> QED
  BY <1>1 DEF Got

\* The chunk a reader marks holds the object after the last it got; a small one is
\* returned, a big one waits in the socket.
LEMMA MarkReadGets ==
  ASSUME RInv, NEW r \in Readers, MarkRead(r)
  PROVE  /\ r \in Local /\ Got(r) \in Nat /\ Marked(r) = Got(r) /\ Marked(r)' = Got(r) + 1
         /\ Got(r) + 1 <= published /\ delivered' \in [Readers -> Seq(Nat)]
         /\ \A q \in Readers : q # r => reader'[q] = reader[q] /\ delivered'[q] = delivered[q]
         /\ Got(r)' = IF reader[r].overflow THEN Got(r) ELSE Got(r) + 1
         /\ reader[r].overflow <=> data[ChunkOf(Got(r) + 1)].overflow
         /\ reader'[r].pc = IF reader[r].overflow THEN "recv" ELSE "flag"
<1>0. /\ IInv /\ reader[r] \in ReaderStates /\ published \in Nat /\ reader[r].pc = "mark"
      /\ Places /\ delivered \in [Readers -> Seq(Nat)] /\ Got(r) \in Nat
  BY StateFacts, GotFacts DEF RInv, MarkRead, Places
<1>1. r \in Local
  BY <1>0 DEF IInv, RemoteOutside, Readers
<1>2. /\ Marked(r) = Got(r) /\ Got(r) + 1 <= published
      /\ reader[r].idx = ChunkOf(Got(r) + 1) /\ Chunked(Got(r) + 1)
  BY <1>0, <1>1, ReaderChunk DEF ReadingPcs
<1>3. /\ reader[r].overflow <=> data[ChunkOf(Got(r) + 1)].overflow
      /\ ~ reader[r].overflow => reader[r].obj = Got(r) + 1
  BY <1>0, <1>1, <1>2 DEF RInv, ReadingInv, Chunked
<1> DEFINE x == [reader[r] EXCEPT !.idx = NextChunk(@), !.pc = IF reader[r].overflow THEN "recv" ELSE "flag"]
<1>4. reader' = [reader EXCEPT ![r] = x]
  BY <1>0 DEF MarkRead
<1>5. x.pc = IF reader[r].overflow THEN "recv" ELSE "flag"
  BY <1>0 DEF ReaderStates
<1> HIDE DEF x
<1>6. reader'[r] = x /\ \A q \in Readers : q # r => reader'[q] = reader[q]
  BY <1>0, <1>4, OtherReaders
<1>7. CASE reader[r].overflow
  <2>1. delivered' = delivered
    BY <1>7 DEF MarkRead
  <2>2. Got(r)' = Got(r) /\ Marked(r)' = Got(r) + 1
    BY <1>5, <1>6, <1>7, <2>1 DEF Got, Marked
  <2> QED
    BY <1>0, <1>1, <1>2, <1>3, <1>5, <1>6, <1>7, <2>1, <2>2
<1>8. CASE ~ reader[r].overflow
  <2>1. delivered' = [delivered EXCEPT ![r] = Append(@, Got(r) + 1)]
    BY <1>3, <1>8 DEF MarkRead
  <2>2. /\ delivered'[r] = Append(delivered[r], Got(r) + 1) /\ delivered[r] \in Seq(Nat)
        /\ \A q \in Readers : q # r => delivered'[q] = delivered[q]
    BY <1>0, <2>1
  <2>3. Got(r) + 1 \in Nat
    BY <1>0
  <2>4. Got(r)' = Got(r) + 1 /\ delivered'[r] \in Seq(Nat)
    <3>1. ASSUME NEW m \in Nat, m = Got(r) + 1 PROVE Got(r)' = m /\ delivered'[r] \in Seq(Nat)
      BY <2>2, <3>1, GotAppended
    <3> QED
      BY <2>3, <3>1
  <2>5. Marked(r)' = Got(r) + 1
    BY <1>5, <1>6, <1>8, <2>4 DEF Marked
  <2>6. delivered' \in [Readers -> Seq(Nat)]
    BY <1>0, <2>1, <2>2, <2>4
  <2> QED
    BY <1>0, <1>1, <1>2, <1>3, <1>5, <1>6, <1>8, <2>2, <2>4, <2>5, <2>6
<1> QED
  BY <1>7, <1>8


LEMMA MarkReadRInv ==
  ASSUME RInv, NEW r \in Readers, MarkRead(r)
  PROVE  RInv'
<1>0. /\ IInv /\ IInv' /\ reader[r] \in ReaderStates /\ published \in Nat /\ MaxChunks \in Nat
      /\ readFlag \in [Chunks -> [Local -> BOOLEAN]] /\ Sent \in Nat /\ Sent <= published
  BY MarkReadIInv, StateFacts, SentFacts DEF RInv
<1>1. /\ r \in Local /\ Got(r) \in Nat /\ Marked(r) = Got(r) /\ Marked(r)' = Got(r) + 1
      /\ Got(r) + 1 <= published /\ delivered' \in [Readers -> Seq(Nat)]
      /\ \A q \in Readers : q # r => reader'[q] = reader[q] /\ delivered'[q] = delivered[q]
      /\ Got(r)' = IF reader[r].overflow THEN Got(r) ELSE Got(r) + 1
      /\ reader[r].overflow <=> data[ChunkOf(Got(r) + 1)].overflow
      /\ reader'[r].pc = IF reader[r].overflow THEN "recv" ELSE "flag"
  BY MarkReadGets
<1>2. /\ reader[r].pc = "mark" /\ readFlag' = [readFlag EXCEPT ![reader[r].idx][r] = TRUE]
      /\ UNCHANGED <<written, data, sock, subscribed, writer, published>>
  BY DEF MarkRead
<1> DEFINE m == Got(r) + 1
           c == reader[r].idx
<1>3. /\ c = ChunkOf(m) /\ InRing(m) /\ Chunked(m) /\ c \in Chunks
      /\ writer.pc \in WritingPcs => c # writer.idx
  BY <1>0, <1>1, <1>2, ReaderChunk, StateFacts DEF ReadingPcs
<1>4. reader'[r].idx = Marked(r)' % MaxChunks
  <2>1. reader'[r].idx = NextChunk(c)
    BY <1>0 DEF MarkRead, IInv, Shapes, ReaderStates
  <2>2. c = Got(r) % MaxChunks
    BY <1>1 DEF RInv, Places
  <2> QED
    BY <1>1, <2>1, <2>2, ChunkFacts
<1>5. r \notin Remote /\ GreetingInv(r) /\ LocalMail(r)
  BY <1>1, Constants DEF RInv
<1>6. /\ reader'[r].pc \in {"recv", "flag"}
      /\ Mail(r)' = Mail(r)
  BY <1>1, <1>2 DEF Mail
<1>7. GreetingInv(r)' /\ ReadingInv(r)'
  BY <1>1, <1>2, <1>5, <1>6 DEF GreetingInv, ReadingInv, ReadingPcs
<1>8. \A n \in 1 .. published, q \in Local :
        InRing(n) => (readFlag'[ChunkOf(n)][q] <=> n <= Marked(q)')
  <2> SUFFICES ASSUME NEW n \in 1 .. published, NEW q \in Local, InRing(n)
               PROVE  readFlag'[ChunkOf(n)][q] <=> n <= Marked(q)'
    OBVIOUS
  <2>1. Chunked(n) /\ n \in Nat \ {0}
    BY <1>0 DEF RInv, RingInv
  <2>2. (readFlag[ChunkOf(n)][q] <=> n <= Marked(q)) /\ ChunkOf(n) \in Chunks
    BY <2>1, ChunkFacts DEF Chunked
  <2>3. CASE q # r
    <3>1. readFlag'[ChunkOf(n)][q] = readFlag[ChunkOf(n)][q]
      BY <1>0, <1>2, <2>2, <2>3
    <3>2. Marked(q)' = Marked(q)
      BY <1>1, <2>3, Constants DEF Marked, Got
    <3> QED
      BY <2>2, <3>1, <3>2
  <2>4. CASE q = r /\ n = m
    <3>1. readFlag'[ChunkOf(n)][q]
      BY <1>0, <1>1, <1>2, <1>3, <2>4
    <3>2. n <= Marked(q)'
      BY <1>1, <2>4
    <3> QED
      BY <3>1, <3>2
  <2>5. CASE q = r /\ n # m
    <3>1. m \in Nat \ {0} /\ n < m + MaxChunks /\ m < n + MaxChunks
      BY <1>0, <1>1, <1>3, <2>1 DEF InRing
    <3>2. ChunkOf(n) # c
      <4>1. CASE n < m
        BY <1>3, <2>1, <3>1, <4>1, ChunkFacts
      <4>2. CASE m < n
        BY <1>3, <2>1, <3>1, <4>2, ChunkFacts
      <4> QED
        BY <2>1, <2>5, <3>1, <4>1, <4>2
    <3>3. readFlag'[ChunkOf(n)][q] = readFlag[ChunkOf(n)][q]
      BY <1>0, <1>2, <2>2, <3>2
    <3>4. n <= Marked(q)' <=> n <= Marked(q)
      BY <1>1, <2>1, <2>5
    <3> QED
      BY <2>2, <3>3, <3>4
  <2> QED
    BY <2>3, <2>4, <2>5
<1>9. writer.pc \in WritingPcs => readFlag'[writer.idx] = readFlag[writer.idx]
  BY <1>0, <1>2, <1>3, StateFacts
<1>10. LocalMail(r)'
  <2> DEFINE s == Mail(r)
  <2>0. /\ Sent' = Sent /\ s \in Seq(Nat) /\ Rising(s) /\ Got(r) <= Sent
        /\ \A i \in 1 .. Len(s) : Got(r) < s[i] /\ s[i] <= Sent /\ s[i] \in Nat
    BY <1>2, <1>5, ElementOfSeq DEF Sent, LocalMail
  <2>1. \A n \in 1 .. Sent : n > Got(r) =>
          ((\E i \in 1 .. Len(s) : s[i] = n) <=> n <= Marked(r) \/ data[ChunkOf(n)].overflow)
    BY <1>5 DEF LocalMail
  <2>2. CASE reader[r].overflow
    <3>1. ASSUME NEW n \in 1 .. Sent, n > Got(r)
          PROVE  (\E i \in 1 .. Len(s) : s[i] = n) <=> n <= Got(r) + 1 \/ data[ChunkOf(n)].overflow
      <4>1. CASE n = m
        BY <1>1, <2>1, <2>2, <3>1, <4>1
      <4>2. CASE n # m
        <5>1. n <= Got(r) + 1 <=> n <= Marked(r)
          BY <1>0, <1>1, <3>1, <4>2
        <5> QED
          BY <2>1, <3>1, <5>1
      <4> QED
        BY <4>1, <4>2
    <3> QED
      BY <1>1, <1>2, <1>6, <2>0, <2>2, <3>1 DEF LocalMail
  <2>3. CASE ~ reader[r].overflow
    <3>1. m <= Sent
      <4>1. CASE writer.pc = "sendLocal"
        <5>1. data[ChunkOf(published)].overflow /\ Sent = published - 1
          BY <4>1 DEF RInv, WritingInv, Sent
        <5>2. m # published
          BY <1>1, <2>3, <5>1
        <5> QED
          BY <1>0, <1>1, <5>1, <5>2
      <4>2. CASE writer.pc # "sendLocal"
        BY <1>1, <4>2 DEF Sent
      <4> QED
        BY <4>1, <4>2
    <3>2. m \in 1 .. Sent /\ m > Got(r) /\ ~ (m <= Marked(r))
      BY <1>0, <1>1, <3>1
    <3>3. \A i \in 1 .. Len(s) : s[i] # m
      BY <1>1, <2>1, <2>3, <3>2
    <3>4. \A i \in 1 .. Len(s) : m < s[i]
      <4> SUFFICES ASSUME NEW i \in 1 .. Len(s) PROVE m < s[i]
        OBVIOUS
      <4>1. Got(r) < s[i] /\ s[i] \in Nat /\ s[i] # m
        BY <2>0, <3>3
      <4> QED
        BY <1>1, <4>1
    <3>5. ASSUME NEW n \in 1 .. Sent, n > m
          PROVE  (\E i \in 1 .. Len(s) : s[i] = n) <=> n <= m \/ data[ChunkOf(n)].overflow
      <4>1. n > Got(r) /\ ~ (n <= m) /\ ~ (n <= Marked(r))
        BY <1>0, <1>1, <3>5
      <4> QED
        BY <2>1, <4>1
    <3>6. Got(r)' = m /\ Marked(r)' = m
      BY <1>1, <2>3
    <3> HIDE DEF m, s
    <3>7. Mail(r)' = s
      BY <1>6 DEF s
    <3> QED
      BY <1>2, <2>0, <3>1, <3>4, <3>5, <3>6, <3>7 DEF LocalMail
  <2> QED
    BY <2>2, <2>3
<1>11. Marked(r)' \in Nat /\ Marked(r) <= Marked(r)' /\ Marked(r)' <= published
  BY <1>0, <1>1
<1> QED
  BY <1>0, <1>1, <1>2, <1>4, <1>5, <1>7, <1>8, <1>9, <1>10, <1>11, ReaderFrame

\* A local reader receives the big object it marked, a remote one a later object
\* than its last.
LEMMA ReceiveGets ==
  ASSUME RInv, NEW r \in Readers, Receive(r)
  PROVE  /\ sock[r] \in Seq(Nat) /\ Rising(sock[r]) /\ sock[r] # << >> /\ Mail(r) = sock[r]
         /\ Got(r) \in Nat /\ Got(r)' = sock[r][1] /\ Got(r) < sock[r][1] /\ sock[r][1] <= published
         /\ delivered' \in [Readers -> Seq(Nat)]
         /\ \A q \in Readers : q # r => delivered'[q] = delivered[q]
         /\ r \in Local => sock[r][1] = Got(r) + 1 /\ Marked(r) = Got(r) + 1
<1>0. /\ IInv /\ reader[r].pc = "recv" /\ sock[r] # << >> /\ published \in Nat /\ Places
      /\ delivered \in [Readers -> Seq(Nat)] /\ Got(r) \in Nat /\ Sent \in Nat /\ Sent <= published
      /\ delivered' = [delivered EXCEPT ![r] = Append(@, Head(sock[r]))]
  BY StateFacts, SentFacts, GotFacts DEF RInv, Receive, Places
<1> DEFINE s == sock[r]
<1>1. Mail(r) = s
  BY <1>0 DEF Mail
<1>2. s \in Seq(Nat) /\ Rising(s) /\ \A i \in 1 .. Len(s) : Got(r) < s[i] /\ s[i] <= published
  <2>1. CASE r \in Local
    <3>1. s \in Seq(Nat) /\ Rising(s) /\ \A i \in 1 .. Len(s) : Got(r) < s[i] /\ s[i] <= Sent /\ s[i] \in Nat
      BY <1>1, <2>1, ElementOfSeq DEF RInv, LocalMail
    <3> QED
      BY <1>0, <3>1
  <2>2. CASE r \in Remote
    BY <1>1, <2>2 DEF RInv, RemoteMail
  <2> QED
    BY <2>1, <2>2 DEF Readers
<1>3. Head(s) = s[1] /\ s[1] \in Nat /\ 1 \in 1 .. Len(s)
  BY <1>0, <1>2, TailRising
<1>4. /\ delivered'[r] = Append(delivered[r], s[1]) /\ delivered[r] \in Seq(Nat)
      /\ \A q \in Readers : q # r => delivered'[q] = delivered[q]
  BY <1>0, <1>3
<1>5. Got(r)' = s[1] /\ delivered'[r] \in Seq(Nat)
  <2>1. ASSUME NEW n \in Nat, n = s[1] PROVE Got(r)' = n /\ delivered'[r] \in Seq(Nat)
    BY <1>4, <2>1, GotAppended
  <2> QED
    BY <1>3, <2>1
<1>6. delivered' \in [Readers -> Seq(Nat)]
  BY <1>0, <1>4, <1>5
<1>7. ASSUME r \in Local PROVE s[1] = Got(r) + 1 /\ Marked(r) = Got(r) + 1
  <2>1. Marked(r) = Got(r) + 1
    BY <1>0 DEF Marked
  <2>2. s[1] <= Sent /\ Got(r) < s[1]
    BY <1>1, <1>3, <1>7 DEF RInv, LocalMail
  <2>3. Got(r) + 1 \in 1 .. Sent /\ Got(r) + 1 > Got(r) /\ Got(r) + 1 <= Marked(r)
    BY <1>0, <1>3, <2>1, <2>2
  <2>4. PICK i \in 1 .. Len(s) : s[i] = Got(r) + 1
    BY <1>1, <1>7, <2>3 DEF RInv, LocalMail
  <2>5. i = 1
    <3> SUFFICES ASSUME i # 1 PROVE FALSE
      OBVIOUS
    <3>1. 1 < i /\ i \in Nat
      BY <2>4
    <3>2. s[1] + (i - 1) <= s[i]
      BY <1>2, <1>3, <2>4, <3>1 DEF Rising
    <3> QED
      BY <1>0, <1>3, <2>2, <2>4, <3>1, <3>2
  <2> QED
    BY <2>1, <2>4, <2>5
<1> QED
  BY <1>0, <1>1, <1>2, <1>3, <1>4, <1>5, <1>6, <1>7


LEMMA ReceiveRInv ==
  ASSUME RInv, NEW r \in Readers, Receive(r)
  PROVE  RInv'
<1>0. IInv /\ IInv' /\ reader[r] \in ReaderStates /\ published \in Nat /\ Sent \in Nat
  BY SocketIInv, StateFacts, SentFacts DEF RInv
<1> DEFINE s == sock[r]
           t == Tail(sock[r])
           x == [reader[r] EXCEPT !.pc = IF r \in Local THEN "flag" ELSE "recv"]
<1>1. /\ s \in Seq(Nat) /\ Rising(s) /\ s # << >> /\ Mail(r) = s
      /\ Got(r) \in Nat /\ Got(r)' = s[1] /\ Got(r) < s[1] /\ s[1] <= published
      /\ delivered' \in [Readers -> Seq(Nat)]
      /\ \A q \in Readers : q # r => delivered'[q] = delivered[q]
      /\ r \in Local => s[1] = Got(r) + 1 /\ Marked(r) = Got(r) + 1
  BY ReceiveGets
<1>2. /\ reader[r].pc = "recv" /\ sock' = [sock EXCEPT ![r] = t] /\ reader' = [reader EXCEPT ![r] = x]
      /\ UNCHANGED <<written, readFlag, data, subscribed, writer, published>>
  BY DEF Receive, ring
<1>3. x.pc = (IF r \in Local THEN "flag" ELSE "recv") /\ x.idx = reader[r].idx
  BY <1>0 DEF ReaderStates
<1>4. /\ s[1] \in Nat /\ 1 \in 1 .. Len(s)
      /\ t \in Seq(Nat) /\ Rising(t) /\ Len(t) = Len(s) - 1
      /\ \A i \in 1 .. Len(t) : i + 1 \in 1 .. Len(s) /\ t[i] = s[i + 1] /\ s[1] < t[i]
  BY <1>1, TailRising
<1> HIDE DEF x
<1>5. /\ reader'[r] = x /\ \A q \in Readers : q # r => reader'[q] = reader[q]
      /\ sock'[r] = t /\ \A q \in Readers : q # r => sock'[q] = sock[q]
  BY <1>0, <1>2, OtherReaders DEF IInv, Shapes
<1>6. Mail(r)' = t /\ reader'[r].pc \in {"flag", "recv"}
  BY <1>3, <1>5 DEF Mail
<1>7. GreetingInv(r)'
  <2>1. GreetingInv(r)
    BY DEF RInv
  <2> QED
    BY <1>2, <1>6, <2>1 DEF GreetingInv
<1>8. ASSUME r \in Local PROVE Marked(r)' = Marked(r) /\ Got(r)' = Got(r) + 1
  BY <1>1, <1>3, <1>5, <1>8 DEF Marked
<1>9. \A q \in Local : Marked(q)' = Marked(q)
  BY <1>1, <1>5, <1>8, Constants DEF Marked, Got
<1>10. Sent' = Sent
  BY <1>2 DEF Sent
<1> HIDE DEF s, t
<1>11. ASSUME r \in Local
       PROVE  /\ reader'[r].idx = Marked(r)' % MaxChunks /\ Marked(r)' \in Nat
              /\ Marked(r) <= Marked(r)' /\ Marked(r)' <= published /\ ReadingInv(r)' /\ LocalMail(r)'
  <2>1. LocalMail(r)
    BY <1>11 DEF RInv
  <2>2. \A i \in 1 .. Len(s) : Got(r) < s[i] /\ s[i] <= Sent
    BY <1>1, <2>1 DEF LocalMail
  <2>3. \A n \in 1 .. Sent : n > Got(r) =>
          ((\E i \in 1 .. Len(s) : s[i] = n) <=> n <= Marked(r) \/ data[ChunkOf(n)].overflow)
    BY <1>1, <2>1 DEF LocalMail
  <2>4. \A i \in 1 .. Len(t) : s[1] < t[i] /\ t[i] <= Sent
    BY <1>4, <2>2
  <2>5. ASSUME NEW n \in 1 .. Sent, n > s[1]
        PROVE  (\E i \in 1 .. Len(t) : t[i] = n) <=> n <= Marked(r) \/ data[ChunkOf(n)].overflow
    <3>1. n > Got(r)
      BY <1>0, <1>1, <1>4, <2>5
    <3>2. ASSUME NEW i \in 1 .. Len(t), t[i] = n PROVE \E j \in 1 .. Len(s) : s[j] = n
      BY <1>4, <3>2
    <3>3. ASSUME NEW j \in 1 .. Len(s), s[j] = n PROVE \E i \in 1 .. Len(t) : t[i] = n
      <4>1. j # 1
        BY <1>0, <1>4, <2>5, <3>3
      <4>2. Len(s) \in Nat /\ Len(t) = Len(s) - 1
        BY <1>1, <1>4, LenProperties
      <4>3. j - 1 \in 1 .. Len(t) /\ (j - 1) + 1 = j
        BY <4>1, <4>2
      <4>4. t[j - 1] = n
        BY <1>4, <3>3, <4>3
      <4> QED
        BY <4>3, <4>4
    <3> QED
      BY <2>3, <3>1, <3>2, <3>3
  <2>6. s[1] <= Sent
    BY <1>4, <2>2
  <2>7. LocalMail(r)'
    BY SMTT(30), <1>1, <1>2, <1>4, <1>6, <1>8, <1>10, <1>11, <2>4, <2>5, <2>6 DEF LocalMail
  <2>8. Marked(r) \in Nat /\ Marked(r) <= Marked(r)
    BY <1>1, <1>11
  <2>9. reader[r].idx = Marked(r) % MaxChunks /\ Marked(r) <= published
    BY <1>11 DEF RInv, Places
  <2>10. ReadingInv(r)'
    BY <1>6 DEF ReadingInv, ReadingPcs
  <2> QED
    BY <1>3, <1>5, <1>8, <1>11, <2>7, <2>8, <2>9, <2>10
<1>12. ASSUME r \in Remote PROVE RemoteMail(r)'
  <2>1. RemoteMail(r)
    BY <1>12 DEF RInv
  <2>2. \A i \in 1 .. Len(s) :
          /\ Got(r) < s[i] /\ s[i] <= published
          /\ writer.pc \in {"sendLocal", "sendRemote"} => s[i] < published
    BY <1>1, <2>1 DEF RemoteMail
  <2>3. \A i \in 1 .. Len(t) :
          /\ s[1] < t[i] /\ t[i] <= published
          /\ writer.pc \in {"sendLocal", "sendRemote"} => t[i] < published
    BY <1>4, <2>2
  <2>4. s[1] <= published /\ (writer.pc \in {"sendLocal", "sendRemote"} => s[1] < published)
    BY <1>4, <2>2
  <2> QED
    BY <1>1, <1>2, <1>4, <1>6, <2>3, <2>4 DEF RemoteMail
<1> QED
  BY <1>0, <1>1, <1>2, <1>5, <1>7, <1>9, <1>11, <1>12, FlagsStay, ReaderFrame

-----------------------------------------------------------------------------
LEMMA InitRInv == Init => RInv
<1> SUFFICES ASSUME Init PROVE RInv
  OBVIOUS
<1>0. IInv /\ MaxChunks \in Nat \ {0} /\ << >> \in Seq(Nat) /\ Len(<< >>) = 0
  BY InitIInv, ChunkFacts, EmptySeq
<1>1. /\ published = 0 /\ writer.pc = "local" /\ writer.idx = 0 /\ subscribed = {}
      /\ \A c \in Chunks : ~ written[c]
      /\ delivered \in [Readers -> Seq(Nat)]
  BY <1>0 DEF Init
<1>2. \A r \in Readers : /\ reader[r].pc = "connect" /\ reader[r].idx = 0 /\ sock[r] = << >>
                         /\ delivered[r] = << >>
  BY DEF Init
<1>3. \A r \in Readers : Got(r) = 0 /\ Marked(r) = 0 /\ Mail(r) = << >>
  BY <1>2 DEF Got, Marked, Mail
<1>4. 0 % MaxChunks = 0
  BY <1>0, Modulus
<1>5. Places
  BY <1>0, <1>1, <1>2, <1>3, <1>4, Constants DEF Places, WritingPcs
<1>6. RingInv /\ WritingInv
  BY <1>1 DEF RingInv, WritingInv
<1>7. \A r \in Readers : GreetingInv(r)
  BY <1>1, <1>2, <1>3 DEF GreetingInv
<1>8. Sent = 0
  BY <1>1 DEF Sent
<1>9. Rising(<< >>)
  BY <1>0 DEF Rising
<1>10. ASSUME NEW r \in Readers
       PROVE  Mail(r) \in Seq(Nat) /\ Rising(Mail(r)) /\ 1 .. Len(Mail(r)) = {} /\ Got(r) = 0
  <2>1. Mail(r) = << >> /\ Got(r) = 0
    BY <1>3
  <2>2. 1 .. Len(<< >>) = {}
    BY <1>0
  <2> QED
    BY <1>0, <1>9, <2>1, <2>2
<1>11. ASSUME NEW r \in Local PROVE ReadingInv(r) /\ LocalMail(r)
  <2>1. r \in Readers /\ 1 .. Sent = {} /\ Got(r) <= Sent
    BY <1>8, <1>10, Constants
  <2> QED
    BY <1>2, <1>10, <2>1 DEF ReadingInv, LocalMail, ReadingPcs
<1>12. ASSUME NEW r \in Remote PROVE RemoteMail(r)
  <2>1. r \in Readers
    BY Constants
  <2> QED
    BY <1>1, <1>10, <2>1, 0 <= 0 DEF RemoteMail
<1> QED
  BY <1>0, <1>5, <1>6, <1>7, <1>11, <1>12 DEF RInv

LEMMA StutterRInv ==
  ASSUME RInv, UNCHANGED vars
  PROVE  RInv'
<1>0. UNCHANGED <<written, readFlag, data, sock, subscribed, writer, reader, published, delivered>>
  BY DEF vars
<1>1. IInv'
  BY NextIInv DEF RInv
<1>2. \A r \in Readers : Got(r)' = Got(r) /\ Marked(r)' = Marked(r) /\ Mail(r)' = Mail(r)
  BY <1>0, SameReader
<1>3. Places' /\ RingInv' /\ WritingInv'
  BY <1>0, <1>2, Constants DEF RInv, Places, RingInv, InRing, Chunked, WritingInv
<1>4. \A r \in Readers : GreetingInv(r)'
  BY <1>0, <1>2 DEF RInv, GreetingInv
<1>5. \A r \in Local : ReadingInv(r)' /\ LocalMail(r)'
  BY <1>0, <1>2, Constants DEF RInv, ReadingInv, LocalMail, Sent
<1>6. \A r \in Remote : RemoteMail(r)'
  BY <1>0, <1>2, Constants DEF RInv, RemoteMail
<1> QED
  BY <1>1, <1>3, <1>4, <1>5, <1>6 DEF RInv

LEMMA NextRInv == RInv /\ [Next]_vars => RInv'
<1> SUFFICES ASSUME RInv, [Next]_vars PROVE RInv'
  OBVIOUS
<1>1. CASE UNCHANGED vars
  BY <1>1, StutterRInv
<1>2. CASE WriterStep
  BY <1>2, GreetRInv, AcquireWriteRInv, WriteOverflowRInv, WritePayloadRInv, ResetFlagRInv,
     CommitRInv, SendLocalRInv, SendRemoteRInv DEF WriterStep
<1>3. ASSUME NEW size \in Sizes, Enqueue(size) PROVE RInv'
  BY <1>3, EnqueueRInv
<1>4. ASSUME NEW r \in Readers, ReaderStep(r) PROVE RInv'
  BY <1>4, ConnectRInv, AwaitReadyRInv, LoadReadFlagRInv, LoadWrittenFlagRInv, ReadRInv,
     MarkReadRInv, ReceiveRInv DEF ReaderStep
<1> QED
  BY <1>1, <1>2, <1>3, <1>4 DEF Next

LEMMA RInvHolds == Spec => []RInv
BY InitRInv, NextRInv, PTL DEF Spec

-----------------------------------------------------------------------------
Taken == [r \in Readers |-> IF delivered[r] = << >> THEN 0 ELSE delivered[r][Len(delivered[r])]]

LEMMA TakenGot == Taken = [r \in Readers |-> Got(r)]
BY DEF Taken, Got

LEMMA TakenStays ==
  ASSUME \A r \in Readers : Got(r)' = Got(r)
  PROVE  Taken' = Taken
BY DEF Taken, Got

\* One reader's step gives it object m.
LEMMA TakenMoves ==
  ASSUME NEW r \in Readers, NEW m, Got(r)' = m, \A q \in Readers : q # r => Got(q)' = Got(q)
  PROVE  Taken' = [Taken EXCEPT ![r] = m] /\ Taken[r] = Got(r)
BY DEF Taken, Got

\* The abstract steps: Commit publishes, the mark of a small object and the receipt
\* of a big one deliver.
LEMMA CommitPublishes ==
  ASSUME RInv, Commit
  PROVE  Promise!Publish
<1>0. published \in Nat /\ MaxChunks \in Nat /\ writer.pc \in WritingPcs /\ IInv
  BY StateFacts DEF RInv, Commit, WritingPcs
<1>1. published' = published + 1 /\ delivered' = delivered
  BY DEF Commit
<1>2. published < MaxMessages
  <2>1. writer.obj = published + 1 /\ writer.obj \in 0 .. MaxMessages
    BY <1>0 DEF IInv, OneAhead, Shapes, WriterStates
  <2> QED
    BY <1>0, <2>1, Constants
<1>3. ASSUME NEW r \in Local PROVE published - Taken[r] < MaxChunks + 1
  <2>1. /\ Taken[r] = Got(r) /\ Got(r) \in Nat /\ Marked(r) \in Nat
        /\ Marked(r) = Got(r) \/ Marked(r) = Got(r) + 1
    BY Constants, TakenGot, GotFacts DEF RInv
  <2>2. published < Marked(r) + MaxChunks
    BY <1>0 DEF RInv, Places
  <2> QED
    BY <1>0, <2>1, <2>2
<1>4. Taken' = Taken
  BY <1>1 DEF Taken
<1> QED
  BY <1>1, <1>2, <1>3, <1>4 DEF Promise!Publish, Taken

LEMMA MarkReadDelivers ==
  ASSUME RInv, NEW r \in Readers, MarkRead(r)
  PROVE  [Promise!Next]_(Promise!vars)
<1>1. /\ r \in Local /\ Got(r) \in Nat /\ Got(r) + 1 <= published
      /\ \A q \in Readers : q # r => delivered'[q] = delivered[q]
      /\ Got(r)' = IF reader[r].overflow THEN Got(r) ELSE Got(r) + 1
  BY MarkReadGets
<1>2. published' = published /\ \A q \in Readers : q # r => Got(q)' = Got(q)
  BY <1>1 DEF MarkRead, Got
<1>3. CASE reader[r].overflow
  <2>1. Taken' = Taken
    BY <1>1, <1>2, <1>3, TakenStays
  <2> QED
    BY <1>2, <2>1 DEF Promise!vars, Taken
<1>4. CASE ~ reader[r].overflow
  <2>1. Taken' = [Taken EXCEPT ![r] = Got(r) + 1] /\ Taken[r] = Got(r)
    <3>1. ASSUME NEW m, m = Got(r) + 1 PROVE Taken' = [Taken EXCEPT ![r] = m] /\ Taken[r] = Got(r)
      <4>1. Got(r)' = m
        BY <1>1, <1>4, <3>1
      <4> QED
        BY <1>2, <4>1, TakenMoves
    <3> QED
      BY <3>1
  <2>2. Taken[r] < published
    BY <1>1, <2>1, StateFacts DEF RInv
  <2>3. Promise!Deliver(r)
    BY <1>2, <2>1, <2>2 DEF Promise!Deliver, Taken
  <2> QED
    BY <1>1, <2>3 DEF Promise!Next
<1> QED
  BY <1>3, <1>4

LEMMA ReceiveDelivers ==
  ASSUME RInv, NEW r \in Readers, Receive(r)
  PROVE  [Promise!Next]_(Promise!vars)
<1>1. /\ Got(r) \in Nat /\ Got(r)' = sock[r][1] /\ Got(r) < sock[r][1] /\ sock[r][1] <= published
      /\ \A q \in Readers : q # r => delivered'[q] = delivered[q]
      /\ r \in Local => sock[r][1] = Got(r) + 1
      /\ sock[r] \in Seq(Nat) /\ Rising(sock[r]) /\ sock[r] # << >>
  BY ReceiveGets
<1>2. published' = published /\ (\A q \in Readers : q # r => Got(q)' = Got(q)) /\ published \in Nat
  BY <1>1, StateFacts DEF Receive, Got, RInv
<1>3. PICK m \in Nat : m = sock[r][1]
  BY <1>1, TailRising
<1>4. Taken' = [Taken EXCEPT ![r] = m] /\ Taken[r] = Got(r)
  BY <1>1, <1>2, <1>3, TakenMoves
<1>5. CASE r \in Local
  <2>1. Taken[r] < published /\ m = Taken[r] + 1
    BY <1>1, <1>2, <1>3, <1>4, <1>5
  <2>2. Promise!Deliver(r)
    BY <1>2, <1>4, <2>1 DEF Promise!Deliver, Taken
  <2> QED
    BY <1>5, <2>2 DEF Promise!Next
<1>6. CASE r \in Remote
  <2>1. m \in Taken[r] + 1 .. published
    BY <1>1, <1>2, <1>3, <1>4
  <2>2. Promise!DeliverRemote(r)
    BY <1>2, <1>4, <2>1 DEF Promise!DeliverRemote, Taken
  <2> QED
    BY <1>6, <2>2 DEF Promise!Next
<1> QED
  BY <1>5, <1>6 DEF Readers

LEMMA StepSimulates == RInv /\ [Next]_vars => [Promise!Next]_(Promise!vars)
<1> SUFFICES ASSUME RInv, [Next]_vars PROVE [Promise!Next]_(Promise!vars)
  OBVIOUS
<1>0. ASSUME UNCHANGED <<published, delivered>> PROVE [Promise!Next]_(Promise!vars)
  BY <1>0 DEF Promise!vars
<1>1. CASE UNCHANGED vars
  BY <1>0, <1>1 DEF vars
<1>2. CASE WriterStep
  <2>1. CASE Commit
    BY <2>1, CommitPublishes DEF Promise!Next
  <2>2. CASE ~ Commit
    <3>1. UNCHANGED <<published, delivered>>
      BY <1>2, <2>2 DEF WriterStep, GreetLocal, GreetRemote, AcquireWrite, WriteOverflow, WritePayload,
                        ResetFlag, SendLocal, SendRemote
    <3> QED
      BY <1>0, <3>1
  <2> QED
    BY <2>1, <2>2
<1>3. ASSUME NEW size \in Sizes, Enqueue(size) PROVE [Promise!Next]_(Promise!vars)
  BY <1>0, <1>3 DEF Enqueue
<1>4. ASSUME NEW r \in Readers, ReaderStep(r) PROVE [Promise!Next]_(Promise!vars)
  <2>1. CASE MarkRead(r)
    BY <2>1, MarkReadDelivers
  <2>2. CASE Receive(r)
    BY <2>2, ReceiveDelivers
  <2>3. CASE ~ MarkRead(r) /\ ~ Receive(r)
    <3>1. UNCHANGED <<published, delivered>>
      BY <1>4, <2>3 DEF ReaderStep, Connect, AwaitReady, LoadReadFlag, LoadWrittenFlag, ReadOverflow, ReadPayload
    <3> QED
      BY <1>0, <3>1
  <2> QED
    BY <2>1, <2>2, <2>3
<1> QED
  BY <1>1, <1>2, <1>3, <1>4 DEF Next

\* MessageQueue, the safety part of ImplementsBroadcast: the ring, its flags and the
\* sockets together behave as the broadcast queue.  Local readers get every object
\* once and in the order of enqueue, whatever its size, and the writer is never more
\* than a full ring ahead of them; remote readers get objects in order.
THEOREM RingIsBroadcastQueue == Spec => Promise!Init /\ [][Promise!Next]_(Promise!vars)
<1>1. Init => Promise!Init
  BY DEF Init, Promise!Init, Readers
<1> QED
  BY <1>1, RInvHolds, StepSimulates, PTL DEF Spec
=============================================================================
