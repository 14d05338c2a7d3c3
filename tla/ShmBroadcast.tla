---------------------------- MODULE ShmBroadcast ----------------------------
(***************************************************************************)
(* ShmRingBuffer and MessageQueue (vllm/distributed/device_communicators/  *)
(* shm_broadcast.py): one writer broadcasts objects to local readers over  *)
(* a lock-free ring in shared memory, with a publish socket for objects    *)
(* that do not fit a chunk and for readers on other nodes.                 *)
(*                                                                         *)
(* Every load and store of a byte that another process can see is a step;  *)
(* stores become visible in program order (x86).  The writer's scan of the *)
(* reader flags is one step: while it spins, flags only rise and only it   *)
(* writes the written flag, so a scan that succeeds sees what an atomic    *)
(* one would.  An object is its number in the order of enqueue, and its    *)
(* size decides where it travels.  Sockets are external: FIFO per reader,  *)
(* and a publish socket drops what exceeds a reader's high-water mark.     *)
(***************************************************************************)
EXTENDS Naturals, Sequences, FiniteSets

CONSTANTS
  NumLocal,       \* n_local_reader
  Remote,         \* readers on other nodes
  MaxChunks,      \* max_chunks
  MaxChunkBytes,  \* max_chunk_bytes
  HighWater,      \* messages a publish socket queues per reader (ZMQ: 1000)
  MaxMessages,    \* bound on the objects enqueued
  READY, Torn     \* the greeting; an object that was cut short

Local == 1 .. NumLocal
Readers == Local \cup Remote
Chunks == 0 .. MaxChunks - 1
Sizes == {MaxChunkBytes - 1, MaxChunkBytes}
Objects == 1 .. MaxMessages

ASSUME ShmAssumption ==
  /\ {NumLocal, MaxChunks, MaxChunkBytes, MaxMessages} \subseteq Nat \ {0}
  /\ HighWater \in Nat /\ HighWater > MaxChunks /\ IsFiniteSet(Remote)
  /\ Remote \cap Local = {}
  /\ READY \notin Objects /\ Torn \notin Objects /\ READY # Torn

VARIABLES
  written,     \* chunk -> its written flag
  readFlag,    \* chunk -> reader -> its read flag
  data,        \* chunk -> the overflow byte and the object after it
  sock,        \* reader -> what the publish socket holds for it
  subscribed,  \* readers whose subscription reached the writer
  writer,      \* pc, current_idx, the object enqueued, its size, flags reset
  reader,      \* local reader -> pc, current_idx, the bytes it has read
  published,   \* objects whose chunk was marked written
  delivered    \* reader -> the objects dequeue() returned

vars == <<written, readFlag, data, sock, subscribed, writer, reader, published, delivered>>
ring == <<written, readFlag, data>>

WriterPcs == {"local", "remote", "idle", "acquire", "overflow", "payload", "reset",
              "commit", "sendLocal", "sendRemote"}
WritingPcs == {"overflow", "payload", "reset", "commit"}
LocalPcs == {"connect", "ready", "flag", "written", "overflow", "payload", "mark", "recv"}

Init ==
  /\ written = [c \in Chunks |-> FALSE]
  /\ readFlag = [c \in Chunks |-> [r \in Local |-> FALSE]]
  /\ data = [c \in Chunks |-> [overflow |-> FALSE, obj |-> Torn]]
  /\ sock = [r \in Readers |-> << >>]
  /\ subscribed = {}
  /\ writer = [pc |-> "local", idx |-> 0, obj |-> 0, size |-> MaxChunkBytes, reset |-> 0]
  /\ reader = [r \in Readers |->
                 [pc |-> "connect", idx |-> 0, flag |-> FALSE, overflow |-> FALSE, obj |-> Torn]]
  /\ published = 0
  /\ delivered = [r \in Readers |-> << >>]

----------------------------------------------------------------------------
(* The sockets *)

\* send() on a publish socket: to every subscriber of the group, dropped for
\* one whose queue is at the high-water mark.
Publish(group, msg) ==
  sock' = [r \in Readers |->
             IF r \in group \cap subscribed /\ Len(sock[r]) < HighWater
             THEN Append(sock[r], msg) ELSE sock[r]]

\* create_from_handle: the subscription of r reaches the writer's socket.
Connect(r) ==
  /\ reader[r].pc = "connect"
  /\ subscribed' = subscribed \cup {r}
  /\ reader' = [reader EXCEPT ![r].pc = "ready"]
  /\ UNCHANGED <<ring, sock, writer, published, delivered>>

----------------------------------------------------------------------------
(* The writer *)

NextChunk(c) == (c + 1) % MaxChunks

AllJoined(group) == Cardinality(subscribed \cap group) = Cardinality(group)

\* wait_until_ready of the writer: all local readers are greeted, then all
\* remote ones.
GreetLocal ==
  /\ writer.pc = "local" /\ AllJoined(Local)
  /\ Publish(Local, READY)
  /\ writer' = [writer EXCEPT !.pc = "remote"]
  /\ UNCHANGED <<ring, subscribed, reader, published, delivered>>

GreetRemote ==
  /\ writer.pc = "remote" /\ AllJoined(Remote)
  /\ Publish(Remote, READY)
  /\ writer' = [writer EXCEPT !.pc = "idle"]
  /\ UNCHANGED <<ring, subscribed, reader, published, delivered>>

\* enqueue: the next object, of some size.
Enqueue(size) ==
  /\ writer.pc = "idle" /\ writer.obj < MaxMessages
  /\ writer' = [writer EXCEPT !.pc = "acquire", !.obj = @ + 1, !.size = size]
  /\ UNCHANGED <<ring, sock, subscribed, reader, published, delivered>>

Big(size) == size >= MaxChunkBytes

\* Fault: the chunk is taken when all but one reader have read it.
FaultWritable(c) ==
  ~ written[c] \/ Cardinality({r \in Local : readFlag[c][r]}) + 1 >= NumLocal

Writable(c) == written[c] => \A r \in Local : readFlag[c][r]

\* acquire_write, up to the yield.
AcquireWrite ==
  /\ writer.pc = "acquire" /\ Writable(writer.idx)
  /\ written' = [written EXCEPT ![writer.idx] = FALSE]
  /\ writer' = [writer EXCEPT !.pc = "overflow"]
  /\ UNCHANGED <<readFlag, data, sock, subscribed, reader, published, delivered>>

WriteOverflow ==
  /\ writer.pc = "overflow"
  /\ data' = [data EXCEPT ![writer.idx].overflow = Big(writer.size)]
  /\ writer' = [writer EXCEPT !.pc = IF Big(writer.size) THEN "reset" ELSE "payload", !.reset = 0]
  /\ UNCHANGED <<written, readFlag, sock, subscribed, reader, published, delivered>>

\* The object follows the overflow byte; what reaches past the chunk is lost.
WritePayload ==
  /\ writer.pc = "payload"
  /\ data' = [data EXCEPT ![writer.idx].obj =
                IF 1 + writer.size <= MaxChunkBytes THEN writer.obj ELSE Torn]
  /\ writer' = [writer EXCEPT !.pc = "reset"]
  /\ UNCHANGED <<written, readFlag, sock, subscribed, reader, published, delivered>>

\* Fault: range(1, n_reader), the last reader's flag is kept.
FaultResetCount == NumLocal - 1

ResetCount == NumLocal

\* The loop that sets the read flags to 0, one flag per step.
ResetFlag ==
  /\ writer.pc = "reset" /\ writer.reset < ResetCount
  /\ readFlag' = [readFlag EXCEPT ![writer.idx][writer.reset + 1] = FALSE]
  /\ writer' = [writer EXCEPT !.reset = @ + 1,
                              !.pc = IF writer.reset + 1 = ResetCount THEN "commit" ELSE @]
  /\ UNCHANGED <<written, data, sock, subscribed, reader, published, delivered>>

\* The block is marked as written and current_idx moves on.
Commit ==
  /\ writer.pc = "commit"
  /\ written' = [written EXCEPT ![writer.idx] = TRUE]
  /\ published' = published + 1
  /\ writer' = [writer EXCEPT !.idx = NextChunk(@),
                              !.pc = IF Big(writer.size) THEN "sendLocal" ELSE "sendRemote"]
  /\ UNCHANGED <<readFlag, data, sock, subscribed, reader, delivered>>

SendLocal ==
  /\ writer.pc = "sendLocal"
  /\ Publish(Local, writer.obj)
  /\ writer' = [writer EXCEPT !.pc = "sendRemote"]
  /\ UNCHANGED <<ring, subscribed, reader, published, delivered>>

SendRemote ==
  /\ writer.pc = "sendRemote"
  /\ Publish(Remote, writer.obj)
  /\ writer' = [writer EXCEPT !.pc = "idle"]
  /\ UNCHANGED <<ring, subscribed, reader, published, delivered>>

----------------------------------------------------------------------------
(* The readers *)

\* wait_until_ready of a reader.
AwaitReady(r) ==
  /\ reader[r].pc = "ready" /\ sock[r] # << >>
  /\ sock' = [sock EXCEPT ![r] = Tail(@)]
  /\ reader' = [reader EXCEPT ![r].pc = IF r \in Local THEN "flag" ELSE "recv"]
  /\ UNCHANGED <<ring, subscribed, writer, published, delivered>>

\* acquire_read: the reader's own flag is loaded, then the written flag; the
\* loop starts again unless the block is written and not yet read.
LoadReadFlag(r) ==
  /\ reader[r].pc = "flag"
  /\ reader' = [reader EXCEPT ![r].pc = "written", ![r].flag = readFlag[reader[r].idx][r]]
  /\ UNCHANGED <<ring, sock, subscribed, writer, published, delivered>>

LoadWrittenFlag(r) ==
  /\ reader[r].pc = "written"
  /\ reader' = [reader EXCEPT ![r].pc =
                  IF written[reader[r].idx] /\ ~ reader[r].flag THEN "overflow" ELSE "flag"]
  /\ UNCHANGED <<ring, sock, subscribed, writer, published, delivered>>

\* dequeue, inside acquire_read.
ReadOverflow(r) ==
  LET over == data[reader[r].idx].overflow
  IN /\ reader[r].pc = "overflow"
     /\ reader' = [reader EXCEPT ![r].overflow = over,
                                 ![r].pc = IF over THEN "mark" ELSE "payload"]
     /\ UNCHANGED <<ring, sock, subscribed, writer, published, delivered>>

ReadPayload(r) ==
  /\ reader[r].pc = "payload"
  /\ reader' = [reader EXCEPT ![r].obj = data[reader[r].idx].obj, ![r].pc = "mark"]
  /\ UNCHANGED <<ring, sock, subscribed, writer, published, delivered>>

\* The read flag is set and current_idx moves on; a small object is returned,
\* a big one is still to be received.
MarkRead(r) ==
  /\ reader[r].pc = "mark"
  /\ readFlag' = [readFlag EXCEPT ![reader[r].idx][r] = TRUE]
  /\ reader' = [reader EXCEPT ![r].idx = NextChunk(@),
                              ![r].pc = IF reader[r].overflow THEN "recv" ELSE "flag"]
  /\ delivered' = IF reader[r].overflow THEN delivered
                  ELSE [delivered EXCEPT ![r] = Append(@, reader[r].obj)]
  /\ UNCHANGED <<written, data, sock, subscribed, writer, published>>

Receive(r) ==
  /\ reader[r].pc = "recv" /\ sock[r] # << >>
  /\ sock' = [sock EXCEPT ![r] = Tail(@)]
  /\ delivered' = [delivered EXCEPT ![r] = Append(@, Head(sock[r]))]
  /\ reader' = [reader EXCEPT ![r].pc = IF r \in Local THEN "flag" ELSE "recv"]
  /\ UNCHANGED <<ring, subscribed, writer, published>>

----------------------------------------------------------------------------
WriterStep ==
  \/ GreetLocal \/ GreetRemote \/ AcquireWrite \/ WriteOverflow \/ WritePayload
  \/ ResetFlag \/ Commit \/ SendLocal \/ SendRemote

ReaderStep(r) ==
  \/ Connect(r) \/ AwaitReady(r) \/ LoadReadFlag(r) \/ LoadWrittenFlag(r)
  \/ ReadOverflow(r) \/ ReadPayload(r) \/ MarkRead(r) \/ Receive(r)

Next == WriterStep \/ (\E size \in Sizes : Enqueue(size)) \/ \E r \in Readers : ReaderStep(r)

\* The writer finishes what it began; nothing says that it has more to send.
\* Each reader keeps calling dequeue.
Spec == Init /\ [][Next]_vars /\ WF_vars(WriterStep) /\ \A r \in Readers : WF_vars(ReaderStep(r))

----------------------------------------------------------------------------
(* Properties *)

\* The variables hold values of their types.
TypeOK ==
  /\ written \in [Chunks -> BOOLEAN]
  /\ readFlag \in [Chunks -> [Local -> BOOLEAN]]
  /\ data \in [Chunks -> [overflow : BOOLEAN, obj : Objects \cup {Torn}]]
  /\ \A r \in Readers : Len(sock[r]) <= HighWater
  /\ subscribed \subseteq Readers
  /\ writer \in [pc : WriterPcs, idx : Chunks, obj : 0 .. MaxMessages, size : Sizes, reset : 0 .. NumLocal]
  /\ reader \in [Readers -> [pc : LocalPcs, idx : Chunks, flag : BOOLEAN, overflow : BOOLEAN,
                             obj : Objects \cup {Torn}]]
  /\ published \in 0 .. MaxMessages

\* acquire_write and acquire_read exclude each other without a lock: while the
\* writer is inside a chunk, no reader is between its check of the flags and
\* its mark of the same chunk.
NoTornRead ==
  TypeOK /\ \A r \in Local :
    ~ /\ writer.pc \in WritingPcs /\ reader[r].idx = writer.idx
      /\ reader[r].pc \in {"overflow", "payload", "mark"}

\* What the users of the queue rely on (BroadcastQueue): local readers get
\* every object, in order, eventually, and hold the writer back when they lag
\* a full ring behind; remote readers get objects in order.
Promise == INSTANCE BroadcastQueue WITH
  MaxLag <- MaxChunks + 1,
  taken <- [r \in Readers |-> IF delivered[r] = << >> THEN 0 ELSE delivered[r][Len(delivered[r])]]
ImplementsBroadcast == Promise!Spec
=============================================================================
