----------------------------- MODULE LruEvictor -----------------------------
(***************************************************************************)
(* LRUEvictor of vllm/core/evictor_v2.py, fed the way BlockSpaceManagerV2  *)
(* feeds it: a scheduler step stamps every sequence it schedules with the  *)
(* same time (access_all_blocks_in_seq), and when a sequence is freed each *)
(* block it held last is added with the stamp of the sequence.             *)
(*                                                                         *)
(* free_table is an OrderedDict whose insertion order is taken for the     *)
(* order of the stamps; evict() scans it from the front and stops at the   *)
(* first later stamp.                                                      *)
(***************************************************************************)
EXTENDS EvictorParameters, Sequences

VARIABLES
  freeTable,   \* free_table: entries in insertion order
  stamp,       \* _seq_last_access of the running sequences, None otherwise
  clock,       \* time of the latest scheduler step
  freeing,     \* the sequence whose block table is being freed, or None
  victim       \* what the last evict() returned

vars == <<freeTable, stamp, clock, freeing, victim>>

Held == {freeTable[i].id : i \in DOMAIN freeTable}

Init ==
  /\ freeTable = << >>
  /\ stamp = [s \in Seqs |-> None]
  /\ clock = 0
  /\ freeing = None
  /\ victim = None

Running == {s \in Seqs : stamp[s] # None}

\* Fault: prefills go first with chunked prefill too.
BatchPrefillsFirst(admitted) ==
  IF admitted = {} THEN Running ELSE admitted

\* Which sequences a step schedules.  With chunked prefill the running ones
\* and the admitted ones share the batch (the token budget suffices for
\* them); without it "Don't schedule decodes if prefills are scheduled".
Batch(admitted) ==
  IF Chunked \/ admitted = {} THEN Running \cup admitted ELSE admitted

\* A scheduler step that admits some waiting sequences.
Schedule(admitted) ==
  /\ freeing = None
  /\ clock < MaxClock
  /\ admitted \cap Running = {}
  /\ Batch(admitted) # {}
  /\ clock' = clock + 1
  /\ stamp' = [s \in Seqs |-> IF s \in Batch(admitted) THEN clock' ELSE stamp[s]]
  /\ victim' = None
  /\ UNCHANGED <<freeTable, freeing>>

\* add: a sequence being freed drops the last reference of block b.
Add(s, b, h, depth) ==
  /\ stamp[s] # None
  /\ freeing \in {None, s}
  /\ freeing' = s
  /\ b \notin Held
  /\ freeTable' = Append(freeTable, [id |-> b, hash |-> h, depth |-> depth,
                                     last |-> stamp[s]])
  /\ victim' = None
  /\ UNCHANGED <<stamp, clock>>

\* The sequence has dropped all its blocks.
EndFree(s) ==
  /\ stamp[s] # None
  /\ freeing \in {None, s}
  /\ freeing' = None
  /\ stamp' = [stamp EXCEPT ![s] = None]
  /\ victim' = None
  /\ UNCHANGED <<freeTable, clock>>

WithoutEntry(k) ==
  [j \in 1 .. Len(freeTable) - 1 |->
     IF j < k THEN freeTable[j] ELSE freeTable[j + 1]]

\* remove: the block is referenced again.
Remove(b) ==
  /\ freeing = None
  /\ \E k \in DOMAIN freeTable :
       freeTable[k].id = b /\ freeTable' = WithoutEntry(k)
  /\ victim' = None
  /\ UNCHANGED <<stamp, clock, freeing>>

\* The scan of evict(): the candidate after looking at entries 1 .. i, and
\* whether the loop broke.
Scan[i \in 1 .. Len(freeTable)] ==
  IF i = 1 THEN [best |-> 1, stop |-> FALSE]
  ELSE LET prev == Scan[i - 1]
           cand == freeTable[prev.best]
       IN  IF prev.stop THEN prev
           ELSE IF cand.last < freeTable[i].last THEN [prev EXCEPT !.stop = TRUE]
           ELSE IF cand.depth < freeTable[i].depth THEN [prev EXCEPT !.best = i]
           ELSE prev

\* Fault: the first entry goes, at whatever depth.
EvictFirst ==
  /\ freeing = None
  /\ freeTable # << >>
  /\ victim' = <<freeTable[1].id, freeTable[1].hash>>
  /\ freeTable' = Tail(freeTable)
  /\ UNCHANGED <<stamp, clock, freeing>>

\* Fault: the victim stays in the table.
EvictKept ==
  /\ freeing = None
  /\ freeTable # << >>
  /\ LET k == Scan[Len(freeTable)].best
     IN  victim' = <<freeTable[k].id, freeTable[k].hash>>
  /\ UNCHANGED <<freeTable, stamp, clock, freeing>>

Evict ==
  /\ freeing = None
  /\ freeTable # << >>
  /\ LET k == Scan[Len(freeTable)].best
     IN  /\ victim' = <<freeTable[k].id, freeTable[k].hash>>
         /\ freeTable' = WithoutEntry(k)
  /\ UNCHANGED <<stamp, clock, freeing>>

Next ==
  \/ \E admitted \in SUBSET Seqs : Schedule(admitted)
  \/ \E s \in Seqs, b \in Blocks, h \in Hashes, n \in Depths : Add(s, b, h, n)
  \/ \E s \in Seqs : EndFree(s)
  \/ \E b \in Blocks : Remove(b)
  \/ Evict

Spec == Init /\ [][Next]_vars

----------------------------------------------------------------------------
(* Properties.                                                             *)

TypeOK ==
  /\ freeTable \in Seq([id : Blocks, hash : Hashes, depth : Depths,
                        last : 0 .. MaxClock])
  /\ stamp \in [Seqs -> (1 .. MaxClock) \cup {None}]
  /\ clock \in 0 .. MaxClock
  /\ freeing \in Seqs \cup {None}
  /\ victim \in (Blocks \X Hashes) \cup {None}

\* The scan's premise, stated in evict()'s comment: "The blocks with the
\* lowest timestamps should be placed consecutively at the start of
\* OrderedDict".
StampsInInsertionOrder ==
  \A i, j \in DOMAIN freeTable : i < j => freeTable[i].last <= freeTable[j].last

\* The class docstring: the victim has the oldest stamp and, among those, the
\* largest number of hashed tokens, so a prompt's last blocks go first and a
\* cached prefix is never cut in the middle.
EvictsLeastRecentlyUsed ==
  [][victim' # None =>
       \E v \in DOMAIN freeTable :
         /\ freeTable[v].id = victim'[1]
         /\ \A i \in DOMAIN freeTable :
              \/ freeTable[v].last < freeTable[i].last
              \/ /\ freeTable[v].last = freeTable[i].last
                 /\ freeTable[v].depth >= freeTable[i].depth]_vars

\* The policy implements the evictor the allocator relies on.
Abstract ==
  INSTANCE Evictor
  WITH evictable <- [b \in Blocks |->
         IF \E i \in DOMAIN freeTable : freeTable[i].id = b
         THEN (CHOOSE e \in {freeTable[i] : i \in DOMAIN freeTable} : e.id = b).hash
         ELSE None]

ImplementsEvictor == Abstract!Spec
============================================================================
