----------------------- MODULE FrequencyAwareEvictor -----------------------
(***************************************************************************)
(* FrequencyAwareEvictor of vllm/core/evictor_v2.py: evict the block whose *)
(* content was added least often, then the least recently accessed, then   *)
(* the one deepest in its prompt, then the lowest id.                      *)
(*                                                                         *)
(* Keys live in a heap that is invalidated lazily: every add or update     *)
(* pushes a fresh entry under a new generation, and evict() pops until it  *)
(* meets an entry that is current.  An entry whose frequency is out of     *)
(* date is pushed back under its generation.  The heap is rebuilt when it  *)
(* outgrows the table.  Entries differ in block, generation or frequency,  *)
(* so the heap is a set.                                                   *)
(***************************************************************************)
EXTENDS EvictorParameters, FiniteSets

VARIABLES
  freeTable,      \* free_table: block -> metadata, None when absent
  frequency,      \* frequency_by_hash (0: no entry)
  heap,           \* _heap
  generations,    \* _generations, 0 when absent
  nextGeneration, \* _next_generation
  clock,          \* the allocator's time
  evicting,       \* evict() is in its loop
  victim          \* what the last evict() returned

vars == <<freeTable, frequency, heap, generations, nextGeneration, clock,
          evicting, victim>>

Held == {b \in Blocks : freeTable[b] # None}

CompactionFactor == 2
CompactionSlack == 1

Init ==
  /\ freeTable = [b \in Blocks |-> None]
  /\ frequency = [h \in Hashes |-> 0]
  /\ heap = {}
  /\ generations = [b \in Blocks |-> 0]
  /\ nextGeneration = 0
  /\ clock = 0
  /\ evicting = FALSE
  /\ victim = None

\* _heap_key, under the frequencies freq.
HeapKey(freq, b, meta, generation) ==
  <<freq[meta.hash], meta.last, -meta.depth, b, generation>>

\* Python's order on those tuples.
Before(k, l) ==
  \E i \in 1 .. 5 : k[i] < l[i] /\ \A j \in 1 .. i - 1 : k[j] = l[j]

\* _compact_if_needed on the heap h that an operation leaves behind.
Compacted(h, freq, table, gens) ==
  LET held == {b \in Blocks : table[b] # None}
  IN  IF Cardinality(h) <= CompactionFactor * Cardinality(held) + CompactionSlack
      THEN h
      ELSE {HeapKey(freq, b, table[b], gens[b]) : b \in held}

\* _push of block b with metadata meta, then _compact_if_needed.
Push(b, meta, freq) ==
  LET generation == nextGeneration + 1
      table == [freeTable EXCEPT ![b] = meta]
      gens  == [generations EXCEPT ![b] = generation]
  IN  /\ nextGeneration < MaxPushes
      /\ freeTable' = table
      /\ frequency' = freq
      /\ nextGeneration' = generation
      /\ generations' = gens
      /\ heap' = Compacted(heap \cup {HeapKey(freq, b, meta, generation)},
                           freq, table, gens)
      /\ UNCHANGED <<clock, evicting>>

\* add: the allocator adds a block it just dropped the last reference of.
Add(b, h, depth) ==
  /\ ~evicting
  /\ freeTable[b] = None
  /\ Push(b, [hash |-> h, depth |-> depth, last |-> clock],
          [frequency EXCEPT ![h] = @ + 1])
  /\ victim' = None

\* update: a new last_accessed for a held block.
Update(b) ==
  /\ ~evicting
  /\ freeTable[b] # None
  /\ Push(b, [freeTable[b] EXCEPT !.last = clock], frequency)
  /\ victim' = None

\* remove: the block is referenced again; its heap entries go stale.
Remove(b) ==
  LET table == [freeTable EXCEPT ![b] = None]
      gens  == [generations EXCEPT ![b] = 0]
  IN  /\ ~evicting
      /\ freeTable[b] # None
      /\ freeTable' = table
      /\ generations' = gens
      /\ heap' = Compacted(heap, frequency, table, gens)
      /\ victim' = None
      /\ UNCHANGED <<frequency, nextGeneration, clock, evicting>>

\* evict() enters its loop.
BeginEvict ==
  /\ ~evicting
  /\ Held # {}
  /\ evicting' = TRUE
  /\ victim' = None
  /\ UNCHANGED <<freeTable, frequency, heap, generations, nextGeneration, clock>>

IsTop(e) == e \in heap /\ \A other \in heap \ {e} : Before(e, other)

\* Fault: an entry with an old frequency is thrown away.
StaleOrOutdated(e) ==
  \/ freeTable[e[4]] = None
  \/ generations[e[4]] # e[5]
  \/ frequency[freeTable[e[4]].hash] # e[1]

\* The popped entry belongs to a block that left or was pushed again.
Stale(e) == freeTable[e[4]] = None \/ generations[e[4]] # e[5]

PopStale(e) ==
  /\ evicting /\ IsTop(e)
  /\ Stale(e)
  /\ heap' = heap \ {e}
  /\ UNCHANGED <<freeTable, frequency, generations, nextGeneration, clock,
                 evicting, victim>>

\* Fault: the entry is pushed back as it was.
PopOutdatedUnchanged(e) ==
  /\ evicting /\ IsTop(e)
  /\ ~Stale(e)
  /\ frequency[freeTable[e[4]].hash] # e[1]
  /\ heap' = (heap \ {e}) \cup {e}
  /\ UNCHANGED <<freeTable, frequency, generations, nextGeneration, clock,
                 evicting, victim>>

\* Its content was added again since: push it back with today's frequency.
PopOutdated(e) ==
  /\ evicting /\ IsTop(e)
  /\ ~Stale(e)
  /\ frequency[freeTable[e[4]].hash] # e[1]
  /\ heap' = (heap \ {e})
             \cup {HeapKey(frequency, e[4], freeTable[e[4]], e[5])}
  /\ UNCHANGED <<freeTable, frequency, generations, nextGeneration, clock,
                 evicting, victim>>

\* A current entry: its block is the victim.
PopVictim(e) ==
  LET table == [freeTable EXCEPT ![e[4]] = None]
      gens  == [generations EXCEPT ![e[4]] = 0]
  IN  /\ evicting /\ IsTop(e)
      /\ ~Stale(e)
      /\ frequency[freeTable[e[4]].hash] = e[1]
      /\ victim' = <<e[4], freeTable[e[4]].hash>>
      /\ freeTable' = table
      /\ generations' = gens
      /\ heap' = Compacted(heap \ {e}, frequency, table, gens)
      /\ evicting' = FALSE
      /\ UNCHANGED <<frequency, nextGeneration, clock>>

Tick ==
  /\ clock < MaxClock
  /\ clock' = clock + 1
  /\ UNCHANGED <<freeTable, frequency, heap, generations, nextGeneration,
                 evicting, victim>>

EvictLoop == \E e \in heap : PopStale(e) \/ PopOutdated(e) \/ PopVictim(e)

Next ==
  \/ \E b \in Blocks, h \in Hashes, n \in Depths : Add(b, h, n)
  \/ \E b \in Blocks : Update(b)
  \/ \E b \in Blocks : Remove(b)
  \/ BeginEvict
  \/ EvictLoop
  \/ Tick

\* evict() is one synchronous call: its loop runs to the end.
Spec == Init /\ [][Next]_vars /\ WF_vars(EvictLoop)

----------------------------------------------------------------------------
(* Properties.                                                             *)

Metadata == [hash : Hashes, depth : Depths, last : 0 .. MaxClock]

TypeOK ==
  /\ freeTable \in [Blocks -> Metadata \cup {None}]
  /\ frequency \in [Hashes -> 0 .. MaxPushes]
  /\ heap \subseteq (0 .. MaxPushes) \X (0 .. MaxClock)
                    \X {-n : n \in Depths} \X Blocks \X (1 .. MaxPushes)
  /\ generations \in [Blocks -> 0 .. MaxPushes]
  /\ nextGeneration \in 0 .. MaxPushes
  /\ clock \in 0 .. MaxClock
  /\ evicting \in BOOLEAN
  /\ victim \in (Blocks \X Hashes) \cup {None}

\* Lazy invalidation never loses a block: every held block has exactly one
\* entry of its current generation, and that entry is not later in the order
\* than the block's true key.  Without it evict() would end in "Evictor heap
\* has no usable entry", or pass over the right victim.
HeapCoversTable ==
  \A b \in Held :
    \E e \in heap :
      /\ e[4] = b /\ e[5] = generations[b]
      /\ e[1] <= frequency[freeTable[b].hash]
      /\ e[2] = freeTable[b].last /\ e[3] = -freeTable[b].depth
      /\ \A f \in heap : f[4] = b /\ f[5] = generations[b] => f = e

\* Stale entries do not accumulate: between calls the heap is at most twice
\* the table plus one, whatever the history ("without allowing stale entries
\* to grow without bound").
HeapBounded ==
  ~evicting => Cardinality(heap) <= 2 * Cardinality(Held) + 1

TrueKey(b) == HeapKey(frequency, b, freeTable[b], 0)

\* The victim is the held block that is least by today's keys, although the
\* heap may have been ordered by older ones.
EvictsLeastKey ==
  [][evicting /\ ~evicting' =>
       /\ victim' # None
       /\ freeTable[victim'[1]] # None
       /\ \A b \in Held \ {victim'[1]} : Before(TrueKey(victim'[1]), TrueKey(b))]_vars

\* evict() returns.
EvictTerminates == evicting ~> ~evicting

\* The policy implements the evictor the allocator relies on.
Abstract ==
  INSTANCE Evictor
  WITH evictable <- [b \in Blocks |->
                       IF freeTable[b] = None THEN None ELSE freeTable[b].hash]

ImplementsEvictor == Abstract!Spec
============================================================================
