-------------------------- MODULE EvictionPolicies --------------------------
(***************************************************************************)
(* The evictor of an allocator is the one make_evictor creates for the     *)
(* policy the environment names (vllm/core/evictor_v2.py).  What the       *)
(* allocator may rely on is stated here for whichever it is.               *)
(***************************************************************************)
EXTENDS EvictorParameters

CONSTANTS HeapBlocks, HeapClock   \* smaller bounds for the frequency policy

ASSUME HeapAssumption ==
  /\ HeapBlocks \subseteq Nat /\ HeapClock \in Nat
  /\ None \notin HeapBlocks \X Hashes
  /\ None \notin [hash : Hashes, depth : Depths, last : 0 .. HeapClock]

VARIABLES
  policy,                                          \* EvictionPolicy
  lruTable, stamp, lruClock, freeing, lruVictim,   \* LRUEvictor
  table, frequency, heap, generations, nextGeneration, clock, evicting, victim

Lru == INSTANCE LruEvictor
       WITH freeTable <- lruTable, clock <- lruClock, victim <- lruVictim

Frequency == INSTANCE FrequencyAwareEvictor
             WITH freeTable <- table, Blocks <- HeapBlocks, MaxClock <- HeapClock

lruVars == <<lruTable, stamp, lruClock, freeing, lruVictim>>
heapVars == <<table, frequency, heap, generations, nextGeneration, clock,
              evicting, victim>>
vars == <<policy, lruVars, heapVars>>

Init == policy \in {"LRU", "FREQUENCY_AWARE"} /\ Lru!Init /\ Frequency!Init

Next ==
  \/ /\ policy = "LRU" /\ Lru!Next
     /\ UNCHANGED <<policy, heapVars>>
  \/ /\ policy = "FREQUENCY_AWARE" /\ Frequency!Next
     /\ UNCHANGED <<policy, lruVars>>

\* evict() is one synchronous call: its loop runs to the end.
Spec == Init /\ [][Next]_vars /\ WF_heapVars(Frequency!EvictLoop)

----------------------------------------------------------------------------
(* Properties.                                                             *)

\* What the two searches rest on.  LRUEvictor: "The blocks with the lowest
\* timestamps should be placed consecutively at the start of OrderedDict"; so
\* it is while every step stamps all running sequences.  FrequencyAwareEvictor:
\* the lazily invalidated heap never loses a block and never orders one too
\* late (every held block has exactly one entry of its current generation, not
\* later than its true key), and does not grow "without bound".
OrderMaintained ==
  /\ Lru!TypeOK /\ Lru!StampsInInsertionOrder
  /\ Frequency!TypeOK /\ Frequency!HeapCoversTable /\ Frequency!HeapBounded

\* evict() returns the least block of its policy's order, although the LRU scan
\* stops early and the heap may have been ordered by older frequencies: the
\* oldest stamp and among those the deepest block, or the least of today's keys.
EvictsLeast == Lru!EvictsLeastRecentlyUsed /\ Frequency!EvictsLeastKey

\* evict() returns, stale and outdated heap entries notwithstanding.
EvictTerminates == Frequency!EvictTerminates

\* Whatever the policy, each held block is handed out once, with the hash it
\* was added under.
ImplementsEvictor == Lru!ImplementsEvictor /\ Frequency!ImplementsEvictor
=============================================================================
