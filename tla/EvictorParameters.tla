------------------------- MODULE EvictorParameters -------------------------
(* The parameters of the two eviction policies and of what drives them.     *)
EXTENDS Integers

CONSTANTS
  Blocks,       \* physical block ids (naturals: the last tie-break)
  Hashes,       \* content hashes
  Depths,       \* num_hashed_tokens a block may have
  None,
  MaxClock,     \* bound on last_accessed
  MaxPushes,    \* bound on the generations FrequencyAwareEvictor hands out
  Seqs,         \* sequences that may be running and whose blocks are freed
  Chunked       \* is chunked prefill on?

ASSUME EvictorAssumption ==
  /\ Blocks \subseteq Nat /\ Depths \subseteq Nat
  /\ MaxClock \in Nat /\ MaxPushes \in Nat /\ Chunked \in BOOLEAN
  /\ None \notin Hashes \cup (Blocks \X Hashes) \cup Nat \cup Seqs
============================================================================
