------------------------------ MODULE Evictor ------------------------------
(***************************************************************************)
(* What the prefix-caching allocator relies on from any eviction policy    *)
(* (the abstract class Evictor of vllm/core/evictor_v2.py): the evictor    *)
(* holds unreferenced cached blocks, each with the hash it was added       *)
(* under, and evict() hands out one of them with that hash, exactly once.  *)
(* Which one is the policy's business.                                     *)
(***************************************************************************)
CONSTANTS Blocks, Hashes, None

VARIABLES
  evictable,   \* block -> content hash, None for a block it does not hold
  victim       \* the last block evict() returned, with its hash, or None

Init == evictable = [b \in Blocks |-> None] /\ victim = None

Add(b, h) ==
  /\ evictable[b] = None
  /\ evictable' = [evictable EXCEPT ![b] = h]
  /\ victim' = None

Remove(b) ==
  /\ evictable[b] # None
  /\ evictable' = [evictable EXCEPT ![b] = None]
  /\ victim' = None

Evict(b) ==
  /\ evictable[b] # None
  /\ victim' = <<b, evictable[b]>>
  /\ evictable' = [evictable EXCEPT ![b] = None]

Next ==
  \E b \in Blocks : Remove(b) \/ Evict(b) \/ \E h \in Hashes : Add(b, h)

\* victim is only a record of the last result; forgetting it is no step of
\* the policy.
Forget == victim' = None /\ UNCHANGED evictable

Spec == Init /\ [][Next \/ Forget]_<<evictable, victim>>
============================================================================
