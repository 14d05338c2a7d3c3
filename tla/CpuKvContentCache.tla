------------------------- MODULE CpuKvContentCache -------------------------
(***************************************************************************)
(* The scheduler-owned content index of the inclusive CPU KV tier          *)
(* (vllm/core/block/cpu_kv_content_cache.py), together with the worker     *)
(* copies its transfer maps cause.                                         *)
(*                                                                         *)
(* A scheduling step calls BeginStep, then any sequence of ClaimLoad,      *)
(* CancelLoad, StageLoad and StageStore (the prefix-caching allocator's    *)
(* callbacks), then drains.  Draining first settles every deferred store   *)
(* (one loop iteration per action; `phase` keeps every other operation     *)
(* out), then hands the two maps to the workers, which copy GPU to CPU     *)
(* before CPU to GPU, and the engine waits for them before the next step.  *)
(*                                                                         *)
(* A call the code answers with a RuntimeError changes nothing, so each    *)
(* raise is a guard here.  The counters hits, misses, stores ... are       *)
(* statistics nothing reads and are left out.                              *)
(***************************************************************************)
EXTENDS Naturals, Sequences

CONSTANTS
  Hashes,      \* content hashes of full KV blocks
  GpuBlocks,   \* GPU block ids
  Capacity,    \* number of CPU slots
  None         \* "no slot", "no hash", "no block"

Slots == 0 .. Capacity - 1

ASSUME CapacityAssumption == Capacity \in Nat \ {0}
ASSUME NoneAssumption == None \notin Hashes \cup GpuBlocks \cup Slots

VARIABLES
  hashToSlot,    \* _hash_to_slot, None where the dict has no entry
  slotToHash,    \* _slot_to_hash
  readySlots,    \* _ready_slots: the CPU copy exists
  lru,           \* _lru: slots from least to most recently touched
  freeSlots,     \* _free_slots (a min-heap)
  slotsInUse,    \* _step_slots_in_use
  loadSlots,     \* _step_load_slots
  h2d,           \* _step_h2d: CPU slot -> GPU block
  d2h,           \* _step_d2h: GPU block -> CPU slot
  deferred,      \* _deferred_d2h (and _deferred_hashes), insertion order
  pendingReady,  \* _pending_ready_slots
  phase,         \* where the step stands
  swapIn,        \* drained H2D map, executed by the workers
  swapOut,       \* drained D2H map
  gpuMem,        \* what each GPU block physically holds
  cpuMem,        \* what each pinned CPU slot physically holds
  wanted         \* history: the hash each GPU block is being restored for

indexVars  == <<hashToSlot, slotToHash, readySlots, lru, freeSlots>>
stepVars   == <<slotsInUse, loadSlots, h2d, d2h, deferred>>
workerVars == <<swapIn, swapOut, gpuMem, cpuMem>>
vars == <<indexVars, stepVars, pendingReady, phase, workerVars, wanted>>

Phases == {"open", "drain", "work", "done"}

NoLoads  == [s \in Slots |-> None]
NoStores == [g \in GpuBlocks |-> None]

Init ==
  /\ hashToSlot = [h \in Hashes |-> None]
  /\ slotToHash = [s \in Slots |-> None]
  /\ readySlots = {}
  /\ lru = << >>
  /\ freeSlots = Slots
  /\ slotsInUse = {}
  /\ loadSlots = {}
  /\ h2d = NoLoads
  /\ d2h = NoStores
  /\ deferred = << >>
  /\ pendingReady = {}
  /\ phase = "done"
  /\ swapIn = NoLoads
  /\ swapOut = NoStores
  /\ gpuMem = [g \in GpuBlocks |-> None]
  /\ cpuMem = [s \in Slots |-> None]
  /\ wanted = NoStores

LoadSources == {s \in Slots : h2d[s] # None}
LoadTargets == {h2d[s] : s \in LoadSources}
StoreSources == {g \in GpuBlocks : d2h[g] # None}
StoreTargets == {d2h[g] : g \in StoreSources}
DeferredBlocks == {deferred[i][1] : i \in DOMAIN deferred}
DeferredHashes == {deferred[i][2] : i \in DOMAIN deferred}

----------------------------------------------------------------------------
(* Recency.  OrderedDict.pop(slot, None) followed by an insertion at the   *)
(* end.                                                                    *)

Without(order, slot) ==
  IF \E i \in DOMAIN order : order[i] = slot
  THEN LET at == CHOOSE i \in DOMAIN order : order[i] = slot
       IN  [j \in 1 .. Len(order) - 1 |->
              IF j < at THEN order[j] ELSE order[j + 1]]
  ELSE order

\* Fault: the slot is not popped first.
TouchAppends(order, slot) == Append(order, slot)

Touch(order, slot) == Append(Without(order, slot), slot)

\* _select_store_slot: the lowest free slot, else the least recently used
\* slot that this step does not use.
SelectStoreSlot(slot) ==
  IF freeSlots # {}
  THEN /\ slot \in freeSlots
       /\ \A other \in freeSlots : slot <= other
  ELSE \E i \in DOMAIN lru :
         /\ lru[i] = slot
         /\ slot \notin slotsInUse
         /\ \A j \in 1 .. i - 1 : lru[j] \in slotsInUse

\* Fault: the oldest slot is replaced, whatever slot was selected and whether
\* or not the step uses it.
CommitStoreOldest(h, g, slot) ==
  LET oldest == IF lru = << >> THEN slot ELSE Head(lru)
  IN  /\ hashToSlot' = [x \in Hashes |->
                          IF x = h THEN oldest
                          ELSE IF x = slotToHash[oldest] THEN None
                          ELSE hashToSlot[x]]
      /\ slotToHash' = [slotToHash EXCEPT ![oldest] = h]
      /\ readySlots' = readySlots \ {oldest}
      /\ freeSlots' = freeSlots \ {oldest}
      /\ slotsInUse' = slotsInUse \cup {oldest}
      /\ d2h' = [d2h EXCEPT ![g] = oldest]
      /\ lru' = Touch(lru, oldest)

\* _commit_store, with the heap pop its callers do.  The evicted hash, if the
\* slot had one, leaves the index; the new one is not ready before the copy.
CommitStore(h, g, slot) ==
  /\ slotToHash[slot] = None \/ slot \notin slotsInUse
  /\ h2d[slot] = None
  /\ slot \notin StoreTargets
  /\ hashToSlot' = [x \in Hashes |->
                      IF x = h THEN slot
                      ELSE IF x = slotToHash[slot] THEN None
                      ELSE hashToSlot[x]]
  /\ slotToHash' = [slotToHash EXCEPT ![slot] = h]
  /\ readySlots' = readySlots \ {slot}
  /\ freeSlots' = freeSlots \ {slot}
  /\ slotsInUse' = slotsInUse \cup {slot}
  /\ d2h' = [d2h EXCEPT ![g] = slot]
  /\ lru' = Touch(lru, slot)

----------------------------------------------------------------------------
(* The operations.                                                         *)

\* begin_step: publish the stores the preceding synchronous step executed.
BeginStep ==
  /\ phase = "done"
  /\ slotsInUse = {} /\ LoadSources = {} /\ StoreSources = {}
  /\ deferred = << >>
  /\ readySlots' = readySlots \cup pendingReady
  /\ pendingReady' = {}
  /\ phase' = "open"
  /\ wanted' = NoStores
  /\ UNCHANGED <<hashToSlot, slotToHash, lru, freeSlots, stepVars, workerVars>>

Ready(h) == hashToSlot[h] # None /\ hashToSlot[h] \in readySlots

\* claim_load, the hit; a miss returns None and changes nothing.
ClaimLoadOK(h) == pendingReady = {} /\ hashToSlot[h] \notin slotsInUse

ClaimLoad(h) ==
  /\ phase = "open"
  /\ Ready(h)
  /\ ClaimLoadOK(h)
  /\ slotsInUse' = slotsInUse \cup {hashToSlot[h]}
  /\ loadSlots' = loadSlots \cup {hashToSlot[h]}
  /\ lru' = Touch(lru, hashToSlot[h])
  /\ UNCHANGED <<hashToSlot, slotToHash, readySlots, freeSlots, h2d, d2h,
                 deferred, pendingReady, phase, workerVars, wanted>>

\* cancel_load: the GPU allocation failed between the claim and the staging.
\* loadSlots holds every claim; set.remove raises for a slot that is in use
\* as a store destination only.
CancelLoadOK(h, slot) ==
  /\ hashToSlot[h] = slot
  /\ h2d[slot] = None
  /\ slot \in slotsInUse
  /\ slot \in loadSlots

CancelLoad(h, slot) ==
  /\ phase = "open"
  /\ CancelLoadOK(h, slot)
  /\ slotsInUse' = slotsInUse \ {slot}
  /\ loadSlots' = loadSlots \ {slot}
  /\ UNCHANGED <<indexVars, h2d, d2h, deferred, pendingReady, phase,
                 workerVars, wanted>>

\* Fault: a GPU block may be the target of two loads.
StageLoadAnyTarget(h, slot, g) ==
  /\ hashToSlot[h] = slot
  /\ slot \in readySlots
  /\ slot \in slotsInUse
  /\ h2d[slot] = None
  /\ slot \notin StoreTargets

\* stage_load
StageLoadOK(h, slot, g) ==
  /\ hashToSlot[h] = slot
  /\ slot \in readySlots
  /\ slot \in slotsInUse
  /\ h2d[slot] = None
  /\ g \notin LoadTargets
  /\ slot \notin StoreTargets

StageLoad(h, slot, g) ==
  /\ phase = "open"
  /\ StageLoadOK(h, slot, g)
  /\ h2d' = [h2d EXCEPT ![slot] = g]
  /\ wanted' = [wanted EXCEPT ![g] = h]
  /\ UNCHANGED <<indexVars, slotsInUse, loadSlots, d2h, deferred,
                 pendingReady, phase, workerVars>>

Deduplicated(h) == hashToSlot[h] # None \/ h \in DeferredHashes

StageStoreOK(h, g) ==
  /\ pendingReady = {}
  /\ Deduplicated(h) \/ (d2h[g] = None /\ g \notin DeferredBlocks)

\* stage_store of content the tier already has (or will have): touch it.
StageStoreDuplicate(h) ==
  /\ Deduplicated(h)
  /\ lru' = IF hashToSlot[h] # None THEN Touch(lru, hashToSlot[h]) ELSE lru
  /\ UNCHANGED <<hashToSlot, slotToHash, readySlots, freeSlots, stepVars>>

\* stage_store into a free slot.
StageStoreFree(h, g) ==
  /\ ~Deduplicated(h)
  /\ freeSlots # {}
  /\ \E slot \in freeSlots : SelectStoreSlot(slot) /\ CommitStore(h, g, slot)
  /\ UNCHANGED <<loadSlots, h2d, deferred>>

\* stage_store with the tier full: no resident content is replaced before
\* every lookup of the step is known.
StageStoreDeferred(h, g) ==
  /\ ~Deduplicated(h)
  /\ freeSlots = {}
  /\ deferred' = Append(deferred, <<g, h>>)
  /\ UNCHANGED <<indexVars, slotsInUse, loadSlots, h2d, d2h>>

StageStore(h, g) ==
  /\ phase = "open"
  /\ StageStoreOK(h, g)
  /\ \/ StageStoreDuplicate(h)
     \/ StageStoreFree(h, g)
     \/ StageStoreDeferred(h, g)
  /\ UNCHANGED <<pendingReady, phase, workerVars, wanted>>

\* drain_step enters _resolve_deferred_stores.
BeginDrain ==
  /\ phase = "open"
  /\ phase' = "drain"
  /\ UNCHANGED <<indexVars, stepVars, pendingReady, workerVars, wanted>>

\* A step with any load skips all of its deferred stores.
SkipDeferredStores ==
  /\ phase = "drain"
  /\ deferred # << >>
  /\ loadSlots # {}
  /\ deferred' = << >>
  /\ UNCHANGED <<indexVars, slotsInUse, loadSlots, h2d, d2h, pendingReady,
                 phase, workerVars, wanted>>

\* One iteration of the loop: the oldest deferred store replaces the least
\* recently used slot, or is skipped when every slot is in use.
ResolveDeferredStore ==
  /\ phase = "drain"
  /\ deferred # << >>
  /\ loadSlots = {}
  /\ deferred' = Tail(deferred)
  /\ \/ \E slot \in Slots :
          /\ SelectStoreSlot(slot)
          /\ CommitStore(Head(deferred)[2], Head(deferred)[1], slot)
     \/ /\ \A slot \in Slots : ~SelectStoreSlot(slot)
        /\ UNCHANGED <<indexVars, slotsInUse, d2h>>
  /\ UNCHANGED <<loadSlots, h2d, pendingReady, phase, workerVars, wanted>>

\* The checks of drain_step; each raises.
DrainStepOK ==
  /\ slotsInUse = LoadSources \cup StoreTargets
  /\ LoadSources \cap StoreTargets = {}
  /\ LoadSources = loadSlots

\* The rest of drain_step: return the maps, which go out with the step.
DrainStep ==
  /\ phase = "drain"
  /\ deferred = << >>
  /\ DrainStepOK
  /\ swapIn' = h2d
  /\ swapOut' = d2h
  /\ pendingReady' = pendingReady \cup StoreTargets
  /\ h2d' = NoLoads
  /\ d2h' = NoStores
  /\ slotsInUse' = {}
  /\ loadSlots' = {}
  /\ phase' = "work"
  /\ UNCHANGED <<indexVars, deferred, gpuMem, cpuMem, wanted>>

\* The workers: every D2H copy, then every H2D copy (the order the patched
\* worker establishes).
AfterSwapIn(cpu) ==
  [g \in GpuBlocks |->
     IF \E s \in Slots : swapIn[s] = g
     THEN cpu[CHOOSE s \in Slots : swapIn[s] = g]
     ELSE gpuMem[g]]

\* Fault: the H2D copies run first (the order before the patch).
AfterSwapOutLast ==
  [s \in Slots |->
     IF \E g \in GpuBlocks : swapOut[g] = s
     THEN AfterSwapIn(cpuMem)[CHOOSE g \in GpuBlocks : swapOut[g] = s]
     ELSE cpuMem[s]]

AfterSwapOut ==
  [s \in Slots |->
     IF \E g \in GpuBlocks : swapOut[g] = s
     THEN gpuMem[CHOOSE g \in GpuBlocks : swapOut[g] = s]
     ELSE cpuMem[s]]

ExecuteTransfers ==
  /\ phase = "work"
  /\ cpuMem' = AfterSwapOut
  /\ gpuMem' = AfterSwapIn(AfterSwapOut)
  /\ swapIn' = NoLoads
  /\ swapOut' = NoStores
  /\ phase' = "done"
  /\ UNCHANGED <<indexVars, stepVars, pendingReady, wanted>>

----------------------------------------------------------------------------
(* The client.  What the prefix-caching allocator guarantees: it stages or  *)
(* cancels every claim before the step drains, it stores a block under the  *)
(* hash of what the block holds, and the forward pass writes no block that  *)
(* was restored in the same step.                                           *)

ClientStore(h, g) == gpuMem[g] = h /\ StageStore(h, g)

ClientDrain == loadSlots = LoadSources /\ BeginDrain

ForwardPass(g, h) ==
  /\ phase = "done"
  /\ wanted[g] = None
  /\ gpuMem' = [gpuMem EXCEPT ![g] = h]
  /\ UNCHANGED <<indexVars, stepVars, pendingReady, phase, swapIn, swapOut,
                 cpuMem, wanted>>

Next ==
  \/ BeginStep
  \/ \E h \in Hashes : ClaimLoad(h)
  \/ \E h \in Hashes, s \in Slots : CancelLoad(h, s)
  \/ \E h \in Hashes, s \in Slots, g \in GpuBlocks : StageLoad(h, s, g)
  \/ \E h \in Hashes, g \in GpuBlocks : ClientStore(h, g)
  \/ ClientDrain
  \/ SkipDeferredStores
  \/ ResolveDeferredStore
  \/ DrainStep
  \/ ExecuteTransfers
  \/ \E g \in GpuBlocks, h \in Hashes : ForwardPass(g, h)

Spec == Init /\ [][Next]_vars

----------------------------------------------------------------------------
(* Properties.                                                             *)

TypeOK ==
  /\ hashToSlot \in [Hashes -> Slots \cup {None}]
  /\ slotToHash \in [Slots -> Hashes \cup {None}]
  /\ readySlots \in SUBSET Slots
  /\ lru \in Seq(Slots)
  /\ freeSlots \in SUBSET Slots
  /\ slotsInUse \in SUBSET Slots
  /\ loadSlots \in SUBSET Slots
  /\ h2d \in [Slots -> GpuBlocks \cup {None}]
  /\ d2h \in [GpuBlocks -> Slots \cup {None}]
  /\ deferred \in Seq(GpuBlocks \X Hashes)
  /\ pendingReady \in SUBSET Slots
  /\ phase \in Phases
  /\ swapIn \in [Slots -> GpuBlocks \cup {None}]
  /\ swapOut \in [GpuBlocks -> Slots \cup {None}]
  /\ gpuMem \in [GpuBlocks -> Hashes \cup {None}]
  /\ cpuMem \in [Slots -> Hashes \cup {None}]
  /\ wanted \in [GpuBlocks -> Hashes \cup {None}]

\* The two dicts are inverse to each other, the free heap holds exactly the
\* slots without content, and the recency order lists every other slot once:
\* a slot missing from it could never be reused, one listed twice would be
\* evicted while fresh.
IndexConsistent ==
  /\ \A h \in Hashes :
       hashToSlot[h] # None => slotToHash[hashToSlot[h]] = h
  /\ \A s \in Slots :
       slotToHash[s] # None => hashToSlot[slotToHash[s]] = s
  /\ freeSlots = {s \in Slots : slotToHash[s] = None}
  /\ \A s \in Slots \ freeSlots : \E i \in DOMAIN lru : lru[i] = s
  /\ \A i \in DOMAIN lru : lru[i] \notin freeSlots
  /\ \A i, j \in DOMAIN lru : lru[i] = lru[j] => i = j

\* The class docstring: "a D2H destination can never overwrite an H2D source
\* before workers execute the maps".  Also no two copies of a step share a
\* destination, on either side.
TransfersDisjoint ==
  /\ LoadSources \cap StoreTargets = {}
  /\ \A s \in Slots : swapIn[s] # None => \A g \in GpuBlocks : swapOut[g] # s
  /\ \A g1, g2 \in StoreSources : d2h[g1] = d2h[g2] => g1 = g2
  /\ \A s1, s2 \in LoadSources : h2d[s1] = h2d[s2] => s1 = s2

\* A slot that lookups may return physically holds the content of its hash:
\* no store is published before the workers copied it, and a replaced slot is
\* unpublished at once.
ReadyMeansCopied ==
  \A s \in readySlots : slotToHash[s] # None /\ cpuMem[s] = slotToHash[s]

\* Once the workers are done, every GPU block restored in the step holds the
\* content it was restored for, also when the same block was the source of a
\* store of the step.
RestoreDelivers ==
  phase = "done" =>
    \A g \in GpuBlocks : wanted[g] # None => gpuMem[g] = wanted[g]

\* A slot used by a transfer of the step keeps its content until the step is
\* drained: eviction never takes a pinned slot.
PinnedSlotsKeepContent ==
  [][\A s \in slotsInUse : slotToHash'[s] = slotToHash[s]]_vars
============================================================================
