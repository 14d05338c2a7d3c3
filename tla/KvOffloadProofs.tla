-------------------------- MODULE KvOffloadProofs --------------------------
(***************************************************************************)
(* Machine-checked proofs about the CPU tier (CpuKvContentCache) and about *)
(* the allocator over it (KvOffload), for every capacity, set of hashes,   *)
(* finite set of GPU blocks and finite set of requests.                    *)
(*                                                                         *)
(* The tier's invariant has two halves: its bookkeeping, which holds with  *)
(* any client, and the contents, which hold if blocks are stored under the *)
(* hash of what they hold.  The allocator is shown to be such a client     *)
(* when prefills are whole; when they are not, the bookkeeping still is    *)
(* right.                                                                  *)
(***************************************************************************)
EXTENDS KvOffload, FiniteSetTheorems, TLAPS

----------------------------------------------------------------------------
(* The tier.  The inductive invariant, one named part per idea.            *)

\* The two dicts are inverse to each other; free means without content.
IndexInv ==
  /\ \A h \in Hashes :
       hashToSlot[h] # None => slotToHash[hashToSlot[h]] = h
  /\ \A s \in Slots :
       slotToHash[s] # None => hashToSlot[slotToHash[s]] = s
  /\ freeSlots = {s \in Slots : slotToHash[s] = None}
  /\ \A s \in readySlots : slotToHash[s] # None

\* The recency order lists every slot with content exactly once.
LruInv ==
  /\ \A s \in Slots \ freeSlots : \E i \in DOMAIN lru : lru[i] = s
  /\ \A i \in DOMAIN lru : lru[i] \notin freeSlots
  /\ \A i, j \in DOMAIN lru : lru[i] = lru[j] => i = j

\* What the pins of the step stand for.
StepInv ==
  /\ \A s \in Slots : h2d[s] # None => s \in loadSlots
  /\ \A s \in loadSlots : s \in slotsInUse /\ s \in readySlots
  /\ \A g \in GpuBlocks :
       d2h[g] # None =>
         /\ d2h[g] \in slotsInUse /\ d2h[g] \notin readySlots
         /\ slotToHash[d2h[g]] # None
  /\ \A s \in slotsInUse : s \in loadSlots \/ \E g \in GpuBlocks : d2h[g] = s
  /\ \A g1, g2 \in GpuBlocks :
       d2h[g1] # None /\ d2h[g1] = d2h[g2] => g1 = g2
  /\ \A s1, s2 \in Slots : h2d[s1] # None /\ h2d[s1] = h2d[s2] => s1 = s2

\* Deferred stores are for content the tier does not have, from blocks that
\* are not stored yet, and exist only while the tier is full.
DeferredInv ==
  /\ \A i \in DOMAIN deferred :
       /\ hashToSlot[deferred[i][2]] = None
       /\ d2h[deferred[i][1]] = None
       /\ freeSlots = {}
  /\ \A i, j \in DOMAIN deferred :
       \/ i = j
       \/ deferred[i][1] # deferred[j][1] /\ deferred[i][2] # deferred[j][2]

\* The maps of the step are empty once they were drained, and the drained
\* maps are empty unless the workers hold them.
PhaseInv ==
  /\ phase \in {"work", "done"} =>
       /\ slotsInUse = {} /\ loadSlots = {}
       /\ h2d = NoLoads /\ d2h = NoStores /\ deferred = << >>
  /\ phase \in {"open", "drain"} => pendingReady = {}
  /\ phase # "work" => swapIn = NoLoads /\ swapOut = NoStores
  /\ phase = "drain" => \A s \in loadSlots : h2d[s] # None

\* What the drained maps may do.
SwapInv ==
  /\ \A s \in Slots : swapIn[s] # None => s \in readySlots
  /\ \A g \in GpuBlocks : swapOut[g] # None => swapOut[g] \in pendingReady
  /\ \A s \in pendingReady : s \notin readySlots /\ slotToHash[s] # None
  /\ phase = "work" =>
       \A s \in pendingReady : \E g \in GpuBlocks : swapOut[g] = s
  /\ \A g1, g2 \in GpuBlocks :
       swapOut[g1] # None /\ swapOut[g1] = swapOut[g2] => g1 = g2
  /\ \A s1, s2 \in Slots :
       swapIn[s1] # None /\ swapIn[s1] = swapIn[s2] => s1 = s2

\* Which block is being restored for what.
WantedInv ==
  /\ \A s \in Slots : h2d[s] # None => wanted[h2d[s]] = slotToHash[s]
  /\ \A s \in Slots : swapIn[s] # None => wanted[swapIn[s]] = slotToHash[s]
  /\ \A g \in GpuBlocks :
       wanted[g] # None =>
         \/ phase \in {"open", "drain"} /\ \E s \in Slots : h2d[s] = g
         \/ phase = "work" /\ \E s \in Slots : swapIn[s] = g
         \/ phase = "done"

\* All of this is about the tier's bookkeeping and holds whatever the blocks
\* contain that its client stores.
BookInv ==
  /\ TypeOK
  /\ IndexInv
  /\ LruInv
  /\ StepInv
  /\ DeferredInv
  /\ PhaseInv
  /\ SwapInv
  /\ WantedInv

\* Where the content of every hash physically is, if the client stores blocks
\* under the hash of what they hold.
ContentInv ==
  /\ \A s \in readySlots : cpuMem[s] = slotToHash[s]
  /\ \A g \in GpuBlocks : d2h[g] # None => gpuMem[g] = slotToHash[d2h[g]]
  /\ \A i \in DOMAIN deferred : gpuMem[deferred[i][1]] = deferred[i][2]
  /\ \A g \in GpuBlocks : swapOut[g] # None => gpuMem[g] = slotToHash[swapOut[g]]
  /\ phase = "done" =>
       /\ \A s \in pendingReady : cpuMem[s] = slotToHash[s]
       /\ \A g \in GpuBlocks : wanted[g] # None => gpuMem[g] = wanted[g]

IInv == BookInv /\ ContentInv

----------------------------------------------------------------------------
(* Moving a slot to the end of the recency order.                          *)

\* Touching a slot keeps the order duplicate-free and adds at most that slot.
LEMMA TouchProperties ==
  ASSUME NEW order \in Seq(Slots), NEW slot \in Slots,
         \A i, j \in DOMAIN order : order[i] = order[j] => i = j
  PROVE  /\ Touch(order, slot) \in Seq(Slots)
         /\ \A i \in DOMAIN Touch(order, slot) :
              \/ Touch(order, slot)[i] = slot
              \/ \E k \in DOMAIN order : order[k] = Touch(order, slot)[i]
         /\ \E i \in DOMAIN Touch(order, slot) : Touch(order, slot)[i] = slot
         /\ \A k \in DOMAIN order :
              \E i \in DOMAIN Touch(order, slot) :
                Touch(order, slot)[i] = order[k]
         /\ \A i, j \in DOMAIN Touch(order, slot) :
              Touch(order, slot)[i] = Touch(order, slot)[j] => i = j
<1> DEFINE rest == Without(order, slot)
<1>1. /\ rest \in Seq(Slots)
      /\ \A i \in DOMAIN rest :
           rest[i] # slot /\ \E k \in DOMAIN order : order[k] = rest[i]
      /\ \A k \in DOMAIN order :
           order[k] # slot => \E i \in DOMAIN rest : rest[i] = order[k]
      /\ \A i, j \in DOMAIN rest : rest[i] = rest[j] => i = j
  <2>1. CASE \E i \in DOMAIN order : order[i] = slot
    <3> DEFINE at == CHOOSE i \in DOMAIN order : order[i] = slot
    <3>1. at \in DOMAIN order /\ order[at] = slot
      BY <2>1
    <3> HIDE DEF at
    <3>2. rest = [j \in 1 .. Len(order) - 1 |->
                    IF j < at THEN order[j] ELSE order[j + 1]]
      BY <2>1 DEF Without, at
    <3>3. Len(order) \in Nat /\ DOMAIN order = 1 .. Len(order)
          /\ Len(order) - 1 \in Nat /\ at \in 1 .. Len(order)
      BY <3>1
    <3>4. rest \in Seq(Slots) /\ DOMAIN rest = 1 .. Len(order) - 1
      BY <3>2, <3>3
    <3> HIDE DEF rest
    <3>5. \A i \in DOMAIN rest :
            rest[i] # slot /\ \E k \in DOMAIN order : order[k] = rest[i]
      BY SMTT(30), <3>1, <3>2, <3>3, <3>4
    <3>6. ASSUME NEW k \in DOMAIN order, order[k] # slot
          PROVE  \E i \in DOMAIN rest : rest[i] = order[k]
      <4>1. k # at
        BY <3>1, <3>6
      <4>2. CASE k < at
        BY <4>2, <3>2, <3>3, <3>4
      <4>3. CASE k > at
        <5>1. k - 1 \in DOMAIN rest /\ ~(k - 1 < at)
          BY <4>3, <3>3, <3>4
        <5>2. rest[k - 1] = order[k]
          BY <5>1, <3>2, <3>3, <3>4
        <5> QED BY <5>1, <5>2
      <4> QED BY <4>1, <4>2, <4>3, <3>3
    <3>7. \A i, j \in DOMAIN rest : rest[i] = rest[j] => i = j
      BY <3>1, <3>2, <3>3, <3>4
    <3> QED BY <3>4, <3>5, <3>6, <3>7
  <2>2. CASE ~ \E i \in DOMAIN order : order[i] = slot
    BY <2>2 DEF Without
  <2> QED BY <2>1, <2>2
<1> HIDE DEF rest
<1>2. Touch(order, slot) = Append(rest, slot)
  BY DEF Touch, rest
<1>3. /\ Len(rest) \in Nat /\ DOMAIN rest = 1 .. Len(rest)
      /\ Append(rest, slot) \in Seq(Slots)
      /\ DOMAIN Append(rest, slot) = 1 .. Len(rest) + 1
      /\ Append(rest, slot)[Len(rest) + 1] = slot
      /\ \A i \in 1 .. Len(rest) : Append(rest, slot)[i] = rest[i]
  BY <1>1
<1>4. \A i \in 1 .. Len(rest) + 1 : i = Len(rest) + 1 \/ i \in 1 .. Len(rest)
  BY <1>3
<1>5. \A i \in 1 .. Len(rest) : i \in 1 .. Len(rest) + 1
  BY <1>3
<1>6. Len(rest) + 1 \in 1 .. Len(rest) + 1
  BY <1>3
<1> DEFINE new == Append(rest, slot)
<1> HIDE DEF new
<1>7. /\ DOMAIN new = 1 .. Len(rest) + 1
      /\ new[Len(rest) + 1] = slot
      /\ \A i \in 1 .. Len(rest) : new[i] = rest[i]
  BY <1>3 DEF new
<1>8. \A i \in DOMAIN new :
        new[i] = slot \/ \E k \in DOMAIN order : order[k] = new[i]
  BY <1>1, <1>3, <1>4, <1>7
<1>9. \A k \in DOMAIN order : \E i \in DOMAIN new : new[i] = order[k]
  BY <1>1, <1>3, <1>5, <1>6, <1>7
<1>10. \A i, j \in DOMAIN new : new[i] = new[j] => i = j
  BY <1>1, <1>3, <1>4, <1>7
<1> QED BY <1>2, <1>3, <1>6, <1>7, <1>8, <1>9, <1>10 DEF new

----------------------------------------------------------------------------
(* Every action preserves the invariant.                                   *)

\* Initially the tier is empty and no step is under way.
LEMMA InitIInv == Init => IInv
<1> SUFFICES ASSUME Init PROVE IInv
  OBVIOUS
<1> USE NoneAssumption DEF Init, NoLoads, NoStores, Phases
<1>1. TypeOK
  BY DEF TypeOK
<1>2. IndexInv /\ LruInv
  BY DEF IndexInv, LruInv
<1>3. StepInv /\ DeferredInv /\ PhaseInv
  BY DEF StepInv, DeferredInv, PhaseInv
<1>4. SwapInv /\ ContentInv /\ WantedInv
  BY DEF SwapInv, ContentInv, WantedInv
<1> QED BY <1>1, <1>2, <1>3, <1>4 DEF IInv, BookInv

\* Publishing the executed stores.
LEMMA BeginStepInv ==
  ASSUME BookInv, BeginStep
  PROVE  BookInv' /\ (ContentInv => ContentInv')
<1> USE NoneAssumption DEF indexVars, stepVars, workerVars
<1>1. TypeOK'
  BY DEF BookInv, TypeOK, BeginStep, NoStores, Phases
<1>2. IndexInv'
  BY DEF BookInv, TypeOK, IndexInv, SwapInv, BeginStep
<1>3. LruInv'
  BY DEF BookInv, TypeOK, LruInv, BeginStep
<1>4. StepInv'
  BY DEF BookInv, TypeOK, StepInv, BeginStep, PhaseInv, NoStores, NoLoads
<1>5. DeferredInv'
  BY DEF BookInv, TypeOK, DeferredInv, BeginStep
<1>6. PhaseInv'
  BY DEF BookInv, TypeOK, PhaseInv, BeginStep
<1>7. SwapInv'
  BY DEF BookInv, TypeOK, SwapInv, PhaseInv, BeginStep, NoStores, NoLoads
<1>8. ContentInv => ContentInv'
  BY DEF BookInv, TypeOK, ContentInv, SwapInv, PhaseInv, BeginStep, NoStores, NoLoads
<1>9. WantedInv'
  BY DEF BookInv, TypeOK, WantedInv, PhaseInv, BeginStep, NoStores, NoLoads
<1> QED BY <1>1, <1>2, <1>3, <1>4, <1>5, <1>6, <1>7, <1>8, <1>9 DEF BookInv

\* Pinning a ready slot as a load source.
LEMMA ClaimLoadInv ==
  ASSUME BookInv, NEW h \in Hashes, ClaimLoad(h)
  PROVE  BookInv' /\ (ContentInv => ContentInv')
<1> USE NoneAssumption DEF indexVars, stepVars, workerVars
<1>0. /\ Touch(lru, hashToSlot[h]) \in Seq(Slots)
      /\ \A i \in DOMAIN Touch(lru, hashToSlot[h]) :
           \/ Touch(lru, hashToSlot[h])[i] = hashToSlot[h]
           \/ \E k \in DOMAIN lru : lru[k] = Touch(lru, hashToSlot[h])[i]
      /\ \A k \in DOMAIN lru :
           \E i \in DOMAIN Touch(lru, hashToSlot[h]) :
             Touch(lru, hashToSlot[h])[i] = lru[k]
      /\ \A i, j \in DOMAIN Touch(lru, hashToSlot[h]) :
           Touch(lru, hashToSlot[h])[i] = Touch(lru, hashToSlot[h])[j] => i = j
  BY TouchProperties DEF BookInv, TypeOK, LruInv, ClaimLoad, Ready
<1>1. TypeOK'
  BY <1>0 DEF BookInv, TypeOK, ClaimLoad, Ready
<1>2. IndexInv'
  BY DEF BookInv, TypeOK, IndexInv, ClaimLoad
<1>3. LruInv'
  <2>1. hashToSlot[h] \notin freeSlots
    BY DEF BookInv, TypeOK, IndexInv, ClaimLoad, Ready
  <2>2. /\ lru' = Touch(lru, hashToSlot[h])
        /\ freeSlots' = freeSlots
    BY DEF ClaimLoad
  <2> QED BY <1>0, <2>1, <2>2 DEF BookInv, LruInv
<1>4. StepInv'
  BY DEF BookInv, TypeOK, StepInv, ClaimLoad, Ready
<1>5. DeferredInv'
  BY DEF BookInv, TypeOK, DeferredInv, ClaimLoad
<1>6. PhaseInv'
  BY DEF BookInv, TypeOK, PhaseInv, ClaimLoad
<1>7. SwapInv'
  BY DEF BookInv, TypeOK, SwapInv, ClaimLoad
<1>8. ContentInv => ContentInv'
  BY DEF BookInv, TypeOK, ContentInv, ClaimLoad
<1>9. WantedInv'
  BY DEF BookInv, TypeOK, WantedInv, ClaimLoad
<1> QED BY <1>1, <1>2, <1>3, <1>4, <1>5, <1>6, <1>7, <1>8, <1>9 DEF BookInv

\* Releasing a claim whose GPU allocation failed.
LEMMA CancelLoadInv ==
  ASSUME BookInv, NEW h \in Hashes, NEW slot \in Slots, CancelLoad(h, slot)
  PROVE  BookInv' /\ (ContentInv => ContentInv')
<1> USE NoneAssumption DEF indexVars, stepVars, workerVars
<1>1. TypeOK'
  BY DEF BookInv, TypeOK, CancelLoad
<1>2. IndexInv'
  BY DEF BookInv, TypeOK, IndexInv, CancelLoad
<1>3. LruInv'
  BY DEF BookInv, TypeOK, LruInv, CancelLoad
<1>4. StepInv'
  BY DEF BookInv, TypeOK, StepInv, CancelLoad, CancelLoadOK
<1>5. DeferredInv'
  BY DEF BookInv, TypeOK, DeferredInv, CancelLoad
<1>6. PhaseInv'
  BY DEF BookInv, TypeOK, PhaseInv, CancelLoad
<1>7. SwapInv'
  BY DEF BookInv, TypeOK, SwapInv, CancelLoad
<1>8. ContentInv => ContentInv'
  BY DEF BookInv, TypeOK, ContentInv, CancelLoad
<1>9. WantedInv'
  BY DEF BookInv, TypeOK, WantedInv, CancelLoad
<1> QED BY <1>1, <1>2, <1>3, <1>4, <1>5, <1>6, <1>7, <1>8, <1>9 DEF BookInv

\* Staging the copy of a claimed slot into a GPU block.
LEMMA StageLoadInv ==
  ASSUME BookInv, NEW h \in Hashes, NEW slot \in Slots,
         NEW g \in GpuBlocks, StageLoad(h, slot, g)
  PROVE  BookInv' /\ (ContentInv => ContentInv')
<1> USE NoneAssumption DEF indexVars, stepVars, workerVars
<1>1. TypeOK'
  BY DEF BookInv, TypeOK, StageLoad
<1>2. IndexInv'
  BY DEF BookInv, TypeOK, IndexInv, StageLoad
<1>3. LruInv'
  BY DEF BookInv, TypeOK, LruInv, StageLoad
<1>4. StepInv'
  BY DEF BookInv, TypeOK, StepInv, StageLoad, StageLoadOK, LoadTargets, LoadSources, StoreTargets, StoreSources
<1>5. DeferredInv'
  BY DEF BookInv, TypeOK, DeferredInv, StageLoad
<1>6. PhaseInv'
  BY DEF BookInv, TypeOK, PhaseInv, StageLoad
<1>7. SwapInv'
  BY DEF BookInv, TypeOK, SwapInv, StageLoad
<1>8. ContentInv => ContentInv'
  BY DEF BookInv, TypeOK, ContentInv, StageLoad
<1>9. WantedInv'
  BY DEF BookInv, TypeOK, WantedInv, PhaseInv, IndexInv, StageLoad, StageLoadOK, LoadTargets, LoadSources, NoLoads
<1> QED BY <1>1, <1>2, <1>3, <1>4, <1>5, <1>6, <1>7, <1>8, <1>9 DEF BookInv


\* A store of content the tier already has only refreshes its recency.
LEMMA StageStoreDuplicateInv ==
  ASSUME BookInv, NEW h \in Hashes,
         UNCHANGED <<pendingReady, phase, workerVars, wanted>>, StageStoreDuplicate(h)
  PROVE  BookInv' /\ (ContentInv => ContentInv')
<1> USE NoneAssumption DEF indexVars, stepVars, workerVars
<1>0. /\ lru' \in Seq(Slots)
      /\ \A i \in DOMAIN lru' : lru'[i] \notin freeSlots
      /\ \A k \in DOMAIN lru : \E i \in DOMAIN lru' : lru'[i] = lru[k]
      /\ \A i, j \in DOMAIN lru' : lru'[i] = lru'[j] => i = j
  <2>1. CASE hashToSlot[h] = None
    BY <2>1 DEF BookInv, TypeOK, LruInv, StageStoreDuplicate
  <2>2. CASE hashToSlot[h] # None
    <3>1. /\ hashToSlot[h] \in Slots /\ hashToSlot[h] \notin freeSlots
          /\ lru' = Touch(lru, hashToSlot[h])
      BY <2>2 DEF BookInv, TypeOK, IndexInv, StageStoreDuplicate
    <3>2. /\ lru \in Seq(Slots)
          /\ \A i, j \in DOMAIN lru : lru[i] = lru[j] => i = j
          /\ \A i \in DOMAIN lru : lru[i] \notin freeSlots
      BY DEF BookInv, TypeOK, LruInv
    <3> DEFINE new == Touch(lru, hashToSlot[h])
    <3>3. /\ new \in Seq(Slots)
          /\ \A i \in DOMAIN new :
               new[i] = hashToSlot[h] \/ \E k \in DOMAIN lru : lru[k] = new[i]
          /\ \A k \in DOMAIN lru : \E i \in DOMAIN new : new[i] = lru[k]
          /\ \A i, j \in DOMAIN new : new[i] = new[j] => i = j
      BY <3>1, <3>2, TouchProperties
    <3> HIDE DEF new
    <3>4. lru' = new
      BY <3>1 DEF new
    <3> QED BY <3>1, <3>2, <3>3, <3>4
  <2> QED BY <2>1, <2>2
<1>1. TypeOK'
  BY <1>0 DEF BookInv, TypeOK, StageStoreDuplicate
<1>2. IndexInv'
  BY DEF BookInv, TypeOK, IndexInv, StageStoreDuplicate
<1>3. LruInv'
  BY <1>0 DEF BookInv, LruInv, StageStoreDuplicate
<1>4. StepInv'
  BY DEF BookInv, TypeOK, StepInv, StageStoreDuplicate
<1>5. DeferredInv'
  BY DEF BookInv, TypeOK, DeferredInv, StageStoreDuplicate
<1>6. PhaseInv'
  BY DEF BookInv, TypeOK, PhaseInv, StageStoreDuplicate
<1>7. SwapInv'
  BY DEF BookInv, TypeOK, SwapInv, StageStoreDuplicate
<1>8. ContentInv => ContentInv'
  BY DEF BookInv, TypeOK, ContentInv, StageStoreDuplicate
<1>9. WantedInv'
  BY DEF BookInv, TypeOK, WantedInv, StageStoreDuplicate
<1> QED BY <1>1, <1>2, <1>3, <1>4, <1>5, <1>6, <1>7, <1>8, <1>9 DEF BookInv

\* Committing a store of content the tier lacks into a slot the step does not
\* use yet: everything but the deferred queue is preserved.
LEMMA CommitStoreInv ==
  ASSUME BookInv, NEW h \in Hashes, NEW g \in GpuBlocks, NEW slot \in Slots,
         phase \in {"open", "drain"}, slot \notin loadSlots,
         slot \in freeSlots \/ slot \notin slotsInUse,
         hashToSlot[h] = None, d2h[g] = None,
         CommitStore(h, g, slot), deferred' \in Seq(GpuBlocks \X Hashes),
         \A i \in DOMAIN deferred' : \E j \in DOMAIN deferred : deferred'[i] = deferred[j],
         UNCHANGED <<loadSlots, h2d, pendingReady, phase, workerVars, wanted>>
  PROVE  /\ TypeOK' /\ IndexInv' /\ LruInv' /\ StepInv' /\ SwapInv' /\ WantedInv'
         /\ ContentInv /\ gpuMem[g] = h => ContentInv'
<1> USE NoneAssumption DEF workerVars
<1>0. slot \notin slotsInUse /\ \A gg \in GpuBlocks : d2h[gg] # slot
  BY DEF BookInv, TypeOK, StepInv, CommitStore, StoreTargets, StoreSources
<1>1. pendingReady = {} /\ swapIn = NoLoads /\ swapOut = NoStores
  BY DEF BookInv, PhaseInv
<1>2. /\ lru' \in Seq(Slots)
      /\ \A i \in DOMAIN lru' :
           lru'[i] = slot \/ \E k \in DOMAIN lru : lru[k] = lru'[i]
      /\ \E i \in DOMAIN lru' : lru'[i] = slot
      /\ \A k \in DOMAIN lru : \E i \in DOMAIN lru' : lru'[i] = lru[k]
      /\ \A i, j \in DOMAIN lru' : lru'[i] = lru'[j] => i = j
  <2>1. /\ lru \in Seq(Slots) /\ lru' = Touch(lru, slot)
        /\ \A i, j \in DOMAIN lru : lru[i] = lru[j] => i = j
    BY DEF BookInv, TypeOK, LruInv, CommitStore
  <2> DEFINE new == Touch(lru, slot)
  <2>2. /\ new \in Seq(Slots)
        /\ \A i \in DOMAIN new :
             new[i] = slot \/ \E k \in DOMAIN lru : lru[k] = new[i]
        /\ \E i \in DOMAIN new : new[i] = slot
        /\ \A k \in DOMAIN lru : \E i \in DOMAIN new : new[i] = lru[k]
        /\ \A i, j \in DOMAIN new : new[i] = new[j] => i = j
    BY <2>1, TouchProperties
  <2> HIDE DEF new
  <2>3. lru' = new
    BY <2>1 DEF new
  <2> QED BY <2>2, <2>3
<1>3. TypeOK'
  BY <1>2 DEF BookInv, TypeOK, CommitStore
<1>4. IndexInv'
  BY DEF BookInv, TypeOK, IndexInv, CommitStore
<1>5. LruInv'
  <2>1. freeSlots' = freeSlots \ {slot}
    BY DEF CommitStore
  <2> QED BY <1>2, <2>1 DEF BookInv, LruInv
<1>6. StepInv'
  BY <1>0 DEF BookInv, TypeOK, StepInv, CommitStore
<1>7. SwapInv'
  BY <1>1 DEF BookInv, TypeOK, SwapInv, CommitStore, NoLoads, NoStores
<1>8. ContentInv /\ gpuMem[g] = h => ContentInv'
  BY <1>0, <1>1 DEF BookInv, TypeOK, StepInv, ContentInv, CommitStore, NoStores
<1>9. WantedInv'
  BY <1>0, <1>1 DEF BookInv, TypeOK, StepInv, WantedInv, CommitStore, NoLoads
<1> QED BY <1>3, <1>4, <1>5, <1>6, <1>7, <1>8, <1>9

\* A store into a free slot: nothing is deferred while a slot is free.
LEMMA StageStoreFreeInv ==
  ASSUME BookInv, NEW h \in Hashes, NEW g \in GpuBlocks, phase = "open",
         StageStoreOK(h, g), StageStoreFree(h, g),
         UNCHANGED <<pendingReady, phase, workerVars, wanted>>
  PROVE  BookInv' /\ (ContentInv /\ gpuMem[g] = h => ContentInv')
<1>1. PICK slot \in freeSlots : CommitStore(h, g, slot)
  BY DEF StageStoreFree
<1>2. /\ slot \in Slots /\ slot \notin loadSlots
      /\ hashToSlot[h] = None /\ d2h[g] = None /\ h2d' = h2d
      /\ loadSlots' = loadSlots /\ deferred' = deferred
  BY DEF BookInv, TypeOK, StepInv, ContentInv, IndexInv, StageStoreFree,
         StageStoreOK, Deduplicated
<1>3. deferred = << >>
  BY <1>1 DEF BookInv, TypeOK, DeferredInv
<1>4. deferred' \in Seq(GpuBlocks \X Hashes)
  BY <1>2 DEF BookInv, TypeOK
<1>5. /\ TypeOK' /\ IndexInv' /\ LruInv' /\ StepInv' /\ SwapInv' /\ WantedInv'
      /\ ContentInv /\ gpuMem[g] = h => ContentInv'
  BY <1>1, <1>2, <1>4, CommitStoreInv
<1>6. DeferredInv'
  BY <1>2, <1>3 DEF DeferredInv
<1>7. PhaseInv'
  BY <1>2 DEF BookInv, PhaseInv, workerVars
<1> QED BY <1>5, <1>6, <1>7 DEF BookInv

\* A store with the tier full joins the deferred queue.
LEMMA StageStoreDeferredInv ==
  ASSUME BookInv, NEW h \in Hashes, NEW g \in GpuBlocks, phase = "open",
         StageStoreOK(h, g),
         UNCHANGED <<pendingReady, phase, workerVars, wanted>>,
         StageStoreDeferred(h, g)
  PROVE  BookInv' /\ (ContentInv /\ gpuMem[g] = h => ContentInv')
<1> USE NoneAssumption DEF indexVars, stepVars, workerVars
<1>0. /\ Len(deferred) \in Nat /\ DOMAIN deferred = 1 .. Len(deferred)
      /\ DOMAIN deferred' = 1 .. Len(deferred) + 1
      /\ deferred'[Len(deferred) + 1] = <<g, h>>
      /\ \A i \in 1 .. Len(deferred) : deferred'[i] = deferred[i]
  BY DEF BookInv, TypeOK, StageStoreDeferred
<1>1. TypeOK'
  BY DEF BookInv, TypeOK, StageStoreDeferred
<1>2. IndexInv'
  BY DEF BookInv, TypeOK, IndexInv, StageStoreDeferred
<1>3. LruInv'
  BY DEF BookInv, TypeOK, LruInv, StageStoreDeferred
<1>4. StepInv'
  BY DEF BookInv, TypeOK, StepInv, StageStoreDeferred
<1>5. DeferredInv'
  <2>2. \A i \in DOMAIN deferred' :
          i = Len(deferred) + 1 \/ i \in DOMAIN deferred
    BY <1>0
  <2>3. \A i \in DOMAIN deferred : deferred[i][1] # g /\ deferred[i][2] # h
    BY DEF StageStoreDeferred, StageStoreOK, Deduplicated, DeferredHashes,
           DeferredBlocks
  <2>4. hashToSlot[h] = None /\ d2h[g] = None /\ freeSlots = {}
    BY DEF StageStoreDeferred, StageStoreOK, Deduplicated
  <2>5. <<g, h>>[1] = g /\ <<g, h>>[2] = h
    OBVIOUS
  <2>6. \A i \in DOMAIN deferred' :
          /\ hashToSlot[deferred'[i][2]] = None
          /\ d2h[deferred'[i][1]] = None
    BY <1>0, <2>2, <2>4, <2>5 DEF BookInv, DeferredInv
  <2>7. \A i, j \in DOMAIN deferred' :
          \/ i = j
          \/ /\ deferred'[i][1] # deferred'[j][1]
             /\ deferred'[i][2] # deferred'[j][2]
    BY <1>0, <2>2, <2>3, <2>5 DEF BookInv, DeferredInv
  <2> QED BY <2>4, <2>6, <2>7 DEF StageStoreDeferred, DeferredInv
<1>6. PhaseInv'
  BY DEF BookInv, PhaseInv, StageStoreDeferred
<1>7. SwapInv'
  BY DEF BookInv, TypeOK, SwapInv, StageStoreDeferred
<1>8. ASSUME ContentInv, gpuMem[g] = h
      PROVE  ContentInv'
  <2>1. \A i \in DOMAIN deferred' : i = Len(deferred) + 1 \/ i \in DOMAIN deferred
    BY <1>0
  <2>2. <<g, h>>[1] = g /\ <<g, h>>[2] = h
    OBVIOUS
  <2>3. \A i \in DOMAIN deferred' : gpuMem[deferred'[i][1]] = deferred'[i][2]
    BY <1>0, <1>8, <2>1, <2>2 DEF ContentInv
  <2> QED BY <1>8, <2>3 DEF ContentInv, StageStoreDeferred
<1>9. WantedInv'
  BY DEF BookInv, TypeOK, WantedInv, StageStoreDeferred
<1> QED BY <1>1, <1>2, <1>3, <1>4, <1>5, <1>6, <1>7, <1>8, <1>9 DEF BookInv


\* Entering the drain with no claim left unstaged.
LEMMA ClientDrainInv ==
  ASSUME BookInv, ClientDrain
  PROVE  BookInv' /\ (ContentInv => ContentInv')
<1> USE NoneAssumption DEF indexVars, stepVars, workerVars, ClientDrain, BeginDrain
<1>1. TypeOK'
  BY DEF BookInv, TypeOK, Phases
<1>2. IndexInv'
  BY DEF BookInv, TypeOK, IndexInv
<1>3. LruInv'
  BY DEF BookInv, TypeOK, LruInv
<1>4. StepInv'
  BY DEF BookInv, TypeOK, StepInv
<1>5. DeferredInv'
  BY DEF BookInv, TypeOK, DeferredInv
<1>6. PhaseInv'
  BY DEF BookInv, TypeOK, PhaseInv, LoadSources
<1>7. SwapInv'
  BY DEF BookInv, TypeOK, SwapInv
<1>8. ContentInv => ContentInv'
  BY DEF BookInv, TypeOK, ContentInv
<1>9. WantedInv'
  BY DEF BookInv, TypeOK, WantedInv
<1> QED BY <1>1, <1>2, <1>3, <1>4, <1>5, <1>6, <1>7, <1>8, <1>9 DEF BookInv

\* A step that loads drops its deferred stores.
LEMMA SkipDeferredStoresInv ==
  ASSUME BookInv, SkipDeferredStores
  PROVE  BookInv' /\ (ContentInv => ContentInv')
<1> USE NoneAssumption DEF indexVars, stepVars, workerVars
<1>1. TypeOK'
  BY DEF BookInv, TypeOK, SkipDeferredStores
<1>2. IndexInv'
  BY DEF BookInv, TypeOK, IndexInv, SkipDeferredStores
<1>3. LruInv'
  BY DEF BookInv, TypeOK, LruInv, SkipDeferredStores
<1>4. StepInv'
  BY DEF BookInv, TypeOK, StepInv, SkipDeferredStores
<1>5. DeferredInv'
  BY DEF BookInv, TypeOK, DeferredInv, SkipDeferredStores
<1>6. PhaseInv'
  BY DEF BookInv, TypeOK, PhaseInv, SkipDeferredStores
<1>7. SwapInv'
  BY DEF BookInv, TypeOK, SwapInv, SkipDeferredStores
<1>8. ContentInv => ContentInv'
  BY DEF BookInv, TypeOK, ContentInv, SkipDeferredStores
<1>9. WantedInv'
  BY DEF BookInv, TypeOK, WantedInv, SkipDeferredStores
<1> QED BY <1>1, <1>2, <1>3, <1>4, <1>5, <1>6, <1>7, <1>8, <1>9 DEF BookInv

\* One iteration of the drain loop.
LEMMA ResolveDeferredStoreInv ==
  ASSUME BookInv, ResolveDeferredStore
  PROVE  BookInv' /\ (ContentInv => ContentInv')
<1> USE NoneAssumption DEF indexVars, workerVars
<1> DEFINE g == Head(deferred)[1]
           h == Head(deferred)[2]
<1>1. /\ Len(deferred) \in Nat /\ 1 \in DOMAIN deferred
      /\ Head(deferred) = deferred[1]
      /\ DOMAIN deferred = 1 .. Len(deferred)
      /\ deferred' \in Seq(GpuBlocks \X Hashes)
      /\ DOMAIN deferred' = 1 .. Len(deferred) - 1
      /\ \A i \in DOMAIN deferred' : deferred'[i] = deferred[i + 1]
  BY DEF BookInv, TypeOK, ResolveDeferredStore
<1>2. /\ g \in GpuBlocks /\ h \in Hashes
      /\ hashToSlot[h] = None /\ d2h[g] = None
      /\ freeSlots = {} /\ loadSlots = {} /\ phase = "drain"
  <2>1. deferred[1] \in GpuBlocks \X Hashes
    BY <1>1 DEF BookInv, TypeOK
  <2>2. deferred[1][1] \in GpuBlocks /\ deferred[1][2] \in Hashes
    BY <2>1
  <2>3. /\ hashToSlot[deferred[1][2]] = None /\ d2h[deferred[1][1]] = None
        /\ freeSlots = {}
    BY <1>1 DEF BookInv, DeferredInv
  <2> QED BY <1>1, <2>2, <2>3 DEF ResolveDeferredStore
<1>3. \A i \in DOMAIN deferred' :
        /\ i + 1 \in DOMAIN deferred /\ i + 1 # 1
        /\ deferred'[i] = deferred[i + 1]
  BY <1>1
<1>4. \A i \in DOMAIN deferred' :
        /\ deferred'[i][1] # g /\ deferred'[i][2] # h
        /\ deferred'[i][1] \in GpuBlocks /\ deferred'[i][2] \in Hashes
        /\ hashToSlot[deferred'[i][2]] = None
        /\ d2h[deferred'[i][1]] = None
  <2> SUFFICES ASSUME NEW i \in DOMAIN deferred'
               PROVE  /\ deferred'[i][1] # g /\ deferred'[i][2] # h
                      /\ deferred'[i][1] \in GpuBlocks
                      /\ deferred'[i][2] \in Hashes
                      /\ hashToSlot[deferred'[i][2]] = None
                      /\ d2h[deferred'[i][1]] = None
                  OBVIOUS
  <2>1. deferred'[i] = deferred[i + 1] /\ i + 1 \in DOMAIN deferred /\ i + 1 # 1
    BY <1>3
  <2>2. deferred[i + 1] \in GpuBlocks \X Hashes
    BY <2>1 DEF BookInv, TypeOK
  <2>3. deferred'[i][1] \in GpuBlocks /\ deferred'[i][2] \in Hashes
    BY <2>1, <2>2
  <2>4. /\ hashToSlot[deferred[i + 1][2]] = None
        /\ d2h[deferred[i + 1][1]] = None
        /\ deferred[i + 1][1] # deferred[1][1]
        /\ deferred[i + 1][2] # deferred[1][2]
    BY <1>1, <2>1 DEF BookInv, DeferredInv
  <2> QED BY <1>1, <2>1, <2>3, <2>4
<1>5. \A i, j \in DOMAIN deferred' :
        \/ i = j
        \/ /\ deferred'[i][1] # deferred'[j][1]
           /\ deferred'[i][2] # deferred'[j][2]
  <2> SUFFICES ASSUME NEW i \in DOMAIN deferred', NEW j \in DOMAIN deferred',
                      i # j
               PROVE  /\ deferred'[i][1] # deferred'[j][1]
                      /\ deferred'[i][2] # deferred'[j][2]
    OBVIOUS
  <2>1. i + 1 # j + 1
    BY <1>1
  <2> QED BY <2>1, <1>3 DEF BookInv, DeferredInv
<1>9. ContentInv => gpuMem[g] = h
  BY <1>1 DEF ContentInv
<1> HIDE DEF g, h
<1>6. CASE \E slot \in Slots : SelectStoreSlot(slot) /\ CommitStore(h, g, slot)
  <2>1. PICK slot \in Slots : SelectStoreSlot(slot) /\ CommitStore(h, g, slot)
    BY <1>6
  <2>2. slot \notin slotsInUse /\ slot \notin loadSlots
    BY <2>1, <1>2 DEF SelectStoreSlot
  <2>3. UNCHANGED <<loadSlots, h2d, pendingReady, phase, workerVars, wanted>>
    BY DEF ResolveDeferredStore
  <2>4. /\ TypeOK' /\ IndexInv' /\ LruInv' /\ StepInv' /\ SwapInv' /\ WantedInv'
        /\ ContentInv => ContentInv'
    BY <1>1, <1>2, <1>3, <1>9, <2>1, <2>2, <2>3, CommitStoreInv
  <2>5. DeferredInv'
    <3>1. freeSlots' = {} /\ gpuMem' = gpuMem
      BY <2>1, <2>3, <1>2 DEF CommitStore
    <3>2. \A x \in Hashes :
            x # h /\ hashToSlot[x] = None => hashToSlot'[x] = None
      BY <2>1 DEF CommitStore
    <3>3. \A x \in GpuBlocks : x # g => d2h'[x] = d2h[x]
      BY <2>1 DEF BookInv, TypeOK, CommitStore
    <3> QED BY <3>1, <3>2, <3>3, <1>4, <1>5 DEF DeferredInv
  <2>6. PhaseInv'
    BY <1>2, <2>3 DEF BookInv, PhaseInv
  <2> QED BY <2>4, <2>5, <2>6 DEF BookInv
<1>7. CASE UNCHANGED <<indexVars, slotsInUse, d2h>>
  <2>1. UNCHANGED <<loadSlots, h2d, pendingReady, phase, workerVars, wanted>>
    BY DEF ResolveDeferredStore
  <2>2. TypeOK' /\ IndexInv' /\ LruInv'
    BY <1>1, <1>7, <2>1 DEF BookInv, TypeOK, IndexInv, LruInv
  <2>3. StepInv' /\ SwapInv' /\ WantedInv'
    BY <1>7, <2>1 DEF BookInv, StepInv, SwapInv, WantedInv
  <2>6. ContentInv => ContentInv'
    BY <1>3, <1>7, <2>1 DEF ContentInv
  <2>4. DeferredInv'
    BY <1>2, <1>4, <1>5, <1>7, <2>1 DEF DeferredInv
  <2>5. PhaseInv'
    BY <1>2, <1>7, <2>1 DEF BookInv, PhaseInv
  <2> QED BY <2>2, <2>3, <2>4, <2>5, <2>6 DEF BookInv
<1> QED BY <1>6, <1>7 DEF ResolveDeferredStore, g, h

\* Handing the maps to the workers.
LEMMA DrainStepInv ==
  ASSUME BookInv, DrainStep
  PROVE  BookInv' /\ (ContentInv => ContentInv')
<1> USE NoneAssumption DEF indexVars, stepVars, workerVars
<1>1. TypeOK'
  BY DEF BookInv, TypeOK, DrainStep, NoLoads, NoStores, Phases, StoreTargets, StoreSources
<1>2. IndexInv'
  BY DEF BookInv, TypeOK, IndexInv, DrainStep
<1>3. LruInv'
  BY DEF BookInv, TypeOK, LruInv, DrainStep
<1>4. StepInv'
  BY DEF BookInv, TypeOK, StepInv, DrainStep, NoLoads, NoStores
<1>5. DeferredInv'
  BY DEF BookInv, TypeOK, DeferredInv, DrainStep
<1>6. PhaseInv'
  BY DEF BookInv, TypeOK, PhaseInv, DrainStep
<1>7. SwapInv'
  BY DEF BookInv, TypeOK, SwapInv, StepInv, PhaseInv, DrainStep, StoreTargets,
         StoreSources
<1>8. ContentInv => ContentInv'
  BY DEF BookInv, TypeOK, ContentInv, PhaseInv, DrainStep, NoStores, StoreTargets, StoreSources
<1>9. WantedInv'
  BY DEF BookInv, TypeOK, WantedInv, DrainStep, NoLoads
<1> QED BY <1>1, <1>2, <1>3, <1>4, <1>5, <1>6, <1>7, <1>8, <1>9 DEF BookInv


\* The workers copy out, then in.
LEMMA ExecuteTransfersInv ==
  ASSUME BookInv, ExecuteTransfers
  PROVE  BookInv' /\ (ContentInv => ContentInv')
<1> USE NoneAssumption DEF indexVars, stepVars, workerVars
<1>10. \A s \in readySlots : AfterSwapOut[s] = cpuMem[s]
  <2>1. \A s \in readySlots : \A g \in GpuBlocks : swapOut[g] # s
    BY DEF BookInv, TypeOK, SwapInv
  <2> QED BY <2>1 DEF BookInv, TypeOK, AfterSwapOut
<1>11. ContentInv => \A s \in pendingReady : AfterSwapOut[s] = slotToHash[s]
  <2> SUFFICES ASSUME ContentInv, NEW s \in pendingReady
               PROVE  AfterSwapOut[s] = slotToHash[s]
    OBVIOUS
  <2>1. PICK g \in GpuBlocks : swapOut[g] = s
    BY DEF BookInv, SwapInv, ExecuteTransfers
  <2>2. s \in Slots
    BY DEF BookInv, TypeOK
  <2>3. swapOut[g] # None
    BY <2>1, <2>2
  <2>4. \A k \in GpuBlocks : swapOut[k] = s => k = g
    BY <2>1, <2>3 DEF BookInv, SwapInv
  <2>5. (CHOOSE k \in GpuBlocks : swapOut[k] = s) = g
    BY <2>1, <2>4
  <2>6. gpuMem[g] = slotToHash[s]
    BY <2>1, <2>3 DEF BookInv, ContentInv
  <2> QED BY <2>1, <2>2, <2>5, <2>6 DEF AfterSwapOut
<1>1. TypeOK'
  <2>1. AfterSwapOut \in [Slots -> Hashes \cup {None}]
    BY DEF BookInv, TypeOK, AfterSwapOut
  <2>2. AfterSwapIn(AfterSwapOut) \in [GpuBlocks -> Hashes \cup {None}]
    BY <2>1 DEF BookInv, TypeOK, AfterSwapIn
  <2> QED
    BY <2>1, <2>2
    DEF BookInv, TypeOK, ExecuteTransfers, NoLoads, NoStores, Phases
<1>2. IndexInv'
  BY DEF BookInv, TypeOK, IndexInv, ExecuteTransfers
<1>3. LruInv'
  BY DEF BookInv, TypeOK, LruInv, ExecuteTransfers
<1>4. StepInv'
  BY DEF BookInv, TypeOK, StepInv, ExecuteTransfers
<1>5. DeferredInv'
  BY DEF BookInv, TypeOK, DeferredInv, PhaseInv, ExecuteTransfers
<1>6. PhaseInv'
  BY DEF BookInv, PhaseInv, ExecuteTransfers
<1>7. SwapInv'
  BY DEF BookInv, TypeOK, SwapInv, ExecuteTransfers, NoLoads, NoStores
<1>8. ASSUME ContentInv PROVE ContentInv'
  <2>1. /\ d2h' = NoStores /\ swapOut' = NoStores /\ phase' = "done"
        /\ readySlots' = readySlots /\ pendingReady' = pendingReady
        /\ slotToHash' = slotToHash /\ cpuMem' = AfterSwapOut
        /\ phase = "work" /\ deferred' = << >>
        /\ wanted' = wanted /\ gpuMem' = AfterSwapIn(AfterSwapOut)
    BY DEF BookInv, PhaseInv, ExecuteTransfers
  <2>2. \A s \in readySlots : cpuMem'[s] = slotToHash[s]
    BY <1>8, <1>10, <2>1 DEF ContentInv
  <2>3. \A s \in pendingReady : cpuMem'[s] = slotToHash[s]
    BY <1>8, <1>11, <2>1
  <2>4. ASSUME NEW g \in GpuBlocks, wanted[g] # None
        PROVE  gpuMem'[g] = wanted[g]
    <3>1. PICK s \in Slots : swapIn[s] = g
      BY <2>1, <2>4 DEF BookInv, WantedInv
    <3>2. \A t \in Slots : swapIn[t] = g => t = s
      BY <3>1 DEF BookInv, SwapInv
    <3>3. (CHOOSE t \in Slots : swapIn[t] = g) = s
      BY <3>1, <3>2
    <3>4. gpuMem'[g] = AfterSwapOut[s]
      BY <2>1, <3>1, <3>3 DEF AfterSwapIn
    <3>5. s \in readySlots /\ wanted[g] = slotToHash[s]
      BY <3>1 DEF BookInv, SwapInv, WantedInv
    <3> QED BY <3>4, <3>5, <1>8, <1>10 DEF ContentInv
  <2> QED BY <2>1, <2>2, <2>3, <2>4 DEF ContentInv, NoStores
<1>9. WantedInv'
  BY DEF BookInv, PhaseInv, WantedInv, NoLoads, ExecuteTransfers
<1> QED BY <1>1, <1>2, <1>3, <1>4, <1>5, <1>6, <1>7, <1>8, <1>9 DEF BookInv

\* The forward pass writes a block of the GPU cache.
LEMMA ForwardPassInv ==
  ASSUME BookInv, NEW g \in GpuBlocks, NEW h \in Hashes, ForwardPass(g, h)
  PROVE  BookInv' /\ (ContentInv => ContentInv')
<1> USE NoneAssumption DEF indexVars, stepVars, workerVars
<1>1. TypeOK'
  BY DEF BookInv, TypeOK, ForwardPass
<1>2. IndexInv'
  BY DEF BookInv, TypeOK, IndexInv, ForwardPass
<1>3. LruInv'
  BY DEF BookInv, TypeOK, LruInv, ForwardPass
<1>4. StepInv'
  BY DEF BookInv, TypeOK, StepInv, ForwardPass
<1>5. DeferredInv'
  BY DEF BookInv, TypeOK, DeferredInv, PhaseInv, ForwardPass
<1>6. PhaseInv'
  BY DEF BookInv, TypeOK, PhaseInv, ForwardPass
<1>7. SwapInv'
  BY DEF BookInv, TypeOK, SwapInv, ForwardPass
<1>8. ContentInv => ContentInv'
  BY DEF BookInv, TypeOK, ContentInv, PhaseInv, NoStores, ForwardPass
<1>9. WantedInv'
  BY DEF BookInv, TypeOK, WantedInv, PhaseInv, NoLoads, ForwardPass
<1> QED BY <1>1, <1>2, <1>3, <1>4, <1>5, <1>6, <1>7, <1>8, <1>9 DEF BookInv

----------------------------------------------------------------------------
(* The theorems.                                                           *)

\* A store, whatever the block holds; of a block stored under its content, the
\* content part too.
LEMMA StageStoreInv ==
  ASSUME BookInv, NEW h \in Hashes, NEW g \in GpuBlocks, StageStore(h, g)
  PROVE  BookInv' /\ (ContentInv /\ gpuMem[g] = h => ContentInv')
<1> USE DEF StageStore
<1>1. CASE StageStoreDuplicate(h)
  BY <1>1, StageStoreDuplicateInv
<1>2. CASE StageStoreFree(h, g)
  BY <1>2, StageStoreFreeInv
<1>3. CASE StageStoreDeferred(h, g)
  BY <1>3, StageStoreDeferredInv
<1> QED BY <1>1, <1>2, <1>3

\* A step that leaves the tier alone.
LEMMA TierStutterInv ==
  ASSUME BookInv, UNCHANGED vars
  PROVE  BookInv' /\ (ContentInv => ContentInv')
<1> USE DEF vars, indexVars, stepVars, workerVars
<1>1. TypeOK' /\ IndexInv' /\ LruInv'
  BY DEF BookInv, TypeOK, IndexInv, LruInv
<1>2. StepInv' /\ DeferredInv' /\ PhaseInv'
  BY DEF BookInv, StepInv, DeferredInv, PhaseInv
<1>3. SwapInv' /\ WantedInv' /\ (ContentInv => ContentInv')
  BY DEF BookInv, SwapInv, ContentInv, WantedInv
<1> QED BY <1>1, <1>2, <1>3 DEF BookInv

\* The tier with a client that may store any block under any hash.
AnyClientNext == Next \/ \E h \in Hashes, g \in GpuBlocks : StageStore(h, g)

\* Every step of the content cache, of any client and of the workers preserves
\* the bookkeeping; if the client stores blocks under their content, the
\* content part as well.
LEMMA NextBookInv ==
  BookInv /\ [AnyClientNext]_vars =>
    BookInv' /\ (ContentInv /\ [Next]_vars => ContentInv')
<1> SUFFICES ASSUME BookInv, [AnyClientNext]_vars
             PROVE  BookInv' /\ (ContentInv /\ [Next]_vars => ContentInv')
  OBVIOUS
<1>1. CASE BeginStep
  BY <1>1, BeginStepInv
<1>2. CASE \E h \in Hashes : ClaimLoad(h)
  BY <1>2, ClaimLoadInv
<1>3. CASE \E h \in Hashes, s \in Slots : CancelLoad(h, s)
  BY <1>3, CancelLoadInv
<1>4. CASE \E h \in Hashes, s \in Slots, g \in GpuBlocks : StageLoad(h, s, g)
  BY <1>4, StageLoadInv
<1>5. CASE \E h \in Hashes, g \in GpuBlocks : ClientStore(h, g)
  BY <1>5, StageStoreInv DEF ClientStore
<1>6. CASE ClientDrain
  BY <1>6, ClientDrainInv
<1>7. CASE SkipDeferredStores
  BY <1>7, SkipDeferredStoresInv
<1>8. CASE ResolveDeferredStore
  BY <1>8, ResolveDeferredStoreInv
<1>9. CASE DrainStep
  BY <1>9, DrainStepInv
<1>10. CASE ExecuteTransfers
  BY <1>10, ExecuteTransfersInv
<1>11. CASE \E g \in GpuBlocks, h \in Hashes : ForwardPass(g, h)
  BY <1>11, ForwardPassInv
<1>12. CASE UNCHANGED vars
  BY <1>12, TierStutterInv
<1>13. [Next]_vars => BookInv' /\ (ContentInv => ContentInv')
  BY <1>1, <1>2, <1>3, <1>4, <1>5, <1>6, <1>7, <1>8, <1>9, <1>10, <1>11,
     <1>12 DEF Next
<1>14. BookInv'
  BY <1>12, <1>13, StageStoreInv DEF AnyClientNext
<1> QED BY <1>13, <1>14

\* Every step of the content cache, its client and the workers preserves the
\* inductive invariant.
LEMMA NextIInv == IInv /\ [Next]_vars => IInv'
  BY NextBookInv DEF IInv, AnyClientNext

\* The inductive invariant holds in every reachable state.
THEOREM InductiveInvariance == Spec => []IInv
  BY InitIInv, NextIInv, PTL DEF Spec

\* What the bookkeeping part of the invariant says of the index and of the maps.
LEMMA BookImplies == BookInv => TypeOK /\ IndexConsistent /\ TransfersDisjoint
<1> SUFFICES ASSUME BookInv PROVE TypeOK /\ IndexConsistent /\ TransfersDisjoint
  OBVIOUS
<1> USE NoneAssumption
<1>1. TypeOK /\ IndexConsistent
  BY DEF BookInv, IndexInv, LruInv, IndexConsistent
<1>2. LoadSources \cap StoreTargets = {}
  BY DEF BookInv, TypeOK, StepInv, LoadSources, StoreTargets, StoreSources
<1>3. \A s \in Slots :
        swapIn[s] # None => \A g \in GpuBlocks : swapOut[g] # s
  BY DEF BookInv, TypeOK, SwapInv
<1>4. /\ \A g1, g2 \in StoreSources : d2h[g1] = d2h[g2] => g1 = g2
      /\ \A s1, s2 \in LoadSources : h2d[s1] = h2d[s2] => s1 = s2
  BY DEF BookInv, StepInv, LoadSources, StoreSources
<1> QED BY <1>1, <1>2, <1>3, <1>4 DEF TransfersDisjoint

\* No step of the tier, whatever its client stores, changes the content of a
\* slot that is in use.
LEMMA PinnedSlotsStep ==
  BookInv /\ [AnyClientNext]_vars =>
    [\A s \in slotsInUse : slotToHash'[s] = slotToHash[s]]_vars
<1> SUFFICES ASSUME BookInv, AnyClientNext, NEW s \in slotsInUse
             PROVE  slotToHash'[s] = slotToHash[s]
  OBVIOUS
<1> USE DEF indexVars, stepVars, workerVars
<1>1. ASSUME NEW h \in Hashes, NEW g \in GpuBlocks, NEW slot \in Slots,
             slot \in freeSlots \/ slot \notin slotsInUse,
             CommitStore(h, g, slot)
      PROVE  slotToHash'[s] = slotToHash[s]
  <2>1. \A gg \in GpuBlocks : d2h[gg] # slot
    BY <1>1, NoneAssumption DEF CommitStore, StoreTargets, StoreSources
  <2>2. s # slot
    BY <1>1, <2>1 DEF BookInv, TypeOK, StepInv, IndexInv
  <2> QED BY <1>1, <2>2 DEF BookInv, TypeOK, CommitStore
<1>2. ASSUME NEW h \in Hashes, NEW g \in GpuBlocks, StageStore(h, g)
      PROVE  slotToHash'[s] = slotToHash[s]
  BY <1>1, <1>2 DEF BookInv, TypeOK, StageStore,
     StageStoreDuplicate, StageStoreFree, StageStoreDeferred
<1>3. CASE ResolveDeferredStore
  <2>1. Head(deferred) \in GpuBlocks \X Hashes /\ freeSlots = {}
    BY <1>3 DEF BookInv, TypeOK, DeferredInv, ResolveDeferredStore
  <2>2. Head(deferred)[1] \in GpuBlocks /\ Head(deferred)[2] \in Hashes
    BY <2>1
  <2>3. \A slot \in Slots : SelectStoreSlot(slot) => slot \notin slotsInUse
    BY <2>1 DEF SelectStoreSlot
  <2> QED BY <1>1, <1>3, <2>2, <2>3 DEF ResolveDeferredStore
<1> QED
  BY <1>2, <1>3 DEF AnyClientNext, Next, ClientStore, BeginStep, ClaimLoad,
     CancelLoad, StageLoad, ClientDrain, BeginDrain, SkipDeferredStores,
     DrainStep, ExecuteTransfers, ForwardPass

\* Type correctness of the content cache.
THEOREM TypeCorrectness == Spec => []TypeOK
<1>1. IInv => TypeOK
  BY BookImplies DEF IInv
<1> QED BY <1>1, InductiveInvariance, PTL

\* The hash and slot dicts, the free heap and the recency order always agree.
THEOREM IndexAlwaysConsistent == Spec => []IndexConsistent
<1>1. IInv => IndexConsistent
  BY BookImplies DEF IInv
<1> QED BY <1>1, InductiveInvariance, PTL

\* No store of a step overwrites a source of a load of the step, and no two
\* copies share a destination, for every capacity.
THEOREM TransfersAlwaysDisjoint == Spec => []TransfersDisjoint
<1>1. IInv => TransfersDisjoint
  BY BookImplies DEF IInv
<1> QED BY <1>1, InductiveInvariance, PTL

\* Lookups only ever return slots that hold the content looked up.
THEOREM ReadyAlwaysCopied == Spec => []ReadyMeansCopied
<1>1. IInv => ReadyMeansCopied
  BY DEF IInv, BookInv, IndexInv, ContentInv, ReadyMeansCopied
<1> QED BY <1>1, InductiveInvariance, PTL

\* Every restored GPU block holds what it was restored for.
THEOREM RestoreAlwaysDelivers == Spec => []RestoreDelivers
<1>1. IInv => RestoreDelivers
  BY DEF IInv, ContentInv, RestoreDelivers
<1> QED BY <1>1, InductiveInvariance, PTL

\* No slot pinned by a transfer of the step loses its content in the step.
THEOREM PinnedSlotsAlwaysKeepContent == Spec => PinnedSlotsKeepContent
<1>1. IInv /\ [Next]_vars =>
        [\A s \in slotsInUse : slotToHash'[s] = slotToHash[s]]_vars
  BY PinnedSlotsStep DEF IInv, AnyClientNext
<1> QED BY <1>1, InductiveInvariance, PTL DEF Spec, PinnedSlotsKeepContent

----------------------------------------------------------------------------
(* The allocator over the tier.  The inductive invariant, part by part.     *)

\* The table entries that refer to a block.
HeldIn(tb, g) == {p \in UNION {{r} \X DOMAIN tb[r] : r \in Requests} :
                    tb[p[1]][p[2]] = g}

Extra(g) == IF taken = g THEN 1 ELSE 0

GpuTypeInv ==
  /\ chunked \in BOOLEAN
  /\ cached \in [Hashes -> GpuBlocks \cup {None}]
  /\ refs \in [GpuBlocks -> Nat]
  /\ table \in [Requests -> Seq(GpuBlocks)]
  /\ full \in [Requests -> Nat]
  /\ claimed \in Slots \cup {None}
  /\ taken \in GpuBlocks \cup {None}
  /\ scheduled \in SUBSET Requests
  /\ toWrite \in [GpuBlocks -> Hashes \cup {None}]
  /\ due \in SUBSET GpuBlocks

\* Every reference is accounted for.
RefsInv == \A g \in GpuBlocks : refs[g] = Cardinality(HeldIn(table, g)) + Extra(g)

\* No block is cached under two hashes, and the block being placed is cached
\* under none and in no table.
CachedInv ==
  /\ \A h1, h2 \in Hashes : cached[h1] # None /\ cached[h1] = cached[h2] => h1 = h2
  /\ taken # None =>
       /\ \A h \in Hashes : cached[h] # taken
       /\ \A r \in Requests : \A k \in DOMAIN table[r] : table[r][k] # taken

\* A table has one entry for each full block and at most a tail, which is
\* the request's own and not cached.
TableInv ==
  \A r \in Requests :
    /\ full[r] <= Len(Blocks[r])
    /\ \/ Len(table[r]) = full[r]
       \/ /\ Len(table[r]) = full[r] + 1
          /\ full[r] < Len(Blocks[r])
          /\ \A h \in Hashes : cached[h] # table[r][full[r] + 1]
          /\ \A q \in Requests : \A k \in DOMAIN table[q] :
               table[q][k] = table[r][full[r] + 1] => q = r /\ k = full[r] + 1

\* What the allocation under way may rely on.
CurrentInv ==
  /\ current = None => claimed = None /\ taken = None
  /\ phase # "open" => current = None
  /\ \A r \in Requests :
       /\ current = <<"admit", r>> =>
            /\ Len(table[r]) = full[r]
            /\ full[r] <= PromptLen[r]
            /\ claimed # None \/ taken # None =>
                 full[r] < PromptLen[r] /\ cached[NextContent(r)] = None
            /\ claimed # None =>
                 /\ hashToSlot[NextContent(r)] = claimed
                 /\ claimed \in loadSlots /\ h2d[claimed] = None
       /\ current = <<"grow", r>> =>
            /\ Len(table[r]) = full[r]
            /\ full[r] < Len(Blocks[r])
            /\ claimed = None
  /\ current = None \/ \E r \in Requests : current \in {<<"admit", r>>, <<"grow", r>>}

\* Enough blocks are left for what was admitted.
Unreferenced == {g \in GpuBlocks : refs[g] = 0}

ReserveInv ==
  \A r \in Requests :
    /\ current = <<"admit", r>> =>
         PromptLen[r] <= full[r] + Cardinality(Unreferenced) + (IF taken = None THEN 0 ELSE 1)
    /\ current = <<"grow", r>> /\ taken = None => Cardinality(Unreferenced) >= 1

\* What is still to be computed belongs to a request, and never into a block
\* that is being restored.
WriteInv ==
  /\ \A g \in GpuBlocks : refs[g] = 0 \/ g = taken \/ wanted[g] # None => toWrite[g] = None
  /\ \A g \in due : toWrite[g] # None
  /\ phase = "open" => due = {}

\* The blocks that the step under way has allocated.
InStep(g) ==
  \/ g = taken
  \/ \E r \in Requests :
       /\ r \in scheduled \/ current = <<"admit", r>>
       /\ \E k \in DOMAIN table[r] : table[r][k] = g

\* Every source of a store and target of a load of the step is such a block;
\* every claim is staged or the current one; a restored block is cached.
TransferInv ==
  phase = "open" =>
    /\ \A g \in GpuBlocks : d2h[g] # None \/ g \in DeferredBlocks => InStep(g)
    /\ \A s \in loadSlots : h2d[s] # None \/ s = claimed
    /\ \A s \in Slots : h2d[s] # None => cached[slotToHash[s]] = h2d[s] /\ InStep(h2d[s])

AllocInv ==
  /\ GpuTypeInv
  /\ RefsInv
  /\ CachedInv
  /\ TableInv
  /\ CurrentInv
  /\ ReserveInv
  /\ WriteInv
  /\ TransferInv

\* What a block holds once the copies and the forward pass of the step are done.
Will(g) ==
  IF toWrite[g] # None THEN toWrite[g]
  ELSE IF wanted[g] # None THEN wanted[g]
  ELSE gpuMem[g]

\* If prefills are whole: what is to be computed is computed in this step, and
\* a block cached or in a table will hold its content.
WholeInv ==
  /\ \A g \in GpuBlocks : toWrite[g] # None =>
       IF phase = "open" THEN InStep(g) ELSE g \in due
  /\ \A h \in Hashes : cached[h] # None => Will(cached[h]) = h
  /\ \A r \in Requests : \A k \in 1..full[r] : Will(table[r][k]) = Blocks[r][k]

OffloadIInv == BookInv /\ AllocInv /\ (~chunked => ContentInv /\ WholeInv)

----------------------------------------------------------------------------
(* Counting the references to a block.                                     *)

Tables == [Requests -> Seq(GpuBlocks)]

\* The entries of a table that name a block are its occurrences.
LEMMA HeldEntries ==
  ASSUME NEW tb, NEW g
  PROVE  /\ \A r \in Requests : \A k \in DOMAIN tb[r] :
              <<r, k>> \in HeldIn(tb, g) <=> tb[r][k] = g
         /\ \A p \in HeldIn(tb, g) :
              \E r \in Requests : \E k \in DOMAIN tb[r] : p = <<r, k>> /\ tb[r][k] = g
<1>1. ASSUME NEW r \in Requests, NEW k \in DOMAIN tb[r]
      PROVE  <<r, k>> \in HeldIn(tb, g) <=> tb[r][k] = g
  <2>1. <<r, k>> \in {r} \X DOMAIN tb[r]
    OBVIOUS
  <2>2. <<r, k>> \in UNION {{q} \X DOMAIN tb[q] : q \in Requests}
    BY <2>1
  <2>3. <<r, k>>[1] = r /\ <<r, k>>[2] = k
    OBVIOUS
  <2> QED BY <2>2, <2>3 DEF HeldIn
<1>2. ASSUME NEW p \in HeldIn(tb, g)
      PROVE  \E r \in Requests : \E k \in DOMAIN tb[r] : p = <<r, k>> /\ tb[r][k] = g
  <2>1. PICK r \in Requests : p \in {r} \X DOMAIN tb[r]
    BY DEF HeldIn
  <2>2. PICK k \in DOMAIN tb[r] : p = <<r, k>>
    BY <2>1
  <2>3. tb[p[1]][p[2]] = g
    BY DEF HeldIn
  <2>4. p[1] = r /\ p[2] = k
    BY <2>2
  <2> QED BY <2>2, <2>3, <2>4
<1> QED BY <1>1, <1>2

\* A block has finitely many occurrences.
LEMMA HeldFinite ==
  ASSUME NEW tb \in Tables, NEW g
  PROVE  IsFiniteSet(HeldIn(tb, g)) /\ Cardinality(HeldIn(tb, g)) \in Nat
<1> DEFINE rows == {{r} \X DOMAIN tb[r] : r \in Requests}
           f == [r \in Requests |-> {r} \X DOMAIN tb[r]]
<1>1. f \in Surjection(Requests, rows)
  BY DEF Surjection
<1>2. IsFiniteSet(rows)
  <2> HIDE DEF f, rows
  <2> QED BY <1>1, FS_Surjection, RequestAssumption
<1>3. ASSUME NEW r \in Requests
      PROVE  IsFiniteSet({r} \X DOMAIN tb[r])
  <2>1. Len(tb[r]) \in Nat /\ DOMAIN tb[r] = 1 .. Len(tb[r])
    BY DEF Tables
  <2>2. IsFiniteSet(1 .. Len(tb[r]))
    BY <2>1, FS_Interval
  <2>3. IsFiniteSet({r})
    BY FS_Singleton
  <2> QED BY <2>1, <2>2, <2>3, FS_Product
<1>4. \A T \in rows : IsFiniteSet(T)
  BY <1>3
<1>5. IsFiniteSet(UNION rows)
  <2> HIDE DEF rows
  <2> QED BY <1>2, <1>4, FS_UNION
<1>6. HeldIn(tb, g) \subseteq UNION rows
  BY DEF HeldIn
<1>7. IsFiniteSet(HeldIn(tb, g))
  <2> HIDE DEF rows
  <2> QED BY <1>5, <1>6, FS_Subset
<1> QED BY <1>7, FS_CardinalityType

\* No occurrence, no reference.
LEMMA HeldNone ==
  ASSUME NEW tb \in Tables, NEW g
  PROVE  Cardinality(HeldIn(tb, g)) = 0 <=>
           \A r \in Requests : \A k \in DOMAIN tb[r] : tb[r][k] # g
<1>1. Cardinality(HeldIn(tb, g)) = 0 <=> HeldIn(tb, g) = {}
  BY HeldFinite, FS_EmptySet
<1>2. ASSUME HeldIn(tb, g) = {}
      PROVE  \A r \in Requests : \A k \in DOMAIN tb[r] : tb[r][k] # g
  BY <1>2, HeldEntries
<1>3. ASSUME \A r \in Requests : \A k \in DOMAIN tb[r] : tb[r][k] # g
      PROVE  HeldIn(tb, g) = {}
  <2> SUFFICES ASSUME NEW p \in HeldIn(tb, g) PROVE FALSE
    OBVIOUS
  <2>1. \E r \in Requests : \E k \in DOMAIN tb[r] : p = <<r, k>> /\ tb[r][k] = g
    BY HeldEntries
  <2> QED BY <1>3, <2>1
<1> QED BY <1>1, <1>2, <1>3

\* The entries of one request that name a block.
Occurrences(t, g) == {k \in DOMAIN t : t[k] = g}

\* They are finitely many.
LEMMA OccurrencesFinite ==
  ASSUME NEW t \in Seq(GpuBlocks), NEW g
  PROVE  IsFiniteSet(Occurrences(t, g)) /\ Cardinality(Occurrences(t, g)) \in Nat
<1>1. Len(t) \in Nat /\ DOMAIN t = 1 .. Len(t)
  OBVIOUS
<1>2. IsFiniteSet(1 .. Len(t))
  BY <1>1, FS_Interval
<1>3. Occurrences(t, g) \in SUBSET (1 .. Len(t))
  BY <1>1 DEF Occurrences
<1> QED BY <1>2, <1>3, FS_Subset, FS_CardinalityType

\* The occurrences of a block are those in the other tables and those in one.
LEMMA HeldSplit ==
  ASSUME NEW tb \in Tables, NEW r \in Requests, NEW g
  PROVE  LET others == {p \in HeldIn(tb, g) : p[1] # r}
         IN  /\ IsFiniteSet(others) /\ Cardinality(others) \in Nat
             /\ Cardinality(HeldIn(tb, g)) =
                  Cardinality(others) + Cardinality(Occurrences(tb[r], g))
<1> DEFINE others == {p \in HeldIn(tb, g) : p[1] # r}
           own == {r} \X Occurrences(tb[r], g)
<1>1. IsFiniteSet(others) /\ Cardinality(others) \in Nat
  BY HeldFinite, FS_Subset, FS_CardinalityType
<1>2. IsFiniteSet(Occurrences(tb[r], g)) /\ Cardinality(Occurrences(tb[r], g)) \in Nat
  BY OccurrencesFinite DEF Tables
<1>3. IsFiniteSet(own) /\ Cardinality(own) = Cardinality(Occurrences(tb[r], g))
  <2>1. IsFiniteSet({r}) /\ Cardinality({r}) = 1
    BY FS_Singleton
  <2>2. /\ IsFiniteSet(own)
        /\ Cardinality(own) = Cardinality({r}) * Cardinality(Occurrences(tb[r], g))
    BY <1>2, <2>1, FS_Product
  <2> HIDE DEF own
  <2> QED BY <2>1, <2>2, <1>2
<1>4. HeldIn(tb, g) = others \cup own
  <2>1. ASSUME NEW p \in HeldIn(tb, g) PROVE p \in others \cup own
    <3>1. PICK q \in Requests : \E k \in DOMAIN tb[q] : p = <<q, k>> /\ tb[q][k] = g
      BY HeldEntries
    <3>2. PICK k \in DOMAIN tb[q] : p = <<q, k>> /\ tb[q][k] = g
      BY <3>1
    <3> QED BY <3>2 DEF Occurrences
  <2>2. ASSUME NEW p \in own PROVE p \in HeldIn(tb, g)
    <3>1. PICK k \in Occurrences(tb[r], g) : p = <<r, k>>
      OBVIOUS
    <3> QED BY <3>1, HeldEntries DEF Occurrences
  <2> QED BY <2>1, <2>2
<1>5. others \cap own = {}
  OBVIOUS
<1> HIDE DEF others, own
<1>6. Cardinality(others \cup own) =
        Cardinality(others) + Cardinality(own) - Cardinality({})
  BY <1>1, <1>3, <1>5, FS_Union
<1>7. Cardinality({}) = 0
  BY FS_EmptySet
<1>8. Cardinality(HeldIn(tb, g)) = Cardinality(others) + Cardinality(Occurrences(tb[r], g))
  BY <1>1, <1>2, <1>3, <1>4, <1>6, <1>7
<1> QED BY <1>1, <1>8 DEF others

OthersKept(tb, new, r) == \A q \in Requests : q # r => new[q] = tb[q]

\* When only the table of one request changes, so do its occurrences.
LEMMA HeldRow ==
  ASSUME NEW tb \in Tables, NEW new \in Tables, NEW r \in Requests, NEW g,
         OthersKept(tb, new, r)
  PROVE  Cardinality(HeldIn(new, g)) + Cardinality(Occurrences(tb[r], g)) =
           Cardinality(HeldIn(tb, g)) + Cardinality(Occurrences(new[r], g))
<1> DEFINE before == {p \in HeldIn(tb, g) : p[1] # r}
           after == {p \in HeldIn(new, g) : p[1] # r}
<1>1. ASSUME NEW p \in before PROVE p \in after
  <2>1. PICK q \in Requests : \E k \in DOMAIN tb[q] : p = <<q, k>> /\ tb[q][k] = g
    BY HeldEntries
  <2>2. PICK k \in DOMAIN tb[q] : p = <<q, k>> /\ tb[q][k] = g
    BY <2>1
  <2>3. q # r
    BY <2>2
  <2>4. k \in DOMAIN new[q] /\ new[q][k] = g
    BY <2>2, <2>3 DEF OthersKept
  <2> QED BY <2>2, <2>4, HeldEntries
<1>2. ASSUME NEW p \in after PROVE p \in before
  <2>1. PICK q \in Requests : \E k \in DOMAIN new[q] : p = <<q, k>> /\ new[q][k] = g
    BY HeldEntries
  <2>2. PICK k \in DOMAIN new[q] : p = <<q, k>> /\ new[q][k] = g
    BY <2>1
  <2>3. q # r
    BY <2>2
  <2>4. k \in DOMAIN tb[q] /\ tb[q][k] = g
    BY <2>2, <2>3 DEF OthersKept
  <2> QED BY <2>2, <2>4, HeldEntries
<1>3. before = after
  BY <1>1, <1>2
<1>4. /\ Cardinality(before) \in Nat
      /\ Cardinality(HeldIn(tb, g)) = Cardinality(before) + Cardinality(Occurrences(tb[r], g))
  BY HeldSplit
<1>5. Cardinality(HeldIn(new, g)) = Cardinality(after) + Cardinality(Occurrences(new[r], g))
  BY HeldSplit
<1>6. /\ Cardinality(Occurrences(tb[r], g)) \in Nat
      /\ Cardinality(Occurrences(new[r], g)) \in Nat
  BY OccurrencesFinite DEF Tables
<1> HIDE DEF before, after
<1> QED BY <1>3, <1>4, <1>5, <1>6

\* An appended block occurs once more.
LEMMA OccurrencesAppend ==
  ASSUME NEW t \in Seq(GpuBlocks), NEW b \in GpuBlocks, NEW g
  PROVE  Cardinality(Occurrences(Append(t, b), g)) =
           Cardinality(Occurrences(t, g)) + (IF g = b THEN 1 ELSE 0)
<1> DEFINE n == Len(t) + 1
           new == Append(t, b)
<1>1. /\ n \in Nat /\ DOMAIN t = 1 .. Len(t) /\ DOMAIN new = 1 .. n
      /\ new[n] = b /\ \A k \in DOMAIN t : new[k] = t[k]
  OBVIOUS
<1>2. DOMAIN new = DOMAIN t \cup {n} /\ n \notin DOMAIN t
  BY <1>1
<1> HIDE DEF n, new
<1>3. IsFiniteSet(Occurrences(t, g)) /\ Cardinality(Occurrences(t, g)) \in Nat
  BY OccurrencesFinite
<1>4. CASE g = b
  <2>1. Occurrences(new, g) = Occurrences(t, g) \cup {n} /\ n \notin Occurrences(t, g)
    BY <1>1, <1>2, <1>4 DEF Occurrences
  <2> QED BY <2>1, <1>3, <1>4, FS_AddElement DEF new
<1>5. CASE g # b
  <2>1. Occurrences(new, g) = Occurrences(t, g)
    BY <1>1, <1>2, <1>5 DEF Occurrences
  <2> QED BY <2>1, <1>3, <1>5 DEF new
<1> QED BY <1>4, <1>5

\* An entry that is replaced moves one occurrence.
LEMMA OccurrencesReplace ==
  ASSUME NEW t \in Seq(GpuBlocks), NEW k \in DOMAIN t, NEW c \in GpuBlocks, c # t[k], NEW g
  PROVE  Cardinality(Occurrences([t EXCEPT ![k] = c], g)) + (IF g = t[k] THEN 1 ELSE 0) =
           Cardinality(Occurrences(t, g)) + (IF g = c THEN 1 ELSE 0)
<1> DEFINE new == [t EXCEPT ![k] = c]
<1>1. /\ DOMAIN new = DOMAIN t /\ new[k] = c
      /\ \A j \in DOMAIN t : j # k => new[j] = t[j]
  OBVIOUS
<1> HIDE DEF new
<1>2. IsFiniteSet(Occurrences(t, g)) /\ Cardinality(Occurrences(t, g)) \in Nat
  BY OccurrencesFinite
<1>3. CASE g = c
  <2>1. Occurrences(new, g) = Occurrences(t, g) \cup {k} /\ k \notin Occurrences(t, g)
    BY <1>1, <1>3 DEF Occurrences
  <2>2. Cardinality(Occurrences(new, g)) = Cardinality(Occurrences(t, g)) + 1
    BY <2>1, <1>2, FS_AddElement
  <2> QED BY <2>2, <1>2, <1>3 DEF new
<1>4. CASE g = t[k]
  <2>1. Occurrences(new, g) = Occurrences(t, g) \ {k} /\ k \in Occurrences(t, g)
    BY <1>1, <1>4 DEF Occurrences
  <2>2. Cardinality(Occurrences(new, g)) = Cardinality(Occurrences(t, g)) - 1
    BY <2>1, <1>2, FS_RemoveElement
  <2> QED BY <2>2, <1>2, <1>4 DEF new
<1>5. CASE g # c /\ g # t[k]
  <2>1. Occurrences(new, g) = Occurrences(t, g)
    BY <1>1, <1>5 DEF Occurrences
  <2> QED BY <2>1, <1>2, <1>5 DEF new
<1> QED BY <1>3, <1>4, <1>5

----------------------------------------------------------------------------
(* Facts about blocks that nobody refers to.                               *)

\* Their number changes by at most one when one block is taken.
LEMMA UnreferencedBound ==
  ASSUME NEW A \in SUBSET GpuBlocks, NEW B \in SUBSET GpuBlocks
  PROVE  /\ Cardinality(A) \in Nat /\ Cardinality(B) \in Nat
         /\ A \subseteq B => Cardinality(A) <= Cardinality(B)
         /\ \A g : A \ {g} \subseteq B => Cardinality(A) <= Cardinality(B) + 1
         /\ Cardinality(A) > 0 <=> A # {}
<1>1. IsFiniteSet(A) /\ IsFiniteSet(B)
  BY RequestAssumption, FS_Subset
<1>2. Cardinality(A) \in Nat /\ Cardinality(B) \in Nat
  BY <1>1, FS_CardinalityType
<1>3. A \subseteq B => Cardinality(A) <= Cardinality(B)
  BY <1>1, FS_Subset
<1>4. ASSUME NEW g, A \ {g} \subseteq B
      PROVE  Cardinality(A) <= Cardinality(B) + 1
  <2>1. Cardinality(A \ {g}) <= Cardinality(B)
    BY <1>1, <1>4, FS_Subset
  <2>2. Cardinality(A \ {g}) = IF g \in A THEN Cardinality(A) - 1 ELSE Cardinality(A)
    BY <1>1, FS_RemoveElement
  <2> QED BY <1>2, <2>1, <2>2
<1>5. Cardinality(A) > 0 <=> A # {}
  <2>1. Cardinality(A) = 0 <=> A = {}
    BY <1>1, FS_EmptySet
  <2> QED BY <2>1, <1>2
<1> QED BY <1>2, <1>3, <1>4, <1>5

\* get_num_free_blocks counts them.
LEMMA NumFreeIs == NumFree = Cardinality(Unreferenced)
<1>1. Evictable \cup FreeBlocks = Unreferenced
  BY DEF Evictable, FreeBlocks, Unreferenced
<1> QED BY <1>1 DEF NumFree

\* Such a block is in no table, and nothing is to be written into it.
LEMMA UnreferencedFacts ==
  ASSUME AllocInv, NEW g \in GpuBlocks, refs[g] = 0
  PROVE  /\ \A r \in Requests : \A k \in DOMAIN table[r] : table[r][k] # g
         /\ taken # g
         /\ toWrite[g] = None
         /\ ~InStep(g)
<1>1. /\ table \in Tables /\ refs[g] = Cardinality(HeldIn(table, g)) + Extra(g)
  BY DEF AllocInv, GpuTypeInv, RefsInv, Tables
<1>2. Cardinality(HeldIn(table, g)) \in Nat
  BY <1>1, HeldFinite
<1>3. Cardinality(HeldIn(table, g)) = 0 /\ taken # g
  BY <1>1, <1>2 DEF Extra
<1>4. \A r \in Requests : \A k \in DOMAIN table[r] : table[r][k] # g
  BY <1>1, <1>3, HeldNone
<1> QED BY <1>3, <1>4 DEF AllocInv, WriteInv, InStep

\* A block in a table is referred to.
LEMMA EntryReferenced ==
  ASSUME AllocInv, NEW r \in Requests, NEW k \in DOMAIN table[r]
  PROVE  table[r][k] \in GpuBlocks /\ refs[table[r][k]] # 0
<1>1. table[r][k] \in GpuBlocks
  BY DEF AllocInv, GpuTypeInv
<1> QED BY <1>1, UnreferencedFacts

\* The number of blocks in a request's table and of its full ones.
LEMMA TableLengths ==
  ASSUME AllocInv, NEW r \in Requests
  PROVE  /\ table[r] \in Seq(GpuBlocks) /\ Len(table[r]) \in Nat
         /\ DOMAIN table[r] = 1 .. Len(table[r])
         /\ full[r] \in Nat /\ full[r] <= Len(table[r]) /\ Len(table[r]) <= full[r] + 1
         /\ Blocks[r] \in Seq(Hashes) /\ Len(Blocks[r]) \in Nat
         /\ PromptLen[r] \in Nat /\ PromptLen[r] <= Len(Blocks[r]) /\ PromptLen[r] >= 1
<1>1. /\ table[r] \in Seq(GpuBlocks) /\ full[r] \in Nat
  BY DEF AllocInv, GpuTypeInv
<1>2. Blocks[r] \in Seq(Hashes) /\ PromptLen[r] \in 1 .. Len(Blocks[r])
  BY RequestAssumption
<1>3. Len(table[r]) = full[r] \/ Len(table[r]) = full[r] + 1
  BY DEF AllocInv, TableInv
<1> QED BY <1>1, <1>2, <1>3

\* The next content of a request that has one is a hash.
LEMMA NextContentType ==
  ASSUME AllocInv, NEW r \in Requests, full[r] < Len(Blocks[r])
  PROVE  NextContent(r) \in Hashes
<1>1. /\ full[r] \in Nat /\ Blocks[r] \in Seq(Hashes) /\ Len(Blocks[r]) \in Nat
  BY TableLengths
<1>2. full[r] + 1 \in 1 .. Len(Blocks[r])
  BY <1>1
<1> QED BY <1>1, <1>2 DEF NextContent

\* The allocation under way is one request's.
LEMMA CurrentIsOne ==
  ASSUME NEW r \in Requests, NEW q \in Requests
  PROVE  /\ <<"admit", r>> # None /\ <<"grow", r>> # None
         /\ <<"admit", r>> # <<"grow", q>>
         /\ <<"admit", r>> = <<"admit", q>> => r = q
         /\ <<"grow", r>> = <<"grow", q>> => r = q
  BY RequestAssumption

----------------------------------------------------------------------------
(* The steps of the allocator.                                             *)

\* Initially the pool is empty.
LEMMA OffloadInitInv == OffloadInit => OffloadIInv
<1> SUFFICES ASSUME OffloadInit PROVE OffloadIInv
  OBVIOUS
<1> USE NoneAssumption
<1>1. Init /\ IInv
  BY InitIInv DEF OffloadInit
<1>2. GpuTypeInv
  BY DEF OffloadInit, GpuTypeInv, NoWrites
<1>3. RefsInv
  <2> SUFFICES ASSUME NEW g \in GpuBlocks
               PROVE  refs[g] = Cardinality(HeldIn(table, g)) + Extra(g)
    BY DEF RefsInv
  <2>1. table \in Tables /\ \A r \in Requests : \A k \in DOMAIN table[r] : table[r][k] # g
    BY DEF OffloadInit, Tables
  <2>2. Cardinality(HeldIn(table, g)) = 0
    BY <2>1, HeldNone
  <2>3. Extra(g) = 0 /\ refs[g] = 0
    BY DEF OffloadInit, Extra
  <2> QED BY <2>2, <2>3
<1>4. CachedInv /\ CurrentInv /\ ReserveInv
  BY <1>1, CurrentIsOne DEF OffloadInit, Init, CachedInv, CurrentInv, ReserveInv
<1>5. TableInv
  <2>1. \A r \in Requests : full[r] = 0 /\ Len(table[r]) = 0 /\ Len(Blocks[r]) \in Nat
    BY RequestAssumption DEF OffloadInit
  <2> QED BY <2>1 DEF TableInv
<1>6. WriteInv /\ TransferInv
  BY <1>1 DEF OffloadInit, Init, WriteInv, TransferInv, NoWrites
<1>7. WholeInv
  <2>1. \A r \in Requests : full[r] = 0
    BY DEF OffloadInit
  <2> QED BY <2>1 DEF OffloadInit, WholeInv, NoWrites
<1> QED BY <1>1, <1>2, <1>3, <1>4, <1>5, <1>6, <1>7 DEF OffloadIInv, AllocInv, IInv

\* Steps that leave the tables and counters alone keep what is said of them.
LEMMA CountersKept ==
  ASSUME AllocInv, UNCHANGED <<chunked, cached, refs, table, full, taken, toWrite>>
  PROVE  RefsInv' /\ CachedInv' /\ TableInv'
<1>1. RefsInv'
  BY DEF AllocInv, RefsInv, Extra
<1>2. CachedInv'
  BY DEF AllocInv, CachedInv
<1>3. TableInv'
  BY DEF AllocInv, TableInv
<1> QED BY <1>1, <1>2, <1>3

\* The tier's own steps between two calls of the allocator.
LEMMA TierStepKeepsAlloc ==
  ASSUME AllocInv, UNCHANGED gpuVars, UNCHANGED wanted,
         phase # "open", phase' # "open"
  PROVE  AllocInv' /\ ((\A g \in GpuBlocks : Will(g)' = Will(g)) /\ WholeInv => WholeInv')
<1> USE DEF gpuVars
<1>1. RefsInv' /\ CachedInv' /\ TableInv'
  BY CountersKept
<1>2. GpuTypeInv'
  BY DEF AllocInv, GpuTypeInv
<1>3. CurrentInv' /\ ReserveInv'
  BY CurrentIsOne DEF AllocInv, CurrentInv, ReserveInv, Unreferenced
<1>4. WriteInv' /\ TransferInv'
  BY DEF AllocInv, WriteInv, TransferInv
<1>5. ASSUME \A g \in GpuBlocks : Will(g)' = Will(g), WholeInv
      PROVE  WholeInv'
  <2>1. \A g \in GpuBlocks : toWrite'[g] # None => IF phase' = "open" THEN InStep(g)' ELSE g \in due'
    BY <1>5 DEF WholeInv
  <2>2. \A h \in Hashes : cached'[h] # None => Will(cached[h])' = h
    BY <1>5 DEF WholeInv, AllocInv, GpuTypeInv
  <2>3. ASSUME NEW r \in Requests, NEW k \in 1..full'[r]
        PROVE  Will(table[r][k])' = Blocks[r][k]
    <3>1. k \in DOMAIN table[r] /\ k \in 1..full[r]
      BY TableLengths
    <3> QED BY <3>1, <1>5, EntryReferenced DEF WholeInv
  <2> QED BY <2>1, <2>2, <2>3 DEF WholeInv
<1> QED BY <1>1, <1>2, <1>3, <1>4, <1>5 DEF AllocInv


\* Steps that change no table, no cached block and nothing that a block will
\* hold keep the contents.
LEMMA ContentsKept ==
  ASSUME AllocInv, WholeInv, UNCHANGED <<cached, table, full>>,
         \A g \in GpuBlocks : Will(g)' = Will(g),
         \A g \in GpuBlocks : toWrite'[g] # None =>
           IF phase' = "open" THEN InStep(g)' ELSE g \in due'
  PROVE  WholeInv'
<1>1. \A h \in Hashes : cached'[h] # None => Will(cached[h])' = h
  BY DEF WholeInv, AllocInv, GpuTypeInv
<1>2. ASSUME NEW r \in Requests, NEW k \in 1..full'[r]
      PROVE  Will(table[r][k])' = Blocks[r][k]
  <2>1. k \in DOMAIN table[r] /\ k \in 1..full[r]
    BY TableLengths
  <2> QED BY <2>1, EntryReferenced DEF WholeInv
<1> QED BY <1>1, <1>2 DEF WholeInv

\* A step opens: nothing is due, and what was restored has arrived.
LEMMA OpenStepInv ==
  ASSUME BookInv, AllocInv, OpenStep
  PROVE  /\ Next /\ AllocInv'
         /\ ContentInv /\ WholeInv => WholeInv'
<1> USE DEF OpenStep, BeginStep
<1>0. Next
  BY DEF Next
<1>1. RefsInv' /\ CachedInv' /\ TableInv'
  BY CountersKept
<1>2. GpuTypeInv'
  BY DEF AllocInv, GpuTypeInv
<1>3. CurrentInv' /\ ReserveInv'
  BY CurrentIsOne DEF AllocInv, CurrentInv, ReserveInv, Unreferenced
<1>4. WriteInv'
  BY DEF AllocInv, WriteInv, NoStores
<1>5. TransferInv'
  <2>1. /\ d2h' = NoStores /\ h2d' = NoLoads /\ deferred' = << >> /\ loadSlots' = {}
    BY DEF BookInv, PhaseInv, stepVars
  <2> QED BY <2>1 DEF TransferInv, NoStores, NoLoads, DeferredBlocks
<1>6. ASSUME ContentInv, WholeInv PROVE WholeInv'
  <2>1. \A g \in GpuBlocks : toWrite[g] = None
    BY <1>6 DEF WholeInv
  <2>2. \A g \in GpuBlocks : Will(g)' = Will(g)
    BY <2>1, <1>6 DEF Will, ContentInv, workerVars, NoStores
  <2> QED BY <1>6, <2>1, <2>2, ContentsKept
<1> QED BY <1>0, <1>1, <1>2, <1>3, <1>4, <1>5, <1>6 DEF AllocInv

\* While scheduling goes on, InStep may only grow.
LEMMA SchedulingKept ==
  ASSUME AllocInv, UNCHANGED <<chunked, vars, cached, refs, table, full, claimed, taken, toWrite, due>>,
         \A g \in GpuBlocks : InStep(g) => InStep(g)',
         phase = "open"
  PROVE  /\ RefsInv' /\ CachedInv' /\ TableInv' /\ WriteInv' /\ TransferInv'
         /\ WholeInv => WholeInv'
<1> USE DEF vars, indexVars, stepVars, workerVars
<1>1. RefsInv' /\ CachedInv' /\ TableInv'
  BY CountersKept
<1>2. WriteInv'
  BY DEF AllocInv, WriteInv
<1>3. TransferInv'
  <2>1. \A s \in Slots : h2d[s] # None /\ cached[slotToHash[s]] = h2d[s] => h2d[s] \in GpuBlocks \/ InStep(h2d[s])'
    BY DEF AllocInv, TransferInv, GpuTypeInv, InStep
  <2> QED BY <2>1 DEF AllocInv, TransferInv, DeferredBlocks
<1>4. ASSUME WholeInv PROVE WholeInv'
  <2>1. \A g \in GpuBlocks : Will(g)' = Will(g)
    BY DEF Will
  <2>2. \A g \in GpuBlocks : toWrite'[g] # None => InStep(g)'
    BY <1>4 DEF WholeInv
  <2> QED BY <1>4, <2>1, <2>2, ContentsKept
<1> QED BY <1>1, <1>2, <1>3, <1>4

\* A request is admitted.
LEMMA AdmitInv ==
  ASSUME BookInv, AllocInv, NEW r \in Requests, Admit(r)
  PROVE  UNCHANGED vars /\ AllocInv' /\ (WholeInv => WholeInv')
<1> USE DEF Admit
<1>1. \A g \in GpuBlocks : InStep(g) => InStep(g)'
  BY CurrentIsOne DEF InStep
<1>2. /\ RefsInv' /\ CachedInv' /\ TableInv' /\ WriteInv' /\ TransferInv'
      /\ WholeInv => WholeInv'
  BY <1>1, SchedulingKept
<1>3. GpuTypeInv'
  BY DEF AllocInv, GpuTypeInv
<1>4. full[r] = 0 /\ Len(table[r]) = 0
  BY TableLengths
<1>5. CurrentInv'
  <2>1. claimed = None /\ taken = None
    BY DEF AllocInv, CurrentInv
  <2>2. full[r] <= PromptLen[r]
    BY <1>4, TableLengths
  <2>3. phase' = "open"
    BY DEF vars
  <2> QED BY <1>4, <2>1, <2>2, <2>3, CurrentIsOne DEF CurrentInv
<1>6. ReserveInv'
  <2>1. PromptLen[r] <= Cardinality(Unreferenced) /\ Cardinality(Unreferenced) \in Nat
    BY NumFreeIs, UnreferencedBound DEF CanAllocate, Unreferenced
  <2>2. taken = None /\ Unreferenced' = Unreferenced
    BY DEF AllocInv, CurrentInv, Unreferenced
  <2>3. PromptLen[r] <= full[r] + Cardinality(Unreferenced) + 0
    BY <1>4, <2>1, TableLengths
  <2> QED BY <2>2, <2>3, CurrentIsOne DEF ReserveInv
<1> QED BY <1>2, <1>3, <1>5, <1>6 DEF AllocInv

\* All blocks of the prompt are allocated.
LEMMA EndAdmitInv ==
  ASSUME BookInv, AllocInv, NEW r \in Requests, EndAdmit(r)
  PROVE  UNCHANGED vars /\ AllocInv' /\ (WholeInv => WholeInv')
<1> USE DEF EndAdmit
<1>0. phase = "open"
  BY CurrentIsOne DEF AllocInv, CurrentInv
<1>1. \A g \in GpuBlocks : InStep(g) => InStep(g)'
  BY CurrentIsOne DEF InStep
<1>2. /\ RefsInv' /\ CachedInv' /\ TableInv' /\ WriteInv' /\ TransferInv'
      /\ WholeInv => WholeInv'
  BY <1>0, <1>1, SchedulingKept
<1>3. GpuTypeInv'
  BY DEF AllocInv, GpuTypeInv
<1>4. claimed = None /\ taken = None
  BY TableLengths DEF AllocInv, CurrentInv
<1>5. CurrentInv' /\ ReserveInv'
  BY <1>0, <1>4, CurrentIsOne DEF CurrentInv, ReserveInv, vars
<1> QED BY <1>2, <1>3, <1>5 DEF AllocInv

\* The next chunk of a prefill is scheduled.
LEMMA ContinuePrefillInv ==
  ASSUME BookInv, AllocInv, NEW r \in Requests, ContinuePrefill(r)
  PROVE  UNCHANGED vars /\ AllocInv' /\ (WholeInv => WholeInv')
<1> USE DEF ContinuePrefill
<1>1. \A g \in GpuBlocks : InStep(g) => InStep(g)'
  BY CurrentIsOne DEF InStep
<1>2. /\ RefsInv' /\ CachedInv' /\ TableInv' /\ WriteInv' /\ TransferInv'
      /\ WholeInv => WholeInv'
  BY <1>1, SchedulingKept
<1>3. GpuTypeInv'
  BY DEF AllocInv, GpuTypeInv
<1>4. CurrentInv' /\ ReserveInv'
  BY CurrentIsOne DEF AllocInv, CurrentInv, ReserveInv, Unreferenced, vars, NextContent
<1> QED BY <1>2, <1>3, <1>4 DEF AllocInv

\* A sequence needs a new tail.
LEMMA GrowInv ==
  ASSUME BookInv, AllocInv, NEW r \in Requests, Grow(r)
  PROVE  UNCHANGED vars /\ AllocInv' /\ (WholeInv => WholeInv')
<1> USE DEF Grow, Decodes
<1>1. \A g \in GpuBlocks : InStep(g) => InStep(g)'
  BY CurrentIsOne DEF InStep
<1>2. /\ RefsInv' /\ CachedInv' /\ TableInv' /\ WriteInv' /\ TransferInv'
      /\ WholeInv => WholeInv'
  BY <1>1, SchedulingKept
<1>3. GpuTypeInv'
  BY DEF AllocInv, GpuTypeInv
<1>4. claimed = None /\ taken = None /\ phase' = "open"
  BY DEF AllocInv, CurrentInv, vars
<1>5. CurrentInv'
  BY <1>4, CurrentIsOne DEF CurrentInv
<1>6. ReserveInv'
  <2>1. Cardinality(Unreferenced) >= 1 /\ Unreferenced' = Unreferenced
    BY NumFreeIs DEF Unreferenced
  <2> QED BY <2>1, CurrentIsOne DEF ReserveInv
<1> QED BY <1>2, <1>3, <1>5, <1>6 DEF AllocInv

\* The drain's loop and the hand-over, which the allocator does not see.
LEMMA DrainLoopInv ==
  ASSUME BookInv, AllocInv, SkipDeferred \/ ResolveDeferred \/ HandOver
  PROVE  Next /\ AllocInv' /\ (WholeInv => WholeInv')
<1>1. Next
  BY DEF SkipDeferred, ResolveDeferred, HandOver, Next
<1>2. /\ UNCHANGED gpuVars /\ UNCHANGED <<wanted, gpuMem>>
      /\ phase # "open" /\ phase' # "open"
  BY DEF SkipDeferred, ResolveDeferred, HandOver, SkipDeferredStores, ResolveDeferredStore,
         DrainStep, workerVars
<1>3. \A g \in GpuBlocks : Will(g)' = Will(g)
  BY <1>2 DEF Will, gpuVars
<1> QED BY <1>1, <1>2, <1>3, TierStepKeepsAlloc

\* The workers' copies change only blocks that are being restored.
LEMMA TransferStepInv ==
  ASSUME BookInv, AllocInv, Transfer
  PROVE  Next /\ AllocInv' /\ (WholeInv => WholeInv')
<1>1. Next
  BY DEF Transfer, Next
<1>2. /\ UNCHANGED gpuVars /\ UNCHANGED <<wanted>>
      /\ phase # "open" /\ phase' # "open" /\ gpuMem' = AfterSwapIn(AfterSwapOut)
  BY DEF Transfer, ExecuteTransfers
<1>3. ASSUME NEW g \in GpuBlocks PROVE Will(g)' = Will(g)
  <2>1. CASE wanted[g] # None
    BY <2>1, <1>2 DEF Will, gpuVars
  <2>2. CASE wanted[g] = None
    <3>1. \A s \in Slots : swapIn[s] # g
      BY <2>2, NoneAssumption DEF BookInv, TypeOK, WantedInv, SwapInv, IndexInv
    <3>2. gpuMem'[g] = gpuMem[g]
      BY <1>2, <3>1 DEF AfterSwapIn
    <3> QED BY <1>2, <3>2 DEF Will, gpuVars
  <2> QED BY <2>1, <2>2
<1> QED BY <1>1, <1>2, <1>3, TierStepKeepsAlloc

\* The end of schedule(): every claim was staged, and in a step of whole
\* prefills everything that is to be computed is due.
LEMMA DrainInv ==
  ASSUME BookInv, AllocInv, Drain
  PROVE  Next /\ AllocInv' /\ (~chunked /\ WholeInv => WholeInv')
<1> USE DEF Drain, BeginDrain
<1>0. claimed = None /\ taken = None
  BY DEF AllocInv, CurrentInv
<1>1. Next
  <2>1. loadSlots = LoadSources
    BY <1>0, NoneAssumption DEF BookInv, TypeOK, StepInv, AllocInv, TransferInv, LoadSources
  <2> QED BY <2>1 DEF Next, ClientDrain
<1>2. \A g \in due' : \E r \in scheduled : \E k \in Pending(r) : g = table[r][k]
  OBVIOUS
<1>3. \A g \in due' : g \in GpuBlocks /\ toWrite[g] # None
  BY <1>2 DEF Pending, AllocInv, GpuTypeInv
<1>4. RefsInv' /\ CachedInv' /\ TableInv'
  BY CountersKept
<1>5. GpuTypeInv'
  BY <1>3 DEF AllocInv, GpuTypeInv
<1>6. CurrentInv' /\ ReserveInv' /\ TransferInv'
  BY CurrentIsOne DEF AllocInv, CurrentInv, ReserveInv, TransferInv
<1>7. WriteInv'
  BY <1>3 DEF AllocInv, WriteInv
<1>8. ASSUME ~chunked, WholeInv PROVE WholeInv'
  <2>1. \A g \in GpuBlocks : Will(g)' = Will(g)
    BY DEF Will, workerVars
  <2>2. ASSUME NEW g \in GpuBlocks, toWrite[g] # None PROVE g \in due'
    <3>1. InStep(g)
      BY <1>8, <2>2 DEF WholeInv
    <3>2. g # taken
      BY <2>2, <1>0, NoneAssumption
    <3>3. PICK r \in scheduled : \E k \in DOMAIN table[r] : table[r][k] = g
      BY <3>1, <3>2, CurrentIsOne DEF InStep
    <3>4. PICK k \in DOMAIN table[r] : table[r][k] = g
      BY <3>3
    <3>5. k \in Pending(r)
      BY <2>2, <3>4 DEF Pending
    <3> QED BY <1>8, <3>4, <3>5
  <2> QED BY <1>8, <2>1, <2>2, ContentsKept
<1> QED BY <1>1, <1>4, <1>5, <1>6, <1>7, <1>8 DEF AllocInv

\* The forward pass writes a block that is not being restored.
LEMMA ForwardInv ==
  ASSUME BookInv, AllocInv, NEW g \in GpuBlocks, Forward(g)
  PROVE  Next /\ AllocInv' /\ (WholeInv => WholeInv')
<1> USE DEF Forward
<1>1. toWrite[g] # None /\ toWrite[g] \in Hashes /\ wanted[g] = None
  BY DEF AllocInv, GpuTypeInv, WriteInv
<1>2. Next
  BY <1>1 DEF Next, ForwardPass
<1>3. GpuTypeInv'
  BY DEF AllocInv, GpuTypeInv
<1>4. RefsInv' /\ CachedInv' /\ TableInv'
  BY DEF AllocInv, RefsInv, CachedInv, TableInv, Extra
<1>5. CurrentInv' /\ ReserveInv' /\ TransferInv'
  BY CurrentIsOne DEF AllocInv, CurrentInv, ReserveInv, TransferInv
<1>6. WriteInv'
  BY DEF AllocInv, WriteInv, GpuTypeInv
<1>7. ASSUME WholeInv PROVE WholeInv'
  <2>1. \A x \in GpuBlocks : Will(x)' = Will(x)
    BY <1>1 DEF Will, BookInv, TypeOK, AllocInv, GpuTypeInv
  <2>2. \A x \in GpuBlocks : toWrite'[x] # None => x \in due'
    BY <1>7 DEF WholeInv, AllocInv, GpuTypeInv
  <2> QED BY <1>7, <2>1, <2>2, ContentsKept
<1> QED BY <1>2, <1>3, <1>4, <1>5, <1>6, <1>7 DEF AllocInv


\* A block appended to one table has one occurrence more.
LEMMA AppendCount ==
  ASSUME NEW tb \in Tables, NEW new \in Tables, NEW r \in Requests, NEW b \in GpuBlocks,
         OthersKept(tb, new, r), new[r] = Append(tb[r], b)
  PROVE  \A g : Cardinality(HeldIn(new, g)) =
                  Cardinality(HeldIn(tb, g)) + (IF g = b THEN 1 ELSE 0)
<1> SUFFICES ASSUME NEW g
             PROVE  Cardinality(HeldIn(new, g)) =
                      Cardinality(HeldIn(tb, g)) + (IF g = b THEN 1 ELSE 0)
  OBVIOUS
<1>1. Cardinality(HeldIn(new, g)) + Cardinality(Occurrences(tb[r], g)) =
        Cardinality(HeldIn(tb, g)) + Cardinality(Occurrences(new[r], g))
  BY HeldRow
<1>2. Cardinality(Occurrences(new[r], g)) =
        Cardinality(Occurrences(tb[r], g)) + (IF g = b THEN 1 ELSE 0)
  BY OccurrencesAppend DEF Tables
<1>3. /\ Cardinality(HeldIn(new, g)) \in Nat /\ Cardinality(HeldIn(tb, g)) \in Nat
      /\ Cardinality(Occurrences(tb[r], g)) \in Nat
  BY HeldFinite, OccurrencesFinite DEF Tables
<1> QED BY <1>1, <1>2, <1>3

\* What appending a block to the table of a request does to the tables.
Appended(tb, new, r, b) ==
  /\ new \in Tables
  /\ \A q \in Requests : q # r => new[q] = tb[q]
  /\ Len(new[r]) = Len(tb[r]) + 1
  /\ \A q \in Requests : \A k \in DOMAIN tb[q] :
       k \in DOMAIN new[q] /\ new[q][k] = tb[q][k]
  /\ \A q \in Requests : \A k \in DOMAIN new[q] :
       \/ k \in DOMAIN tb[q] /\ new[q][k] = tb[q][k]
       \/ q = r /\ k = Len(tb[r]) + 1 /\ new[q][k] = b
  /\ Len(tb[r]) + 1 \in DOMAIN new[r] /\ new[r][Len(tb[r]) + 1] = b
  /\ \A g : Cardinality(HeldIn(new, g)) =
              Cardinality(HeldIn(tb, g)) + (IF g = b THEN 1 ELSE 0)

\* A block appended to the table of a request.
LEMMA AppendTable ==
  ASSUME NEW tb \in Tables, NEW new \in Tables, NEW r \in Requests, NEW b \in GpuBlocks,
         OthersKept(tb, new, r), new[r] = Append(tb[r], b)
  PROVE  Appended(tb, new, r, b)
<1>1. /\ tb[r] \in Seq(GpuBlocks) /\ Len(tb[r]) \in Nat
      /\ DOMAIN tb[r] = 1 .. Len(tb[r])
      /\ new \in Tables /\ new[r] = Append(tb[r], b)
      /\ \A q \in Requests : q # r => new[q] = tb[q]
  BY DEF Tables, OthersKept
<1>2. /\ Len(new[r]) = Len(tb[r]) + 1
      /\ DOMAIN new[r] = 1 .. Len(tb[r]) + 1
      /\ new[r][Len(tb[r]) + 1] = b
      /\ \A k \in 1 .. Len(tb[r]) : new[r][k] = tb[r][k]
  BY <1>1
<1>3. \A k \in 1 .. Len(tb[r]) + 1 : k \in 1 .. Len(tb[r]) \/ k = Len(tb[r]) + 1
  BY <1>1
<1>4. \A q \in Requests : \A k \in DOMAIN tb[q] :
        k \in DOMAIN new[q] /\ new[q][k] = tb[q][k]
  BY <1>1, <1>2
<1>5. \A q \in Requests : \A k \in DOMAIN new[q] :
        \/ k \in DOMAIN tb[q] /\ new[q][k] = tb[q][k]
        \/ q = r /\ k = Len(tb[r]) + 1 /\ new[q][k] = b
  BY <1>1, <1>2, <1>3
<1>6. \A g : Cardinality(HeldIn(new, g)) =
               Cardinality(HeldIn(tb, g)) + (IF g = b THEN 1 ELSE 0)
  BY AppendCount
<1>7. Len(tb[r]) + 1 \in DOMAIN new[r]
  BY <1>1, <1>2
<1> QED BY <1>1, <1>2, <1>4, <1>5, <1>6, <1>7 DEF Appended

\* The content of the next block is cached on the GPU.
LEMMA AllocateHitInv ==
  ASSUME BookInv, AllocInv, NEW r \in Requests, AllocateHit(r)
  PROVE  UNCHANGED vars /\ AllocInv' /\ (WholeInv => WholeInv')
<1> USE NoneAssumption DEF vars, indexVars, stepVars, workerVars
<1>20. PICK h : h = NextContent(r)
  OBVIOUS
<1>21. PICK b : b = cached[h]
  OBVIOUS
<1>1. /\ phase = "open" /\ current = <<"admit", r>> /\ full[r] < PromptLen[r]
      /\ taken = None /\ claimed = None
      /\ b # None /\ refs' = [refs EXCEPT ![b] = @ + 1]
      /\ table' = [table EXCEPT ![r] = Append(@, b)]
      /\ full' = [full EXCEPT ![r] = @ + 1]
      /\ UNCHANGED <<chunked, vars, cached, current, claimed, taken, scheduled, toWrite, due>>
  BY <1>20, <1>21 DEF AllocateHit, Allocating
<1>2. h \in Hashes /\ b \in GpuBlocks /\ h = Blocks[r][full[r] + 1]
  <2>1. full[r] < Len(Blocks[r])
    BY <1>1, TableLengths
  <2>2. h \in Hashes
    BY <2>1, <1>20, NextContentType
  <2> QED BY <1>1, <1>20, <1>21, <2>2 DEF AllocInv, GpuTypeInv, NextContent
<1>3. Len(table[r]) = full[r] /\ full[r] \in Nat /\ table \in Tables
  BY <1>1 DEF AllocInv, CurrentInv, GpuTypeInv, Tables
<1>12. cached[h] = b
  BY <1>21
<1>16. Appended(table, table', r, b)
  <2>1. /\ table' \in Tables /\ OthersKept(table, table', r)
        /\ table'[r] = Append(table[r], b)
    BY <1>1, <1>2, <1>3 DEF Tables, OthersKept
  <2> QED BY <1>2, <1>3, <2>1, AppendTable
<1>4. /\ table' \in Tables
      /\ \A q \in Requests : q # r => table'[q] = table[q]
      /\ Len(table'[r]) = Len(table[r]) + 1
      /\ \A q \in Requests : \A k \in DOMAIN table[q] :
           k \in DOMAIN table'[q] /\ table'[q][k] = table[q][k]
      /\ \A q \in Requests : \A k \in DOMAIN table'[q] :
           \/ k \in DOMAIN table[q] /\ table'[q][k] = table[q][k]
           \/ q = r /\ k = Len(table[r]) + 1 /\ table'[q][k] = b
      /\ \A g : Cardinality(HeldIn(table', g)) =
                  Cardinality(HeldIn(table, g)) + (IF g = b THEN 1 ELSE 0)
  BY <1>16 DEF Appended
<1>5. full'[r] = full[r] + 1 /\ \A q \in Requests : q # r => full'[q] = full[q]
  BY <1>1 DEF AllocInv, GpuTypeInv
<1>6. GpuTypeInv'
  BY <1>1, <1>2, <1>4 DEF AllocInv, GpuTypeInv, Tables
<1>7. RefsInv'
  <2> SUFFICES ASSUME NEW g \in GpuBlocks
               PROVE  refs'[g] = Cardinality(HeldIn(table', g)) + Extra(g)'
    BY DEF RefsInv
  <2>1. refs[g] \in Nat /\ refs[g] = Cardinality(HeldIn(table, g)) /\ Extra(g)' = 0
    <3>1. Extra(g) = 0 /\ Extra(g)' = 0
      BY <1>1 DEF Extra
    <3>2. refs[g] \in Nat /\ refs[g] = Cardinality(HeldIn(table, g)) + Extra(g)
      BY DEF AllocInv, RefsInv, GpuTypeInv
    <3>3. Cardinality(HeldIn(table, g)) \in Nat
      BY <1>3, HeldFinite
    <3> QED BY <3>1, <3>2, <3>3
  <2>2. refs'[g] = refs[g] + (IF g = b THEN 1 ELSE 0)
    BY <1>1, <1>2, <2>1 DEF AllocInv, GpuTypeInv
  <2> QED BY <1>4, <2>1, <2>2
<1>8. CachedInv'
  BY <1>1 DEF AllocInv, CachedInv
<1>9. TableInv'
  <2> SUFFICES ASSUME NEW q \in Requests
               PROVE  /\ full'[q] <= Len(Blocks[q])
                      /\ \/ Len(table'[q]) = full'[q]
                         \/ /\ Len(table'[q]) = full'[q] + 1
                            /\ full'[q] < Len(Blocks[q])
                            /\ \A x \in Hashes : cached'[x] # table'[q][full'[q] + 1]
                            /\ \A p \in Requests : \A k \in DOMAIN table'[p] :
                                 table'[p][k] = table'[q][full'[q] + 1] => p = q /\ k = full'[q] + 1
    BY DEF TableInv
  <2>1. CASE q = r
    BY <2>1, <1>1, <1>3, <1>4, <1>5, TableLengths
  <2>2. CASE q # r
    <3>1. full'[q] = full[q] /\ table'[q] = table[q] /\ cached' = cached
      BY <2>2, <1>1, <1>4, <1>5
    <3>2. /\ full[q] <= Len(Blocks[q])
          /\ \/ Len(table[q]) = full[q]
             \/ /\ Len(table[q]) = full[q] + 1
                /\ full[q] < Len(Blocks[q])
                /\ \A x \in Hashes : cached[x] # table[q][full[q] + 1]
                /\ \A p \in Requests : \A k \in DOMAIN table[p] :
                     table[p][k] = table[q][full[q] + 1] => p = q /\ k = full[q] + 1
      BY DEF AllocInv, TableInv
    <3> QED BY <3>1, <3>2, <1>2, <1>4, <1>12
  <2> QED BY <2>1, <2>2
<1>10. CurrentInv' /\ ReserveInv'
  <2>1. full'[r] <= PromptLen[r] /\ Len(table'[r]) = full'[r]
    BY <1>1, <1>3, <1>4, <1>5, TableLengths
  <2>2. CurrentInv'
    BY <1>1, <2>1, CurrentIsOne DEF CurrentInv
  <2>3. Unreferenced \ {b} \subseteq Unreferenced'
    BY <1>1, <1>2 DEF Unreferenced, AllocInv, GpuTypeInv
  <2>4. /\ Cardinality(Unreferenced) \in Nat /\ Cardinality(Unreferenced') \in Nat
        /\ Cardinality(Unreferenced) <= Cardinality(Unreferenced') + 1
    <3>1. Unreferenced \in SUBSET GpuBlocks /\ Unreferenced' \in SUBSET GpuBlocks
      BY DEF Unreferenced
    <3> HIDE DEF Unreferenced
    <3> QED BY <2>3, <3>1, UnreferencedBound
  <2>5. PromptLen[r] <= full[r] + Cardinality(Unreferenced) + 0
    BY <1>1 DEF AllocInv, ReserveInv
  <2>6. PromptLen[r] <= full'[r] + Cardinality(Unreferenced') + 0
    BY <2>4, <2>5, <1>3, <1>5, TableLengths
  <2>7. ReserveInv'
    BY <1>1, <2>6, CurrentIsOne DEF ReserveInv
  <2> QED BY <2>2, <2>7
<1>11. WriteInv'
  BY <1>1, <1>2 DEF AllocInv, WriteInv, GpuTypeInv
<1>13. \A x : InStep(x) => InStep(x)'
  BY <1>1, <1>4 DEF InStep
<1>14. TransferInv'
  BY <1>1, <1>13 DEF AllocInv, TransferInv, DeferredBlocks
<1>15. ASSUME WholeInv PROVE WholeInv'
  <2>1. \A x : Will(x)' = Will(x)
    BY <1>1 DEF Will
  <2>2. \A x \in GpuBlocks : toWrite'[x] # None => InStep(x)'
    BY <1>1, <1>13, <1>15 DEF WholeInv
  <2>3. \A x \in Hashes : cached'[x] # None => Will(cached[x])' = x
    BY <1>1, <1>15, <2>1 DEF WholeInv
  <2>4. ASSUME NEW q \in Requests, NEW k \in 1..full'[q]
        PROVE  Will(table[q][k])' = Blocks[q][k]
    <3>1. CASE q = r /\ k = full[r] + 1
      <4>1. k \in DOMAIN table'[q]
        BY <3>1, <1>3, <1>4 DEF Tables
      <4>2. table'[q][k] = b
        BY <3>1, <4>1, <1>3, <1>4
      <4>3. Will(b)' = h
        BY <2>3, <1>1, <1>2, <1>12
      <4> QED BY <3>1, <4>2, <4>3, <1>2
    <3>2. CASE ~(q = r /\ k = full[r] + 1)
      <4>1. k \in 1..full[q] /\ k \in DOMAIN table[q]
        BY <3>2, <1>5, <1>3, TableLengths
      <4>2. table'[q][k] = table[q][k]
        BY <4>1, <1>4
      <4>3. Will(table[q][k]) = Blocks[q][k]
        BY <4>1, <1>15 DEF WholeInv
      <4> QED BY <4>2, <4>3, <1>1 DEF Will
    <3> QED BY <3>1, <3>2
  <2> QED BY <1>1, <2>2, <2>3, <2>4 DEF WholeInv
<1> QED BY <1>1, <1>6, <1>7, <1>8, <1>9, <1>10, <1>11, <1>14, <1>15 DEF AllocInv

\* The CPU copy is claimed.
LEMMA ClaimInv ==
  ASSUME BookInv, AllocInv, NEW r \in Requests, Claim(r)
  PROVE  Next /\ AllocInv' /\ (WholeInv => WholeInv')
<1> USE NoneAssumption DEF workerVars
<1>0. PICK h : h = NextContent(r)
  OBVIOUS
<1>1. /\ phase = "open" /\ current = <<"admit", r>> /\ full[r] < PromptLen[r]
      /\ taken = None /\ claimed = None /\ cached[h] = None /\ ClaimLoad(h)
      /\ claimed' = hashToSlot[h]
      /\ UNCHANGED <<chunked, cached, refs, table, full, current, taken, scheduled, toWrite, due>>
  BY <1>0 DEF Claim, Allocating
<1>2. h \in Hashes
  BY <1>0, <1>1, TableLengths, NextContentType
<1>3. Next
  BY <1>1, <1>2 DEF Next
<1>4. NextContent(r)' = h
  BY <1>0, <1>1 DEF NextContent
<1>5. /\ hashToSlot[h] \in Slots /\ hashToSlot[h] \notin slotsInUse
      /\ loadSlots' = loadSlots \cup {hashToSlot[h]}
      /\ UNCHANGED <<hashToSlot, slotToHash, h2d, d2h, deferred, phase, wanted, gpuMem>>
  BY <1>1, <1>2 DEF ClaimLoad, ClaimLoadOK, Ready, BookInv, TypeOK
<1>6. h2d[hashToSlot[h]] = None
  BY <1>5 DEF BookInv, StepInv
<1>7. RefsInv' /\ CachedInv' /\ TableInv'
  BY <1>1, CountersKept
<1>8. GpuTypeInv'
  BY <1>1, <1>5 DEF AllocInv, GpuTypeInv
<1>9. CurrentInv'
  <2>1. Len(table[r]) = full[r] /\ full[r] <= PromptLen[r]
    BY <1>1 DEF AllocInv, CurrentInv
  <2> QED BY <1>1, <1>4, <1>5, <1>6, <2>1, CurrentIsOne DEF CurrentInv
<1>10. ReserveInv'
  BY <1>1, <1>5 DEF AllocInv, ReserveInv, Unreferenced
<1>11. WriteInv'
  BY <1>1, <1>5 DEF AllocInv, WriteInv
<1>12. \A x : InStep(x) => InStep(x)'
  BY <1>1 DEF InStep
<1>13. TransferInv'
  BY <1>1, <1>5, <1>12 DEF AllocInv, TransferInv, DeferredBlocks, BookInv, TypeOK
<1>14. ASSUME WholeInv PROVE WholeInv'
  <2>1. \A x : Will(x)' = Will(x)
    BY <1>1, <1>5 DEF Will
  <2>2. \A x \in GpuBlocks : toWrite'[x] # None => InStep(x)'
    BY <1>1, <1>12, <1>14 DEF WholeInv
  <2> QED BY <1>1, <1>5, <1>14, <2>1, <2>2, ContentsKept
<1> QED BY <1>3, <1>7, <1>8, <1>9, <1>10, <1>11, <1>13, <1>14 DEF AllocInv


\* What a staged store may change of what the allocator relies on.
LEMMA StageStoreEffect ==
  ASSUME BookInv, NEW h \in Hashes, NEW b \in GpuBlocks, StageStore(h, b)
  PROVE  /\ UNCHANGED <<phase, loadSlots, h2d, wanted, gpuMem>>
         /\ \A s \in loadSlots : slotToHash'[s] = slotToHash[s]
         /\ \A x \in Hashes : hashToSlot[x] # None => hashToSlot'[x] = hashToSlot[x]
         /\ \A x \in GpuBlocks : d2h'[x] # None \/ x \in DeferredBlocks' =>
              x = b \/ d2h[x] # None \/ x \in DeferredBlocks
<1> USE NoneAssumption DEF indexVars, stepVars, workerVars
<1>1. CASE StageStoreDuplicate(h)
  BY <1>1 DEF StageStore, StageStoreDuplicate, DeferredBlocks
<1>2. CASE StageStoreFree(h, b)
  <2>1. PICK slot \in freeSlots : CommitStore(h, b, slot)
    BY <1>2 DEF StageStoreFree
  <2>2. slot \in Slots /\ slotToHash[slot] = None /\ slot \notin loadSlots
    BY <2>1 DEF BookInv, TypeOK, IndexInv, StepInv
  <2>3. UNCHANGED <<phase, loadSlots, h2d, wanted, gpuMem, deferred>>
    BY <1>2 DEF StageStore, StageStoreFree
  <2>4. \A s \in loadSlots : slotToHash'[s] = slotToHash[s]
    BY <2>1, <2>2 DEF CommitStore, BookInv, TypeOK
  <2>5. \A x \in Hashes : hashToSlot[x] # None => hashToSlot'[x] = hashToSlot[x]
    BY <1>2, <2>1, <2>2 DEF CommitStore, StageStoreFree, Deduplicated
  <2>6. \A x \in GpuBlocks : x # b => d2h'[x] = d2h[x]
    BY <2>1 DEF CommitStore, BookInv, TypeOK
  <2> QED BY <2>3, <2>4, <2>5, <2>6 DEF DeferredBlocks
<1>3. CASE StageStoreDeferred(h, b)
  <2>1. UNCHANGED <<phase, loadSlots, h2d, wanted, gpuMem, d2h, slotToHash, hashToSlot>>
    BY <1>3 DEF StageStore, StageStoreDeferred
  <2>2. /\ Len(deferred) \in Nat /\ DOMAIN deferred = 1 .. Len(deferred)
        /\ DOMAIN deferred' = 1 .. Len(deferred) + 1
        /\ deferred'[Len(deferred) + 1] = <<b, h>>
        /\ \A i \in 1 .. Len(deferred) : deferred'[i] = deferred[i]
    BY <1>3 DEF BookInv, TypeOK, StageStoreDeferred
  <2>3. \A i \in DOMAIN deferred' : i = Len(deferred) + 1 \/ i \in DOMAIN deferred
    BY <2>2
  <2>4. <<b, h>>[1] = b
    OBVIOUS
  <2>5. \A x \in DeferredBlocks' : x = b \/ x \in DeferredBlocks
    BY <2>2, <2>3, <2>4 DEF DeferredBlocks
  <2> QED BY <2>1, <2>5
<1> QED BY <1>1, <1>2, <1>3 DEF StageStore

\* A block id is taken, from the free list or from the evictor.
LEMMA TakeInv ==
  ASSUME BookInv, AllocInv, NEW r \in Requests, NeedsBlock(r),
         NEW b \in GpuBlocks, refs[b] = 0,
         taken' = b, refs' = [refs EXCEPT ![b] = 1],
         cached' \in [Hashes -> GpuBlocks \cup {None}],
         \A h \in Hashes : cached'[h] = IF cached[h] = b THEN None ELSE cached[h],
         UNCHANGED <<chunked, table, full, current, claimed, scheduled, toWrite, due>>,
         UNCHANGED <<phase, loadSlots, h2d, wanted, gpuMem>>,
         \A s \in loadSlots : slotToHash'[s] = slotToHash[s],
         \A x \in Hashes : hashToSlot[x] # None => hashToSlot'[x] = hashToSlot[x],
         \A x \in GpuBlocks : d2h'[x] # None \/ x \in DeferredBlocks' =>
           x = b \/ d2h[x] # None \/ x \in DeferredBlocks
  PROVE  AllocInv' /\ (WholeInv => WholeInv')
<1> USE NoneAssumption
<1>1. /\ \A q \in Requests : \A k \in DOMAIN table[q] : table[q][k] # b
      /\ toWrite[b] = None /\ ~InStep(b) /\ taken = None
  BY UnreferencedFacts DEF NeedsBlock
<1>2. /\ current = <<"admit", r>> \/ current = <<"grow", r>>
      /\ current = <<"admit", r>> =>
           full[r] < PromptLen[r] /\ cached[NextContent(r)] = None
      /\ phase = "open"
  BY CurrentIsOne DEF NeedsBlock, Allocating, AllocInv, CurrentInv
<1>3. GpuTypeInv'
  BY DEF AllocInv, GpuTypeInv
<1>4. RefsInv'
  <2> SUFFICES ASSUME NEW g \in GpuBlocks
               PROVE  refs'[g] = Cardinality(HeldIn(table', g)) + Extra(g)'
    BY DEF RefsInv
  <2>1. /\ refs[g] = Cardinality(HeldIn(table, g)) + Extra(g) /\ Extra(g) = 0
        /\ refs[g] \in Nat /\ table' = table
    BY <1>1 DEF AllocInv, RefsInv, Extra, GpuTypeInv
  <2>2. Cardinality(HeldIn(table, g)) \in Nat
    BY HeldFinite DEF AllocInv, GpuTypeInv, Tables
  <2>3. refs'[g] = (IF g = b THEN 1 ELSE refs[g]) /\ Extra(g)' = (IF g = b THEN 1 ELSE 0)
    BY DEF AllocInv, GpuTypeInv, Extra
  <2> QED BY <2>1, <2>2, <2>3
<1>5. CachedInv'
  BY <1>1 DEF AllocInv, CachedInv
<1>6. TableInv'
  <2>1. \A q \in Requests : Len(table[q]) = full[q] + 1 => table[q][full[q] + 1] # None
    BY TableLengths
  <2> QED BY <2>1 DEF AllocInv, TableInv
<1>7. CurrentInv'
  <2>1. ASSUME NEW q \in Requests, current = <<"admit", q>>
        PROVE  /\ q = r /\ Len(table[r]) = full[r] /\ full[r] <= PromptLen[r]
               /\ full[r] < PromptLen[r] /\ cached'[NextContent(r)] = None
               /\ claimed # None =>
                    /\ hashToSlot'[NextContent(r)] = claimed
                    /\ claimed \in loadSlots /\ h2d[claimed] = None
    <3>1. q = r
      BY <2>1, <1>2, CurrentIsOne
    <3>2. NextContent(r) \in Hashes
      BY <3>1, <2>1, <1>2, TableLengths, NextContentType
    <3> QED BY <3>1, <3>2, <2>1, <1>2 DEF AllocInv, CurrentInv, GpuTypeInv
  <2>2. \A q \in Requests : NextContent(q)' = NextContent(q)
    BY DEF NextContent
  <2>3. \A q \in Requests : current = <<"grow", q>> =>
          Len(table[q]) = full[q] /\ full[q] < Len(Blocks[q]) /\ claimed = None
    BY DEF AllocInv, CurrentInv
  <2>4. current # None
    BY <1>2, CurrentIsOne
  <2> QED BY <1>2, <2>1, <2>2, <2>3, <2>4 DEF CurrentInv
<1>8. ReserveInv'
  <2>1. Unreferenced \ {b} \subseteq Unreferenced'
    BY DEF Unreferenced, AllocInv, GpuTypeInv
  <2>2. /\ Cardinality(Unreferenced) \in Nat /\ Cardinality(Unreferenced') \in Nat
        /\ Cardinality(Unreferenced) <= Cardinality(Unreferenced') + 1
    <3>1. Unreferenced \in SUBSET GpuBlocks /\ Unreferenced' \in SUBSET GpuBlocks
      BY DEF Unreferenced
    <3> HIDE DEF Unreferenced
    <3> QED BY <2>1, <3>1, UnreferencedBound
  <2>3. ASSUME NEW q \in Requests, current = <<"admit", q>>
        PROVE  PromptLen[q] <= full[q] + Cardinality(Unreferenced') + 1
    <3>1. PromptLen[q] <= full[q] + Cardinality(Unreferenced) + 0
      BY <1>1, <2>3 DEF AllocInv, ReserveInv
    <3> QED BY <2>2, <3>1, TableLengths
  <2>4. taken' # None
    OBVIOUS
  <2> QED BY <2>3, <2>4 DEF ReserveInv
<1>9. WriteInv'
  BY <1>1 DEF AllocInv, WriteInv, GpuTypeInv
<1>10. \A x \in GpuBlocks : InStep(x) => InStep(x)'
  BY <1>1 DEF InStep
<1>11. TransferInv'
  <2>1. \A x \in GpuBlocks : d2h'[x] # None \/ x \in DeferredBlocks' => InStep(x)'
    BY <1>2, <1>10 DEF AllocInv, TransferInv, InStep
  <2>2. \A s \in loadSlots' : h2d'[s] # None \/ s = claimed'
    BY <1>2 DEF AllocInv, TransferInv
  <2>3. ASSUME NEW s \in Slots, h2d[s] # None
        PROVE  cached'[slotToHash'[s]] = h2d[s] /\ InStep(h2d[s])'
    <3>1. /\ h2d[s] \in GpuBlocks /\ s \in loadSlots
          /\ slotToHash[s] \in Hashes
      BY <2>3 DEF BookInv, TypeOK, StepInv, IndexInv
    <3>2. cached[slotToHash[s]] = h2d[s] /\ InStep(h2d[s])
      BY <2>3, <1>2 DEF AllocInv, TransferInv
    <3>3. h2d[s] # b
      BY <3>2, <1>1
    <3> QED BY <3>1, <3>2, <3>3, <1>10
  <2> QED BY <2>1, <2>2, <2>3 DEF TransferInv
<1>12. ASSUME WholeInv PROVE WholeInv'
  <2>1. \A x : Will(x)' = Will(x)
    BY DEF Will
  <2>2. \A x \in GpuBlocks : toWrite'[x] # None => InStep(x)'
    BY <1>2, <1>10, <1>12 DEF WholeInv
  <2>3. ASSUME NEW h \in Hashes, cached'[h] # None
        PROVE  Will(cached[h])' = h
    <3>1. cached'[h] = cached[h]
      BY <2>3
    <3>2. Will(cached[h]) = h
      BY <2>3, <3>1, <1>12 DEF WholeInv
    <3> QED BY <3>1, <3>2 DEF Will
  <2>4. ASSUME NEW q \in Requests, NEW k \in 1..full'[q]
        PROVE  Will(table[q][k])' = Blocks[q][k]
    BY <2>4, <1>12 DEF WholeInv, Will
  <2> QED BY <1>2, <2>2, <2>3, <2>4 DEF WholeInv
<1> QED
  BY <1>3, <1>4, <1>5, <1>6, <1>7, <1>8, <1>9, <1>11, <1>12 DEF AllocInv

\* The free list has a block.
LEMMA TakeFreeInv ==
  ASSUME BookInv, AllocInv, NEW r \in Requests, TakeFree(r)
  PROVE  UNCHANGED vars /\ AllocInv' /\ (WholeInv => WholeInv')
<1> USE NoneAssumption DEF vars, indexVars, stepVars, workerVars
<1>1. PICK b \in FreeBlocks : taken' = b /\ refs' = [refs EXCEPT ![b] = 1]
  BY DEF TakeFree
<1>2. /\ b \in GpuBlocks /\ refs[b] = 0 /\ \A h \in Hashes : cached[h] # b
      /\ cached \in [Hashes -> GpuBlocks \cup {None}]
  BY DEF FreeBlocks, Evictable, AllocInv, GpuTypeInv
<1>3. /\ UNCHANGED vars
      /\ UNCHANGED <<chunked, cached, table, full, current, claimed, scheduled, toWrite, due>>
      /\ NeedsBlock(r)
  BY DEF TakeFree
<1>4. /\ UNCHANGED <<phase, loadSlots, h2d, wanted, gpuMem, d2h, slotToHash, hashToSlot>>
      /\ DeferredBlocks' = DeferredBlocks
  BY <1>3 DEF DeferredBlocks
<1>5. AllocInv' /\ (WholeInv => WholeInv')
  BY <1>1, <1>2, <1>3, <1>4, TakeInv
<1> QED BY <1>3, <1>5

\* A cached block that nobody refers to holds the content of its hash, if
\* prefills are whole.
LEMMA EvictableHolds ==
  ASSUME BookInv, AllocInv, phase = "open", NEW b \in Evictable
  PROVE  /\ b \in GpuBlocks /\ refs[b] = 0 /\ HashOf(b) \in Hashes /\ cached[HashOf(b)] = b
         /\ \A h \in Hashes : cached[h] = b => h = HashOf(b)
         /\ d2h[b] = None /\ b \notin DeferredBlocks
         /\ WholeInv => gpuMem[b] = HashOf(b)
<1> USE NoneAssumption
<1>1. b \in GpuBlocks /\ refs[b] = 0 /\ \E h \in Hashes : cached[h] = b
  BY DEF Evictable
<1>2. HashOf(b) \in Hashes /\ cached[HashOf(b)] = b
  BY <1>1 DEF HashOf
<1>3. \A h \in Hashes : cached[h] = b => h = HashOf(b)
  BY <1>1, <1>2 DEF AllocInv, CachedInv
<1>4. toWrite[b] = None /\ ~InStep(b)
  BY <1>1, UnreferencedFacts
<1>5. d2h[b] = None /\ b \notin DeferredBlocks
  BY <1>1, <1>4 DEF AllocInv, TransferInv
<1>6. wanted[b] = None
  BY <1>1, <1>4 DEF BookInv, WantedInv, AllocInv, TransferInv
<1>7. WholeInv => Will(b) = HashOf(b)
  BY <1>1, <1>2 DEF WholeInv
<1> QED BY <1>1, <1>2, <1>3, <1>4, <1>5, <1>6, <1>7 DEF Will

\* An evicted block is offered to the tier under the hash of what it holds.
LEMMA TakeEvictedInv ==
  ASSUME BookInv, AllocInv, NEW r \in Requests, TakeEvicted(r)
  PROVE  AnyClientNext /\ AllocInv' /\ (WholeInv => Next /\ WholeInv')
<1> USE NoneAssumption
<1>1. PICK b \in Evictable :
        /\ StageStore(HashOf(b), b)
        /\ cached' = [cached EXCEPT ![HashOf(b)] = None]
        /\ taken' = b
        /\ refs' = [refs EXCEPT ![b] = 1]
  BY DEF TakeEvicted
<1>2. phase = "open"
  BY <1>1 DEF StageStore
<1>3. /\ b \in GpuBlocks /\ refs[b] = 0 /\ HashOf(b) \in Hashes /\ cached[HashOf(b)] = b
      /\ \A h \in Hashes : cached[h] = b => h = HashOf(b)
      /\ WholeInv => gpuMem[b] = HashOf(b)
  BY <1>2, EvictableHolds
<1>4. PICK h \in Hashes : h = HashOf(b)
  BY <1>3
<1>5. /\ NeedsBlock(r)
      /\ UNCHANGED <<chunked, table, full, current, claimed, scheduled, toWrite, due>>
  BY DEF TakeEvicted
<1>6. /\ UNCHANGED <<phase, loadSlots, h2d, wanted, gpuMem>>
      /\ \A s \in loadSlots : slotToHash'[s] = slotToHash[s]
      /\ \A x \in Hashes : hashToSlot[x] # None => hashToSlot'[x] = hashToSlot[x]
      /\ \A x \in GpuBlocks : d2h'[x] # None \/ x \in DeferredBlocks' =>
           x = b \/ d2h[x] # None \/ x \in DeferredBlocks
  BY <1>1, <1>3, StageStoreEffect
<1>7. /\ cached' \in [Hashes -> GpuBlocks \cup {None}]
      /\ \A x \in Hashes : cached'[x] = IF cached[x] = b THEN None ELSE cached[x]
  BY <1>1, <1>3 DEF AllocInv, GpuTypeInv
<1>8. AllocInv' /\ (WholeInv => WholeInv')
  BY <1>1, <1>3, <1>5, <1>6, <1>7, TakeInv
<1>9. AnyClientNext
  BY <1>1, <1>3 DEF AnyClientNext
<1>10. WholeInv => Next
  BY <1>1, <1>3 DEF Next, ClientStore
<1> QED BY <1>8, <1>9, <1>10


\* What is done when the block b becomes the next full block of r, with content h.
PlaceStep(r, h, b) ==
  /\ h = NextContent(r) /\ b = taken /\ b # None
  /\ Allocating(r) /\ Placed(r)
  /\ cached' = [cached EXCEPT ![h] = b]
  /\ claimed' = None /\ UNCHANGED <<phase, refs, current, scheduled>>

\* What that leaves of the allocator's invariant.
PlaceKept(h, b) ==
  /\ h \in Hashes /\ b \in GpuBlocks /\ cached[h] = None
  /\ table' \in Tables /\ full' \in [Requests -> Nat] /\ taken' = None
  /\ cached' \in [Hashes -> GpuBlocks \cup {None}]
  /\ RefsInv' /\ CachedInv' /\ TableInv' /\ CurrentInv' /\ ReserveInv'
  /\ \A x : InStep(x) => InStep(x)'
  /\ InStep(b)'
  /\ WholeInv /\ Will(b)' = h /\ (\A x : x # b => Will(x)' = Will(x))
       /\ (\A x \in GpuBlocks : toWrite'[x] # None => toWrite[x] # None \/ x = b)
       => WholeInv'

\* The taken block becomes the next full block of the prompt, and is cached.
LEMMA PlacedInv ==
  ASSUME AllocInv, NEW r \in Requests, NEW h, NEW b, PlaceStep(r, h, b)
  PROVE  PlaceKept(h, b)
<1> USE NoneAssumption
<1>0. /\ h = NextContent(r) /\ b = taken /\ b # None
      /\ Allocating(r) /\ Placed(r)
      /\ cached' = [cached EXCEPT ![h] = b]
      /\ claimed' = None /\ UNCHANGED <<phase, refs, current, scheduled>>
  BY DEF PlaceStep
<1> USE <1>0
<1>1. /\ phase = "open" /\ current = <<"admit", r>> /\ full[r] < PromptLen[r]
      /\ table' = [table EXCEPT ![r] = Append(@, b)]
      /\ full' = [full EXCEPT ![r] = @ + 1]
      /\ taken' = None
  BY DEF Allocating, Placed
<1>2. h \in Hashes /\ b \in GpuBlocks /\ h = Blocks[r][full[r] + 1]
  <2>1. full[r] < Len(Blocks[r])
    BY <1>1, TableLengths
  <2>2. h \in Hashes
    BY <2>1, NextContentType
  <2> QED BY <2>2 DEF AllocInv, GpuTypeInv, NextContent
<1>3. /\ Len(table[r]) = full[r] /\ full[r] \in Nat /\ table \in Tables
      /\ cached[h] = None
  BY <1>1 DEF AllocInv, CurrentInv, GpuTypeInv, Tables
<1>4. /\ \A x \in Hashes : cached[x] # b
      /\ \A q \in Requests : \A k \in DOMAIN table[q] : table[q][k] # b
  BY DEF AllocInv, CachedInv
<1>5. /\ cached' \in [Hashes -> GpuBlocks \cup {None}] /\ cached'[h] = b
      /\ \A x \in Hashes : x # h => cached'[x] = cached[x]
  BY <1>2 DEF AllocInv, GpuTypeInv
<1>6. Appended(table, table', r, b)
  <2>1. /\ table' \in Tables /\ OthersKept(table, table', r)
        /\ table'[r] = Append(table[r], b)
    BY <1>1, <1>2, <1>3 DEF Tables, OthersKept
  <2> QED BY <1>2, <1>3, <2>1, AppendTable
<1>7. /\ table' \in Tables
      /\ \A q \in Requests : q # r => table'[q] = table[q]
      /\ Len(table'[r]) = Len(table[r]) + 1
      /\ \A q \in Requests : \A k \in DOMAIN table[q] :
           k \in DOMAIN table'[q] /\ table'[q][k] = table[q][k]
      /\ \A q \in Requests : \A k \in DOMAIN table'[q] :
           \/ k \in DOMAIN table[q] /\ table'[q][k] = table[q][k]
           \/ q = r /\ k = Len(table[r]) + 1 /\ table'[q][k] = b
      /\ Len(table[r]) + 1 \in DOMAIN table'[r] /\ table'[r][Len(table[r]) + 1] = b
      /\ \A g : Cardinality(HeldIn(table', g)) =
                  Cardinality(HeldIn(table, g)) + (IF g = b THEN 1 ELSE 0)
  BY <1>6 DEF Appended
<1>8. /\ full'[r] = full[r] + 1 /\ \A q \in Requests : q # r => full'[q] = full[q]
      /\ full' \in [Requests -> Nat]
  BY <1>1 DEF AllocInv, GpuTypeInv
<1>9. RefsInv'
  <2> SUFFICES ASSUME NEW g \in GpuBlocks
               PROVE  refs'[g] = Cardinality(HeldIn(table', g)) + Extra(g)'
    BY DEF RefsInv
  <2>1. Extra(g) = (IF g = b THEN 1 ELSE 0) /\ Extra(g)' = 0
    BY <1>1 DEF Extra
  <2>2. refs'[g] = Cardinality(HeldIn(table, g)) + Extra(g)
    BY DEF AllocInv, RefsInv
  <2>3. Cardinality(HeldIn(table, g)) \in Nat
    BY <1>3, HeldFinite
  <2> QED BY <1>7, <2>1, <2>2, <2>3
<1>10. CachedInv'
  BY <1>1, <1>4, <1>5 DEF AllocInv, CachedInv
<1>11. TableInv'
  <2> SUFFICES ASSUME NEW q \in Requests
               PROVE  /\ full'[q] <= Len(Blocks[q])
                      /\ \/ Len(table'[q]) = full'[q]
                         \/ /\ Len(table'[q]) = full'[q] + 1
                            /\ full'[q] < Len(Blocks[q])
                            /\ \A x \in Hashes : cached'[x] # table'[q][full'[q] + 1]
                            /\ \A p \in Requests : \A k \in DOMAIN table'[p] :
                                 table'[p][k] = table'[q][full'[q] + 1] => p = q /\ k = full'[q] + 1
    BY DEF TableInv
  <2>1. CASE q = r
    BY <2>1, <1>1, <1>3, <1>7, <1>8, TableLengths
  <2>2. CASE q # r
    <3>1. full'[q] = full[q] /\ table'[q] = table[q]
      BY <2>2, <1>7, <1>8
    <3>2. /\ full[q] <= Len(Blocks[q])
          /\ \/ Len(table[q]) = full[q]
             \/ /\ Len(table[q]) = full[q] + 1
                /\ full[q] < Len(Blocks[q])
                /\ \A x \in Hashes : cached[x] # table[q][full[q] + 1]
                /\ \A p \in Requests : \A k \in DOMAIN table[p] :
                     table[p][k] = table[q][full[q] + 1] => p = q /\ k = full[q] + 1
      BY DEF AllocInv, TableInv
    <3>3. Len(table[q]) = full[q] + 1 => table[q][full[q] + 1] # b
      BY <1>4, TableLengths
    <3> QED BY <3>1, <3>2, <3>3, <1>5, <1>7
  <2> QED BY <2>1, <2>2
<1>12. CurrentInv'
  <2>1. full'[r] <= PromptLen[r] /\ Len(table'[r]) = full'[r]
    BY <1>1, <1>3, <1>7, <1>8, TableLengths
  <2> QED BY <1>1, <2>1, CurrentIsOne DEF CurrentInv
<1>13. ReserveInv'
  <2>1. PromptLen[r] <= full[r] + Cardinality(Unreferenced) + 1
    BY <1>1 DEF AllocInv, ReserveInv
  <2>2. Unreferenced' = Unreferenced /\ Cardinality(Unreferenced) \in Nat
    <3>1. Unreferenced' = Unreferenced /\ Unreferenced \in SUBSET GpuBlocks
      BY DEF Unreferenced
    <3> HIDE DEF Unreferenced
    <3> QED BY <3>1, UnreferencedBound
  <2>3. PromptLen[r] <= full'[r] + Cardinality(Unreferenced') + 0
    BY <2>1, <2>2, <1>3, <1>8, TableLengths
  <2> QED BY <1>1, <2>3, CurrentIsOne DEF ReserveInv
<1>14. InStep(b)'
  <2>1. \E k \in DOMAIN table'[r] : table'[r][k] = b
    BY <1>7
  <2>2. current' = <<"admit", r>>
    BY <1>1
  <2> QED BY <2>1, <2>2 DEF InStep
<1>15. \A x : InStep(x) => InStep(x)'
  BY <1>1, <1>7, <1>14 DEF InStep
<1>16. ASSUME WholeInv, Will(b)' = h, \A x : x # b => Will(x)' = Will(x),
              \A x \in GpuBlocks : toWrite'[x] # None => toWrite[x] # None \/ x = b
       PROVE  WholeInv'
  <2>1. \A x \in GpuBlocks : toWrite'[x] # None => InStep(x)'
    BY <1>1, <1>14, <1>15, <1>16 DEF WholeInv
  <2>2. ASSUME NEW x \in Hashes, cached'[x] # None PROVE Will(cached[x])' = x
    <3>1. CASE x = h
      BY <3>1, <1>5, <1>16
    <3>2. CASE x # h
      <4>1. cached'[x] = cached[x] /\ cached[x] # b /\ Will(cached[x]) = x
        BY <3>2, <2>2, <1>4, <1>5, <1>16 DEF WholeInv
      <4> QED BY <4>1, <1>16
    <3> QED BY <3>1, <3>2
  <2>3. ASSUME NEW q \in Requests, NEW k \in 1..full'[q]
        PROVE  Will(table[q][k])' = Blocks[q][k]
    <3>1. CASE q = r /\ k = full[r] + 1
      BY <3>1, <1>2, <1>3, <1>7, <1>16
    <3>2. CASE ~(q = r /\ k = full[r] + 1)
      <4>1. k \in 1..full[q] /\ k \in DOMAIN table[q]
        BY <3>2, <1>8, <1>3, TableLengths
      <4>2. table'[q][k] = table[q][k] /\ table[q][k] # b
        BY <4>1, <1>4, <1>7
      <4>3. Will(table[q][k]) = Blocks[q][k]
        BY <4>1, <1>16 DEF WholeInv
      <4> QED BY <4>2, <4>3, <1>16
    <3> QED BY <3>1, <3>2
  <2> QED BY <1>1, <2>1, <2>2, <2>3 DEF WholeInv
<1> QED
  BY <1>1, <1>2, <1>3, <1>5, <1>7, <1>8, <1>9, <1>10, <1>11, <1>12, <1>13, <1>14, <1>15, <1>16
     DEF PlaceKept

\* While a step is being scheduled, a block that is being restored is cached.
LEMMA RestoredIsCached ==
  ASSUME BookInv, AllocInv, phase = "open", NEW g \in GpuBlocks, wanted[g] # None
  PROVE  InStep(g) /\ \E x \in Hashes : cached[x] = g
<1>1. PICK s \in Slots : h2d[s] = g
  BY DEF BookInv, WantedInv
<1>2. h2d[s] # None
  BY <1>1, NoneAssumption
<1>3. slotToHash[s] \in Hashes
  BY <1>2 DEF BookInv, TypeOK, StepInv, IndexInv
<1>4. cached[slotToHash[s]] = g /\ InStep(g)
  BY <1>1, <1>2 DEF AllocInv, TransferInv
<1> QED BY <1>3, <1>4

\* The CPU copy is staged into the block.
LEMMA RestoreInv ==
  ASSUME BookInv, AllocInv, NEW r \in Requests, Restore(r)
  PROVE  Next /\ AllocInv' /\ (WholeInv => WholeInv')
<1> USE NoneAssumption
<1>0. PICK h : h = NextContent(r)
  OBVIOUS
<1>1. PICK b : b = taken
  OBVIOUS
<1>2. PICK c : c = claimed
  OBVIOUS
<1>3. /\ phase = "open" /\ Allocating(r) /\ b # None /\ c # None
      /\ StageLoad(h, c, b)
      /\ cached' = [cached EXCEPT ![h] = b]
      /\ claimed' = None
      /\ Placed(r)
      /\ UNCHANGED <<chunked, refs, current, scheduled, toWrite, due>>
  BY <1>0, <1>1, <1>2 DEF Restore, Allocating
<1>4. /\ h2d' = [h2d EXCEPT ![c] = b] /\ wanted' = [wanted EXCEPT ![b] = h]
      /\ hashToSlot[h] = c
      /\ UNCHANGED <<phase, slotToHash, loadSlots, d2h, deferred, gpuMem>>
  BY <1>3 DEF StageLoad, StageLoadOK, indexVars, workerVars
<1>5. /\ h \in Hashes /\ b \in GpuBlocks /\ cached[h] = None
      /\ table' \in Tables /\ full' \in [Requests -> Nat] /\ taken' = None
      /\ cached' \in [Hashes -> GpuBlocks \cup {None}]
      /\ RefsInv' /\ CachedInv' /\ TableInv' /\ CurrentInv' /\ ReserveInv'
      /\ \A x : InStep(x) => InStep(x)'
      /\ InStep(b)'
      /\ WholeInv /\ Will(b)' = h /\ (\A x : x # b => Will(x)' = Will(x))
           /\ (\A x \in GpuBlocks : toWrite'[x] # None => toWrite[x] # None \/ x = b)
           => WholeInv'
  <2>1. PlaceStep(r, h, b)
    BY <1>0, <1>1, <1>3, <1>4 DEF PlaceStep
  <2>2. PlaceKept(h, b)
    BY <2>1, PlacedInv
  <2> QED BY ONLY <2>2 DEF PlaceKept
<1>6. c \in Slots
  BY <1>2, <1>3 DEF AllocInv, GpuTypeInv
<1>7. Next
  BY <1>3, <1>5, <1>6 DEF Next
<1>8. GpuTypeInv'
  BY <1>3, <1>5 DEF AllocInv, GpuTypeInv, Tables
<1>9. toWrite[b] = None /\ wanted'[b] = h /\ \A x : x # b => wanted'[x] = wanted[x]
  BY <1>1, <1>4, <1>5 DEF AllocInv, WriteInv, BookInv, TypeOK
<1>10. WriteInv'
  BY <1>3, <1>4, <1>5, <1>9 DEF AllocInv, WriteInv
<1>11. TransferInv'
  <2>1. \A g \in GpuBlocks : d2h'[g] # None \/ g \in DeferredBlocks' => InStep(g)'
    BY <1>3, <1>4, <1>5 DEF AllocInv, TransferInv, DeferredBlocks
  <2>2. h2d'[c] = b /\ \A s \in Slots : s # c => h2d'[s] = h2d[s]
    BY <1>4, <1>6 DEF BookInv, TypeOK
  <2>3. \A s \in loadSlots' : h2d'[s] # None \/ s = claimed'
    BY <1>2, <1>3, <1>4, <2>2 DEF AllocInv, TransferInv, BookInv, TypeOK
  <2>4. ASSUME NEW s \in Slots, h2d'[s] # None
        PROVE  cached'[slotToHash'[s]] = h2d'[s] /\ InStep(h2d[s])'
    <3>1. CASE s = c
      <4>1. slotToHash[c] = h
        BY <1>3, <1>4, <1>5 DEF BookInv, IndexInv
      <4> QED BY <3>1, <4>1, <2>2, <1>3, <1>4, <1>5 DEF AllocInv, GpuTypeInv
    <3>2. CASE s # c
      <4>1. /\ h2d'[s] = h2d[s] /\ h2d[s] # None
            /\ cached[slotToHash[s]] = h2d[s] /\ InStep(h2d[s])
        BY <3>2, <2>2, <2>4, <1>3 DEF AllocInv, TransferInv
      <4>2. slotToHash[s] \in Hashes /\ slotToHash[s] # h
        BY <4>1, <1>5 DEF BookInv, TypeOK, StepInv, IndexInv
      <4>3. cached'[slotToHash[s]] = cached[slotToHash[s]]
        BY <4>2, <1>3 DEF AllocInv, GpuTypeInv
      <4> QED BY <4>1, <4>3, <1>4, <1>5
    <3> QED BY <3>1, <3>2
  <2> QED BY <2>1, <2>3, <2>4 DEF TransferInv
<1>12. Will(b)' = h /\ \A x : x # b => Will(x)' = Will(x)
  BY <1>3, <1>4, <1>5, <1>9 DEF Will
<1>13. WholeInv => WholeInv'
  BY <1>3, <1>5, <1>12
<1> QED BY <1>5, <1>7, <1>8, <1>10, <1>11, <1>13 DEF AllocInv

\* A miss: the block will be computed.
LEMMA AllocateMissInv ==
  ASSUME BookInv, AllocInv, NEW r \in Requests, AllocateMiss(r)
  PROVE  UNCHANGED vars /\ AllocInv' /\ (WholeInv => WholeInv')
<1> USE NoneAssumption
<1>0. PICK h : h = NextContent(r)
  OBVIOUS
<1>1. PICK b : b = taken
  OBVIOUS
<1>3. /\ phase = "open" /\ Allocating(r) /\ b # None /\ claimed = None
      /\ cached' = [cached EXCEPT ![h] = b]
      /\ toWrite' = [toWrite EXCEPT ![b] = h]
      /\ Placed(r)
      /\ UNCHANGED <<chunked, vars, refs, current, claimed, scheduled, due>>
  BY <1>0, <1>1 DEF AllocateMiss, Allocating
<1>4. UNCHANGED <<phase, slotToHash, loadSlots, h2d, d2h, deferred, gpuMem, wanted>>
  BY <1>3 DEF vars, indexVars, stepVars, workerVars
<1>14. /\ Allocating(r) /\ b # None /\ cached' = [cached EXCEPT ![h] = b] /\ Placed(r)
       /\ claimed' = None /\ UNCHANGED <<phase, refs, current, scheduled>>
  BY <1>3, <1>4
<1>5. /\ h \in Hashes /\ b \in GpuBlocks /\ cached[h] = None
      /\ table' \in Tables /\ full' \in [Requests -> Nat] /\ taken' = None
      /\ cached' \in [Hashes -> GpuBlocks \cup {None}]
      /\ RefsInv' /\ CachedInv' /\ TableInv' /\ CurrentInv' /\ ReserveInv'
      /\ \A x : InStep(x) => InStep(x)'
      /\ InStep(b)'
      /\ WholeInv /\ Will(b)' = h /\ (\A x : x # b => Will(x)' = Will(x))
           /\ (\A x \in GpuBlocks : toWrite'[x] # None => toWrite[x] # None \/ x = b)
           => WholeInv'
  <2>1. PlaceStep(r, h, b)
    BY <1>0, <1>1, <1>14 DEF PlaceStep
  <2>2. PlaceKept(h, b)
    BY <2>1, PlacedInv
  <2> QED BY ONLY <2>2 DEF PlaceKept
<1>6. toWrite'[b] = h /\ \A x : x # b => toWrite'[x] = toWrite[x]
  BY <1>3, <1>5 DEF AllocInv, GpuTypeInv
<1>7. refs[b] # 0
  BY <1>1, <1>5, UnreferencedFacts
<1>8. wanted[b] = None
  BY <1>1, <1>3, <1>5, RestoredIsCached DEF AllocInv, CachedInv
<1>9. GpuTypeInv'
  BY <1>3, <1>5 DEF AllocInv, GpuTypeInv, Tables
<1>10. WriteInv'
  BY <1>3, <1>4, <1>5, <1>6, <1>7, <1>8 DEF AllocInv, WriteInv
<1>11. TransferInv'
  <2>1. \A g \in GpuBlocks : d2h'[g] # None \/ g \in DeferredBlocks' => InStep(g)'
    BY <1>3, <1>4, <1>5 DEF AllocInv, TransferInv, DeferredBlocks
  <2>2. \A s \in loadSlots' : h2d'[s] # None \/ s = claimed'
    BY <1>3, <1>4 DEF AllocInv, TransferInv
  <2>3. ASSUME NEW s \in Slots, h2d[s] # None
        PROVE  cached'[slotToHash[s]] = h2d[s] /\ InStep(h2d[s])'
    <3>1. cached[slotToHash[s]] = h2d[s] /\ InStep(h2d[s])
      BY <2>3, <1>3 DEF AllocInv, TransferInv
    <3>2. slotToHash[s] \in Hashes /\ slotToHash[s] # h
      BY <2>3, <3>1, <1>5 DEF BookInv, TypeOK, StepInv, IndexInv
    <3>3. cached'[slotToHash[s]] = cached[slotToHash[s]]
      BY <3>2, <1>3 DEF AllocInv, GpuTypeInv
    <3>4. InStep(h2d[s])'
      BY <3>1, <1>4, <1>5
    <3> QED BY <3>1, <3>3, <3>4
  <2> QED BY <2>1, <2>2, <2>3, <1>4 DEF TransferInv
<1>12. Will(b)' = h /\ \A x : x # b => Will(x)' = Will(x)
  BY <1>4, <1>5, <1>6 DEF Will
<1>13. WholeInv => WholeInv'
  BY <1>5, <1>6, <1>12
<1> QED BY <1>3, <1>5, <1>9, <1>10, <1>11, <1>13 DEF AllocInv


\* The taken block becomes the tail of a request that decodes.
LEMMA EndGrowInv ==
  ASSUME BookInv, AllocInv, NEW r \in Requests, EndGrow(r)
  PROVE  UNCHANGED vars /\ AllocInv' /\ (WholeInv => WholeInv')
<1> USE NoneAssumption
<1>0. PICK b : b = taken
  OBVIOUS
<1>1. /\ current = <<"grow", r>> /\ b # None
      /\ table' = [table EXCEPT ![r] = Append(@, b)]
      /\ toWrite' = [toWrite EXCEPT ![b] = Partial]
      /\ taken' = None /\ current' = None /\ scheduled' = scheduled \cup {r}
      /\ UNCHANGED <<chunked, vars, cached, refs, full, claimed, due>>
  BY <1>0 DEF EndGrow
<1>2. UNCHANGED <<phase, slotToHash, loadSlots, h2d, d2h, deferred, gpuMem, wanted>>
  BY <1>1 DEF vars, indexVars, stepVars, workerVars
<1>3. /\ phase = "open" /\ claimed = None /\ b \in GpuBlocks
      /\ Len(table[r]) = full[r] /\ full[r] < Len(Blocks[r])
      /\ full[r] \in Nat /\ table \in Tables
  BY <1>0, <1>1, CurrentIsOne DEF AllocInv, CurrentInv, GpuTypeInv, Tables
<1>4. /\ \A x \in Hashes : cached[x] # b
      /\ \A q \in Requests : \A k \in DOMAIN table[q] : table[q][k] # b
  BY <1>0, <1>1 DEF AllocInv, CachedInv
<1>5. Appended(table, table', r, b)
  <2>1. /\ table' \in Tables /\ OthersKept(table, table', r)
        /\ table'[r] = Append(table[r], b)
    BY <1>1, <1>3 DEF Tables, OthersKept
  <2> QED BY <1>3, <2>1, AppendTable
<1>6. /\ table' \in Tables
      /\ \A q \in Requests : q # r => table'[q] = table[q]
      /\ Len(table'[r]) = Len(table[r]) + 1
      /\ \A q \in Requests : \A k \in DOMAIN table[q] :
           k \in DOMAIN table'[q] /\ table'[q][k] = table[q][k]
      /\ \A q \in Requests : \A k \in DOMAIN table'[q] :
           \/ k \in DOMAIN table[q] /\ table'[q][k] = table[q][k]
           \/ q = r /\ k = Len(table[r]) + 1 /\ table'[q][k] = b
      /\ Len(table[r]) + 1 \in DOMAIN table'[r] /\ table'[r][Len(table[r]) + 1] = b
      /\ \A g : Cardinality(HeldIn(table', g)) =
                  Cardinality(HeldIn(table, g)) + (IF g = b THEN 1 ELSE 0)
  BY <1>5 DEF Appended
<1>7. GpuTypeInv'
  BY <1>1, <1>3, <1>6, RequestAssumption DEF AllocInv, GpuTypeInv, Tables
<1>8. RefsInv'
  <2> SUFFICES ASSUME NEW g \in GpuBlocks
               PROVE  refs'[g] = Cardinality(HeldIn(table', g)) + Extra(g)'
    BY DEF RefsInv
  <2>1. Extra(g) = (IF g = b THEN 1 ELSE 0) /\ Extra(g)' = 0
    BY <1>0, <1>1 DEF Extra
  <2>2. refs'[g] = Cardinality(HeldIn(table, g)) + Extra(g)
    BY <1>1 DEF AllocInv, RefsInv
  <2>3. Cardinality(HeldIn(table, g)) \in Nat
    BY <1>3, HeldFinite
  <2> QED BY <1>6, <2>1, <2>2, <2>3
<1>9. CachedInv'
  BY <1>1 DEF AllocInv, CachedInv
<1>10. TableInv'
  <2> SUFFICES ASSUME NEW q \in Requests
               PROVE  /\ full[q] <= Len(Blocks[q])
                      /\ \/ Len(table'[q]) = full[q]
                         \/ /\ Len(table'[q]) = full[q] + 1
                            /\ full[q] < Len(Blocks[q])
                            /\ \A x \in Hashes : cached[x] # table'[q][full[q] + 1]
                            /\ \A p \in Requests : \A k \in DOMAIN table'[p] :
                                 table'[p][k] = table'[q][full[q] + 1] => p = q /\ k = full[q] + 1
    BY <1>1 DEF TableInv
  <2>1. CASE q = r
    <3>1. table'[q][full[q] + 1] = b /\ Len(table'[q]) = full[q] + 1
      BY <2>1, <1>3, <1>6
    <3>2. \A p \in Requests : \A k \in DOMAIN table'[p] :
            table'[p][k] = b => p = q /\ k = full[q] + 1
      BY <2>1, <1>3, <1>4, <1>6
    <3> QED BY <2>1, <3>1, <3>2, <1>3, <1>4, TableLengths
  <2>2. CASE q # r
    <3>1. table'[q] = table[q]
      BY <2>2, <1>6
    <3>2. /\ full[q] <= Len(Blocks[q])
          /\ \/ Len(table[q]) = full[q]
             \/ /\ Len(table[q]) = full[q] + 1
                /\ full[q] < Len(Blocks[q])
                /\ \A x \in Hashes : cached[x] # table[q][full[q] + 1]
                /\ \A p \in Requests : \A k \in DOMAIN table[p] :
                     table[p][k] = table[q][full[q] + 1] => p = q /\ k = full[q] + 1
      BY DEF AllocInv, TableInv
    <3>3. Len(table[q]) = full[q] + 1 => table[q][full[q] + 1] # b
      BY <1>4, TableLengths
    <3> QED BY <3>1, <3>2, <3>3, <1>6
  <2> QED BY <2>1, <2>2
<1>11. CurrentInv' /\ ReserveInv'
  BY <1>1, <1>3, CurrentIsOne DEF CurrentInv, ReserveInv
<1>12. toWrite'[b] = Partial /\ \A x : x # b => toWrite'[x] = toWrite[x]
  BY <1>1, <1>3 DEF AllocInv, GpuTypeInv
<1>13. refs[b] # 0 /\ wanted[b] = None
  BY <1>0, <1>3, <1>4, UnreferencedFacts, RestoredIsCached
<1>14. WriteInv'
  BY <1>1, <1>2, <1>3, <1>12, <1>13 DEF AllocInv, WriteInv
<1>15. InStep(b)'
  <2>1. \E k \in DOMAIN table'[r] : table'[r][k] = b
    BY <1>6
  <2>2. r \in scheduled'
    BY <1>1
  <2> QED BY <2>1, <2>2 DEF InStep
<1>16. ASSUME NEW x, InStep(x) PROVE InStep(x)'
  <2>1. CASE x = taken
    BY <2>1, <1>0, <1>15
  <2>2. CASE x # taken
    <3>1. PICK q \in Requests : /\ q \in scheduled \/ current = <<"admit", q>>
                                /\ \E k \in DOMAIN table[q] : table[q][k] = x
      BY <2>2, <1>16 DEF InStep
    <3>2. q \in scheduled'
      BY <3>1, <1>1, CurrentIsOne
    <3>3. \E k \in DOMAIN table'[q] : table'[q][k] = x
      BY <3>1, <1>6
    <3> QED BY <3>2, <3>3 DEF InStep
  <2> QED BY <2>1, <2>2
<1>17. TransferInv'
  BY <1>1, <1>2, <1>3, <1>16 DEF AllocInv, TransferInv, DeferredBlocks
<1>18. ASSUME WholeInv PROVE WholeInv'
  <2>1. \A x : x # b => Will(x)' = Will(x)
    BY <1>2, <1>12 DEF Will
  <2>2. \A x \in GpuBlocks : toWrite'[x] # None => InStep(x)'
    BY <1>3, <1>12, <1>15, <1>16, <1>18 DEF WholeInv
  <2>3. \A x \in Hashes : cached'[x] # None => Will(cached[x])' = x
    BY <1>1, <1>4, <1>18, <2>1 DEF WholeInv
  <2>4. ASSUME NEW q \in Requests, NEW k \in 1..full'[q]
        PROVE  Will(table[q][k])' = Blocks[q][k]
    <3>1. k \in 1..full[q] /\ k \in DOMAIN table[q]
      BY <1>1, TableLengths
    <3>2. table'[q][k] = table[q][k] /\ table[q][k] # b
      BY <3>1, <1>4, <1>6
    <3>3. Will(table[q][k]) = Blocks[q][k]
      BY <3>1, <1>18 DEF WholeInv
    <3> QED BY <3>2, <3>3, <2>1
  <2> QED BY <1>2, <1>3, <2>2, <2>3, <2>4 DEF WholeInv
<1> QED
  BY <1>1, <1>7, <1>8, <1>9, <1>10, <1>11, <1>14, <1>17, <1>18 DEF AllocInv

\* What a request that decodes a full tail has.
LEMMA TailFacts ==
  ASSUME BookInv, AllocInv, NEW r \in Requests, Promote(r)
  PROVE  /\ phase = "open" /\ current = None /\ taken = None /\ claimed = None
         /\ r \notin scheduled
         /\ full[r] \in Nat /\ full[r] < Len(Blocks[r]) /\ Len(table[r]) = full[r] + 1
         /\ full[r] + 1 \in DOMAIN table[r]
         /\ table[r][full[r] + 1] \in GpuBlocks
         /\ toWrite[table[r][full[r] + 1]] = None
         /\ refs[table[r][full[r] + 1]] # 0
         /\ \A x \in Hashes : cached[x] # table[r][full[r] + 1]
         /\ \A q \in Requests : \A k \in DOMAIN table[q] :
              table[q][k] = table[r][full[r] + 1] => q = r /\ k = full[r] + 1
         /\ NextContent(r) \in Hashes
<1>1. /\ Decodes(r) /\ Len(table[r]) = full[r] + 1
  BY DEF Promote
<1>2. /\ phase = "open" /\ current = None /\ taken = None /\ claimed = None
      /\ r \notin scheduled /\ Pending(r) = {}
  BY <1>1 DEF Decodes, AllocInv, CurrentInv
<1>3. full[r] \in Nat /\ full[r] + 1 \in DOMAIN table[r]
  BY <1>1, TableLengths
<1>4. /\ full[r] < Len(Blocks[r])
      /\ \A x \in Hashes : cached[x] # table[r][full[r] + 1]
      /\ \A q \in Requests : \A k \in DOMAIN table[q] :
           table[q][k] = table[r][full[r] + 1] => q = r /\ k = full[r] + 1
  BY <1>1, <1>3 DEF AllocInv, TableInv
<1>5. toWrite[table[r][full[r] + 1]] = None
  BY <1>2, <1>3 DEF Pending
<1> QED BY <1>1, <1>2, <1>3, <1>4, <1>5, EntryReferenced, NextContentType

\* A tail is promoted: its content becomes cached.
LEMMA PromoteNewInv ==
  ASSUME BookInv, AllocInv, NEW r \in Requests, Promote(r), cached[NextContent(r)] = None
  PROVE  UNCHANGED vars /\ AllocInv' /\ (WholeInv => WholeInv')
<1> USE NoneAssumption
<1>0. PICK h : h = NextContent(r)
  OBVIOUS
<1>1. PICK t : t = table[r][full[r] + 1]
  OBVIOUS
<1>2. /\ phase = "open" /\ current = None /\ taken = None /\ claimed = None
      /\ r \notin scheduled
      /\ full[r] \in Nat /\ full[r] < Len(Blocks[r]) /\ Len(table[r]) = full[r] + 1
      /\ full[r] + 1 \in DOMAIN table[r]
      /\ t \in GpuBlocks /\ toWrite[t] = None /\ refs[t] # 0
      /\ \A x \in Hashes : cached[x] # t
      /\ \A q \in Requests : \A k \in DOMAIN table[q] :
           table[q][k] = t => q = r /\ k = full[r] + 1
      /\ h \in Hashes /\ h = Blocks[r][full[r] + 1]
  BY <1>0, <1>1, TailFacts DEF NextContent
<1>3. /\ cached[h] = None
      /\ cached' = [cached EXCEPT ![h] = t]
      /\ toWrite' = [toWrite EXCEPT ![t] = h]
      /\ full' = [full EXCEPT ![r] = @ + 1]
      /\ scheduled' = scheduled \cup {r}
      /\ UNCHANGED <<chunked, refs, table, vars, current, claimed, taken, due>>
  BY <1>0, <1>1 DEF Promote
<1>4. UNCHANGED <<phase, slotToHash, loadSlots, h2d, d2h, deferred, gpuMem, wanted>>
  BY <1>3 DEF vars, indexVars, stepVars, workerVars
<1>5. /\ cached' \in [Hashes -> GpuBlocks \cup {None}] /\ cached'[h] = t
      /\ \A x \in Hashes : x # h => cached'[x] = cached[x]
  BY <1>2, <1>3 DEF AllocInv, GpuTypeInv
<1>6. toWrite'[t] = h /\ \A x : x # t => toWrite'[x] = toWrite[x]
  BY <1>2, <1>3 DEF AllocInv, GpuTypeInv
<1>7. full'[r] = full[r] + 1 /\ \A q \in Requests : q # r => full'[q] = full[q]
  BY <1>2, <1>3 DEF AllocInv, GpuTypeInv
<1>8. GpuTypeInv'
  BY <1>2, <1>3, <1>5 DEF AllocInv, GpuTypeInv
<1>9. RefsInv'
  BY <1>3 DEF AllocInv, RefsInv, Extra
<1>10. CachedInv'
  BY <1>2, <1>3, <1>5 DEF AllocInv, CachedInv
<1>11. TableInv'
  <2> SUFFICES ASSUME NEW q \in Requests
               PROVE  /\ full'[q] <= Len(Blocks[q])
                      /\ \/ Len(table[q]) = full'[q]
                         \/ /\ Len(table[q]) = full'[q] + 1
                            /\ full'[q] < Len(Blocks[q])
                            /\ \A x \in Hashes : cached'[x] # table[q][full'[q] + 1]
                            /\ \A p \in Requests : \A k \in DOMAIN table[p] :
                                 table[p][k] = table[q][full'[q] + 1] => p = q /\ k = full'[q] + 1
    BY <1>3 DEF TableInv
  <2>1. CASE q = r
    BY <2>1, <1>2, <1>7, TableLengths
  <2>2. CASE q # r
    <3>1. full'[q] = full[q]
      BY <2>2, <1>7
    <3>2. /\ full[q] <= Len(Blocks[q])
          /\ \/ Len(table[q]) = full[q]
             \/ /\ Len(table[q]) = full[q] + 1
                /\ full[q] < Len(Blocks[q])
                /\ \A x \in Hashes : cached[x] # table[q][full[q] + 1]
                /\ \A p \in Requests : \A k \in DOMAIN table[p] :
                     table[p][k] = table[q][full[q] + 1] => p = q /\ k = full[q] + 1
      BY DEF AllocInv, TableInv
    <3>3. Len(table[q]) = full[q] + 1 => table[q][full[q] + 1] # t
      BY <2>2, <1>2, TableLengths
    <3> QED BY <3>1, <3>2, <3>3, <1>5
  <2> QED BY <2>1, <2>2
<1>12. CurrentInv' /\ ReserveInv'
  BY <1>2, <1>3, CurrentIsOne DEF CurrentInv, ReserveInv
<1>13. wanted[t] = None
  BY <1>2, RestoredIsCached
<1>14. WriteInv'
  BY <1>2, <1>3, <1>4, <1>6, <1>13 DEF AllocInv, WriteInv
<1>15. InStep(t)'
  <2>1. \E k \in DOMAIN table'[r] : table'[r][k] = t
    BY <1>1, <1>2, <1>3
  <2>2. r \in scheduled'
    BY <1>3
  <2> QED BY <2>1, <2>2 DEF InStep
<1>16. \A x : InStep(x) => InStep(x)'
  BY <1>3 DEF InStep
<1>17. TransferInv'
  <2>1. \A g \in GpuBlocks : d2h'[g] # None \/ g \in DeferredBlocks' => InStep(g)'
    BY <1>2, <1>4, <1>16 DEF AllocInv, TransferInv, DeferredBlocks
  <2>2. \A s \in loadSlots' : h2d'[s] # None \/ s = claimed'
    BY <1>2, <1>3, <1>4 DEF AllocInv, TransferInv
  <2>3. ASSUME NEW s \in Slots, h2d[s] # None
        PROVE  cached'[slotToHash[s]] = h2d[s] /\ InStep(h2d[s])'
    <3>1. cached[slotToHash[s]] = h2d[s] /\ InStep(h2d[s])
      BY <2>3, <1>2 DEF AllocInv, TransferInv
    <3>2. slotToHash[s] \in Hashes /\ slotToHash[s] # h
      BY <2>3, <3>1, <1>3 DEF BookInv, TypeOK, StepInv, IndexInv
    <3>3. cached'[slotToHash[s]] = cached[slotToHash[s]]
      BY <3>2, <1>5
    <3>4. InStep(h2d[s])'
      BY <3>1, <1>4, <1>16
    <3> QED BY <3>1, <3>3, <3>4
  <2> QED BY <2>1, <2>2, <2>3, <1>4 DEF TransferInv
<1>18. ASSUME WholeInv PROVE WholeInv'
  <2>1. Will(t)' = h /\ \A x : x # t => Will(x)' = Will(x)
    BY <1>2, <1>4, <1>6 DEF Will
  <2>2. \A x \in GpuBlocks : toWrite'[x] # None => InStep(x)'
    BY <1>2, <1>6, <1>15, <1>16, <1>18 DEF WholeInv
  <2>3. ASSUME NEW x \in Hashes, cached'[x] # None PROVE Will(cached[x])' = x
    <3>1. CASE x = h
      BY <3>1, <1>5, <2>1
    <3>2. CASE x # h
      <4>1. cached'[x] = cached[x] /\ cached[x] # t /\ Will(cached[x]) = x
        BY <3>2, <2>3, <1>2, <1>5, <1>18 DEF WholeInv
      <4> QED BY <4>1, <2>1
    <3> QED BY <3>1, <3>2
  <2>4. ASSUME NEW q \in Requests, NEW k \in 1..full'[q]
        PROVE  Will(table[q][k])' = Blocks[q][k]
    <3>1. CASE q = r /\ k = full[r] + 1
      BY <3>1, <1>1, <1>2, <1>3, <2>1
    <3>2. CASE ~(q = r /\ k = full[r] + 1)
      <4>1. k \in 1..full[q] /\ k \in DOMAIN table[q]
        BY <3>2, <1>7, <1>2, TableLengths
      <4>2. table'[q][k] = table[q][k] /\ table[q][k] # t
        BY <4>1, <3>2, <1>2, <1>3
      <4>3. Will(table[q][k]) = Blocks[q][k]
        BY <4>1, <1>18 DEF WholeInv
      <4> QED BY <4>2, <4>3, <2>1
    <3> QED BY <3>1, <3>2
  <2> QED BY <1>2, <1>4, <2>2, <2>3, <2>4 DEF WholeInv
<1> QED
  BY <1>3, <1>8, <1>9, <1>10, <1>11, <1>12, <1>14, <1>17, <1>18 DEF AllocInv


\* A tail is promoted whose content is cached: the request takes over the
\* cached block and gives its own back.
LEMMA PromoteSharedInv ==
  ASSUME BookInv, AllocInv, NEW r \in Requests, Promote(r), cached[NextContent(r)] # None
  PROVE  UNCHANGED vars /\ AllocInv' /\ (WholeInv => WholeInv')
<1> USE NoneAssumption
<1>0. PICK h : h = NextContent(r)
  OBVIOUS
<1>1. PICK t : t = table[r][full[r] + 1]
  OBVIOUS
<1>2. PICK c : c = cached[h]
  OBVIOUS
<1>3. PICK n : n = full[r] + 1
  OBVIOUS
<1>4. /\ phase = "open" /\ current = None /\ taken = None /\ claimed = None
      /\ r \notin scheduled
      /\ full[r] \in Nat /\ full[r] < Len(Blocks[r]) /\ Len(table[r]) = n
      /\ n \in DOMAIN table[r] /\ table[r][n] = t
      /\ t \in GpuBlocks /\ toWrite[t] = None /\ refs[t] # 0
      /\ \A x \in Hashes : cached[x] # t
      /\ \A q \in Requests : \A k \in DOMAIN table[q] :
           table[q][k] = t => q = r /\ k = n
      /\ h \in Hashes /\ h = Blocks[r][n]
  BY <1>0, <1>1, <1>3, TailFacts DEF NextContent
<1>5. /\ c # None
      /\ refs' = [refs EXCEPT ![t] = @ - 1, ![c] = @ + 1]
      /\ table' = [table EXCEPT ![r][n] = c]
      /\ full' = [full EXCEPT ![r] = @ + 1]
      /\ scheduled' = scheduled \cup {r}
      /\ UNCHANGED <<chunked, cached, toWrite, vars, current, claimed, taken, due>>
  BY <1>0, <1>1, <1>2, <1>3 DEF Promote
<1>6. UNCHANGED <<phase, slotToHash, loadSlots, h2d, d2h, deferred, gpuMem, wanted>>
  BY <1>5 DEF vars, indexVars, stepVars, workerVars
<1>7. c \in GpuBlocks /\ c # t /\ cached[h] = c
  BY <1>2, <1>4, <1>5 DEF AllocInv, GpuTypeInv
<1>8. full'[r] = n /\ \A q \in Requests : q # r => full'[q] = full[q]
  BY <1>3, <1>4, <1>5 DEF AllocInv, GpuTypeInv
<1>9. table \in Tables /\ table[r] \in Seq(GpuBlocks)
  BY DEF AllocInv, GpuTypeInv, Tables
<1>10. /\ table' \in Tables /\ OthersKept(table, table', r)
       /\ table'[r] = [table[r] EXCEPT ![n] = c]
  <2>1. [table[r] EXCEPT ![n] = c] \in Seq(GpuBlocks)
    BY <1>4, <1>7, <1>9
  <2>2. table' = [table EXCEPT ![r] = [table[r] EXCEPT ![n] = c]]
    BY <1>5, <1>9 DEF Tables
  <2> QED BY <2>1, <2>2, <1>9 DEF Tables, OthersKept
<1>11. /\ DOMAIN table'[r] = DOMAIN table[r] /\ Len(table'[r]) = n
       /\ table'[r][n] = c /\ \A k \in DOMAIN table[r] : k # n => table'[r][k] = table[r][k]
       /\ \A q \in Requests : q # r => table'[q] = table[q]
  <2>1. /\ DOMAIN table'[r] = DOMAIN table[r]
        /\ table'[r][n] = c /\ \A k \in DOMAIN table[r] : k # n => table'[r][k] = table[r][k]
    BY <1>4, <1>9, <1>10
  <2>2. Len(table'[r]) = n
    <3>1. /\ DOMAIN table'[r] = 1 .. Len(table'[r]) /\ Len(table'[r]) \in Nat
          /\ DOMAIN table[r] = 1 .. Len(table[r]) /\ Len(table[r]) \in Nat
      BY <1>9, <1>10 DEF Tables
    <3> QED BY <3>1, <2>1, <1>4
  <2> QED BY <2>1, <2>2, <1>10 DEF OthersKept
<1>12. /\ refs'[t] = refs[t] - 1 /\ refs'[c] = refs[c] + 1
       /\ \A g \in GpuBlocks : g # t /\ g # c => refs'[g] = refs[g]
       /\ refs' \in [GpuBlocks -> Nat]
  <2>1. refs \in [GpuBlocks -> Nat]
    BY DEF AllocInv, GpuTypeInv
  <2>2. refs[t] - 1 \in Nat /\ refs[c] + 1 \in Nat
    BY <2>1, <1>4, <1>7
  <2> QED BY <2>1, <2>2, <1>4, <1>5, <1>7
<1>13. GpuTypeInv'
  <2>1. full' \in [Requests -> Nat]
    BY <1>5 DEF AllocInv, GpuTypeInv
  <2>2. scheduled' \in SUBSET Requests
    BY <1>5 DEF AllocInv, GpuTypeInv
  <2> QED BY <2>1, <2>2, <1>5, <1>10, <1>12 DEF AllocInv, GpuTypeInv, Tables
<1>14. RefsInv'
  <2> SUFFICES ASSUME NEW g \in GpuBlocks
               PROVE  refs'[g] = Cardinality(HeldIn(table', g)) + Extra(g)'
    BY DEF RefsInv
  <2>1. Extra(g) = 0 /\ Extra(g)' = 0
    BY <1>4, <1>5 DEF Extra
  <2>2. refs[g] = Cardinality(HeldIn(table, g)) + Extra(g) /\ refs[g] \in Nat
    BY DEF AllocInv, RefsInv, GpuTypeInv
  <2>3. Cardinality(HeldIn(table', g)) + Cardinality(Occurrences(table[r], g)) =
          Cardinality(HeldIn(table, g)) + Cardinality(Occurrences(table'[r], g))
    BY <1>9, <1>10, HeldRow
  <2>4. Cardinality(Occurrences(table'[r], g)) + (IF g = t THEN 1 ELSE 0) =
          Cardinality(Occurrences(table[r], g)) + (IF g = c THEN 1 ELSE 0)
    BY <1>4, <1>7, <1>9, <1>10, OccurrencesReplace
  <2>5. /\ Cardinality(HeldIn(table', g)) \in Nat /\ Cardinality(HeldIn(table, g)) \in Nat
    BY <1>9, <1>10, HeldFinite
  <2>6. /\ Cardinality(Occurrences(table[r], g)) \in Nat
        /\ Cardinality(Occurrences(table'[r], g)) \in Nat
    BY <1>9, <1>10, OccurrencesFinite DEF Tables
  <2>7. refs'[g] = IF g = t THEN refs[g] - 1 ELSE IF g = c THEN refs[g] + 1 ELSE refs[g]
    BY <1>12
  <2> QED BY <2>1, <2>2, <2>3, <2>4, <2>5, <2>6, <2>7, <1>7
<1>15. CachedInv'
  BY <1>4, <1>5 DEF AllocInv, CachedInv
<1>16. ASSUME NEW q \in Requests, NEW k \in DOMAIN table'[q]
       PROVE  /\ k \in DOMAIN table[q]
              /\ table'[q][k] = c \/ table'[q][k] = table[q][k]
  BY <1>11
<1>17. TableInv'
  <2> SUFFICES ASSUME NEW q \in Requests
               PROVE  /\ full'[q] <= Len(Blocks[q])
                      /\ \/ Len(table'[q]) = full'[q]
                         \/ /\ Len(table'[q]) = full'[q] + 1
                            /\ full'[q] < Len(Blocks[q])
                            /\ \A x \in Hashes : cached[x] # table'[q][full'[q] + 1]
                            /\ \A p \in Requests : \A k \in DOMAIN table'[p] :
                                 table'[p][k] = table'[q][full'[q] + 1] => p = q /\ k = full'[q] + 1
    BY <1>5 DEF TableInv
  <2>1. CASE q = r
    BY <2>1, <1>3, <1>4, <1>8, <1>11, TableLengths
  <2>2. CASE q # r
    <3>1. full'[q] = full[q] /\ table'[q] = table[q]
      BY <2>2, <1>8, <1>11
    <3>2. /\ full[q] <= Len(Blocks[q])
          /\ \/ Len(table[q]) = full[q]
             \/ /\ Len(table[q]) = full[q] + 1
                /\ full[q] < Len(Blocks[q])
                /\ \A x \in Hashes : cached[x] # table[q][full[q] + 1]
                /\ \A p \in Requests : \A k \in DOMAIN table[p] :
                     table[p][k] = table[q][full[q] + 1] => p = q /\ k = full[q] + 1
      BY DEF AllocInv, TableInv
    <3> QED BY <3>1, <3>2, <1>4, <1>7, <1>16
  <2> QED BY <2>1, <2>2
<1>18. CurrentInv' /\ ReserveInv'
  BY <1>4, <1>5, CurrentIsOne DEF CurrentInv, ReserveInv
<1>19. WriteInv'
  <2>3. refs'[c] # 0
    <3>1. refs[c] \in Nat
      BY <1>7 DEF AllocInv, GpuTypeInv
    <3> QED BY <3>1, <1>12
  <2>1. ASSUME NEW g \in GpuBlocks, refs'[g] = 0 PROVE toWrite[g] = None
    <3>1. g = t \/ refs[g] = 0
      BY <2>1, <2>3, <1>12
    <3> QED BY <3>1, <1>4 DEF AllocInv, WriteInv
  <2> QED BY <2>1, <1>4, <1>5, <1>6 DEF AllocInv, WriteInv
<1>20. ASSUME NEW x, InStep(x) PROVE InStep(x)'
  <2>1. CASE x = taken
    BY <2>1, <1>5 DEF InStep
  <2>2. CASE x # taken
    <3>1. PICK q \in Requests : q \in scheduled /\ \E k \in DOMAIN table[q] : table[q][k] = x
      BY <2>2, <1>4, <1>20, CurrentIsOne DEF InStep
    <3>2. q \in scheduled' /\ table'[q] = table[q]
      BY <3>1, <1>4, <1>5, <1>11
    <3> QED BY <3>1, <3>2 DEF InStep
  <2> QED BY <2>1, <2>2
<1>21. TransferInv'
  BY <1>4, <1>5, <1>6, <1>20 DEF AllocInv, TransferInv, DeferredBlocks
<1>22. ASSUME WholeInv PROVE WholeInv'
  <2>1. \A x : Will(x)' = Will(x)
    BY <1>5, <1>6 DEF Will
  <2>2. \A x \in GpuBlocks : toWrite'[x] # None => InStep(x)'
    BY <1>4, <1>5, <1>20, <1>22 DEF WholeInv
  <2>3. \A x \in Hashes : cached'[x] # None => Will(cached[x])' = x
    BY <1>5, <1>22, <2>1 DEF WholeInv
  <2>4. ASSUME NEW q \in Requests, NEW k \in 1..full'[q]
        PROVE  Will(table[q][k])' = Blocks[q][k]
    <3>1. CASE q = r /\ k = n
      <4>1. Will(c)' = h
        BY <1>4, <1>5, <1>7, <2>3
      <4> QED BY <4>1, <3>1, <1>4, <1>11
    <3>2. CASE ~(q = r /\ k = n)
      <4>1. k \in 1..full[q] /\ k \in DOMAIN table[q]
        BY <3>2, <1>3, <1>8, <1>4, TableLengths
      <4>2. table'[q][k] = table[q][k]
        BY <4>1, <3>2, <1>11
      <4>3. Will(table[q][k]) = Blocks[q][k]
        BY <4>1, <1>22 DEF WholeInv
      <4> QED BY <4>2, <4>3, <2>1
    <3> QED BY <3>1, <3>2
  <2> QED BY <1>4, <1>6, <2>2, <2>3, <2>4 DEF WholeInv
<1> QED
  BY <1>5, <1>13, <1>14, <1>15, <1>17, <1>18, <1>19, <1>21, <1>22 DEF AllocInv

\* A request gives its blocks back.
LEMMA FreeInv ==
  ASSUME BookInv, AllocInv, NEW r \in Requests, Free(r)
  PROVE  UNCHANGED vars /\ AllocInv' /\ (WholeInv => WholeInv')
<1> USE NoneAssumption
<1>1. /\ MayFree(r)
      /\ refs' = [g \in GpuBlocks |-> refs[g] - Cardinality(Occurrences(table[r], g))]
      /\ toWrite' = [g \in GpuBlocks |-> IF refs'[g] = 0 THEN None ELSE toWrite[g]]
      /\ table' = [table EXCEPT ![r] = << >>]
      /\ full' = [full EXCEPT ![r] = 0]
      /\ UNCHANGED <<chunked, vars, cached, current, claimed, taken, scheduled, due>>
  BY DEF Free, Occurrences
<1>2. UNCHANGED <<phase, slotToHash, loadSlots, h2d, d2h, deferred, gpuMem, wanted>>
  BY <1>1 DEF vars, indexVars, stepVars, workerVars
<1>3. /\ current = None /\ taken = None /\ claimed = None /\ due = {}
      /\ phase = "done" \/ (phase = "open" /\ r \notin scheduled)
  BY <1>1 DEF MayFree, AllocInv, CurrentInv, WriteInv
<1>4. /\ table \in Tables /\ table[r] \in Seq(GpuBlocks) /\ refs \in [GpuBlocks -> Nat]
      /\ full \in [Requests -> Nat] /\ toWrite \in [GpuBlocks -> Hashes \cup {None}]
  BY DEF AllocInv, GpuTypeInv, Tables
<1>5. /\ table' \in Tables /\ table'[r] = << >> /\ OthersKept(table, table', r)
  BY <1>1, <1>4 DEF Tables, OthersKept
<1>6. /\ full' \in [Requests -> Nat] /\ full'[r] = 0
      /\ \A q \in Requests : q # r => full'[q] = full[q] /\ table'[q] = table[q]
  BY <1>1, <1>4, <1>5 DEF OthersKept
<1>7. ASSUME NEW g \in GpuBlocks
      PROVE  /\ refs'[g] = Cardinality(HeldIn(table', g))
             /\ refs'[g] \in Nat /\ refs'[g] <= refs[g]
  <2>1. Cardinality(HeldIn(table', g)) + Cardinality(Occurrences(table[r], g)) =
          Cardinality(HeldIn(table, g)) + Cardinality(Occurrences(table'[r], g))
    BY <1>4, <1>5, HeldRow
  <2>2. Cardinality(Occurrences(table'[r], g)) = 0
    <3>1. Occurrences(table'[r], g) = {}
      BY <1>5 DEF Occurrences
    <3> QED BY <3>1, FS_EmptySet
  <2>3. refs[g] = Cardinality(HeldIn(table, g)) + Extra(g) /\ Extra(g) = 0
    BY <1>3 DEF AllocInv, RefsInv, Extra
  <2>4. /\ Cardinality(HeldIn(table', g)) \in Nat /\ Cardinality(HeldIn(table, g)) \in Nat
    BY <1>4, <1>5, HeldFinite
  <2>5. Cardinality(Occurrences(table[r], g)) \in Nat
    BY <1>4, OccurrencesFinite
  <2>6. refs'[g] = refs[g] - Cardinality(Occurrences(table[r], g))
    BY <1>1
  <2> QED BY <2>1, <2>2, <2>3, <2>4, <2>5, <2>6
<1>8. GpuTypeInv'
  <2>1. refs' \in [GpuBlocks -> Nat]
    BY <1>1, <1>7
  <2>2. toWrite' \in [GpuBlocks -> Hashes \cup {None}]
    BY <1>1, <1>4
  <2> QED BY <2>1, <2>2, <1>1, <1>5, <1>6 DEF AllocInv, GpuTypeInv, Tables
<1>9. RefsInv'
  <2>1. \A g \in GpuBlocks : Extra(g)' = 0
    BY <1>1, <1>3 DEF Extra
  <2>2. \A g \in GpuBlocks : refs'[g] = Cardinality(HeldIn(table', g)) + 0
    BY <1>7
  <2> QED BY <2>1, <2>2 DEF RefsInv
<1>10. CachedInv'
  BY <1>1, <1>3 DEF AllocInv, CachedInv
<1>11. TableInv'
  <2> SUFFICES ASSUME NEW q \in Requests
               PROVE  /\ full'[q] <= Len(Blocks[q])
                      /\ \/ Len(table'[q]) = full'[q]
                         \/ /\ Len(table'[q]) = full'[q] + 1
                            /\ full'[q] < Len(Blocks[q])
                            /\ \A x \in Hashes : cached[x] # table'[q][full'[q] + 1]
                            /\ \A p \in Requests : \A k \in DOMAIN table'[p] :
                                 table'[p][k] = table'[q][full'[q] + 1] => p = q /\ k = full'[q] + 1
    BY <1>1 DEF TableInv
  <2>1. CASE q = r
    BY <2>1, <1>5, <1>6, TableLengths
  <2>2. CASE q # r
    <3>1. full'[q] = full[q] /\ table'[q] = table[q]
      BY <2>2, <1>6
    <3>2. /\ full[q] <= Len(Blocks[q])
          /\ \/ Len(table[q]) = full[q]
             \/ /\ Len(table[q]) = full[q] + 1
                /\ full[q] < Len(Blocks[q])
                /\ \A x \in Hashes : cached[x] # table[q][full[q] + 1]
                /\ \A p \in Requests : \A k \in DOMAIN table[p] :
                     table[p][k] = table[q][full[q] + 1] => p = q /\ k = full[q] + 1
      BY DEF AllocInv, TableInv
    <3>3. \A p \in Requests : \A k \in DOMAIN table'[p] :
            k \in DOMAIN table[p] /\ table'[p][k] = table[p][k]
      BY <1>5, <1>6
    <3> QED BY <3>1, <3>2, <3>3
  <2> QED BY <2>1, <2>2
<1>12. CurrentInv' /\ ReserveInv'
  BY <1>1, <1>2, <1>3, CurrentIsOne DEF CurrentInv, ReserveInv
<1>13. \A g \in GpuBlocks : toWrite'[g] = IF refs'[g] = 0 THEN None ELSE toWrite[g]
  BY <1>1
<1>14. WriteInv'
  BY <1>1, <1>2, <1>3, <1>13 DEF AllocInv, WriteInv
<1>15. ASSUME phase = "open", NEW x \in GpuBlocks, InStep(x)
       PROVE  InStep(x)' /\ \E q \in Requests : \E k \in DOMAIN table'[q] : table'[q][k] = x
  <2>1. PICK q \in Requests : q \in scheduled /\ \E k \in DOMAIN table[q] : table[q][k] = x
    BY <1>3, <1>15, CurrentIsOne DEF InStep
  <2>2. q \in scheduled' /\ table'[q] = table[q]
    BY <2>1, <1>1, <1>3, <1>6, <1>15
  <2> QED BY <2>1, <2>2 DEF InStep
<1>16. TransferInv'
  <2>1. \A s \in Slots : h2d[s] # None => h2d[s] \in GpuBlocks
    BY DEF BookInv, TypeOK
  <2> QED BY <2>1, <1>1, <1>2, <1>15 DEF AllocInv, TransferInv, DeferredBlocks
<1>17. ASSUME WholeInv PROVE WholeInv'
  <2>1. ASSUME NEW x \in GpuBlocks, toWrite[x] # None
        PROVE  phase = "open" /\ InStep(x) /\ refs'[x] # 0
    <3>1. phase = "open" /\ InStep(x)
      BY <2>1, <1>3, <1>17 DEF WholeInv
    <3>2. \E q \in Requests : \E k \in DOMAIN table'[q] : table'[q][k] = x
      BY <3>1, <1>15
    <3>3. Cardinality(HeldIn(table', x)) # 0
      BY <3>2, <1>5, HeldNone
    <3> QED BY <3>1, <3>3, <1>7
  <2>2. \A x \in GpuBlocks : toWrite'[x] = toWrite[x]
    BY <2>1, <1>13
  <2>3. \A x \in GpuBlocks : Will(x)' = Will(x)
    BY <2>2, <1>2 DEF Will
  <2>4. \A x \in GpuBlocks : toWrite'[x] # None => phase' = "open" /\ InStep(x)'
    BY <2>1, <2>2, <1>2, <1>15
  <2>5. ASSUME NEW x \in Hashes, cached'[x] # None PROVE Will(cached[x])' = x
    <3>1. cached'[x] = cached[x] /\ cached[x] \in GpuBlocks /\ Will(cached[x]) = x
      BY <2>5, <1>1, <1>17 DEF WholeInv, AllocInv, GpuTypeInv
    <3> QED BY <3>1, <2>3
  <2>6. ASSUME NEW q \in Requests, NEW k \in 1..full'[q]
        PROVE  Will(table[q][k])' = Blocks[q][k]
    <3>1. q # r
      BY <1>6
    <3>2. k \in 1..full[q] /\ k \in DOMAIN table[q] /\ table'[q] = table[q]
      BY <3>1, <1>6, TableLengths
    <3>3. Will(table[q][k]) = Blocks[q][k] /\ table[q][k] \in GpuBlocks
      BY <3>2, <1>17, EntryReferenced DEF WholeInv
    <3> QED BY <3>2, <3>3, <2>3
  <2> QED BY <2>4, <2>5, <2>6 DEF WholeInv
<1> QED
  BY <1>1, <1>8, <1>9, <1>10, <1>11, <1>12, <1>14, <1>16, <1>17 DEF AllocInv


\* Every step of the requests, the allocator and the tier preserves the
\* inductive invariant and is a step of the tier with some client; if prefills
\* are whole, with the client that the tier's specification assumes.
LEMMA OffloadStep ==
  ASSUME OffloadIInv, [OffloadNext]_allVars
  PROVE  /\ [AnyClientNext]_vars
         /\ ~chunked => [Next]_vars
         /\ AllocInv'
         /\ ~chunked /\ ContentInv /\ WholeInv => WholeInv'
         /\ chunked' = chunked
<1> USE DEF OffloadIInv
<1>1. CASE OpenStep
  BY <1>1, OpenStepInv DEF AnyClientNext, OpenStep
<1>2. ASSUME NEW r \in Requests, Admit(r)
      PROVE  UNCHANGED vars /\ AllocInv' /\ (WholeInv => WholeInv') /\ chunked' = chunked
  BY <1>2, AdmitInv DEF Admit
<1>3. ASSUME NEW r \in Requests, AllocateHit(r)
      PROVE  UNCHANGED vars /\ AllocInv' /\ (WholeInv => WholeInv') /\ chunked' = chunked
  BY <1>3, AllocateHitInv DEF AllocateHit
<1>4. ASSUME NEW r \in Requests, Claim(r)
      PROVE  Next /\ AllocInv' /\ (WholeInv => WholeInv') /\ chunked' = chunked
  BY <1>4, ClaimInv DEF Claim
<1>5. ASSUME NEW r \in Requests, TakeFree(r)
      PROVE  UNCHANGED vars /\ AllocInv' /\ (WholeInv => WholeInv') /\ chunked' = chunked
  BY <1>5, TakeFreeInv DEF TakeFree
<1>6. ASSUME NEW r \in Requests, TakeEvicted(r)
      PROVE  /\ AnyClientNext /\ AllocInv' /\ (WholeInv => Next /\ WholeInv')
             /\ chunked' = chunked
  BY <1>6, TakeEvictedInv DEF TakeEvicted
<1>7. ASSUME NEW r \in Requests, Restore(r)
      PROVE  Next /\ AllocInv' /\ (WholeInv => WholeInv') /\ chunked' = chunked
  BY <1>7, RestoreInv DEF Restore
<1>8. ASSUME NEW r \in Requests, AllocateMiss(r)
      PROVE  UNCHANGED vars /\ AllocInv' /\ (WholeInv => WholeInv') /\ chunked' = chunked
  BY <1>8, AllocateMissInv DEF AllocateMiss
<1>9. ASSUME NEW r \in Requests, EndAdmit(r)
      PROVE  UNCHANGED vars /\ AllocInv' /\ (WholeInv => WholeInv') /\ chunked' = chunked
  BY <1>9, EndAdmitInv DEF EndAdmit
<1>10. ASSUME NEW r \in Requests, ContinuePrefill(r)
       PROVE  UNCHANGED vars /\ AllocInv' /\ (WholeInv => WholeInv') /\ chunked' = chunked
  BY <1>10, ContinuePrefillInv DEF ContinuePrefill
<1>11. ASSUME NEW r \in Requests, Grow(r)
       PROVE  UNCHANGED vars /\ AllocInv' /\ (WholeInv => WholeInv') /\ chunked' = chunked
  BY <1>11, GrowInv DEF Grow
<1>12. ASSUME NEW r \in Requests, EndGrow(r)
       PROVE  UNCHANGED vars /\ AllocInv' /\ (WholeInv => WholeInv') /\ chunked' = chunked
  BY <1>12, EndGrowInv DEF EndGrow
<1>13. ASSUME NEW r \in Requests, Promote(r)
       PROVE  UNCHANGED vars /\ AllocInv' /\ (WholeInv => WholeInv') /\ chunked' = chunked
  BY <1>13, PromoteNewInv, PromoteSharedInv DEF Promote
<1>14. ASSUME NEW r \in Requests, Free(r)
       PROVE  UNCHANGED vars /\ AllocInv' /\ (WholeInv => WholeInv') /\ chunked' = chunked
  BY <1>14, FreeInv DEF Free
<1>15. CASE Drain
  BY <1>15, DrainInv DEF AnyClientNext, Drain
<1>16. CASE SkipDeferred \/ ResolveDeferred \/ HandOver
  <2>1. Next /\ AllocInv' /\ (WholeInv => WholeInv')
    BY <1>16, DrainLoopInv
  <2>2. chunked' = chunked
    BY <1>16 DEF SkipDeferred, ResolveDeferred, HandOver, gpuVars
  <2> QED BY <2>1, <2>2 DEF AnyClientNext
<1>17. CASE Transfer
  <2>1. Next /\ AllocInv' /\ (WholeInv => WholeInv')
    BY <1>17, TransferStepInv
  <2>2. chunked' = chunked
    BY <1>17 DEF Transfer, gpuVars
  <2> QED BY <2>1, <2>2 DEF AnyClientNext
<1>18. ASSUME NEW g \in GpuBlocks, Forward(g)
       PROVE  Next /\ AllocInv' /\ (WholeInv => WholeInv') /\ chunked' = chunked
  BY <1>18, ForwardInv DEF Forward
<1>19. CASE UNCHANGED allVars
  <2>1. UNCHANGED vars /\ UNCHANGED gpuVars
    BY <1>19 DEF allVars
  <2>2. AllocInv' /\ (WholeInv => WholeInv') /\ chunked' = chunked
    BY <2>1 DEF vars, indexVars, stepVars, workerVars, gpuVars, AllocInv, GpuTypeInv, RefsInv,
       Extra, CachedInv, TableInv, CurrentInv, NextContent, ReserveInv, Unreferenced, WriteInv,
       TransferInv, InStep, DeferredBlocks, WholeInv, Will
  <2> QED BY <2>1, <2>2
<1>20. CASE \E r \in Requests :
        \/ Admit(r) \/ AllocateHit(r) \/ Claim(r) \/ TakeFree(r) \/ TakeEvicted(r)
        \/ Restore(r) \/ AllocateMiss(r) \/ EndAdmit(r)
        \/ ContinuePrefill(r) \/ Grow(r) \/ EndGrow(r) \/ Promote(r) \/ Free(r)
  BY <1>20, <1>2, <1>3, <1>4, <1>5, <1>6, <1>7, <1>8, <1>9, <1>10, <1>11, <1>12, <1>13,
     <1>14 DEF AnyClientNext
<1>21. CASE \E g \in GpuBlocks : Forward(g)
  BY <1>21, <1>18 DEF AnyClientNext
<1> QED BY <1>1, <1>15, <1>16, <1>17, <1>19, <1>20, <1>21 DEF OffloadNext

LEMMA OffloadNextInv == OffloadIInv /\ [OffloadNext]_allVars => OffloadIInv'
<1> SUFFICES ASSUME OffloadIInv, [OffloadNext]_allVars
             PROVE  OffloadIInv'
  OBVIOUS
<1>1. /\ [AnyClientNext]_vars
      /\ ~chunked => [Next]_vars
      /\ AllocInv'
      /\ ~chunked /\ ContentInv /\ WholeInv => WholeInv'
      /\ chunked' = chunked
  BY OffloadStep
<1>2. BookInv' /\ (ContentInv /\ [Next]_vars => ContentInv')
  BY <1>1, NextBookInv DEF OffloadIInv
<1> QED BY <1>1, <1>2 DEF OffloadIInv

\* The composition's inductive invariant holds in every reachable state.
THEOREM OffloadInvariance == OffloadSpec => []OffloadIInv
  BY OffloadInitInv, OffloadNextInv, PTL DEF OffloadSpec

\* The prefix-caching allocator, whatever its requests do, is the client that
\* the CPU tier's specification assumes, if prefills are whole: so all that is
\* proved of the tier holds with this allocator.
THEOREM AllocatorKeepsContract == OffloadSpec => TierContract
<1>1. OffloadInit => Init
  BY DEF OffloadInit
<1>2. OffloadIInv /\ [OffloadNext]_allVars => [~chunked => Next]_vars
  BY OffloadStep
<1> QED BY <1>1, <1>2, OffloadInvariance, PTL DEF OffloadSpec, TierContract

\* The tier's index and its transfer maps stay consistent also when a prefill
\* takes several steps and the contract is broken: only the contents go wrong.
THEOREM TierConsistentAnyway == OffloadSpec => [](IndexConsistent /\ TransfersDisjoint)
<1>1. OffloadIInv => IndexConsistent /\ TransfersDisjoint
  BY BookImplies DEF OffloadIInv
<1> QED BY <1>1, OffloadInvariance, PTL

\* In particular a slot that the step uses keeps its content.
THEOREM PinnedSlotsKeptAnyway == OffloadSpec => PinnedSlotsKeepContent
<1>1. OffloadIInv /\ [OffloadNext]_allVars =>
        [\A s \in slotsInUse : slotToHash'[s] = slotToHash[s]]_vars
  BY OffloadStep, PinnedSlotsStep DEF OffloadIInv
<1> QED BY <1>1, OffloadInvariance, PTL DEF OffloadSpec, PinnedSlotsKeepContent

\* The allocation under way is made while the step is being scheduled.
LEMMA NeedsBlockOpen ==
  ASSUME AllocInv, NEW r \in Requests, NeedsBlock(r)
  PROVE  phase = "open" /\ Cardinality(Unreferenced) > 0
<1>1. phase = "open"
  BY CurrentIsOne DEF NeedsBlock, Allocating, AllocInv, CurrentInv
<1>2. Cardinality(Unreferenced) \in Nat
  <2>1. Unreferenced \in SUBSET GpuBlocks
    BY DEF Unreferenced
  <2> HIDE DEF Unreferenced
  <2> QED BY <2>1, UnreferencedBound
<1>3. CASE Allocating(r)
  <2>1. full[r] < PromptLen[r] /\ current = <<"admit", r>> /\ taken = None
    BY <1>3 DEF Allocating, NeedsBlock
  <2>2. PromptLen[r] <= full[r] + Cardinality(Unreferenced) + 0
    BY <2>1 DEF AllocInv, ReserveInv
  <2> QED BY <1>1, <1>2, <2>1, <2>2, TableLengths
<1>4. CASE current = <<"grow", r>>
  <2>1. Cardinality(Unreferenced) >= 1
    BY <1>4 DEF AllocInv, ReserveInv, NeedsBlock
  <2> QED BY <1>1, <1>2, <2>1
<1> QED BY <1>3, <1>4 DEF NeedsBlock

\* Every reference of a block is a table entry or the block being placed, and
\* an admitted prompt or a decoding request never finds the pool empty in the
\* middle of its allocation.
THEOREM AdmissionAlwaysCompletes == OffloadSpec => []AdmissionCompletes
<1>1. ASSUME OffloadIInv PROVE AdmissionCompletes
  <2>1. AllocInv
    BY <1>1 DEF OffloadIInv
  <2>2. OffloadTypeOK
    <3>1. \A h1, h2 \in Hashes : cached[h1] # None /\ cached[h1] = cached[h2] => h1 = h2
      BY <2>1 DEF AllocInv, CachedInv
    <3>2. \A g \in GpuBlocks : refs[g] = Cardinality(HeldIn(table, g)) + Extra(g)
      BY <2>1 DEF AllocInv, RefsInv
    <3> QED BY <3>1, <3>2 DEF OffloadTypeOK, HeldIn, Extra
  <2>3. \A r \in Requests : NeedsBlock(r) => NumFree > 0
    BY <2>1, NeedsBlockOpen, NumFreeIs
  <2> QED BY <2>2, <2>3 DEF AdmissionCompletes
<1> QED BY <1>1, OffloadInvariance, PTL

\* None of the tier's checks raises when the allocator claims, stages, stores
\* or drains, whether prefills are whole or not.
THEOREM TierAlwaysAccepts == OffloadSpec => []TierAccepts
<1> USE NoneAssumption
<1>1. ASSUME OffloadIInv PROVE TierAccepts
  <2>1. BookInv /\ AllocInv
    BY <1>1 DEF OffloadIInv
  <2>2. ASSUME NEW r \in Requests, Allocating(r), NEW h, h = NextContent(r),
               cached[h] = None, claimed = None, taken = None, Ready(h)
        PROVE  ClaimLoadOK(h)
    <3>1. phase = "open" /\ h \in Hashes
      BY <2>1, <2>2, TableLengths, NextContentType DEF Allocating
    <3>2. PICK s : s = hashToSlot[h]
      OBVIOUS
    <3>3. s \in Slots /\ s \in readySlots /\ slotToHash[s] = h
      BY <2>1, <2>2, <3>1, <3>2 DEF Ready, BookInv, TypeOK, IndexInv
    <3>4. ASSUME s \in slotsInUse PROVE FALSE
      <4>1. s \in loadSlots
        BY <2>1, <3>3, <3>4 DEF BookInv, StepInv
      <4>2. h2d[s] # None
        BY <2>1, <2>2, <3>1, <3>3, <4>1 DEF AllocInv, TransferInv
      <4>3. cached[h] = h2d[s]
        BY <2>1, <3>1, <3>3, <4>2 DEF AllocInv, TransferInv
      <4> QED BY <4>2, <4>3, <2>2
    <3> QED BY <2>1, <3>1, <3>2, <3>4 DEF ClaimLoadOK, BookInv, PhaseInv
  <2>3. ASSUME NEW r \in Requests, Allocating(r), NEW h, h = NextContent(r),
               claimed # None, taken # None
        PROVE  StageLoadOK(h, claimed, taken)
    <3>1. /\ phase = "open" /\ hashToSlot[h] = claimed
          /\ claimed \in loadSlots /\ h2d[claimed] = None
      BY <2>1, <2>3 DEF Allocating, AllocInv, CurrentInv
    <3>2. claimed \in slotsInUse /\ claimed \in readySlots
      BY <2>1, <3>1 DEF BookInv, StepInv
    <3>3. claimed \notin StoreTargets
      BY <2>1, <3>2 DEF BookInv, StepInv, StoreTargets, StoreSources
    <3>4. ASSUME NEW s \in Slots, h2d[s] = taken PROVE FALSE
      <4>1. slotToHash[s] \in Hashes
        BY <2>1, <2>3, <3>4 DEF BookInv, TypeOK, StepInv, IndexInv
      <4>2. cached[slotToHash[s]] = taken
        BY <2>1, <2>3, <3>1, <3>4 DEF AllocInv, TransferInv
      <4> QED BY <2>1, <2>3, <4>1, <4>2 DEF AllocInv, CachedInv
    <3> QED BY <3>1, <3>2, <3>3, <3>4 DEF StageLoadOK, LoadTargets, LoadSources
  <2>4. ASSUME NEW r \in Requests, NeedsBlock(r), NEW g \in Evictable
        PROVE  StageStoreOK(HashOf(g), g)
    BY <2>1, <2>4, NeedsBlockOpen, EvictableHolds DEF StageStoreOK, BookInv, PhaseInv
  <2>5. ASSUME phase = "drain" PROVE DrainStepOK
    <3>1. LoadSources = loadSlots
      BY <2>1, <2>5 DEF BookInv, TypeOK, StepInv, PhaseInv, LoadSources
    <3>2. slotsInUse = loadSlots \cup StoreTargets
      BY <2>1 DEF BookInv, TypeOK, StepInv, StoreTargets, StoreSources
    <3>3. loadSlots \cap StoreTargets = {}
      BY <2>1 DEF BookInv, TypeOK, StepInv, StoreTargets, StoreSources
    <3> QED BY <3>1, <3>2, <3>3 DEF DrainStepOK
  <2> QED BY <2>2, <2>3, <2>4, <2>5 DEF TierAccepts
<1> QED BY <1>1, OffloadInvariance, PTL

\* After the forward pass every request finds the KV of its own tokens in the
\* blocks of its table, whether they were computed, shared or restored from
\* the CPU tier, if prefills are whole.
THEOREM TablesAlwaysHoldContent == OffloadSpec => []TablesHoldContent
<1>1. ASSUME OffloadIInv, ~chunked, phase = "done", due = {},
             NEW r \in Requests, NEW k \in 1..full[r] \ Pending(r)
      PROVE  gpuMem[table[r][k]] = Blocks[r][k]
  <2>1. AllocInv /\ ContentInv /\ WholeInv
    BY <1>1 DEF OffloadIInv
  <2>2. k \in DOMAIN table[r]
    BY <2>1, TableLengths
  <2>3. table[r][k] \in GpuBlocks
    BY <2>1, <2>2, EntryReferenced
  <2>4. toWrite[table[r][k]] = None
    BY <1>1, <2>1, <2>3 DEF WholeInv
  <2>5. Will(table[r][k]) = Blocks[r][k]
    BY <1>1, <2>1 DEF WholeInv
  <2>6. wanted[table[r][k]] # None => gpuMem[table[r][k]] = wanted[table[r][k]]
    BY <1>1, <2>1, <2>3 DEF ContentInv
  <2> QED BY <2>4, <2>5, <2>6 DEF Will
<1>2. OffloadIInv => TablesHoldContent
  BY <1>1 DEF TablesHoldContent
<1> QED BY <1>2, OffloadInvariance, PTL
=============================================================================
