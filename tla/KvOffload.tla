------------------------------ MODULE KvOffload ------------------------------
(***************************************************************************)
(* The prefix-caching block allocator with the CPU tier behind it          *)
(* (prefix_caching_block.py and cpu_gpu_block_allocator.py calling         *)
(* cpu_kv_content_cache.py).  CpuKvContentCache assumes a client that      *)
(* stores a block only under the hash of what it holds, stages or cancels  *)
(* every claim and never lets the forward pass write a restored block.     *)
(* Here that client is the allocator's code, driven by requests that are   *)
(* admitted, decode, are preempted and end, and TierContract says that the *)
(* tier's specification, and with it all that is proved about it, holds.   *)
(*                                                                         *)
(* Blocks are whole here: a request is the sequence of the contents of its *)
(* blocks, of which the prompt fills the first ones and decoding the       *)
(* others.  Which unreferenced block is evicted is left open.              *)
(***************************************************************************)
EXTENDS CpuKvContentCache, FiniteSets

CONSTANTS
  Requests,
  Blocks,      \* Blocks[r]: the contents of the request's blocks in order
  PromptLen,   \* PromptLen[r]: how many of them the prompt fills
  Partial      \* what a block holds that is not full

ASSUME RequestAssumption ==
  /\ IsFiniteSet(Requests) /\ IsFiniteSet(GpuBlocks)
  /\ Partial \in Hashes
  /\ Blocks \in [Requests -> Seq(Hashes)]
  /\ \A r \in Requests : PromptLen[r] \in 1..Len(Blocks[r])
  /\ \A r \in Requests : None \notin {<<"admit", r>>, <<"grow", r>>}

VARIABLES
  chunked,     \* chunked_prefill_enabled: a prefill may take several steps
  cached,      \* _cached_blocks: content hash -> block
  refs,        \* the reference counter
  table,       \* the request's block table
  full,        \* how many of its blocks are full (promoted)
  current,     \* <<"admit", r>> or <<"grow", r>> while blocks of r are allocated
  claimed,     \* the CPU slot claimed for its next block, or None
  taken,       \* the block id _allocate_block_id returned for it, or None
  scheduled,   \* the requests of this step
  toWrite,     \* what is still to be computed into each block
  due          \* the blocks that this step's forward pass writes

gpuVars == <<chunked, cached, refs, table, full, current, claimed, taken, scheduled,
             toWrite, due>>
allVars == <<vars, gpuVars>>

NoWrites == [g \in GpuBlocks |-> None]

OffloadInit ==
  /\ Init
  /\ chunked \in BOOLEAN
  /\ cached = [h \in Hashes |-> None]
  /\ refs = [g \in GpuBlocks |-> 0]
  /\ table = [r \in Requests |-> << >>]
  /\ full = [r \in Requests |-> 0]
  /\ current = None /\ claimed = None /\ taken = None
  /\ scheduled = {}
  /\ toWrite = NoWrites
  /\ due = {}

\* The evictor holds the cached blocks nobody refers to; the hashless free
\* list the ones that are not cached.
Evictable == {g \in GpuBlocks : refs[g] = 0 /\ \E h \in Hashes : cached[h] = g}
FreeBlocks == {g \in GpuBlocks : refs[g] = 0} \ Evictable
HashOf(g) == CHOOSE h \in Hashes : cached[h] = g
NumFree == Cardinality(Evictable \cup FreeBlocks)

NextContent(r) == Blocks[r][full[r] + 1]
Pending(r) == {k \in DOMAIN table[r] : toWrite[table[r][k]] # None}

----------------------------------------------------------------------------
(* Scheduling a step.                                                      *)

OpenStep ==
  /\ due = {}
  /\ BeginStep
  /\ scheduled' = {}
  /\ UNCHANGED <<chunked, cached, refs, table, full, current, claimed, taken, toWrite, due>>

\* Fault: blocks the prompt will find cached are not counted.
FaultCanAllocate(r) ==
  Cardinality({k \in 1..PromptLen[r] : cached[Blocks[r][k]] = None}) <= NumFree

\* can_allocate, without a watermark.
CanAllocate(r) == PromptLen[r] <= NumFree

Admit(r) ==
  /\ phase = "open" /\ current = None
  /\ table[r] = << >>
  /\ CanAllocate(r)
  /\ current' = <<"admit", r>>
  /\ UNCHANGED <<chunked, vars, cached, refs, table, full, claimed, taken, scheduled, toWrite, due>>

\* The next block of the prompt is to be allocated.
Allocating(r) == phase = "open" /\ current = <<"admit", r>> /\ full[r] < PromptLen[r]

\* Its content is cached on the GPU.
AllocateHit(r) ==
  LET g == cached[NextContent(r)]
  IN /\ Allocating(r) /\ taken = None /\ claimed = None
     /\ g # None
     /\ refs' = [refs EXCEPT ![g] = @ + 1]
     /\ table' = [table EXCEPT ![r] = Append(@, g)]
     /\ full' = [full EXCEPT ![r] = @ + 1]
     /\ UNCHANGED <<chunked, vars, cached, current, claimed, taken, scheduled, toWrite, due>>

\* _maybe_restore_external_cached_block claims the CPU copy first.
Claim(r) ==
  /\ Allocating(r) /\ taken = None /\ claimed = None
  /\ cached[NextContent(r)] = None
  /\ ClaimLoad(NextContent(r))
  /\ claimed' = hashToSlot[NextContent(r)]
  /\ UNCHANGED <<chunked, cached, refs, table, full, current, taken, scheduled, toWrite, due>>

\* A block id is needed: for a claim, for a miss, or for a new tail.
NeedsBlock(r) ==
  /\ taken = None
  /\ \/ /\ Allocating(r)
        /\ cached[NextContent(r)] = None
        /\ claimed # None \/ ~Ready(NextContent(r))
     \/ current = <<"grow", r>>

\* _maybe_allocate_hashless_block_id
TakeFree(r) ==
  /\ NeedsBlock(r)
  /\ \E g \in FreeBlocks : taken' = g /\ refs' = [refs EXCEPT ![g] = 1]
  /\ UNCHANGED <<chunked, vars, cached, table, full, current, claimed, scheduled, toWrite, due>>

\* Fault: the victim is offered under the hash of the content that replaces it.
FaultStoreHash(r) ==
  /\ NeedsBlock(r)
  /\ FreeBlocks = {}
  /\ \E g \in Evictable :
       /\ StageStore(NextContent(r), g)
       /\ cached' = [cached EXCEPT ![HashOf(g)] = None]
       /\ taken' = g
       /\ refs' = [refs EXCEPT ![g] = 1]
  /\ UNCHANGED <<chunked, table, full, current, claimed, scheduled, toWrite, due>>

\* _maybe_allocate_evicted_block_id: the victim is offered to the CPU tier.
TakeEvicted(r) ==
  /\ NeedsBlock(r)
  /\ FreeBlocks = {}
  /\ \E g \in Evictable :
       /\ StageStore(HashOf(g), g)
       /\ cached' = [cached EXCEPT ![HashOf(g)] = None]
       /\ taken' = g
       /\ refs' = [refs EXCEPT ![g] = 1]
  /\ UNCHANGED <<chunked, table, full, current, claimed, scheduled, toWrite, due>>

\* The block becomes the next full block of the prompt.
Placed(r) ==
  /\ table' = [table EXCEPT ![r] = Append(@, taken)]
  /\ full' = [full EXCEPT ![r] = @ + 1]
  /\ taken' = None

\* Fault: the restored block is not entered into the index.
FaultRestore(r) ==
  /\ Allocating(r) /\ taken # None /\ claimed # None
  /\ StageLoad(NextContent(r), claimed, taken)
  /\ claimed' = None
  /\ Placed(r)
  /\ UNCHANGED <<chunked, cached, refs, current, scheduled, toWrite, due>>

\* The CPU copy is staged into the block, which is cached and computed.
Restore(r) ==
  /\ Allocating(r) /\ taken # None /\ claimed # None
  /\ StageLoad(NextContent(r), claimed, taken)
  /\ cached' = [cached EXCEPT ![NextContent(r)] = taken]
  /\ claimed' = None
  /\ Placed(r)
  /\ UNCHANGED <<chunked, refs, current, scheduled, toWrite, due>>

\* A miss: the block is filled with the prompt's tokens, and so promoted.
AllocateMiss(r) ==
  /\ Allocating(r) /\ taken # None /\ claimed = None
  /\ cached' = [cached EXCEPT ![NextContent(r)] = taken]
  /\ toWrite' = [toWrite EXCEPT ![taken] = NextContent(r)]
  /\ Placed(r)
  /\ UNCHANGED <<chunked, vars, refs, current, claimed, scheduled, due>>

EndAdmit(r) ==
  /\ current = <<"admit", r>> /\ full[r] = PromptLen[r]
  /\ current' = None
  /\ scheduled' = scheduled \cup {r}
  /\ UNCHANGED <<chunked, vars, cached, refs, table, full, claimed, taken, toWrite, due>>

\* The next chunk of a prefill.
ContinuePrefill(r) ==
  /\ phase = "open" /\ current = None
  /\ Pending(r) # {} /\ r \notin scheduled
  /\ scheduled' = scheduled \cup {r}
  /\ UNCHANGED <<chunked, vars, cached, refs, table, full, current, claimed, taken, toWrite, due>>

Decodes(r) ==
  /\ phase = "open" /\ current = None
  /\ table[r] # << >> /\ r \notin scheduled
  /\ Pending(r) = {}
  /\ NumFree >= 1     \* can_append_slots

\* append_slots of a sequence whose last block is full.
Grow(r) ==
  /\ Decodes(r)
  /\ Len(table[r]) = full[r] /\ full[r] < Len(Blocks[r])
  /\ current' = <<"grow", r>>
  /\ UNCHANGED <<chunked, vars, cached, refs, table, full, claimed, taken, scheduled, toWrite, due>>

EndGrow(r) ==
  /\ current = <<"grow", r>> /\ taken # None
  /\ table' = [table EXCEPT ![r] = Append(@, taken)]
  /\ toWrite' = [toWrite EXCEPT ![taken] = Partial]
  /\ taken' = None
  /\ current' = None
  /\ scheduled' = scheduled \cup {r}
  /\ UNCHANGED <<chunked, vars, cached, refs, full, claimed, due>>

\* The token that fills the tail is appended: promote_to_immutable_block, which
\* takes over the cached block if there is one for the content.
Promote(r) ==
  LET h == NextContent(r)
      t == table[r][full[r] + 1]
  IN /\ Decodes(r)
     /\ Len(table[r]) = full[r] + 1
     /\ \/ /\ cached[h] = None
           /\ cached' = [cached EXCEPT ![h] = t]
           /\ toWrite' = [toWrite EXCEPT ![t] = h]
           /\ UNCHANGED <<refs, table>>
        \/ /\ cached[h] # None
           /\ refs' = [refs EXCEPT ![t] = @ - 1, ![cached[h]] = @ + 1]
           /\ table' = [table EXCEPT ![r][full[r] + 1] = cached[h]]
           /\ UNCHANGED <<cached, toWrite>>
     /\ full' = [full EXCEPT ![r] = @ + 1]
     /\ scheduled' = scheduled \cup {r}
     /\ UNCHANGED <<chunked, vars, current, claimed, taken, due>>

\* A request ends or is aborted between two steps; one that this step has not
\* scheduled yet may be preempted for recomputation.
MayFree(r) ==
  \/ phase = "done" /\ due = {}
  \/ phase = "open" /\ current = None /\ r \notin scheduled

Free(r) ==
  LET mine(g) == Cardinality({k \in DOMAIN table[r] : table[r][k] = g})
      left    == [g \in GpuBlocks |-> refs[g] - mine(g)]
  IN /\ table[r] # << >>
     /\ MayFree(r)
     /\ refs' = left
     /\ toWrite' = [g \in GpuBlocks |-> IF left[g] = 0 THEN None ELSE toWrite[g]]
     /\ table' = [table EXCEPT ![r] = << >>]
     /\ full' = [full EXCEPT ![r] = 0]
     /\ UNCHANGED <<chunked, vars, cached, current, claimed, taken, scheduled, due>>

\* The end of schedule().  The forward pass computes what the scheduled
\* requests miss, of a chunked prefill the first block of it.
Drain ==
  LET first(r) == {k \in Pending(r) : \A l \in Pending(r) : k <= l}
  IN /\ current = None
     /\ BeginDrain
     /\ due' = UNION {{table[r][k] : k \in IF chunked THEN first(r) ELSE Pending(r)} :
                       r \in scheduled}
     /\ UNCHANGED <<chunked, cached, refs, table, full, current, claimed, taken,
                    scheduled, toWrite>>

SkipDeferred == SkipDeferredStores /\ UNCHANGED gpuVars
ResolveDeferred == ResolveDeferredStore /\ UNCHANGED gpuVars
HandOver == DrainStep /\ UNCHANGED gpuVars
Transfer == ExecuteTransfers /\ UNCHANGED gpuVars

Forward(g) ==
  /\ g \in due
  /\ phase = "done"
  /\ gpuMem' = [gpuMem EXCEPT ![g] = toWrite[g]]
  /\ toWrite' = [toWrite EXCEPT ![g] = None]
  /\ due' = due \ {g}
  /\ UNCHANGED <<indexVars, stepVars, pendingReady, phase, swapIn, swapOut, cpuMem, wanted>>
  /\ UNCHANGED <<chunked, cached, refs, table, full, current, claimed, taken, scheduled>>

OffloadNext ==
  \/ OpenStep
  \/ \E r \in Requests :
        \/ Admit(r) \/ AllocateHit(r) \/ Claim(r) \/ TakeFree(r) \/ TakeEvicted(r)
        \/ Restore(r) \/ AllocateMiss(r) \/ EndAdmit(r)
        \/ ContinuePrefill(r) \/ Grow(r) \/ EndGrow(r) \/ Promote(r) \/ Free(r)
  \/ Drain \/ SkipDeferred \/ ResolveDeferred \/ HandOver \/ Transfer
  \/ \E g \in GpuBlocks : Forward(g)

OffloadSpec == OffloadInit /\ [][OffloadNext]_allVars

----------------------------------------------------------------------------
(* Properties.                                                             *)

\* Every reference is a table entry or the block being placed, and no block is
\* cached under two hashes.
OffloadTypeOK ==
  /\ \A g \in GpuBlocks :
       refs[g] = Cardinality({p \in UNION {{r} \X DOMAIN table[r] : r \in Requests} :
                                table[p[1]][p[2]] = g})
                 + (IF taken = g THEN 1 ELSE 0)
  /\ \A h1, h2 \in Hashes : cached[h1] # None /\ cached[h1] = cached[h2] => h1 = h2

\* The allocator is the client that the CPU tier's specification assumes: it
\* stores under its hash only a block that holds it, settles every claim
\* before the step is drained, and the forward pass spares restored blocks.
\* (When a prefill takes several steps a block that was never computed may be
\* stored, and the contract is broken.)
TierContract == Init /\ [][~chunked => Next]_vars

\* None of the tier's checks raises when the allocator calls it: the claimed
\* slot is free for the step, the staged load and store are new, and the step
\* drains.
TierAccepts ==
  /\ \A r \in Requests : Allocating(r) =>
       LET h == NextContent(r)
       IN /\ cached[h] = None /\ claimed = None /\ taken = None /\ Ready(h) => ClaimLoadOK(h)
          /\ claimed # None /\ taken # None => StageLoadOK(h, claimed, taken)
  /\ \A r \in Requests : NeedsBlock(r) /\ FreeBlocks = {} =>
       \A g \in Evictable : StageStoreOK(HashOf(g), g)
  /\ phase = "drain" /\ deferred = << >> => DrainStepOK

\* _allocate_block_id never raises in the middle of allocate(), when the
\* claims and blocks taken so far would have to be undone; no reference is lost.
AdmissionCompletes == OffloadTypeOK /\ \A r \in Requests : NeedsBlock(r) => NumFree > 0

\* Once the forward pass is over every request finds the KV of its own tokens
\* in the blocks of its table, wherever they came from, if prefills are whole.
TablesHoldContent ==
  ~chunked /\ phase = "done" /\ due = {} =>
    \A r \in Requests : \A k \in 1..full[r] \ Pending(r) : gpuMem[table[r][k]] = Blocks[r][k]
=============================================================================
