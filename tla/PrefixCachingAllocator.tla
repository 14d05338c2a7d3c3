----------------------- MODULE PrefixCachingAllocator -----------------------
(***************************************************************************)
(* The prefix-caching block allocator (PrefixCachingBlockAllocator of      *)
(* vllm/core/block/prefix_caching_block.py) under the block tables and the *)
(* block manager that drive it, together with the KV memory the forward    *)
(* pass writes.                                                            *)
(*                                                                         *)
(* A token sequence stands for the SHA-256 chain over its blocks: the hash *)
(* of a full block is the whole token prefix that ends with the block, so  *)
(* hashes do not collide and every sequence shares one cache namespace.    *)
(*                                                                         *)
(* A scheduler step allocates waiting sequences block by block, appends    *)
(* the last sampled token of running ones, may preempt sequences it has    *)
(* not scheduled, and ends with the engine executing the batch.  Which     *)
(* sequences it picks is left open; so is the eviction policy (any         *)
(* evictable block may be the victim, see Evictor) and the order in which  *)
(* free block ids are handed out.                                          *)
(***************************************************************************)
EXTENDS Naturals, Sequences, FiniteSets

CONSTANTS
  Blocks,          \* GPU block ids
  Seqs,            \* sequence ids
  Tokens,          \* token ids
  BlockSize,       \* tokens per block
  MaxLen,          \* bound on the length of a sequence
  Prompts,         \* the token sequences that may be allocated
  None

ASSUME AllocatorAssumption ==
  /\ BlockSize \in Nat \ {0} /\ MaxLen \in Nat /\ IsFiniteSet(Seqs)
  /\ \A p \in Prompts : p \in Seq(Tokens) /\ Len(p) \in 1 .. MaxLen
  /\ None \notin Blocks \cup Seqs

VARIABLES
  chunked,      \* chunked_prefill_enabled: may a prompt take several steps?
  pool,         \* the allocator: see Pool
  tokens,       \* the tokens a sequence's block table covers; << >>: no table
  table,        \* physical block ids of a sequence's block table
  numComputed,  \* num_computed_tokens of a sequence
  chunk,        \* tokens of a sequence that the current step computes
  allocating,   \* the sequence whose allocate() is in its loop, or None
  cows,         \* copy-on-write pairs recorded in the step
  kv            \* the token prefix each slot of each block holds the KV of

vars == <<chunked, pool, tokens, table, numComputed, chunk, allocating, cows, kv>>

SeqsUpTo(n) == UNION {[1 .. k -> Tokens] : k \in 0 .. n}
Prefix(s, n) == SubSeq(s, 1, n)

\* Hashes of full blocks.
Hashes == {t \in SeqsUpTo(MaxLen) : Len(t) > 0 /\ Len(t) % BlockSize = 0}

ASSUME NoneAssumption == None \notin Hashes

Pool ==
  [free      : SUBSET Blocks,                     \* _hashless_allocator's deque
   ref       : [Blocks -> 0 .. Cardinality(Seqs)],\* _refcounter
   cached    : [Hashes -> Blocks \cup {None}],    \* _cached_blocks
   evictable : [Blocks -> Hashes \cup {None}],    \* the evictor's free_table
   active    : SUBSET Blocks,                     \* BlockTracker.active
   computed  : SUBSET Blocks,                     \* BlockTracker.computed
   touched   : SUBSET Blocks]                     \* _touched_blocks

Init ==
  /\ chunked \in BOOLEAN
  /\ pool = [free      |-> Blocks,
             ref       |-> [b \in Blocks |-> 0],
             cached    |-> [h \in Hashes |-> None],
             evictable |-> [b \in Blocks |-> None],
             active    |-> {},
             computed  |-> {},
             touched   |-> {}]
  /\ tokens = [s \in Seqs |-> << >>]
  /\ table = [s \in Seqs |-> << >>]
  /\ numComputed = [s \in Seqs |-> 0]
  /\ chunk = [s \in Seqs |-> 0]
  /\ allocating = None
  /\ cows = {}
  /\ kv = [b \in Blocks |-> [i \in 1 .. BlockSize |-> << >>]]

----------------------------------------------------------------------------
(* The allocator's operations on its state p.                              *)

Evictable(p) == {b \in Blocks : p.evictable[b] # None}

\* get_num_free_blocks
NumFreeBlocks(p) == Cardinality(p.free) + Cardinality(Evictable(p))

\* _allocate_block_id: any free block, and a cached one only if none is free.
Allocatable(p, b) == b \in p.free \/ (p.free = {} /\ b \in Evictable(p))

\* Fault: the evicted block stays in the index.
AllocateBlockIdKeepsIndex(p, b) ==
  [p EXCEPT !.free = @ \ {b},
            !.evictable[b] = None,
            !.ref[b] = @ + 1,
            !.active = @ \cup {b},
            !.computed = @ \ {b}]

AllocateBlockId(p, b) ==
  [p EXCEPT !.free = @ \ {b},
            !.cached = IF p.evictable[b] = None THEN @
                       ELSE [@ EXCEPT ![p.evictable[b]] = None],
            !.evictable[b] = None,
            !.ref[b] = @ + 1,
            !.active = @ \cup {b},
            !.computed = @ \ {b}]

\* _incr_refcount_cached_block, for the block cached under h.
IncrRefcountCached(p, h) ==
  LET b == p.cached[h]
  IN  IF p.ref[b] > 0 THEN [p EXCEPT !.ref[b] = @ + 1]
      ELSE [p EXCEPT !.ref[b] = 1,
                     !.evictable[b] = None,
                     !.active = @ \cup {b},
                     !.computed = @ \cup {b}]

\* _decr_refcount_hashless_block
DecrRefcountHashless(p, b) ==
  IF p.ref[b] > 1 THEN [p EXCEPT !.ref[b] = @ - 1]
  ELSE [p EXCEPT !.ref[b] = 0,
                 !.free = @ \cup {b},
                 !.active = @ \ {b},
                 !.computed = @ \ {b}]

\* Fault: the duplicate block is not given back.
PromoteKeepsDuplicate(p, b, h) ==
  IF p.cached[h] = None
  THEN [p EXCEPT !.cached[h] = b, !.touched = @ \cup {b}]
  ELSE IncrRefcountCached(p, h)

\* promote_to_immutable_block of a block that became full: register it, or
\* give it up for the block that is cached under the same hash.
PromoteToImmutable(p, b, h) ==
  IF p.cached[h] = None
  THEN [p EXCEPT !.cached[h] = b, !.touched = @ \cup {b}]
  ELSE IncrRefcountCached(DecrRefcountHashless(p, b), h)

PromotedId(p, b, h) == IF p.cached[h] = None THEN b ELSE p.cached[h]

\* Fault: a referenced block counts as computed.
BlockIsReferenced(p, b) == b \in p.active \/ b \in Evictable(p)

\* block_is_computed
BlockIsComputed(p, b) == IF b \in p.active THEN b \in p.computed
                         ELSE b \in Evictable(p)

----------------------------------------------------------------------------
(* Block tables.                                                           *)

BlockOf(pos) == ((pos - 1) \div BlockSize) + 1
SlotOf(pos) == ((pos - 1) % BlockSize) + 1
NumBlocks(n) == (n + BlockSize - 1) \div BlockSize

\* content_hash of the i-th block of a table over the tokens t.
IsFull(t, i) == i * BlockSize <= Len(t)
HashAt(t, i) == Prefix(t, i * BlockSize)

Running == {s \in Seqs : table[s] # << >> /\ s # allocating}
Scheduled == {s \in Seqs : chunk[s] > 0}

\* _free_block_id: the hash the evictor keeps block b of s under, None for a
\* block that is not full and goes back to the free list.
ReleasedHash(s, b) ==
  LET i == CHOOSE j \in DOMAIN table[s] : table[s][j] = b
  IN  IF IsFull(tokens[s], i) THEN HashAt(tokens[s], i) ELSE None

\* BlockTable.free: every block once, in table order.  A table names no block
\* twice, so each block's release is independent of the others.
FreeTable(p, s) ==
  LET held == {table[s][i] : i \in DOMAIN table[s]}
      last == {b \in held : p.ref[b] = 1}
  IN  [p EXCEPT !.ref = [b \in Blocks |-> IF b \in held THEN @[b] - 1 ELSE @[b]],
                !.evictable = [b \in Blocks |->
                                 IF b \in last THEN ReleasedHash(s, b) ELSE @[b]],
                !.free = @ \cup {b \in last : ReleasedHash(s, b) = None},
                !.active = @ \ last,
                !.computed = @ \ last]

----------------------------------------------------------------------------
(* Operations of the block manager.                                        *)

\* can_allocate (watermark 0), then allocate() enters its loop over the
\* prompt's blocks.
BeginAllocate(s, prompt) ==
  /\ allocating = None
  /\ tokens[s] = << >>
  /\ NumFreeBlocks(pool) >= NumBlocks(Len(prompt))
  /\ allocating' = s
  /\ tokens' = [tokens EXCEPT ![s] = prompt]
  /\ UNCHANGED <<chunked, pool, table, numComputed, chunk, cows, kv>>

NextBlock(s) == Len(table[s]) + 1
MoreBlocks(s) == NextBlock(s) <= NumBlocks(Len(tokens[s]))

\* allocate_immutable_block, the hash is cached on the GPU.
AllocateHit(s) ==
  LET h == HashAt(tokens[s], NextBlock(s))
  IN  /\ allocating = s /\ MoreBlocks(s)
      /\ IsFull(tokens[s], NextBlock(s))
      /\ pool.cached[h] # None
      /\ pool' = IncrRefcountCached(pool, h)
      /\ table' = [table EXCEPT ![s] = Append(@, pool.cached[h])]
      /\ UNCHANGED <<chunked, tokens, numComputed, chunk, allocating, cows, kv>>

\* allocate_immutable_block, not cached: a mutable block that is filled and
\* promoted at once.
AllocateMiss(s, b) ==
  LET h == HashAt(tokens[s], NextBlock(s))
      p == AllocateBlockId(pool, b)
  IN  /\ allocating = s /\ MoreBlocks(s)
      /\ IsFull(tokens[s], NextBlock(s))
      /\ pool.cached[h] = None
      /\ Allocatable(pool, b)
      /\ pool' = PromoteToImmutable(p, b, h)
      /\ table' = [table EXCEPT ![s] = Append(@, PromotedId(p, b, h))]
      /\ UNCHANGED <<chunked, tokens, numComputed, chunk, allocating, cows, kv>>

\* allocate_mutable_block for the tail of the prompt.
AllocateTail(s, b) ==
  /\ allocating = s /\ MoreBlocks(s)
  /\ ~IsFull(tokens[s], NextBlock(s))
  /\ Allocatable(pool, b)
  /\ pool' = AllocateBlockId(pool, b)
  /\ table' = [table EXCEPT ![s] = Append(@, b)]
  /\ UNCHANGED <<chunked, tokens, numComputed, chunk, allocating, cows, kv>>

\* get_computed_block_ids: the leading computed blocks, without the last.
ComputedPrefix(s) ==
  {k \in 0 .. Len(table[s]) - 1 :
     \A i \in 1 .. k : BlockIsComputed(pool, table[s][i])}

\* _get_num_new_tokens: how many of the remaining tokens of a prompt a step
\* may compute, all or whole blocks of them (the budget is left open).
ChunkSizes(rest) ==
  {rest} \cup {n \in 1 .. rest : chunked /\ n % BlockSize = 0}

\* allocate() is done; the first prefill skips k computed blocks.  (The
\* scheduler may skip fewer than it could: the recurrent state of the layers
\* that have no KV must be restorable there.)
EndAllocate(s, k, n) ==
  /\ allocating = s /\ ~MoreBlocks(s)
  /\ k \in ComputedPrefix(s)
  /\ n \in ChunkSizes(Len(tokens[s]) - k * BlockSize)
  /\ allocating' = None
  /\ numComputed' = [numComputed EXCEPT ![s] = k * BlockSize]
  /\ chunk' = [chunk EXCEPT ![s] = n]
  /\ UNCHANGED <<chunked, pool, tokens, table, cows, kv>>

\* The scheduler continues a prefill.
ContinuePrefill(s, n) ==
  /\ allocating = None
  /\ s \in Running /\ chunk[s] = 0
  /\ numComputed[s] < Len(tokens[s])
  /\ n \in ChunkSizes(Len(tokens[s]) - numComputed[s])
  /\ chunk' = [chunk EXCEPT ![s] = n]
  /\ UNCHANGED <<chunked, pool, tokens, table, numComputed, allocating, cows, kv>>

\* append_slots: the token sampled in the last step joins the table.  The
\* common part: block `cur` of the pool state p takes the token, and is
\* promoted when that fills it.
AppendTo(s, t, p, cur) ==
  LET idx == BlockOf(Len(t))
      id  == IF IsFull(t, idx) THEN PromotedId(p, cur, t) ELSE cur
  IN  /\ pool' = IF IsFull(t, idx) THEN PromoteToImmutable(p, cur, t) ELSE p
      /\ table' = [table EXCEPT ![s] = Append(Prefix(@, idx - 1), id)]
      /\ tokens' = [tokens EXCEPT ![s] = t]
      /\ chunk' = [chunk EXCEPT ![s] = 1]

Decoding(s) ==
  /\ allocating = None
  /\ s \in Running /\ chunk[s] = 0
  /\ numComputed[s] = Len(tokens[s])
  /\ Len(tokens[s]) < MaxLen
  /\ NumFreeBlocks(pool) >= 1     \* can_append_slots

LastBlock(s) == table[s][Len(table[s])]

\* ensure_num_empty_slots had to add a block.
AppendNewBlock(s, token, b) ==
  /\ Decoding(s)
  /\ IsFull(tokens[s], Len(table[s]))
  /\ Allocatable(pool, b)
  /\ AppendTo(s, Append(tokens[s], token), AllocateBlockId(pool, b), b)
  /\ UNCHANGED <<chunked, numComputed, allocating, cows, kv>>

\* The tail is this sequence's own.
AppendInPlace(s, token) ==
  /\ Decoding(s)
  /\ ~IsFull(tokens[s], Len(table[s]))
  /\ pool.ref[LastBlock(s)] <= 1
  /\ AppendTo(s, Append(tokens[s], token), pool, LastBlock(s))
  /\ UNCHANGED <<chunked, numComputed, allocating, cows, kv>>

\* cow_block_if_not_appendable: the tail is shared with a fork.
AppendCopyOnWrite(s, token, b) ==
  LET released == DecrRefcountHashless(pool, LastBlock(s))
  IN  /\ Decoding(s)
      /\ ~IsFull(tokens[s], Len(table[s]))
      /\ pool.ref[LastBlock(s)] > 1
      /\ Allocatable(released, b)
      /\ AppendTo(s, Append(tokens[s], token), AllocateBlockId(released, b), b)
      /\ cows' = cows \cup {<<LastBlock(s), b>>}
      /\ UNCHANGED <<chunked, numComputed, allocating, kv>>

\* fork, between steps, of a sequence that is decoding.
Fork(parent, child) ==
  LET held == {table[parent][i] : i \in DOMAIN table[parent]}
  IN  /\ allocating = None /\ Scheduled = {}
      /\ parent \in Running /\ numComputed[parent] = Len(tokens[parent])
      /\ tokens[child] = << >>
      /\ pool' = [pool EXCEPT !.ref = [b \in Blocks |->
                                         IF b \in held THEN @[b] + 1 ELSE @[b]]]
      /\ tokens' = [tokens EXCEPT ![child] = tokens[parent]]
      /\ table' = [table EXCEPT ![child] = table[parent]]
      /\ numComputed' = [numComputed EXCEPT ![child] = numComputed[parent]]
      /\ UNCHANGED <<chunked, chunk, allocating, cows, kv>>

\* free: the sequence finished or was aborted between two steps, or is
\* preempted for recomputation before the step schedules it.
Free(s) ==
  /\ allocating = None
  /\ s \in Running /\ chunk[s] = 0
  /\ pool' = FreeTable(pool, s)
  /\ tokens' = [tokens EXCEPT ![s] = << >>]
  /\ table' = [table EXCEPT ![s] = << >>]
  /\ numComputed' = [numComputed EXCEPT ![s] = 0]
  /\ UNCHANGED <<chunked, chunk, allocating, cows, kv>>

----------------------------------------------------------------------------
(* The end of the step: mark_blocks_as_computed, then the workers.         *)

MarkBlocksAsComputed(p) ==
  [p EXCEPT !.computed = @ \cup p.touched, !.touched = {}]

\* The copy kernel, over an arbitrary resolution of two copies to one block.
CopySources ==
  LET targets == {c[2] : c \in cows}
  IN  {f \in [targets -> Blocks] : \A b \in targets : <<f[b], b>> \in cows}

\* Fault: the recorded copies never reach the workers.
CopiesLost(f) == kv

AfterCopies(f) ==
  [b \in Blocks |-> IF b \in DOMAIN f THEN kv[f[b]] ELSE kv[b]]

\* The positions the batch computes, and where their KV goes.
Write(s, pos) == [block   |-> table[s][BlockOf(pos)],
                  slot    |-> SlotOf(pos),
                  content |-> Prefix(tokens[s], pos)]

Writes == UNION {{Write(s, pos) : pos \in numComputed[s] + 1 .. numComputed[s] + chunk[s]} :
                   s \in Scheduled}

\* What the batch writes to a slot.  Two writes leave either of them.
Written(cell) ==
  {x.content : x \in {y \in Writes : <<y.block, y.slot>> = cell}}

Contested ==
  {c \in {<<x.block, x.slot>> : x \in Writes} : Cardinality(Written(c)) > 1}

WriteChoices ==
  {w \in [Contested -> {x.content : x \in Writes}] :
     \A c \in Contested : w[c] \in Written(c)}

AfterForward(mem, w) ==
  [b \in Blocks |->
     [i \in 1 .. BlockSize |->
        CASE <<b, i>> \in Contested   -> w[<<b, i>>]
          [] Written(<<b, i>>) = {}   -> mem[b][i]
          [] OTHER                    -> CHOOSE t \in Written(<<b, i>>) : TRUE]]

Execute ==
  /\ allocating = None
  /\ Scheduled # {}
  /\ pool' = MarkBlocksAsComputed(pool)
  /\ \E f \in CopySources, w \in WriteChoices :
       kv' = AfterForward(AfterCopies(f), w)
  /\ numComputed' = [s \in Seqs |-> numComputed[s] + chunk[s]]
  /\ chunk' = [s \in Seqs |-> 0]
  /\ cows' = {}
  /\ UNCHANGED <<chunked, tokens, table, allocating>>

Next ==
  \/ \E s \in Seqs, prompt \in Prompts : BeginAllocate(s, prompt)
  \/ \E s \in Seqs : AllocateHit(s)
  \/ \E s \in Seqs, b \in Blocks : AllocateMiss(s, b)
  \/ \E s \in Seqs, b \in Blocks : AllocateTail(s, b)
  \/ \E s \in Seqs, k \in 0 .. MaxLen, n \in 1 .. MaxLen : EndAllocate(s, k, n)
  \/ \E s \in Seqs, n \in 1 .. MaxLen : ContinuePrefill(s, n)
  \/ \E s \in Seqs, t \in Tokens, b \in Blocks : AppendNewBlock(s, t, b)
  \/ \E s \in Seqs, t \in Tokens : AppendInPlace(s, t)
  \/ \E s \in Seqs, t \in Tokens, b \in Blocks : AppendCopyOnWrite(s, t, b)
  \/ \E s, c \in Seqs : Fork(s, c)
  \/ \E s \in Seqs : Free(s)
  \/ Execute

Spec == Init /\ [][Next]_vars

----------------------------------------------------------------------------
(* Properties.                                                             *)

TypeOK ==
  /\ chunked \in BOOLEAN
  /\ pool \in Pool
  /\ tokens \in [Seqs -> SeqsUpTo(MaxLen)]
  /\ \A s \in Seqs : table[s] \in Seq(Blocks)
  /\ numComputed \in [Seqs -> 0 .. MaxLen]
  /\ chunk \in [Seqs -> 0 .. MaxLen]
  /\ allocating \in Seqs \cup {None}
  /\ cows \subseteq Blocks \X Blocks
  /\ kv \in [Blocks -> [1 .. BlockSize -> SeqsUpTo(MaxLen)]]

References(b) ==
  {s \in Seqs : \E i \in DOMAIN table[s] : table[s][i] = b}

\* Every block is free, evictable or referenced, and only one of the three;
\* its reference count is the number of block tables that hold it and its
\* tracker is active exactly while it is referenced.  The assertions of
\* BlockTracker, RefCounter and of the eviction path all rest on this.
BlocksAccounted ==
  TypeOK /\ \A b \in Blocks :
    /\ pool.ref[b] = Cardinality(References(b))
    /\ b \in pool.active <=> pool.ref[b] > 0
    /\ b \in pool.free <=> pool.ref[b] = 0 /\ pool.evictable[b] = None
    /\ pool.evictable[b] # None => pool.ref[b] = 0

\* The content index follows the blocks: an evictable block is cached under
\* the hash the evictor has for it, a cached block is evictable or a full
\* block of some table under that hash, and every full block of a table is
\* the cached one for its content (two tables never hold two copies).
IndexFollowsBlocks ==
  /\ \A b \in Evictable(pool) : pool.cached[pool.evictable[b]] = b
  /\ \A h \in Hashes :
       pool.cached[h] # None =>
         \/ pool.evictable[pool.cached[h]] = h
         \/ \E s \in Seqs : \E i \in DOMAIN table[s] :
              IsFull(tokens[s], i) /\ table[s][i] = pool.cached[h]
              /\ HashAt(tokens[s], i) = h
  /\ \A s \in Seqs : \A i \in DOMAIN table[s] :
       IsFull(tokens[s], i) => pool.cached[HashAt(tokens[s], i)] = table[s][i]

HoldsPosition(s, pos) ==
  kv[table[s][BlockOf(pos)]][SlotOf(pos)] = Prefix(tokens[s], pos)

\* Between steps every token a running sequence counts as computed has its KV
\* in the sequence's own blocks: sharing, copy-on-write, promotion to another
\* block and reuse never leave a sequence attending to something else.  For a
\* restored request this is the promise that "A GDN prefix state makes it safe
\* to advance over a much larger logical prefix while sending only the suffix
\* after that checkpoint to the model runner" (_plan_gdn_prefix_fast_forward).
ComputedTokensStored ==
  Scheduled = {} =>
    \A s \in Running : \A pos \in 1 .. numComputed[s] : HoldsPosition(s, pos)

Holds(b, h) ==
  \A i \in 1 .. BlockSize : kv[b][i] = Prefix(h, Len(h) - BlockSize + i)

\* "Now that the batch has been created, we can assume all blocks in the
\* batch will have been computed before the next scheduling invocation"
\* (Scheduler.schedule): a cached block that lookups report as computed holds
\* the KV of its content.
ComputedBlocksStored ==
  \A h \in Hashes :
    pool.cached[h] # None /\ BlockIsComputed(pool, pool.cached[h]) =>
      Holds(pool.cached[h], h)

\* Both hold while every prompt is computed in one step and no two copies of a
\* step go to one block.  (With chunked prefill a block is reported as computed
\* before its chunk has run, and freeing the sequence in between leaves it so.
\* With two pairs of forks the target of one copy may be promoted, given up for
\* the cached block and become the target of the other, while record_cow keeps
\* both pairs: it takes four sequences.)
WholePrefillsStored == ~chunked => ComputedTokensStored /\ ComputedBlocksStored
=============================================================================
