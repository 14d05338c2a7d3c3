# TLA+ models of the Qwen3.6 serving engine

The repository packages a vLLM 0.6 fork for one accelerator and one model, a
hybrid of attention layers and recurrent (GDN) layers.  Its own logic is about
reusing earlier work: KV blocks are shared by content, evicted blocks are kept in
pinned CPU memory, and because the recurrent layers have no KV, their state is
saved at block boundaries so that a cached prefix can really be skipped.  Around
these caches stands the control of a serving engine: a scheduler, worker
processes, an asynchronous engine, two processes joined by sockets, and a chat
server that streams tool calls.

Two kinds of failure are hard to test here.  A wrong decision of a cache does not
crash: the model silently answers from another prompt's state.  And a wrong
interleaving of the engine's threads, tasks and processes leaves a client waiting
for ever, once in a very long time.  This directory models those parts, checks
them with TLC and proves most of their safety properties with TLAPS.  Where the
code does not keep what it says, section 6 says so and how to see it.

## 1. The system

| Part | Source | State | Operations |
|---|---|---|---|
| Evictors | `vllm/core/evictor_v2.py` | unreferenced cached blocks with stamp, depth, hash; a lazy heap and frequencies | `add`, `update`, `remove`, `evict` |
| Prefix-caching allocator, block tables, block manager | `vllm/core/block/prefix_caching_block.py`, `naive_block.py`, `common.py`, `block_table.py`, `block_manager_v2.py` | reference counts, free list, content index, trackers, touched blocks, copy-on-write list, a table per sequence | allocate, promote, evict, fork, copy-on-write, free, mark computed |
| CPU KV content cache | `vllm/core/block/cpu_kv_content_cache.py`; copy order in `patch_worker_cache_transfer_order.py` | hash to CPU slot, ready slots, recency, transfer maps of the step | `begin_step`, `claim_load`, `cancel_load`, `stage_load`, `stage_store`, `drain_step` |
| GDN prefix states | `qwen3_6_scripts/gdn_prefix.py`, GDN parts of `scheduler.py`, `forward` in `qwen3_5.py` | LRU of state keys in the scheduler; saved states in the workers | select a restore, choose captures, cap the step, admit; evict, restore, capture, save |
| Mamba cache manager | `qwen3_6_scripts/mamba_cache.py` | slot of each sequence, slot contents | place the batch, move, swap, copy to siblings, release |
| Scheduler | `qwen3_6_scripts/scheduler.py` (replaces `vllm/core/scheduler.py`) | waiting, running and swapped queues, budget | `schedule` under two policies, preempt, swap, add, abort, free |
| Broadcast queue | `vllm/distributed/device_communicators/shm_broadcast.py` | ring of chunks with flags, publish sockets | `enqueue`, `dequeue`, `wait_until_ready` |
| Worker pool | `vllm/executor/multiproc_worker_utils.py`, `multiproc_gpu_executor.py` | task queues, result queue, futures | call, result thread, monitor thread, close |
| Async engine | `vllm/engine/async_llm_engine.py` | request tracker, streams, tasks of the virtual engines | generate, abort, engine loop, engine step, error callback |
| Multiprocessing client and engine | `vllm/engine/multiprocessing/client.py`, `engine.py` | request queues of the client, socket contents, engine state | handlers, output loop, health loop, engine loop, heartbeat thread |
| Chat streaming | `qwen3_6_scripts/qwen3coder_tool_parser.py`, `serving_chat.py`, `reasoning/` | parser state, previous text, what was sent | one delta of one choice, end of a choice |

One step of the engine: `schedule()` opens a step of the CPU tier, admits or
continues sequences through the block manager (the allocator consults its index,
then the CPU tier, then evicts and offers the victim to the CPU tier), selects a
GDN restore key, decides how many tokens to run, drains the CPU tier's transfer
maps, admits the GDN captures and marks the blocks as computed, all before
anything ran.  The batch goes to the workers over the broadcast queue or the task
queues.  The workers copy GPU to CPU, then CPU to GPU, run the copy-on-write
copies, bring the batch to its Mamba slots, drop evicted GDN states, restore, run
the layers and save captures.  The outputs go back through the engine loop or the
sockets to the handlers of the requests, which may leave at any time.

What makes this hard: the scheduler's view is one step ahead of the memory; the
same block can be a store source, a load target and a copy source of one step;
four indexes (GPU, CPU, GDN, Mamba slots) describe content that other code moves;
chunked prefill computes a prompt over several steps during which it may be
aborted; evictors work on lazily updated orders; groups move between three queues
and seven lists within one call; threads share dicts without locks; every `await`
separates a check from its use; processes die between two messages.

`PROJECT.json` lists these hazards line by line with the properties that cover
them.

## 2. Modules

| Module | Models | Notes |
|---|---|---|
| `Evictor` | what the allocator needs from any policy | abstract specification |
| `LruEvictor`, `FrequencyAwareEvictor`, `EvictorParameters` | the two policies, and their common parameters | each implements `Evictor` under the refinement mapping `Held` |
| `EvictionPolicies` | `make_evictor` | one of the two runs |
| `EvictorsProofs` | theorems about the policies | section 5 |
| `PrefixCachingAllocator` | allocator, block tables, block manager, KV memory | `pool` is the allocator's state as a record; `kv` says which token prefix each slot holds the KV of |
| `CpuKvContentCache` | the CPU tier and the worker copies | `gpuMem`, `cpuMem` are physical contents; `wanted` is a history variable |
| `KvOffload` | allocator and CPU tier composed, driven by requests | EXTENDS `CpuKvContentCache`; the allocator's code takes the place of the assumed client, and `TierContract` says it is one |
| `KvOffloadProofs` | theorems about the tier alone, and about tier and allocator together | section 5 |
| `GdnPrefixCache` | GDN policy, the scheduler's use of it, the workers' states | EXTENDS `PrefixCachingAllocator`: composition over the same blocks |
| `PrefixCachingProofs` | theorems about the allocator and about the GDN cache over it | |
| `MambaCache` | `MambaCacheManager` and the batches it is given | a state is the log of passes folded into it |
| `MambaCacheProofs` | theorems about it | |
| `Scheduler` | the queues and `schedule()`, one action per iteration of its loops, with block counts for the block manager | policy, preemption mode, chunking and sizes are a configuration chosen in `Init` |
| `BroadcastQueue` | what the users of the ring rely on | abstract specification |
| `ShmBroadcast` | ring, flags, overflow socket, remote readers | each store and load another process can see is a step; implements `BroadcastQueue` |
| `ShmBroadcastProofs` | theorems about it | exclusion and refinement |
| `WorkerPool` | caller, workers, result thread and monitor thread | blocking and asynchronous executor |
| `WorkerPoolProofs` | theorem about it | |
| `AsyncEngine` | handlers, engine loop, engine steps, callback | a step is what runs between two awaits |
| `AsyncEngineProofs` | theorems about it | |
| `MQEngine` | client process, engine process and four sockets | failing, hanging, killed engines, lost workers, late heartbeats |
| `MQEngineProofs` | theorem about it | |
| `ToolStream` | tool parser, reasoning parser and stream generator | the reference is the parse of the whole text by the same parser |
| `MC*` | instances for TLC | |

Data abstractions.

- A token prefix stands for the SHA-256 chain over its blocks (hashes do not
  collide; one cache namespace).  A KV entry is the token prefix it was computed
  from.  A recurrent state of the GDN cache is what it was computed from: the tokens
  folded into the temporal state, each with the `ConvLen` tokens (or zeros) that the
  causal convolution saw in front of it, and the last `ConvLen` tokens as its
  convolution state; in the Mamba cache it is the log of passes folded into it.  Two
  writes of one pass to the same KV slot leave either value.
- A call the code answers with an exception is a guard, and the exceptions that
  "should never happen" are properties (`RestoreSurvivesAdmission`,
  `FreeSlotFound`, `AdmissionCompletes`, `TierAccepts`, `NoAssertionFails`).
- In `PrefixCachingAllocator` and `KvOffload` the eviction policy and the order of
  free ids are left open, which covers both evictors.  `KvOffload` has whole
  blocks: a request is the sequence of its blocks' contents.
- `Scheduler` counts blocks.  The last token sampled, end of sequence and
  `max_tokens` are one nondeterministic stop; a group's first sequence stops last;
  outputs are processed before the next `schedule()`; delay factor 0, no lookahead
  slots, no LoRA, no shared prefixes between requests.
- `ShmBroadcast`: stores become visible in program order (x86).  An object is its
  number and its size; one that would not fit its chunk is `Torn`.
- `WorkerPool`: what the driver worker does in a call is one step that returns,
  raises or is never taken, as a task of any other worker.
- `MQEngine`: sockets are FIFO; what has not arrived is lost with the process.
- `ToolStream`: a text is a sequence of pieces (markup, name, value, words) and a
  delta is a few of them, so no delta ends inside a tag; texts are well formed,
  except that `</parameter>` may be missing and that generation may stop early.

Definitions marked in a comment as a *fault* are variants of the definition that
follows them, each the way a plausible bug would change it; `PROJECT.json` says
which property each breaks.  No specification uses them.

## 3. Runs

| Run | Instance | States | What happens in it |
|---|---|---|---|
| `evictors` | LRU: 3 blocks, 2 sequences, 3 ticks, chunked prefill; frequency: 2 blocks whose ids break ties, 1 tick, 4 pushes; 2 hashes, 2 depths | 212 k | stale, outdated and duplicate heap entries, compaction; truncated scans |
| `allocator` | 3 blocks of 2 tokens, 2 sequences of up to 5 tokens, 4 prompts, whole and chunked prefills | 222 k | sharing, eviction, promotion to a duplicate, fork, copy-on-write, free mid-prompt |
| `gdn_prefix` | 4 blocks, 1 sequence, budget 4, prompts up to 8 tokens, a convolution that looks back 2 tokens; fine32/direct and admission64/hybrid64 with 2 states | 76 k | several chunks per prompt, interior captures, state eviction, restores, repeated branches, last chunks of one token, aborts |
| `gdn_abort_mid_prefill` | the first of these with 3 states | | violated: section 6, number 1 |
| `mamba_cache` | 3 slots, one request of two sequences and three of one, 3 passes | 166 k | every batch order; moves, swaps, sibling copies, releases, preemptions |
| `kv_offload` | 3 GPU blocks, 2 CPU slots, 4 contents and partial blocks, 3 requests two of which share content; and the tier alone under every client it allows | 857 k | stores that are deferred, deduplicated and dropped; a claim whose GPU allocation evicts into the same tier; preemption and restore |
| `scheduler` | 3 requests under 5 configurations: recomputation, swapping of a group with n = 2, priorities, chunked prefill with prefix caching, prompts too long for model or pool | 585 k | full pools, preemption chains, ignored prompts, aborts during a model step |
| `shm_broadcast` | 2 local and 1 remote reader, 2 chunks, high-water mark 4, 4 messages of both sizes | 168 k | the ring wraps twice, overflow, remote drops |
| `worker_pool` | 2 workers, 4 blocking tasks or 3 asynchronous | 644 k | deaths and shutdown at every moment, a driver's method that raises or never ends |
| `async_engine` | 3 requests of 1 or 2 outputs, one invalid, 1 sequence per step; one engine with a failure, one started by its first request | 64 k | arrivals and disconnects at every await, failing and hanging steps |
| `mq_engine` | 2 requests, one refused, 2 faults | 59 k | errors, hangs, kills, late heartbeats |
| `tool_stream` | one choice, texts of up to two calls whose parameters are closed or not; one piece per delta, up to four with cuts by `max_tokens`, and up to four with reasoning first | 117 k | every division of the text into deltas of one to four whole pieces, of which the properties exclude those of section 6, numbers 17, 24 and 25 |

Bounds.  `ConvLen` is 2 with blocks of 2 tokens, so that a step of one token is
shorter than what the convolution looks back and a capture takes all of it from the
step's tokens (3 and blocks of 16 in the service).  `MaxLen`, `MaxModelLen`,
`MaxClock`, `HeapClock`, `MaxPushes`, `MaxForwards`, `MaxMessages`, `MaxTasks`,
`MaxAsync`, `MaxFaults` and `maxFailures` bound what would grow for ever.  Blocks of
two tokens are the smallest with a partial tail; two or three contents competing for
fewer slots is where eviction, deferral and replacement start; two sequences suffice
for sharing, duplicate promotion and copy-on-write.  `gdn_*` has one sequence at a
time because the worker refuses GDN actions for any other batch and the service is
launched with `--max-num-seqs 1`; two states is the least capacity with which a step
can restore one and capture another.  The scheduler's instances have fewer blocks than
the requests need together, so that each kind of preemption happens and is chained.
Three messages and two chunks already let the writer meet a flag of the previous
round; the fourth lets it wrap again.

Symmetry is used for model values that nothing orders: GPU blocks, blocks,
sequences.  Block ids of the frequency policy, slots of the Mamba cache, requests
of the scheduler and workers are numbers, because the code compares or orders
them.  No run with symmetry checks a liveness property.  Deadlock is not checked
where the system may stop: when a bound is reached (`evictors`, `worker_pool`,
`tool_stream`), when every request has ended (`scheduler`, `async_engine`) or when
engine and client are gone (`mq_engine`).

Fairness, and what in the code justifies it:

| Run | Weak fairness of | Because |
|---|---|---|
| `evictors` | the iterations of `evict()`'s loop | one synchronous Python call |
| `shm_broadcast` | the writer's and each reader's steps | processes are scheduled; that the writer sends anything is not assumed |
| `worker_pool` | the monitor's and result thread's steps, and the caller's outside the driver's method | threads of a live process; neither a worker's task nor the driver's method need ever end, since a collective whose peer died does not |
| `async_engine` | the loop, its callback, each engine's step | the event loop serves ready coroutines, and a pass ends or is cancelled by its timeout |
| `mq_engine` | the two client loops, the engine loop, the heartbeat thread | same; a hung engine is a state in which no engine step is enabled |
| `scheduler` | `Schedule \/ ProcessOutputs` | the engine loop runs while requests are unfinished |

Arrivals, aborts, disconnects, deaths and faults are never fair.

## 4. Properties

The type invariant of each module is the first conjunct of its main invariant.

- Evictors.  `OrderMaintained`: insertion order is stamp order, and the lazy heap
  covers every held block with one current entry that is not too late, in bounded
  memory.  `EvictsLeast`: hence the truncated searches are exact.
  `EvictTerminates`, `ImplementsEvictor`.
- Allocator.  `BlocksAccounted`, `IndexFollowsBlocks`: counts, trackers, free list,
  evictor and index agree, which the code's assertions rest on.
  `WholePrefillsStored`: no sequence attends to KV of another content and no
  lookup returns a block without its content, if prompts are computed in one step.
- CPU tier.  `IndexConsistent`, `TransfersDisjoint` (no two copies of a step
  conflict), `PinnedSlotsKeepContent` (no operation replaces a slot the step
  uses).  Composed: `TierContract` (the allocator is the client the tier
  assumes), `TierAccepts` (no call of it raises), `AdmissionCompletes` (allocation
  never fails half way, no reference is lost), `TablesHoldContent`.
- GDN.  `WorkersMirrorPolicy`: the workers hold exactly the states the scheduler
  counts on.  `RestoreSurvivesAdmission`: no step evicts what it restores.
  `SavedStatesMatchKeys`, `RecurrentStateCurrent`: every state is the state that one
  unbroken pass over its prefix gives.  The second makes one exception, and says
  when it may occur: the convolution history behind a prefill step shorter than it
  (section 6, number 23).  Tokens are folded in order and once each even then.
- Mamba.  `SlotsDistinct`, `StatesFollowSequences`, `FreeSlotFound`.
- Scheduler.  `EachGroupInOnePlace`, `BlocksSuffice` (the estimates before
  `append_slots`, `swap_in`, `swap_out` are enough), `NoAssertionFails`,
  `FirstComeFirstServed`, `EndedHoldNothing`, `EveryRequestEnds`.
- Broadcast.  `NoTornRead`, `ImplementsBroadcast` (safety and liveness of
  `BroadcastQueue`).
- Worker pool.  `FuturesResolved`: which futures the result thread has answered when
  its last loop ends, and which it can leave behind when the loop crashes.
  `CallReturns`: once a worker has died, what the pool has to do with a call, putting
  the tasks and getting the outputs, comes to an end.  It says nothing of the
  driver's own method, which the caller runs in between
  (`multiproc_gpu_executor.py:192`): nothing in this code wakes a caller that waits
  there, in a collective operation with the dead worker.  The monitor closes the pool
  all the same.
- Async engine.  `StreamsTracked`, `AbortsNotForgotten`, `EveryStreamEnds`.
- Multiprocessing.  `AbortsReachEngine`, `DeathNoticed`, `RunningAlerted`.
- Streaming.  `NothingRetracted`: what the client holds of a call is a prefix of what
  the parse of the whole text so far gives.  `AllStreamed`: with one piece per delta
  it is all of it in the end.  `ContentAgrees`: content is the text in front of the
  first call and no markup.

Some properties exclude the cases in which section 6 shows that they fail; their
comments say so.

## 5. Proofs

Every theorem is about the module's whole specification and holds for every value
of the constants that its assumptions admit.

| Module | Theorem | What it states |
|---|---|---|
| `KvOffloadProofs` | `TypeCorrectness`, `IndexAlwaysConsistent`, `TransfersAlwaysDisjoint`, `ReadyAlwaysCopied`, `RestoreAlwaysDelivers`, `PinnedSlotsAlwaysKeepContent` | the tier's bookkeeping is consistent, a published slot holds its content, a restored block holds what it was restored for, no operation replaces a slot the step uses |
| | `AllocatorKeepsContract` | `TierContract`: with whole prefills the allocator is the client the tier assumes |
| | `AdmissionAlwaysCompletes`, `TierAlwaysAccepts`, `TablesAlwaysHoldContent` | the three invariants of allocator and tier together |
| | `TierConsistentAnyway`, `PinnedSlotsKeptAnyway` | what remains true of the tier with chunked prefills, when the contract is broken |
| `EvictorsProofs` | `SearchesArePremised`, `EvictionIsLeast` | with chunked prefill, `OrderMaintained` and `EvictsLeast` |
| | `PoliciesImplementEvictor` | both policies implement `Evictor`, chunked or not |
| `PrefixCachingProofs` | `BlocksStayAccounted`, `IndexStaysConsistent` | `BlocksAccounted`, `IndexFollowsBlocks` |
| | `WholePrefillsAlwaysStored` | `WholePrefillsStored`, while no step copies to one block twice |
| | `WorkersFollowPolicy`, `RestoredStateStays`, `SavedStatesAreRight`, `RecurrentStateRight` | the four invariants of the GDN cache, on top of the allocator's; the last with its exception for `historyLost` |
| `MambaCacheProofs` | `SlotsAlwaysDistinct`, `StatesAlwaysFollow` | `SlotsDistinct`, `StatesFollowSequences` |
| | `FreeSlotAlwaysFound` | `FreeSlotFound` under the default policy |
| `ShmBroadcastProofs` | `RingExcludesReaders` | `NoTornRead` |
| | `RingIsBroadcastQueue` | the safety part of `ImplementsBroadcast`: initial states map to initial states and every step to a step or a stutter |
| `WorkerPoolProofs` | `PoolResolvesFutures` | `FuturesResolved`, for a result thread that ends or that crashes; not that every future is resolved (number 6 of section 6) |
| `MQEngineProofs` | `AbortsFollowRequests` | `AbortsReachEngine` |
| `AsyncEngineProofs` | `StreamsStayTracked` | `StreamsTracked`, for any number of schedulers |
| | `AbortsArrive` | `AbortsNotForgotten` with one scheduler, until a lazily started loop has failed |

Assumptions.  They are the named ASSUMEs of the modules, and every run evaluates
them.  Beyond types and null values that differ from the rest they say: a tier has
a slot, a pool a worker, a ring a chunk; block tables are shared by finitely many
sequences; the pool of the composed tier, and the requests of the tier and of the
Mamba cache, are finite (the code counts them); the families of two requests are
disjoint; a sequence runs at least one pass; prompts are not empty and fit `MaxLen`; `Budget` and the alignment are
multiples of the block size; a GDN cache holds at least two states (the code is
configured with 32 or 64); the convolution looks back no further than a block (3
tokens of 16); a publish socket queues more messages than the ring has
chunks (ZMQ's 1000 against 10) and there are finitely many remote readers; with
several schedulers the async engine is modelled without failing steps.  Hypotheses
that the code does not guarantee are in the theorems: `Chunked` for the evictors'
order (without it number 3 of section 6 happens), `~Priority` for
`FreeSlotAlwaysFound` (number 5), `[]OneCopyPerTarget` for
`WholePrefillsAlwaysStored` (number 21), and for `AbortsArrive` one
scheduler and `failures = 0 \/ ~LazyStart` (numbers 22 and 9).

None of the invariants is inductive.  What each proof adds:

- CPU tier.  That a load delivers its content needs that the slot it was claimed
  from still holds it, so that no store of the same step took that slot, so that
  claimed slots are in use and stored slots not ready, and that the copies out
  happen before the copies in.  `BookInv` is what holds with any client: `TypeOK`;
  `IndexInv` (the dicts are inverse, free means empty); `LruInv` (every filled slot
  is listed once); `StepInv` (every load pinned and ready, every store pinned and
  not ready, no shared destination); `DeferredInv` (deferred stores are for absent
  contents, from distinct blocks, and only while no slot is free); `PhaseInv`,
  `SwapInv` (which maps are empty when); `WantedInv` (which block is being restored
  for what).  `ContentInv`, where each content physically is at each phase, needs a
  client that stores a block under the hash of what it holds.
- Allocator over the tier.  `AllocInv` is what holds however prompts are computed:
  every reference is a table entry or the block being placed (`RefsInv`); no block
  is cached twice, and the one being placed not at all (`CachedInv`); a table has a
  private tail at most (`TableInv`); what the admission under way has claimed is
  still claimed, absent from the GPU index and not yet loaded (`CurrentInv`); the
  blocks left suffice for the rest of the prompt (`ReserveInv`); every source and
  target of a copy of the step was allocated in it (`TransferInv`), so that nothing
  is stored from a block that is being restored.  `WholeInv` adds, for whole
  prefills, what each cached or referenced block holds once the copies and the pass
  of the step are done (`Will`), and with that a stored block holds its content,
  which is the tier's contract.
- Mamba cache.  `IndexInv` (one to one); `RequestInv`: before its first pass is over
  a request has at most its first sequence mapped and its logs are empty, after it
  the first sequence is mapped and the log of a sibling without slot is the first
  sequence's, which is why a copy is the right initial state; `BatchInv` (a batch
  has all live sequences of its requests, each once, the first `pos` in place);
  `RoomInv` (the families of the running requests, and under the default policy of
  the preempted ones too, fit the slots).  Each of the three kinds of placement is
  reduced to one lemma, `PlacementInv`; that a slot is free is a count: the mapped
  sequences belong to running or preempted requests and the one to be placed is
  not among them.  `FlattenFacts` says what flattening a sequence of sequences
  gives, by the least position at which it would not.
- Evictors.  `LruInv`: a block is in the table once and, while every step stamps
  all running sequences, no entry is later than any of them, so that what is freed
  next goes behind.  `HeapInv`: the heap covers the table, and neither an entry nor
  a frequency exceeds the number of pushes.  `evict()` of the LRU policy is a loop,
  a recursive function of the position; `IntervalInduction`, an induction stated for
  sets of positions, shows that it is well defined and that its result is least.
  The loops of `Dropping` in the async engine are treated the same way.
- Allocator.  `Good(pool, tokens, table)` is the conjunction of `Shaped`, `Counted`
  (a block's count is the number of tables that hold it, and decides where the
  block is), `EvictableIndexed`, `IndexBacked` (what the index names is evictable
  or some table's full block of that hash), `FullIndexed` and `SamePlace` (a shared
  block has the same position and content in every table).  The last is what makes
  a freed block's hash well defined.  The operations are composed of a few moves
  on pool, tokens and tables (drop or push a tail block, hit, miss, register a full
  block, append, fork, free), each with a lemma that it keeps `Good`.
- KV of whole prefills.  Between the scheduling and the pass the memory is behind
  the tables, so `WInv` says what a slot will hold: `Kept(b, i, t)` is that the batch
  writes the slot (`Put`) or the copies of the step leave `t` in it (`Stays`).  It is
  kept for every computed token (`SeqKept`) and every block of the index, except those
  that the running `allocate()` has just put there (`CachedKept`).  Around it:
  `Marks` (touched and computed blocks are in the index, a block of the index in use
  is one or the other), `TouchedPlaced` (a touched block is in the table of a
  sequence of this step), `TailsOwn` (a partial block that is written has one holder,
  so that no two writes to a slot differ: `PutAgrees`, `PutMatches`), `TargetsPlaced`
  (a copy reads no block that is itself a target).  The three kinds of
  `append_slots` are one lemma, `JoinWInv`.
- GDN cache.  `GInv` extends the allocator's `IInv`.  A sequence is `Fresh`, in its
  `First` step or in a `Later` one; in the first it starts at its restore key,
  which is the most recently used resident state; a step captures at most one new
  state.  With room for two states the eviction made for the capture thus takes
  another state than the restored one.  In later steps, and
  for saved states, the recurrent state is `StateOf` the computed prefix.  That it is
  rests on lemmas about windows: the history at a position is the same whether the
  convolution starts there from a carried history or at the first token from zeros
  (`CarriedOn`), hence folding a prefix and then the rest is folding both
  (`FoldedOn`).  The step that breaks this is a short one.  `Whole` and `StepWhole`
  say that prefill steps begin at a block boundary and end at one or at the end of
  the prompt, so that with a convolution not longer than a block a short step is the
  last of its prompt and captures nothing (`LongSteps`), and only `historyLost`
  sequences that decode carry its state.
- Ring, exclusion.  Two facts about a single reader: a flag the reader found down
  stays down, since only the reader raises it (`ReaderHolds`); a chunk the writer
  is in does not count as written (`WriterHolds`).
- Ring, refinement.  `RInv` numbers everything: writer and readers are at
  `published % MaxChunks` and `Marked(r) % MaxChunks`, at most `MaxChunks` apart
  (`Places`); the chunk of each object still in the ring has its bytes, and its
  flags say who has marked it (`Chunked`); the chunk being written (`WritingInv`)
  and those being read (`ReadingInv`); the greeting comes before any object
  (`GreetingInv`); a local socket holds exactly the big objects not yet received,
  in their order (`LocalMail`), hence never more than the ring has chunks, hence
  drops none; a remote socket holds some objects in their order (`RemoteMail`).
  `Commit` is `Publish`; the mark of a small object and the receipt of a big one
  are `Deliver`; a remote receipt is `DeliverRemote`; all other steps stutter.  The
  lemmas on `%` (`Modulus`, `ModulusDiffers`) say that objects less than a ring
  apart have different chunks.
- Worker pool.  The proof covers a result thread that ends its last loop and one that
  crashes in it.  `TasksLeft`, `OnlyAccepted` (what travels was put by the caller),
  `Registered` (an unanswered accepted task is in `tasks`), `ClosedFirst` (the
  sentinel follows closed task queues) and `Drained` (the last loop answers what it
  passes).
- Multiprocessing.  `OutputsCounted` numbers the outputs of a request in the socket
  (each generated, sent and received once), `SentOnce`, and `AbortBehind`: whoever
  left before the client is errored left an abort behind the request in the FIFO
  input socket.
- Async engine.  `OnePlace` (a request is queued, about to be added by one task or
  held by one scheduler, never two of them), `StreamInv` (a stream's outputs are
  those generated, in order; a tracked stream belongs to a request that is being
  added or held and not aborted), `TaskInv`, and `Left` (the abort of a request
  whose handler left is in the tracker or with the task that has the request).

Each action has a lemma that it preserves the invariant, one step for each part it
can disturb; `Next...` collects the lemmas; the listed theorems follow.  The
invariants were checked by TLC on small instances before they were proved.

Two guards of `CpuKvContentCache` are assumptions about its callers: a block
offered for storing holds the content of the offered hash and is not a target of
the step's loads (`ClientStore`), and a step is drained only when every claim was
turned into a load or cancelled (`ClientDrain`).  `AllocatorKeepsContract`
discharges them: every step of the composed system is a step of the tier's
specification, or leaves the tier alone, so that what is proved of the tier holds
under the allocator.  It does so for whole prefills; with chunked prefills the
allocator breaks the contract (section 6, number 2), and only the bookkeeping
remains (`TierConsistentAnyway`, `PinnedSlotsKeptAnyway`).

Only model-checked:

- liveness under fairness, which is out of the prover's reach: `EvictTerminates`,
  `CallReturns`, `EveryStreamEnds`, `DeathNoticed`, `RunningAlerted`,
  `EveryRequestEnds`, and the liveness part of `ImplementsBroadcast`;
- the invariants of `Scheduler`, which rest on sums over the running groups (even the
  bound on a step's tokens in its type invariant does) and on what `SortSeq` returns,
  and those of `ToolStream`, which compare two parses of every text: both need
  induction over data.

## 6. Where code and documentation disagree

Each of these was met by stating what a comment, a docstring, an assertion or an
error message says.  Numbers 1 and 23 concern the deployed configuration and what
the model answers.  Number 1 is the run `gdn_abort_mid_prefill`.  For the others the
configuration that shows the counterexample is given; the listed runs do not
include it, or the listed property excludes the case.

1. `gdn_abort_mid_prefill`, `ComputedTokensStored`.  `allocate()` promotes all full
   blocks of a prompt and the first chunk's `schedule()` marks every touched block
   as computed.  If the request is aborted before its next chunk, the rest of its
   blocks enter the evictor and count as computed without ever having been
   written.  A lookup alone does no harm, since a prefix is only skipped up to a
   resident GDN state.  But when the state of the longer prefix is still resident
   from an earlier request whose KV blocks were evicted meanwhile, the next request
   with that prefix is restored there and attends to unwritten blocks.
2. CPU tier (`KvOffload`, `ReadyMeansCopied` without `~chunked`).  The same
   blocks, when evicted, are stored in the CPU tier under their hash
   (`prefix_caching_block.py:492`), which then restores unwritten KV for later
   requests.  `prefix_caching_block.py:251` speaks of an "immutable lower-tier hit".
3. LRU evictor (`EvictionPolicies` with `Chunked = FALSE`, `OrderMaintained`).
   Without chunked prefill a prefill step leaves the decoding sequences unstamped.
   When such a sequence is freed after a newer one, its older blocks stand behind
   newer ones and the scan stops before them, although `evictor_v2.py:97` expects
   the lowest stamps at the start.  Contents stay correct.
4. Mamba slots after preemption (`FirstPrefillFromZeros`).  Recomputation does not
   report the request as finished, so its slot survives and its second prefill
   starts from the state of its first life; `qwen3_5.py:1035` says zeros.  It takes
   two running requests.
5. Mamba slots under priorities (`Priority = TRUE`, `NumSlots = 2`,
   `FreeSlotFound`).  The preempted request keeps its slot while the request that
   displaced it needs one, and `mamba_cache.py:223` raises what "should never
   happen".
6. Worker pool (`WaitersAnswered`).  The last loop of `ResultHandler.run` over
   `self.tasks.items()`, "Ensure that all waiters will receive an exception"
   (`multiproc_worker_utils.py:84`), races with `_enqueue_task`, which inserts into
   the same dict without a lock.  The iteration then raises RuntimeError, and the
   futures it had not reached are never resolved.
7. Async engine, failures (`EveryStreamEnds` without `failures > 0`).
   `propagate_exception` reaches the streams of `_request_streams` ("all if
   request_id is None", `async_llm_engine.py:146`), which a request enters only
   when a step takes it.  One accepted after the failing step took the new requests
   gets no exception.
8. Async engine, pipelines (`NumEngines = 2`, `EveryStreamEnds`).  At
   `async_llm_engine.py:877` ("check other engine") the engine of the task that
   just finished is tested instead of the other one; an engine with a new request
   may never be stepped.
9. Async engine, restart (`lazyStart` with `maxFailures = 1`; `errored` while `loop`
   is neither `"none"` nor `"dead"`).  `errored` is set by
   the callback of the loop's task, one turn after the task is done.  A request in
   between finds the loop neither running nor errored and starts a second loop with
   a new tracker on the failed engine, which `async_llm_engine.py:727` means to
   refuse; the streams of the old tracker never end.
10. Multiprocessing client (`RegisteredAlerted`).  `_process_request` tests
    `_errored_with`, may await, and then registers its queue.  The output loop
    alerts the registered queues once and returns ("If errored, alert all running
    requests", `client.py:172`); a request that registers later waits for ever.
11. Scheduler, chunked budget (`Chunking` with n = 2 for the third request, 4
    sequences, 12 blocks and length 8, `NoAssertionFails`).  `_get_num_new_tokens` caps tokens by the remaining budget
    only for groups with one sequence, and the assertion at `scheduler.py:1350`
    fails.
12. Scheduler, recomputation (`Default` with mode recompute, n = 2 for the second
    request, 4 sequences and 4 blocks, `NoAssertionFails`).  A group whose other sequence has finished may be preempted
    by recomputation, and fails "Prefill has only 1 sequence" (`scheduler.py:1526`)
    when it prefills again.
13. Scheduler, priorities (`ByPriorities` with n = 2 for the first request, 4 GPU
    and 8 CPU blocks, `NoAssertionFails`).
    `_preempt` overwrites the mode it is given, so the displaced group is swapped
    out and put into the waiting queue, where "Waiting sequence group should have
    only one prompt sequence" (`scheduler.py:1025`) fails.
14. Scheduler, watermark (`Swapping` with watermark 1, `EveryRequestEnds`).
    `_can_swap` answers NEVER only when the group does not fit the whole pool, and
    OK only when it fits the pool less the watermark.  A group in between waits for
    ever on an empty pool, and prefills wait for it; `scheduler.py:834` says such
    requests are failed.
15. Scheduler, chunked swapping (`Chunking` with mode swap, budget 3, 4 GPU and 8
    CPU blocks, no prefix caching, `EveryRequestEnds`).
    `_schedule_swapped` is called without chunking, so a group swapped out with
    more remaining prompt than the budget is never scheduled again.
16. Scheduler, leak (`EndedHoldNothing` without its exception).  A swapped group
    that is failed at `scheduler.py:838` is dropped without returning its CPU
    blocks.
17. Tool stream, large deltas (`AllStreamed` with `MaxDelta` above 1).  A call of
    the parser returns one message and the next waits for another delta, so a call
    that arrives in few deltas is not streamed to its end;
    `qwen3coder_tool_parser.py:394` says "speculative-decode safe".
18. Tool stream, reasoning (`AllStreamed` with `Thinking`).  The parser stores the
    request when `previous_text` is empty, which it never is after a reasoning
    block; arguments are then streamed as strings whatever type the tool declares.
19. Tool stream, choices (`NumChoices = 2`, `AllStreamed`).  `serving_chat.py:576`
    puts one parser object into the list n times; the choices reset each other's
    state.
20. Tool stream, length (`NothingRetracted` with `StopsByLength`).  The last message
    of a choice cut by `max_tokens` is replaced using the parser's arguments `{}`,
    and loses a header, a brace or parameters (`serving_chat.py:898`).
21. Copy-on-write (`PrefixCachingAllocator` with 4 blocks of 2 tokens, 4 sequences,
    `MaxLen` 2, prompts `<<x>>`, `<<y>>`, `<<x, y>>` and whole prefills,
    `WholePrefillsStored`).  Two sequences share a partial block with their forks
    and one block is free.  The first append copies to the free block, fills it, finds
    its content cached and gives the block back; the second append then copies to the
    same block.  `record_cow` keeps both pairs, "a list mapping source block indices
    to destination block indices for the current copy-on-write operations"
    (`common.py:139`), so the step's copies have one destination in no defined order.
22. Async engine, pipelines (`NumEngines = 2`, `AbortsNotForgotten`).  The aborts of
    the tracker go to whichever step takes them first.  If one step has taken a new
    request and awaits `add_request_async`, the handler leaves, and the other
    engine's step takes the abort, then the abort precedes the request and the
    request runs on; `abort_request` says "Abort a request during next background
    loop iteration" (`async_llm_engine.py:219`).

23. GDN cache, short prefill steps (`gdn_prefix`, `RecurrentStateCurrent` without
    `s \notin historyLost =>`; chunks of 4 and 1 tokens, convolution of 2).  When a
    prefill step has fewer tokens than the convolution looks back, `qwen3_5.py:1045`
    zeroes the rest of the convolution state, where the state of "chunk 2+" is
    said to be what "carries last state_len tokens from prev chunk"
    (`qwen3_5.py:1036`).  The pass itself still starts from the previous history, but
    what follows it does not: the first decoded tokens are convolved with zeros
    instead of the tokens before, and fold that into the temporal state.  The last
    chunk of a prompt may be that short, and so may the replay behind a restored
    state (`GDN_DIRECT_MIN_REPLAY_TOKENS` is 2, the convolution looks back 3).  Later
    chunks and saved states are not affected, which `RecurrentStateCurrent` and
    `SavedStatesMatchKeys` do state.
24. Tool stream, unclosed parameters in large deltas (`tool_stream`,
    `NothingRetracted` without `MaxDelta = 1 \/ ~Unclosed(seen[i])`).  "Collect all
    complete parameters in one pass (speculative-decode safe)"
    (`qwen3coder_tool_parser.py:394`) takes the first `</parameter>` behind a
    parameter for its end, and looks for the next `<parameter=` only if there is none
    (lines 420 to 426).  When an unclosed parameter and a closed one behind it are in
    the text before the first is sent, the first is sent with the markup and value of
    the second; the parse of the whole text ends it at the second.
25. Reasoning, large deltas (`tool_stream`, `ContentAgrees` over all of `ChoiceIds`).
    What follows `</think>` in its delta is returned as content
    (`qwen3_reasoning_parser.py:94` to 100) and never shown to the tool parser's
    loop as a delta.  If a `<tool_call>` is in it, its markup is sent as content and
    so is the rest of the call, since the tool parser only begins a call on a delta
    with its start token (`qwen3coder_tool_parser.py:314`).

The service is launched with chunked prefill, prefix caching, the default policy,
one virtual engine and `--max-num-seqs 1`.  Numbers 3 to 5, 8, 11 to 15, 21
and 22 need another configuration; 17, 24 and 25 need deltas of several pieces,
which an engine that emits several tokens at once produces.

## 7. Not modelled, and the plan

Not modelled and not planned: kernels and numerics (a state or KV entry is its
provenance), `canonical_direct_segment_offsets` (shapes the numerics of a pass),
CUDA graph buffers, the tensors of the model runner, model definitions other than
the state handling of `qwen3_5.py`, statistics, logging, traces and metrics, LoRA,
prompt adapters, cross-attention tables, cache namespaces, Ray executors,
collectives, request validation and templates, other tool parsers, image building
and experiment scripts.  Kernels, model definitions and the parts of the vLLM fork
that the service does not use are by far the most of the source.

Left out of the modelled parts: lookahead slots, sliding windows and multi-step
scheduling; beam search; `LRUEvictor.update` (the block manager calls it for
active blocks only, which the evictor does not hold); the startup RPC and profiling
requests of the multiprocessing engine; a worker killed while it holds a queue's
lock; entries of `_gdn_request_*` that an abort leaves behind (a leak nothing
reads); asynchronous output processing, and with it finished requests inside a
batch, where `_clean_up_first_bs_blocks` would call a method that does not exist
(`mamba_cache.py:181`).

Next, in this order:

1. Theorems about the scheduler, `EachGroupInOnePlace` and `BlocksSuffice`; first the
   facts they need about sums over a set of groups.
2. Asynchronous output processing, as a composition of `Scheduler` and
   `MambaCache`.
