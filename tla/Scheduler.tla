------------------------------- MODULE Scheduler -------------------------------
(* The request scheduler: the queues waiting, running and swapped, one call of  *)
(* schedule() per engine step in its default, priority and chunked-prefill      *)
(* forms, admission, preemption by recomputation or by swapping, and what the   *)
(* engine does with the sampled tokens before it schedules again.               *)
(*                                                                              *)
(* A call of schedule() is a chain of actions, one per iteration of its loops;  *)
(* nothing else runs between them.  While the model executes, requests may      *)
(* arrive and be aborted.  Block tables are kept as counts: a group holds       *)
(* `shared` blocks that all of its sequences use and, per live sequence, the    *)
(* rest of the blocks its `seen` tokens fill.  Prompts have no common prefix,   *)
(* and the sequence a group starts with is the last of the group to stop.       *)
EXTENDS Integers, Sequences, FiniteSets, TLC, FiniteSetsExt, SequencesExt

CONSTANTS
    Requests,       \* request ids
    None,           \* no current group
    BlockSize,
    Configs         \* the configurations to start the engine with

VARIABLES
    config,                     \* the configuration, fixed at the start
    arrived,                    \* requests in arrival order
    waiting, running, swapped,  \* the three queues
    grp,                        \* sequence groups
    phase,                      \* where schedule() is
    cur, curTokens,             \* the group the running loop is fitting
    budget,                     \* SchedulingBudget
    out,                        \* the lists schedule() builds
    error                       \* the assertion or RuntimeError that ended the engine

(* What SchedulerConfig verifies, and the bound on n the chat server enforces. *)
ASSUME ConfigAssumption == \A c \in Configs :
    /\ {BlockSize, c.numGpuBlocks, c.tokenBudget, c.maxNumSeqs, c.maxModelLen}
         \subseteq Nat \ {0}
    /\ {c.numCpuBlocks, c.watermark} \subseteq Nat
    /\ c.maxNumSeqs <= c.tokenBudget
    /\ ~c.chunked => c.maxModelLen <= c.tokenBudget
    /\ c.chunked /\ c.caching => c.tokenBudget % BlockSize = 0
    /\ c.promptLen \in [Requests -> Nat \ {0}]
    /\ c.numSamples \in [Requests -> 1..c.maxNumSeqs]

PromptLen == config.promptLen            \* of each request
NumSamples == config.numSamples          \* sampling_params.n of each request
Priority == config.priority              \* of each request, smaller first
NumGpuBlocks == config.numGpuBlocks
NumCpuBlocks == config.numCpuBlocks
Watermark == config.watermark
TokenBudget == config.tokenBudget        \* max_num_batched_tokens
MaxNumSeqs == config.maxNumSeqs
MaxModelLen == config.maxModelLen
Chunked == config.chunked                \* chunked_prefill_enabled
Caching == config.caching                \* enable_prefix_caching
ByPriority == config.byPriority          \* policy = "priority"
PreemptionMode == config.preemptionMode  \* "auto" (None), "swap" or "recompute"

vars == <<config, arrived, waiting, running, swapped, grp, phase, cur, curTokens, budget,
          out, error>>

queues == <<waiting, running, swapped>>

(* A sequence group: `st` is the status of its unfinished sequences, `total`    *)
(* counts its sequences and `live` the unfinished ones.                         *)
NewGroup(r) ==
    [st |-> "new", dev |-> "none", total |-> 1, live |-> 1, len |-> PromptLen[r],
     seen |-> 0, shared |-> 0, computed |-> 0, decode |-> FALSE]

NoBudget == [tokens |-> 0, seqs |-> 0, tokenIds |-> {}, seqIds |-> {}]

NoOutput == [prefills |-> <<>>, decodes |-> <<>>, chunks |-> <<>>, preempted |-> <<>>,
             swappedOut |-> <<>>, inDecodes |-> <<>>, inChunks |-> <<>>,
             tokens |-> [r \in {} |-> 0]]

Init ==
    /\ config \in Configs
    /\ arrived = <<>> /\ waiting = <<>> /\ running = <<>> /\ swapped = <<>>
    /\ grp = [r \in Requests |-> NewGroup(r)]
    /\ phase = "idle" /\ cur = None /\ curTokens = 0
    /\ budget = NoBudget /\ out = NoOutput /\ error = "none"

--------------------------------------------------------------------------------
(* Block accounting.                                                            *)

Ceil(n) == (n + BlockSize - 1) \div BlockSize

(* Blocks a group occupies on the device it is on. *)
Held(r) == grp[r].shared + grp[r].live * (Ceil(grp[r].seen) - grp[r].shared)

Used(dev) == MapThenSumSet(Held, {r \in Requests : grp[r].dev = dev})
FreeGpu == NumGpuBlocks - Used("gpu")
FreeCpu == NumCpuBlocks - Used("cpu")

(* Blocks one sequence touches when its unseen tokens are appended: the last    *)
(* block counts whether or not it has room.                                     *)
Touched(r) ==
    LET first == BlockSize - (grp[r].seen % BlockSize)
        beyond == grp[r].len - grp[r].seen - first
    IN  1 + (beyond + BlockSize - 1) \div BlockSize

FaultCanAppend(r) == Touched(r) <= FreeGpu \* Fault: one sequence counted

CanAppend(r) == grp[r].live * Touched(r) <= FreeGpu

CanAllocate(r) ==
    LET need == Ceil(grp[r].len)
    IN  IF NumGpuBlocks - need < Watermark THEN "never"
        ELSE IF FreeGpu - need >= Watermark THEN "ok" ELSE "later"

(* Full blocks are counted per sequence, because a swap loses the sharing. *)
SwapTouched(r) == grp[r].live * (grp[r].seen \div BlockSize + Touched(r))

CanSwapIn(r) ==
    IF NumGpuBlocks < SwapTouched(r) THEN "never"
    ELSE IF FreeGpu - SwapTouched(r) >= Watermark THEN "ok" ELSE "later"

CanSwapOut(r) == FreeCpu >= SwapTouched(r)

(* Groups after a change of their block tables. *)
Allocated(g) == [g EXCEPT !.st = "running", !.dev = "gpu", !.seen = g.len]

(* append_slots: a shared block that is written is copied first. *)
Appended(g) ==
    [g EXCEPT !.seen = g.len,
              !.shared = IF g.len > g.seen /\ g.shared * BlockSize > g.seen
                         THEN g.seen \div BlockSize ELSE g.shared]

Recomputed(g) ==
    [g EXCEPT !.st = "waiting", !.dev = "none", !.seen = 0, !.shared = 0,
              !.computed = 0, !.decode = FALSE]

SwappedTo(g, dev, st) == [g EXCEPT !.st = st, !.dev = dev, !.shared = 0]

FaultFreed(g, st) == [g EXCEPT !.st = st] \* Fault: blocks are not returned

Freed(g, st) == [g EXCEPT !.st = st, !.dev = "none", !.seen = 0, !.shared = 0,
                          !.live = 0]

--------------------------------------------------------------------------------
(* Budget.                                                                      *)

(* get_max_num_running_seqs *)
MaxRunning(r) ==
    IF NumSamples[r] > grp[r].total THEN NumSamples[r] ELSE grp[r].live

WithTokens(b, r, n) ==
    IF r \in b.tokenIds THEN b
    ELSE [b EXCEPT !.tokens = @ + n, !.tokenIds = @ \cup {r}]

WithSeqs(b, r, n) ==
    IF r \in b.seqIds THEN b
    ELSE [b EXCEPT !.seqs = @ + n, !.seqIds = @ \cup {r}]

WithoutTokens(b, r, n) ==
    IF r \in b.tokenIds THEN [b EXCEPT !.tokens = @ - n, !.tokenIds = @ \ {r}] ELSE b

WithoutSeqs(b, r, n) ==
    IF r \in b.seqIds THEN [b EXCEPT !.seqs = @ - n, !.seqIds = @ \ {r}] ELSE b

FaultCanSchedule(n, seqs) == \* Fault: the sequences already running are not counted
    budget.tokens + n <= TokenBudget /\ seqs <= MaxNumSeqs

CanSchedule(n, seqs) ==
    budget.tokens + n <= TokenBudget /\ budget.seqs + seqs <= MaxNumSeqs

Uncomputed(r) ==
    IF grp[r].decode THEN grp[r].live ELSE grp[r].len - grp[r].computed

FaultNewTokens(r, chunking) == \* Fault: the last part of a prompt is rounded as well
    IF ~chunking \/ grp[r].live # 1 THEN Uncomputed(r)
    ELSE (Min({TokenBudget - budget.tokens, Uncomputed(r)}) \div BlockSize) * BlockSize

(* _get_num_new_tokens: with chunking, one sequence takes what the budget still *)
(* has, in whole blocks when prefixes are cached.                               *)
NewTokens(r, chunking) ==
    LET remaining == TokenBudget - budget.tokens
    IN  IF ~chunking \/ grp[r].live # 1 \/ Uncomputed(r) <= remaining
        THEN Uncomputed(r)
        ELSE IF Caching THEN (remaining \div BlockSize) * BlockSize ELSE remaining

PromptLimit ==
    IF Chunked THEN MaxModelLen ELSE Min({MaxModelLen, TokenBudget})

--------------------------------------------------------------------------------
(* Requests.                                                                    *)

Interruptible == phase \in {"idle", "executing"}

(* add_seq_group *)
AddSeqGroup(r) ==
    /\ Interruptible /\ grp[r].st = "new"
    /\ arrived' = Append(arrived, r)
    /\ waiting' = Append(waiting, r)
    /\ grp' = [grp EXCEPT ![r].st = "waiting"]
    /\ UNCHANGED <<config, running, swapped, phase, cur, curTokens, budget, out, error>>

Without(q, r) == SelectSeq(q, LAMBDA x : x # r)

(* abort_seq_group *)
AbortSeqGroup(r) ==
    /\ Interruptible /\ grp[r].st \in {"waiting", "running", "swapped"}
    /\ waiting' = Without(waiting, r)
    /\ running' = Without(running, r)
    /\ swapped' = Without(swapped, r)
    /\ grp' = [grp EXCEPT ![r] = Freed(@, "aborted")]
    /\ UNCHANGED <<config, arrived, phase, cur, curTokens, budget, out, error>>

--------------------------------------------------------------------------------
(* schedule().                                                                  *)

WhenNoPrefill == IF ByPriority THEN "priority" ELSE "running"

Begin ==
    /\ phase = "idle" /\ waiting \o running \o swapped # <<>>
    /\ out' = NoOutput
    /\ budget' = IF Chunked THEN NoBudget
                 ELSE [NoBudget EXCEPT !.seqs = MapThenSumSet(MaxRunning, Range(running)),
                                       !.seqIds = Range(running)]
    /\ phase' = IF Chunked THEN "running"
                ELSE IF swapped = <<>> THEN "prefills" ELSE WhenNoPrefill
    /\ UNCHANGED <<config, arrived, queues, grp, cur, curTokens, error>>

(* _schedule_prefills, the head of the waiting queue. *)
Prefilling == phase = "prefills" /\ waiting # <<>>

TooLong(r) == NewTokens(r, Chunked) > PromptLimit \/ CanAllocate(r) = "never"

Fits(r) ==
    LET n == NewTokens(r, Chunked)
    IN  CanAllocate(r) = "ok" /\ n # 0 /\ CanSchedule(n, MaxRunning(r))

PrefillIgnore ==
    /\ Prefilling /\ grp[Head(waiting)].st = "waiting" /\ TooLong(Head(waiting))
    /\ grp' = [grp EXCEPT ![Head(waiting)].st = "ignored"]
    /\ waiting' = Tail(waiting)
    /\ UNCHANGED <<config, arrived, running, swapped, phase, cur, curTokens, budget, out, error>>

PrefillAdmit ==
    LET r == Head(waiting)
        n == NewTokens(r, Chunked)
    IN  /\ Prefilling /\ grp[r].st = "waiting" /\ ~TooLong(r) /\ Fits(r)
        /\ waiting' = Tail(waiting)
        /\ grp' = [grp EXCEPT ![r] = Allocated(@)]
        /\ budget' = WithSeqs(WithTokens(budget, r, n), r, MaxRunning(r))
        /\ out' = [out EXCEPT !.prefills = Append(@, r), !.tokens = (r :> n) @@ @]
        /\ UNCHANGED <<config, arrived, running, swapped, phase, cur, curTokens, error>>

PrefillStop ==
    /\ phase = "prefills"
    /\ waiting # <<>> =>
         /\ grp[Head(waiting)].st = "waiting"
         /\ ~TooLong(Head(waiting)) /\ ~Fits(Head(waiting))
    /\ phase' = IF Chunked \/ out.prefills # <<>> THEN "assemble" ELSE WhenNoPrefill
    /\ UNCHANGED <<config, arrived, queues, grp, cur, curTokens, budget, out, error>>

(* _preempt *)
Mode(r) ==
    IF PreemptionMode # "auto" THEN PreemptionMode
    ELSE IF MaxRunning(r) = 1 THEN "recompute" ELSE "swap"

PreemptError(r) ==
    IF Mode(r) = "swap"
    THEN IF CanSwapOut(r) THEN "none" ELSE "no swap space"
    ELSE IF grp[r].live = 1 THEN "none" ELSE "recompute"

Preempted(r) ==
    IF Mode(r) = "swap" THEN SwappedTo(grp[r], "cpu", "swapped") ELSE Recomputed(grp[r])

(* _schedule_running: take the head, preempt from the tail until it fits. *)
RunNext ==
    /\ phase = "running" /\ cur = None /\ running # <<>>
    /\ NewTokens(Head(running), Chunked) # 0
    /\ cur' = Head(running) /\ curTokens' = NewTokens(Head(running), Chunked)
    /\ running' = Tail(running)
    /\ UNCHANGED <<config, arrived, waiting, swapped, grp, phase, budget, out, error>>

Victim == IF running # <<>> THEN Last(running) ELSE cur

RunPreempt ==
    /\ phase = "running" /\ cur # None /\ ~CanAppend(cur)
    /\ PreemptError(Victim) = "none"
    /\ grp' = [grp EXCEPT ![Victim] = Preempted(Victim)]
    /\ out' = IF Mode(Victim) = "swap"
              THEN [out EXCEPT !.swappedOut = Append(@, Victim)]
              ELSE [out EXCEPT !.preempted = Append(@, Victim)]
    /\ running' = IF running = <<>> THEN <<>> ELSE Front(running)
    /\ cur' = IF running = <<>> THEN None ELSE cur
    /\ budget' = WithoutSeqs(WithoutTokens(budget, cur, curTokens), cur, MaxRunning(cur))
    /\ UNCHANGED <<config, arrived, waiting, swapped, phase, curTokens, error>>

RunAppend ==
    /\ phase = "running" /\ cur # None /\ CanAppend(cur)
    /\ grp' = [grp EXCEPT ![cur] = Appended(@)]
    /\ out' = IF grp[cur].decode
              THEN [out EXCEPT !.decodes = Append(@, cur), !.tokens = (cur :> 1) @@ @]
              ELSE [out EXCEPT !.chunks = Append(@, cur),
                               !.tokens = (cur :> curTokens) @@ @]
    /\ budget' = LET b == WithTokens(budget, cur, curTokens)
                 IN  IF Chunked THEN WithSeqs(b, cur, MaxRunning(cur)) ELSE b
    /\ cur' = None
    /\ UNCHANGED <<config, arrived, queues, phase, curTokens, error>>

AfterSwapped == IF Chunked THEN "prefills" ELSE "assemble"

AfterRunning ==
    IF out.preempted = <<>> /\ out.swappedOut = <<>> THEN "swapped" ELSE AfterSwapped

RunStop ==
    /\ phase = "running" /\ cur = None
    /\ running # <<>> => NewTokens(Head(running), Chunked) = 0
    /\ phase' = AfterRunning
    /\ UNCHANGED <<config, arrived, queues, grp, cur, curTokens, budget, out, error>>

(* _schedule_swapped, always called without chunking. *)
SwapFits(r) ==
    CanSwapIn(r) = "ok" /\ CanSchedule(Uncomputed(r), MaxRunning(r))

SwapIn ==
    LET r == Head(swapped)
        n == Uncomputed(r)
        b == WithSeqs(WithTokens(budget, r, n), r, MaxRunning(r))
    IN  /\ phase = "swapped" /\ swapped # <<>> /\ SwapFits(r)
        /\ swapped' = Tail(swapped)
        /\ grp' = [grp EXCEPT ![r] = Appended(SwappedTo(@, "gpu", "running"))]
        /\ out' = IF grp[r].decode
                  THEN [out EXCEPT !.inDecodes = Append(@, r), !.tokens = (r :> 1) @@ @]
                  ELSE [out EXCEPT !.inChunks = Append(@, r), !.tokens = (r :> n) @@ @]
        /\ budget' = b
        /\ UNCHANGED <<config, arrived, waiting, running, phase, cur, curTokens, error>>

(* A group the pool can never hold again is failed; its CPU blocks stay. *)
SwapNever ==
    /\ phase = "swapped" /\ swapped # <<>> /\ CanSwapIn(Head(swapped)) = "never"
    /\ grp' = [grp EXCEPT ![Head(swapped)].st = "ignored"]
    /\ swapped' = Tail(swapped)
    /\ UNCHANGED <<config, arrived, waiting, running, phase, cur, curTokens, budget, out, error>>

SwapStop ==
    /\ phase = "swapped"
    /\ swapped # <<>> => CanSwapIn(Head(swapped)) # "never" /\ ~SwapFits(Head(swapped))
    /\ phase' = AfterSwapped
    /\ UNCHANGED <<config, arrived, queues, grp, cur, curTokens, budget, out, error>>

(* _schedule_priority_preemption: the head of the waiting queue displaces       *)
(* running groups of lower priority until it fits.                              *)
Position(r) == CHOOSE i \in 1..Len(arrived) : arrived[i] = r

Before(a, b) ==
    \/ Priority[a] < Priority[b]
    \/ Priority[a] = Priority[b] /\ Position(a) < Position(b)

PriorityStart ==
    /\ phase = "priority" /\ cur = None
    /\ running' = SortSeq(running, Before)
    /\ IF waiting = <<>>
       THEN phase' = "running" /\ UNCHANGED <<cur, waiting>>
       ELSE phase' = phase /\ cur' = Head(waiting) /\ waiting' = Tail(waiting)
    /\ UNCHANGED <<config, arrived, swapped, grp, curTokens, budget, out, error>>

Inverted ==
    /\ running # <<>> /\ Before(cur, Last(running))
    /\ ~(CanAllocate(cur) = "ok" /\ CanSchedule(Uncomputed(cur), MaxRunning(cur)))

PriorityPreempt ==
    LET v == Last(running)
    IN  /\ phase = "priority" /\ cur # None /\ Inverted
        /\ PreemptError(v) = "none"
        /\ grp' = [grp EXCEPT ![v] = Preempted(v)]
        /\ running' = Front(running)
        /\ waiting' = <<v>> \o waiting
        /\ budget' = WithoutSeqs(WithoutTokens(budget, v, Uncomputed(v)), v, MaxRunning(v))
        /\ UNCHANGED <<config, arrived, swapped, phase, cur, curTokens, out, error>>

FaultPriorityEnd == \* Fault: the displacing group is not put back
    /\ phase = "priority" /\ cur # None /\ ~Inverted
    /\ waiting' = SortSeq(waiting, Before)
    /\ cur' = None /\ phase' = "running"
    /\ UNCHANGED <<config, arrived, running, swapped, grp, curTokens, budget, out, error>>

PriorityEnd ==
    /\ phase = "priority" /\ cur # None /\ ~Inverted
    /\ waiting' = SortSeq(<<cur>> \o waiting, Before)
    /\ cur' = None /\ phase' = "running"
    /\ UNCHANGED <<config, arrived, running, swapped, grp, curTokens, budget, out, error>>

(* The end of _schedule_default and _schedule_chunked_prefill, and the loop of  *)
(* schedule() that builds the metadata.                                         *)
Scheduled == Range(out.prefills \o out.decodes \o out.chunks \o out.inDecodes
                   \o out.inChunks)

AssembleError ==
    IF budget.tokens > TokenBudget \/ budget.seqs > MaxNumSeqs THEN "budget"
    ELSE IF ~Chunked /\ out.chunks \o out.inChunks # <<>> THEN "chunk"
    ELSE IF \E r \in Scheduled : ~grp[r].decode /\ grp[r].total # 1 THEN "prefill"
    ELSE "none"

(* What schedule() raises where it stands: a failed assertion or, when the CPU  *)
(* blocks do not suffice for a swap, a RuntimeError.  The engine ends with it.  *)
Raised ==
    IF phase = "prefills" /\ waiting # <<>> /\ grp[Head(waiting)].st # "waiting"
    THEN "waiting"
    ELSE IF phase = "running" /\ cur # None /\ ~CanAppend(cur) THEN PreemptError(Victim)
    ELSE IF phase = "priority" /\ cur # None /\ Inverted THEN PreemptError(Last(running))
    ELSE IF phase = "assemble" THEN AssembleError
    ELSE "none"

Raise ==
    /\ Raised # "none"
    /\ error' = Raised /\ phase' = "failed"
    /\ UNCHANGED <<config, arrived, queues, grp, cur, curTokens, budget, out>>

FaultRequeued == out.preempted \o waiting \* Fault: extend at the wrong end

Requeued == Reverse(out.preempted) \o waiting

Assemble ==
    /\ phase = "assemble" /\ AssembleError = "none"
    /\ waiting' = Requeued
    /\ running' = running \o
         (IF Chunked
          THEN out.inDecodes \o out.inChunks \o out.decodes \o out.chunks \o out.prefills
          ELSE out.prefills \o out.decodes \o out.inDecodes)
    /\ swapped' = swapped \o out.swappedOut
    /\ phase' = IF Scheduled = {} THEN "idle" ELSE "executing"
    /\ budget' = NoBudget
    /\ UNCHANGED <<config, arrived, grp, cur, curTokens, out, error>>

--------------------------------------------------------------------------------
(* The model has run: computed tokens advance, a group whose prompt is complete *)
(* samples one token per sequence, n sequences after a prompt; `left` are the   *)
(* sequences that do not stop there.                                            *)
Sampled(g, r, left) ==
    IF left = 0 \/ g.len >= MaxModelLen THEN Freed(g, "finished")
    ELSE [g EXCEPT !.live = left, !.len = @ + 1, !.computed = g.len, !.decode = TRUE,
                   !.total = IF g.decode THEN @ ELSE @ + NumSamples[r] - 1,
                   !.shared = IF g.decode THEN @ ELSE Ceil(g.seen)]

Children(r) == IF grp[r].decode THEN grp[r].live ELSE NumSamples[r]

ProcessOutputs ==
    LET Alive == {r \in Scheduled : grp[r].st = "running"}
        Computed(r) == grp[r].computed + out.tokens[r]
    IN  /\ phase = "executing"
        /\ \E left \in [Alive -> 0..Max({NumSamples[r] : r \in Requests})] :
             /\ \A r \in Alive : left[r] <= Children(r)
             /\ grp' = [r \in Requests |->
                          IF r \notin Alive THEN grp[r]
                          ELSE IF Computed(r) < grp[r].len
                               THEN [grp[r] EXCEPT !.computed = Computed(r)]
                               ELSE Sampled(grp[r], r, left[r])]
        /\ running' = SelectSeq(running, LAMBDA r : grp'[r].st = "running")
        /\ phase' = "idle"
        /\ out' = NoOutput
        /\ UNCHANGED <<config, arrived, waiting, swapped, cur, curTokens, budget, error>>

Schedule ==
    \/ Begin
    \/ PrefillIgnore \/ PrefillAdmit \/ PrefillStop
    \/ PriorityStart \/ PriorityPreempt \/ PriorityEnd
    \/ RunNext \/ RunPreempt \/ RunAppend \/ RunStop
    \/ SwapIn \/ SwapNever \/ SwapStop
    \/ Assemble \/ Raise

Next ==
    \/ Schedule
    \/ ProcessOutputs
    \/ \E r \in Requests : AddSeqGroup(r) \/ AbortSeqGroup(r)

(* The engine loop runs while there are unfinished requests, and a model step   *)
(* returns.                                                                     *)
Fairness == WF_vars(Schedule \/ ProcessOutputs)

Spec == Init /\ [][Next]_vars /\ Fairness

--------------------------------------------------------------------------------
Ended == {"finished", "ignored", "aborted"}

TypeOK ==
    /\ grp \in [Requests ->
         [st : {"new", "waiting", "running", "swapped"} \cup Ended,
          dev : {"none", "gpu", "cpu"}, total : Nat \ {0}, live : Nat,
          len : 1..Max({MaxModelLen} \cup {PromptLen[r] : r \in Requests}),
          seen : Nat, shared : Nat, computed : Nat, decode : BOOLEAN]]
    /\ \A r \in Requests : /\ grp[r].computed <= grp[r].len
                           /\ grp[r].seen <= grp[r].len
    /\ cur \in Requests \cup {None}
    /\ \A r \in DOMAIN out.tokens : out.tokens[r] \in 1..TokenBudget

(* Groups are well formed, and every unfinished request is in exactly one queue *)
(* or in the one list or slot schedule() has moved it to, and the queue agrees  *)
(* with the status of the group: nothing is lost, scheduled twice or left       *)
(* behind when groups are preempted, swapped, aborted or put back.              *)
EachGroupInOnePlace ==
    LET lists == waiting \o running \o swapped \o
                 (IF phase \in {"idle", "executing"} THEN <<>>
                  ELSE out.prefills \o out.decodes \o out.chunks \o out.preempted
                       \o out.swappedOut \o out.inDecodes \o out.inChunks
                       \o (IF cur = None THEN <<>> ELSE <<cur>>))
    IN  /\ TypeOK
        /\ IsInjective(lists)
        /\ Range(lists) = {r \in Requests : grp[r].st \in {"waiting", "running", "swapped"}}
        /\ phase \in {"idle", "executing"} =>
             /\ \A r \in Range(waiting) : grp[r].st = "waiting" /\ grp[r].dev = "none"
             /\ \A r \in Range(running) : grp[r].st = "running" /\ grp[r].dev = "gpu"
             /\ \A r \in Range(swapped) : grp[r].st = "swapped" /\ grp[r].dev = "cpu"

(* The checks before append_slots, swap_in, swap_out and allocate count enough  *)
(* blocks: no allocator is ever asked for more blocks than it has, shared       *)
(* prompts, copies on write and the sharing lost by a swap included.            *)
BlocksSuffice == FreeGpu >= 0 /\ FreeCpu >= 0

(* No assertion of schedule() fails in these configurations: the batch keeps to *)
(* max_num_batched_tokens and max_num_seqs, a waiting group that is considered  *)
(* for admission and a group that is scheduled for prefill have one sequence,   *)
(* the default policy meets no running prefill and recomputation one sequence.  *)
NoAssertionFails == error \notin {"budget", "waiting", "prefill", "chunk", "recompute"}

(* Under the default policy admission and preemption by recomputation keep      *)
(* arrival order: between steps the running queue followed by the waiting queue *)
(* is in order of arrival.                                                      *)
FirstComeFirstServed ==
    phase = "idle" /\ ~Chunked /\ ~ByPriority /\ PreemptionMode # "swap" =>
      LET q == running \o waiting
      IN  \A i, j \in 1..Len(q) : i < j => Position(q[i]) < Position(q[j])

(* Groups that have ended hold no blocks, whether they stopped, were ignored or *)
(* were aborted in any queue.  The one exception is a swapped group that is     *)
(* failed because the pool can never hold it: its CPU blocks are not returned.  *)
EndedHoldNothing ==
    \A r \in Requests :
      grp[r].st \in Ended => grp[r].dev = "none" \/ (grp[r].st = "ignored" /\ grp[r].dev = "cpu")

(* Every request that arrives is finished, ignored or aborted: no preemption    *)
(* cycle, full pool or head of a queue holds a request for ever, as long as the *)
(* CPU has room for what is swapped out.                                        *)
EveryRequestEnds ==
    \A r \in Requests :
      grp[r].st = "waiting" ~> grp[r].st \in Ended \/ error = "no swap space"
================================================================================
