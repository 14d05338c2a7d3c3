--------------------------- MODULE GdnPrefixCache ---------------------------
(***************************************************************************)
(* The cache of recurrent (GDN) states that decides how much of a cached   *)
(* prompt may be skipped: the scheduler's policy index                     *)
(* (qwen3_6_scripts/gdn_prefix.py and its use in scheduler.py), the states *)
(* each worker keeps under the same keys (qwen3_5.py) and the running      *)
(* state of a request (mamba_cache.py), on top of the KV blocks of         *)
(* PrefixCachingAllocator.                                                 *)
(*                                                                         *)
(* A key is the token prefix it stands for; its block count is implied.  A *)
(* recurrent state is where it comes from: the temporal state is the       *)
(* sequence of tokens folded into it, each with the tokens the causal      *)
(* convolution saw in front of it, and the convolution state is the last   *)
(* ConvLen tokens, with zeros (None) in front of the first.  So folding a  *)
(* token twice, starting from another request's state or losing the        *)
(* history of the convolution shows.                                       *)
(*                                                                         *)
(* The worker takes GDN actions for one prefill per batch only, and the    *)
(* service is launched with one sequence at a time (max_num_seqs = 1): a   *)
(* step schedules one sequence, with the whole token budget.               *)
(***************************************************************************)
EXTENDS PrefixCachingAllocator, FiniteSetsExt

CONSTANTS
  GdnConfigs,    \* the configurations to start the service with
  Budget,        \* max_num_batched_tokens
  ConvLen        \* state_len: linear_conv_kernel_dim - 1 (3, with blocks of 16)

ASSUME GdnAssumption ==
  /\ Budget \in Nat \ {0} /\ Budget % BlockSize = 0
  /\ ConvLen \in Nat /\ ConvLen <= BlockSize
  /\ \A c \in GdnConfigs :
       /\ c.policy \in {"fine32", "admission64"}
       /\ c.restoreMode \in {"direct", "hybrid64", "chunk64"}
       /\ c.alignment \in Nat \ {0} /\ c.alignment % BlockSize = 0
       /\ c.capacity \in Nat /\ c.capacity > 1 /\ c.prompts \subseteq Prompts
  /\ None \notin Tokens

VARIABLES
  config,      \* one of GdnConfigs, fixed at the start
  resident,    \* _resident: keys from least to most recently used
  saved,       \* the workers' _gdn_prefix_cache: key -> state, partial
  restoreKey,  \* _gdn_request_restore_keys (NoKey: none)
  targets,     \* _gdn_request_capture_targets
  stage,       \* what the next forward pass of a sequence is
  mamba,       \* the request's state slot, zeros when it has none yet
  historyLost  \* history variable: the sequences of which a prefill step shorter
               \* than ConvLen has replaced earlier tokens by zeros

gdnOnly == <<resident, saved, restoreKey, targets, stage, mamba, historyLost>>
gdnVars == <<vars, config, gdnOnly>>

Policy == config.policy            \* gdn_prefix_policy
RestoreMode == config.restoreMode
Alignment == config.alignment      \* _gdn_replay_alignment, in tokens
GdnCapacity == config.capacity     \* number of states kept (32 or 64)

NoKey == << >>
Stages == {"none", "first", "prefill", "decode"}

\* conv_state when nothing has been computed.
NoHistory == [j \in 1 .. ConvLen |-> None]

\* The ConvLen tokens in front of token o + 1 of `new`, when `conv` is what
\* came before `new` (padded[o : o + state_len]; cat[-state_len:] when decoding).
Carried(conv, new, o) ==
  [j \in 1 .. ConvLen |-> IF o + j > ConvLen THEN new[o + j - ConvLen] ELSE conv[o + j]]

\* n tokens of `new` folded, each with its history.
Folded(conv, new, n) ==
  [i \in 1 .. n |-> [history |-> Carried(conv, new, i - 1), token |-> new[i]]]

\* The state of the tokens t, folded in one pass from zeros.
StateOf(t) ==
  [conv |-> Carried(NoHistory, t, Len(t)), temporal |-> Folded(NoHistory, t, Len(t))]

ZeroState == StateOf(<< >>)

GdnInit ==
  /\ Init /\ chunked
  /\ config \in GdnConfigs
  /\ resident = << >>
  /\ saved = [k \in {} |-> << >>]
  /\ restoreKey = [s \in Seqs |-> NoKey]
  /\ targets = [s \in Seqs |-> {}]
  /\ stage = [s \in Seqs |-> "none"]
  /\ mamba = [s \in Seqs |-> ZeroState]
  /\ historyLost = {}

----------------------------------------------------------------------------
(* gdn_prefix.py                                                           *)

MinReplay == 2   \* GDN_DIRECT_MIN_REPLAY_TOKENS

Resident == {resident[i] : i \in DOMAIN resident}

\* strict_prefix_block_count
StrictPrefixBlocks(n) == IF n <= 1 THEN 0 ELSE (n - 1) \div BlockSize

KeyAt(t, k) == IF k = 0 THEN NoKey ELSE HashAt(t, k)

\* final_capture_key of the first n tokens of t, by mode.
DirectFinalKey(t, n) ==
  LET k == StrictPrefixBlocks(n)
  IN  KeyAt(t, IF k > 0 /\ n - k * BlockSize < MinReplay THEN k - 1 ELSE k)

AlignedFinalKey(t, n) ==
  KeyAt(t, (((n - 1) \div Alignment) * Alignment) \div BlockSize)

FinalCaptureKey(t, n) ==
  IF RestoreMode \in {"direct", "hybrid64"}
  THEN DirectFinalKey(t, n) ELSE AlignedFinalKey(t, n)

\* restore_key_is_eligible
RestoreKeyEligible(key, t) ==
  LET aligned == Len(key) % Alignment = 0
      replay  == Len(t) - Len(key)
  IN  /\ replay > 0
      /\ CASE RestoreMode = "direct"   -> replay >= MinReplay
           [] RestoreMode = "hybrid64" ->
                replay >= MinReplay /\ (aligned \/ key = DirectFinalKey(t, Len(t)))
           [] RestoreMode = "chunk64"  -> aligned

Longest(keys) == IF keys = {} THEN NoKey
                 ELSE CHOOSE k \in keys : \A other \in keys : Len(other) <= Len(k)

\* The keys of the computed blocks a new request may be restored at.
LiveKeys(s) ==
  {key \in {HashAt(tokens[s], k) :
              k \in {j \in ComputedPrefix(s) :
                       j \in 1 .. StrictPrefixBlocks(Len(tokens[s]))}} :
     RestoreKeyEligible(key, tokens[s])}

\* GdnPrefixStatePolicy.select_restore
SelectRestore(s) == Longest(LiveKeys(s) \cap Resident)

\* Fault: using a key does not refresh it.
MoveNothing(order, key) ==
  IF \E i \in DOMAIN order : order[i] = key THEN order ELSE Append(order, key)

\* OrderedDict.move_to_end, or the insertion of a new key.
Without(order, key) ==
  IF \E i \in DOMAIN order : order[i] = key
  THEN LET at == CHOOSE i \in DOMAIN order : order[i] = key
       IN  [j \in 1 .. Len(order) - 1 |-> IF j < at THEN order[j] ELSE order[j + 1]]
  ELSE order

MoveToEnd(order, key) == Append(Without(order, key), key)

\* repeated_branch_candidate
RepeatedBranch(s) ==
  IF Policy = "admission64" /\ Longest(LiveKeys(s)) \notin Resident
  THEN {Longest(LiveKeys(s))} \ {NoKey} ELSE {}

\* should_capture_final
ShouldCaptureFinal(key) == Policy = "fine32" \/ key \notin Resident

CaptureTargets(s) ==
  LET final == FinalCaptureKey(tokens[s], Len(tokens[s]))
  IN  RepeatedBranch(s)
      \cup (IF final # NoKey /\ ShouldCaptureFinal(final) THEN {final} ELSE {})

\* admit, one key; the least recently used key makes room.
AdmitKey(order, key) ==
  LET longer == MoveToEnd(order, key)
  IN  IF Len(longer) > GdnCapacity THEN Tail(longer) ELSE longer

\* admit, the keys of a step in the order of their offsets.
Admit(order, keys) ==
  LET deep  == Longest(keys)
      first == Longest(keys \ {deep})
      once  == IF first = NoKey THEN order ELSE AdmitKey(order, first)
  IN  IF deep = NoKey THEN order ELSE AdmitKey(once, deep)

\* _plan_gdn_prefix_fast_forward (and _get_num_new_tokens): where a prefill
\* step of the tokens t that starts at position `from` would end.
StepLimit(t, from) ==
  LET nextBoundary == (from \div Budget + 1) * Budget
  IN  Min({Len(t), from + Budget}
          \cup (IF from > 0 /\ RestoreMode = "hybrid64" THEN {nextBoundary} ELSE {}))

\* _cap_gdn_capture_boundary: it ends at the first pending capture key.
CappedEnd(from, end, wanted) ==
  IF Policy # "admission64" THEN end
  ELSE Min({end} \cup {Len(k) : k \in {j \in wanted : from < Len(j)}})

----------------------------------------------------------------------------
(* The scheduler.                                                          *)

GdnBeginAllocate(s, prompt) ==
  /\ Scheduled = {} /\ Running = {} /\ prompt \in config.prompts
  /\ BeginAllocate(s, prompt)
  /\ UNCHANGED <<config, gdnOnly>>

AllocateBlock(s) ==
  /\ \/ AllocateHit(s)
     \/ \E b \in Blocks : AllocateMiss(s, b) \/ AllocateTail(s, b)
  /\ UNCHANGED <<config, gdnOnly>>

\* The end of _schedule_prefills for the request: restore key, capture
\* targets, fast-forward and cap.
GdnEndAllocate(s) ==
  LET key    == SelectRestore(s)
      wanted == CaptureTargets(s)
      from   == Len(key)
      end    == CappedEnd(from, StepLimit(tokens[s], from), wanted)
  IN  /\ EndAllocate(s, from \div BlockSize, end - from)
      /\ restoreKey' = [restoreKey EXCEPT ![s] = key]
      /\ targets' = [targets EXCEPT ![s] = wanted]
      /\ resident' = IF key = NoKey THEN resident ELSE MoveToEnd(resident, key)
      /\ stage' = [stage EXCEPT ![s] = "first"]
      /\ UNCHANGED <<config, saved, mamba, historyLost>>

GdnContinuePrefill(s) ==
  LET from == numComputed[s]
      end  == CappedEnd(from, Min({Len(tokens[s]), from + Budget}), targets[s])
  IN  /\ Scheduled = {}
      /\ stage[s] = "prefill"
      /\ ContinuePrefill(s, end - from)
      /\ UNCHANGED <<config, gdnOnly>>

Decode(s) ==
  /\ Scheduled = {}
  /\ stage[s] = "decode"
  /\ \E t \in Tokens :
       AppendInPlace(s, t) \/ \E b \in Blocks : AppendNewBlock(s, t, b)
  /\ UNCHANGED <<config, gdnOnly>>

\* A request finishes or is aborted.  The workers release its state slot with
\* the next forward pass, before they prepare another one.
GdnFree(s) ==
  /\ Free(s)
  /\ restoreKey' = [restoreKey EXCEPT ![s] = NoKey]
  /\ targets' = [targets EXCEPT ![s] = {}]
  /\ stage' = [stage EXCEPT ![s] = "none"]
  /\ mamba' = [mamba EXCEPT ![s] = ZeroState]
  /\ historyLost' = historyLost \ {s}
  /\ UNCHANGED <<config, resident, saved>>

----------------------------------------------------------------------------
(* A step of the workers.  schedule() admits the step's captures and sends *)
(* the keys that fell out; the workers drop those, restore, run the        *)
(* forward pass and save.                                                  *)

StepEnd(s) == numComputed[s] + chunk[s]

\* capture_points_for_step over the step's targets.
CaptureKeys(s) ==
  LET wanted == IF Policy = "fine32"
                THEN {FinalCaptureKey(tokens[s], StepEnd(s))} \ {NoKey}
                ELSE targets[s]
  IN  IF stage[s] = "decode" THEN {}
      ELSE {k \in wanted : Len(k) \in numComputed[s] + 1 .. StepEnd(s)}

\* Fault: the keys that fell out are not sent to the workers.
NoEvictKeys(s) == {}

EvictKeys(s) ==
  (Resident \cup CaptureKeys(s))
  \ {Admit(resident, CaptureKeys(s))[i] :
       i \in DOMAIN Admit(resident, CaptureKeys(s))}

AfterEviction(s) == [k \in DOMAIN saved \ EvictKeys(s) |-> saved[k]]

Restores(s) == stage[s] = "first" /\ restoreKey[s] # NoKey

\* Fault: the saved state is not copied into the slot.
BaseStateUnrestored(s) == mamba[s]

\* The state the forward pass starts from: a fresh slot is zeroed, an old one
\* is taken as it is.
BaseState(s) == IF Restores(s) THEN saved[restoreKey[s]] ELSE mamba[s]

StepTokens(s) == SubSeq(tokens[s], numComputed[s] + 1, StepEnd(s))

\* A prefill step of fewer than state_len tokens.
ShortPrefill(s) == stage[s] # "decode" /\ chunk[s] < ConvLen

\* The convolution state at position pos of the step: a window of the padded
\* input, except that a short prefill step leaves zeros, not what it started
\* from, in front of its tokens.
ConvAt(s, pos) ==
  Carried(IF ShortPrefill(s) /\ pos = StepEnd(s) THEN NoHistory ELSE BaseState(s).conv,
          StepTokens(s), pos - numComputed[s])

TemporalAt(s, pos) ==
  BaseState(s).temporal \o Folded(BaseState(s).conv, StepTokens(s), pos - numComputed[s])

\* Fault: a capture takes the state at the end of the step.
StateAtEnd(s, pos) == [conv |-> ConvAt(s, StepEnd(s)), temporal |-> TemporalAt(s, StepEnd(s))]

StateAt(s, pos) == [conv |-> ConvAt(s, pos), temporal |-> TemporalAt(s, pos)]

GdnExecute(s) ==
  /\ s \in Scheduled
  /\ Restores(s) => restoreKey[s] \in DOMAIN AfterEviction(s)  \* else it raises
  /\ Execute
  /\ resident' = Admit(resident, CaptureKeys(s))
  /\ saved' = [k \in DOMAIN AfterEviction(s) \cup CaptureKeys(s) |->
                 IF k \in CaptureKeys(s) THEN StateAt(s, Len(k)) ELSE saved[k]]
  /\ mamba' = [mamba EXCEPT ![s] = StateAt(s, StepEnd(s))]
  /\ historyLost' = IF ShortPrefill(s) /\ numComputed[s] > 0
                    THEN historyLost \cup {s} ELSE historyLost
  /\ stage' = [stage EXCEPT ![s] =
                 IF StepEnd(s) = Len(tokens[s]) THEN "decode" ELSE "prefill"]
  /\ IF StepEnd(s) = Len(tokens[s])
     THEN /\ restoreKey' = [restoreKey EXCEPT ![s] = NoKey]
          /\ targets' = [targets EXCEPT ![s] = {}]
     ELSE UNCHANGED <<restoreKey, targets>>
  /\ UNCHANGED config

GdnNext ==
  \/ \E s \in Seqs, prompt \in Prompts : GdnBeginAllocate(s, prompt)
  \/ \E s \in Seqs : AllocateBlock(s)
  \/ \E s \in Seqs : GdnEndAllocate(s)
  \/ \E s \in Seqs : GdnContinuePrefill(s)
  \/ \E s \in Seqs : Decode(s)
  \/ \E s \in Seqs : GdnFree(s)
  \/ \E s \in Seqs : GdnExecute(s)

GdnSpec == GdnInit /\ [][GdnNext]_gdnVars

----------------------------------------------------------------------------
(* Properties.                                                             *)

GdnTypeOK ==
  /\ TypeOK
  /\ Resident \subseteq Hashes /\ Len(resident) <= GdnCapacity
  /\ DOMAIN saved \subseteq Hashes
  /\ restoreKey \in [Seqs -> Hashes \cup {NoKey}]
  /\ \A s \in Seqs : targets[s] \subseteq Hashes /\ Cardinality(targets[s]) <= 2
  /\ stage \in [Seqs -> Stages]
  /\ historyLost \subseteq Seqs

\* The workers hold a state for exactly the keys the scheduler's policy counts
\* as resident, so neither does a restore miss ("scheduler requested a missing
\* GDN prefix state") nor do the workers keep states that nothing evicts.
WorkersMirrorPolicy ==
  GdnTypeOK /\ DOMAIN saved = Resident /\ Cardinality(Resident) = Len(resident)

\* Admitting a step's captures never evicts the state the same step restores.
RestoreSurvivesAdmission ==
  \A s \in Scheduled : Restores(s) => restoreKey[s] \in DOMAIN AfterEviction(s)

\* A saved state is the state of the prefix its key names, convolution history
\* included, whichever chunks, restores and captures it came from.
SavedStatesMatchKeys == \A k \in DOMAIN saved : saved[k] = StateOf(k)

\* m has folded the first n tokens of t, in their order, once each.
FoldsOnce(m, t, n) ==
  Len(m.temporal) = n /\ \A i \in 1 .. n : m.temporal[i].token = t[i]

\* "For first prefill of a request: mamba_cache is zeros -> correct.  For chunked
\* prefill chunk 2+: carries last state_len tokens from prev chunk"
\* (qwen3_5.py:1035): between steps the recurrent state of a running sequence
\* has folded exactly the tokens the sequence counts as computed, once each; and
\* it is the state that one unbroken pass over them gives, unless a prefill step
\* shorter than state_len dropped the history (qwen3_5.py:1045, against the
\* comment: README, section 6).  Only the last step of a prompt can be that short,
\* so no later chunk or saved state has such a history.
RecurrentStateCurrent ==
  Scheduled = {} =>
    \A s \in Running :
      stage[s] \in {"prefill", "decode"} =>
        /\ FoldsOnce(mamba[s], tokens[s], numComputed[s])
        /\ s \notin historyLost => mamba[s] = StateOf(Prefix(tokens[s], numComputed[s]))
        /\ s \in historyLost => stage[s] = "decode"
=============================================================================
