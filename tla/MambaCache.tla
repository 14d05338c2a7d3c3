----------------------------- MODULE MambaCache -----------------------------
(***************************************************************************)
(* MambaCacheManager (qwen3_6_scripts/mamba_cache.py): the slots that hold *)
(* the recurrent state of each sequence, and how every forward pass brings *)
(* the sequence at position i of its batch to slot i before the layers     *)
(* read and write the first slots of the tensors.                          *)
(*                                                                         *)
(* A state is the log of the forward passes folded into it; zeros are the  *)
(* empty log.  `expect` is the log each sequence should have.              *)
(*                                                                         *)
(* The scheduler's side (scheduler.py): requests are admitted while the    *)
(* sequences they may grow to fit max_num_seqs, and under the default      *)
(* policy a preempted request before any new one; a batch is the admitted  *)
(* prefills, or every running sequence.  Request ids are never reused; a   *)
(* request that was released stands for a fresh one here.                  *)
(***************************************************************************)
EXTENDS Naturals, Sequences, FiniteSets, SequencesExt

CONSTANTS
  Requests,     \* requests alive at a time
  Family,       \* request -> its sequences, the parent first (n of them)
  NumSlots,     \* max_batch_size of the cache = max_num_seqs, padded
  MaxForwards,  \* bound on the log of a sequence
  Priority,     \* is the scheduling policy "priority" (else "fcfs")?
  None

Slots == 0 .. NumSlots - 1
Seqs == UNION {ToSet(Family[r]) : r \in Requests}

ASSUME MambaAssumption ==
  /\ NumSlots \in Nat \ {0} /\ MaxForwards \in Nat \ {0} /\ Priority \in BOOLEAN
  /\ IsFiniteSet(Requests) /\ Family \in [Requests -> Seq(Seqs)]
  /\ \A r \in Requests : Family[r] # << >> /\ IsInjective(Family[r])
  /\ \A r, q \in Requests : r # q => ToSet(Family[r]) \cap ToSet(Family[q]) = {}
  /\ None \notin Slots \cup Seqs

VARIABLES
  index,      \* mamba_cache_indices_mapping, None for a sequence without slot
  state,      \* the cache tensors, by slot
  status,     \* of a request
  forked,     \* requests whose siblings exist
  preempted,  \* requests that were preempted since they began
  batch,      \* sequences of the forward pass, << >> between passes
  pos,        \* how many of them are in place
  expect      \* the log each sequence should have

vars == <<index, state, status, forked, preempted, batch, pos, expect>>

Statuses == {"new", "running", "preempted", "finished"}
With(st) == {r \in Requests : status[r] = st}
Parent(r) == Head(Family[r])
RequestOf(s) == CHOOSE r \in Requests : s \in ToSet(Family[r])
LiveSeqs(r) == IF r \in forked THEN Family[r] ELSE <<Parent(r)>>

Init ==
  /\ index = [s \in Seqs |-> None]
  /\ state = [i \in Slots |-> << >>]
  /\ status = [r \in Requests |-> "new"]
  /\ forked = {}
  /\ preempted = {}
  /\ batch = << >>
  /\ pos = 0
  /\ expect = [s \in Seqs |-> << >>]

----------------------------------------------------------------------------
(* The scheduler.                                                          *)

\* Orders in which the requests rs may be batched.
Orders(rs) == {o \in [1 .. Cardinality(rs) -> rs] : IsInjective(o)}

NumSeqs(rs) == Cardinality(UNION {ToSet(Family[r]) : r \in rs})

\* Fault: new requests overtake preempted ones under every policy.
AdmissibleOvertaking(rs) ==
  /\ rs # {}
  /\ rs \subseteq With("new") \cup With("preempted")
  /\ NumSeqs(rs \cup With("running")) <= NumSlots

\* Admission: max_num_seqs, and a preempted request waits at the front unless
\* the queue is sorted by priority.
Admissible(rs) ==
  /\ rs # {}
  /\ rs \subseteq With("new") \cup With("preempted")
  /\ Priority \/ rs \cap With("new") = {} \/ With("preempted") \subseteq rs
  /\ NumSeqs(rs \cup With("running")) <= NumSlots

\* _release_finished_requests, and the batch of the pass.
BeginForward(rs, order) ==
  LET keep(s) == status[RequestOf(s)] # "finished"
      seqs    == FlattenSeq([i \in DOMAIN order |-> LiveSeqs(order[i])])
  IN  /\ batch = << >>
      /\ \/ Admissible(rs)
         \/ rs = With("running") /\ rs # {}
      /\ \A i \in DOMAIN seqs :
           index[seqs[i]] # None => Len(state[index[seqs[i]]]) < MaxForwards
      /\ index' = [s \in Seqs |-> IF keep(s) THEN index[s] ELSE None]
      /\ status' = [r \in Requests |->
                      CASE r \in rs                -> "running"
                        [] status[r] = "finished" -> "new"
                        [] OTHER                  -> status[r]]
      /\ forked' = forked \ With("finished")
      /\ preempted' = preempted \ With("finished")
      /\ batch' = seqs
      /\ pos' = 0
      /\ UNCHANGED <<state, expect>>

\* A request ends: stopped, or aborted (also while it waits preempted).
Finish(r) ==
  /\ batch = << >>
  /\ status[r] \in {"running", "preempted"}
  /\ status' = [status EXCEPT ![r] = "finished"]
  /\ expect' = [s \in Seqs |-> IF s \in ToSet(Family[r]) THEN << >> ELSE expect[s]]
  /\ UNCHANGED <<index, state, forked, preempted, batch, pos>>

\* _preempt_by_recompute, for groups of one sequence: another running request
\* needs the blocks, or a waiting one of higher priority the place.
Preempt(r) ==
  /\ batch = << >>
  /\ status[r] = "running"
  /\ Len(Family[r]) = 1
  /\ \/ Cardinality(With("running")) > 1
     \/ Priority /\ With("new") # {}
  /\ status' = [status EXCEPT ![r] = "preempted"]
  /\ preempted' = preempted \cup {r}
  /\ expect' = [expect EXCEPT ![Parent(r)] = << >>]
  /\ UNCHANGED <<index, state, forked, batch, pos>>

----------------------------------------------------------------------------
(* _assign_seq_id_to_mamba_cache_in_specific_dest, one sequence after the  *)
(* other.                                                                  *)

Occupied == {index[s] : s \in Seqs} \ {None}
IsFirstFree(i) == i \in Slots \ Occupied /\ \A j \in 0 .. i - 1 : j \in Occupied

Assigning == batch # << >> /\ pos < Len(batch)
Dest == pos
Current == batch[pos + 1]
Mapped(r) == {s \in ToSet(Family[r]) : index[s] # None}

\* Faults: the mapping, or the state, is left behind.
MovedIndexStays(to) == index
MovedStateLost(to) == state

\* _move_out_if_already_occupied: the cache after it, `to` being the slot the
\* occupant goes to.
MovedIndex(to) ==
  [s \in Seqs |-> IF index[s] = Dest THEN to ELSE index[s]]
MovedState(to) ==
  IF Dest \in Occupied THEN [state EXCEPT ![to] = state[Dest]] ELSE state

\* The slot the occupant moves to; any when there is none.
MoveTarget(to) == IF Dest \in Occupied THEN IsFirstFree(to) ELSE to = Dest

\* The request has no slot yet: a zeroed one.
AssignNew(to) ==
  /\ Assigning
  /\ Mapped(RequestOf(Current)) = {}
  /\ MoveTarget(to)
  /\ index' = [MovedIndex(to) EXCEPT ![Current] = Dest]
  /\ state' = [MovedState(to) EXCEPT ![Dest] = << >>]
  /\ pos' = pos + 1
  /\ UNCHANGED <<status, forked, preempted, batch, expect>>

\* A sibling: a copy of the state of the request's first sequence, wherever
\* the move left that.
AssignSibling(to) ==
  LET first == MovedIndex(to)[Parent(RequestOf(Current))]
  IN  /\ Assigning
      /\ Mapped(RequestOf(Current)) # {}
      /\ index[Current] = None
      /\ MoveTarget(to)
      /\ index' = [MovedIndex(to) EXCEPT ![Current] = Dest]
      /\ state' = [MovedState(to) EXCEPT ![Dest] = MovedState(to)[first]]
      /\ pos' = pos + 1
      /\ UNCHANGED <<status, forked, preempted, batch, expect>>

\* _swap_pair_indices_and_mappings
SwappedIndex(i, j) ==
  [s \in Seqs |-> CASE index[s] = i -> j
                    [] index[s] = j -> i
                    [] OTHER        -> index[s]]

\* The sequence has a slot: it keeps its state, in the right place.
AssignExisting ==
  LET from == index[Current]
  IN  /\ Assigning
      /\ from # None
      /\ index' = SwappedIndex(from, Dest)
      /\ state' = [state EXCEPT ![Dest] = state[from], ![from] = state[Dest]]
      /\ pos' = pos + 1
      /\ UNCHANGED <<status, forked, preempted, batch, expect>>

\* The layers fold the pass into the slots 0 .. Len(batch) - 1; the first pass
\* of a request with siblings is followed by their fork.
Ready == batch # << >> /\ pos = Len(batch)

Run ==
  LET started == {RequestOf(s) : s \in ToSet(batch)}
      logOf(s) == IF s \in ToSet(batch) THEN Append(expect[s], s) ELSE expect[s]
  IN  /\ Ready
      /\ state' = [i \in Slots |->
                     IF i < Len(batch) THEN Append(state[i], batch[i + 1])
                     ELSE state[i]]
      /\ expect' = [s \in Seqs |->
                      IF RequestOf(s) \in started \ forked
                      THEN logOf(Parent(RequestOf(s))) ELSE logOf(s)]
      /\ forked' = forked \cup started
      /\ batch' = << >>
      /\ pos' = 0
      /\ UNCHANGED <<index, status, preempted>>

Next ==
  \/ \E rs \in SUBSET Requests : \E o \in Orders(rs) : BeginForward(rs, o)
  \/ \E r \in Requests : Finish(r)
  \/ \E r \in Requests : Preempt(r)
  \/ \E to \in Slots : AssignNew(to)
  \/ \E to \in Slots : AssignSibling(to)
  \/ AssignExisting
  \/ Run

Spec == Init /\ [][Next]_vars

----------------------------------------------------------------------------
(* Properties.                                                             *)

TypeOK ==
  /\ index \in [Seqs -> Slots \cup {None}]
  /\ \A i \in Slots : state[i] \in Seq(Seqs) /\ Len(state[i]) <= MaxForwards
  /\ status \in [Requests -> Statuses]
  /\ forked \subseteq Requests /\ preempted \subseteq Requests
  /\ batch \in Seq(Seqs) /\ pos \in 0 .. Len(batch)
  /\ \A s \in Seqs : expect[s] \in Seq(Seqs)

\* No two sequences share a slot, also while a pass is being prepared (moves,
\* swaps and copies keep the mapping one to one), and the sequences placed
\* early in a batch are not displaced by the placement of the later ones.
SlotsDistinct ==
  /\ TypeOK
  /\ \A s, t \in Seqs : index[s] # None /\ index[s] = index[t] => s = t
  /\ \A i \in 1 .. pos : index[batch[i]] = i - 1

\* Every sequence that was never preempted carries its own state and nothing
\* else, wherever other sequences' passes pushed it.
StatesFollowSequences ==
  \A s \in Seqs :
    /\ index[s] # None
    /\ status[RequestOf(s)] # "finished"
    /\ RequestOf(s) \notin preempted
    => state[index[s]] = expect[s]

\* "Couldn't find a free spot in the mamba cache! This should never happen":
\* when an occupant must be moved out of the way there is a free slot.
FreeSlotFound ==
  Assigning /\ index[Current] = None /\ Dest \in Occupied => Slots \ Occupied # {}

\* "For first prefill of a request: mamba_cache is zeros -> correct"
\* (qwen3_5.py): a sequence whose prompt is about to be computed from its
\* first token starts from zeros.  It does unless the request was preempted:
\* recomputation finds the slot, and the state, the request had before.
FirstPrefillFromZeros ==
  Ready => \A i \in DOMAIN batch : expect[batch[i]] = << >> => state[i - 1] = << >>
=============================================================================
