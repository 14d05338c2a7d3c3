---------------------------- MODULE MCKvOffload ----------------------------
(* The CPU tier twice: under the allocator, where two requests share their  *)
(* content, of which the second generates what is prompt of the first, and  *)
(* one has its own, so that four contents compete for three GPU blocks and  *)
(* two CPU slots; and alone, under every client its specification allows.   *)
EXTENDS KvOffload, TLC
CONSTANTS a, b, c, d, partial
VARIABLE alone   \* is the tier driven without the allocator?

MCHashes == {a, b, c, d, partial}
MCRequests == 1..3
MCBlocks == <<<<a, b>>, <<a, b>>, <<c, d>>>>
MCPromptLen == <<2, 1, 2>>
BlockSymmetry == Permutations(GpuBlocks)

MCInit == OffloadInit /\ alone \in BOOLEAN /\ (alone => ~chunked)

MCNext ==
  \/ ~alone /\ OffloadNext /\ UNCHANGED alone
  \/ alone /\ Next /\ UNCHANGED <<gpuVars, alone>>

MCSpec == MCInit /\ [][MCNext]_<<allVars, alone>>
=============================================================================
