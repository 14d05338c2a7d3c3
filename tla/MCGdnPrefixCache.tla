-------------------------- MODULE MCGdnPrefixCache --------------------------
(* GdnPrefixCache on a small instance; blocks are interchangeable.          *)
EXTENDS GdnPrefixCache, TLC

CONSTANTS x, y

LongPrompts ==
  {<<x, x, x, x, x, x, x, x>>, <<x, x, x, x, x, x, y, y>>, <<y, y, y, y, y>>}

\* Prompts that share an aligned branch short of their final capture key.
BranchPrompts ==
  {<<x, x, x, x, x, x, x>>, <<x, x, x, x, y, y, y, y>>, <<y, y, x, x, x, x, x>>}

MCPrompts == LongPrompts \cup BranchPrompts

\* The default policy, and the one that captures repeated branches.
Fine == [policy |-> "fine32", restoreMode |-> "direct", alignment |-> 2,
         capacity |-> 2, prompts |-> LongPrompts]
Admission == [policy |-> "admission64", restoreMode |-> "hybrid64", alignment |-> 4,
              capacity |-> 2, prompts |-> BranchPrompts]
MCConfigs == {Fine, Admission}

\* Room for every state.
Ample == {[Fine EXCEPT !.capacity = 3]}

Symmetry == Permutations(Blocks)
=============================================================================
