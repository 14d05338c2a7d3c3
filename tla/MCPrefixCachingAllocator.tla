---------------------- MODULE MCPrefixCachingAllocator ----------------------
(* PrefixCachingAllocator on a small instance; blocks and sequences are     *)
(* interchangeable.                                                         *)
EXTENDS PrefixCachingAllocator, TLC

CONSTANTS x, y

\* Full and partial tails, sharing all, some and none of their blocks.
MCPrompts == {<<x, x, x>>, <<x, x, y>>, <<x, x, y, y>>, <<y, y, x, x>>}

Symmetry == Permutations(Blocks) \cup Permutations(Seqs)
=============================================================================
