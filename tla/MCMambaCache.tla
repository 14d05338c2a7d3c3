---------------------------- MODULE MCMambaCache ----------------------------
(* MambaCache on a small instance: a request of two sequences, and three of *)
(* one each.                                                                *)
EXTENDS MambaCache

MCRequests == {1, 2, 3, 4}
MCFamily == <<<<11, 12>>, <<21>>, <<31>>, <<41>>>>
=============================================================================
