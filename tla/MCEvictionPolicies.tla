------------------------ MODULE MCEvictionPolicies ------------------------
(* EvictionPolicies on a small instance; block ids are numbers because the  *)
(* frequency policy breaks ties by them.                                    *)
EXTENDS EvictionPolicies
===========================================================================
