---------------------------- MODULE MCAsyncEngine ----------------------------
(* Three requests of one or two outputs, the last of them invalid; one engine *)
(* that fails, and one that is started by its first request.                  *)
EXTENDS AsyncEngine
MCOutputs == [r \in Requests |-> IF r = 1 THEN 1 ELSE 2]
MCConfigs == {[maxFailures |-> 1, lazyStart |-> FALSE], [maxFailures |-> 0, lazyStart |-> TRUE]}
=============================================================================
