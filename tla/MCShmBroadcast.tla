--------------------------- MODULE MCShmBroadcast ---------------------------
(* One local reader pair, a remote one, and a ring that wraps around.        *)
EXTENDS ShmBroadcast
=============================================================================
