--------------------------- MODULE BroadcastQueue ---------------------------
(***************************************************************************)
(* What MessageQueue (shm_broadcast.py) promises its users, messages being *)
(* numbered in the order of enqueue: a local reader gets every message, in *)
(* order, and never lags further behind the writer than the ring buffer    *)
(* lets it; a remote reader, which has no flow control, gets messages in   *)
(* order but may miss some.                                                *)
(***************************************************************************)
EXTENDS Naturals

CONSTANTS Local, Remote, MaxLag, MaxMessages

VARIABLES
  published,   \* messages committed to the ring so far
  taken        \* reader -> the last message it got, 0 before the first

vars == <<published, taken>>

Init ==
  /\ published = 0
  /\ taken = [r \in Local \cup Remote |-> 0]

Publish ==
  /\ published < MaxMessages
  /\ \A r \in Local : published - taken[r] < MaxLag
  /\ published' = published + 1
  /\ UNCHANGED taken

Deliver(r) ==
  /\ taken[r] < published
  /\ taken' = [taken EXCEPT ![r] = @ + 1]
  /\ UNCHANGED published

DeliverRemote(r) == \E m \in taken[r] + 1 .. published :
  /\ taken' = [taken EXCEPT ![r] = m]
  /\ UNCHANGED published

Next == Publish \/ (\E r \in Local : Deliver(r)) \/ \E r \in Remote : DeliverRemote(r)

Spec == Init /\ [][Next]_vars /\ \A r \in Local : WF_vars(Deliver(r))
=============================================================================
