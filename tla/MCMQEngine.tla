----------------------------- MODULE MCMQEngine -----------------------------
(* A request of one and one of two outputs.                                    *)
EXTENDS MQEngine
MCOutputs == [r \in Requests |-> IF r = 1 THEN 1 ELSE 2]
=============================================================================
