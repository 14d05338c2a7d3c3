------------------------------ MODULE MCScheduler ------------------------------
(* Small instances of Scheduler: three requests under the default policy with   *)
(* recomputation and with swapping, under the priority policy and with chunked  *)
(* prefill; and prompts longer than the model's limit or than the whole pool.   *)
EXTENDS Scheduler

Default ==
    [promptLen |-> <<2, 2, 1>>, numSamples |-> <<1, 1, 1>>, priority |-> <<0, 0, 0>>,
     numGpuBlocks |-> 3, numCpuBlocks |-> 0, watermark |-> 0, tokenBudget |-> 6,
     maxNumSeqs |-> 3, maxModelLen |-> 6, chunked |-> FALSE, caching |-> FALSE,
     byPriority |-> FALSE, preemptionMode |-> "auto"]

Swapping ==
    [Default EXCEPT !.numSamples = <<2, 1, 1>>, !.numGpuBlocks = 4, !.numCpuBlocks = 6,
                    !.tokenBudget = 5, !.maxModelLen = 5, !.preemptionMode = "swap"]

ByPriorities ==
    [Default EXCEPT !.priority = <<2, 1, 0>>, !.maxNumSeqs = 2, !.byPriority = TRUE]

Chunking ==
    [Default EXCEPT !.promptLen = <<1, 6, 1>>, !.numGpuBlocks = 5, !.tokenBudget = 4,
                    !.maxNumSeqs = 2, !.maxModelLen = 7, !.chunked = TRUE, !.caching = TRUE]

Oversized ==
    [Default EXCEPT !.promptLen = <<4, 3, 1>>, !.numGpuBlocks = 1, !.maxModelLen = 3]

MCConfigs == {Default, Swapping, ByPriorities, Chunking, Oversized}
================================================================================
