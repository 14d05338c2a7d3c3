----------------------------- MODULE AsyncEngine -----------------------------
(***************************************************************************)
(* AsyncLLMEngine (vllm/engine/async_llm_engine.py): the coroutines of the *)
(* API handlers, the background loop and its engine_step tasks, which meet *)
(* in the RequestTracker.  They share one event loop, so a step is what    *)
(* runs between two awaits.                                                *)
(*                                                                         *)
(* A request is its number; request ids are unique.  Its stream is the     *)
(* sequence of outputs put on it and how it was finished.  The             *)
(* LLMEngine underneath is reduced to the requests each scheduler holds,   *)
(* of which a step runs the first MaxSeqs; outputs are processed when the  *)
(* step ends (no asynchronous output processing).                          *)
(***************************************************************************)
EXTENDS Naturals, Sequences, FiniteSets, SequencesExt

CONSTANTS
  Requests,      \* requests the handlers may submit
  Outputs,       \* request -> the number of outputs that finish it
  Invalid,       \* requests the engine refuses with ValueError
  NumEngines,    \* pipeline_parallel_size
  MaxSeqs,       \* max_num_seqs
  Configs        \* how the engine is started, and the bound on its failures

Engines == 0 .. NumEngines - 1
Ends == {"stop", "error", "cancelled"}

ASSUME AsyncAssumption ==
  /\ Outputs \in [Requests -> Nat \ {0}] /\ Invalid \subseteq Requests
  /\ {NumEngines, MaxSeqs} \subseteq Nat \ {0}
  /\ Configs \subseteq [maxFailures : Nat, lazyStart : BOOLEAN]
  /\ NumEngines > 1 => \A c \in Configs : c.maxFailures = 0

VARIABLES
  config,     \* fixed at the start
  client,     \* request -> "new", "open" (its handler has the stream), "closed"
  newReqs,    \* _new_requests
  aborted,    \* _aborted_requests
  streams,    \* _request_streams, the requests in it
  out,        \* request -> the outputs put on its stream
  ended,      \* request -> how its stream was finished, "open" before that
  event,      \* new_requests_event
  held,       \* scheduler -> its unfinished requests
  done,       \* request -> outputs generated
  task,       \* scheduler -> its engine_step task
  loop,       \* pc of run_engine_loop
  errored,    \* _errored_with is set
  callback,   \* _log_task_completion is due
  failures

vars == <<config, client, newReqs, aborted, streams, out, ended, event, held, done, task, loop, errored,
          callback, failures>>
tracker == <<newReqs, aborted, streams, out, ended, event>>
engine == <<held, done>>

MaxFailures == config.maxFailures  \* bound on failing or overlong steps
LazyStart == config.lazyStart      \* start_engine_loop: the first request starts the loop

NoTask == [pc |-> "none", news |-> << >>, aborts |-> {}, batch |-> {}, more |-> FALSE]
FreshTask == [NoTask EXCEPT !.pc = "begin"]
Ended(r) == ended[r] # "open"

Init ==
  /\ config \in Configs
  /\ client = [r \in Requests |-> "new"]
  /\ newReqs = << >> /\ aborted = {} /\ streams = {} /\ event = FALSE
  /\ out = [r \in Requests |-> << >>]
  /\ ended = [r \in Requests |-> "open"]
  /\ held = [v \in Engines |-> << >>]
  /\ done = [r \in Requests |-> 0]
  /\ task = [v \in Engines |-> NoTask]
  /\ loop = IF LazyStart THEN "none" ELSE "top"
  /\ errored = FALSE /\ callback = FALSE /\ failures = 0

----------------------------------------------------------------------------
(* RequestTracker and AsyncStream *)

\* The queue q without the requests of rs, in its order.
Dropping(q, rs) ==
  LET kept[n \in 0 .. Len(q)] ==
        IF n = 0 THEN << >>
        ELSE IF q[n] \in rs THEN kept[n - 1] ELSE Append(kept[n - 1], q[n])
  IN  kept[Len(q)]

\* AsyncStream.finish of the streams of rs, unless they are finished.
Finish(rs, how) ==
  ended' = [r \in Requests |-> IF r \in rs /\ ~ Ended(r) THEN how ELSE ended[r]]

\* AsyncStream.put: nothing goes on a finished stream.
Put(rs, item) ==
  out' = [r \in Requests |-> IF r \in rs /\ ~ Ended(r) THEN Append(out[r], item[r]) ELSE out[r]]

\* Fault: the stream is ended but stays in _request_streams.
FaultAbortRequests(rs, how) ==
  /\ aborted' = aborted \cup rs
  /\ Finish(rs \cap streams, how)
  /\ UNCHANGED streams

\* abort_request, for each of rs.
AbortRequests(rs, how) ==
  /\ aborted' = aborted \cup rs
  /\ streams' = streams \ rs
  /\ Finish(rs \cap streams, how)

----------------------------------------------------------------------------
(* The handlers *)

Running == loop \notin {"none", "dead"}

\* add_request on a running loop.
AddRequest(r) ==
  /\ client[r] = "new" /\ Running
  /\ client' = [client EXCEPT ![r] = "open"]
  /\ newReqs' = Append(newReqs, r)
  /\ event' = TRUE
  /\ UNCHANGED <<config, aborted, streams, out, ended, engine, task, loop, errored,
                 callback, failures>>

\* add_request when the loop is not running and no error is recorded:
\* start_background_loop makes a new tracker and a new loop.
AddRequestStarts(r) ==
  /\ client[r] = "new" /\ ~ Running /\ ~ errored /\ LazyStart
  /\ client' = [client EXCEPT ![r] = "open"]
  /\ newReqs' = <<r>> /\ event' = TRUE /\ aborted' = {} /\ streams' = {}
  /\ task' = [v \in Engines |-> NoTask]
  /\ loop' = "top"
  /\ UNCHANGED <<config, out, ended, engine, errored, callback, failures>>

\* add_request raises AsyncEngineDeadError.
AddRefused(r) ==
  /\ client[r] = "new" /\ loop = "dead" /\ (errored \/ ~ LazyStart)
  /\ client' = [client EXCEPT ![r] = "closed"]
  /\ UNCHANGED <<config, tracker, engine, task, loop, errored, callback, failures>>

\* The handler leaves the stream early (a client disconnects): generator()
\* calls abort_request.
Disconnect(r) ==
  /\ client[r] = "open"
  /\ client' = [client EXCEPT ![r] = "closed"]
  /\ AbortRequests({r}, "cancelled")
  /\ UNCHANGED <<config, newReqs, out, event, engine, task, loop, errored, callback, failures>>

----------------------------------------------------------------------------
(* engine_step *)

\* Fault: a request that was aborted while it was queued goes to the engine.
FaultTaken(news) == news

\* The queued requests that get_new_and_aborted_requests hands on.
Taken(news) == Dropping(news, aborted)

\* get_new_and_aborted_requests.
StepBegin(v) ==
  LET news == Taken(newReqs)
  IN /\ task[v].pc = "begin"
     /\ newReqs' = << >> /\ aborted' = {}
     /\ streams' = streams \cup ToSet(news)
     /\ Finish(ToSet(newReqs) \ ToSet(news), "cancelled")
     /\ task' = [task EXCEPT ![v].pc = "add", ![v].news = news,
                             ![v].aborts = aborted \ ToSet(newReqs)]
     /\ UNCHANGED <<config, client, out, event, engine, loop, errored, callback, failures>>

\* costs.index(min(costs)) of _add_processed_request.
LeastLoaded == CHOOSE v \in Engines :
  \A u \in Engines : Len(held[v]) < Len(held[u]) \/ (Len(held[v]) = Len(held[u]) /\ v <= u)

\* add_request_async, or its ValueError: process_exception.
StepAdd(v) ==
  LET r == Head(task[v].news)
  IN /\ task[v].pc = "add" /\ task[v].news # << >>
     /\ task' = [task EXCEPT ![v].news = Tail(@)]
     /\ IF r \in Invalid
        THEN AbortRequests({r}, "error") /\ UNCHANGED held
        ELSE /\ held' = [held EXCEPT ![LeastLoaded] = Append(@, r)]
             /\ UNCHANGED <<aborted, streams, ended>>
     /\ UNCHANGED <<config, client, newReqs, out, event, done, loop, errored, callback, failures>>

\* _engine_abort: every scheduler drops the aborted requests.
AfterAborts(v) ==
  [u \in Engines |-> Dropping(held[u], task[v].aborts)]

\* _engine_abort, then the scheduling part of step_async.
StepSchedule(v) ==
  LET kept == AfterAborts(v)
      batch == ToSet(SubSeq(kept[v], 1, IF Len(kept[v]) < MaxSeqs THEN Len(kept[v]) ELSE MaxSeqs))
  IN /\ task[v].pc = "add" /\ task[v].news = << >>
     /\ held' = kept
     /\ task' = [task EXCEPT ![v].pc = IF batch = {} THEN "done" ELSE "execute",
                             ![v].aborts = {}, ![v].batch = batch, ![v].more = FALSE]
     /\ UNCHANGED <<config, client, tracker, done, loop, errored, callback, failures>>

\* The requests this step's output finishes.
Completed(rs) == {r \in rs : done[r] + 1 = Outputs[r]}

\* The model has run: process_request_outputs for what was not aborted.
StepOutputs(v) ==
  LET live == task[v].batch \cap ToSet(held[v])
      fin == Completed(live)
  IN /\ task[v].pc = "execute"
     /\ done' = [r \in Requests |-> IF r \in live THEN done[r] + 1 ELSE done[r]]
     /\ held' = [held EXCEPT ![v] = Dropping(@, fin)]
     /\ Put(live \cap streams, [r \in Requests |-> done[r] + 1])
     /\ Finish(fin \cap streams, "stop")
     /\ streams' = streams \ fin
     /\ task' = [task EXCEPT ![v].pc = "done", ![v].batch = {}, ![v].more = fin # live]
     /\ UNCHANGED <<config, client, newReqs, aborted, event, loop, errored, callback, failures>>

\* An exception other than ValueError: a worker died, a kernel failed.
StepFails(v) ==
  /\ task[v].pc = "execute" /\ failures < MaxFailures
  /\ failures' = failures + 1
  /\ task' = [task EXCEPT ![v].pc = "failed"]
  /\ UNCHANGED <<config, client, tracker, engine, loop, errored, callback>>

----------------------------------------------------------------------------
(* run_engine_loop *)

\* No task is in progress: the remote workers' loop is stopped and the loop
\* goes to wait_for_new_requests.
LoopTop ==
  /\ loop = "top"
  /\ loop' = IF \A v \in Engines : task[v].pc = "none" THEN "idle" ELSE "wait"
  /\ UNCHANGED <<config, client, tracker, engine, task, errored, callback, failures>>

\* wait_for_new_requests returns; engine_step of the first scheduler starts.
LoopWake ==
  /\ loop = "idle" /\ (newReqs # << >> \/ event)
  /\ event' = FALSE
  /\ task' = [task EXCEPT ![0] = FreshTask]
  /\ loop' = "wait"
  /\ UNCHANGED <<config, client, newReqs, aborted, streams, out, ended, engine, errored,
                 callback, failures>>

\* Fault: a step whose outputs are all finished ends the work of its scheduler.
FaultTasksAfter(d, last) ==
  [v \in Engines |-> IF v \in d THEN IF task[v].more THEN FreshTask ELSE NoTask ELSE task[v]]

\* The tasks in d have completed, last being handled last: each is started
\* again (result or has_unfinished_requests) or dropped, then the schedulers
\* without a task are started if the one that the variable virtual_engine
\* still names has requests.
TasksAfter(d, last) ==
  LET kept == {v \in Engines \ d : task[v].pc # "none"}
                \cup {v \in d : task[v].more \/ held[v] # << >>}
  IN [v \in Engines |->
        IF v \in d \cap kept \/ (v \notin kept /\ held[last] # << >>) THEN FreshTask
        ELSE IF v \in kept THEN task[v] ELSE NoTask]

LoopTasksDone(d, last) ==
  /\ loop = "wait"
  /\ \A v \in d : task[v].pc = "done"
  /\ task' = TasksAfter(d, last)
  /\ loop' = "top"
  /\ UNCHANGED <<config, client, tracker, engine, errored, callback, failures>>

\* task.result() raises: the loop ends, its done callback is due.
LoopFails ==
  /\ loop = "wait" /\ \E v \in Engines : task[v].pc = "failed"
  /\ loop' = "dead" /\ callback' = TRUE
  /\ UNCHANGED <<config, client, tracker, engine, task, errored, failures>>

\* ENGINE_ITERATION_TIMEOUT_S passes at an await of the step: the error is
\* recorded before the loop ends; the step's task is not cancelled.
LoopTimeout ==
  /\ loop = "wait" /\ failures < MaxFailures
  /\ \A v \in Engines : task[v].pc \in {"none", "add", "execute"}
  /\ failures' = failures + 1
  /\ loop' = "dead" /\ errored' = TRUE /\ callback' = TRUE
  /\ UNCHANGED <<config, client, tracker, engine, task>>

\* Fault: the error is recorded, the streams are not told.
FaultErrorCallback ==
  /\ callback
  /\ callback' = FALSE /\ errored' = TRUE
  /\ UNCHANGED <<config, client, tracker, engine, task, loop, failures>>

\* _log_task_completion -> _error_callback: propagate_exception to the streams
\* of the tracker there is now.
ErrorCallback ==
  /\ callback
  /\ callback' = FALSE /\ errored' = TRUE
  /\ AbortRequests(streams, "error")
  /\ UNCHANGED <<config, client, newReqs, out, event, engine, task, loop, failures>>

----------------------------------------------------------------------------
LoopStep ==
  \/ LoopTop \/ LoopWake \/ LoopFails
  \/ \E d \in SUBSET Engines : \E last \in d : LoopTasksDone(d, last)

TaskStep(v) == StepBegin(v) \/ StepAdd(v) \/ StepSchedule(v) \/ StepOutputs(v)

Next ==
  \/ (\E r \in Requests : AddRequest(r) \/ AddRequestStarts(r) \/ AddRefused(r) \/ Disconnect(r))
  \/ LoopStep \/ LoopTimeout \/ ErrorCallback
  \/ (\E v \in Engines : TaskStep(v) \/ StepFails(v))

\* The event loop serves every ready coroutine and the model's passes end.
Spec ==
  /\ Init /\ [][Next]_vars
  /\ WF_vars(LoopStep) /\ WF_vars(ErrorCallback) /\ \A v \in Engines : WF_vars(TaskStep(v))

----------------------------------------------------------------------------
(* Properties *)

\* The variables hold values of their types.
TypeOK ==
  /\ client \in [Requests -> {"new", "open", "closed"}]
  /\ newReqs \in Seq(Requests) /\ aborted \subseteq Requests /\ streams \subseteq Requests
  /\ \A v \in Engines : held[v] \in Seq(Requests)
  /\ \A r \in Requests : done[r] <= Outputs[r]
  /\ ended \in [Requests -> Ends \cup {"open"}]
  /\ loop \in {"none", "top", "idle", "wait", "dead"}
  /\ {event, errored, callback} \subseteq BOOLEAN

\* What a handler reads: the outputs 1, 2, ... without a gap, and a normal end
\* exactly when the last output is there.  An open stream belongs to a request
\* that a step is about to add or a scheduler holds, so that something will
\* still finish it; an aborted or finished request keeps no entry.
StreamsTracked ==
  /\ TypeOK
  /\ \A r \in Requests :
       /\ \A i \in DOMAIN out[r] : out[r][i] = i
       /\ ended[r] = "stop" <=> Len(out[r]) = Outputs[r]
  /\ \A r \in streams :
       /\ ~ Ended(r)
       /\ \E v \in Engines : r \in ToSet(task[v].news) \cup ToSet(held[v])

\* "Abort a request during next background loop iteration": a request whose
\* handler has left is held by the engine only while its abort is on its way,
\* whether the abort came before the request was taken, while it was being
\* added or while it ran.
AbortsNotForgotten ==
  \A r \in Requests : \A v \in Engines :
    client[r] = "closed" /\ r \in ToSet(held[v])
      => r \in aborted \cup UNION {task[u].aborts : u \in Engines}

\* generate "streams the outputs from the LLMEngine to the caller": every stream
\* the tracker knows ends, failures and timeouts included, and every stream
\* handed out ends, unless its handler has left or the engine has failed, also
\* when the request arrives while the loop decides to sleep.
EveryStreamEnds ==
  \A r \in Requests :
    /\ r \in streams ~> Ended(r)
    /\ client[r] = "open" ~> (client[r] = "closed" \/ Ended(r) \/ failures > 0)
=============================================================================
