----------------------------- MODULE WorkerPool -----------------------------
(***************************************************************************)
(* The worker processes of MultiprocessingGPUExecutor                      *)
(* (multiproc_gpu_executor.py, multiproc_worker_utils.py).  The caller's   *)
(* thread registers a future and puts a task on a worker's queue; the      *)
(* workers put results on one queue; the ResultHandler thread resolves the *)
(* futures; the WorkerMonitor thread waits for a process to die and takes  *)
(* the pool down.  A worker may die at any time and need not ever finish a *)
(* task (a collective operation whose peer is gone does not).              *)
(*                                                                         *)
(* Blocking is the synchronous executor: _run_workers puts one task on     *)
(* every queue, runs the method in the driver worker, which is the caller  *)
(* itself, and waits for the results.  The driver's method may raise, or   *)
(* never end, for the same reason as a worker's.  Otherwise the event loop *)
(* puts tasks one by one (execute_method_async) while earlier ones are     *)
(* awaited.                                                                *)
(* Queues are external: put() on a closed queue raises ValueError, and a   *)
(* dict that changes size while it is iterated raises RuntimeError.        *)
(***************************************************************************)
EXTENDS Naturals, Sequences, FiniteSets

CONSTANTS
  NumWorkers,  \* world_size - 1
  MaxTasks,    \* bound on the tasks put on the queues
  MaxAsync,    \* the same for the asynchronous executor
  TERMINATE    \* _TERMINATE

Workers == 1 .. NumWorkers
Tasks == 1 .. MaxTasks

ASSUME PoolAssumption ==
  /\ NumWorkers \in Nat \ {0} /\ MaxTasks \in Nat /\ MaxAsync \in 0 .. MaxTasks
  /\ TERMINATE \notin Tasks \cup (Tasks \X {"value", "exception"})

VARIABLES
  taskQueue,   \* worker -> what its queue holds
  closed,      \* workers whose task queue is closed
  resultQueue, \* finished tasks and the sentinel
  tasks,       \* ResultHandler.tasks: tasks whose future is registered
  answer,      \* task -> what its future was set to
  accepted,    \* tasks that were put: somebody may wait for their future
  alive,       \* workers whose process runs
  busy,        \* worker -> the task it executes, 0 if none
  closing,     \* WorkerMonitor._close
  caller,      \* pc, the worker and the first task of the call, tasks used,
               \* and whether it is the synchronous executor (it stays so)
  monitor,     \* pc and the worker reached of the monitor thread
  handler      \* pc of the result thread, size and progress of its last loop

vars == <<taskQueue, closed, resultQueue, tasks, answer, accepted, alive, busy, closing,
          caller, monitor, handler>>
pool == <<taskQueue, closed, alive, busy>>

Blocking == caller.blocking

Init ==
  /\ taskQueue = [w \in Workers |-> << >>]
  /\ closed = {}
  /\ resultQueue = << >>
  /\ tasks = {}
  /\ answer = [t \in Tasks |-> "none"]
  /\ accepted = {}
  /\ alive = Workers
  /\ busy = [w \in Workers |-> 0]
  /\ closing = FALSE
  /\ caller \in [pc : {"idle"}, at : {1}, first : {1}, used : {0}, blocking : BOOLEAN]
  /\ monitor = [pc |-> "wait", at |-> 1]
  /\ handler = [pc |-> "results", size |-> 0, done |-> {}]

----------------------------------------------------------------------------
\* Does a loop over self.workers go on after w?
MoreAfter(w) == w < NumWorkers

----------------------------------------------------------------------------
(* The caller's thread *)

\* _run_workers, or execute_method_async of one worker.
Call(w) ==
  /\ caller.pc = "idle"
  /\ \/ Blocking /\ w = 1 /\ caller.used + NumWorkers <= MaxTasks
     \/ ~ Blocking /\ caller.used < MaxAsync
  /\ caller' = [caller EXCEPT !.pc = "register", !.at = w, !.first = caller.used + 1]
  /\ UNCHANGED <<pool, resultQueue, tasks, answer, accepted, closing, monitor, handler>>

\* _enqueue_task: the future is registered, then the task is put.
Register ==
  /\ caller.pc = "register"
  /\ tasks' = tasks \cup {caller.used + 1}
  /\ caller' = [caller EXCEPT !.pc = "put", !.used = @ + 1]
  /\ UNCHANGED <<pool, resultQueue, answer, accepted, closing, monitor, handler>>

PutTask ==
  /\ caller.pc = "put" /\ caller.at \notin closed
  /\ taskQueue' = [taskQueue EXCEPT ![caller.at] = Append(@, caller.used)]
  /\ accepted' = accepted \cup {caller.used}
  /\ caller' =
       IF ~ Blocking THEN [caller EXCEPT !.pc = "idle"]
       ELSE IF MoreAfter(caller.at) THEN [caller EXCEPT !.pc = "register", !.at = @ + 1]
       ELSE [caller EXCEPT !.pc = "driver", !.at = 1]
  /\ UNCHANGED <<closed, alive, busy, resultQueue, tasks, answer, closing, monitor, handler>>

\* Fault: the future of a task that could not be put stays registered.
FaultPutFails ==
  /\ caller.pc = "put" /\ caller.at \in closed
  /\ caller' = [caller EXCEPT !.pc = "idle"]
  /\ UNCHANGED <<pool, resultQueue, tasks, answer, accepted, closing, monitor, handler>>

\* The queue is closed: the future is dropped and ChildProcessError raised.
PutFails ==
  /\ caller.pc = "put" /\ caller.at \in closed
  /\ tasks' = tasks \ {caller.used}
  /\ caller' = [caller EXCEPT !.pc = "idle"]
  /\ UNCHANGED <<pool, resultQueue, answer, accepted, closing, monitor, handler>>

\* driver_worker_method(...) in the caller's own thread: it returns, raises past
\* the outputs of the workers, or goes on for ever.
DriverReturns ==
  /\ caller.pc = "driver"
  /\ caller' = [caller EXCEPT !.pc = "wait"]
  /\ UNCHANGED <<pool, resultQueue, tasks, answer, accepted, closing, monitor, handler>>

DriverRaises ==
  /\ caller.pc = "driver"
  /\ caller' = [caller EXCEPT !.pc = "idle"]
  /\ UNCHANGED <<pool, resultQueue, tasks, answer, accepted, closing, monitor, handler>>

\* output.get() for each output in turn; an exception ends the call.
GetOutput ==
  LET got == answer[caller.first + caller.at - 1]
  IN /\ caller.pc = "wait" /\ got # "none"
     /\ caller' = IF got = "value" /\ MoreAfter(caller.at)
                  THEN [caller EXCEPT !.at = @ + 1] ELSE [caller EXCEPT !.pc = "idle"]
     /\ UNCHANGED <<pool, resultQueue, tasks, answer, accepted, closing, monitor, handler>>

\* shutdown -> WorkerMonitor.close: the test of _close and its assignment are
\* not one step.
Shutdown ==
  /\ caller.pc = "idle" /\ ~ closing
  /\ caller' = [caller EXCEPT !.pc = "setClose"]
  /\ UNCHANGED <<pool, resultQueue, tasks, answer, accepted, closing, monitor, handler>>

SetClose ==
  /\ caller.pc = "setClose"
  /\ closing' = TRUE
  /\ caller' = [caller EXCEPT !.pc = "terminate", !.at = 1]
  /\ UNCHANGED <<pool, resultQueue, tasks, answer, accepted, monitor, handler>>

\* terminate_worker: the sentinel is put behind the tasks, or the process is
\* killed if the queue is closed; then the queue is closed.
TerminateWorker ==
  LET w == caller.at
  IN /\ caller.pc = "terminate"
     /\ IF w \in closed
        THEN alive' = alive \ {w} /\ UNCHANGED taskQueue
        ELSE taskQueue' = [taskQueue EXCEPT ![w] = Append(@, TERMINATE)] /\ UNCHANGED alive
     /\ closed' = closed \cup {w}
     /\ caller' = IF MoreAfter(w) THEN [caller EXCEPT !.at = @ + 1]
                  ELSE [caller EXCEPT !.pc = "closeResults"]
     /\ UNCHANGED <<busy, resultQueue, tasks, answer, accepted, closing, monitor, handler>>

CloseResults ==
  /\ caller.pc = "closeResults"
  /\ resultQueue' = Append(resultQueue, TERMINATE)
  /\ caller' = [caller EXCEPT !.pc = "idle"]
  /\ UNCHANGED <<pool, tasks, answer, accepted, closing, monitor, handler>>

----------------------------------------------------------------------------
(* The worker processes: _run_worker_process *)

TakeTask(w) ==
  /\ w \in alive /\ busy[w] = 0 /\ taskQueue[w] # << >>
  /\ taskQueue' = [taskQueue EXCEPT ![w] = Tail(@)]
  /\ IF Head(taskQueue[w]) = TERMINATE
     THEN alive' = alive \ {w} /\ UNCHANGED busy
     ELSE busy' = [busy EXCEPT ![w] = Head(taskQueue[w])] /\ UNCHANGED alive
  /\ UNCHANGED <<closed, resultQueue, tasks, answer, accepted, closing, caller, monitor, handler>>

\* The result, or the exception the method raised.
FinishTask(w) ==
  /\ w \in alive /\ busy[w] # 0
  /\ \E kind \in {"value", "exception"} :
       resultQueue' = Append(resultQueue, <<busy[w], kind>>)
  /\ busy' = [busy EXCEPT ![w] = 0]
  /\ UNCHANGED <<taskQueue, closed, alive, tasks, answer, accepted, closing, caller,
                 monitor, handler>>

Die(w) ==
  /\ w \in alive
  /\ alive' = alive \ {w}
  /\ UNCHANGED <<taskQueue, closed, busy, resultQueue, tasks, answer, accepted, closing,
                 caller, monitor, handler>>

----------------------------------------------------------------------------
(* WorkerMonitor.run *)

NoticeDeath ==
  /\ monitor.pc = "wait" /\ alive # Workers
  /\ monitor' = [monitor EXCEPT !.pc = IF closing THEN "done" ELSE "setClose"]
  /\ UNCHANGED <<pool, resultQueue, tasks, answer, accepted, closing, caller, handler>>

MonitorSetsClose ==
  /\ monitor.pc = "setClose"
  /\ closing' = TRUE
  /\ monitor' = [monitor EXCEPT !.pc = "kill"]
  /\ UNCHANGED <<pool, resultQueue, tasks, answer, accepted, caller, handler>>

\* Fault: the process is killed, its queue stays open.
FaultKillWorker ==
  LET w == monitor.at
  IN /\ monitor.pc = "kill"
     /\ alive' = alive \ {w}
     /\ monitor' = IF MoreAfter(w) THEN [monitor EXCEPT !.at = @ + 1]
                   ELSE [monitor EXCEPT !.pc = "closeResults"]
     /\ UNCHANGED <<taskQueue, closed, busy, resultQueue, tasks, answer, accepted,
                    closing, caller, handler>>

\* kill_worker, one worker after the other.
KillWorker ==
  LET w == monitor.at
  IN /\ monitor.pc = "kill"
     /\ closed' = closed \cup {w}
     /\ alive' = alive \ {w}
     /\ monitor' = IF MoreAfter(w) THEN [monitor EXCEPT !.at = @ + 1]
                   ELSE [monitor EXCEPT !.pc = "closeResults"]
     /\ UNCHANGED <<taskQueue, busy, resultQueue, tasks, answer, accepted, closing,
                    caller, handler>>

\* Fault: the monitor ends without stopping the result thread.
FaultMonitorClosesResults ==
  /\ monitor.pc = "closeResults"
  /\ monitor' = [monitor EXCEPT !.pc = "done"]
  /\ UNCHANGED <<pool, resultQueue, tasks, answer, accepted, closing, caller, handler>>

MonitorClosesResults ==
  /\ monitor.pc = "closeResults"
  /\ resultQueue' = Append(resultQueue, TERMINATE)
  /\ monitor' = [monitor EXCEPT !.pc = "done"]
  /\ UNCHANGED <<pool, tasks, answer, accepted, closing, caller, handler>>

----------------------------------------------------------------------------
(* ResultHandler.run *)

\* Set the future of a task unless it was dropped with its exception.
Resolve(t, kind) == answer' = [answer EXCEPT ![t] = kind]

HandleResult ==
  /\ handler.pc = "results" /\ resultQueue # << >> /\ Head(resultQueue) # TERMINATE
  /\ tasks' = tasks \ {Head(resultQueue)[1]}
  /\ Resolve(Head(resultQueue)[1], Head(resultQueue)[2])
  /\ resultQueue' = Tail(resultQueue)
  /\ UNCHANGED <<pool, accepted, closing, caller, monitor, handler>>

\* The sentinel: the loop over self.tasks.items() begins.
HandleTerminate ==
  /\ handler.pc = "results" /\ resultQueue # << >> /\ Head(resultQueue) = TERMINATE
  /\ resultQueue' = Tail(resultQueue)
  /\ handler' = [pc |-> "drain", size |-> Cardinality(tasks), done |-> {}]
  /\ UNCHANGED <<pool, tasks, answer, accepted, closing, caller, monitor>>

\* One turn of the loop: every remaining future gets ChildProcessError.
Drain ==
  /\ handler.pc = "drain" /\ Cardinality(tasks) = handler.size
  /\ IF tasks \subseteq handler.done
     THEN handler' = [handler EXCEPT !.pc = "done"] /\ UNCHANGED answer
     ELSE \E t \in tasks \ handler.done :
            /\ \A u \in tasks \ handler.done : t <= u
            /\ Resolve(t, "died")
            /\ handler' = [handler EXCEPT !.done = @ \cup {t}]
  /\ UNCHANGED <<pool, resultQueue, tasks, accepted, closing, caller, monitor>>

\* The dict changed size during the loop: RuntimeError ends the thread.
DrainFails ==
  /\ handler.pc = "drain" /\ Cardinality(tasks) # handler.size
  /\ handler' = [handler EXCEPT !.pc = "crashed"]
  /\ UNCHANGED <<pool, resultQueue, tasks, answer, accepted, closing, caller, monitor>>

----------------------------------------------------------------------------
\* What the caller does outside the driver's method.
CallerStep ==
  \/ Register \/ PutTask \/ PutFails \/ GetOutput \/ SetClose \/ TerminateWorker \/ CloseResults
MonitorStep == NoticeDeath \/ MonitorSetsClose \/ KillWorker \/ MonitorClosesResults
HandlerStep == HandleResult \/ HandleTerminate \/ Drain \/ DrainFails

Next ==
  \/ (\E w \in Workers : Call(w) \/ TakeTask(w) \/ FinishTask(w) \/ Die(w))
  \/ Shutdown \/ DriverReturns \/ DriverRaises
  \/ CallerStep \/ MonitorStep \/ HandlerStep

\* The threads of the engine process run; a worker finishes a task or not, and
\* so does the driver's method.
Spec ==
  /\ Init /\ [][Next]_vars
  /\ WF_vars(CallerStep) /\ WF_vars(MonitorStep) /\ WF_vars(HandlerStep)

----------------------------------------------------------------------------
(* Properties *)

\* The variables hold values of their types.
TypeOK ==
  /\ \A w \in Workers : taskQueue[w] \in Seq(Tasks \cup {TERMINATE})
  /\ closed \subseteq Workers /\ alive \subseteq Workers
  /\ tasks \subseteq Tasks /\ accepted \subseteq Tasks
  /\ answer \in [Tasks -> {"none", "value", "exception", "died"}]
  /\ busy \in [Workers -> 0 .. MaxTasks]
  /\ closing \in BOOLEAN
  /\ caller.used \in 0 .. MaxTasks /\ caller.at \in Workers /\ monitor.at \in Workers

\* ResultHandler.run, "Ensure that all waiters will receive an exception": the
\* loop over the futures begins when no task can be accepted any more ("Must be
\* done after worker task queues are all closed").  When it has run to its end, no
\* accepted task is without an answer; when a RuntimeError ended it half way, the
\* unanswered ones are futures of self.tasks that it had not come to, and no
\* others (that there are such is README, section 6).  Nor does self.tasks keep a
\* future that nothing will resolve because its task was never put.
FuturesResolved ==
  /\ TypeOK
  /\ handler.pc # "results" => closed = Workers
  /\ handler.pc = "done" => \A t \in accepted : answer[t] # "none"
  /\ handler.pc = "crashed" =>
       \A t \in accepted : answer[t] # "none" \/ t \in tasks \ handler.done
  /\ tasks \subseteq accepted \cup (IF caller.pc = "put" THEN {caller.used} ELSE {})

\* When a worker has died, nothing of a call of the synchronous executor that the
\* pool is responsible for hangs, even if no other worker ever finishes: putting
\* the tasks and getting the outputs come to an end, with an exception or without.
\* Only the driver's own method in between is not the pool's, and may be stuck in a
\* collective operation with the dead worker for ever.
CallReturns ==
  (caller.pc \notin {"idle", "driver"} /\ alive # Workers) ~> caller.pc \in {"idle", "driver"}

\* "Ensure that all waiters will receive an exception": once a worker has died
\* every accepted task is answered.  It fails: when a call registers its future
\* while the handler loops over them, the RuntimeError of the loop ends the
\* handler and the rest are never answered (README, section 6).
WaitersAnswered == \A t \in Tasks : (t \in accepted /\ alive # Workers) ~> answer[t] # "none"
=============================================================================
