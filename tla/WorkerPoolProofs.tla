-------------------------- MODULE WorkerPoolProofs --------------------------
(***************************************************************************)
(* Proof that the result thread answers the accepted tasks it reaches in   *)
(* its last loop, all of them if the loop is not broken off, and that no   *)
(* task is accepted behind it, for any number of workers and tasks.        *)
(***************************************************************************)
EXTENDS WorkerPool, SequenceTheorems, FiniteSetTheorems, TLAPS

Results == Tasks \X {"value", "exception"}

CallerStates ==
  [pc : {"idle", "register", "put", "driver", "wait", "setClose", "terminate", "closeResults"},
   at : Workers, first : Nat, used : 0 .. MaxTasks, blocking : BOOLEAN]
MonitorStates == [pc : {"wait", "setClose", "kill", "closeResults", "done"}, at : Workers]
HandlerStates ==
  [pc : {"results", "drain", "done", "crashed"}, size : Nat, done : SUBSET Tasks]

\* The records and queues that TypeOK leaves open.
Shapes ==
  /\ taskQueue \in [Workers -> Seq(Tasks \cup {TERMINATE})]
  /\ resultQueue \in Seq(Results \cup {TERMINATE})
  /\ caller \in CallerStates
  /\ monitor \in MonitorStates
  /\ handler \in HandlerStates

\* A call that is under way has task numbers left for the workers it has not
\* reached.
TasksLeft ==
  LET rest == IF Blocking THEN NumWorkers - caller.at ELSE 0
  IN /\ caller.pc = "register" => caller.used + rest < MaxTasks
     /\ caller.pc = "put" => caller.used + rest <= MaxTasks

\* What travels through the pool was put by the caller.
OnlyAccepted ==
  /\ \A w \in Workers : \A i \in 1 .. Len(taskQueue[w]) :
       taskQueue[w][i] # TERMINATE => taskQueue[w][i] \in accepted
  /\ \A w \in Workers : busy[w] # 0 => busy[w] \in accepted
  /\ \A i \in 1 .. Len(resultQueue) : resultQueue[i] # TERMINATE => resultQueue[i][1] \in accepted

\* Where a future is between its registration and its answer.
Registered ==
  /\ \A t \in accepted : answer[t] = "none" => t \in tasks
  /\ \A t \in accepted \cup tasks : t <= caller.used
  /\ caller.pc = "put" => caller.used \in tasks \ accepted
  /\ tasks \subseteq accepted \cup (IF caller.pc = "put" THEN {caller.used} ELSE {})

\* The sentinel is put on the result queue only behind closed task queues.
ClosedFirst ==
  /\ caller.pc = "terminate" => \A w \in Workers : w < caller.at => w \in closed
  /\ caller.pc = "closeResults" => closed = Workers
  /\ monitor.pc \in {"wait", "setClose"} => monitor.at = 1
  /\ monitor.pc = "kill" => \A w \in Workers : w < monitor.at => w \in closed
  /\ monitor.pc = "closeResults" => closed = Workers
  /\ \A i \in 1 .. Len(resultQueue) : resultQueue[i] = TERMINATE => closed = Workers
  /\ handler.pc # "results" => closed = Workers

\* The last loop of the result thread answers what it passes.
Drained ==
  /\ handler.pc \in {"drain", "crashed"} => \A t \in handler.done : answer[t] # "none"
  /\ handler.pc = "done" => \A t \in accepted : answer[t] # "none"

IInv == TypeOK /\ Shapes /\ TasksLeft /\ OnlyAccepted /\ Registered /\ ClosedFirst /\ Drained

-----------------------------------------------------------------------------
\* Facts about numbers and queues.
LEMMA WorkerNumbers ==
  /\ 1 \in Workers
  /\ \A w \in Workers : w \in Nat /\ w >= 1
  /\ \A w \in Workers : MoreAfter(w) => w + 1 \in Workers
  /\ \A v, w \in Workers : ~ MoreAfter(w) => v < w \/ v = w
  /\ Tasks \subseteq Nat \ {0}
BY PoolAssumption DEF Workers, MoreAfter, Tasks

LEMMA AppendElements ==
  ASSUME NEW S, NEW q \in Seq(S), NEW e \in S
  PROVE  /\ Append(q, e) \in Seq(S) /\ Len(Append(q, e)) = Len(q) + 1
         /\ \A i \in 1 .. Len(q) + 1 : Append(q, e)[i] = IF i <= Len(q) THEN q[i] ELSE e
BY AppendProperties

LEMMA TailElements ==
  ASSUME NEW S, NEW q \in Seq(S), q # << >>
  PROVE  /\ Tail(q) \in Seq(S) /\ Head(q) \in S /\ Head(q) = q[1] /\ 1 \in 1 .. Len(q)
         /\ \A i \in 1 .. Len(Tail(q)) : i + 1 \in 1 .. Len(q) /\ Tail(q)[i] = q[i + 1]
BY HeadTailProperties, EmptySeq

-----------------------------------------------------------------------------
\* The initial state satisfies the invariant.
LEMMA InitIInv == Init => IInv
<1> SUFFICES ASSUME Init PROVE IInv
  OBVIOUS
<1> USE PoolAssumption, WorkerNumbers DEF Init
<1>1. Shapes
  BY EmptySeq DEF Shapes, CallerStates, MonitorStates, HandlerStates
<1>2. TypeOK
  BY <1>1 DEF TypeOK, Shapes, CallerStates, MonitorStates
<1>3. TasksLeft /\ OnlyAccepted /\ Registered /\ ClosedFirst /\ Drained
  BY DEF TasksLeft, OnlyAccepted, Registered, ClosedFirst, Drained
<1> QED
  BY <1>1, <1>2, <1>3 DEF IInv

\* The caller's thread.
LEMMA CallIInv ==
  ASSUME IInv, NEW w \in Workers, Call(w)
  PROVE  IInv'
<1> USE DEF IInv, pool, Call
<1>1. TypeOK' /\ Shapes'
  <2>0. caller' \in CallerStates
    <3>1. caller \in CallerStates /\ caller.used + 1 \in Nat
      BY PoolAssumption DEF Shapes, CallerStates
    <3> QED
      BY <3>1 DEF CallerStates
  <2>1. Shapes'
    BY <2>0 DEF Shapes
  <2>2. TypeOK'
    BY PoolAssumption, WorkerNumbers, <2>1 DEF TypeOK, Shapes, CallerStates, MonitorStates
  <2> QED
    BY <2>1, <2>2
<1>2. TasksLeft'
  BY PoolAssumption, WorkerNumbers DEF TasksLeft, Blocking, Shapes, CallerStates
<1>3. OnlyAccepted' /\ Registered' /\ ClosedFirst' /\ Drained'
  BY DEF OnlyAccepted, Registered, ClosedFirst, Drained, Shapes, CallerStates
<1> QED
  BY <1>1, <1>2, <1>3

LEMMA RegisterIInv ==
  ASSUME IInv, Register
  PROVE  IInv'
<1> USE DEF IInv, pool, Register
<1>1. caller.used + 1 \in Tasks
  BY PoolAssumption, WorkerNumbers DEF TasksLeft, Blocking, Shapes, CallerStates, Tasks, Workers
<1>2. TypeOK' /\ Shapes'
  <2>0. caller' \in CallerStates
    <3>1. caller \in CallerStates /\ caller.used + 1 \in 0 .. MaxTasks
      BY <1>1, PoolAssumption DEF Shapes, Tasks
    <3> QED
      BY <3>1 DEF CallerStates
  <2>1. Shapes'
    BY <2>0 DEF Shapes
  <2>2. TypeOK'
    BY <1>1, PoolAssumption, <2>1 DEF TypeOK, Shapes, CallerStates, MonitorStates
  <2> QED
    BY <2>1, <2>2
<1>3. TasksLeft'
  BY PoolAssumption, WorkerNumbers DEF TasksLeft, Blocking, Shapes, CallerStates
<1>4. OnlyAccepted' /\ ClosedFirst' /\ Drained'
  BY DEF OnlyAccepted, ClosedFirst, Drained, Shapes, CallerStates
<1>5. Registered'
  BY WorkerNumbers DEF Registered, Shapes, CallerStates, TypeOK
<1> QED
  BY <1>1, <1>2, <1>3, <1>4, <1>5

LEMMA PutTaskIInv ==
  ASSUME IInv, PutTask
  PROVE  IInv'
<1> USE DEF IInv, pool, PutTask
<1>1. caller.used \in Tasks /\ caller.at \in Workers
  BY DEF Registered, TypeOK
<1>2. /\ taskQueue' \in [Workers -> Seq(Tasks \cup {TERMINATE})]
      /\ caller' \in CallerStates
  <2>1. taskQueue' \in [Workers -> Seq(Tasks \cup {TERMINATE})]
    BY <1>1 DEF Shapes
  <2>2. CASE MoreAfter(caller.at)
    BY <1>1, <2>1, <2>2, WorkerNumbers DEF Shapes, CallerStates
  <2>3. CASE ~ MoreAfter(caller.at)
    BY <1>1, <2>1, <2>3, WorkerNumbers DEF Shapes, CallerStates
  <2> QED
    BY <2>2, <2>3
<1>3. TypeOK' /\ Shapes'
  BY <1>1, <1>2 DEF TypeOK, Shapes, CallerStates
<1>4. TasksLeft'
  BY SMTT(30), <1>1, WorkerNumbers, PoolAssumption DEF TasksLeft, Blocking, Shapes, CallerStates
<1>5. OnlyAccepted'
  BY <1>1, AppendElements DEF OnlyAccepted, Shapes
<1>6. Registered'
  BY <1>1 DEF Registered, Shapes, CallerStates
<1>7. ClosedFirst' /\ Drained'
  BY <1>1 DEF ClosedFirst, Drained, Shapes, CallerStates
<1> QED
  BY <1>1, <1>2, <1>3, <1>4, <1>5, <1>6, <1>7

LEMMA PutFailsIInv ==
  ASSUME IInv, PutFails
  PROVE  IInv'
<1> USE DEF IInv, pool, PutFails
<1>1. TypeOK' /\ Shapes'
  BY DEF TypeOK, Shapes, CallerStates
<1>2. TasksLeft'
  BY DEF TasksLeft, Shapes, CallerStates
<1>3. OnlyAccepted' /\ Registered' /\ ClosedFirst' /\ Drained'
  BY DEF OnlyAccepted, Registered, ClosedFirst, Drained, Shapes, CallerStates
<1> QED
  BY <1>1, <1>2, <1>3

LEMMA DriverReturnsIInv ==
  ASSUME IInv, DriverReturns
  PROVE  IInv'
<1> USE DEF IInv, pool, DriverReturns
<1>1. TypeOK' /\ Shapes'
  BY DEF TypeOK, Shapes, CallerStates
<1>2. TasksLeft'
  BY DEF TasksLeft, Shapes, CallerStates
<1>3. OnlyAccepted' /\ Registered' /\ ClosedFirst' /\ Drained'
  BY DEF OnlyAccepted, Registered, ClosedFirst, Drained, Shapes, CallerStates
<1> QED
  BY <1>1, <1>2, <1>3

LEMMA DriverRaisesIInv ==
  ASSUME IInv, DriverRaises
  PROVE  IInv'
<1> USE DEF IInv, pool, DriverRaises
<1>1. TypeOK' /\ Shapes'
  BY DEF TypeOK, Shapes, CallerStates
<1>2. TasksLeft'
  BY DEF TasksLeft, Shapes, CallerStates
<1>3. OnlyAccepted' /\ Registered' /\ ClosedFirst' /\ Drained'
  BY DEF OnlyAccepted, Registered, ClosedFirst, Drained, Shapes, CallerStates
<1> QED
  BY <1>1, <1>2, <1>3

LEMMA GetOutputIInv ==
  ASSUME IInv, GetOutput
  PROVE  IInv'
<1> USE DEF IInv, pool, GetOutput
<1>1. TypeOK' /\ Shapes'
  BY WorkerNumbers DEF TypeOK, Shapes, CallerStates
<1>2. TasksLeft'
  BY DEF TasksLeft, Shapes, CallerStates
<1>3. OnlyAccepted' /\ Registered' /\ ClosedFirst' /\ Drained'
  BY DEF OnlyAccepted, Registered, ClosedFirst, Drained, Shapes, CallerStates
<1> QED
  BY <1>1, <1>2, <1>3

LEMMA ShutdownIInv ==
  ASSUME IInv, Shutdown
  PROVE  IInv'
<1> USE DEF IInv, pool, Shutdown
<1>1. TypeOK' /\ Shapes'
  BY DEF TypeOK, Shapes, CallerStates
<1>2. TasksLeft'
  BY DEF TasksLeft, Shapes, CallerStates
<1>3. OnlyAccepted' /\ Registered' /\ ClosedFirst' /\ Drained'
  BY DEF OnlyAccepted, Registered, ClosedFirst, Drained, Shapes, CallerStates
<1> QED
  BY <1>1, <1>2, <1>3

LEMMA SetCloseIInv ==
  ASSUME IInv, SetClose
  PROVE  IInv'
<1> USE DEF IInv, pool, SetClose
<1>1. TypeOK' /\ Shapes'
  BY WorkerNumbers DEF TypeOK, Shapes, CallerStates
<1>2. TasksLeft'
  BY DEF TasksLeft, Shapes, CallerStates
<1>3. OnlyAccepted' /\ Registered' /\ ClosedFirst' /\ Drained'
  BY WorkerNumbers DEF OnlyAccepted, Registered, ClosedFirst, Drained, Shapes, CallerStates
<1> QED
  BY <1>1, <1>2, <1>3

LEMMA TerminateWorkerIInv ==
  ASSUME IInv, TerminateWorker
  PROVE  IInv'
<1> USE DEF IInv, pool, TerminateWorker
<1>1. caller.at \in Workers
  BY DEF TypeOK
<1>2. /\ taskQueue' \in [Workers -> Seq(Tasks \cup {TERMINATE})]
      /\ caller' \in CallerStates
  <2>1. taskQueue' \in [Workers -> Seq(Tasks \cup {TERMINATE})]
    <3>1. CASE caller.at \in closed
      BY <3>1 DEF Shapes
    <3>2. CASE caller.at \notin closed
      <4>1. Append(taskQueue[caller.at], TERMINATE) \in Seq(Tasks \cup {TERMINATE})
        BY <1>1, AppendElements DEF Shapes
      <4> QED
        BY <1>1, <3>2, <4>1 DEF Shapes
    <3> QED
      BY <3>1, <3>2
  <2>2. CASE MoreAfter(caller.at)
    BY <1>1, <2>1, <2>2, WorkerNumbers DEF Shapes, CallerStates
  <2>3. CASE ~ MoreAfter(caller.at)
    BY <1>1, <2>1, <2>3, WorkerNumbers DEF Shapes, CallerStates
  <2> QED
    BY <2>2, <2>3
<1>3. TypeOK' /\ Shapes'
  BY <1>1, <1>2 DEF TypeOK, Shapes, CallerStates
<1>4. TasksLeft'
  BY DEF TasksLeft, Shapes, CallerStates
<1>5. OnlyAccepted'
  <2>1. CASE caller.at \in closed
    BY <2>1 DEF OnlyAccepted
  <2>2. CASE caller.at \notin closed
    <3>1. ASSUME NEW w \in Workers, NEW i \in 1 .. Len(taskQueue'[w]),
                 taskQueue'[w][i] # TERMINATE
          PROVE  taskQueue'[w][i] \in accepted
      BY SMTT(30), <1>1, <2>2, <3>1, AppendElements DEF OnlyAccepted, Shapes
    <3> QED
      BY <3>1 DEF OnlyAccepted
  <2> QED
    BY <2>1, <2>2
<1>6. Registered' /\ Drained'
  BY DEF Registered, Drained, Shapes, CallerStates
<1>7. ClosedFirst'
  <2>1. CASE MoreAfter(caller.at)
    <3>1. caller'.pc = "terminate" /\ caller'.at = caller.at + 1
      BY <2>1 DEF Shapes, CallerStates
    <3>2. ASSUME NEW w \in Workers, w < caller'.at
          PROVE  w \in closed'
      <4>1. w < caller.at \/ w = caller.at
        BY <1>1, <3>1, <3>2, WorkerNumbers
      <4> QED
        BY <4>1 DEF ClosedFirst
    <3>3. closed = Workers => closed' = Workers
      BY <1>1
    <3> QED
      BY <3>1, <3>2, <3>3 DEF ClosedFirst
  <2>2. CASE ~ MoreAfter(caller.at)
    BY <1>1, <2>2, WorkerNumbers DEF ClosedFirst, Shapes, CallerStates, TypeOK
  <2> QED
    BY <2>1, <2>2
<1> QED
  BY <1>1, <1>2, <1>3, <1>4, <1>5, <1>6, <1>7

LEMMA CloseResultsIInv ==
  ASSUME IInv, CloseResults
  PROVE  IInv'
<1> USE DEF IInv, pool, CloseResults
<1>1. TypeOK' /\ Shapes'
  <2>1. Shapes'
    <3>1. caller' \in CallerStates
      BY DEF Shapes, CallerStates
    <3>2. resultQueue' \in Seq(Results \cup {TERMINATE})
      BY AppendElements DEF Shapes
    <3> QED
      BY <3>1, <3>2 DEF Shapes
  <2>2. TypeOK'
    BY <2>1 DEF TypeOK, Shapes, CallerStates, MonitorStates
  <2> QED
    BY <2>1, <2>2
<1>2. TasksLeft' /\ Registered' /\ Drained'
  BY DEF TasksLeft, Registered, Drained, Shapes, CallerStates
<1>3. OnlyAccepted' /\ ClosedFirst'
  BY AppendElements DEF OnlyAccepted, ClosedFirst, Shapes, CallerStates
<1> QED
  BY <1>1, <1>2, <1>3

\* The workers.
LEMMA TakeTaskIInv ==
  ASSUME IInv, NEW w \in Workers, TakeTask(w)
  PROVE  IInv'
<1> USE DEF IInv, pool, TakeTask
<1>1. /\ taskQueue' \in [Workers -> Seq(Tasks \cup {TERMINATE})]
       /\ Head(taskQueue[w]) \in Tasks \cup {TERMINATE}
  BY TailElements DEF Shapes
<1>2. TypeOK' /\ Shapes'
  <2>1. Shapes'
    BY <1>1, PoolAssumption DEF Shapes, Tasks
  <2>2. TypeOK'
    <3>1. busy' \in [Workers -> 0 .. MaxTasks] /\ alive' \subseteq Workers
      <4>1. Tasks \subseteq 0 .. MaxTasks
        BY PoolAssumption DEF Tasks
      <4>2. CASE Head(taskQueue[w]) = TERMINATE
        BY <4>2 DEF TypeOK
      <4>3. CASE Head(taskQueue[w]) # TERMINATE
        BY <1>1, <4>1, <4>3 DEF TypeOK
      <4> QED
        BY <4>2, <4>3
    <3> QED
      BY <1>1, <3>1 DEF TypeOK
  <2> QED
    BY <2>1, <2>2
<1>3. OnlyAccepted'
  <2>1. ASSUME NEW v \in Workers, NEW i \in 1 .. Len(taskQueue'[v]),
               taskQueue'[v][i] # TERMINATE
        PROVE  taskQueue'[v][i] \in accepted
    BY <2>1, TailElements DEF OnlyAccepted, Shapes
  <2>2. ASSUME NEW v \in Workers, busy'[v] # 0
        PROVE  busy'[v] \in accepted
    BY <1>1, <2>2, TailElements DEF OnlyAccepted, Shapes, TypeOK
  <2> QED
    BY <2>1, <2>2 DEF OnlyAccepted
<1>4. TasksLeft' /\ Registered' /\ ClosedFirst' /\ Drained'
  BY DEF TasksLeft, Blocking, Registered, ClosedFirst, Drained
<1> QED
  BY <1>1, <1>2, <1>3, <1>4

LEMMA FinishTaskIInv ==
  ASSUME IInv, NEW w \in Workers, FinishTask(w)
  PROVE  IInv'
<1> USE DEF IInv, pool, FinishTask
<1>1. PICK kind \in {"value", "exception"} :
       resultQueue' = Append(resultQueue, <<busy[w], kind>>)
  OBVIOUS
<1>2. busy[w] \in accepted /\ <<busy[w], kind>> \in Results
  BY DEF OnlyAccepted, TypeOK, Results
<1>3. TypeOK' /\ Shapes'
  <2>1. Shapes'
    BY <1>1, <1>2, AppendElements DEF Shapes
  <2>2. TypeOK'
    BY SMTT(30), <1>1, <1>2, PoolAssumption, <2>1 DEF TypeOK, Shapes, CallerStates, MonitorStates
  <2> QED
    BY <2>1, <2>2
<1>4. OnlyAccepted'
  BY <1>1, <1>2, AppendElements DEF OnlyAccepted, Shapes, TypeOK
<1>5. ClosedFirst'
  BY <1>1, <1>2, AppendElements, PoolAssumption DEF ClosedFirst, Shapes, Results
<1>6. TasksLeft' /\ Registered' /\ Drained'
  BY DEF TasksLeft, Blocking, Registered, Drained
<1> QED
  BY <1>1, <1>2, <1>3, <1>4, <1>5, <1>6

LEMMA DieIInv ==
  ASSUME IInv, NEW w \in Workers, Die(w)
  PROVE  IInv'
<1> USE DEF IInv, pool, Die
<1>1. TypeOK' /\ Shapes'
  BY DEF TypeOK, Shapes
<1>2. TasksLeft' /\ OnlyAccepted' /\ Registered' /\ ClosedFirst' /\ Drained'
  BY DEF TasksLeft, Blocking, OnlyAccepted, Registered, ClosedFirst, Drained
<1> QED
  BY <1>1, <1>2

\* The monitor thread.
LEMMA NoticeDeathIInv ==
  ASSUME IInv, NoticeDeath
  PROVE  IInv'
<1> USE DEF IInv, pool, NoticeDeath
<1>1. TypeOK' /\ Shapes'
  BY DEF TypeOK, Shapes, MonitorStates
<1>2. TasksLeft' /\ OnlyAccepted' /\ Registered' /\ Drained'
  BY DEF TasksLeft, Blocking, OnlyAccepted, Registered, Drained
<1>3. ClosedFirst'
  BY DEF ClosedFirst, Shapes, MonitorStates
<1> QED
  BY <1>1, <1>2, <1>3

LEMMA MonitorSetsCloseIInv ==
  ASSUME IInv, MonitorSetsClose
  PROVE  IInv'
<1> USE DEF IInv, pool, MonitorSetsClose
<1>1. TypeOK' /\ Shapes'
  BY DEF TypeOK, Shapes, MonitorStates
<1>2. TasksLeft' /\ OnlyAccepted' /\ Registered' /\ Drained'
  BY DEF TasksLeft, Blocking, OnlyAccepted, Registered, Drained
<1>3. ClosedFirst'
  BY WorkerNumbers DEF ClosedFirst, Shapes, MonitorStates
<1> QED
  BY <1>1, <1>2, <1>3

LEMMA KillWorkerIInv ==
  ASSUME IInv, KillWorker
  PROVE  IInv'
<1> USE DEF IInv, pool, KillWorker
<1>1. monitor.at \in Workers
  BY DEF TypeOK
<1>2. monitor' \in MonitorStates
  BY <1>1, WorkerNumbers DEF Shapes, MonitorStates
<1>3. TypeOK' /\ Shapes'
  BY <1>1, <1>2 DEF TypeOK, Shapes, MonitorStates
<1>4. TasksLeft' /\ OnlyAccepted' /\ Registered' /\ Drained'
  BY DEF TasksLeft, Blocking, OnlyAccepted, Registered, Drained
<1>5. ClosedFirst'
  <2>1. CASE MoreAfter(monitor.at)
    BY SMTT(30), <1>1, <2>1, WorkerNumbers DEF ClosedFirst, Shapes, MonitorStates, TypeOK
  <2>2. CASE ~ MoreAfter(monitor.at)
    BY <1>1, <2>2, WorkerNumbers DEF ClosedFirst, Shapes, MonitorStates, TypeOK
  <2> QED
    BY <2>1, <2>2
<1> QED
  BY <1>1, <1>2, <1>3, <1>4, <1>5

LEMMA MonitorClosesResultsIInv ==
  ASSUME IInv, MonitorClosesResults
  PROVE  IInv'
<1> USE DEF IInv, pool, MonitorClosesResults
<1>1. TypeOK' /\ Shapes'
  <2>1. Shapes'
    BY DEF Shapes, MonitorStates
  <2>2. TypeOK'
    BY <2>1 DEF TypeOK, Shapes, CallerStates, MonitorStates
  <2> QED
    BY <2>1, <2>2
<1>2. TasksLeft' /\ Registered' /\ Drained'
  BY DEF TasksLeft, Blocking, Registered, Drained
<1>3. OnlyAccepted' /\ ClosedFirst'
  BY AppendElements DEF OnlyAccepted, ClosedFirst, Shapes, MonitorStates
<1> QED
  BY <1>1, <1>2, <1>3

\* The result thread.
LEMMA HandleResultIInv ==
  ASSUME IInv, HandleResult
  PROVE  IInv'
<1> USE DEF IInv, pool, HandleResult
<1>1. Head(resultQueue) \in Results /\ resultQueue' \in Seq(Results \cup {TERMINATE})
  BY TailElements DEF Shapes
<1>2. Head(resultQueue)[1] \in accepted
  BY TailElements DEF OnlyAccepted, Shapes
<1>3. answer' \in [Tasks -> {"none", "value", "exception", "died"}] /\ answer'[Head(resultQueue)[1]] # "none"
  BY <1>1 DEF Results, TypeOK, Resolve
<1>4. TypeOK' /\ Shapes'
  BY <1>1, <1>3 DEF TypeOK, Shapes
<1>5. OnlyAccepted' /\ ClosedFirst'
  BY TailElements DEF OnlyAccepted, ClosedFirst, Shapes
<1>6. TasksLeft' /\ Drained'
  BY DEF TasksLeft, Blocking, Drained
<1>7. Registered'
  BY <1>2, <1>3 DEF Registered, Resolve, TypeOK
<1> QED
  BY <1>1, <1>2, <1>3, <1>4, <1>5, <1>6, <1>7

LEMMA HandleTerminateIInv ==
  ASSUME IInv, HandleTerminate
  PROVE  IInv'
<1> USE DEF IInv, pool, HandleTerminate
<1>1. TypeOK' /\ Shapes'
  <2>1. Cardinality(tasks) \in Nat
    <3>1. IsFiniteSet(tasks)
      <4>1. tasks \in SUBSET Nat /\ \A t \in tasks : t <= MaxTasks
        BY PoolAssumption DEF TypeOK, Tasks
      <4> QED
        BY <4>1, PoolAssumption, FS_BoundedSetOfNaturals
    <3> QED
      BY <3>1, FS_CardinalityType
  <2> QED
    BY <2>1, TailElements DEF TypeOK, Shapes, HandlerStates
<1>2. OnlyAccepted'
  BY TailElements DEF OnlyAccepted, Shapes
<1>3. ClosedFirst'
  BY TailElements DEF ClosedFirst, Shapes
<1>4. TasksLeft' /\ Registered' /\ Drained'
  BY DEF TasksLeft, Blocking, Registered, Drained
<1> QED
  BY <1>1, <1>2, <1>3, <1>4

LEMMA DrainIInv ==
  ASSUME IInv, Drain
  PROVE  IInv'
<1> USE DEF IInv, pool, Drain
<1>1. CASE tasks \subseteq handler.done
  <2>1. UNCHANGED answer /\ handler' = [handler EXCEPT !.pc = "done"]
    BY <1>1
  <2>2. TypeOK' /\ Shapes' /\ ClosedFirst'
    BY <2>1 DEF TypeOK, Shapes, HandlerStates, ClosedFirst
  <2>3. TasksLeft' /\ OnlyAccepted' /\ Registered'
    BY <2>1 DEF TasksLeft, Blocking, OnlyAccepted, Registered
  <2>4. Drained'
    BY <1>1, <2>1 DEF Drained, Registered, Shapes, HandlerStates
  <2> QED
    BY <2>2, <2>3, <2>4
<1>2. CASE ~ (tasks \subseteq handler.done)
  <2>1. PICK t \in tasks \ handler.done :
          /\ answer' = [answer EXCEPT ![t] = "died"]
          /\ handler' = [handler EXCEPT !.done = @ \cup {t}]
    BY <1>2 DEF Resolve
  <2>2. TypeOK' /\ Shapes'
    <3>1. t \in Tasks
      BY <2>1 DEF TypeOK
    <3>2. handler' \in HandlerStates
      BY <2>1, <3>1 DEF Shapes, HandlerStates
    <3>3. answer' \in [Tasks -> {"none", "value", "exception", "died"}]
      BY <2>1, <3>1 DEF TypeOK
    <3> QED
      BY <3>2, <3>3 DEF TypeOK, Shapes
  <2>3. TasksLeft' /\ OnlyAccepted' /\ Registered' /\ ClosedFirst'
    BY <2>1 DEF TasksLeft, Blocking, OnlyAccepted, Registered, TypeOK, ClosedFirst, Shapes,
                HandlerStates
  <2>4. Drained'
    BY <2>1 DEF Drained, Shapes, HandlerStates, TypeOK
  <2> QED
    BY <2>2, <2>3, <2>4
<1> QED
  BY <1>1, <1>2

LEMMA DrainFailsIInv ==
  ASSUME IInv, DrainFails
  PROVE  IInv'
<1> USE DEF IInv, pool, DrainFails
<1>1. TypeOK' /\ Shapes'
  BY DEF TypeOK, Shapes, HandlerStates
<1>2. TasksLeft' /\ OnlyAccepted' /\ Registered'
  BY DEF TasksLeft, Blocking, OnlyAccepted, Registered
<1>3. ClosedFirst' /\ Drained'
  BY DEF ClosedFirst, Drained, Shapes, HandlerStates
<1> QED
  BY <1>1, <1>2, <1>3

\* The invariant is inductive.
LEMMA NextIInv == IInv /\ [Next]_vars => IInv'
<1> SUFFICES ASSUME IInv, [Next]_vars PROVE IInv'
  OBVIOUS
<1>1. CASE UNCHANGED vars
  BY <1>1 DEF vars, IInv, TypeOK, Shapes, TasksLeft, Blocking, OnlyAccepted, Registered,
              ClosedFirst, Drained
<1>2. ASSUME NEW w \in Workers, Call(w) \/ TakeTask(w) \/ FinishTask(w) \/ Die(w)
      PROVE  IInv'
  BY <1>2, CallIInv, TakeTaskIInv, FinishTaskIInv, DieIInv
<1>3. CASE Shutdown \/ DriverReturns \/ DriverRaises \/ CallerStep
  BY <1>3, ShutdownIInv, DriverReturnsIInv, DriverRaisesIInv, RegisterIInv, PutTaskIInv, PutFailsIInv, GetOutputIInv, SetCloseIInv,
     TerminateWorkerIInv, CloseResultsIInv DEF CallerStep
<1>4. CASE MonitorStep
  BY <1>4, NoticeDeathIInv, MonitorSetsCloseIInv, KillWorkerIInv, MonitorClosesResultsIInv
     DEF MonitorStep
<1>5. CASE HandlerStep
  BY <1>5, HandleResultIInv, HandleTerminateIInv, DrainIInv, DrainFailsIInv DEF HandlerStep
<1> QED
  BY <1>1, <1>2, <1>3, <1>4, <1>5 DEF Next

LEMMA InductiveInvariance == Spec => []IInv
BY InitIInv, NextIInv, PTL DEF Spec

-----------------------------------------------------------------------------
\* ResultHandler.run, whatever died and whoever closed the pool: its last loop
\* begins behind closed task queues; run to its end, every accepted task has its
\* answer; broken off by a RuntimeError, only futures of self.tasks that it had not
\* come to are without one.  self.tasks never keeps the future of a task that was
\* not put.
THEOREM PoolResolvesFutures == Spec => []FuturesResolved
<1>1. IInv => FuturesResolved
  <2> SUFFICES ASSUME IInv PROVE FuturesResolved
    OBVIOUS
  <2>1. handler.pc = "crashed" =>
          \A t \in accepted : answer[t] # "none" \/ t \in tasks \ handler.done
    BY DEF IInv, Registered, Drained
  <2> QED
    BY <2>1 DEF IInv, Registered, ClosedFirst, Drained, FuturesResolved
<1> QED
  BY <1>1, InductiveInvariance, PTL
=============================================================================
