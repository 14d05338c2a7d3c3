------------------------------ MODULE MQEngine ------------------------------
(***************************************************************************)
(* MQLLMEngineClient and MQLLMEngine (vllm/engine/multiprocessing): the    *)
(* API server's process and the engine's process, joined by sockets for    *)
(* requests, outputs and heartbeats.  The engine may fail in a step, hang  *)
(* in one, lose a worker or be killed; heartbeats may be late.  Sockets    *)
(* are external: FIFO, and what has not reached the client is lost when    *)
(* the engine's process ends (ctx.destroy(linger=0)).                      *)
(*                                                                         *)
(* Healthy heartbeats are not modelled: their absence is the timeout of    *)
(* the client.  A request is its number; a poll that times out is a step   *)
(* that may be taken when its socket is empty.                             *)
(***************************************************************************)
EXTENDS Naturals, Sequences, FiniteSets

CONSTANTS
  Requests,     \* requests the handlers may submit
  Outputs,      \* request -> the number of outputs that finish it
  Invalid,      \* requests LLMEngine.add_request raises for
  MaxFaults     \* bound on failures and late heartbeats

ASSUME MQAssumption ==
  Outputs \in [Requests -> Nat \ {0}] /\ Invalid \subseteq Requests /\ MaxFaults \in Nat

VARIABLES
  handler,    \* request -> pc of its _process_request
  queues,     \* output_queues, the requests in it
  got,        \* request -> outputs put on its queue
  answer,     \* request -> how its queue was ended
  errored,    \* the client's _errored_with is set
  outLoop,    \* is run_output_handler_loop running?
  healthLoop, \* is run_heartbeat_loop running?
  input, output, unhealthy,   \* the sockets; the last holds a failure or not
  held,       \* unfinished requests of the LLMEngine
  done,       \* request -> outputs generated
  engine,     \* pc of run_engine_loop
  engErrored, \* the engine's _errored_with is set
  workers,    \* does check_health pass?
  faults

vars == <<handler, queues, got, answer, errored, outLoop, healthLoop, input, output, unhealthy,
          held, done, engine, engErrored, workers, faults>>
client == <<handler, queues, got, answer, errored, outLoop, healthLoop>>
server == <<held, done, engine, engErrored, workers>>

Messages == [kind : {"process", "abort"}, req : Requests]
NoRequest == 0

Init ==
  /\ handler = [r \in Requests |-> "new"]
  /\ queues = {} /\ errored = FALSE /\ outLoop = TRUE /\ healthLoop = TRUE
  /\ got = [r \in Requests |-> 0]
  /\ answer = [r \in Requests |-> "none"]
  /\ input = << >> /\ output = << >> /\ unhealthy = FALSE
  /\ held = {} /\ done = [r \in Requests |-> 0]
  /\ engine = "input" /\ engErrored = FALSE /\ workers = TRUE /\ faults = 0

----------------------------------------------------------------------------
(* The client: _process_request of each handler *)

\* "If already dead, error out."  Then the guided decoding is prepared, which
\* awaits.
Check(r) ==
  /\ handler[r] = "new"
  /\ handler' = [handler EXCEPT ![r] = IF errored THEN "closed" ELSE "checked"]
  /\ UNCHANGED <<queues, got, answer, errored, outLoop, healthLoop, input, output,
                 unhealthy, server, faults>>

\* The queue is created and the request sent.
Submit(r) ==
  /\ handler[r] = "checked"
  /\ handler' = [handler EXCEPT ![r] = "open"]
  /\ queues' = queues \cup {r}
  /\ input' = Append(input, [kind |-> "process", req |-> r])
  /\ UNCHANGED <<got, answer, errored, outLoop, healthLoop, output, unhealthy, server, faults>>

\* Fault: the abort is sent only for a request that has had output.
FaultWithAbort(r) ==
  IF answer[r] # "finished" /\ ~ errored /\ got[r] > 0
  THEN Append(input, [kind |-> "abort", req |-> r]) ELSE input

\* abort(), unless the request has finished or the engine is known to be dead.
WithAbort(r) ==
  IF answer[r] # "finished" /\ ~ errored THEN Append(input, [kind |-> "abort", req |-> r]) ELSE input

\* The generator ends: with its last output, by an exception from its queue, or
\* because its client left.
Close(r) ==
  /\ handler[r] = "open"
  /\ handler' = [handler EXCEPT ![r] = "closed"]
  /\ input' = WithAbort(r)
  /\ queues' = queues \ {r}
  /\ UNCHANGED <<got, answer, errored, outLoop, healthLoop, output, unhealthy, server, faults>>

----------------------------------------------------------------------------
(* The client's loops *)

\* Put an exception on the queues of rs.
Raise(rs) ==
  answer' = [r \in Requests |-> IF r \in rs /\ answer[r] = "none" THEN "error" ELSE answer[r]]

\* run_output_handler_loop: outputs of one engine step.
ReceiveOutputs ==
  LET rs == Head(output).outs \cap queues
      fin == {r \in rs : got[r] + 1 = Outputs[r]}
  IN /\ outLoop /\ output # << >> /\ Head(output).kind = "outputs"
     /\ got' = [r \in Requests |-> IF r \in rs THEN got[r] + 1 ELSE got[r]]
     /\ answer' = [r \in Requests |->
                     IF r \in fin /\ answer[r] = "none" THEN "finished" ELSE answer[r]]
     /\ output' = Tail(output)
     /\ UNCHANGED <<handler, queues, errored, outLoop, healthLoop, input, unhealthy,
                    server, faults>>

\* An RPCError: for one request or for all of them, critical or not.
ReceiveError ==
  LET msg == Head(output)
  IN /\ outLoop /\ output # << >> /\ msg.kind = "error"
     /\ errored' = (errored \/ msg.critical)
     /\ Raise(IF msg.req = NoRequest THEN queues ELSE queues \cap {msg.req})
     /\ output' = Tail(output)
     /\ UNCHANGED <<handler, queues, got, outLoop, healthLoop, input, unhealthy, server, faults>>

\* Fault: the loop ends without telling the queues.
FaultOutputTimeout ==
  /\ outLoop /\ output = << >> /\ errored
  /\ outLoop' = FALSE
  /\ UNCHANGED <<handler, queues, got, answer, errored, healthLoop, input, output,
                 unhealthy, server, faults>>

\* The poll timed out and the client is errored: "alert all running requests".
OutputTimeout ==
  /\ outLoop /\ output = << >> /\ errored
  /\ Raise(queues)
  /\ outLoop' = FALSE
  /\ UNCHANGED <<handler, queues, got, errored, healthLoop, input, output, unhealthy,
                 server, faults>>

\* run_heartbeat_loop: an exception instead of a heartbeat.
ReceiveUnhealthy ==
  /\ healthLoop /\ unhealthy
  /\ unhealthy' = FALSE /\ errored' = TRUE /\ healthLoop' = FALSE
  /\ UNCHANGED <<handler, queues, got, answer, outLoop, input, output, server, faults>>

\* Fault: a heartbeat that does not come is awaited for ever.
FaultHeartbeatTimeout ==
  /\ healthLoop /\ ~ unhealthy /\ engine = "dead"
  /\ UNCHANGED vars

\* No heartbeat within VLLM_RPC_TIMEOUT: the engine's process is gone,
HeartbeatTimeout ==
  /\ healthLoop /\ ~ unhealthy /\ engine = "dead"
  /\ errored' = TRUE /\ healthLoop' = FALSE
  /\ UNCHANGED <<handler, queues, got, answer, outLoop, input, output, unhealthy, server, faults>>

\* or its heartbeat thread did not get to run in time.
LateHeartbeat ==
  /\ healthLoop /\ engine # "dead" /\ faults < MaxFaults
  /\ faults' = faults + 1
  /\ errored' = TRUE /\ healthLoop' = FALSE
  /\ UNCHANGED <<handler, queues, got, answer, outLoop, input, output, unhealthy, server>>

----------------------------------------------------------------------------
(* The engine's main loop *)

Error(r, critical) == [kind |-> "error", req |-> r, critical |-> critical, outs |-> {}]

\* _handle_process_request: an engine that is errored sends the error and adds
\* the request all the same; a request that cannot be added gets its own error.
ProcessRequest ==
  LET r == Head(input).req
      dead == IF engErrored THEN <<Error(r, TRUE)>> ELSE << >>
      refused == IF r \in Invalid THEN <<Error(r, engErrored)>> ELSE << >>
  IN /\ engine = "input" /\ input # << >> /\ Head(input).kind = "process"
     /\ output' = output \o dead \o refused
     /\ held' = IF r \in Invalid THEN held \ {r} ELSE held \cup {r}
     /\ input' = Tail(input)
     /\ UNCHANGED <<client, unhealthy, done, engine, engErrored, workers, faults>>

\* _handle_abort_request
ProcessAbort ==
  /\ engine = "input" /\ input # << >> /\ Head(input).kind = "abort"
  /\ held' = held \ {Head(input).req}
  /\ input' = Tail(input)
  /\ UNCHANGED <<client, output, unhealthy, done, engine, engErrored, workers, faults>>

\* All input is handled; with nothing to do the loop polls for more.
BeginStep ==
  /\ engine = "input" /\ input = << >> /\ held # {}
  /\ engine' = "step"
  /\ UNCHANGED <<client, input, output, unhealthy, held, done, engErrored, workers, faults>>

\* Does the output of this step finish r?
Finished(r) == done[r] + 1 = Outputs[r]

\* engine_step and _send_outputs.
EndStep ==
  /\ engine = "step"
  /\ done' = [r \in Requests |-> IF r \in held THEN done[r] + 1 ELSE done[r]]
  /\ held' = {r \in held : ~ Finished(r)}
  /\ output' = Append(output, [Error(NoRequest, FALSE) EXCEPT !.kind = "outputs", !.outs = held])
  /\ engine' = "input"
  /\ UNCHANGED <<client, input, unhealthy, engErrored, workers, faults>>

\* engine_step raises: the error goes to every request and the loop ends.
StepFails ==
  /\ engine = "step" /\ faults < MaxFaults
  /\ faults' = faults + 1 /\ engErrored' = TRUE
  /\ output' = Append(output, Error(NoRequest, TRUE))
  /\ engine' = "failed"
  /\ UNCHANGED <<client, input, unhealthy, held, done, workers>>

\* The process ends: what was not transmitted is lost.
ProcessEnds ==
  /\ engine' = "dead"
  /\ \E n \in 0 .. Len(output) : output' = SubSeq(output, 1, n)
  /\ unhealthy' \in {unhealthy, FALSE}
  /\ UNCHANGED <<client, input, held, done, engErrored, workers>>

\* start() -> cleanup() after an exception.
Cleanup == engine = "failed" /\ ProcessEnds /\ UNCHANGED faults

\* The process is killed, a step never returns, a worker process dies.
Killed ==
  /\ engine \notin {"failed", "dead"} /\ faults < MaxFaults
  /\ faults' = faults + 1
  /\ ProcessEnds

Hangs ==
  /\ engine = "step" /\ faults < MaxFaults
  /\ faults' = faults + 1 /\ engine' = "hung"
  /\ UNCHANGED <<client, input, output, unhealthy, held, done, engErrored, workers>>

WorkerDies ==
  /\ workers /\ engine # "dead" /\ faults < MaxFaults
  /\ faults' = faults + 1 /\ workers' = FALSE
  /\ UNCHANGED <<client, input, output, unhealthy, held, done, engine, engErrored>>

\* _heartbeat of the thread: the engine has errored, its loop has not been
\* alive for too long, or check_health raises.
SendUnhealthy ==
  /\ engine # "dead" /\ ~ unhealthy
  /\ engErrored \/ engine = "hung" \/ ~ workers
  /\ unhealthy' = TRUE
  /\ engErrored' = (engErrored \/ (engine # "hung" /\ ~ workers))
  /\ UNCHANGED <<client, input, output, held, done, engine, workers, faults>>

----------------------------------------------------------------------------
OutputStep == ReceiveOutputs \/ ReceiveError \/ OutputTimeout
HealthStep == ReceiveUnhealthy \/ HeartbeatTimeout
EngineStep == ProcessRequest \/ ProcessAbort \/ BeginStep \/ EndStep \/ Cleanup
HandlerStep(r) == Check(r) \/ Submit(r) \/ Close(r)

Next ==
  \/ (\E r \in Requests : HandlerStep(r))
  \/ OutputStep \/ HealthStep \/ LateHeartbeat
  \/ EngineStep \/ SendUnhealthy \/ StepFails \/ Killed \/ Hangs \/ WorkerDies

\* The client's loops, the heartbeat thread and an engine that does not hang
\* run; the handlers' own steps and the faults need not happen.
Spec ==
  /\ Init /\ [][Next]_vars
  /\ WF_vars(OutputStep) /\ WF_vars(HealthStep) /\ WF_vars(EngineStep) /\ WF_vars(SendUnhealthy)

----------------------------------------------------------------------------
(* Properties *)

\* The variables hold values of their types.
TypeOK ==
  /\ handler \in [Requests -> {"new", "checked", "open", "closed"}]
  /\ queues \subseteq Requests /\ held \subseteq Requests
  /\ \A r \in Requests : got[r] <= done[r] /\ done[r] <= Outputs[r]
  /\ answer \in [Requests -> {"none", "finished", "error"}]
  /\ input \in Seq(Messages)
  /\ engine \in {"input", "step", "failed", "hung", "dead"}
  /\ {errored, outLoop, healthLoop, unhealthy, engErrored, workers} \subseteq BOOLEAN

\* A request whose handler has left does not stay in a healthy engine: it is
\* held only while its submission or its abort is on the way, or after the
\* client has given the engine up.
AbortsReachEngine ==
  TypeOK /\ \A r \in held :
    handler[r] = "closed" =>
      errored \/ \E i \in DOMAIN input : input[i] = [kind |-> "abort", req |-> r]

\* However the engine ends (an error, a hang, a lost worker, a kill that takes
\* the last messages with it), the client gets to know it.
DeathNoticed == (engine \in {"failed", "dead", "hung"} \/ ~ workers) ~> errored

\* "If errored, alert all running requests": a request that is registered while
\* the output loop runs is answered once the client is errored.
RunningAlerted ==
  \A r \in Requests : (r \in queues /\ outLoop /\ errored) ~> (r \notin queues \/ answer[r] # "none")

\* The same for every registered request, whenever it registered.  One that
\* registers after the output loop has ended waits for ever.
RegisteredAlerted ==
  \A r \in Requests : (r \in queues /\ errored) ~> (r \notin queues \/ answer[r] # "none")
=============================================================================
