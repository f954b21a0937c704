---------------------------- MODULE DiffusionEngine ----------------------------
(***************************************************************************)
(* The diffusion engine of a stage.  The event loop runs one task for each *)
(* request; a task adds its request to the scheduler and waits for outputs *)
(* on a stream of its own.  The busy-loop thread applies the queued        *)
(* aborts, schedules, executes a batch without the lock, applies the       *)
(* aborts that came meanwhile, updates the scheduler and hands the outputs *)
(* out.  In step mode the worker keeps the state of a request from one     *)
(* step to the next, and drops it when the request completes or when the   *)
(* scheduler says that it ended.                                           *)
(*                                                                         *)
(* A step is what a thread does under the lock, or the whole execution of  *)
(* a batch.                                                                *)
(*                                                                         *)
(* Source: src/vllm_omni/diffusion/diffusion_engine.py,                    *)
(*         worker/diffusion_model_runner.py, worker/diffusion_worker.py,   *)
(*         stage_diffusion_proc.py                                         *)
(***************************************************************************)
EXTENDS DiffusionScheduler

CONSTANTS
    Steps,        \* denoise steps of a request in step mode
    Modes,        \* execution modes: "step", "request"
    Failures      \* what may fail: "activation", "states", "forward", "result"

ASSUME EngineAssumption ==
    /\ Steps \in Nat \ {0}
    /\ Modes \subseteq {"step", "request"}
    /\ Failures \subseteq {"activation", "states", "forward", "result"}

VARIABLES
    mode,       \* how this engine executes
    sched,      \* the scheduler
    aborts,     \* abort_queue; the drain removes duplicates
    loop,       \* where the busy loop is
    batch,      \* sched_output
    outcome,    \* the runner's output for each request of the batch
    surfaced,   \* ids that update_from_output returned
    emitting,   \* requests of this batch whose output is still to be put
    cache,      \* step mode: state_cache of the model runner
    untold,     \* for the properties: ended requests whose eviction was lost with a batch
    stranded,   \* for the properties: requests aborted while in no batch
    progress,   \* denoise steps that each request has behind it
    task,       \* the task of each request
    streams,    \* _out_streams: requests that have one
    outputs,    \* what was put into each stream
    closed      \* close() was called; stop_event is set

loopVars == <<loop, batch, outcome, surfaced, emitting>>
workerVars == <<cache, untold, progress>>
taskVars == <<task, streams, outputs>>
vars == <<mode, sched, aborts, stranded, loopVars, workerVars, taskVars, closed>>

NoBatch == [new |-> <<>>, cached |-> <<>>, finished |-> {}]

Init ==
    /\ mode \in Modes
    /\ sched = Empty
    /\ aborts = {} /\ stranded = {}
    /\ loop = "top"
    /\ batch = NoBatch
    /\ outcome = [r \in Requests |-> "none"]
    /\ surfaced = {} /\ emitting = {}
    /\ cache = {} /\ untold = {}
    /\ progress = [r \in Requests |-> 0]
    /\ task = [r \in Requests |-> "new"]
    /\ streams = {}
    /\ outputs = [r \in Requests |-> <<>>]
    /\ closed = FALSE

----------------------------------------------------------------------------
(* The event loop.                                                         *)

(* The task of an add_request message runs for the first time.             *)
Add(r) ==
    /\ task[r] = "new"
    /\ ~closed
    /\ sched' = AddRequest(sched, r)
    /\ streams' = streams \cup {r}
    /\ task' = [task EXCEPT ![r] = "streaming"]
    /\ UNCHANGED <<mode, stranded, aborts, loopVars, workerVars, outputs, closed>>

AddClosed(r) ==
    /\ task[r] = "new"
    /\ closed
    /\ task' = [task EXCEPT ![r] = "ended"]
    /\ UNCHANGED <<mode, stranded, sched, aborts, loopVars, workerVars, streams, outputs, closed>>

(* An abort message: the task is cancelled and the engine told.  Of a task *)
(* that has ended the engine is told in vain: that is left out.            *)
Abort(r) ==
    /\ task[r] \in {"new", "streaming"}
    /\ task' = [task EXCEPT ![r] = "cancelled"]
    /\ aborts' = IF closed THEN aborts ELSE aborts \cup {r}
    /\ UNCHANGED <<mode, stranded, sched, loopVars, workerVars, streams, outputs, closed>>

(* A cancelled task runs: its generator gives up the stream.               *)
EndCancelled(r) ==
    /\ task[r] = "cancelled"
    /\ task' = [task EXCEPT ![r] = "ended"]
    /\ streams' = streams \ {r}
    /\ outputs' = [outputs EXCEPT ![r] = <<>>]
    /\ UNCHANGED <<mode, stranded, sched, aborts, loopVars, workerVars, closed>>

IsFinal(output) == output # "chunk"

HasFinal(r) == \E i \in DOMAIN outputs[r] : IsFinal(outputs[r][i])

(* The task reads the last output of its stream.                           *)
Receive(r) ==
    /\ task[r] = "streaming"
    /\ HasFinal(r)
    /\ task' = [task EXCEPT ![r] = "ended"]
    /\ streams' = streams \ {r}
    /\ outputs' = [outputs EXCEPT ![r] = <<>>]
    /\ UNCHANGED <<mode, stranded, sched, aborts, loopVars, workerVars, closed>>

Put(r, output) ==
    outputs' = IF r \in streams THEN [outputs EXCEPT ![r] = Append(@, output)] ELSE outputs

(* Wrong: the streams are not forgotten.                                   *)
CloseKeepsStreams ==
    /\ ~closed
    /\ closed' = TRUE
    /\ outputs' = [r \in Requests |->
                     IF r \in streams THEN Append(outputs[r], "closed") ELSE outputs[r]]
    /\ UNCHANGED <<mode, stranded, sched, aborts, loopVars, workerVars, task, streams>>

(* close(): every stream gets an error and is forgotten.                   *)
Close ==
    /\ ~closed
    /\ closed' = TRUE
    /\ outputs' = [r \in Requests |->
                     IF r \in streams THEN Append(outputs[r], "closed") ELSE outputs[r]]
    /\ streams' = {}
    /\ UNCHANGED <<mode, stranded, sched, aborts, loopVars, workerVars, task>>

(* The end of close(), in this call or, if the join timed out, a later one.*)
Shutdown ==
    /\ closed
    /\ loop = "stopped"
    /\ sched # Empty
    /\ sched' = Empty
    /\ UNCHANGED <<mode, stranded, aborts, loopVars, workerVars, taskVars, closed>>

----------------------------------------------------------------------------
(* The busy loop.                                                          *)

Live(r) == sched.status[r] \in {"waiting", "running"}

(* _process_aborts_queue: a request that has left the scheduler is skipped.*)
Drained ==
    Finish(sched, [r \in {q \in aborts : sched.status[q] # "absent"} |-> "aborted"])

Stranded == stranded \cup {r \in aborts \ Scheduled(batch) : Live(r)}

(* What is left to put; with nothing left, the round is over.              *)
EmitNext(ended, left) ==
    /\ emitting' = left
    /\ IF left = {}
         THEN /\ loop' = "top"
              /\ batch' = NoBatch
              /\ outcome' = [r \in Requests |-> "none"]
              /\ surfaced' = {}
         ELSE /\ loop' = "emit"
              /\ surfaced' = ended
              /\ UNCHANGED <<batch, outcome>>

(* The next round; with nothing scheduled the loop came back from the wait *)
(* for an abort.                                                           *)
BeginRound ==
    /\ loop = "top"
    /\ IF closed
         THEN /\ loop' = "stopped"
              /\ UNCHANGED <<sched, aborts, stranded>>
         ELSE /\ loop' = "lock"
              /\ sched' = Drained
              /\ stranded' = Stranded
              /\ aborts' = {}
    /\ UNCHANGED <<mode, batch, outcome, surfaced, emitting, workerVars, taskVars, closed>>

(* Under the lock: stop, go back for an abort, or go on with requests.  In *)
(* request mode the admission wait then gives the lock up for a while.     *)
Wake ==
    /\ loop = "lock"
    /\ closed \/ HasRequests(sched) \/ aborts # {}
    /\ loop' = IF closed THEN "stopped" ELSE IF HasRequests(sched) THEN "admit" ELSE "top"
    /\ mode = "step" => loop' # "admit"
    /\ UNCHANGED <<mode, stranded, sched, aborts, batch, outcome, surfaced, emitting,
                   workerVars, taskVars, closed>>

(* An empty batch would only hand out what has ended.                      *)
ScheduleBatch ==
    /\ \/ loop = "admit"
       \/ loop = "lock" /\ mode = "step" /\ ~closed /\ HasRequests(sched)
    /\ sched' = Schedule(sched)
    /\ IF Scheduled(Output(sched)) = {}
         THEN EmitNext(sched.finished, sched.finished)
         ELSE /\ loop' = "execute"
              /\ batch' = Output(sched)
              /\ UNCHANGED <<outcome, surfaced, emitting>>
    /\ UNCHANGED <<mode, stranded, aborts, workerVars, taskVars, closed>>

(* What a runner may say of a request: in step mode a result that is not   *)
(* the last may hold a chunk.                                              *)
Results(r) ==
    (IF mode = "request" \/ progress[r] + 1 >= Steps THEN {"completed"} ELSE {"more", "chunk"})
    \cup (IF "result" \in Failures THEN {"error"} ELSE {})

ExecuteBatch ==
    /\ loop = "execute"
    /\ \E results \in [Scheduled(batch) -> {"more", "chunk", "completed", "error"}] :
         /\ \A r \in Scheduled(batch) : results[r] \in Results(r)
         /\ outcome' = [r \in Requests |-> IF r \in Scheduled(batch) THEN results[r] ELSE "none"]
         /\ IF mode = "step"
              THEN \E gone \in {{}, {r \in Scheduled(batch) : results[r] = "error"}} :
                     cache' = (((cache \ batch.finished) \cup Elements(batch.new)) \ gone)
                                \ {r \in Scheduled(batch) : results[r] = "completed"}
              ELSE UNCHANGED cache
    /\ progress' = [r \in Requests |->
                      IF mode = "step" /\ r \in Scheduled(batch) THEN progress[r] + 1 ELSE progress[r]]
    /\ loop' = "update"
    /\ UNCHANGED <<mode, stranded, sched, aborts, batch, surfaced, emitting, untold, taskVars, closed>>

(* The cached state a batch asks for is missing, or a new request has one. *)
Mismatch ==
    /\ mode = "step"
    /\ \/ Elements(batch.cached) \cap (cache \ batch.finished) # Elements(batch.cached)
       \/ Elements(batch.new) \cap (cache \ batch.finished) # {}

(* execute_fn raises: before the runner has seen the batch (no adapter can *)
(* be activated), while it prepares the states, or later.                  *)
ExecuteFails(failure) ==
    /\ loop = "execute"
    /\ failure \in Failures \/ (failure = "states" /\ Mismatch)
    /\ outcome' = [r \in Requests |-> IF r \in Scheduled(batch) THEN "error" ELSE "none"]
    /\ IF mode = "request" THEN UNCHANGED <<cache, untold>>
       ELSE CASE failure = "activation" ->
                   /\ untold' = untold \cup (cache \cap batch.finished)
                   /\ UNCHANGED cache
              [] failure = "states" ->
                   /\ cache' = (cache \ batch.finished) \ Elements(batch.new)
                   /\ UNCHANGED untold
              [] failure = "forward" ->
                   /\ cache' = (cache \ batch.finished) \cup Elements(batch.new)
                   /\ UNCHANGED untold
    /\ loop' = "update"
    /\ UNCHANGED <<mode, stranded, sched, aborts, batch, surfaced, emitting, progress, taskVars, closed>>

(* The aborts that came meanwhile, and at once update_from_output: what    *)
(* happens between the two is as if it happened after them.  Then the      *)
(* outputs to put: of what ended, and in step mode the chunks.             *)
UpdateFromOutput ==
    LET ended == Surfaced(Drained, batch, outcome)
        chunks == {r \in Scheduled(batch) : mode = "step" /\ outcome[r] = "chunk"}
    IN
    /\ loop = "update"
    /\ sched' = Update(Drained, batch, outcome)
    /\ aborts' = {}
    /\ stranded' = Stranded
    /\ EmitNext(ended, ended \cup chunks)
    /\ UNCHANGED <<mode, workerVars, taskVars, closed>>

(* One output: of an ended request the last one, and its state is popped.  *)
Emit(r) ==
    /\ loop = "emit"
    /\ r \in emitting
    /\ Put(r, IF r \in surfaced THEN sched.status[r] ELSE "chunk")
    /\ sched' = IF r \in surfaced THEN PopState(sched, r) ELSE sched
    /\ progress' = [progress EXCEPT ![r] = IF r \in surfaced THEN 0 ELSE @]
    /\ EmitNext(surfaced, emitting \ {r})
    /\ UNCHANGED <<mode, stranded, aborts, cache, untold, task, streams, closed>>

----------------------------------------------------------------------------

TaskStep(r) == Add(r) \/ AddClosed(r) \/ EndCancelled(r) \/ Receive(r)

LoopStep ==
    \/ BeginRound \/ Wake \/ ScheduleBatch
    \/ ExecuteBatch \/ \E failure \in {"activation", "states", "forward"} : ExecuteFails(failure)
    \/ UpdateFromOutput
    \/ \E r \in Requests : Emit(r)

Next ==
    \/ \E r \in Requests : Abort(r) \/ TaskStep(r)
    \/ LoopStep
    \/ Close \/ Shutdown

Spec == Init /\ [][Next]_vars

----------------------------------------------------------------------------

TypeOK ==
    /\ mode \in Modes
    /\ sched.status \in [Requests -> {"absent", "waiting", "running"} \cup Finished]
    /\ Elements(sched.waiting) = {r \in Requests : sched.status[r] = "waiting"}
    /\ Elements(sched.running) = {r \in Requests : sched.status[r] = "running"}
    /\ Cardinality(Elements(sched.waiting)) = Len(sched.waiting)
    /\ Cardinality(Elements(sched.running)) = Len(sched.running)
    /\ sched.finished \subseteq Requests /\ aborts \subseteq Requests
    /\ surfaced \subseteq Requests /\ emitting \subseteq Requests
    /\ loop \in {"top", "lock", "admit", "execute", "update", "emit", "stopped"}
    /\ outcome \in [Requests -> {"none", "more", "chunk", "completed", "error"}]
    /\ cache \cup untold \cup stranded \subseteq Requests
    /\ progress \in [Requests -> 0..Steps]
    /\ task \in [Requests -> {"new", "streaming", "cancelled", "ended"}]
    /\ streams \subseteq Requests
    /\ outputs \in [Requests -> Seq({"chunk", "closed"} \cup Finished)]
    /\ closed \in BOOLEAN

Idle == loop \in {"top", "lock"}

(* What runs together has one sampling key, and fits: also when the batch  *)
(* shrinks to nothing by aborts and the key of the next one is another.    *)
BatchCompatible ==
    /\ Len(sched.running) <= MaxRunning
    /\ \A r, q \in Elements(sched.running) : KeyOf[r] = KeyOf[q]
    /\ \A r, q \in Scheduled(batch) : KeyOf[r] = KeyOf[q]

(* The worker keeps a state only for a request that will run again or that *)
(* it is going to be told of, unless the batch that told it failed early.  *)
(* What a batch expects to be cached is.                                   *)
CacheTracked ==
    /\ Idle => cache \subseteq Elements(sched.running) \cup sched.finished \cup untold
    /\ loop = "execute" => ~Mismatch

(* A consumer's request is live, or its last output is there or under way, *)
(* or it was cancelled: an abort between schedule and update loses none.   *)
(* Only close() may put anything after a last output.                      *)
ConsumerAnswered ==
    \A r \in Requests :
        /\ Idle /\ task[r] = "streaming" => Live(r) \/ HasFinal(r)
        /\ \A i \in DOMAIN outputs[r] : 
             i < Len(outputs[r]) /\ IsFinal(outputs[r][i]) => outputs[r][i + 1] = "closed"

(* What ends leaves no state behind in the scheduler, an abort while a     *)
(* batch with the request is executed included.  Only a request that was   *)
(* aborted while it was in no batch does.                                  *)
EndedIsReleased ==
    Idle => \A r \in Requests : sched.status[r] \in Finished => r \in stranded

=============================================================================
