--------------------------- MODULE DiffusionScheduler ---------------------------
(***************************************************************************)
(* The bookkeeping that the request-level and the step-level diffusion     *)
(* schedulers share, as operators on the record of their fields.  A        *)
(* request that is not in _request_states has the status "absent".         *)
(*                                                                         *)
(* Source: src/vllm_omni/diffusion/sched/base_scheduler.py,                *)
(*         request_scheduler.py, step_scheduler.py                         *)
(***************************************************************************)
EXTENDS Naturals, Sequences, FiniteSets

CONSTANTS
    Requests,     \* request ids; the server makes each one unique
    KeyOf,        \* the sampling parameters key of each
    MaxRunning,   \* max_num_running_reqs
    NoKey         \* _running_sampling_params_key is None

ASSUME SchedulerAssumption ==
    /\ MaxRunning \in Nat \ {0}
    /\ \A r \in Requests : KeyOf[r] # NoKey

Finished == {"completed", "error", "aborted"}

Elements(seq) == {seq[i] : i \in DOMAIN seq}

Empty == [status |-> [r \in Requests |-> "absent"],
          waiting |-> <<>>, running |-> <<>>, key |-> NoKey, finished |-> {}]

AddRequest(s, r) ==
    [s EXCEPT !.status[r] = "waiting", !.waiting = Append(@, r)]

HasRequests(s) == s.waiting # <<>> \/ s.running # <<>>

(* Wrong: the key is compared with that of the requests running before.    *)
AdmissibleStale(s, n) ==
    /\ Len(s.running) + n <= MaxRunning
    /\ \A i \in 1..n : s.running = <<>> \/ KeyOf[s.waiting[i]] = s.key

(* _can_schedule_waiting, for the n requests at the head of the queue.     *)
Admissible(s, n) ==
    /\ Len(s.running) + n <= MaxRunning
    /\ \A i \in 1..n : \/ s.running = <<>> /\ i = 1
                       \/ LET key == IF s.running = <<>> THEN KeyOf[s.waiting[1]] ELSE s.key
                          IN  KeyOf[s.waiting[i]] = key

(* How many waiting requests the next schedule() starts.                   *)
Admitted(s) ==
    CHOOSE n \in 0..Len(s.waiting) :
        /\ Admissible(s, n)
        /\ \A m \in 0..Len(s.waiting) : Admissible(s, m) => m <= n

StartedBy(s) == SubSeq(s.waiting, 1, Admitted(s))

(* DiffusionSchedulerOutput: what runs now, and what ended since.          *)
Output(s) == [new |-> StartedBy(s), cached |-> s.running, finished |-> s.finished]

Scheduled(output) == Elements(output.new) \cup Elements(output.cached)

Schedule(s) ==
    LET started == StartedBy(s) IN
    [s EXCEPT
        !.status = [r \in Requests |-> IF r \in Elements(started) THEN "running" ELSE @[r]],
        !.waiting = SubSeq(s.waiting, Len(started) + 1, Len(s.waiting)),
        !.running = @ \o started,
        !.key = IF s.running = <<>> /\ started # <<>> THEN KeyOf[started[1]] ELSE @,
        !.finished = {}]

(* The queue without the requests that end.                                *)
Without(seq, ended) ==
    LET kept[i \in 0..Len(seq)] ==
            IF i = 0 THEN <<>>
            ELSE IF seq[i] \in ended THEN kept[i - 1] ELSE Append(kept[i - 1], seq[i])
    IN  kept[Len(seq)]

(* Wrong: a request that waits stays in the queue.                         *)
FinishRunning(s, ends) ==
    LET ended == {r \in DOMAIN ends : s.status[r] \in {"waiting", "running"}}
        running == Without(s.running, ended)
    IN  [s EXCEPT
            !.status = [r \in Requests |-> IF r \in ended THEN ends[r] ELSE @[r]],
            !.running = running,
            !.key = IF running = <<>> /\ s.running # <<>> THEN NoKey ELSE @,
            !.finished = @ \cup ended]

(* Wrong: the runner is not told of what ends.                             *)
FinishSilently(s, ends) ==
    LET ended == {r \in DOMAIN ends : s.status[r] \in {"waiting", "running"}}
        running == Without(s.running, ended)
    IN  [s EXCEPT
            !.status = [r \in Requests |-> IF r \in ended THEN ends[r] ELSE @[r]],
            !.waiting = Without(s.waiting, ended),
            !.running = running,
            !.key = IF running = <<>> /\ s.running # <<>> THEN NoKey ELSE @]

(* _finish_requests: ends maps requests to their terminal status.          *)
Finish(s, ends) ==
    LET ended == {r \in DOMAIN ends : s.status[r] \in {"waiting", "running"}}
        running == Without(s.running, ended)
    IN  [s EXCEPT
            !.status = [r \in Requests |-> IF r \in ended THEN ends[r] ELSE @[r]],
            !.waiting = Without(s.waiting, ended),
            !.running = running,
            !.key = IF running = <<>> /\ s.running # <<>> THEN NoKey ELSE @,
            !.finished = @ \cup ended]

(* update_from_output: what the runner says of the requests that are still *)
(* running.  A step that is not the last leaves a request as it is.        *)
Ends(s, output, outcome) ==
    [r \in {q \in Scheduled(output) :
              s.status[q] \in {"waiting", "running"} /\ outcome[q] \in Finished} |-> outcome[r]]

Update(s, output, outcome) == Finish(s, Ends(s, output, outcome))

(* Wrong: without those aborted meanwhile.                                 *)
SurfacedNow(s, output, outcome) == DOMAIN Ends(s, output, outcome)

(* The ids that update_from_output returns: also those aborted meanwhile.  *)
Surfaced(s, output, outcome) ==
    (Scheduled(output) \cap s.finished) \cup DOMAIN Ends(s, output, outcome)

PopState(s, r) == [s EXCEPT !.status[r] = "absent"]

=============================================================================
