----------------------------- MODULE ChunkTransfer -----------------------------
(***************************************************************************)
(* The stream of chunks between two stages in async-chunk mode: the sender *)
(* puts numbered chunks, the receive thread of the next stage polls them,  *)
(* and the generation scheduler parks the requests that wait for a chunk,  *)
(* schedules those that have one and finishes those whose stream is over.  *)
(* The receive thread shares its sets with the engine thread without a     *)
(* lock; a poll is three steps here, a call of the engine thread is one.   *)
(*                                                                         *)
(* Source: src/vllm_omni/distributed/omni_connectors/transfer_adapter/     *)
(*         base.py, chunk_transfer_adapter.py,                             *)
(*         src/vllm_omni/core/sched/omni_generation_scheduler.py,          *)
(*         omni_scheduler_mixin.py                                         *)
(***************************************************************************)
EXTENDS Integers, Sequences, FiniteSets

CONSTANTS
    Requests,      \* request ids; the front end makes each one unique
    Resumable,     \* those of a realtime session, whose input has segments
    MaxRunning,    \* max_num_seqs
    Depth,         \* steps in flight: 2 with async_scheduling (qwen3_tts.yaml:81)
    ChunkTokens,   \* tokens of a chunk; above 1, the token budget may cut it
    MaxChunks,     \* bound: chunks of a stream
    MaxLead,       \* bound: chunks put and not yet read
    NoRequest,     \* the receive thread is between two polls
    NoStatus       \* the request is not in requests_origin_status

ASSUME ChunkAssumption ==
    /\ Resumable \subseteq Requests
    /\ {MaxRunning, Depth, ChunkTokens, MaxChunks, MaxLead} \subseteq Nat \ {0}
    /\ NoRequest \notin Requests
    /\ NoStatus \notin {"WAITING", "RUNNING"}

VARIABLES
    sent,          \* the chunks put so far, in order
    taken,         \* how many of them have been read off the connector
    got,           \* get_req_chunk
    poll,          \* what _poll_single_request is doing
    pendingLoad,   \* _pending_load_reqs
    finishedLoad,  \* _finished_load_reqs
    cancelled,     \* _cancelled_load_reqs
    done,          \* finished_requests
    segmented,     \* segment_finished_requests
    ready,         \* requests_with_ready_chunks
    origin,        \* requests_origin_status
    resumable,     \* Request.resumable
    input,         \* prompt_token_ids (chunk it holds, length), num_computed_tokens
    status,        \* Request.status
    requests,      \* Scheduler.requests
    waiting, running,
    pendingFinish, \* _pending_finish_reqs
    flight,        \* the requests of each step not yet answered
    played,        \* history: the chunks the model has computed, in order
    spoiled        \* history: the streams of which something was not computed

threadVars == <<taken, got, poll>>
streamVars == <<done, segmented, resumable, input>>
queueVars == <<waiting, running, requests>>
vars == <<sent, taken, got, poll, pendingLoad, finishedLoad, cancelled, done, segmented,
          ready, origin, resumable, input, status, requests, waiting, running,
          pendingFinish, flight, played, spoiled>>

Marks == {"none", "segment", "finished"}
Chunks == [codes : BOOLEAN, mark : Marks]
Statuses == {"NEW", "WAITING", "RUNNING", "PREEMPTED", "WAITING_FOR_CHUNK",
             "FINISHED_STOPPED", "FINISHED_ABORTED"}
Idle == [request |-> NoRequest, step |-> "mark"]

Elements(seq) == {seq[i] : i \in DOMAIN seq}

(* What of a queue is in a set, in the order of the queue.                 *)
Only(seq, set) ==
    LET kept[n \in 0..Len(seq)] ==
            IF n = 0 THEN <<>>
            ELSE IF seq[n] \in set THEN Append(kept[n - 1], seq[n]) ELSE kept[n - 1]
    IN  kept[Len(seq)]

Without(seq, set) == Only(seq, Requests \ set)
First(seq, n) == SubSeq(seq, 1, n)
Rest(seq, n) == SubSeq(seq, n + 1, Len(seq))
Least(m, n) == IF m < n THEN m ELSE n

Init ==
    /\ sent = [r \in Requests |-> <<>>]
    /\ taken = [r \in Requests |-> 0]
    /\ got = [r \in Requests |-> 0]
    /\ poll = Idle
    /\ pendingLoad = <<>> /\ finishedLoad = {} /\ cancelled = {}
    /\ done = {} /\ segmented = {} /\ ready = {}
    /\ origin = [r \in Requests |-> NoStatus]
    /\ resumable = Resumable
    /\ input = [r \in Requests |-> [chunk |-> 0, len |-> 1, computed |-> 0]]
    /\ status = [r \in Requests |-> "NEW"]
    /\ requests = {} /\ waiting = <<>> /\ running = <<>>
    /\ pendingFinish = <<>> /\ flight = <<>>
    /\ played = [r \in Requests |-> <<>>]
    /\ spoiled = {}

-----------------------------------------------------------------------------
(* The sender: save_async and the save thread, one chunk at a time.        *)

StreamEnded(r) == sent[r] # <<>> /\ sent[r][Len(sent[r])].mark = "finished"

Send(r) ==
    /\ Len(sent[r]) < MaxChunks /\ Len(sent[r]) < taken[r] + MaxLead
    /\ ~StreamEnded(r)
    /\ \E c \in Chunks :
          /\ c.mark = "segment" => r \in Resumable
          /\ Len(sent[r]) + 1 = MaxChunks => c.mark = "finished"
          /\ sent' = [sent EXCEPT ![r] = Append(@, c)]
    /\ UNCHANGED <<threadVars, pendingLoad, finishedLoad, cancelled, streamVars, ready,
                   origin, status, queueVars, pendingFinish, flight, played, spoiled>>

-----------------------------------------------------------------------------
(* The receive thread.                                                     *)

(* The connector has the chunk that the receiver asks for.                 *)
Readable(r) == taken[r] <= got[r] /\ got[r] < Len(sent[r])

(* recv_loop: drop a cancelled request, read a chunk, or come back later.  *)
Take ==
    /\ poll = Idle /\ pendingLoad # <<>>
    /\ LET r == Head(pendingLoad) IN
          IF r \in cancelled
          THEN /\ cancelled' = cancelled \ {r}
               /\ pendingLoad' = Tail(pendingLoad)
               /\ UNCHANGED <<taken, poll>>
          ELSE IF Readable(r)
               THEN /\ taken' = [taken EXCEPT ![r] = got[r] + 1]
                    /\ pendingLoad' = Tail(pendingLoad)
                    /\ poll' = [request |-> r, step |-> "mark"]
                    /\ UNCHANGED cancelled
               ELSE /\ pendingLoad' = Append(Tail(pendingLoad), r)
                    /\ UNCHANGED <<taken, cancelled, poll>>
    /\ UNCHANGED <<sent, got, finishedLoad, streamVars, ready, origin, status, queueVars,
                   pendingFinish, flight, played, spoiled>>

(* The chunk is counted and its marks are noted before the request has it. *)
Mark ==
    /\ poll.request \in Requests /\ poll.step = "mark"
    /\ LET r == poll.request
           mark == sent[r][taken[r]].mark
       IN  /\ got' = [got EXCEPT ![r] = @ + 1]
           /\ done' = IF mark = "finished" THEN done \cup {r} ELSE done
           /\ resumable' = IF mark = "finished" THEN resumable \ {r} ELSE resumable
           /\ segmented' = IF mark = "segment" THEN segmented \cup {r} ELSE segmented
    /\ poll' = [poll EXCEPT !.step = "fill"]
    /\ UNCHANGED <<sent, taken, pendingLoad, finishedLoad, cancelled, input, ready, origin,
                   status, queueVars, pendingFinish, flight, played, spoiled>>

(* An empty segment is a placeholder token.                                *)
Playable(c) == c.codes \/ c.mark = "segment"

Length(c) == IF c.codes THEN ChunkTokens ELSE IF c.mark = "segment" THEN 1 ELSE 0

(* Wrong: the end of a stream without codes is never ready.                *)
EmptyAtEnd(c) == ~c.codes /\ c.mark # "segment"

(* An empty chunk of an unfinished segment.                                *)
Empty(c) == ~c.codes /\ c.mark = "none"

(* The chunk becomes the input of the request; an empty one keeps polling. *)
Fill ==
    /\ poll.request \in Requests /\ poll.step = "fill"
    /\ LET r == poll.request
           c == sent[r][taken[r]]
       IN  /\ input' = [input EXCEPT ![r] =
                           [chunk |-> taken[r], len |-> Length(c), computed |-> 0]]
           /\ IF Empty(c)
              THEN pendingLoad' = Append(pendingLoad, r) /\ UNCHANGED finishedLoad
              ELSE finishedLoad' = finishedLoad \cup {r} /\ UNCHANGED pendingLoad
    /\ poll' = Idle
    /\ UNCHANGED <<sent, taken, got, cancelled, done, segmented, resumable, ready, origin,
                   status, queueVars, pendingFinish, flight, played, spoiled>>

-----------------------------------------------------------------------------
(* The engine thread.                                                      *)

(* add_request of the scheduler, with the placeholder prompt.              *)
Arrive(r) ==
    /\ status[r] = "NEW"
    /\ status' = [status EXCEPT ![r] = "WAITING"]
    /\ requests' = requests \cup {r}
    /\ waiting' = Append(waiting, r)
    /\ UNCHANGED <<sent, threadVars, pendingLoad, finishedLoad, cancelled, streamVars, ready,
                   origin, running, pendingFinish, flight, played, spoiled>>

(* is_done_receiving_chunks                                                *)
DoneReceiving(r) == r \in done \cup segmented

(* Wrong: a chunk that was loaded and not scheduled is forgotten.          *)
AsksAgain(r) == status[r] # "WAITING_FOR_CHUNK" /\ ~DoneReceiving(r)

(* _process_chunk_queue_legacy: what becomes of one request of a queue.    *)
Loaded(r) == status[r] = "WAITING_FOR_CHUNK" /\ r \in finishedLoad
Asks(r) == status[r] # "WAITING_FOR_CHUNK" /\ r \notin ready /\ ~DoneReceiving(r)

Parked(r) == Asks(r) \/ (status[r] = "WAITING_FOR_CHUNK" /\ r \notin finishedLoad)
Stays(r) == ~Parked(r)

Remaining(r) == input[r].len - input[r].computed

(* The running requests that max_num_seqs allows; the others are preempted *)
(* and come before the waiting ones.                                       *)
Staying == {r \in Requests : Stays(r)}
GoingOn == Only(running, Staying)
Kept == First(GoingOn, Least(MaxRunning, Len(GoingOn)))
Preempted == Rest(GoingOn, Least(MaxRunning, Len(GoingOn)))
Offered == Preempted \o Only(waiting, Staying)

HasInput(r) == input[r].len > 0
Admitted(offered, tried) == Only(First(offered, tried), {r \in Requests : HasInput(r)})

(* There is room whenever the loop looks at the next waiting request.      *)
Fits(kept, offered, tried) ==
    /\ tried <= Len(offered)
    /\ tried > 0 => Len(kept) + Len(Admitted(offered, tried - 1)) < MaxRunning

(* The requests of both queues, those whose chunk has come, those that go  *)
(* on waiting for one and, in order, those that begin to.                  *)
QueuedNow == Elements(waiting) \cup Elements(running)
LoadedNow == {r \in QueuedNow : Loaded(r)}
ParkedNow == {r \in QueuedNow : Parked(r)}
Target(r) == IF r \in Elements(running) THEN "RUNNING" ELSE "WAITING"
Askers == {r \in Requests : Asks(r)}
Asking == Only(waiting, Askers) \o Only(running, Askers)

(* The running requests that get tokens, those that are at their end, and  *)
(* the waiting ones without input.                                         *)
Granted(kept, reached) == Only(First(kept, reached), {r \in Requests : Remaining(r) > 0})
Spent(kept, reached) ==
    Only(First(kept, reached), {r \in Requests : Remaining(r) <= 0 /\ DoneReceiving(r)})
Skipped(offered, tried) == Only(First(offered, tried), {r \in Requests : ~HasInput(r)})
Receivers == {r \in Requests : DoneReceiving(r)}

(* The tokens of a request of a step; the last one may lack some.          *)
Tokens(r, granted, step, short) ==
    LET needed == IF r \in Elements(granted) THEN Remaining(r) ELSE input[r].len
    IN  IF r = step[Len(step)] THEN needed - short ELSE needed

(* schedule(): the running requests that have a chunk, then waiting ones   *)
(* while there is room.  The tokens or the blocks may run out at any       *)
(* request: reached and tried are how far the two loops come, short is     *)
(* what the last request lacks of its tokens.  The rest of a chunk that is *)
(* cut so is lost, unless it is the last one: the next call asks for the   *)
(* chunk after it.                                                         *)
ScheduleUpTo(kept, offered, reached, tried, short) ==
    LET granted == Granted(kept, reached)
        step == granted \o Admitted(offered, tried)
        skipped == Skipped(offered, tried)
        chosen == Elements(step)
        tokens(r) == Tokens(r, granted, step, short)
    IN  /\ reached <= Len(kept) /\ Fits(kept, offered, tried)
        /\ short > 0 => step # <<>> /\ tokens(step[Len(step)]) > 0
        /\ flight' = Append(flight, step)
        /\ pendingLoad' = pendingLoad \o Asking
        /\ cancelled' = cancelled \ Elements(Asking)
        /\ finishedLoad' = finishedLoad \ LoadedNow
        /\ ready' = (ready \cup LoadedNow) \ chosen
        /\ origin' = [r \in Requests |-> IF r \in ParkedNow THEN Target(r) ELSE origin[r]]
        /\ status' = [r \in Requests |->
              IF r \in Elements(Preempted) THEN "PREEMPTED"
              ELSE IF r \in ParkedNow THEN "WAITING_FOR_CHUNK"
              ELSE IF r \in LoadedNow THEN Target(r) ELSE status[r]]
        /\ input' = [r \in Requests |->
              IF r \in chosen THEN [input[r] EXCEPT !.computed = @ + tokens(r)]
              ELSE input[r]]
        /\ played' = [r \in Requests |->
              IF r \in chosen /\ input[r].computed + tokens(r) >= input[r].len
              THEN Append(played[r], input[r].chunk) ELSE played[r]]
        /\ pendingFinish' = pendingFinish \o Spent(kept, reached) \o Only(skipped, Receivers)
        /\ running' = kept \o Admitted(offered, tried) \o Only(running, ParkedNow)
        /\ waiting' = Without(skipped, Receivers) \o Rest(offered, tried)
                      \o Only(waiting, ParkedNow)
        /\ spoiled' = spoiled \cup {r \in chosen : ~DoneReceiving(r) /\ tokens(r) < Remaining(r)}
        /\ UNCHANGED <<sent, threadVars, done, segmented, resumable, requests>>

(* With two steps in flight a resumable request can be stopped by the      *)
(* older one after schedule() has collected it, and is then queued twice.  *)
(* What becomes of a step that holds it twice is up to the worker: the     *)
(* model makes none.                                                       *)
Queued == waiting \o running

NoneTwice(seq) == \A i, j \in DOMAIN seq : seq[i] = seq[j] => i = j

MaySchedule == requests # {} /\ Len(flight) < Depth /\ NoneTwice(Queued)

Schedule ==
    /\ MaySchedule
    /\ \E kept \in {Kept}, offered \in {Offered} :
       \E reached \in 0..Len(kept), tried \in 0..Len(offered), short \in 0..(ChunkTokens - 1) :
          ScheduleUpTo(kept, offered, reached, tried, short)

(* cleanup_receiver                                                        *)
CleanupReceiver(ended) ==
    /\ done' = done \ ended
    /\ got' = [r \in Requests |-> IF r \in ended THEN 0 ELSE got[r]]
    /\ ready' = ready \ ended
    /\ origin' = [r \in Requests |-> IF r \in ended THEN NoStatus ELSE origin[r]]
    /\ cancelled' = cancelled \cup ended
    /\ finishedLoad' = finishedLoad \ ended

(* update_from_output of the oldest step: a request whose stream, or whose *)
(* segment, is over and whose input has been computed is stopped, and so   *)
(* are those that schedule() collected.  A stopped request that can be     *)
(* resumed waits for its next segment.                                     *)
Stopped ==
    Only(Head(flight), {r \in requests : DoneReceiving(r) /\ input[r].computed >= input[r].len})
Collected == Only(pendingFinish, requests \ (Elements(Stopped) \ resumable))
StoppedNow == Elements(Stopped) \cup Elements(Collected)
Ended == StoppedNow \ resumable
Resumed == Only(Stopped \o Collected, resumable)

(* With two steps in flight the older one may be answered when the marks   *)
(* of the next chunk are noted and its tokens are not there yet: the       *)
(* request is stopped before it has computed that chunk.                   *)
Overtaken ==
    {r \in Elements(Stopped) :
        poll = [request |-> r, step |-> "fill"] /\ Playable(sent[r][taken[r]])}

Update ==
    /\ flight # <<>>
    /\ flight' = Tail(flight)
    /\ LET parked == {r \in Elements(Stopped) : status[r] = "WAITING_FOR_CHUNK"}
       IN  waiting' = Without(waiting \o Resumed, parked)
    /\ running' = Without(running, StoppedNow)
    /\ status' = [r \in Requests |-> IF r \in Ended THEN "FINISHED_STOPPED"
                                     ELSE IF r \in StoppedNow THEN "WAITING" ELSE status[r]]
    /\ requests' = requests \ Ended
    /\ segmented' = segmented \ (Elements(Stopped) \cup Ended)
    /\ CleanupReceiver(Ended)
    /\ pendingFinish' = <<>>
    /\ spoiled' = spoiled \cup Overtaken
    /\ UNCHANGED <<sent, taken, poll, pendingLoad, resumable, input, played>>

(* finish_requests of the adapter: the status that parking has hidden.     *)
Restored(r) == IF origin[r] # NoStatus THEN origin[r] ELSE status[r]

(* Wrong: requests_origin_status is taken at its word.                     *)
RestoredOnly(r) == Restored(r)

(* _realign_request_status_to_queues                                       *)
Realigned(r) ==
    IF r \in Elements(running) THEN "RUNNING"
    ELSE IF r \in Elements(waiting) /\ Restored(r) = "RUNNING" THEN "WAITING" ELSE Restored(r)

(* finish_requests for a live request.  The base scheduler removes it from *)
(* the queue that its status names.  get_req_chunk and the segment marks   *)
(* stay.                                                                   *)
Abort(r) ==
    /\ r \in requests
    /\ status' = [status EXCEPT ![r] = "FINISHED_ABORTED"]
    /\ requests' = requests \ {r}
    /\ running' = Without(running, {r})
    /\ waiting' = IF Realigned(r) = "RUNNING" THEN waiting ELSE Without(waiting, {r})
    /\ origin' = [origin EXCEPT ![r] = NoStatus]
    /\ ready' = ready \ {r}
    /\ done' = done \ {r}
    /\ finishedLoad' = finishedLoad \ {r}
    /\ cancelled' = cancelled \cup {r}
    /\ UNCHANGED <<sent, threadVars, pendingLoad, segmented, resumable, input, pendingFinish,
                   flight, played, spoiled>>

-----------------------------------------------------------------------------
Receive == Take \/ Mark \/ Fill

Next ==
    \/ \E r \in Requests : Send(r) \/ Arrive(r) \/ Abort(r)
    \/ Receive
    \/ Schedule
    \/ Update

(* A step in which neither tokens nor blocks run out.                      *)
ScheduleAll ==
    /\ MaySchedule
    /\ \E kept \in {Kept}, offered \in {Offered} :
       \E tried \in 0..Len(offered) :
          ~Fits(kept, offered, tried + 1) /\ ScheduleUpTo(kept, offered, Len(kept), tried, 0)

Spec == Init /\ [][Next]_vars

(* The busy loop and the receive thread go on, tokens and blocks are       *)
(* there again and again, and the sender ends its streams.  The last two   *)
(* are WF_vars(Update) and SF_vars(ScheduleAll), with what enables each    *)
(* action in the place of ENABLED, which takes TLC most of its time.       *)
FairSpec ==
    /\ Spec
    /\ WF_vars(Receive)
    /\ \A r \in Requests : WF_vars(Send(r))
    /\ <>[](flight # <<>>) => []<><<Update>>_vars
    /\ []<>MaySchedule => []<><<ScheduleAll>>_vars

-----------------------------------------------------------------------------
Types ==
    /\ sent \in [Requests -> Seq(Chunks)] /\ \A r \in Requests : Len(sent[r]) <= MaxChunks
    /\ {taken, got} \subseteq [Requests -> Nat]
    /\ poll \in [request : Requests \cup {NoRequest}, step : {"mark", "fill"}]
    /\ finishedLoad \subseteq Requests /\ cancelled \subseteq Requests
    /\ done \subseteq Requests /\ segmented \subseteq Requests
    /\ ready \subseteq Requests /\ resumable \subseteq Requests
    /\ requests \subseteq Requests /\ spoiled \subseteq Requests
    /\ pendingLoad \in Seq(Requests)
    /\ origin \in [Requests -> {"WAITING", "RUNNING", NoStatus}]
    /\ input \in [Requests -> [chunk : Nat, len : 0..ChunkTokens, computed : Nat]]
    /\ status \in [Requests -> Statuses]
    /\ waiting \in Seq(requests) /\ running \in Seq(requests)
    /\ pendingFinish \in Seq(Requests)
    /\ flight \in Seq(Seq(Requests)) /\ Len(flight) <= Depth

(* The type invariant: only live requests are queued, and no request is    *)
(* queued twice.  Where two steps are in flight, as in qwen3_tts.yaml:81   *)
(* and qwen3_tts_high_concurrency.yaml:86 (async_scheduling: true), that   *)
(* falls for the resumable requests, and is said of the others only.       *)
TypeOK == Types /\ NoneTwice(IF Depth = 1 THEN Queued ELSE Without(Queued, Resumable))

(* What is played of a stream is those of its first k chunks that have     *)
(* something to play, each of them once and in their order.                *)
FirstChunks(numbers, chunks, k) ==
    /\ Elements(numbers) = {i \in 1..k : Playable(chunks[i])}
    /\ \A i, j \in DOMAIN numbers : i < j => numbers[i] < numbers[j]

(* Of a stream that is not spoiled no chunk is lost, repeated or           *)
(* overtaken: what the model has computed of it is its first chunks, and   *)
(* all of them when the request ends by itself.  (process_pending_chunks,  *)
(* update_from_output)                                                     *)
StreamPlayed ==
    \A r \in Requests \ spoiled :
        /\ \E k \in 0..Len(sent[r]) : FirstChunks(played[r], sent[r], k)
        /\ status[r] = "FINISHED_STOPPED" =>
              StreamEnded(r) /\ FirstChunks(played[r], sent[r], Len(sent[r]))

(* What a user of the stage sees of a request.                             *)
PlayState(r) ==
    CASE status[r] = "NEW" -> "new"
      [] status[r] = "FINISHED_STOPPED" -> "ended"
      [] status[r] = "FINISHED_ABORTED" -> "aborted"
      [] OTHER -> "live"

Playback(r) == INSTANCE StreamPlayback WITH
    Content <- {c \in Chunks : Playable(c)},
    Final <- {c \in Chunks : c.mark = "finished"},
    sent <- sent[r], played <- played[r], state <- PlayState(r)

(* The adapter and the scheduler together keep what StreamPlayback says of *)
(* each stream: it is computed chunk by chunk as it was sent, the request  *)
(* ends by itself only after its last chunk, and after its end or an abort *)
(* nothing more of it is computed.  Two things lose a part of a stream,    *)
(* and nothing is said of it from then on: the budget cuts a chunk that is *)
(* not the last (omni_generation_scheduler.py:134), and, with two steps in *)
(* flight, the marks of a chunk overtake its tokens                        *)
(* (chunk_transfer_adapter.py:247).                                        *)
PlaybackKept ==
    /\ \A r \in Requests : Playback(r)!Init
    /\ [][\A r \in Requests : r \notin spoiled' =>
             [Playback(r)!Next]_<<sent[r], played[r], PlayState(r)>>]_vars

(* Every request ends, though the running queue overflows when parked      *)
(* requests come back, chunks are cut and two steps are in flight; what    *)
(* is not said is how it goes on once a request is queued twice.           *)
RequestsEnd ==
    \A r \in Requests :
        r \in requests ~> r \notin requests \/ ~NoneTwice(Queued)
=============================================================================
