------------------------------ MODULE NativeInput ------------------------------
(***************************************************************************)
(* The input path of one model-native session in the API server: PCM is    *)
(* buffered to model units, each unit is reserved and appended to the      *)
(* engine by a task behind the one before it, a commit takes the rest and  *)
(* appends it as the final input of a turn.  The runner handles one event  *)
(* of the client at a time and suspends where it awaits; the tasks and the *)
(* data plane (responses, silence units) go on meanwhile.                  *)
(*                                                                         *)
(* The samples that the client sends are numbered; an append is the        *)
(* sequence of its samples.  The session answers by itself (auto-respond). *)
(*                                                                         *)
(* Source: fullduplex/minicpmo45/input.py and session.py,                  *)
(* fullduplex/openai/session_runner.py, runtime_bridge.py, protocol.py     *)
(***************************************************************************)
EXTENDS Naturals, Sequences, FiniteSets, SequencesExt

CONSTANTS
    Unit,           \* chunk_period_ms, in samples
    Chunks,         \* what the client sends: size in samples, with speech or not
    Limit,          \* max_pending_input_bytes_per_session, in samples
    Commits,        \* the kinds of commits that the client sends
    Cancels,        \* "input.cancel", "response.cancel"
    MaxInput,       \* bound: samples
    MaxTasks,       \* bound: the client and the data plane start no more
    MaxSilence,     \* bound: silence units
    MaxEpoch,       \* bound: cancels
    MaxFailures     \* bound: appends of the current epoch that fail

ASSUME NativeInputAssumption ==
    /\ Unit \in Nat \ {0} /\ Limit \in Nat
    /\ Chunks \subseteq [size : Nat \ {0}, speech : BOOLEAN]
    /\ Commits \subseteq {"audio", "silent", "input", "hold"}
    /\ Cancels \subseteq {"input.cancel", "response.cancel"}
    /\ {MaxInput, MaxTasks, MaxSilence, MaxEpoch, MaxFailures} \subseteq Nat

VARIABLES
    received,   \* the number of samples that were admitted
    pcm,        \* MiniCPMO45PcmAppendBuffer
    spoken,     \* speech_since_commit
    committed,  \* the committed payload and its reserved bytes
    budget,     \* reserved_input_bytes
    epoch,      \* of the session
    responding, \* the session has an active response
    tasks,      \* the append tasks in the order of their creation
    runner,     \* where the runner is suspended
    failures,   \* appends of the current epoch that failed
    heard,      \* history: what the engine has executed
    cleared,    \* history: samples that the client has cleared
    skipped,    \* history: samples acknowledged without an append
    early,      \* history: budget released for samples cleared before
    disordered  \* history: a reservation was committed out of order

inputVars == <<received, pcm, spoken, committed, budget>>
sessionVars == <<epoch, responding>>
history == <<cleared, skipped, early>>
vars == <<inputVars, sessionVars, tasks, runner, failures, heard, history, disordered>>

Idle == [at |-> "idle", tail |-> 0, kind |-> "", sends |-> <<>>, fresh |-> {}, epoch |-> 0]

NoPayload == [sends |-> <<>>, bytes |-> 0]

EmptyBuffer == [buffer |-> <<>>, reserved |-> <<>>, speech |-> FALSE]

Init ==
    /\ received = 0
    /\ pcm = EmptyBuffer
    /\ spoken = FALSE
    /\ committed = NoPayload
    /\ budget = 0
    /\ epoch = 0 /\ responding = FALSE
    /\ tasks = <<>>
    /\ runner = Idle
    /\ failures = 0
    /\ heard = <<>>
    /\ cleared = {} /\ skipped = {} /\ early = 0
    /\ disordered = FALSE

----------------------------------------------------------------------------
(* The buffer.  A reservation belongs to the append task of its number.    *)

Samples(s) == {s[i] : i \in DOMAIN s}

Active(t) == \E i \in DOMAIN pcm.reserved : pcm.reserved[i].task = t

Buffered(p, samples, speech) ==
    [p EXCEPT !.buffer = @ \o samples, !.speech = @ \/ speech]

Reserve(p, t) ==
    [p EXCEPT !.buffer = SubSeq(@, Unit + 1, Len(@)),
              !.reserved = Append(@, [task |-> t, raw |-> SubSeq(p.buffer, 1, Unit),
                                      speech |-> p.speech])]

CommitReservation(p) == [p EXCEPT !.reserved = Tail(@)]

Raw(rs) == FlattenSeq([i \in DOMAIN rs |-> rs[i].raw])

Voiced(rs) == \E i \in DOMAIN rs : rs[i].speech

Place(t) == CHOOSE i \in DOMAIN pcm.reserved : pcm.reserved[i].task = t

(* Wrong: puts what is undone behind what has arrived since.               *)
RollBackBehind(t) ==
    IF ~Active(t) THEN pcm
    ELSE LET undone == SubSeq(pcm.reserved, Place(t), Len(pcm.reserved))
         IN  [buffer |-> pcm.buffer \o Raw(undone),
              reserved |-> SubSeq(pcm.reserved, 1, Place(t) - 1),
              speech |-> pcm.speech \/ Voiced(undone)]

(* A rollback takes everything that was reserved later with it.            *)
RollBack(t) ==
    IF ~Active(t) THEN pcm
    ELSE LET undone == SubSeq(pcm.reserved, Place(t), Len(pcm.reserved))
         IN  [buffer |-> Raw(undone) \o pcm.buffer,
              reserved |-> SubSeq(pcm.reserved, 1, Place(t) - 1),
              speech |-> pcm.speech \/ Voiced(undone)]

(* prepare_commit: the rest of the buffer, when there was speech.          *)
Residual(p) == IF p.speech THEN p.buffer ELSE <<>>

WithoutResidual(p) ==
    [p EXCEPT !.buffer = IF p.speech THEN <<>> ELSE @, !.speech = FALSE]

Release(n) == budget' = IF n < budget THEN budget - n ELSE 0

----------------------------------------------------------------------------
(* The append tasks.                                                       *)

Finished(t) == tasks[t].st \in {"ok", "failed"}

Unfinished == {t \in DOMAIN tasks : ~Finished(t)}

IsFinal(t) == tasks[t].kind \in {"final", "created"}

(* native_response_in_progress.                                            *)
InProgress == responding \/ \E t \in Unfinished : IsFinal(t)

Newest == Len(tasks)

(* Wrong: reads the tail after it is set.                                  *)
OwnPredecessor == IF Newest \in Unfinished THEN Newest + 1 ELSE 0

(* A task that ended is no predecessor; one that failed does not stop what *)
(* comes after it has.                                                     *)
Predecessor == IF Newest \in Unfinished THEN Newest ELSE 0

NewTask(kind, sends, fresh, e) ==
    [kind |-> kind, sends |-> sends, fresh |-> fresh, pred |-> Predecessor,
     epoch |-> e, st |-> "waiting"]

Start(kind, sends, fresh, e) == tasks' = Append(tasks, NewTask(kind, sends, fresh, e))

End(t, st) == tasks' = [tasks EXCEPT ![t].st = st]

(* What an acknowledged append does: its reservation is used up, or the    *)
(* committed payload, if it still is the one that was appended.  The bytes *)
(* of a reservation are released also when a clear has ended it before.    *)
Settle(t) ==
    LET size == Len(tasks[t].sends)
    IN
    \/ /\ tasks[t].kind = "audio" /\ Active(t)
       /\ IF Head(pcm.reserved).task = t
          THEN /\ pcm' = CommitReservation(pcm)
               /\ Release(size)
               /\ End(t, "ok")
               /\ UNCHANGED disordered
          ELSE /\ pcm' = RollBack(t)
               /\ disordered' = TRUE
               /\ End(t, "failed")
               /\ UNCHANGED budget
       /\ UNCHANGED <<committed, early>>
    \/ /\ tasks[t].kind = "audio" /\ ~Active(t)
       /\ Release(size)
       /\ early' = early + (budget - budget')
       /\ End(t, "ok")
       /\ UNCHANGED <<pcm, committed, disordered>>
    \/ /\ IsFinal(t)
       /\ IF committed.sends = tasks[t].sends
          THEN committed' = NoPayload /\ Release(committed.bytes)
          ELSE UNCHANGED <<committed, budget>>
       /\ End(t, "ok")
       /\ UNCHANGED <<pcm, early, disordered>>
    \/ /\ tasks[t].kind = "silence"
       /\ End(t, "ok")
       /\ UNCHANGED <<pcm, committed, budget, early, disordered>>

(* The predecessor failed, or was cancelled.                               *)
PredecessorFailed(t) ==
    /\ tasks[t].st = "waiting"
    /\ tasks[t].pred # 0 /\ tasks[tasks[t].pred].st = "failed"
    /\ pcm' = RollBack(t)
    /\ End(t, "failed")
    /\ UNCHANGED <<received, spoken, committed, budget, sessionVars, runner, failures, heard, history, disordered>>

MyTurn(t) ==
    /\ tasks[t].st = "waiting"
    /\ tasks[t].pred # 0 => tasks[tasks[t].pred].st = "ok"

InputWaiting == pcm.buffer # <<>> \/ pcm.reserved # <<>>

(* Silence gives way to input, to queued events, and when it is stale.     *)
SkipSilence(t) ==
    /\ MyTurn(t)
    /\ tasks[t].kind = "silence"
    /\ End(t, "ok")
    /\ UNCHANGED <<inputVars, sessionVars, runner, failures, heard, history, disordered>>

(* The reservation was cleared, or rolled back with an earlier one.        *)
Inactive(t) ==
    /\ MyTurn(t)
    /\ tasks[t].kind = "audio" /\ ~Active(t)
    /\ End(t, "failed")
    /\ UNCHANGED <<inputVars, sessionVars, runner, failures, heard, history, disordered>>

Runs(t) ==
    /\ MyTurn(t)
    /\ tasks[t].kind = "audio" => Active(t)
    /\ tasks[t].kind = "silence" => ~InputWaiting /\ tasks[t].epoch = epoch

(* The epoch has moved on: the append counts as done and is not sent.      *)
Superseded(t) ==
    /\ Runs(t)
    /\ tasks[t].epoch # epoch
    /\ Settle(t)
    /\ skipped' = skipped \cup Samples(tasks[t].sends)
    /\ UNCHANGED <<received, spoken, sessionVars, runner, failures, heard, cleared>>

Call(t) ==
    /\ Runs(t)
    /\ tasks[t].epoch = epoch
    /\ End(t, "calling")
    /\ UNCHANGED <<inputVars, sessionVars, runner, failures, heard, history, disordered>>

(* The engine executes the append.                                         *)
Execute(t) ==
    /\ tasks[t].st = "calling"
    /\ End(t, "executed")
    /\ heard' = Append(heard, t)
    /\ UNCHANGED <<inputVars, sessionVars, runner, failures, history, disordered>>

Acknowledged(t) ==
    /\ tasks[t].st = "executed"
    /\ Settle(t)
    /\ UNCHANGED <<received, spoken, sessionVars, runner, failures, heard, cleared, skipped>>

(* An error of the engine, or the time-out of the call, also one that the  *)
(* engine executes.  A stale fence is an error too.                        *)
AppendFails(t) ==
    /\ tasks[t].st \in {"calling", "executed"}
    /\ \/ tasks[t].epoch # epoch /\ UNCHANGED failures
       \/ tasks[t].epoch = epoch /\ failures < MaxFailures /\ failures' = failures + 1
    /\ pcm' = RollBack(t)
    /\ responding' = (responding /\ tasks[t].kind # "created")
    /\ End(t, "failed")
    /\ UNCHANGED <<received, spoken, committed, budget, epoch, runner, heard, history, disordered>>

----------------------------------------------------------------------------
(* What the client sends, handled by the runner.                           *)

Free == runner.at = "idle"

AppendAudio(c) ==
    LET samples == [i \in 1..c.size |-> received + i]
        filled == Buffered(pcm, samples, c.speech)
    IN
    /\ Free
    /\ received + c.size <= MaxInput /\ Newest < MaxTasks
    /\ budget + c.size <= Limit
    /\ received' = received + c.size
    /\ spoken' = (spoken \/ c.speech)
    /\ budget' = budget + c.size
    /\ IF Len(filled.buffer) < Unit
       THEN pcm' = filled /\ UNCHANGED tasks
       ELSE /\ pcm' = Reserve(filled, Newest + 1)
            /\ Start("audio", SubSeq(filled.buffer, 1, Unit), {}, epoch)
    /\ UNCHANGED <<committed, sessionVars, runner, failures, heard, history, disordered>>

(* Backpressure: the chunk is refused, and yet counted as speech.          *)
RefuseAudio(c) ==
    /\ Free
    /\ received + c.size <= MaxInput
    /\ budget + c.size > Limit
    /\ spoken' = (spoken \/ c.speech)
    /\ UNCHANGED <<received, pcm, committed, budget, sessionVars, tasks, runner, failures, heard, history, disordered>>

(* A commit awaits the tail of the appends first, and is ignored if that   *)
(* failed: the client gets no answer to it.                                *)
AwaitTail(kind) ==
    /\ Free
    /\ Newest \in Unfinished
    /\ runner' = [Idle EXCEPT !.at = "commit", !.tail = Newest, !.kind = kind]
    /\ UNCHANGED <<inputVars, sessionVars, tasks, failures, heard, history, disordered>>

(* Wrong: does not await the tail.                                         *)
NoTail(kind, st) == Free

TailIs(kind, st) ==
    \/ Free /\ (IF tasks = <<>> THEN st = "ok" ELSE tasks[Newest].st = st)
    \/ runner.at = "commit" /\ runner.kind = kind /\ tasks[runner.tail].st = st

TailFailed ==
    /\ runner.at = "commit"
    /\ tasks[runner.tail].st = "failed"
    /\ runner' = Idle
    /\ UNCHANGED <<inputVars, sessionVars, tasks, failures, heard, history, disordered>>

Uncommitted == Raw(pcm.reserved) \o pcm.buffer

ClearInput ==
    /\ pcm' = EmptyBuffer
    /\ spoken' = FALSE
    /\ committed' = NoPayload
    /\ budget' = 0
    /\ cleared' = cleared \cup Samples(Uncommitted) \cup Samples(committed.sends)
    /\ early' = 0
    /\ UNCHANGED <<received, skipped>>

(* A commit of what the client knows to be silence.                        *)
CommitSilence ==
    /\ TailIs("silent", "ok")
    /\ ClearInput
    /\ runner' = Idle
    /\ UNCHANGED <<sessionVars, tasks, failures, heard, disordered>>

(* prepare_commit and commit of the reservation: it must be the only one.  *)
TakeResidual ==
    /\ pcm' = WithoutResidual(pcm)
    /\ disordered' = (disordered \/ pcm.reserved # <<>>)

(* Wrong: the new rest replaces what was retained.                         *)
Replaced == IF Residual(pcm) = <<>> THEN committed.sends ELSE Residual(pcm)

Merged == committed.sends \o Residual(pcm)

(* Wrong: forgets the bytes retained before.                               *)
RetainedAnew(sends, fresh) == [sends |-> sends, bytes |-> fresh]

Retained(sends, fresh) == [sends |-> sends, bytes |-> committed.bytes + fresh]

Suspend(at, kind) ==
    runner' = [Idle EXCEPT !.at = at, !.kind = kind, !.sends = Merged,
                           !.fresh = Samples(Residual(pcm))]

(* START_AUTO_RESPONSE: the payload is retained before the client is told. *)
CommitSpeech ==
    /\ TailIs("audio", "ok")
    /\ spoken
    /\ Newest < MaxTasks
    /\ TakeResidual
    /\ committed' = IF Merged = <<>> THEN committed
                    ELSE Retained(Merged, Len(Residual(pcm)))
    /\ spoken' = FALSE
    /\ IF Merged = <<>> THEN runner' = Idle ELSE Suspend("announce", "final")
    /\ UNCHANGED <<received, budget, sessionVars, tasks, failures, heard, history>>

(* COMMIT_ONLY and input.commit: the payload is retained afterwards.       *)
CommitOnly(kind) ==
    /\ TailIs(kind, "ok")
    /\ kind # "silent" /\ (kind = "audio" => ~spoken)
    /\ ~InProgress
    /\ Newest < MaxTasks
    /\ TakeResidual
    /\ IF Merged = <<>> THEN runner' = Idle ELSE Suspend("retain", kind)
    /\ spoken' = (spoken /\ Merged # <<>>)
    /\ UNCHANGED <<received, committed, budget, sessionVars, tasks, failures, heard, history>>

(* While a response is in progress the rest stays in the buffer.           *)
CommitNothing(kind) ==
    /\ TailIs(kind, "ok")
    /\ kind # "silent" /\ (kind = "audio" => ~spoken)
    /\ InProgress
    /\ spoken' = FALSE
    /\ runner' = Idle
    /\ UNCHANGED <<received, pcm, committed, budget, sessionVars, tasks, failures, heard, history, disordered>>

(* The client was told.                                                    *)
Announced ==
    /\ runner.at = "announce"
    /\ Start("final", runner.sends, runner.fresh, epoch)
    /\ runner' = Idle
    /\ UNCHANGED <<inputVars, sessionVars, failures, heard, history, disordered>>

Retain ==
    /\ runner.at = "retain"
    /\ committed' = Retained(runner.sends, Cardinality(runner.fresh))
    /\ \/ /\ runner.kind = "hold"
          /\ runner' = Idle
          /\ UNCHANGED <<responding, tasks>>
       \/ /\ runner.kind # "hold" /\ responding
          /\ Start("created", runner.sends, runner.fresh, epoch)
          /\ runner' = Idle
          /\ UNCHANGED responding
       \/ /\ runner.kind # "hold" /\ ~responding
          /\ responding' = TRUE
          /\ runner' = [runner EXCEPT !.at = "create", !.epoch = epoch]
          /\ UNCHANGED tasks
    /\ UNCHANGED <<received, pcm, spoken, budget, epoch, failures, heard, history, disordered>>

(* response.created was sent.                                              *)
Created ==
    /\ runner.at = "create"
    /\ Start("created", runner.sends, runner.fresh, runner.epoch)
    /\ runner' = Idle
    /\ UNCHANGED <<inputVars, sessionVars, failures, heard, history, disordered>>

(* response.create: appends what is retained.                              *)
CreateResponse ==
    /\ Free
    /\ ~responding /\ Unfinished = {}
    /\ committed.sends # <<>>
    /\ Newest < MaxTasks
    /\ responding' = TRUE
    /\ runner' = [Idle EXCEPT !.at = "create", !.sends = committed.sends, !.epoch = epoch]
    /\ UNCHANGED <<inputVars, epoch, tasks, failures, heard, history, disordered>>

(* input_audio_buffer.clear: appends under way go on.                      *)
Clear ==
    /\ Free
    /\ ClearInput
    /\ UNCHANGED <<sessionVars, tasks, runner, failures, heard, disordered>>

(* Cancelling a task that awaits another cancels that one too.             *)
Cancelled(ts) ==
    LET both == ts \cup {tasks[t].pred : t \in {u \in ts : tasks[u].st = "waiting"}}
    IN  tasks' = [t \in DOMAIN tasks |->
                    IF t \in Unfinished \cap both THEN [tasks[t] EXCEPT !.st = "failed"] ELSE tasks[t]]

(* With no append and no response under way it is a Clear.                 *)
InputCancel ==
    /\ Free
    /\ epoch < MaxEpoch
    /\ responding \/ tasks # <<>>
    /\ ClearInput
    /\ Cancelled(Unfinished)
    /\ runner' = [Idle EXCEPT !.at = "cancel"]
    /\ UNCHANGED <<sessionVars, failures, heard, disordered>>

(* Only the appends of a response are cancelled; input is kept.            *)
ResponseCancel ==
    /\ Free
    /\ epoch < MaxEpoch
    /\ InProgress
    /\ Cancelled({t \in Unfinished : IsFinal(t)})
    /\ runner' = [Idle EXCEPT !.at = "cancel"]
    /\ UNCHANGED <<inputVars, sessionVars, failures, heard, history, disordered>>

AdvanceEpoch ==
    /\ runner.at = "cancel"
    /\ epoch' = epoch + 1
    /\ responding' = FALSE
    /\ runner' = Idle
    /\ failures' = 0
    /\ UNCHANGED <<inputVars, tasks, heard, history, disordered>>

----------------------------------------------------------------------------
(* The data plane: responses begin and end, and silence keeps one going.   *)

Answering == \E i \in DOMAIN heard : tasks[heard[i]].epoch = epoch

ResponseBegins ==
    /\ ~responding /\ Answering
    /\ responding' = TRUE
    /\ UNCHANGED <<inputVars, epoch, tasks, runner, failures, heard, history, disordered>>

ResponseEnds ==
    /\ responding
    /\ responding' = FALSE
    /\ UNCHANGED <<inputVars, epoch, tasks, runner, failures, heard, history, disordered>>

Silence ==
    /\ Answering
    /\ Newest < MaxTasks
    /\ Cardinality({t \in DOMAIN tasks : tasks[t].kind = "silence"}) < MaxSilence
    /\ \A t \in Unfinished : tasks[t].kind # "silence"
    /\ Newest \notin Unfinished => ~InputWaiting
    /\ Start("silence", <<>>, {}, epoch)
    /\ UNCHANGED <<inputVars, sessionVars, runner, failures, heard, history, disordered>>

----------------------------------------------------------------------------

TaskStep(t) ==
    \/ PredecessorFailed(t) \/ SkipSilence(t) \/ Inactive(t) \/ Superseded(t)
    \/ Call(t) \/ Execute(t) \/ Acknowledged(t) \/ AppendFails(t)

RunnerStep ==
    \/ runner.at = "commit" /\ \/ CommitSilence \/ CommitSpeech
                               \/ \E k \in Commits : CommitOnly(k) \/ CommitNothing(k)
    \/ TailFailed
    \/ Announced \/ Retain \/ Created
    \/ AdvanceEpoch

Client ==
    \/ \E c \in Chunks : AppendAudio(c) \/ RefuseAudio(c)
    \/ \E k \in Commits : AwaitTail(k)
    \/ Free /\ \/ "silent" \in Commits /\ CommitSilence
               \/ "audio" \in Commits /\ CommitSpeech
               \/ \E k \in Commits : CommitOnly(k) \/ CommitNothing(k)
    \/ CreateResponse \/ Clear
    \/ "input.cancel" \in Cancels /\ InputCancel
    \/ "response.cancel" \in Cancels /\ ResponseCancel

DataPlane == ResponseBegins \/ ResponseEnds \/ Silence

Next == \/ \E t \in DOMAIN tasks : TaskStep(t)
        \/ RunnerStep \/ Client \/ DataPlane

Spec == Init /\ [][Next]_vars

----------------------------------------------------------------------------

TypeOK ==
    /\ received \in 0..MaxInput
    /\ pcm.buffer \in Seq(1..received) /\ pcm.speech \in BOOLEAN
    /\ \A i \in DOMAIN pcm.reserved : /\ pcm.reserved[i].task \in DOMAIN tasks
                                      /\ pcm.reserved[i].raw = tasks[pcm.reserved[i].task].sends
    /\ spoken \in BOOLEAN /\ responding \in BOOLEAN
    /\ committed.sends \in Seq(1..received) /\ committed.bytes \in Nat
    /\ budget \in 0..Limit
    /\ epoch \in 0..MaxEpoch /\ failures \in 0..MaxFailures
    /\ \A t \in DOMAIN tasks : /\ tasks[t].pred < t
                               /\ tasks[t].st \in {"waiting", "calling", "executed", "ok", "failed"}
    /\ runner.at \in {"idle", "commit", "announce", "retain", "create", "cancel"}
    /\ runner.tail \in 0..Newest

(* Reservations are committed in wire order: what is acknowledged is the   *)
(* first one reserved, and a commit comes when all are.  The code raises   *)
(* otherwise, which closes the session.                                    *)
CommitsInWireOrder == ~disordered

(* Every sample that was admitted waits in the buffer, in a reservation or *)
(* in the committed payload, has been appended, or was cleared, whatever   *)
(* fails and is rolled back.  Only an append that still waits when a       *)
(* response is cancelled is given up without being sent.                   *)
NothingLost ==
    1..received \subseteq
        UNION {Samples(Uncommitted), Samples(committed.sends), Samples(runner.sends),
               UNION {Samples(tasks[heard[i]].sends) : i \in DOMAIN heard},
               cleared, skipped}

Counted(i) == tasks[heard[i]].st # "failed"

Ascending(s) == \A i, j \in DOMAIN s : i < j => s[i] < s[j]

(* In each epoch the engine gets the samples in order, within an append    *)
(* and from one to the next, and once unless the append failed; those of a *)
(* commit that failed come later, with the next commit.                    *)
HeardInOrder ==
    \A j \in DOMAIN heard :
        LET g == tasks[heard[j]]
        IN  /\ Ascending(g.sends)
            /\ \A i \in 1..(j - 1) :
                  LET f == tasks[heard[i]]
                  IN  f.epoch = g.epoch /\ Counted(i) =>
                         \A a \in Samples(f.sends), b \in Samples(g.sends) :
                             a # b /\ (g.kind = "audio" \/ b \in g.fresh => a < b)

Held ==
    Len(Uncommitted) + committed.bytes
        + (IF runner.at = "retain" THEN Cardinality(runner.fresh) ELSE 0)

(* What counts against the session's limit is what it holds, through       *)
(* reservations, rollbacks, retained and merged payloads; only the bytes   *)
(* of an append that a clear has overtaken are released a second time.     *)
BudgetKept == budget <= Held /\ Held <= budget + early

=============================================================================
