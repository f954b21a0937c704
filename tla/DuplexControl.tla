----------------------------- MODULE DuplexControl -----------------------------
(***************************************************************************)
(* The full-duplex control plane with its handlers split at their awaits,  *)
(* the cleanup tasks they share, the expiry reaper, and the orchestration  *)
(* loop that forwards segments and cleans up after stage failures.         *)
(*                                                                         *)
(* All of it runs on one event loop: a step is what runs between two       *)
(* suspensions.  A task that is done and the resumption of those who wait  *)
(* for it are different steps.  Stage submissions and aborts reach a stage *)
(* in the order they are sent; an await ends later.                        *)
(*                                                                         *)
(* Time is abstracted: a lease that may expire may do so at any moment.    *)
(*                                                                         *)
(* Source: src/vllm_omni/experimental/fullduplex/engine/                   *)
(* duplex_control_plane.py and src/vllm_omni/engine/orchestrator.py.       *)
(***************************************************************************)
EXTENDS DuplexState

CONSTANTS
    Sids,            \* public session ids
    Fences,          \* fences that clients put in control messages
    EntryStage,      \* stage 0, where appends are submitted
    NextStage,       \* stage 1, where segments are forwarded
    MaxSessions,     \* max_sessions
    MaxSeq,          \* bound: appends committed in one epoch
    MaxGeneration,   \* bound: lease resumptions
    MaxFailures,     \* bound: aborts that raise
    Events,          \* what the environment does in this instance
    NoSession,       \* the session id is not registered
    NoRecord,        \* nothing is awaited
    NoMessage        \* the handler of a session runs no control

EventKinds == {"open_error", "abort_error", "submit_error", "disconnect", "forward",
               "stage_error", "replica_death"}

ASSUME ControlAssumption ==
    /\ Fences \subseteq Fence
    /\ {EntryStage, NextStage} \subseteq Stages /\ EntryStage # NextStage
    /\ MaxSessions \in Nat \ {0}
    /\ IsFiniteSet(Sids)
    /\ {MaxSeq, MaxGeneration, MaxFailures} \subseteq Nat
    /\ Events \subseteq EventKinds
    /\ NoSession \notin Session

VARIABLES
    sessions,      \* the registry: DuplexSessionRuntimeManager._sessions
    detached,      \* a session that left the registry while a handler holds it
    identity,      \* fences of the preregistered requests (request_states)
    nextInc,       \* incarnations given out by the serving registry
    handler,       \* the control of each session that is being handled
    controls,      \* _pending_control_cleanups
    controlTasks,  \* _control_cleanup_tasks
    compensation,  \* _pending_submission_cleanups
    compensating,  \* _submission_cleanup_tasks
    expirations,   \* _pending_expirations
    reaper,        \* where reap_expired is suspended
    loop,          \* where the orchestration loop is suspended
    engine,        \* requests that the stages hold
    failures,      \* aborts that raised so far
    crashed        \* the orchestration loop raised: the orchestrator stops

vars == <<sessions, detached, identity, nextInc, handler, controls, controlTasks, compensation,
          compensating, expirations, reaper, loop, engine, failures, crashed>>

controlRecords == <<controls, controlTasks>>
undoRecords == <<compensation, compensating>>
records == <<controls, controlTasks, compensation, compensating, expirations>>
stageVars == <<engine, failures>>

-----------------------------------------------------------------------------
(* Records.                                                                *)

Kinds == {"open", "append", "cancel", "update", "close"}

(* next is the fence after a cancel.  Appends carry no operation id here. *)
Message == [kind : Kinds, fence : Fence, next : Fence]

(* A pending control cleanup; its key is (kind, sid, fence).               *)
Control == [kind : {"close", "cancel", "open_rollback"}, sid : Sids, fence : Fence,
            submitted : SUBSET Request, reserved : SUBSET Request]

ControlKey(c) == <<c.kind, c.sid, c.fence>>

(* A cleanup task, with the record it was created for and whether the      *)
(* abort it sent will succeed.                                             *)
Task == [record : Control, ok : BOOLEAN]

Compensation == [ids : SUBSET Request, ok : BOOLEAN]

(* A pending expiration; its key is (sid, generation).                     *)
Expiration == [sid : Sids, generation : Nat, submitted : SUBSET Request,
               reserved : SUBSET Request]

StageRequest == [stage : Stages, sid : Sids, request : Request]

Outcomes == {"none", "ok", "fail"}

Outcome(ok) == IF ok THEN "ok" ELSE "fail"

(* Where the handler of a session is suspended: before its body, for the   *)
(* compensation of an earlier append; in the submission, whose outcome is  *)
(* what the stage will answer; in the compensation of its own append; in   *)
(* its control cleanup.                                                    *)
Handler == [pc : {"idle", "compensate", "submit", "undo", "cleanup"},
            msg : Message \cup {NoMessage}, inc : Nat,
            res : Reservation \cup {NoRecord}, record : Control \cup {NoRecord},
            outcome : Outcomes]

IdleHandler == [pc |-> "idle", msg |-> NoMessage, inc |-> 0, res |-> NoRecord,
                record |-> NoRecord, outcome |-> "none"]

(* The reaper works through a snapshot of each kind of record.  It awaits  *)
(* current; todo is the rest of the snapshot.                              *)
Reaper == [pc : {"compensations", "controls", "expirations"},
           todo : SUBSET (Sids \cup Control \cup Expiration),
           current : Sids \cup Control \cup Expiration \cup {NoRecord},
           outcome : Outcomes]

AtPhase(pc) == [pc |-> pc, todo |-> {}, current |-> NoRecord, outcome |-> "none"]

(* The orchestration loop handles one stage output at a time.              *)
Loop == [pc : {"idle", "forward", "cleanup"}, sid : Sids \cup {NoRecord},
         fence : Fence \cup {NoFence}, ids : SUBSET [sid : Sids, request : Request],
         closing : SUBSET Sids, ok : BOOLEAN]

IdleLoop == [pc |-> "idle", sid |-> NoRecord, fence |-> NoFence, ids |-> {},
             closing |-> {}, ok |-> TRUE]

TypeOK ==
    /\ sessions \in [Sids -> Session \cup {NoSession}]
    /\ detached \in [Sids -> Session \cup {NoSession}]
    /\ identity \in [Sids -> SUBSET Fence]
    /\ nextInc \in [Sids -> Nat]
    /\ handler \in [Sids -> Handler]
    /\ controls \subseteq Control
    /\ controlTasks \subseteq Task
    /\ compensation \in [Sids -> SUBSET Request]
    /\ compensating \in [Sids -> SUBSET Compensation]
    /\ expirations \subseteq Expiration
    /\ reaper \in Reaper
    /\ loop \in Loop
    /\ engine \subseteq StageRequest
    /\ failures \in Nat
    /\ crashed \in BOOLEAN

Init ==
    /\ sessions = [sid \in Sids |-> NoSession]
    /\ detached = [sid \in Sids |-> NoSession]
    /\ identity = [sid \in Sids |-> {}]
    /\ nextInc = [sid \in Sids |-> 0]
    /\ handler = [sid \in Sids |-> IdleHandler]
    /\ controls = {}
    /\ controlTasks = {}
    /\ compensation = [sid \in Sids |-> {}]
    /\ compensating = [sid \in Sids |-> {}]
    /\ expirations = {}
    /\ reaper = AtPhase("compensations")
    /\ loop = IdleLoop
    /\ engine = {}
    /\ failures = 0
    /\ crashed = FALSE

-----------------------------------------------------------------------------
(* The registry and the object that a handler holds.                       *)

Registered == {sid \in Sids : sessions[sid] # NoSession}

IsRegistered(sid, inc) == sid \in Registered /\ sessions[sid].fence.inc = inc

Object(sid, inc) == IF IsRegistered(sid, inc) THEN sessions[sid] ELSE detached[sid]

(* The session objects after s is stored in the object that has been held. *)
Stored(sid, inc, s) == IF IsRegistered(sid, inc) THEN [sessions EXCEPT ![sid] = s] ELSE sessions

Suspend(sid, inc, s, h) ==
    /\ sessions' = Stored(sid, inc, s)
    /\ detached' = IF IsRegistered(sid, inc) THEN detached ELSE [detached EXCEPT ![sid] = s]
    /\ handler' = [handler EXCEPT ![sid] = h]

(* The handler answers; what it held may be collected.                     *)
Answer(sid, inc, s) ==
    /\ sessions' = Stored(sid, inc, s)
    /\ detached' = [detached EXCEPT ![sid] = NoSession]
    /\ handler' = [handler EXCEPT ![sid] = IdleHandler]

AnswerUnchanged(sid) ==
    /\ detached' = [detached EXCEPT ![sid] = NoSession]
    /\ handler' = [handler EXCEPT ![sid] = IdleHandler]
    /\ UNCHANGED sessions

HoldsObject(sid) ==
    /\ handler[sid].pc # "idle"
    /\ handler[sid].msg.kind \in {"append", "cancel", "update"}
    /\ IsRegistered(sid, handler[sid].inc)

(* finalize_close_session for the given ids in the registry ss; a handler  *)
(* keeps the object it holds.                                              *)
Finalize(ss, sids) ==
    /\ sessions' = [sid \in Sids |-> IF sid \in sids THEN NoSession ELSE ss[sid]]
    /\ detached' = [sid \in Sids |-> IF sid \in sids /\ HoldsObject(sid)
                                     THEN ReleaseAll(ss[sid])
                                     ELSE detached[sid]]

-----------------------------------------------------------------------------
(* Stage cleanup and the tasks that run it.                                *)

Owned(sid, ids) == {[sid |-> sid, request |-> r] : r \in ids}

InEngine(ids) == {q \in engine : [sid |-> q.sid, request |-> q.request] \in ids}

(* The abort is sent; it may raise, and then the stages keep the requests. *)
SendAbort(ids, ok) ==
    /\ ok \/ (ids # {} /\ "abort_error" \in Events /\ failures < MaxFailures)
    /\ engine' = IF ok THEN engine \ InEngine(ids) ELSE engine
    /\ failures' = IF ok THEN failures ELSE failures + 1

(* The end of a stage cleanup: the preregistered requests are popped.      *)
Popped(ids) ==
    [sid \in Sids |-> ForgetRequests(identity[sid], {q.request : q \in {p \in ids : p.sid = sid}})]

(* Wrong: a record that is pending has had its task.                       *)
JoinControlOnce(c) ==
    IF c \in controls
    THEN UNCHANGED <<controlTasks, stageVars>>
    ELSE \E ok \in BOOLEAN :
            /\ SendAbort(Owned(c.sid, c.submitted), ok)
            /\ controlTasks' = controlTasks \cup {[record |-> c, ok |-> ok]}

(* _complete_control_cleanup: one task runs per key.                       *)
JoinControl(c) ==
    IF \E t \in controlTasks : ControlKey(t.record) = ControlKey(c)
    THEN UNCHANGED <<controlTasks, stageVars>>
    ELSE \E ok \in BOOLEAN :
            /\ SendAbort(Owned(c.sid, c.submitted), ok)
            /\ controlTasks' = controlTasks \cup {[record |-> c, ok |-> ok]}

(* _complete_pending_submission_cleanup for the pending ids: one task runs *)
(* per session.                                                            *)
JoinCompensation(sid, ids) ==
    IF compensating[sid] # {}
    THEN UNCHANGED <<compensating, stageVars>>
    ELSE \E ok \in BOOLEAN :
            /\ SendAbort(Owned(sid, ids), ok)
            /\ compensating' = [compensating EXCEPT ![sid] = {[ids |-> ids, ok |-> ok]}]

AwaitsControl(h, c) ==
    h.pc = "cleanup" /\ h.outcome = "none" /\ ControlKey(h.record) = ControlKey(c)

(* Wrong: forgets the record of an abort that raised.                      *)
StillPendingDropped(t) == {d \in controls : ControlKey(d) # ControlKey(t.record)}

StillPending(t) ==
    IF t.ok THEN {d \in controls : ControlKey(d) # ControlKey(t.record)} ELSE controls

(* _run_control_cleanup after its awaits.  A cancel releases its fence; a  *)
(* close or a rollback finalizes the session that has the id now.          *)
FinishControl(t) ==
    LET c == t.record
    IN  /\ controlTasks' = controlTasks \ {t}
        /\ controls' = StillPending(t)
        /\ IF t.ok
           THEN /\ identity' = Popped(Owned(c.sid, c.submitted \cup c.reserved))
                /\ IF c.kind = "cancel"
                   THEN /\ sessions' = IF c.sid \in Registered
                                       THEN [sessions EXCEPT ![c.sid] = ReleaseFence(@, c.fence)]
                                       ELSE sessions
                        /\ UNCHANGED detached
                   ELSE Finalize(sessions, {c.sid} \cap Registered)
           ELSE UNCHANGED <<identity, sessions, detached>>
        /\ handler' = [sid \in Sids |->
                         IF sid = c.sid /\ AwaitsControl(handler[sid], c)
                         THEN [handler[sid] EXCEPT !.outcome = Outcome(t.ok)]
                         ELSE handler[sid]]
        /\ reaper' = IF /\ reaper.pc = "controls" /\ reaper.current # NoRecord
                        /\ ControlKey(reaper.current) = ControlKey(c)
                     THEN [reaper EXCEPT !.outcome = Outcome(t.ok)]
                     ELSE reaper
        /\ UNCHANGED <<nextInc, undoRecords, expirations, loop, stageVars, crashed>>

(* _run_submission_cleanup after its await.                                *)
FinishCompensation(sid, t) ==
    /\ compensating' = [compensating EXCEPT ![sid] = {}]
    /\ IF t.ok
       THEN /\ identity' = Popped(Owned(sid, t.ids))
            /\ compensation' = [compensation EXCEPT ![sid] = IF @ = t.ids THEN {} ELSE @]
            /\ sessions' = IF sid \in Registered
                           THEN [sessions EXCEPT ![sid] = ReleaseRequests(@, t.ids)]
                           ELSE sessions
       ELSE UNCHANGED <<identity, compensation, sessions>>
    /\ handler' = IF handler[sid].pc \in {"compensate", "undo"}
                  THEN [handler EXCEPT ![sid].outcome = Outcome(t.ok)]
                  ELSE handler
    /\ reaper' = IF reaper.pc = "compensations" /\ reaper.current = sid
                 THEN [reaper EXCEPT !.outcome = Outcome(t.ok)]
                 ELSE reaper
    /\ UNCHANGED <<detached, nextInc, controlRecords, expirations, loop, stageVars, crashed>>

-----------------------------------------------------------------------------
(* The bodies of the handlers, each up to its next await or its answer.    *)

(* The lease operation of an append; one runs at a time in a session.      *)
AppendOperation == 1

EndAppend(s) ==
    IF AppendOperation \in s.activeOps THEN EndOperation(s, AppendOperation, 0) ELSE s

CanAppend(s, f) ==
    /\ ValidFence(s, f)
    /\ Live(s)
    /\ AppendOperation \notin s.activeOps
    /\ CanReserve(s, EntryStage, RequestOf(f), f)

(* The loop holds the request state whose fence ensure_request replaces.   *)
SegmentRefenced(sid, f) ==
    IF /\ loop.pc = "forward" /\ loop.sid = sid /\ RequestOf(loop.fence) = RequestOf(f)
       /\ \E g \in identity[sid] : RequestOf(g) = RequestOf(f)
    THEN [loop EXCEPT !.fence = f]
    ELSE loop

(* The request is sent to the entry stage.  A submission that raises has   *)
(* or has not left the request there.                                      *)
AppendBody(sid, inc, m) ==
    LET s == Object(sid, inc)
        r == RequestOf(m.fence)
    IN  /\ IF CanAppend(s, m.fence)
           THEN \E ok \in BOOLEAN, sent \in BOOLEAN :
                /\ ok => sent
                /\ ok \/ "submit_error" \in Events
                /\ Suspend(sid, inc,
                           Reserve(BeginOperation(s, AppendOperation, 0), EntryStage, r, m.fence),
                           [IdleHandler EXCEPT !.pc = "submit", !.msg = m, !.inc = inc,
                                !.res = PrepareAppend(s, m.fence), !.outcome = Outcome(ok)])
                /\ identity' = [identity EXCEPT ![sid] = EnsureRequest(@, m.fence)]
                /\ loop' = SegmentRefenced(sid, m.fence)
                /\ engine' = IF sent
                             THEN engine \cup {[stage |-> EntryStage, sid |-> sid, request |-> r]}
                             ELSE engine
           ELSE /\ AnswerUnchanged(sid)
                /\ UNCHANGED <<identity, loop, engine>>
        /\ UNCHANGED <<controlRecords, failures>>

Pending(kind, sid, f) == {c \in controls : ControlKey(c) = <<kind, sid, f>>}

AwaitControl(sid, inc, s, m, c) ==
    /\ Suspend(sid, inc, s, [IdleHandler EXCEPT !.pc = "cleanup", !.msg = m, !.inc = inc,
                                                !.record = c])
    /\ controls' = controls \cup {c}
    /\ JoinControl(c)

(* Wrong: keeps no request to abort.                                       *)
CancelRecordEmpty(sid, f, s) ==
    [kind |-> "cancel", sid |-> sid, fence |-> f, submitted |-> {}, reserved |-> {}]

CancelRecord(sid, f, s) ==
    [kind |-> "cancel", sid |-> sid, fence |-> f,
     submitted |-> RequestsOfFence(s, f), reserved |-> {}]

(* A cancel that is pending is joined, not prepared again.                 *)
CancelBody(sid, inc, m) ==
    LET s == Object(sid, inc)
        t == PrepareCancel(s, m.next)
        pending == Pending("cancel", sid, m.fence)
    IN  /\ \/ \E c \in pending : AwaitControl(sid, inc, s, m, c)
           \/ /\ pending = {}
              /\ CanCancel(s, m.fence, m.next)
              /\ AwaitControl(sid, inc, t, m, CancelRecord(sid, m.fence, t))
           \/ /\ pending = {} /\ ~CanCancel(s, m.fence, m.next)
              /\ AnswerUnchanged(sid)
              /\ UNCHANGED <<controlRecords, stageVars>>
        /\ UNCHANGED <<identity, loop>>

UpdateBody(sid, inc, m) ==
    LET s == Object(sid, inc)
    IN  /\ IF ValidFence(s, m.fence)
           THEN Answer(sid, inc, AcceptFence(s, m.fence))
           ELSE AnswerUnchanged(sid)
        /\ UNCHANGED <<identity, loop, controlRecords, stageVars>>

CloseRecord(kind, sid, f, s) ==
    [kind |-> kind, sid |-> sid, fence |-> f,
     submitted |-> SubmittedRequests(s), reserved |-> UnsubmittedRequests(s)]

(* A close acts on the session that has the id now, not on one it held.    *)
CloseBody(sid, m) ==
    LET s == sessions[sid]
        pending == Pending("close", sid, m.fence)
        may == sid \in Registered /\ ValidFence(s, m.fence)
    IN  /\ \/ /\ sid \in Registered
              /\ \E c \in pending : AwaitControl(sid, s.fence.inc, s, m, c)
           \/ /\ pending = {} /\ may
              /\ AwaitControl(sid, s.fence.inc,
                              BeginClose(AcceptFence(s, m.fence), "explicit_close"),
                              m, CloseRecord("close", sid, m.fence, s))
           \/ /\ sid \notin Registered \/ (pending = {} /\ ~may)
              /\ AnswerUnchanged(sid)
              /\ UNCHANGED <<controlRecords, stageVars>>
        /\ UNCHANGED <<identity, loop>>

Body(sid, inc, m) ==
    /\ \/ m.kind = "append" /\ AppendBody(sid, inc, m)
       \/ m.kind = "cancel" /\ CancelBody(sid, inc, m)
       \/ m.kind = "update" /\ UpdateBody(sid, inc, m)
       \/ m.kind = "close"  /\ CloseBody(sid, m)
    /\ UNCHANGED <<nextInc, undoRecords, expirations, reaper, crashed>>

-----------------------------------------------------------------------------
(* Controls of one session run one after the other.                        *)

(* handle_open: it awaits nothing when it succeeds.                        *)
Admitted(sid, f) ==
    /\ handler[sid].pc = "idle"
    /\ sid \notin Registered
    /\ Cardinality(Registered) < MaxSessions
    /\ f.inc >= nextInc[sid]
    /\ f.epoch = 0 /\ f.turn = 0 /\ f.resp = 0
    /\ nextInc' = [nextInc EXCEPT ![sid] = f.inc + 1]

Opened(f) == Reserve(NewSession(f, 0), EntryStage, RequestOf(f), f)

Open(sid, f) ==
    /\ Admitted(sid, f)
    /\ sessions' = [sessions EXCEPT ![sid] = Opened(f)]
    /\ identity' = [identity EXCEPT ![sid] = EnsureRequest(@, f)]
    /\ UNCHANGED <<detached, handler, records, reaper, loop, stageVars, crashed>>

(* Sampling parameters are refused after the reservation.                  *)
OpenFails(sid, f) ==
    LET c == [kind |-> "open_rollback", sid |-> sid, fence |-> f, submitted |-> {},
              reserved |-> AllRequests(Opened(f))]
    IN  /\ "open_error" \in Events
        /\ Admitted(sid, f)
        /\ sessions' = [sessions EXCEPT ![sid] = BeginClose(Opened(f), "open_rollback")]
        /\ handler' = [handler EXCEPT ![sid] =
                          [IdleHandler EXCEPT !.pc = "cleanup", !.inc = f.inc, !.record = c,
                               !.msg = [kind |-> "open", fence |-> f, next |-> f]]]
        /\ controls' = controls \cup {c}
        /\ JoinControl(c)
        /\ UNCHANGED <<detached, identity, undoRecords, expirations, reaper, loop, crashed>>

(* Wrong: starts the body at once.                                         *)
BeginAtOnce(sid, m) ==
    /\ handler[sid].pc = "idle"
    /\ sid \in Registered
    /\ m.kind = "append" => PrepareAppend(sessions[sid], m.fence).seq <= MaxSeq
    /\ Body(sid, sessions[sid].fence.inc, m)

(* A control takes the session, then waits for a pending compensation.     *)
Begin(sid, m) ==
    /\ handler[sid].pc = "idle"
    /\ sid \in Registered
    /\ m.kind = "append" => PrepareAppend(sessions[sid], m.fence).seq <= MaxSeq
    /\ \/ /\ compensation[sid] = {}
          /\ Body(sid, sessions[sid].fence.inc, m)
       \/ /\ compensation[sid] # {}
          /\ Suspend(sid, sessions[sid].fence.inc, sessions[sid],
                     [IdleHandler EXCEPT !.pc = "compensate", !.msg = m,
                                         !.inc = sessions[sid].fence.inc])
          /\ JoinCompensation(sid, compensation[sid])
          /\ UNCHANGED <<identity, nextInc, controlRecords, compensation, expirations, reaper,
                         loop, crashed>>

(* ... which lets the control go on, or fail.                              *)
Continue(sid) ==
    LET h == handler[sid]
    IN  /\ h.pc = "compensate"
        /\ \/ h.outcome = "ok" /\ Body(sid, h.inc, h.msg)
           \/ /\ h.outcome = "fail"
              /\ AnswerUnchanged(sid)
              /\ UNCHANGED <<identity, nextInc, records, reaper, loop, stageVars, crashed>>

(* The submission returned: commit and bind, or compensate.                *)
Submitted(sid) ==
    LET h == handler[sid]
        s == Object(sid, h.inc)
        f == h.res.fence
        r == RequestOf(f)
    IN  /\ h.pc = "submit" /\ h.outcome = "ok"
        /\ \/ /\ ReservationCurrent(s, h.res) /\ ValidFence(s, f)
              /\ Answer(sid, h.inc, EndAppend(Bind(CommitAppend(s, h.res), EntryStage, r, f)))
              /\ UNCHANGED <<undoRecords, stageVars>>
           \/ /\ ~(ReservationCurrent(s, h.res) /\ ValidFence(s, f))
              /\ handler' = [handler EXCEPT ![sid].pc = "undo", ![sid].outcome = "none"]
              /\ compensation' = [compensation EXCEPT ![sid] = {r}]
              /\ JoinCompensation(sid, {r})
              /\ UNCHANGED <<sessions, detached>>
        /\ UNCHANGED <<identity, nextInc, controlRecords, expirations, reaper, loop, crashed>>

(* The submission raised, or its compensation ended: the append fails.     *)
AppendFails(sid) ==
    LET h == handler[sid]
    IN  /\ \/ h.pc = "submit" /\ h.outcome = "fail"
           \/ h.pc = "undo" /\ h.outcome # "none"
        /\ Answer(sid, h.inc, EndAppend(Object(sid, h.inc)))
        /\ UNCHANGED <<identity, nextInc, records, reaper, loop, stageVars, crashed>>

(* The control cleanup ended.  What a signal publishes then, its           *)
(* configuration and the time, is not in this module.                      *)
CleanedUp(sid) ==
    /\ handler[sid].pc = "cleanup" /\ handler[sid].outcome # "none"
    /\ AnswerUnchanged(sid)
    /\ UNCHANGED <<identity, nextInc, records, reaper, loop, stageVars, crashed>>

Detach(sid, f) ==
    /\ "disconnect" \in Events
    /\ handler[sid].pc = "idle" /\ sid \in Registered
    /\ ValidFence(sessions[sid], f) /\ Live(sessions[sid])
    /\ sessions' = [sessions EXCEPT ![sid] = DetachLease(@, 0)]
    /\ UNCHANGED <<detached, identity, nextInc, handler, records, reaper, loop, stageVars,
                   crashed>>

Resume(sid, f) ==
    /\ handler[sid].pc = "idle" /\ sid \in Registered
    /\ ValidFence(sessions[sid], f) /\ Live(sessions[sid])
    /\ sessions[sid].generation < MaxGeneration
    /\ sessions' = [sessions EXCEPT ![sid] = ResumeLease(@, 0)]
    /\ UNCHANGED <<detached, identity, nextInc, handler, records, reaper, loop, stageVars,
                   crashed>>

-----------------------------------------------------------------------------
(* The end of the cleanups, for whoever waits for them.                    *)

(* The reaper: it goes on when it awaits nothing or what it awaits ended,  *)
(* with the records of this round that it has not come to.                 *)
ReaperReady(pc) == reaper.pc = pc /\ (reaper.current = NoRecord \/ reaper.outcome # "none")

Rest(snapshot) == IF reaper.current = NoRecord THEN snapshot ELSE reaper.todo

AwaitNext(x, rest, outcome) ==
    reaper' = [reaper EXCEPT !.current = x, !.todo = rest \ {x}, !.outcome = outcome]

(* A compensation of the snapshot that is no longer pending is passed over.*)
ReapCompensations ==
    LET rest == {sid \in Rest(Sids) : compensation[sid] # {}}
    IN  /\ ReaperReady("compensations")
        /\ \/ \E sid \in rest :
                /\ AwaitNext(sid, rest, "none")
                /\ JoinCompensation(sid, compensation[sid])
           \/ /\ rest = {}
              /\ reaper' = AtPhase("controls")
              /\ UNCHANGED <<compensating, stageVars>>
        /\ UNCHANGED <<sessions, detached, identity, nextInc, handler, controlRecords,
                       compensation, expirations, loop, crashed>>

(* Wrong: leaves the controls to their handlers.                           *)
ReapNoControls ==
    /\ ReaperReady("controls")
    /\ reaper' = AtPhase("expirations")
    /\ UNCHANGED <<sessions, detached, identity, nextInc, handler, records, loop, stageVars,
                   crashed>>

(* A control of the snapshot is run again even if it has ended.            *)
ReapControls ==
    LET rest == Rest(controls)
    IN  /\ ReaperReady("controls")
        /\ \/ \E c \in rest : AwaitNext(c, rest, "none") /\ JoinControl(c)
           \/ /\ rest = {}
              /\ reaper' = AtPhase("expirations")
              /\ UNCHANGED <<controlTasks, stageVars>>
        /\ UNCHANGED <<sessions, detached, identity, nextInc, handler, controls, undoRecords,
                       expirations, loop, crashed>>

MayExpire(sid) ==
    /\ sid \in Registered
    /\ compensation[sid] = {}
    /\ Live(sessions[sid])
    /\ sessions[sid].detachedAt # NoTime \/ sessions[sid].activeOps = {}

ExpiryReason(s) ==
    IF s.detachedAt # NoTime THEN "disconnect_grace_expired" ELSE "idle_ttl_expired"

Expiry(sid, s) ==
    [sid |-> sid, generation |-> s.generation + 1,
     submitted |-> SubmittedRequests(s), reserved |-> UnsubmittedRequests(s)]

SameExpiry(x, y) == x.sid = y.sid /\ x.generation = y.generation

(* An expiry whose key is pending is dropped (setdefault).                 *)
WithExpired(expired) ==
    expirations \cup {x \in {Expiry(sid, sessions[sid]) : sid \in expired} :
                         \A y \in expirations : ~SameExpiry(x, y)}

Expiring(ss, done) ==
    {sid \in Sids : /\ ss[sid] # NoSession
                    /\ \E x \in done : x.sid = sid /\ x.generation = ss[sid].generation}

(* Go through the expirations of the snapshot: with nothing to abort they  *)
(* are done at once, until one has to be awaited.                          *)
Expire(ss, pending, ended, rest) ==
    LET quick == {x \in rest : x.submitted = {}}
    IN  \E now \in SUBSET quick :
          LET done == ended \cup now
          IN  /\ identity' = Popped(UNION {Owned(x.sid, x.submitted \cup x.reserved) : x \in done})
              /\ Finalize(ss, Expiring(ss, done))
              /\ expirations' = {y \in pending : \A x \in done : ~SameExpiry(x, y)}
              /\ \/ \E x \in rest \ quick, ok \in BOOLEAN :
                       /\ SendAbort(Owned(x.sid, x.submitted), ok)
                       /\ AwaitNext(x, rest \ now, Outcome(ok))
                 \/ /\ rest = now
                    /\ reaper' = AtPhase("compensations")
                    /\ UNCHANGED <<stageVars>>

(* Close what has expired, then clean up all that is pending.              *)
CollectExpired ==
    /\ reaper.pc = "expirations" /\ reaper.current = NoRecord
    /\ \E expired \in SUBSET {sid \in Sids : MayExpire(sid)} :
          Expire([sid \in Sids |->
                    IF sid \in expired
                    THEN BeginClose(sessions[sid], ExpiryReason(sessions[sid]))
                    ELSE sessions[sid]],
                 WithExpired(expired), {}, WithExpired(expired))
    /\ UNCHANGED <<nextInc, handler, controlRecords, undoRecords, loop, crashed>>

(* The abort of an expiration ended; one that raised leaves it pending.    *)
ExpireNext ==
    /\ reaper.pc = "expirations" /\ reaper.outcome # "none"
    /\ Expire(sessions, expirations,
              IF reaper.outcome = "ok" THEN {reaper.current} ELSE {}, reaper.todo)
    /\ UNCHANGED <<nextInc, handler, controlRecords, undoRecords, loop, crashed>>

-----------------------------------------------------------------------------
(* The orchestration loop.                                                 *)

(* A preregistered request may have an output: a stage holds it, or it did *)
(* and the output was polled before its abort.                             *)
MayOutput(sid, stage, f) ==
    \/ [stage |-> stage, sid |-> sid, request |-> RequestOf(f)] \in engine
    \/ /\ sid \in Registered
       /\ \E r \in Reserved(sessions[sid], stage, RequestOf(f)) : r.submitted

(* A segment of the entry stage is sent to the next stage.                 *)
ForwardSegment(sid, f) ==
    /\ "forward" \in Events
    /\ loop.pc = "idle"
    /\ MayOutput(sid, EntryStage, f)
    /\ engine' = engine \cup {[stage |-> NextStage, sid |-> sid, request |-> RequestOf(f)]}
    /\ loop' = [IdleLoop EXCEPT !.pc = "forward", !.sid = sid, !.fence = f]
    /\ UNCHANGED <<sessions, detached, identity, nextInc, handler, records, reaper, failures,
                   crashed>>

(* ... and bound in the session that has the id by then; a fence that this *)
(* session refuses raises out of the loop.                                 *)
SegmentForwarded ==
    LET sid == loop.sid
        r == RequestOf(loop.fence)
        refused == sid \in Registered /\ ~CanReserve(sessions[sid], NextStage, r, loop.fence)
    IN  /\ loop.pc = "forward"
        /\ crashed' = refused
        /\ sessions' = IF sid \in Registered /\ ~refused
                       THEN [sessions EXCEPT ![sid] =
                               Bind(Reserve(@, NextStage, r, loop.fence), NextStage, r, loop.fence)]
                       ELSE sessions
        /\ loop' = IdleLoop
        /\ UNCHANGED <<detached, identity, nextInc, handler, records, reaper, stageVars>>

(* The sessions that own one of the affected requests begin to close, and  *)
(* all their requests are cleaned up.                                      *)
Owners(ids) ==
    {sid \in Registered : \E r \in AllRequests(sessions[sid]) : [sid |-> sid, request |-> r] \in ids}

Affected(ids) == ids \cup UNION {Owned(sid, AllRequests(sessions[sid])) : sid \in Owners(ids)}

OwnersClosing(ids) ==
    [sid \in Sids |-> IF sid \in Owners(ids)
                      THEN BeginClose(sessions[sid], "request_cleanup")
                      ELSE sessions[sid]]

(* A stage reports an error for a request.                                 *)
StageError(sid, f) ==
    LET ids == {[sid |-> sid, request |-> RequestOf(f)]}
    IN  /\ "stage_error" \in Events
        /\ loop.pc = "idle"
        /\ \E stage \in Stages : MayOutput(sid, stage, f)
        /\ sessions' = OwnersClosing(ids)
        /\ \E ok \in BOOLEAN :
              /\ SendAbort(Affected(ids), ok)
              /\ loop' = [IdleLoop EXCEPT !.pc = "cleanup", !.ids = Affected(ids),
                                          !.closing = Owners(ids), !.ok = ok]
        /\ UNCHANGED <<detached, identity, nextInc, handler, records, reaper, crashed>>

(* A replica of a stage dies with the requests it holds; another remains.  *)
(* Nothing is aborted and nothing awaited.                                 *)
ReplicaDeath(dead) ==
    LET ids == {[sid |-> q.sid, request |-> q.request] : q \in dead}
    IN  /\ "replica_death" \in Events
        /\ loop.pc = "idle"
        /\ dead # {}
        /\ engine' = engine \ dead
        /\ identity' = Popped(Affected(ids))
        /\ Finalize(OwnersClosing(ids), Owners(ids))
        /\ UNCHANGED <<nextInc, handler, records, reaper, loop, failures, crashed>>

(* The cleanup ended; an abort that raised takes the loop with it.         *)
LoopCleanedUp ==
    /\ loop.pc = "cleanup"
    /\ IF loop.ok
       THEN /\ identity' = Popped(loop.ids)
            /\ Finalize(sessions, {sid \in loop.closing \cap Registered : ~Live(sessions[sid])})
       ELSE UNCHANGED <<identity, sessions, detached>>
    /\ crashed' = ~loop.ok
    /\ loop' = IdleLoop
    /\ UNCHANGED <<nextInc, handler, records, reaper, stageVars>>

-----------------------------------------------------------------------------
Messages ==
    {[kind |-> k, fence |-> f, next |-> f] : k \in {"append", "update", "close"}, f \in Fences}
    \cup {[kind |-> "cancel", fence |-> f, next |-> g] : f \in Fences, g \in Fences}

Requests(sid) ==
    \/ \E f \in Fences : Open(sid, f) \/ OpenFails(sid, f) \/ Detach(sid, f) \/ Resume(sid, f)
    \/ \E m \in Messages : Begin(sid, m)

Handle(sid) == Continue(sid) \/ Submitted(sid) \/ AppendFails(sid) \/ CleanedUp(sid)

Finish(sid) == \E t \in compensating[sid] : FinishCompensation(sid, t)

FinishOf(key) == \E t \in controlTasks : ControlKey(t.record) = key /\ FinishControl(t)

Keys == {"close", "cancel", "open_rollback"} \X Sids \X Fences

Reap == ReapCompensations \/ ReapControls \/ CollectExpired \/ ExpireNext

Poll ==
    \/ \E sid \in Sids : \E f \in identity[sid] : ForwardSegment(sid, f) \/ StageError(sid, f)
    \/ \E stage \in Stages : \E dead \in SUBSET {q \in engine : q.stage = stage} : ReplicaDeath(dead)

LoopReturns == SegmentForwarded \/ LoopCleanedUp

(* When the loop raises, the orchestrator cancels its other tasks.         *)
Next ==
    /\ ~crashed
    /\ \/ \E sid \in Sids : Requests(sid) \/ Handle(sid) \/ Finish(sid)
       \/ \E key \in Keys : FinishOf(key)
       \/ Reap
       \/ Poll
       \/ LoopReturns

Spec == Init /\ [][Next]_vars

(* The event loop runs what is ready, stages answer what they are sent,    *)
(* and the reaper wakes up again.  Nobody has to send a control.           *)
Fairness ==
    /\ \A sid \in Sids : WF_vars(~crashed /\ Handle(sid)) /\ WF_vars(~crashed /\ Finish(sid))
    /\ \A key \in Keys : WF_vars(~crashed /\ FinishOf(key))
    /\ WF_vars(~crashed /\ Reap)
    /\ WF_vars(~crashed /\ LoopReturns)

FairSpec == Spec /\ Fairness

-----------------------------------------------------------------------------
(* Properties.                                                             *)

(* A pending cleanup that ends, of a close, a rollback or an expiry, does  *)
(* not remove a session that is not closing: it does not hit the session   *)
(* that has the id by then.                                                *)
LiveSessionStays ==
    [][\A sid \in Registered :
         /\ Live(sessions[sid])
         /\ \/ \E t \in controlTasks \ controlTasks' : t.record.sid = sid
            \/ \E x \in expirations \ expirations' : x.sid = sid
         => sessions'[sid] # NoSession]_vars

(* Every request that the entry stage holds has an owner that will abort   *)
(* it: the session that lists it, or, once this session is closing, a      *)
(* pending cleanup that names it.                                          *)
Named(sid, r) ==
    \/ \E c \in controls : c.sid = sid /\ r \in c.submitted
    \/ \E x \in expirations : x.sid = sid /\ r \in x.submitted
    \/ r \in compensation[sid]
    \/ [sid |-> sid, request |-> r] \in loop.ids

StageRequestsOwned ==
    ~crashed => \A q \in {p \in engine : p.stage = EntryStage} :
        /\ IsRegistered(q.sid, q.request.inc)
        /\ IF Live(sessions[q.sid])
           THEN q.request \in AllRequests(sessions[q.sid])
           ELSE Named(q.sid, q.request)

(* A closing session keeps its slot only while something is there that     *)
(* will remove it: a pending close or rollback, the expiration of this     *)
(* very lease generation, or the orchestration loop.                       *)
TerminalHasCleanup ==
    ~crashed => \A sid \in Registered :
        ~Live(sessions[sid]) =>
            \/ \E c \in controls : c.sid = sid /\ c.kind \in {"close", "open_rollback"}
            \/ \E x \in expirations : x.sid = sid /\ x.generation = sessions[sid].generation
            \/ loop.pc = "cleanup" /\ sid \in loop.closing

(* An append is never submitted while the abort of an earlier one of its   *)
(* session is due or under way, which would abort the new one with it.     *)
NoSubmitDuringUndo ==
    \A sid \in Sids :
        handler[sid].pc = "submit" => compensation[sid] = {} /\ compensating[sid] = {}

(* A close that has begun ends, though aborts may fail: the slot is free   *)
(* again.                                                                  *)
ClosingEnds ==
    \A sid \in Sids :
        (sid \in Registered /\ ~Live(sessions[sid])) ~> (crashed \/ sid \notin Registered)

(* Every control is answered, so the next one of its session can run.      *)
ControlsAnswered ==
    \A sid \in Sids : (handler[sid].pc # "idle") ~> (crashed \/ handler[sid].pc = "idle")

(* A stale segment is fenced off: the fence that its session refuses costs *)
(* that segment, never the orchestrator.  (_record_duplex_stage_submission *)
(* in SegmentForwarded)                                                    *)
NoCrash == ~crashed

=============================================================================
