----------------------------- MODULE DuplexSession -----------------------------
(***************************************************************************)
(* The runtime manager of full-duplex sessions, as its callers use it: the *)
(* control plane (open, append, signal, close, touch, resume, the reaper)  *)
(* and the orchestrator's stage hooks (downstream submissions and stage    *)
(* outputs).                                                               *)
(*                                                                         *)
(* Controls of one session run one after the other, so between the two     *)
(* halves of an append no other control of that session runs, while the    *)
(* clock, the reaper and the stage hooks do.  Every other handler is one   *)
(* step here, with the stage cleanup it awaits successful.  The module     *)
(* DuplexControl splits the handlers at their awaits.                      *)
(*                                                                         *)
(* Source: src/vllm_omni/experimental/fullduplex/engine/duplex_session.py, *)
(* lease.py and duplex_control_plane.py.                                   *)
(***************************************************************************)
EXTENDS DuplexState

CONSTANTS
    Sids,            \* public session ids
    Fences,          \* fences that clients put in control messages
    EntryStage,      \* stage 0, where appends are submitted
    MaxSessions,     \* max_sessions
    MaxTime,         \* bound: the clock stops here
    MaxSeq,          \* bound: appends committed in one epoch
    MaxGeneration,   \* bound: lease resumptions
    MaxConfig,       \* bound: configuration updates of a session
    NoSession,       \* the session id is not registered
    NoAppend         \* no append of the session awaits its submission

ASSUME SessionAssumption ==
    /\ Fences \subseteq Fence
    /\ EntryStage \in Stages
    /\ MaxSessions \in Nat \ {0}        \* DuplexSessionRuntimeManager.__init__
    /\ IsFiniteSet(Sids)
    /\ {MaxTime, MaxSeq, MaxGeneration, MaxConfig} \subseteq Nat
    /\ NoSession \notin Session

VARIABLES
    now,        \* the manager's clock
    sessions,   \* the registry: DuplexSessionRuntimeManager._sessions
    identity,   \* fences of the preregistered requests (request_states)
    inflight,   \* the append of each session that awaits its submission
    nextInc,    \* incarnations given out by the serving registry
    log,        \* history: every committed append
    floor       \* history: the lowest epoch that was not cancelled

vars == <<now, sessions, identity, inflight, nextInc, log, floor>>

(* The lease operation of an append; one runs at a time in a session.      *)
AppendOperation == 1

InputAppend == [op : OpIds, res : Reservation]

ASSUME AppendAssumption == NoAppend \notin InputAppend

Entry == [sid : Sids, inc : Nat, epoch : Nat, seq : Nat, op : OpIds,
          turn : Nat, resp : Nat, turnSeq : Nat]

Registered == {sid \in Sids : sessions[sid] # NoSession}

(* The registered session is the object that the append in flight holds.   *)
Holds(sid) ==
    /\ inflight[sid] # NoAppend
    /\ sessions[sid] # NoSession
    /\ inflight[sid].res.fence.inc = sessions[sid].fence.inc

(* A control of the session may start.                                     *)
Idle(sid) == sessions[sid] # NoSession /\ inflight[sid] = NoAppend

TypeOK ==
    /\ now \in Nat
    /\ sessions \in [Sids -> Session \cup {NoSession}]
    /\ identity \in [Sids -> SUBSET Fence]
    /\ inflight \in [Sids -> InputAppend \cup {NoAppend}]
    /\ nextInc \in [Sids -> Nat]
    /\ log \subseteq Entry
    /\ floor \in [Sids -> Nat]

Init ==
    /\ now = 0
    /\ sessions = [sid \in Sids |-> NoSession]
    /\ identity = [sid \in Sids |-> {}]
    /\ inflight = [sid \in Sids |-> NoAppend]
    /\ nextInc = [sid \in Sids |-> 0]
    /\ log = {}
    /\ floor = [sid \in Sids |-> 0]

-----------------------------------------------------------------------------
(* open_session, then the reservation of the entry stage.                  *)
Opened(f) == Reserve(NewSession(f, now), EntryStage, RequestOf(f), f)

Admit(sid, f) ==
    /\ sessions[sid] = NoSession
    /\ Cardinality(Registered) < MaxSessions
    /\ f.inc >= nextInc[sid]
    /\ f.epoch = 0 /\ f.turn = 0 /\ f.resp = 0
    /\ nextInc' = [nextInc EXCEPT ![sid] = f.inc + 1]
    /\ floor' = [floor EXCEPT ![sid] = 0]
    /\ UNCHANGED <<now, inflight, log>>

Open(sid, f) ==
    /\ inflight[sid] = NoAppend
    /\ Admit(sid, f)
    /\ sessions' = [sessions EXCEPT ![sid] = Opened(f)]
    /\ identity' = [identity EXCEPT ![sid] = EnsureRequest(@, f)]

(* Sampling parameters are refused after the reservation: the session      *)
(* stays registered, closing, until its rollback is finalized.             *)
OpenFails(sid, f) ==
    /\ inflight[sid] = NoAppend
    /\ Admit(sid, f)
    /\ sessions' = [sessions EXCEPT ![sid] = BeginClose(Opened(f), "open_rollback")]
    /\ UNCHANGED identity

-----------------------------------------------------------------------------
(* An append that is not in the cache: reserve, then await the stage.      *)
BeginAppend(sid, op, f) ==
    /\ Idle(sid)
    /\ LET s == sessions[sid]
       IN  /\ ValidFence(s, f)
           /\ CompletedEntries(s, op) = {}
           /\ Live(s)
           /\ AppendOperation \notin s.activeOps
           /\ CanReserve(s, EntryStage, RequestOf(f), f)
           /\ PrepareAppend(s, f).seq <= MaxSeq
           /\ sessions' = [sessions EXCEPT ![sid] =
                 Reserve(BeginOperation(s, AppendOperation, now),
                         EntryStage, RequestOf(f), f)]
           /\ identity' = [identity EXCEPT ![sid] = EnsureRequest(@, f)]
           /\ inflight' = [inflight EXCEPT ![sid] = [op |-> op, res |-> PrepareAppend(s, f)]]
    /\ UNCHANGED <<now, nextInc, log, floor>>

(* A retried append that is in the cache only touches the lease.           *)
RetryAppend(sid, op, f) ==
    /\ Idle(sid)
    /\ LET s == sessions[sid]
       IN  /\ ValidFence(s, f)
           /\ CompletedEntries(s, op) # {}
           /\ ~CompletedMismatch(s, op, f)
           /\ Live(s)
           /\ sessions' = [sessions EXCEPT ![sid] = TouchLease(s, now)]
    /\ UNCHANGED <<now, identity, inflight, nextInc, log, floor>>

(* Wrong: no finally clause.                                               *)
EndAppendNever(s) == s

(* The finally clause of handle_append.                                    *)
EndAppend(s) ==
    IF AppendOperation \in s.activeOps THEN EndOperation(s, AppendOperation, now) ELSE s

(* Commit, bind, remember the operation, end the lease operation.          *)
Commit(s, a) ==
    LET f == a.res.fence
    IN  EndAppend(RecordCompleted(Bind(CommitAppend(s, a.res), EntryStage, RequestOf(f), f),
                                  a.op, f))

LogEntry(sid, a) ==
    [sid |-> sid, inc |-> a.res.fence.inc, epoch |-> a.res.fence.epoch, seq |-> a.res.seq,
     op |-> a.op, turn |-> a.res.fence.turn, resp |-> a.res.fence.resp,
     turnSeq |-> a.res.turnSeq]

(* The submission succeeded and the reservation is current.                *)
CommitInput(sid) ==
    /\ Holds(sid)
    /\ LET s == sessions[sid]
           a == inflight[sid]
       IN  /\ ReservationCurrent(s, a.res)
           /\ ValidFence(s, a.res.fence)
           /\ sessions' = [sessions EXCEPT ![sid] = Commit(s, a)]
           /\ log' = log \cup {LogEntry(sid, a)}
    /\ inflight' = [inflight EXCEPT ![sid] = NoAppend]
    /\ UNCHANGED <<now, identity, nextInc, floor>>

(* The submission succeeded but the reservation is stale: the request is   *)
(* aborted and released.                                                   *)
CompensateInput(sid) ==
    /\ Holds(sid)
    /\ LET s == sessions[sid]
           res == inflight[sid].res
           stale == {RequestOf(res.fence)}
       IN  /\ ~(ReservationCurrent(s, res) /\ ValidFence(s, res.fence))
           /\ sessions' = [sessions EXCEPT ![sid] = EndAppend(ReleaseRequests(s, stale))]
           /\ identity' = [identity EXCEPT ![sid] = ForgetRequests(@, stale)]
    /\ inflight' = [inflight EXCEPT ![sid] = NoAppend]
    /\ UNCHANGED <<now, nextInc, log, floor>>

(* The submission raised: the reserved resource stays for the next append. *)
FailInput(sid) ==
    /\ Holds(sid)
    /\ sessions' = [sessions EXCEPT ![sid] = EndAppend(@)]
    /\ inflight' = [inflight EXCEPT ![sid] = NoAppend]
    /\ UNCHANGED <<now, identity, nextInc, log, floor>>

(* The session left the registry meanwhile: the append ends on an object   *)
(* that nothing else can reach.                                            *)
DropInput(sid) ==
    /\ inflight[sid] # NoAppend /\ ~Holds(sid)
    /\ inflight' = [inflight EXCEPT ![sid] = NoAppend]
    /\ UNCHANGED <<now, sessions, identity, nextInc, log, floor>>

-----------------------------------------------------------------------------
(* The orchestrator forwards a segment of a request to the next stage and  *)
(* binds that stage with the fence of the request.                         *)
DownstreamBind(sid, stage, f) ==
    /\ sessions[sid] # NoSession
    /\ stage # EntryStage
    /\ LET s == sessions[sid]
       IN  /\ \/ Holds(sid) /\ RequestOf(inflight[sid].res.fence) = RequestOf(f)
              \/ RequestOf(f) \in SubmittedRequests(s)
           /\ CanReserve(s, stage, RequestOf(f), f)
           /\ sessions' = [sessions EXCEPT ![sid] =
                              Bind(Reserve(s, stage, RequestOf(f), f), stage, RequestOf(f), f)]
    /\ UNCHANGED <<now, identity, inflight, nextInc, log, floor>>

(* The end of a signal: publish its configuration, if it carries one, then *)
(* touch the lease, which a closing session refuses after all of this.     *)
Published(s, configured) ==
    LET t == IF configured THEN [s EXCEPT !.configGen = @ + 1] ELSE s
    IN  IF Live(t) THEN TouchLease(t, now) ELSE t

MayConfigure(sid, configured) == configured => sessions[sid].configGen < MaxConfig

(* Barge-in, input.cancel and response.cancel: advance the fence, abort    *)
(* the requests of the cancelled fence, release them, publish.             *)
Cancel(sid, cancelled, next, configured) ==
    /\ Idle(sid)
    /\ MayConfigure(sid, configured)
    /\ LET s == sessions[sid]
           t == PrepareCancel(s, next)
       IN  /\ CanCancel(s, cancelled, next)
           /\ sessions' = [sessions EXCEPT ![sid] =
                              Published(ReleaseFence(t, cancelled), configured)]
           /\ identity' = [identity EXCEPT ![sid] =
                              ForgetRequests(@, RequestsOfFence(t, cancelled))]
           /\ floor' = [floor EXCEPT ![sid] =
                              IF @ > cancelled.epoch THEN @ ELSE cancelled.epoch + 1]
    /\ UNCHANGED <<now, inflight, nextInc, log>>

(* session.update                                                          *)
Update(sid, f, configured) ==
    /\ Idle(sid)
    /\ MayConfigure(sid, configured)
    /\ ValidFence(sessions[sid], f)
    /\ sessions' = [sessions EXCEPT ![sid] = Published(AcceptFence(@, f), configured)]
    /\ UNCHANGED <<now, identity, inflight, nextInc, log, floor>>

(* A heartbeat, a playback acknowledgement, or an output of a stage.       *)
Touch(sid, f) ==
    /\ sessions[sid] # NoSession
    /\ \/ inflight[sid] = NoAppend
       \/ f \in identity[sid]
    /\ ValidFence(sessions[sid], f)
    /\ Live(sessions[sid])
    /\ sessions' = [sessions EXCEPT ![sid] = TouchLease(@, now)]
    /\ UNCHANGED <<now, identity, inflight, nextInc, log, floor>>

Detach(sid, f) ==
    /\ Idle(sid)
    /\ ValidFence(sessions[sid], f)
    /\ Live(sessions[sid])
    /\ sessions' = [sessions EXCEPT ![sid] = DetachLease(@, now)]
    /\ UNCHANGED <<now, identity, inflight, nextInc, log, floor>>

Resume(sid, f, generation) ==
    /\ Idle(sid)
    /\ ValidFence(sessions[sid], f)
    /\ Live(sessions[sid])
    /\ generation = sessions[sid].generation
    /\ generation < MaxGeneration
    /\ sessions' = [sessions EXCEPT ![sid] = ResumeLease(@, now)]
    /\ UNCHANGED <<now, identity, inflight, nextInc, log, floor>>

-----------------------------------------------------------------------------
(* The first step of a close; the session keeps its slot.                  *)
Close(sid, f) ==
    /\ Idle(sid)
    /\ ValidFence(sessions[sid], f)
    /\ sessions' = [sessions EXCEPT ![sid] = BeginClose(AcceptFence(@, f), "explicit_close")]
    /\ UNCHANGED <<now, identity, inflight, nextInc, log, floor>>

Expired(sid) ==
    /\ sessions[sid] # NoSession
    /\ GraceExpired(sessions[sid], now) \/ IdleExpired(sessions[sid], now)

ExpiryReason(s) ==
    IF GraceExpired(s, now) THEN "disconnect_grace_expired" ELSE "idle_ttl_expired"

(* The reaper closes every expired session in one go.                      *)
CollectExpired ==
    /\ \E sid \in Sids : Expired(sid)
    /\ sessions' = [sid \in Sids |->
                      IF Expired(sid)
                      THEN BeginClose(sessions[sid], ExpiryReason(sessions[sid]))
                      ELSE sessions[sid]]
    /\ UNCHANGED <<now, identity, inflight, nextInc, log, floor>>

(* A stage error or the death of a replica closes the sessions that own    *)
(* one of the affected requests.                                           *)
CloseForRequests(affected) ==
    /\ affected # {}
    /\ \A sid \in affected : sessions[sid] # NoSession /\ AllRequests(sessions[sid]) # {}
    /\ sessions' = [sid \in Sids |->
                      IF sid \in affected
                      THEN BeginClose(sessions[sid], "request_cleanup")
                      ELSE sessions[sid]]
    /\ UNCHANGED <<now, identity, inflight, nextInc, log, floor>>

(* The second step: the stage cleanup of a closing session has succeeded.  *)
FinalizeClose(sid) ==
    /\ sessions[sid] # NoSession
    /\ ~Live(sessions[sid])
    /\ sessions' = [sessions EXCEPT ![sid] = NoSession]
    /\ identity' = [identity EXCEPT ![sid] = {}]
    /\ UNCHANGED <<now, inflight, nextInc, log, floor>>

Tick ==
    /\ now < MaxTime
    /\ now' = now + 1
    /\ UNCHANGED <<sessions, identity, inflight, nextInc, log, floor>>

-----------------------------------------------------------------------------
SessionNext(sid) ==
    \/ \E f \in Fences :
          \/ Open(sid, f)
          \/ OpenFails(sid, f)
          \/ \E op \in OpIds : BeginAppend(sid, op, f)
          \/ \E op \in OpIds : RetryAppend(sid, op, f)
          \/ \E next \in Fences, configured \in BOOLEAN : Cancel(sid, f, next, configured)
          \/ \E configured \in BOOLEAN : Update(sid, f, configured)
          \/ Touch(sid, f)
          \/ Detach(sid, f)
          \/ \E generation \in 0 .. MaxGeneration : Resume(sid, f, generation)
          \/ Close(sid, f)
    \/ \E f \in identity[sid], stage \in Stages : DownstreamBind(sid, stage, f)
    \/ CommitInput(sid)
    \/ CompensateInput(sid)
    \/ FailInput(sid)
    \/ DropInput(sid)
    \/ FinalizeClose(sid)

Next ==
    \/ \E sid \in Sids : SessionNext(sid)
    \/ CollectExpired
    \/ \E affected \in SUBSET Sids : CloseForRequests(affected)
    \/ Tick

Spec == Init /\ [][Next]_vars

-----------------------------------------------------------------------------
(* Properties.                                                             *)

SameEpoch(d, e) == d.sid = e.sid /\ d.inc = e.inc /\ d.epoch = e.epoch

SameTurn(d, e) == SameEpoch(d, e) /\ d.turn = e.turn /\ d.resp = e.resp

(* The appends that commit in one epoch of one incarnation are numbered    *)
(* 1, 2, 3, ... without a gap or a repetition, whatever cancels, updates,  *)
(* expiries and downstream submissions run between the halves of an append;*)
(* the second number counts the run of appends of the same turn.           *)
AppendsNumbered ==
    /\ \A d, e \in log : SameEpoch(d, e) /\ d.seq = e.seq => d = e
    /\ \A e \in log :
          /\ e.seq >= 1
          /\ e.seq = 1 => e.turnSeq = 1
          /\ e.seq > 1 => \E d \in log :
                /\ SameEpoch(d, e)
                /\ d.seq = e.seq - 1
                /\ e.turnSeq = IF SameTurn(d, e) THEN d.turnSeq + 1 ELSE 1

(* An operation id commits twice in an epoch only after CompletedLimit     *)
(* other operations pushed it out of the cache of completed appends.       *)
AppendedOnce ==
    \A d, e \in log :
        SameEpoch(d, e) /\ d.op = e.op /\ d.seq < e.seq =>
            CompletedLimit <= Cardinality({x.op : x \in
                {y \in log : SameEpoch(d, y) /\ d.seq < y.seq /\ y.seq < e.seq}})

(* A cancelled epoch stays cancelled: the fence of the session never falls *)
(* back into it.                                                           *)
CancelIsIrreversible ==
    \A sid \in Registered : sessions[sid].fence.epoch >= floor[sid]

(* ... and no append of a cancelled epoch commits, early or late.          *)
NoCancelledInput ==
    [][\A e \in log' \ log : e.epoch >= floor[e.sid]]_vars

(* While an incarnation is registered its fence only moves forward: the    *)
(* epoch, and within an epoch both the turn and the response.              *)
FenceMovesForward ==
    [][\A sid \in Sids :
         sessions[sid] # NoSession /\ sessions'[sid] # NoSession
            => LET f == sessions[sid].fence
                   g == sessions'[sid].fence
               IN  /\ g.inc = f.inc
                   /\ g.epoch >= f.epoch
                   /\ g.epoch = f.epoch => g.turn >= f.turn /\ g.resp >= f.resp]_vars

(* Every stage binding stands on a submitted resource of the same request  *)
(* and fence, one per stage, so a close that collects the resources misses *)
(* no bound request.  Requests are of this incarnation, and a submitted    *)
(* one is never of an epoch that the session has not reached.              *)
TrackedRequests(s) ==
    /\ \A b \in s.bindings :
          [stage |-> b.stage, request |-> b.request, fence |-> b.fence, submitted |-> TRUE]
             \in s.resources
    /\ \A b, c \in s.bindings : b.stage = c.stage => b = c
    /\ \A r \in s.resources :
          /\ r.request = RequestOf(r.fence)
          /\ r.fence.inc = s.fence.inc
          /\ r.submitted => r.fence.epoch <= s.fence.epoch
    /\ \A q, r \in s.resources : q.stage = r.stage /\ q.request = r.request => q = r

BindingsTracked == \A sid \in Registered : TrackedRequests(sessions[sid])

(* The lease of a live session has an operation active exactly while an    *)
(* append awaits its submission: an append in progress keeps the session   *)
(* from idling out, and a finished one, however it ended, does not pin it. *)
LeaseFollowsAppend ==
    \A sid \in Registered :
        Live(sessions[sid]) =>
            sessions[sid].activeOps = IF Holds(sid) THEN {AppendOperation} ELSE {}

(* Closing is irreversible: until it is finalized, a closing session keeps *)
(* its reason and lease generation and is neither detached nor busy, so no *)
(* late resume, touch or second close brings it back.                      *)
ClosingIsIrreversible ==
    [][\A sid \in Sids :
         sessions[sid] # NoSession /\ sessions'[sid] # NoSession /\ ~Live(sessions[sid])
            => /\ sessions'[sid].terminal = sessions[sid].terminal
               /\ sessions'[sid].generation = sessions[sid].generation
               /\ sessions'[sid].activeOps = {}
               /\ sessions'[sid].detachedAt = NoTime]_vars

=============================================================================
