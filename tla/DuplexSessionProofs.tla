-------------------------- MODULE DuplexSessionProofs --------------------------
(***************************************************************************)
(* Theorems about DuplexSession: types, fences and closing; what a close   *)
(* has to abort is tracked; the lease is busy exactly while an append is   *)
(* under way; the appends of an epoch are numbered without a gap or a      *)
(* repetition, and an operation commits once while the cache of completed  *)
(* appends remembers it.                                                   *)
(***************************************************************************)
EXTENDS DuplexSession, FiniteSetTheorems, TLAPS

-----------------------------------------------------------------------------
(* Types.                                                                  *)

(* accept_fence returns a session.                                         *)
LEMMA AcceptFenceType ==
    ASSUME NEW s \in Session, NEW f \in Fence
    PROVE  AcceptFence(s, f) \in Session
  BY DEF AcceptFence, Session

(* touch, detach and resume return a session.                              *)
LEMMA LeaseTypes ==
    ASSUME NEW s \in Session, NEW t \in Nat
    PROVE  /\ TouchLease(s, t) \in Session
           /\ DetachLease(s, t) \in Session
           /\ ResumeLease(s, t) \in Session
  <1>1. TouchLease(s, t) \in Session
    BY DEF TouchLease, Session
  <1>2. DetachLease(s, t) \in Session
    BY DEF DetachLease, Session
  <1>3. s.generation + 1 \in Nat
    BY DEF Session
  <1>4. ResumeLease(s, t) \in Session
    BY <1>3 DEF ResumeLease, Session
  <1> QED
    BY <1>1, <1>2, <1>4

(* begin_operation and end_operation return a session.                     *)
LEMMA OperationTypes ==
    ASSUME NEW s \in Session, NEW c \in Nat, NEW t \in Nat
    PROVE  /\ BeginOperation(s, c, t) \in Session
           /\ EndOperation(s, c, t) \in Session
  <1>1. BeginOperation(s, c, t) \in Session
    BY DEF BeginOperation, Session
  <1>2. EndOperation(s, c, t) \in Session
    BY DEF EndOperation, Session
  <1> QED
    BY <1>1, <1>2

(* begin_close returns a session.                                          *)
LEMMA BeginCloseType ==
    ASSUME NEW s \in Session, NEW reason \in Reasons
    PROVE  BeginClose(s, reason) \in Session
  <1>1. s.generation + 1 \in Nat
    BY DEF Session
  <1> QED
    BY <1>1 DEF BeginClose, MarkTerminal, Session

(* A fence names a request.                                                *)
LEMMA RequestType ==
    ASSUME NEW f \in Fence
    PROVE  RequestOf(f) \in Request
  BY DEF RequestOf, Request, Fence

(* reserve_stage_request and bind_stage_request return a session.          *)
LEMMA ResourceTypes ==
    ASSUME NEW s \in Session, NEW stage \in Stages, NEW request \in Request, NEW f \in Fence
    PROVE  /\ Reserve(s, stage, request, f) \in Session
           /\ Bind(s, stage, request, f) \in Session
  <1> DEFINE new(b) == [stage |-> stage, request |-> request, fence |-> f, submitted |-> b]
             binding == [stage |-> stage, request |-> request, fence |-> f]
  <1>1. new(TRUE) \in Resource /\ new(FALSE) \in Resource /\ binding \in Binding
    BY DEF Resource, Binding
  <1>2. s.resources \subseteq Resource /\ s.bindings \subseteq Binding
    BY DEF Session
  <1>3. Reserve(s, stage, request, f) \in Session
    BY <1>1, <1>2 DEF Reserve, Session
  <1>4. AcceptFence(s, f) \in Session
    BY AcceptFenceType
  <1>5. /\ (s.resources \ Reserved(s, stage, request)) \cup {new(TRUE)} \in SUBSET Resource
        /\ {b \in s.bindings : b.stage # stage} \cup {binding} \in SUBSET Binding
    BY <1>1, <1>2
  <1>6. Bind(s, stage, request, f) \in Session
    BY <1>4, <1>5 DEF Bind, Session
  <1> QED
    BY <1>3, <1>6

(* The release operations return a session.                                *)
LEMMA ReleaseTypes ==
    ASSUME NEW s \in Session, NEW requests, NEW f
    PROVE  /\ ReleaseRequests(s, requests) \in Session
           /\ ReleaseFence(s, f) \in Session
  BY DEF ReleaseRequests, ReleaseFence, Session

(* prepare_append returns a reservation for the fence it was given.        *)
LEMMA PrepareAppendType ==
    ASSUME NEW s \in Session, NEW f \in Fence
    PROVE  /\ PrepareAppend(s, f) \in Reservation
           /\ PrepareAppend(s, f).fence = f
           /\ PrepareAppend(s, f).seq >= 1
  <1>1. /\ s.fence \in Fence /\ s.inputSeq \in Nat /\ s.turnSeq \in Nat
        /\ s.turnKey \in Fence \cup {NoFence}
    BY DEF Session
  <1>2. s.inputSeq + 1 \in Nat /\ s.turnSeq + 1 \in Nat /\ s.inputSeq + 1 >= 1
    BY <1>1
  <1> QED
    BY <1>1, <1>2 DEF PrepareAppend, Reservation

(* commit_append returns a session at the fence and number reserved.       *)
LEMMA CommitAppendType ==
    ASSUME NEW s \in Session, NEW r \in Reservation
    PROVE  CommitAppend(s, r) \in Session
  <1>1. /\ r.fence \in Fence /\ r.seq \in Nat /\ r.turnSeq \in Nat
    BY DEF Reservation
  <1>2. AcceptFence(s, r.fence) \in Session
    BY <1>1, AcceptFenceType
  <1> QED
    BY <1>1, <1>2 DEF CommitAppend, Session

(* record_completed_append returns a session.                              *)
LEMMA RecordCompletedType ==
    ASSUME NEW s \in Session, NEW op \in OpIds, NEW f \in Fence
    PROVE  RecordCompleted(s, op, f) \in Session
  <1>1. s.completed \subseteq Completed /\ s.inputSeq \in Nat
    BY DEF Session
  <1>2. [op |-> op, fence |-> f, stamp |-> s.inputSeq] \in Completed
    BY <1>1 DEF Completed
  <1> DEFINE entries == {c \in s.completed : c.op # op} \cup
                          {[op |-> op, fence |-> f, stamp |-> s.inputSeq]}
  <1>3. entries \subseteq Completed
    BY <1>1, <1>2
  <1>4. Evict(entries) \subseteq entries
    BY DEF Evict
  <1>5. Evict(entries) \in SUBSET Completed
    BY <1>3, <1>4
  <1> HIDE DEF entries
  <1>6. [s EXCEPT !.completed = Evict(entries)] \in Session
    BY <1>5 DEF Session
  <1> QED
    BY <1>6 DEF RecordCompleted, entries

(* prepare_cancel_fence returns a session.                                 *)
LEMMA PrepareCancelType ==
    ASSUME NEW s \in Session, NEW next \in Fence
    PROVE  PrepareCancel(s, next) \in Session
  BY AcceptFenceType DEF PrepareCancel

(* open_session registers a session.                                       *)
LEMMA NewSessionType ==
    ASSUME NEW f \in Fence, NEW t \in Nat
    PROVE  NewSession(f, t) \in Session
  BY DEF NewSession, Session

-----------------------------------------------------------------------------
(* Evolution: what no operation on a session takes back.                   *)

(* The order of the fences of one incarnation.                             *)
Onward(f, g) ==
    /\ g.inc = f.inc
    /\ g.epoch >= f.epoch
    /\ g.epoch = f.epoch => g.turn >= f.turn /\ g.resp >= f.resp

(* The lease of a closing session is neither busy nor detached.            *)
Quiet(s) == ~Live(s) => s.activeOps = {} /\ s.detachedAt = NoTime

Evolves(s, t) ==
    /\ Onward(s.fence, t.fence)
    /\ ~Live(s) => t.terminal = s.terminal /\ t.generation = s.generation
    /\ Quiet(s) => Quiet(t)

(* Evolution composes, so it holds of a handler if it holds of its calls.  *)
LEMMA EvolvesTransitive ==
    ASSUME NEW s \in Session, NEW t \in Session, NEW u \in Session,
           Evolves(s, t), Evolves(t, u)
    PROVE  Evolves(s, u)
  <1>1. s.fence \in Fence /\ t.fence \in Fence /\ u.fence \in Fence
    BY DEF Session
  <1>2. Onward(s.fence, u.fence)
    BY <1>1 DEF Evolves, Onward, Fence
  <1> QED
    BY <1>2 DEF Evolves, Live

(* A session that keeps its fence, its lease generation and its reason and *)
(* opens no operation and does not detach evolves.                         *)
LEMMA EvolvesKept ==
    ASSUME NEW s \in Session, NEW t \in Session,
           t.fence = s.fence, t.terminal = s.terminal, t.generation = s.generation,
           ~Live(s) => t.activeOps \subseteq s.activeOps /\ t.detachedAt = s.detachedAt
    PROVE  Evolves(s, t)
  <1>1. s.fence \in Fence
    BY DEF Session
  <1>2. Onward(s.fence, t.fence)
    BY <1>1 DEF Onward, Fence
  <1> QED
    BY <1>2 DEF Evolves, Quiet, Live

(* accept_fence evolves: it takes only fences that are not behind.         *)
LEMMA AcceptFenceEvolves ==
    ASSUME NEW s \in Session, NEW f \in Fence, ValidFence(s, f)
    PROVE  Evolves(s, AcceptFence(s, f)) /\ AcceptFence(s, f).fence = f
  <1>1. s.fence \in Fence
    BY DEF Session
  <1>2. Onward(s.fence, f)
    BY <1>1 DEF Onward, ValidFence, NotBehind, Fence
  <1>3. /\ AcceptFence(s, f).fence = f
        /\ AcceptFence(s, f).terminal = s.terminal
        /\ AcceptFence(s, f).generation = s.generation
        /\ AcceptFence(s, f).activeOps = s.activeOps
        /\ AcceptFence(s, f).detachedAt = s.detachedAt
    BY DEF AcceptFence, Session
  <1> QED
    BY <1>2, <1>3 DEF Evolves, Quiet, Live

(* The lease operations that need an open lease evolve.                    *)
LEMMA LeaseEvolves ==
    ASSUME NEW s \in Session, NEW t \in Nat, Live(s)
    PROVE  /\ Evolves(s, TouchLease(s, t))
           /\ Evolves(s, DetachLease(s, t))
           /\ Evolves(s, ResumeLease(s, t))
  <1>1. s.fence \in Fence
    BY DEF Session
  <1>2. Onward(s.fence, s.fence)
    BY <1>1 DEF Onward, Fence
  <1>3. /\ TouchLease(s, t).fence = s.fence /\ TouchLease(s, t).terminal = s.terminal
        /\ DetachLease(s, t).fence = s.fence /\ DetachLease(s, t).terminal = s.terminal
        /\ ResumeLease(s, t).fence = s.fence /\ ResumeLease(s, t).terminal = s.terminal
    BY DEF TouchLease, DetachLease, ResumeLease, Session
  <1> QED
    BY <1>2, <1>3 DEF Evolves, Quiet, Live

(* The operations of an append evolve.                                     *)
LEMMA OperationEvolves ==
    ASSUME NEW s \in Session, NEW c \in Nat, NEW t \in Nat
    PROVE  /\ Live(s) => Evolves(s, BeginOperation(s, c, t))
           /\ Evolves(s, EndOperation(s, c, t))
  <1>1. /\ BeginOperation(s, c, t).fence = s.fence
        /\ BeginOperation(s, c, t).terminal = s.terminal
        /\ BeginOperation(s, c, t).generation = s.generation
        /\ EndOperation(s, c, t).fence = s.fence
        /\ EndOperation(s, c, t).terminal = s.terminal
        /\ EndOperation(s, c, t).generation = s.generation
        /\ EndOperation(s, c, t).activeOps = s.activeOps \ {c}
        /\ EndOperation(s, c, t).detachedAt = s.detachedAt
    BY DEF BeginOperation, EndOperation, Session
  <1>2. EndOperation(s, c, t).activeOps \subseteq s.activeOps
    BY <1>1
  <1> QED
    BY <1>1, <1>2, OperationTypes, EvolvesKept

(* begin_close evolves, and closes.                                        *)
LEMMA BeginCloseEvolves ==
    ASSUME NEW s \in Session, NEW reason \in Reasons
    PROVE  Evolves(s, BeginClose(s, reason)) /\ ~Live(BeginClose(s, reason))
  <1>1. s.fence \in Fence /\ reason # "none"
    BY DEF Session, Reasons
  <1>2. Onward(s.fence, s.fence)
    BY <1>1 DEF Onward, Fence
  <1>3. CASE ~Live(s)
    BY <1>2, <1>3 DEF BeginClose, Evolves
  <1>4. CASE Live(s)
    <2>1. /\ BeginClose(s, reason).fence = s.fence
          /\ BeginClose(s, reason).terminal = reason
          /\ BeginClose(s, reason).activeOps = {}
          /\ BeginClose(s, reason).detachedAt = NoTime
      BY <1>4 DEF BeginClose, MarkTerminal, Session
    <2> QED
      BY <1>1, <1>2, <1>4, <2>1 DEF Evolves, Quiet, Live
  <1> QED
    BY <1>3, <1>4

(* Reservations, releases and the cache do not touch fence and lease.      *)
LEMMA ResourcesEvolve ==
    ASSUME NEW s \in Session, NEW stage \in Stages, NEW request \in Request, NEW f \in Fence,
           NEW requests, NEW op \in OpIds
    PROVE  /\ Evolves(s, Reserve(s, stage, request, f))
           /\ Evolves(s, ReleaseRequests(s, requests))
           /\ Evolves(s, ReleaseFence(s, f))
           /\ Evolves(s, RecordCompleted(s, op, f))
           /\ Reserve(s, stage, request, f).fence = s.fence
           /\ ReleaseFence(s, f).fence = s.fence
           /\ Live(Reserve(s, stage, request, f)) = Live(s)
  <1> DEFINE Same(t) == /\ t.fence = s.fence /\ t.terminal = s.terminal
                        /\ t.generation = s.generation /\ t.activeOps = s.activeOps
                        /\ t.detachedAt = s.detachedAt
  <1>1. Same(Reserve(s, stage, request, f))
    BY DEF Reserve, Session
  <1>2. Same(ReleaseRequests(s, requests))
    BY DEF ReleaseRequests, Session
  <1>3. Same(ReleaseFence(s, f))
    BY DEF ReleaseFence, Session
  <1>4. Same(RecordCompleted(s, op, f))
    BY DEF RecordCompleted, Session
  <1>5. \A t \in Session : Same(t) => Evolves(s, t)
    BY EvolvesKept
  <1> QED
    BY <1>1, <1>2, <1>3, <1>4, <1>5, ResourceTypes, ReleaseTypes, RecordCompletedType DEF Live

(* bind_stage_request evolves: it accepts the fence of the binding.        *)
LEMMA BindEvolves ==
    ASSUME NEW s \in Session, NEW stage \in Stages, NEW request \in Request, NEW f \in Fence,
           ValidFence(s, f)
    PROVE  Evolves(s, Bind(s, stage, request, f)) /\ Bind(s, stage, request, f).fence = f
  <1> DEFINE t == AcceptFence(s, f)
             u == Bind(s, stage, request, f)
  <1>1. t \in Session /\ Evolves(s, t) /\ t.fence = f
    BY AcceptFenceType, AcceptFenceEvolves
  <1>2. u \in Session
    BY ResourceTypes
  <1>3. /\ u.fence = t.fence /\ u.terminal = t.terminal /\ u.generation = t.generation
        /\ u.activeOps = t.activeOps /\ u.detachedAt = t.detachedAt
    BY <1>1 DEF Bind, Session
  <1> HIDE DEF t, u
  <1>4. Evolves(t, u)
    BY <1>1, <1>2, <1>3, EvolvesKept
  <1>5. Evolves(s, u)
    BY <1>1, <1>2, <1>4, EvolvesTransitive
  <1> QED
    BY <1>1, <1>3, <1>5 DEF u

(* commit_append evolves, to the fence reserved.                           *)
LEMMA CommitAppendEvolves ==
    ASSUME NEW s \in Session, NEW r \in Reservation, ValidFence(s, r.fence)
    PROVE  Evolves(s, CommitAppend(s, r)) /\ CommitAppend(s, r).fence = r.fence
  <1> DEFINE t == AcceptFence(s, r.fence)
             u == CommitAppend(s, r)
  <1>1. r.fence \in Fence
    BY DEF Reservation
  <1>2. t \in Session /\ Evolves(s, t) /\ t.fence = r.fence
    BY <1>1, AcceptFenceType, AcceptFenceEvolves
  <1>3. u \in Session
    BY CommitAppendType
  <1>4. /\ u.fence = t.fence /\ u.terminal = t.terminal /\ u.generation = t.generation
        /\ u.activeOps = t.activeOps /\ u.detachedAt = t.detachedAt
    BY <1>2 DEF CommitAppend, Session
  <1> HIDE DEF t, u
  <1>5. Evolves(t, u)
    BY <1>2, <1>3, <1>4, EvolvesKept
  <1>6. Evolves(s, u)
    BY <1>2, <1>3, <1>5, EvolvesTransitive
  <1> QED
    BY <1>2, <1>4, <1>6 DEF u

(* prepare_cancel_fence evolves, past the cancelled epoch.                 *)
LEMMA PrepareCancelEvolves ==
    ASSUME NEW s \in Session, NEW f \in Fence, NEW next \in Fence, CanCancel(s, f, next)
    PROVE  Evolves(s, PrepareCancel(s, next)) /\ PrepareCancel(s, next).fence.epoch > f.epoch
  <1>1. s.fence \in Fence
    BY DEF Session
  <1>2. CASE KeyLess(s.fence, next)
    BY <1>1, <1>2, AcceptFenceEvolves DEF PrepareCancel, CanCancel, Fence
  <1>3. CASE ~KeyLess(s.fence, next)
    <2>1. Evolves(s, s)
      BY EvolvesKept
    <2>2. s.fence.epoch > f.epoch
      BY <1>1, <1>3 DEF CanCancel, KeyLess, Fence
    <2> QED
      BY <1>3, <2>1, <2>2 DEF PrepareCancel
  <1> QED
    BY <1>2, <1>3

-----------------------------------------------------------------------------
(* Type correctness.                                                       *)

(* A session that is registered is a session value.                        *)
LEMMA RegisteredType ==
    ASSUME TypeOK, NEW sid \in Sids, sessions[sid] # NoSession
    PROVE  sessions[sid] \in Session
  BY DEF TypeOK

(* An append in flight is an operation with its reservation.               *)
LEMMA InflightType ==
    ASSUME TypeOK, NEW sid \in Sids, inflight[sid] # NoAppend
    PROVE  /\ inflight[sid] \in InputAppend
           /\ inflight[sid].op \in OpIds
           /\ inflight[sid].res \in Reservation
           /\ inflight[sid].res.fence \in Fence
  BY DEF TypeOK, InputAppend, Reservation

(* open_session with its reservation returns a session, and so does its    *)
(* rollback.                                                               *)
LEMMA OpenedType ==
    ASSUME TypeOK, NEW f \in Fence
    PROVE  /\ Opened(f) \in Session
           /\ BeginClose(Opened(f), "open_rollback") \in Session
  <1>1. Opened(f) \in Session
    BY NewSessionType, RequestType, ResourceTypes, SessionAssumption DEF Opened, TypeOK
  <1>2. "open_rollback" \in Reasons
    BY DEF Reasons
  <1> QED
    BY <1>1, <1>2, BeginCloseType

(* The finally clause of handle_append returns a session.                  *)
LEMMA EndAppendType ==
    ASSUME TypeOK, NEW s \in Session
    PROVE  EndAppend(s) \in Session
  BY OperationTypes DEF EndAppend, AppendOperation, TypeOK

(* So does the commit of an append.                                        *)
LEMMA CommitType ==
    ASSUME TypeOK, NEW s \in Session, NEW a \in InputAppend
    PROVE  Commit(s, a) \in Session
  <1> DEFINE f == a.res.fence
  <1>1. a.op \in OpIds /\ a.res \in Reservation /\ f \in Fence
    BY DEF InputAppend, Reservation
  <1>2. CommitAppend(s, a.res) \in Session
    BY <1>1, CommitAppendType
  <1>3. Bind(CommitAppend(s, a.res), EntryStage, RequestOf(f), f) \in Session
    BY <1>1, <1>2, RequestType, ResourceTypes, SessionAssumption
  <1>4. RecordCompleted(Bind(CommitAppend(s, a.res), EntryStage, RequestOf(f), f), a.op, f)
          \in Session
    BY <1>1, <1>3, RecordCompletedType
  <1> QED
    BY <1>4, EndAppendType DEF Commit

(* A committed append is logged with its number.                           *)
LEMMA LogEntryType ==
    ASSUME NEW sid \in Sids, NEW a \in InputAppend
    PROVE  LogEntry(sid, a) \in Entry
  BY DEF LogEntry, Entry, InputAppend, Reservation, Fence

(* The end of a signal returns a session.                                  *)
LEMMA PublishedType ==
    ASSUME TypeOK, NEW s \in Session, NEW configured \in BOOLEAN
    PROVE  Published(s, configured) \in Session
  <1> DEFINE t == IF configured THEN [s EXCEPT !.configGen = @ + 1] ELSE s
  <1>1. s.configGen + 1 \in Nat
    BY DEF Session
  <1>2. t \in Session
    BY <1>1 DEF Session
  <1> HIDE DEF t
  <1>3. (IF Live(t) THEN TouchLease(t, now) ELSE t) \in Session
    BY <1>2, LeaseTypes DEF TypeOK
  <1> QED
    BY <1>3 DEF Published, t

(* Every variable keeps its type: the runtime manager never leaves a       *)
(* session, a reservation or a lease half built.                           *)
THEOREM TypeCorrect == Spec => []TypeOK
  <1>1. Init => TypeOK
    BY DEF Init, TypeOK
  <1>2. TypeOK /\ [Next]_vars => TypeOK'
    <2> SUFFICES ASSUME TypeOK, [Next]_vars PROVE TypeOK'
      OBVIOUS
    <2> USE SessionAssumption
    <2>1. ASSUME NEW sid \in Sids, NEW f \in Fences, Open(sid, f) PROVE TypeOK'
      BY <2>1, OpenedType DEF Open, Admit, TypeOK, EnsureRequest, Fence
    <2>2. ASSUME NEW sid \in Sids, NEW f \in Fences, OpenFails(sid, f) PROVE TypeOK'
      BY <2>2, OpenedType DEF OpenFails, Admit, TypeOK, Fence
    <2>3. ASSUME NEW sid \in Sids, NEW f \in Fences, NEW op \in OpIds, BeginAppend(sid, op, f)
          PROVE TypeOK'
      <3> DEFINE s == sessions[sid]
      <3>1. s \in Session /\ f \in Fence /\ now \in Nat
        BY <2>3, RegisteredType DEF BeginAppend, Idle, TypeOK
      <3>2. BeginOperation(s, AppendOperation, now) \in Session
        BY <3>1, OperationTypes DEF AppendOperation
      <3>3. Reserve(BeginOperation(s, AppendOperation, now), EntryStage, RequestOf(f), f)
               \in Session
        BY <3>1, <3>2, RequestType, ResourceTypes
      <3>4. [op |-> op, res |-> PrepareAppend(s, f)] \in InputAppend
        BY <3>1, PrepareAppendType DEF InputAppend
      <3>5. EnsureRequest(identity[sid], f) \in SUBSET Fence
        BY <3>1 DEF EnsureRequest, TypeOK
      <3> QED
        BY <2>3, <3>3, <3>4, <3>5 DEF BeginAppend, TypeOK
    <2>4. ASSUME NEW sid \in Sids, NEW f \in Fences, NEW op \in OpIds, RetryAppend(sid, op, f)
          PROVE TypeOK'
      BY <2>4, RegisteredType, LeaseTypes DEF RetryAppend, Idle, TypeOK
    <2>5. ASSUME NEW sid \in Sids, CommitInput(sid) PROVE TypeOK'
      <3>1. sessions[sid] \in Session /\ inflight[sid] \in InputAppend
        BY <2>5, RegisteredType, InflightType DEF CommitInput, Holds
      <3>2. Commit(sessions[sid], inflight[sid]) \in Session
        BY <3>1, CommitType
      <3>3. LogEntry(sid, inflight[sid]) \in Entry
        BY <3>1, LogEntryType
      <3> QED
        BY <2>5, <3>2, <3>3 DEF CommitInput, TypeOK
    <2>6. ASSUME NEW sid \in Sids, CompensateInput(sid) PROVE TypeOK'
      <3> DEFINE stale == {RequestOf(inflight[sid].res.fence)}
      <3>1. sessions[sid] \in Session
        BY <2>6, RegisteredType DEF CompensateInput, Holds
      <3>2. EndAppend(ReleaseRequests(sessions[sid], stale)) \in Session
        BY <3>1, ReleaseTypes, EndAppendType
      <3>3. ForgetRequests(identity[sid], stale) \in SUBSET Fence
        BY DEF ForgetRequests, TypeOK
      <3> QED
        BY <2>6, <3>2, <3>3 DEF CompensateInput, TypeOK
    <2>7. ASSUME NEW sid \in Sids, FailInput(sid) PROVE TypeOK'
      BY <2>7, RegisteredType, EndAppendType DEF FailInput, Holds, TypeOK
    <2>8. ASSUME NEW sid \in Sids, DropInput(sid) PROVE TypeOK'
      BY <2>8 DEF DropInput, TypeOK
    <2>9. ASSUME NEW sid \in Sids, NEW stage \in Stages, NEW f \in identity[sid],
                 DownstreamBind(sid, stage, f)
          PROVE TypeOK'
      <3>1. sessions[sid] \in Session /\ f \in Fence
        BY <2>9, RegisteredType DEF DownstreamBind, TypeOK
      <3>2. Bind(Reserve(sessions[sid], stage, RequestOf(f), f), stage, RequestOf(f), f)
               \in Session
        BY <3>1, RequestType, ResourceTypes
      <3> QED
        BY <2>9, <3>2 DEF DownstreamBind, TypeOK
    <2>10. ASSUME NEW sid \in Sids, NEW f \in Fences, NEW next \in Fences,
                  NEW configured \in BOOLEAN, Cancel(sid, f, next, configured)
           PROVE TypeOK'
      <3> DEFINE t == PrepareCancel(sessions[sid], next)
      <3>1. sessions[sid] \in Session /\ f \in Fence /\ next \in Fence
        BY <2>10, RegisteredType DEF Cancel, Idle
      <3>2. Published(ReleaseFence(t, f), configured) \in Session
        BY <3>1, PrepareCancelType, ReleaseTypes, PublishedType
      <3>3. ForgetRequests(identity[sid], RequestsOfFence(t, f)) \in SUBSET Fence
        BY DEF ForgetRequests, TypeOK
      <3>4. f.epoch + 1 \in Nat
        BY <3>1 DEF Fence
      <3> HIDE DEF t
      <3> QED
        BY <2>10, <3>2, <3>3, <3>4 DEF Cancel, TypeOK, t
    <2>11. ASSUME NEW sid \in Sids, NEW f \in Fences, NEW configured \in BOOLEAN,
                  Update(sid, f, configured)
           PROVE TypeOK'
      <3>1. sessions[sid] \in Session
        BY <2>11, RegisteredType DEF Update, Idle
      <3>2. Published(AcceptFence(sessions[sid], f), configured) \in Session
        BY <3>1, AcceptFenceType, PublishedType
      <3> QED
        BY <2>11, <3>2 DEF Update, TypeOK
    <2>12. ASSUME NEW sid \in Sids, NEW f \in Fences, Touch(sid, f) PROVE TypeOK'
      BY <2>12, RegisteredType, LeaseTypes DEF Touch, TypeOK
    <2>13. ASSUME NEW sid \in Sids, NEW f \in Fences, Detach(sid, f) PROVE TypeOK'
      BY <2>13, RegisteredType, LeaseTypes DEF Detach, Idle, TypeOK
    <2>14. ASSUME NEW sid \in Sids, NEW f \in Fences, NEW generation \in 0 .. MaxGeneration,
                  Resume(sid, f, generation)
           PROVE TypeOK'
      BY <2>14, RegisteredType, LeaseTypes DEF Resume, Idle, TypeOK
    <2>15. ASSUME NEW sid \in Sids, NEW f \in Fences, Close(sid, f) PROVE TypeOK'
      <3>1. sessions[sid] \in Session /\ "explicit_close" \in Reasons
        BY <2>15, RegisteredType DEF Close, Idle, Reasons
      <3>2. BeginClose(AcceptFence(sessions[sid], f), "explicit_close") \in Session
        BY <3>1, AcceptFenceType, BeginCloseType
      <3> QED
        BY <2>15, <3>2 DEF Close, TypeOK
    <2>16. ASSUME NEW sid \in Sids, FinalizeClose(sid) PROVE TypeOK'
      BY <2>16 DEF FinalizeClose, TypeOK
    <2>17. CASE CollectExpired
      <3>1. ASSUME NEW sid \in Sids, Expired(sid)
            PROVE  BeginClose(sessions[sid], ExpiryReason(sessions[sid])) \in Session
        <4>1. sessions[sid] \in Session
          BY <3>1, RegisteredType DEF Expired
        <4>2. ExpiryReason(sessions[sid]) \in Reasons
          BY DEF ExpiryReason, Reasons
        <4> QED
          BY <4>1, <4>2, BeginCloseType
      <3> QED
        BY <2>17, <3>1 DEF CollectExpired, TypeOK
    <2>18. ASSUME NEW affected \in SUBSET Sids, CloseForRequests(affected) PROVE TypeOK'
      <3>1. ASSUME NEW sid \in affected
            PROVE  BeginClose(sessions[sid], "request_cleanup") \in Session
        <4>1. sessions[sid] \in Session /\ "request_cleanup" \in Reasons
          BY <2>18, RegisteredType DEF CloseForRequests, Reasons
        <4> QED
          BY <4>1, BeginCloseType
      <3> QED
        BY <2>18, <3>1 DEF CloseForRequests, TypeOK
    <2>19. CASE Tick
      BY <2>19 DEF Tick, TypeOK
    <2>20. CASE UNCHANGED vars
      BY <2>20 DEF vars, TypeOK
    <2> QED
      BY <2>1, <2>2, <2>3, <2>4, <2>5, <2>6, <2>7, <2>8, <2>9, <2>10, <2>11, <2>12, <2>13,
         <2>14, <2>15, <2>16, <2>17, <2>18, <2>19, <2>20 DEF Next, SessionNext
  <1> QED
    BY <1>1, <1>2, PTL DEF Spec

-----------------------------------------------------------------------------
(* No step takes back the fence of a session or its closing.               *)

(* The finally clause of handle_append evolves.                            *)
LEMMA EndAppendEvolves ==
    ASSUME TypeOK, NEW s \in Session
    PROVE  Evolves(s, EndAppend(s)) /\ EndAppend(s).fence = s.fence
  <1>1. AppendOperation \in Nat /\ now \in Nat
    BY DEF AppendOperation, TypeOK
  <1>2. Evolves(s, s) /\ Evolves(s, EndOperation(s, AppendOperation, now))
    BY <1>1, EvolvesKept, OperationEvolves
  <1>3. EndOperation(s, AppendOperation, now).fence = s.fence
    BY DEF EndOperation, Session
  <1> QED
    BY <1>2, <1>3 DEF EndAppend

(* The commit of an append whose fence is still valid evolves.             *)
LEMMA CommitEvolves ==
    ASSUME TypeOK, NEW s \in Session, NEW a \in InputAppend, ValidFence(s, a.res.fence)
    PROVE  Evolves(s, Commit(s, a))
  <1> DEFINE f == a.res.fence
             t == CommitAppend(s, a.res)
             u == Bind(t, EntryStage, RequestOf(f), f)
             v == RecordCompleted(u, a.op, f)
  <1>1. a.op \in OpIds /\ a.res \in Reservation /\ f \in Fence
    BY DEF InputAppend, Reservation
  <1>2. t \in Session /\ Evolves(s, t) /\ t.fence = f
    BY <1>1, CommitAppendType, CommitAppendEvolves
  <1>3. ValidFence(t, f)
    BY <1>1, <1>2 DEF ValidFence, NotBehind, Fence
  <1>4. EntryStage \in Stages /\ RequestOf(f) \in Request
    BY <1>1, RequestType, SessionAssumption
  <1> HIDE DEF t
  <1>5. u \in Session /\ Evolves(t, u)
    BY <1>1, <1>2, <1>3, <1>4, ResourceTypes, BindEvolves
  <1> HIDE DEF u
  <1>6. v \in Session
    BY <1>1, <1>5, RecordCompletedType
  <1>7. Evolves(u, v)
    BY <1>1, <1>4, <1>5, ResourcesEvolve
  <1> HIDE DEF v
  <1>8. Evolves(v, EndAppend(v)) /\ EndAppend(v) \in Session
    BY <1>6, EndAppendEvolves, EndAppendType
  <1>9. Evolves(s, u)
    BY <1>2, <1>5, EvolvesTransitive
  <1>10. Evolves(s, v)
    BY <1>5, <1>6, <1>7, <1>9, EvolvesTransitive
  <1>11. Evolves(s, EndAppend(v))
    BY <1>6, <1>8, <1>10, EvolvesTransitive
  <1>12. Commit(s, a) = EndAppend(v)
    BY DEF Commit, v, u, t
  <1> QED
    BY <1>11, <1>12

(* The end of a signal evolves and keeps the fence.                        *)
LEMMA PublishedEvolves ==
    ASSUME TypeOK, NEW s \in Session, NEW configured \in BOOLEAN
    PROVE  Evolves(s, Published(s, configured)) /\ Published(s, configured).fence = s.fence
  <1> DEFINE t == IF configured THEN [s EXCEPT !.configGen = @ + 1] ELSE s
             u == IF Live(t) THEN TouchLease(t, now) ELSE t
  <1>1. s.configGen + 1 \in Nat /\ now \in Nat
    BY DEF Session, TypeOK
  <1>2. /\ t \in Session
        /\ t.fence = s.fence /\ t.terminal = s.terminal /\ t.generation = s.generation
        /\ t.activeOps = s.activeOps /\ t.detachedAt = s.detachedAt
    BY <1>1 DEF Session
  <1> HIDE DEF t
  <1>3. Evolves(s, t)
    BY <1>2, EvolvesKept
  <1>4. Evolves(t, u)
    BY <1>1, <1>2, LeaseEvolves, EvolvesKept
  <1>5. u \in Session
    BY <1>1, <1>2, LeaseTypes
  <1>6. u.fence = t.fence
    BY <1>2 DEF TouchLease, Session
  <1> HIDE DEF u
  <1>7. Evolves(s, u)
    BY <1>2, <1>3, <1>4, <1>5, EvolvesTransitive
  <1>8. Published(s, configured) = u
    BY DEF Published, u, t
  <1> QED
    BY <1>2, <1>6, <1>7, <1>8

(* A registered session is followed, under its id, by what it evolves to.  *)
SessionsEvolve ==
    \A sid \in Sids : sessions[sid] # NoSession /\ sessions'[sid] # NoSession
                         => Evolves(sessions[sid], sessions'[sid])

(* A step that replaces one session value by what it evolves to, or that   *)
(* registers one, or removes one.                                          *)
LEMMA OneEvolves ==
    ASSUME TypeOK, NEW x \in Sids, NEW e, sessions' = [sessions EXCEPT ![x] = e],
           \/ sessions[x] = NoSession
           \/ e = NoSession
           \/ Evolves(sessions[x], e)
    PROVE  SessionsEvolve
  <1> SUFFICES ASSUME NEW sid \in Sids, sessions[sid] # NoSession, sessions'[sid] # NoSession
               PROVE  Evolves(sessions[sid], sessions'[sid])
    BY DEF SessionsEvolve
  <1>1. sessions[sid] \in Session
    BY RegisteredType
  <1>2. Evolves(sessions[sid], sessions[sid])
    BY <1>1, EvolvesKept
  <1> QED
    BY <1>2 DEF TypeOK

(* A cancel lets the session evolve, past the cancelled epoch.             *)
LEMMA CancelledEvolves ==
    ASSUME TypeOK, NEW sid \in Sids, NEW f \in Fences, NEW next \in Fences,
           NEW configured \in BOOLEAN, Cancel(sid, f, next, configured)
    PROVE  LET e == Published(ReleaseFence(PrepareCancel(sessions[sid], next), f), configured)
           IN  /\ e \in Session
               /\ Evolves(sessions[sid], e)
               /\ e.fence.epoch > f.epoch
  <1> USE SessionAssumption
  <1> DEFINE s == sessions[sid]
             t == PrepareCancel(s, next)
             u == ReleaseFence(t, f)
             e == Published(u, configured)
  <1>1. s \in Session /\ f \in Fence /\ next \in Fence /\ CanCancel(s, f, next)
    BY RegisteredType DEF Cancel, Idle
  <1>2. t \in Session /\ Evolves(s, t) /\ t.fence.epoch > f.epoch
    BY <1>1, PrepareCancelType, PrepareCancelEvolves
  <1> HIDE DEF t
  <1>3. u \in Session
    BY <1>1, <1>2, ReleaseTypes
  <1>4. /\ u.fence = t.fence /\ u.terminal = t.terminal /\ u.generation = t.generation
        /\ u.activeOps = t.activeOps /\ u.detachedAt = t.detachedAt
    BY <1>2 DEF ReleaseFence, Session
  <1> HIDE DEF u
  <1>5. Evolves(t, u)
    BY <1>2, <1>3, <1>4, EvolvesKept
  <1>6. e \in Session /\ Evolves(u, e) /\ e.fence = u.fence
    BY <1>3, PublishedType, PublishedEvolves
  <1> HIDE DEF e
  <1>7. Evolves(s, u)
    BY <1>1, <1>2, <1>3, <1>5, EvolvesTransitive
  <1>8. Evolves(s, e)
    BY <1>1, <1>3, <1>6, <1>7, EvolvesTransitive
  <1> QED
    BY <1>2, <1>4, <1>6, <1>8 DEF e, u, t

(* Every step lets every session evolve.                                   *)
LEMMA StepEvolves ==
    ASSUME TypeOK, [Next]_vars
    PROVE  SessionsEvolve
  <1> USE SessionAssumption
  <1> now \in Nat
    BY DEF TypeOK
  <1>1. ASSUME NEW sid \in Sids, NEW f \in Fences, Open(sid, f) PROVE SessionsEvolve
    BY <1>1, OneEvolves DEF Open, Admit
  <1>2. ASSUME NEW sid \in Sids, NEW f \in Fences, OpenFails(sid, f) PROVE SessionsEvolve
    BY <1>2, OneEvolves DEF OpenFails, Admit
  <1>3. ASSUME NEW sid \in Sids, NEW f \in Fences, NEW op \in OpIds, BeginAppend(sid, op, f)
        PROVE  SessionsEvolve
    <2> DEFINE s == sessions[sid]
               t == BeginOperation(s, AppendOperation, now)
               u == Reserve(t, EntryStage, RequestOf(f), f)
    <2>1. s \in Session /\ f \in Fence /\ Live(s) /\ AppendOperation \in Nat
      BY <1>3, RegisteredType DEF BeginAppend, Idle, AppendOperation
    <2>2. t \in Session /\ Evolves(s, t)
      BY <2>1, OperationTypes, OperationEvolves
    <2>3. RequestOf(f) \in Request
      BY <2>1, RequestType
    <2> HIDE DEF t
    <2>4. u \in Session
      BY <2>1, <2>2, <2>3, ResourceTypes
    <2>5. Evolves(t, u)
      BY <1>3, <2>1, <2>2, <2>3, ResourcesEvolve
    <2>6. Evolves(s, u)
      BY <2>1, <2>2, <2>4, <2>5, EvolvesTransitive
    <2>7. sessions' = [sessions EXCEPT ![sid] = u]
      BY <1>3 DEF BeginAppend, t
    <2> QED
      BY <2>6, <2>7, OneEvolves
  <1>4. ASSUME NEW sid \in Sids, NEW f \in Fences, NEW op \in OpIds, RetryAppend(sid, op, f)
        PROVE  SessionsEvolve
    BY <1>4, RegisteredType, LeaseEvolves, OneEvolves DEF RetryAppend, Idle
  <1>5. ASSUME NEW sid \in Sids, CommitInput(sid) PROVE SessionsEvolve
    <2>1. /\ sessions[sid] \in Session /\ inflight[sid] \in InputAppend
          /\ ValidFence(sessions[sid], inflight[sid].res.fence)
      BY <1>5, RegisteredType, InflightType DEF CommitInput, Holds
    <2>2. Evolves(sessions[sid], Commit(sessions[sid], inflight[sid]))
      BY <2>1, CommitEvolves
    <2> QED
      BY <1>5, <2>2, OneEvolves DEF CommitInput
  <1>6. ASSUME NEW sid \in Sids, CompensateInput(sid) PROVE SessionsEvolve
    <2> DEFINE s == sessions[sid]
               t == ReleaseRequests(s, {RequestOf(inflight[sid].res.fence)})
    <2>1. s \in Session
      BY <1>6, RegisteredType DEF CompensateInput, Holds
    <2>2. inflight[sid].op \in OpIds /\ inflight[sid].res.fence \in Fence
      BY <1>6, InflightType DEF CompensateInput, Holds
    <2>3. RequestOf(inflight[sid].res.fence) \in Request
      BY <2>2, RequestType
    <2>4. t \in Session /\ Evolves(s, t)
      BY <2>1, <2>2, <2>3, ReleaseTypes, ResourcesEvolve
    <2> HIDE DEF t
    <2>5. Evolves(s, EndAppend(t))
      BY <2>1, <2>4, EndAppendEvolves, EndAppendType, EvolvesTransitive
    <2>6. sessions' = [sessions EXCEPT ![sid] = EndAppend(t)]
      BY <1>6 DEF CompensateInput, t
    <2> QED
      BY <2>5, <2>6, OneEvolves
  <1>7. ASSUME NEW sid \in Sids, FailInput(sid) PROVE SessionsEvolve
    BY <1>7, RegisteredType, EndAppendEvolves, OneEvolves DEF FailInput, Holds
  <1>8. ASSUME NEW sid \in Sids, NEW stage \in Stages, NEW f \in identity[sid],
               DownstreamBind(sid, stage, f)
        PROVE  SessionsEvolve
    <2> DEFINE s == sessions[sid]
               t == Reserve(s, stage, RequestOf(f), f)
               u == Bind(t, stage, RequestOf(f), f)
    <2>1. s \in Session /\ f \in Fence /\ ValidFence(s, f)
      BY <1>8, RegisteredType DEF DownstreamBind, TypeOK, CanReserve
    <2>2. RequestOf(f) \in Request
      BY <2>1, RequestType
    <2>3. t \in Session
      BY <2>1, <2>2, ResourceTypes
    <2>4. Evolves(s, t) /\ t.fence = s.fence
      <3>1. t.fence = s.fence /\ t.terminal = s.terminal /\ t.generation = s.generation
        BY <2>1 DEF Reserve, Session
      <3>2. t.activeOps = s.activeOps /\ t.detachedAt = s.detachedAt
        BY <2>1 DEF Reserve, Session
      <3> QED
        BY <2>1, <2>3, <3>1, <3>2, EvolvesKept
    <2> HIDE DEF t
    <2>5. ValidFence(t, f)
      BY <2>1, <2>4 DEF ValidFence
    <2>6. u \in Session /\ Evolves(t, u)
      BY <2>1, <2>2, <2>3, <2>5, ResourceTypes, BindEvolves
    <2> HIDE DEF u
    <2>7. Evolves(s, u)
      BY <2>1, <2>3, <2>4, <2>6, EvolvesTransitive
    <2>8. sessions' = [sessions EXCEPT ![sid] = u]
      BY <1>8 DEF DownstreamBind, u, t
    <2> QED
      BY <2>7, <2>8, OneEvolves
  <1>9. ASSUME NEW sid \in Sids, NEW f \in Fences, NEW next \in Fences,
               NEW configured \in BOOLEAN, Cancel(sid, f, next, configured)
        PROVE  SessionsEvolve
    <2> DEFINE e == Published(ReleaseFence(PrepareCancel(sessions[sid], next), f), configured)
    <2>1. Evolves(sessions[sid], e)
      BY <1>9, CancelledEvolves
    <2> QED
      BY <1>9, <2>1, OneEvolves DEF Cancel
  <1>10. ASSUME NEW sid \in Sids, NEW f \in Fences, NEW configured \in BOOLEAN,
                Update(sid, f, configured)
         PROVE  SessionsEvolve
    <2> DEFINE s == sessions[sid]
               t == AcceptFence(s, f)
    <2>1. s \in Session /\ f \in Fence /\ ValidFence(s, f)
      BY <1>10, RegisteredType DEF Update, Idle
    <2>2. t \in Session /\ Evolves(s, t)
      BY <2>1, AcceptFenceType, AcceptFenceEvolves
    <2> HIDE DEF t
    <2>3. Evolves(s, Published(t, configured))
      BY <2>1, <2>2, PublishedType, PublishedEvolves, EvolvesTransitive
    <2>4. sessions' = [sessions EXCEPT ![sid] = Published(t, configured)]
      BY <1>10 DEF Update, t
    <2> QED
      BY <2>3, <2>4, OneEvolves
  <1>11. ASSUME NEW sid \in Sids, NEW f \in Fences, Touch(sid, f) PROVE SessionsEvolve
    BY <1>11, RegisteredType, LeaseEvolves, OneEvolves DEF Touch
  <1>12. ASSUME NEW sid \in Sids, NEW f \in Fences, Detach(sid, f) PROVE SessionsEvolve
    BY <1>12, RegisteredType, LeaseEvolves, OneEvolves DEF Detach, Idle
  <1>13. ASSUME NEW sid \in Sids, NEW f \in Fences, NEW generation \in 0 .. MaxGeneration,
                Resume(sid, f, generation)
         PROVE  SessionsEvolve
    BY <1>13, RegisteredType, LeaseEvolves, OneEvolves DEF Resume, Idle
  <1>14. ASSUME NEW sid \in Sids, NEW f \in Fences, Close(sid, f) PROVE SessionsEvolve
    <2> DEFINE s == sessions[sid]
               t == AcceptFence(s, f)
               u == BeginClose(t, "explicit_close")
    <2>1. s \in Session /\ f \in Fence /\ ValidFence(s, f) /\ "explicit_close" \in Reasons
      BY <1>14, RegisteredType DEF Close, Idle, Reasons
    <2>2. t \in Session /\ Evolves(s, t)
      BY <2>1, AcceptFenceType, AcceptFenceEvolves
    <2> HIDE DEF t
    <2>3. Evolves(s, u)
      BY <2>1, <2>2, BeginCloseType, BeginCloseEvolves, EvolvesTransitive
    <2>4. sessions' = [sessions EXCEPT ![sid] = u]
      BY <1>14 DEF Close, t
    <2> QED
      BY <2>3, <2>4, OneEvolves
  <1>15. ASSUME NEW sid \in Sids, FinalizeClose(sid) PROVE SessionsEvolve
    BY <1>15, OneEvolves DEF FinalizeClose
  <1>16. CASE CollectExpired
    <2> SUFFICES ASSUME NEW sid \in Sids, sessions[sid] # NoSession
                 PROVE  Evolves(sessions[sid], sessions'[sid])
      BY DEF SessionsEvolve
    <2>1. sessions[sid] \in Session /\ ExpiryReason(sessions[sid]) \in Reasons
      BY RegisteredType DEF ExpiryReason, Reasons
    <2>2. /\ Evolves(sessions[sid], sessions[sid])
          /\ Evolves(sessions[sid], BeginClose(sessions[sid], ExpiryReason(sessions[sid])))
      BY <2>1, EvolvesKept, BeginCloseEvolves
    <2> QED
      BY <1>16, <2>2 DEF CollectExpired
  <1>17. ASSUME NEW affected \in SUBSET Sids, CloseForRequests(affected) PROVE SessionsEvolve
    <2> SUFFICES ASSUME NEW sid \in Sids, sessions[sid] # NoSession
                 PROVE  Evolves(sessions[sid], sessions'[sid])
      BY DEF SessionsEvolve
    <2>1. sessions[sid] \in Session /\ "request_cleanup" \in Reasons
      BY RegisteredType DEF Reasons
    <2>2. /\ Evolves(sessions[sid], sessions[sid])
          /\ Evolves(sessions[sid], BeginClose(sessions[sid], "request_cleanup"))
      BY <2>1, EvolvesKept, BeginCloseEvolves
    <2> QED
      BY <1>17, <2>2 DEF CloseForRequests
  <1>18. ASSUME UNCHANGED sessions PROVE SessionsEvolve
    <2> SUFFICES ASSUME NEW sid \in Sids, sessions[sid] # NoSession
                 PROVE  Evolves(sessions[sid], sessions[sid])
      BY <1>18 DEF SessionsEvolve
    <2> QED
      BY RegisteredType, EvolvesKept
  <1>19. (\E sid \in Sids : DropInput(sid)) \/ Tick \/ UNCHANGED vars => UNCHANGED sessions
    BY DEF DropInput, Tick, vars
  <1> QED
    BY <1>1, <1>2, <1>3, <1>4, <1>5, <1>6, <1>7, <1>8, <1>9, <1>10, <1>11, <1>12, <1>13,
       <1>14, <1>15, <1>16, <1>17, <1>18, <1>19 DEF Next, SessionNext

(* While an incarnation is registered its fence only moves forward: no     *)
(* late append, cancel, update or downstream submission takes it back.     *)
THEOREM FenceOnward == Spec => FenceMovesForward
  <1>1. TypeOK /\ [Next]_vars =>
          \A sid \in Sids :
             sessions[sid] # NoSession /\ sessions'[sid] # NoSession
                => LET f == sessions[sid].fence
                       g == sessions'[sid].fence
                   IN  /\ g.inc = f.inc
                       /\ g.epoch >= f.epoch
                       /\ g.epoch = f.epoch => g.turn >= f.turn /\ g.resp >= f.resp
    BY StepEvolves DEF SessionsEvolve, Evolves, Onward
  <1> QED
    BY <1>1, TypeCorrect, PTL DEF Spec, FenceMovesForward

-----------------------------------------------------------------------------
(* Closing and cancelling are irreversible.                                *)

(* What a session may undergo besides an open, a cancel and a commit.      *)
OtherStep(x) ==
    \/ \E f \in Fences :
          \/ \E op \in OpIds : BeginAppend(x, op, f) \/ RetryAppend(x, op, f)
          \/ \E configured \in BOOLEAN : Update(x, f, configured)
          \/ Touch(x, f) \/ Detach(x, f) \/ Close(x, f)
          \/ \E generation \in 0 .. MaxGeneration : Resume(x, f, generation)
    \/ \E f \in identity[x], stage \in Stages : DownstreamBind(x, stage, f)
    \/ CompensateInput(x) \/ FailInput(x) \/ DropInput(x) \/ FinalizeClose(x)

(* Such a step registers nothing, commits nothing and cancels nothing.     *)
LEMMA OtherStepKeeps ==
    ASSUME TypeOK, NEW x \in Sids, OtherStep(x)
    PROVE  /\ log' = log /\ floor' = floor
           /\ \A sid \in Sids : sessions[sid] = NoSession => sessions'[sid] = NoSession
  <1>1. ASSUME NEW f \in Fences, NEW op \in OpIds, BeginAppend(x, op, f) \/ RetryAppend(x, op, f)
        PROVE  /\ log' = log /\ floor' = floor /\ sessions[x] # NoSession
               /\ \E e : sessions' = [sessions EXCEPT ![x] = e]
    BY <1>1 DEF BeginAppend, RetryAppend, Idle
  <1>2. ASSUME NEW f \in Fences, NEW configured \in BOOLEAN, Update(x, f, configured)
        PROVE  /\ log' = log /\ floor' = floor /\ sessions[x] # NoSession
               /\ \E e : sessions' = [sessions EXCEPT ![x] = e]
    BY <1>2 DEF Update, Idle
  <1>3. ASSUME NEW f \in Fences, Touch(x, f) \/ Detach(x, f) \/ Close(x, f)
        PROVE  /\ log' = log /\ floor' = floor /\ sessions[x] # NoSession
               /\ \E e : sessions' = [sessions EXCEPT ![x] = e]
    BY <1>3 DEF Touch, Detach, Close, Idle
  <1>4. ASSUME NEW f \in Fences, NEW generation \in 0 .. MaxGeneration, Resume(x, f, generation)
        PROVE  /\ log' = log /\ floor' = floor /\ sessions[x] # NoSession
               /\ \E e : sessions' = [sessions EXCEPT ![x] = e]
    BY <1>4 DEF Resume, Idle
  <1>5. ASSUME NEW f \in identity[x], NEW stage \in Stages, DownstreamBind(x, stage, f)
        PROVE  /\ log' = log /\ floor' = floor /\ sessions[x] # NoSession
               /\ \E e : sessions' = [sessions EXCEPT ![x] = e]
    BY <1>5 DEF DownstreamBind
  <1>6. ASSUME CompensateInput(x) \/ FailInput(x) \/ FinalizeClose(x)
        PROVE  /\ log' = log /\ floor' = floor /\ sessions[x] # NoSession
               /\ \E e : sessions' = [sessions EXCEPT ![x] = e]
    BY <1>6 DEF CompensateInput, FailInput, FinalizeClose, Holds
  <1>7. ASSUME DropInput(x) PROVE log' = log /\ floor' = floor /\ sessions' = sessions
    BY <1>7 DEF DropInput
  <1>8. ASSUME sessions[x] # NoSession, \E e : sessions' = [sessions EXCEPT ![x] = e]
        PROVE  \A sid \in Sids : sessions[sid] = NoSession => sessions'[sid] = NoSession
    BY <1>8 DEF TypeOK
  <1> QED
    BY <1>1, <1>2, <1>3, <1>4, <1>5, <1>6, <1>7, <1>8 DEF OtherStep

(* The reaper, a stage error and the clock do neither.                     *)
LEMMA SharedStepKeeps ==
    ASSUME TypeOK, CollectExpired \/ (\E affected \in SUBSET Sids : CloseForRequests(affected)) \/ Tick
    PROVE  /\ log' = log /\ floor' = floor
           /\ \A sid \in Sids : sessions[sid] = NoSession => sessions'[sid] = NoSession
  <1>1. ASSUME CollectExpired
        PROVE  /\ log' = log /\ floor' = floor
               /\ \A sid \in Sids : sessions[sid] = NoSession => sessions'[sid] = NoSession
    BY <1>1 DEF CollectExpired, Expired
  <1>2. ASSUME NEW affected \in SUBSET Sids, CloseForRequests(affected)
        PROVE  /\ log' = log /\ floor' = floor
               /\ \A sid \in Sids : sessions[sid] = NoSession => sessions'[sid] = NoSession
    BY <1>2 DEF CloseForRequests
  <1>3. ASSUME Tick
        PROVE  log' = log /\ floor' = floor /\ sessions' = sessions
    BY <1>3 DEF Tick
  <1> QED
    BY <1>1, <1>2, <1>3

(* The steps of the system, by kind.                                       *)
LEMMA StepKinds ==
    ASSUME Next
    PROVE  \/ \E x \in Sids, f \in Fences : Open(x, f) \/ OpenFails(x, f)
           \/ \E x \in Sids, f \in Fences, next \in Fences, configured \in BOOLEAN :
                 Cancel(x, f, next, configured)
           \/ \E x \in Sids : CommitInput(x)
           \/ \E x \in Sids : OtherStep(x)
           \/ CollectExpired \/ (\E affected \in SUBSET Sids : CloseForRequests(affected)) \/ Tick
  BY DEF Next, SessionNext, OtherStep

(* An id becomes registered by an open only: with a quiet lease, and with  *)
(* the cancellations of the earlier incarnations forgotten.                *)
LEMMA RegisteredByOpen ==
    ASSUME TypeOK, Next, NEW sid \in Sids, sessions[sid] = NoSession,
           sessions'[sid] # NoSession
    PROVE  Quiet(sessions'[sid]) /\ floor'[sid] = 0
  <1> USE SessionAssumption
  <1>1. \E f \in Fences : Open(sid, f) \/ OpenFails(sid, f)
    <2>1. ASSUME NEW x \in Sids, NEW f \in Fences, Open(x, f) \/ OpenFails(x, f) PROVE x = sid
      BY <2>1 DEF Open, OpenFails, TypeOK
    <2>2. ASSUME NEW x \in Sids, NEW f \in Fences, NEW next \in Fences,
                 NEW configured \in BOOLEAN, Cancel(x, f, next, configured)
          PROVE  FALSE
      BY <2>2 DEF Cancel, Idle, TypeOK
    <2>3. ASSUME NEW x \in Sids, CommitInput(x) PROVE FALSE
      BY <2>3 DEF CommitInput, Holds, TypeOK
    <2> QED
      BY <2>1, <2>2, <2>3, StepKinds, OtherStepKeeps, SharedStepKeeps
  <1>2. PICK f \in Fences : Open(sid, f) \/ OpenFails(sid, f)
    BY <1>1
  <1>3. Opened(f) \in Session /\ Live(Opened(f))
    <2> DEFINE s == NewSession(f, now)
    <2>1. f \in Fence /\ EntryStage \in Stages /\ RequestOf(f) \in Request /\ now \in Nat
      BY RequestType DEF TypeOK
    <2>2. s \in Session /\ Live(s)
      BY <2>1, NewSessionType DEF NewSession, Live
    <2> HIDE DEF s
    <2>3. Reserve(s, EntryStage, RequestOf(f), f) \in Session
      BY <2>1, <2>2, ResourceTypes
    <2>4. Live(Reserve(s, EntryStage, RequestOf(f), f))
      BY <2>2 DEF Live, Reserve, Session
    <2> QED
      BY <2>3, <2>4 DEF Opened, s
  <1>4. Quiet(Opened(f)) /\ Quiet(BeginClose(Opened(f), "open_rollback"))
    <2>1. "open_rollback" \in Reasons
      BY DEF Reasons
    <2> QED
      BY <1>3, <2>1, BeginCloseEvolves DEF Evolves, Quiet
  <1> QED
    BY <1>2, <1>4 DEF Open, OpenFails, Admit, TypeOK

(* The lowest epoch that was not cancelled moves with a cancel only, and   *)
(* the cancel takes the fence of the session past it.                      *)
LEMMA FloorByCancel ==
    ASSUME TypeOK, Next, NEW sid \in Sids, sessions[sid] # NoSession,
           sessions'[sid] # NoSession
    PROVE  \/ floor'[sid] = floor[sid]
           \/ floor'[sid] <= sessions'[sid].fence.epoch
  <1> USE SessionAssumption
  <1>1. CASE \E x \in Sids, f \in Fences, next \in Fences, configured \in BOOLEAN :
                Cancel(x, f, next, configured)
    <2>1. PICK x \in Sids, f \in Fences, next \in Fences, configured \in BOOLEAN :
                Cancel(x, f, next, configured)
      BY <1>1
    <2>2. CASE x # sid
      BY <2>1, <2>2 DEF Cancel, TypeOK
    <2>3. CASE x = sid
      <3> DEFINE e == Published(ReleaseFence(PrepareCancel(sessions[sid], next), f), configured)
      <3>1. e \in Session /\ e.fence.epoch > f.epoch
        BY <2>1, <2>3, CancelledEvolves
      <3>2. sessions'[sid] = e
        BY <2>1, <2>3 DEF Cancel, TypeOK
      <3> HIDE DEF e
      <3>3. e.fence.epoch \in Nat /\ f.epoch \in Nat /\ floor[sid] \in Nat
        BY <3>1 DEF Session, Fence, TypeOK
      <3>4. floor'[sid] = floor[sid] \/ floor'[sid] = f.epoch + 1
        BY <2>1, <2>3 DEF Cancel, TypeOK
      <3> QED
        BY <3>1, <3>2, <3>3, <3>4
    <2> QED
      BY <2>2, <2>3
  <1>2. CASE ~ \E x \in Sids, f \in Fences, next \in Fences, configured \in BOOLEAN :
                Cancel(x, f, next, configured)
    <2>1. ASSUME NEW x \in Sids, NEW f \in Fences, Open(x, f) \/ OpenFails(x, f)
          PROVE  floor'[sid] = floor[sid]
      BY <2>1 DEF Open, OpenFails, Admit, TypeOK
    <2>2. ASSUME NEW x \in Sids, CommitInput(x) PROVE floor' = floor
      BY <2>2 DEF CommitInput
    <2> QED
      BY <1>2, <2>1, <2>2, StepKinds, OtherStepKeeps, SharedStepKeeps
  <1> QED
    BY <1>1, <1>2

(* A cancelled epoch stays cancelled: the fence of a registered session    *)
(* never falls back into it, whatever appends and downstream submissions   *)
(* were under way when it was cancelled.                                   *)
THEOREM CancelledForGood == Spec => []CancelIsIrreversible
  <1>1. Init => CancelIsIrreversible
    BY DEF Init, CancelIsIrreversible, Registered
  <1>2. TypeOK /\ TypeOK' /\ CancelIsIrreversible /\ [Next]_vars => CancelIsIrreversible'
    <2> SUFFICES ASSUME TypeOK, TypeOK', CancelIsIrreversible, [Next]_vars,
                        NEW sid \in Sids, sessions'[sid] # NoSession
                 PROVE  sessions'[sid].fence.epoch >= floor'[sid]
      BY DEF CancelIsIrreversible, Registered
    <2>1. sessions'[sid].fence.epoch \in Nat
      BY DEF TypeOK, Session, Fence
    <2>2. CASE sessions[sid] = NoSession
      <3>1. Next
        BY <2>2 DEF vars
      <3> QED
        BY <2>1, <2>2, <3>1, RegisteredByOpen
    <2>3. CASE sessions[sid] # NoSession
      <3>1. sessions[sid].fence.epoch \in Nat /\ floor[sid] \in Nat /\ floor'[sid] \in Nat
        BY <2>3 DEF TypeOK, Session, Fence
      <3>2. sessions[sid].fence.epoch >= floor[sid]
        BY <2>3 DEF CancelIsIrreversible, Registered
      <3>3. sessions'[sid].fence.epoch >= sessions[sid].fence.epoch
        BY <2>3, StepEvolves DEF SessionsEvolve, Evolves, Onward
      <3>4. floor'[sid] = floor[sid] \/ floor'[sid] <= sessions'[sid].fence.epoch
        BY <2>3, FloorByCancel DEF vars
      <3> QED
        BY <2>1, <3>1, <3>2, <3>3, <3>4
    <2> QED
      BY <2>2, <2>3
  <1> QED
    BY <1>1, <1>2, TypeCorrect, PTL DEF Spec

(* No append of a cancelled epoch commits, early or late.                  *)
THEOREM CancelledInputStaysOut == Spec => NoCancelledInput
  <1>1. TypeOK /\ CancelIsIrreversible /\ [Next]_vars
           => [\A e \in log' \ log : e.epoch >= floor[e.sid]]_vars
    <2> SUFFICES ASSUME TypeOK, CancelIsIrreversible, Next, NEW e \in log', e \notin log
                 PROVE  e.epoch >= floor[e.sid]
      OBVIOUS
    <2>1. \E sid \in Sids : CommitInput(sid)
      <3>1. ASSUME NEW x \in Sids, NEW f \in Fences, Open(x, f) \/ OpenFails(x, f)
            PROVE  log' = log
        BY <3>1 DEF Open, OpenFails, Admit
      <3>2. ASSUME NEW x \in Sids, NEW f \in Fences, NEW next \in Fences,
                   NEW configured \in BOOLEAN, Cancel(x, f, next, configured)
            PROVE  log' = log
        BY <3>2 DEF Cancel
      <3> QED
        BY <3>1, <3>2, StepKinds, OtherStepKeeps, SharedStepKeeps
    <2>2. PICK sid \in Sids : CommitInput(sid)
      BY <2>1
    <2> DEFINE f == inflight[sid].res.fence
    <2>3. e.sid = sid /\ e.epoch = f.epoch
      BY <2>2 DEF CommitInput, LogEntry
    <2>4. sessions[sid] # NoSession /\ ValidFence(sessions[sid], f)
      BY <2>2 DEF CommitInput, Holds
    <2>5. f \in Fence /\ sessions[sid].fence \in Fence /\ floor[sid] \in Nat
      BY <2>2, <2>4, InflightType, RegisteredType DEF CommitInput, Holds, Session, TypeOK
    <2>6. sessions[sid].fence.epoch >= floor[sid]
      BY <2>4 DEF CancelIsIrreversible, Registered
    <2>7. f.epoch >= sessions[sid].fence.epoch
      BY <2>4, <2>5 DEF ValidFence, NotBehind, Fence
    <2> QED
      BY <2>3, <2>5, <2>6, <2>7 DEF Fence
  <1> QED
    BY <1>1, TypeCorrect, CancelledForGood, PTL DEF Spec, NoCancelledInput

(* The lease of every registered, closing session is quiet.                *)
AllQuiet == \A sid \in Sids : sessions[sid] # NoSession => Quiet(sessions[sid])

(* A step keeps the leases of closing sessions quiet.                      *)
LEMMA QuietStep == TypeOK /\ AllQuiet /\ [Next]_vars => AllQuiet'
  <1> SUFFICES ASSUME TypeOK, AllQuiet, [Next]_vars, NEW sid \in Sids,
                      sessions'[sid] # NoSession
               PROVE  Quiet(sessions'[sid])
    BY DEF AllQuiet, Quiet, Live
  <1>1. CASE sessions[sid] = NoSession
    BY <1>1, RegisteredByOpen DEF vars
  <1>2. CASE sessions[sid] # NoSession
    BY <1>2, StepEvolves DEF SessionsEvolve, Evolves, AllQuiet
  <1> QED
    BY <1>1, <1>2

(* Until it is finalized, a closing session keeps its reason and its lease *)
(* generation and stays neither detached nor busy.                         *)
THEOREM ClosedForGood == Spec => ClosingIsIrreversible
  <1>1. Init => AllQuiet
    BY DEF Init, AllQuiet
  <1>2. TypeOK /\ AllQuiet /\ [Next]_vars =>
          \A sid \in Sids :
             sessions[sid] # NoSession /\ sessions'[sid] # NoSession /\ ~Live(sessions[sid])
                => /\ sessions'[sid].terminal = sessions[sid].terminal
                   /\ sessions'[sid].generation = sessions[sid].generation
                   /\ sessions'[sid].activeOps = {}
                   /\ sessions'[sid].detachedAt = NoTime
    BY StepEvolves DEF SessionsEvolve, Evolves, AllQuiet, Quiet, Live
  <1> QED
    BY <1>1, <1>2, QuietStep, TypeCorrect, PTL DEF Spec, ClosingIsIrreversible

-----------------------------------------------------------------------------
(* Stage requests are tracked.                                             *)

(* The requests of a session that only forgets some, bindings first.       *)
LEMMA ShrunkTracked ==
    ASSUME NEW s \in Session, NEW t \in Session, TrackedRequests(s),
           Onward(s.fence, t.fence),
           t.resources \subseteq s.resources, t.bindings \subseteq s.bindings,
           \A b \in t.bindings :
              [stage |-> b.stage, request |-> b.request, fence |-> b.fence, submitted |-> TRUE]
                 \in s.resources => [stage |-> b.stage, request |-> b.request,
                                     fence |-> b.fence, submitted |-> TRUE] \in t.resources
    PROVE  TrackedRequests(t)
  <1>1. s.fence \in Fence /\ t.fence \in Fence
    BY DEF Session
  <1>2. \A r \in t.resources : r \in Resource /\ r \in s.resources
    BY DEF Session
  <1>3. ASSUME NEW r \in t.resources
        PROVE  /\ r.request = RequestOf(r.fence)
               /\ r.fence.inc = t.fence.inc
               /\ r.submitted => r.fence.epoch <= t.fence.epoch
    <2>1. r.fence \in Fence
      BY <1>2 DEF Resource
    <2>2. /\ r.request = RequestOf(r.fence)
          /\ r.fence.inc = s.fence.inc
          /\ r.submitted => r.fence.epoch <= s.fence.epoch
      BY <1>2 DEF TrackedRequests
    <2> QED
      BY <1>1, <2>1, <2>2 DEF Onward, Fence
  <1>4. \A q, r \in t.resources : q.stage = r.stage /\ q.request = r.request => q = r
    BY <1>2 DEF TrackedRequests
  <1>5. \A b, c \in t.bindings : b.stage = c.stage => b = c
    BY DEF TrackedRequests
  <1>6. \A b \in t.bindings :
           [stage |-> b.stage, request |-> b.request, fence |-> b.fence, submitted |-> TRUE]
              \in t.resources
    BY DEF TrackedRequests
  <1> QED
    BY <1>3, <1>4, <1>5, <1>6 DEF TrackedRequests

(* reserve_stage_request: a request that has a resource gets no second one. *)
LEMMA ReservedTracked ==
    ASSUME NEW s \in Session, TrackedRequests(s), NEW stage \in Stages, NEW f \in Fence,
           f.inc = s.fence.inc
    PROVE  TrackedRequests(Reserve(s, stage, RequestOf(f), f))
  <1> DEFINE new == [stage |-> stage, request |-> RequestOf(f), fence |-> f, submitted |-> FALSE]
             t == Reserve(s, stage, RequestOf(f), f)
  <1>1. CASE Reserved(s, stage, RequestOf(f)) # {}
    BY <1>1 DEF Reserve
  <1>2. CASE Reserved(s, stage, RequestOf(f)) = {}
    <2>1. /\ t.resources = s.resources \cup {new} /\ t.bindings = s.bindings
          /\ t.fence = s.fence
      BY <1>2 DEF Reserve, Session
    <2>2. \A r \in s.resources : ~(r.stage = new.stage /\ r.request = new.request)
      BY <1>2 DEF Reserved
    <2>3. new.request = RequestOf(new.fence) /\ new.fence.inc = t.fence.inc /\ ~new.submitted
      BY <2>1
    <2> HIDE DEF new, t
    <2>4. \A q, r \in t.resources : q.stage = r.stage /\ q.request = r.request => q = r
      BY <2>1, <2>2 DEF TrackedRequests
    <2>5. \A r \in t.resources :
             /\ r.request = RequestOf(r.fence)
             /\ r.fence.inc = t.fence.inc
             /\ r.submitted => r.fence.epoch <= t.fence.epoch
      BY <2>1, <2>3 DEF TrackedRequests
    <2>6. \A b \in t.bindings :
             [stage |-> b.stage, request |-> b.request, fence |-> b.fence, submitted |-> TRUE]
                \in t.resources
      BY <2>1 DEF TrackedRequests
    <2> QED
      BY <2>1, <2>4, <2>5, <2>6 DEF TrackedRequests, t
  <1> QED
    BY <1>1, <1>2

(* bind_stage_request: the resource of the request takes the fence of the  *)
(* new binding, and no other binding of the stage is left.                 *)
LEMMA BoundTracked ==
    ASSUME NEW s \in Session, TrackedRequests(s), NEW t \in Session,
           NEW stage \in Stages, NEW f \in Fence, ValidFence(s, f), t.fence = f,
           t.resources = (s.resources \ Reserved(s, stage, RequestOf(f))) \cup
               {[stage |-> stage, request |-> RequestOf(f), fence |-> f, submitted |-> TRUE]},
           t.bindings = {b \in s.bindings : b.stage # stage} \cup
               {[stage |-> stage, request |-> RequestOf(f), fence |-> f]}
    PROVE  TrackedRequests(t)
  <1> DEFINE new == [stage |-> stage, request |-> RequestOf(f), fence |-> f, submitted |-> TRUE]
             bound == [stage |-> stage, request |-> RequestOf(f), fence |-> f]
             kept == s.resources \ Reserved(s, stage, RequestOf(f))
             other == {b \in s.bindings : b.stage # stage}
  <1>1. s.fence \in Fence /\ s.resources \subseteq Resource /\ s.bindings \subseteq Binding
    BY DEF Session
  <1>2. /\ new.stage = stage /\ new.request = RequestOf(f) /\ new.fence = f /\ new.submitted
        /\ bound.stage = stage /\ bound.request = RequestOf(f) /\ bound.fence = f
        /\ [stage |-> bound.stage, request |-> bound.request, fence |-> bound.fence,
            submitted |-> TRUE] = new
    OBVIOUS
  <1>3. ASSUME NEW r \in kept
        PROVE  /\ r.request = RequestOf(r.fence)
               /\ r.fence.inc = t.fence.inc
               /\ r.submitted => r.fence.epoch <= t.fence.epoch
               /\ ~(r.stage = stage /\ r.request = RequestOf(f))
    <2>1. r.fence \in Fence
      BY <1>1 DEF Resource
    <2>2. /\ r.request = RequestOf(r.fence)
          /\ r.fence.inc = s.fence.inc
          /\ r.submitted => r.fence.epoch <= s.fence.epoch
      BY DEF TrackedRequests
    <2>3. f.inc = s.fence.inc /\ f.epoch >= s.fence.epoch
      BY <1>1 DEF ValidFence, NotBehind, Fence
    <2>4. ~(r.stage = stage /\ r.request = RequestOf(f))
      BY DEF Reserved
    <2>5. f.epoch \in Nat /\ s.fence.epoch \in Nat /\ r.fence.epoch \in Nat
      BY <1>1, <2>1 DEF Fence
    <2>6. r.submitted => r.fence.epoch <= t.fence.epoch
      BY <2>2, <2>3, <2>5
    <2> QED
      BY <2>2, <2>3, <2>4, <2>6
  <1>4. ASSUME NEW b \in other
        PROVE  [stage |-> b.stage, request |-> b.request, fence |-> b.fence, submitted |-> TRUE]
                  \in kept
    <2> DEFINE r == [stage |-> b.stage, request |-> b.request, fence |-> b.fence,
                     submitted |-> TRUE]
    <2>1. r \in s.resources
      BY DEF TrackedRequests
    <2>2. r.stage # stage
      OBVIOUS
    <2> HIDE DEF r
    <2>3. r \in kept
      BY <2>1, <2>2 DEF Reserved
    <2> QED
      BY <2>3 DEF r
  <1>5. t.resources = kept \cup {new} /\ t.bindings = other \cup {bound}
    OBVIOUS
  <1>6. \A b, c \in other : b.stage = c.stage => b = c
    BY DEF TrackedRequests
  <1>7. \A b \in other : b.stage # stage
    OBVIOUS
  <1>8. \A q, r \in kept : q.stage = r.stage /\ q.request = r.request => q = r
    BY DEF TrackedRequests
  <1>9. f.inc = t.fence.inc /\ f.epoch <= t.fence.epoch
    BY DEF Fence
  <1> HIDE DEF new, bound, kept, other
  <1>10. \A b \in t.bindings :
            [stage |-> b.stage, request |-> b.request, fence |-> b.fence, submitted |-> TRUE]
               \in t.resources
    BY <1>2, <1>4, <1>5
  <1>11. \A b, c \in t.bindings : b.stage = c.stage => b = c
    BY <1>2, <1>5, <1>6, <1>7
  <1>12. \A r \in t.resources :
            /\ r.request = RequestOf(r.fence)
            /\ r.fence.inc = t.fence.inc
            /\ r.submitted => r.fence.epoch <= t.fence.epoch
    BY <1>2, <1>3, <1>5, <1>9
  <1>13. \A q, r \in t.resources : q.stage = r.stage /\ q.request = r.request => q = r
    BY <1>2, <1>3, <1>5, <1>8
  <1> QED
    BY <1>10, <1>11, <1>12, <1>13 DEF TrackedRequests

(* What the operations on fence, lease and cache leave alone.              *)
Alike(s, t) == t.resources = s.resources /\ t.bindings = s.bindings

LEMMA LeaseAlike ==
    ASSUME NEW s \in Session, NEW c, NEW time, NEW reason, NEW f
    PROVE  /\ Alike(s, TouchLease(s, time)) /\ Alike(s, DetachLease(s, time))
           /\ Alike(s, ResumeLease(s, time)) /\ Alike(s, BeginOperation(s, c, time))
           /\ Alike(s, EndOperation(s, c, time)) /\ Alike(s, BeginClose(s, reason))
           /\ Alike(s, AcceptFence(s, f))
  <1>1. Alike(s, TouchLease(s, time)) /\ Alike(s, DetachLease(s, time))
    BY DEF Alike, TouchLease, DetachLease, Session
  <1>2. Alike(s, ResumeLease(s, time)) /\ Alike(s, BeginOperation(s, c, time))
    BY DEF Alike, ResumeLease, BeginOperation, Session
  <1>3. Alike(s, EndOperation(s, c, time)) /\ Alike(s, AcceptFence(s, f))
    BY DEF Alike, EndOperation, AcceptFence, Session
  <1>4. Alike(s, BeginClose(s, reason))
    BY DEF Alike, BeginClose, MarkTerminal, Session
  <1> QED
    BY <1>1, <1>2, <1>3, <1>4

LEMMA HandlerAlike ==
    ASSUME NEW s \in Session, NEW configured \in BOOLEAN
    PROVE  Alike(s, Published(s, configured)) /\ Alike(s, EndAppend(s))
  <1>1. Alike(s, Published(s, configured))
    BY DEF Alike, Published, TouchLease, Session
  <1>2. Alike(s, EndAppend(s))
    BY LeaseAlike DEF Alike, EndAppend
  <1> QED
    BY <1>1, <1>2

(* What one step does to the requests of the sessions is tracked.          *)
LEMMA OneTracked ==
    ASSUME TypeOK, BindingsTracked, NEW x \in Sids, NEW e,
           sessions' = [sessions EXCEPT ![x] = e],
           e = NoSession \/ TrackedRequests(e)
    PROVE  BindingsTracked'
  <1> SUFFICES ASSUME NEW sid \in Sids, sessions'[sid] # NoSession
               PROVE  TrackedRequests(sessions'[sid])
    BY DEF BindingsTracked, Registered
  <1> QED
    BY DEF BindingsTracked, Registered, TypeOK

(* A session whose requests are left alone, or released.                   *)
LEMMA AlikeTracked ==
    ASSUME TypeOK, TypeOK', [Next]_vars, BindingsTracked, NEW sid \in Sids,
           sessions[sid] # NoSession, sessions'[sid] # NoSession,
           Alike(sessions[sid], sessions'[sid])
    PROVE  TrackedRequests(sessions'[sid])
  <1> DEFINE s == sessions[sid]
             t == sessions'[sid]
  <1>1. s \in Session /\ t \in Session
    BY DEF TypeOK
  <1>2. Onward(s.fence, t.fence)
    BY StepEvolves DEF SessionsEvolve, Evolves
  <1>3. TrackedRequests(s)
    BY DEF BindingsTracked, Registered
  <1>4. t.resources = s.resources /\ t.bindings = s.bindings
    BY DEF Alike
  <1> HIDE DEF s, t
  <1>5. TrackedRequests(t)
    BY <1>1, <1>2, <1>3, <1>4, ShrunkTracked
  <1> QED
    BY <1>5 DEF t

LEMMA ReleasedTracked ==
    ASSUME TypeOK, TypeOK', [Next]_vars, BindingsTracked, NEW sid \in Sids,
           sessions[sid] # NoSession, sessions'[sid] # NoSession,
           \/ \E requests : Alike(ReleaseRequests(sessions[sid], requests), sessions'[sid])
           \/ \E f : Alike(ReleaseFence(sessions[sid], f), sessions'[sid])
    PROVE  TrackedRequests(sessions'[sid])
  <1> DEFINE s == sessions[sid]
             t == sessions'[sid]
  <1>1. s \in Session /\ t \in Session
    BY DEF TypeOK
  <1>2. Onward(s.fence, t.fence)
    BY StepEvolves DEF SessionsEvolve, Evolves
  <1>3. TrackedRequests(s)
    BY DEF BindingsTracked, Registered
  <1>4. ASSUME NEW requests, Alike(ReleaseRequests(s, requests), t) PROVE TrackedRequests(t)
    <2>1. /\ t.bindings = {b \in s.bindings : b.request \notin requests}
          /\ t.resources = {r \in s.resources : r.request \notin requests}
      BY <1>1, <1>4 DEF Alike, ReleaseRequests, Session
    <2> HIDE DEF s, t
    <2> QED
      BY <1>1, <1>2, <1>3, <2>1, ShrunkTracked
  <1>5. ASSUME NEW f, Alike(ReleaseFence(s, f), t) PROVE TrackedRequests(t)
    <2>1. /\ t.bindings = {b \in s.bindings : b.fence # f}
          /\ t.resources = {r \in s.resources : r.fence # f}
      BY <1>1, <1>5 DEF Alike, ReleaseFence, Session
    <2> HIDE DEF s, t
    <2> QED
      BY <1>1, <1>2, <1>3, <2>1, ShrunkTracked
  <1> QED
    BY <1>4, <1>5

(* A step that replaces one session value, and what it leaves alone.       *)
LEMMA OneAlike ==
    ASSUME TypeOK, TypeOK', [Next]_vars, BindingsTracked, NEW x \in Sids, NEW e \in Session,
           sessions[x] # NoSession, sessions' = [sessions EXCEPT ![x] = e],
           \/ Alike(sessions[x], e)
           \/ \E requests : Alike(ReleaseRequests(sessions[x], requests), e)
           \/ \E f : Alike(ReleaseFence(sessions[x], f), e)
    PROVE  BindingsTracked'
  <1>1. sessions'[x] = e /\ e # NoSession
    BY SessionAssumption DEF TypeOK
  <1>2. TrackedRequests(e)
    BY <1>1, AlikeTracked, ReleasedTracked
  <1> QED
    BY <1>2, OneTracked

(* A commit binds the request of the append to the entry stage.            *)
LEMMA CommitTracked ==
    ASSUME TypeOK, BindingsTracked, NEW sid \in Sids, CommitInput(sid)
    PROVE  TrackedRequests(Commit(sessions[sid], inflight[sid]))
  <1> DEFINE s == sessions[sid]
             a == inflight[sid]
             f == a.res.fence
             t == CommitAppend(s, a.res)
             u == Bind(t, EntryStage, RequestOf(f), f)
             v == RecordCompleted(u, a.op, f)
             w == EndAppend(v)
  <1>1. /\ s \in Session /\ a \in InputAppend /\ a.op \in OpIds /\ a.res \in Reservation
        /\ f \in Fence /\ ValidFence(s, f) /\ TrackedRequests(s)
    BY RegisteredType, InflightType DEF CommitInput, Holds, BindingsTracked, Registered
  <1>2. EntryStage \in Stages /\ RequestOf(f) \in Request
    BY <1>1, RequestType, SessionAssumption
  <1>3. t \in Session /\ t.fence = f
    BY <1>1, CommitAppendType, CommitAppendEvolves
  <1>4. t.resources = s.resources /\ t.bindings = s.bindings
    <2>1. Alike(s, AcceptFence(s, f)) /\ AcceptFence(s, f) \in Session
      BY <1>1, LeaseAlike, AcceptFenceType
    <2> QED
      BY <2>1 DEF CommitAppend, Alike, Session
  <1> HIDE DEF t, f
  <1>5. u \in Session
    BY <1>1, <1>2, <1>3, ResourceTypes
  <1>6. /\ u.fence = f
        /\ u.resources = (s.resources \ Reserved(s, EntryStage, RequestOf(f))) \cup
              {[stage |-> EntryStage, request |-> RequestOf(f), fence |-> f, submitted |-> TRUE]}
        /\ u.bindings = {b \in s.bindings : b.stage # EntryStage} \cup
              {[stage |-> EntryStage, request |-> RequestOf(f), fence |-> f]}
    <2>1. AcceptFence(t, f) \in Session /\ AcceptFence(t, f).fence = f
      <3>1. t \in Session /\ f \in Fence
        BY <1>1, <1>3
      <3>2. AcceptFence(t, f) \in Session
        BY <3>1, AcceptFenceType
      <3>3. AcceptFence(t, f).fence = f
        BY <3>1 DEF AcceptFence, Session
      <3> QED
        BY <3>2, <3>3
    <2>2. Reserved(t, EntryStage, RequestOf(f)) = Reserved(s, EntryStage, RequestOf(f))
      BY <1>4 DEF Reserved
    <2> QED
      BY <1>4, <2>1, <2>2 DEF Bind, Session
  <1> HIDE DEF u
  <1>7. v \in Session
    BY <1>1, <1>5, RecordCompletedType
  <1>8. v.fence = u.fence /\ v.resources = u.resources /\ v.bindings = u.bindings
    BY <1>5 DEF RecordCompleted, Session
  <1> HIDE DEF v
  <1>9. w \in Session /\ w.fence = v.fence /\ Alike(v, w)
    BY <1>7, EndAppendType, EndAppendEvolves, HandlerAlike
  <1> HIDE DEF w, s
  <1>10. TrackedRequests(w)
    BY <1>1, <1>2, <1>6, <1>8, <1>9, BoundTracked DEF Alike
  <1> QED
    BY <1>10 DEF w, v, u, t, f, s, Commit

(* Every step keeps the requests of every session tracked.                 *)
LEMMA TrackedStep == TypeOK /\ TypeOK' /\ BindingsTracked /\ [Next]_vars => BindingsTracked'
  <1> SUFFICES ASSUME TypeOK, TypeOK', BindingsTracked, [Next]_vars PROVE BindingsTracked'
    OBVIOUS
  <1> USE SessionAssumption
  <1> now \in Nat
    BY DEF TypeOK
  <1>1. ASSUME NEW sid \in Sids, NEW f \in Fences, Open(sid, f) \/ OpenFails(sid, f)
        PROVE  BindingsTracked'
    <2> DEFINE s == NewSession(f, now)
    <2>1. /\ f \in Fence /\ s \in Session /\ s.fence = f
          /\ s.resources = {} /\ s.bindings = {}
      BY NewSessionType DEF NewSession
    <2>2. TrackedRequests(s)
      BY <2>1 DEF TrackedRequests
    <2> HIDE DEF s
    <2>3. TrackedRequests(Reserve(s, EntryStage, RequestOf(f), f))
      BY <2>1, <2>2, ReservedTracked
    <2>4. TrackedRequests(Opened(f)) /\ Opened(f) \in Session
      BY <2>1, <2>3, OpenedType DEF Opened, s
    <2>5. TrackedRequests(BeginClose(Opened(f), "open_rollback"))
      <3> DEFINE t == Opened(f)
                 u == BeginClose(t, "open_rollback")
      <3>1. t \in Session /\ u \in Session /\ Alike(t, u) /\ TrackedRequests(t)
        BY <2>1, <2>4, OpenedType, LeaseAlike
      <3>2. Onward(t.fence, u.fence)
        BY <2>4, BeginCloseEvolves DEF Evolves, Reasons
      <3> HIDE DEF t, u
      <3>3. TrackedRequests(u)
        BY <3>1, <3>2, ShrunkTracked DEF Alike
      <3> QED
        BY <3>3 DEF t, u
    <2> QED
      BY <1>1, <2>4, <2>5, OneTracked DEF Open, OpenFails
  <1>2. ASSUME NEW sid \in Sids, NEW f \in Fences, NEW op \in OpIds, BeginAppend(sid, op, f)
        PROVE  BindingsTracked'
    <2> DEFINE s == sessions[sid]
               t == BeginOperation(s, AppendOperation, now)
               u == Reserve(t, EntryStage, RequestOf(f), f)
    <2>1. s \in Session /\ f \in Fence /\ f.inc = s.fence.inc /\ TrackedRequests(s)
      BY <1>2, RegisteredType DEF BeginAppend, Idle, ValidFence, BindingsTracked, Registered
    <2>2. t \in Session /\ Alike(s, t) /\ t.fence = s.fence
      <3>1. t \in Session
        BY <2>1, OperationTypes DEF AppendOperation, TypeOK
      <3>2. Alike(s, t)
        BY <2>1, LeaseAlike
      <3>3. t.fence = s.fence
        BY <2>1 DEF BeginOperation, Session
      <3> QED
        BY <3>1, <3>2, <3>3
    <2>3. Onward(s.fence, t.fence)
      BY <2>1, <2>2 DEF Onward, Session, Fence
    <2>4. sessions' = [sessions EXCEPT ![sid] = u]
      BY <1>2 DEF BeginAppend
    <2> HIDE DEF t, s
    <2>5. TrackedRequests(t)
      BY <2>1, <2>2, <2>3, ShrunkTracked DEF Alike
    <2>6. TrackedRequests(u)
      BY <2>1, <2>2, <2>5, ReservedTracked
    <2> QED
      BY <2>4, <2>6, OneTracked
  <1>3. ASSUME NEW sid \in Sids, NEW f \in Fences, NEW op \in OpIds, RetryAppend(sid, op, f)
        PROVE  BindingsTracked'
    BY <1>3, RegisteredType, LeaseTypes, LeaseAlike, OneAlike DEF RetryAppend, Idle
  <1>4. ASSUME NEW sid \in Sids, CommitInput(sid) PROVE BindingsTracked'
    BY <1>4, CommitTracked, OneTracked DEF CommitInput
  <1>5. ASSUME NEW sid \in Sids, CompensateInput(sid) PROVE BindingsTracked'
    <2> DEFINE s == sessions[sid]
               t == ReleaseRequests(s, {RequestOf(inflight[sid].res.fence)})
    <2>1. s \in Session /\ s # NoSession /\ sessions' = [sessions EXCEPT ![sid] = EndAppend(t)]
      BY <1>5, RegisteredType DEF CompensateInput, Holds
    <2>2. t \in Session
      BY <2>1, ReleaseTypes
    <2>3. EndAppend(t) \in Session /\ Alike(t, EndAppend(t))
      BY <2>2, EndAppendType, HandlerAlike
    <2> QED
      BY <2>1, <2>3, OneAlike
  <1>6. ASSUME NEW sid \in Sids, FailInput(sid) PROVE BindingsTracked'
    BY <1>6, RegisteredType, EndAppendType, HandlerAlike, OneAlike DEF FailInput, Holds
  <1>7. ASSUME NEW sid \in Sids, NEW stage \in Stages, NEW f \in identity[sid],
               DownstreamBind(sid, stage, f)
        PROVE  BindingsTracked'
    <2> DEFINE s == sessions[sid]
               t == Reserve(s, stage, RequestOf(f), f)
               u == Bind(t, stage, RequestOf(f), f)
    <2>1. /\ s \in Session /\ f \in Fence /\ ValidFence(s, f) /\ TrackedRequests(s)
          /\ RequestOf(f) \in Request
      BY <1>7, RegisteredType, RequestType
         DEF DownstreamBind, CanReserve, TypeOK, BindingsTracked, Registered
    <2>2. t \in Session /\ t.fence = s.fence
      BY <2>1, ResourceTypes DEF Reserve, Session
    <2>3. TrackedRequests(t) /\ ValidFence(t, f)
      BY <2>1, <2>2, ReservedTracked DEF ValidFence
    <2>4. sessions' = [sessions EXCEPT ![sid] = u]
      BY <1>7 DEF DownstreamBind
    <2> HIDE DEF t
    <2>5. u \in Session /\ u.fence = f
      BY <2>1, <2>2, <2>3, ResourceTypes, BindEvolves
    <2>6. /\ u.resources = (t.resources \ Reserved(t, stage, RequestOf(f))) \cup
                {[stage |-> stage, request |-> RequestOf(f), fence |-> f, submitted |-> TRUE]}
          /\ u.bindings = {b \in t.bindings : b.stage # stage} \cup
                {[stage |-> stage, request |-> RequestOf(f), fence |-> f]}
      <3>1. AcceptFence(t, f) \in Session
        BY <2>1, <2>2, AcceptFenceType
      <3> QED
        BY <3>1 DEF Bind, Session
    <2> HIDE DEF u
    <2>7. TrackedRequests(u)
      BY <2>1, <2>2, <2>3, <2>5, <2>6, BoundTracked
    <2> QED
      BY <2>4, <2>7, OneTracked
  <1>8. ASSUME NEW sid \in Sids, NEW f \in Fences, NEW next \in Fences,
               NEW configured \in BOOLEAN, Cancel(sid, f, next, configured)
        PROVE  BindingsTracked'
    <2> DEFINE s == sessions[sid]
               t == PrepareCancel(s, next)
               u == ReleaseFence(t, f)
               e == Published(u, configured)
    <2>1. s \in Session /\ s # NoSession /\ next \in Fence
      BY <1>8, RegisteredType DEF Cancel, Idle
    <2>2. t \in Session /\ Alike(s, t)
      BY <2>1, PrepareCancelType, LeaseAlike DEF PrepareCancel, Alike
    <2>3. sessions' = [sessions EXCEPT ![sid] = e] /\ e \in Session
      BY <1>8, CancelledEvolves DEF Cancel
    <2> HIDE DEF t
    <2>4. u \in Session /\ Alike(ReleaseFence(s, f), u)
      BY <2>1, <2>2, ReleaseTypes DEF Alike, ReleaseFence, Session
    <2> HIDE DEF u
    <2>5. Alike(ReleaseFence(s, f), e)
      BY <2>4, HandlerAlike DEF Alike
    <2> HIDE DEF e
    <2> QED
      BY <2>1, <2>3, <2>5, OneAlike
  <1>9. ASSUME NEW sid \in Sids, NEW f \in Fences, NEW configured \in BOOLEAN,
               Update(sid, f, configured)
        PROVE  BindingsTracked'
    <2> DEFINE s == sessions[sid]
               t == AcceptFence(s, f)
    <2>1. s \in Session /\ s # NoSession /\ f \in Fence
      BY <1>9, RegisteredType DEF Update, Idle
    <2>2. t \in Session /\ Alike(s, t)
      BY <2>1, AcceptFenceType, LeaseAlike
    <2>3. sessions' = [sessions EXCEPT ![sid] = Published(t, configured)]
      BY <1>9 DEF Update
    <2> HIDE DEF t
    <2>4. Published(t, configured) \in Session /\ Alike(s, Published(t, configured))
      BY <2>2, PublishedType, HandlerAlike DEF Alike
    <2> QED
      BY <2>1, <2>3, <2>4, OneAlike
  <1>10. ASSUME NEW sid \in Sids, NEW f \in Fences, Touch(sid, f) \/ Detach(sid, f)
         PROVE  BindingsTracked'
    BY <1>10, RegisteredType, LeaseTypes, LeaseAlike, OneAlike DEF Touch, Detach, Idle
  <1>11. ASSUME NEW sid \in Sids, NEW f \in Fences, NEW generation \in 0 .. MaxGeneration,
                Resume(sid, f, generation)
         PROVE  BindingsTracked'
    BY <1>11, RegisteredType, LeaseTypes, LeaseAlike, OneAlike DEF Resume, Idle
  <1>12. ASSUME NEW sid \in Sids, NEW f \in Fences, Close(sid, f) PROVE BindingsTracked'
    <2> DEFINE s == sessions[sid]
               t == AcceptFence(s, f)
               u == BeginClose(t, "explicit_close")
    <2>1. s \in Session /\ s # NoSession /\ f \in Fence /\ "explicit_close" \in Reasons
      BY <1>12, RegisteredType DEF Close, Idle, Reasons
    <2>2. t \in Session /\ Alike(s, t)
      BY <2>1, AcceptFenceType, LeaseAlike
    <2>3. sessions' = [sessions EXCEPT ![sid] = u]
      BY <1>12 DEF Close
    <2> HIDE DEF t
    <2>4. u \in Session /\ Alike(s, u)
      BY <2>1, <2>2, BeginCloseType, LeaseAlike DEF Alike
    <2> HIDE DEF u
    <2> QED
      BY <2>1, <2>3, <2>4, OneAlike
  <1>13. ASSUME NEW sid \in Sids, FinalizeClose(sid) PROVE BindingsTracked'
    BY <1>13, OneTracked DEF FinalizeClose
  <1>14. ASSUME CollectExpired \/ \E affected \in SUBSET Sids : CloseForRequests(affected)
         PROVE  BindingsTracked'
    <2> SUFFICES ASSUME NEW sid \in Sids, sessions'[sid] # NoSession
                 PROVE  TrackedRequests(sessions'[sid])
      BY DEF BindingsTracked, Registered
    <2>1. \/ sessions'[sid] = sessions[sid]
          \/ \E reason : sessions[sid] # NoSession /\ sessions'[sid] = BeginClose(sessions[sid], reason)
      BY <1>14 DEF CollectExpired, CloseForRequests, Expired
    <2>2. sessions[sid] # NoSession
      BY <2>1
    <2>3. Alike(sessions[sid], sessions'[sid])
      BY <2>1, <2>2, RegisteredType, LeaseAlike DEF Alike
    <2> QED
      BY <2>2, <2>3, AlikeTracked
  <1>15. ASSUME UNCHANGED sessions PROVE BindingsTracked'
    BY <1>15 DEF BindingsTracked, Registered
  <1>16. (\E sid \in Sids : DropInput(sid)) \/ Tick \/ UNCHANGED vars => UNCHANGED sessions
    BY DEF DropInput, Tick, vars
  <1> QED
    BY <1>1, <1>2, <1>3, <1>4, <1>5, <1>6, <1>7, <1>8, <1>9, <1>10, <1>11, <1>12, <1>13,
       <1>14, <1>15, <1>16 DEF Next, SessionNext

(* No bound stage request escapes the resources that a close, a cancel or  *)
(* a replica's death aborts; a stage has one binding and a request one     *)
(* resource in it, with a fence the session has accepted.                  *)
THEOREM BindingsAreTracked == Spec => []BindingsTracked
  <1>1. Init => BindingsTracked
    BY DEF Init, BindingsTracked, Registered
  <1> QED
    BY <1>1, TrackedStep, TypeCorrect, PTL DEF Spec

-----------------------------------------------------------------------------
(* The lease is busy exactly while an append is under way.                 *)

(* What most operations leave alone: the count of the lease, its end, and  *)
(* the incarnation of the session.                                         *)
Steady(s, t) ==
    /\ t.activeOps = s.activeOps
    /\ t.terminal = s.terminal
    /\ t.fence.inc = s.fence.inc

LEMMA LeaseSteady ==
    ASSUME NEW s \in Session, NEW time, NEW f \in Fence, f.inc = s.fence.inc
    PROVE  /\ Steady(s, TouchLease(s, time)) /\ Steady(s, DetachLease(s, time))
           /\ Steady(s, ResumeLease(s, time)) /\ Steady(s, AcceptFence(s, f))
  BY DEF Steady, TouchLease, DetachLease, ResumeLease, AcceptFence, Session

LEMMA RequestsSteady ==
    ASSUME NEW s \in Session, NEW stage, NEW request, NEW requests, NEW f \in Fence,
           f.inc = s.fence.inc
    PROVE  /\ Steady(s, Reserve(s, stage, request, f)) /\ Steady(s, Bind(s, stage, request, f))
           /\ Steady(s, ReleaseRequests(s, requests)) /\ Steady(s, ReleaseFence(s, f))
  <1>1. Steady(s, Reserve(s, stage, request, f))
    BY DEF Steady, Reserve, Session
  <1>2. Steady(s, Bind(s, stage, request, f))
    <2>1. AcceptFence(s, f) \in Session /\ Steady(s, AcceptFence(s, f))
      BY AcceptFenceType, LeaseSteady
    <2> QED
      BY <2>1 DEF Steady, Bind, Session
  <1>3. Steady(s, ReleaseRequests(s, requests)) /\ Steady(s, ReleaseFence(s, f))
    BY DEF Steady, ReleaseRequests, ReleaseFence, Session
  <1> QED
    BY <1>1, <1>2, <1>3

LEMMA PublishedSteady ==
    ASSUME NEW s \in Session, NEW configured \in BOOLEAN
    PROVE  Steady(s, Published(s, configured))
  BY DEF Steady, Published, TouchLease, Session

(* A step that changes the session and the append of one id.               *)
LEMMA OneLease ==
    ASSUME TypeOK, LeaseFollowsAppend, NEW x \in Sids, NEW e,
           sessions' = [sessions EXCEPT ![x] = e],
           \A sid \in Sids \ {x} : inflight'[sid] = inflight[sid],
           \/ e = NoSession
           \/ ~Live(e)
           \/ e.activeOps = IF /\ inflight'[x] # NoAppend
                               /\ inflight'[x].res.fence.inc = e.fence.inc
                            THEN {AppendOperation} ELSE {}
    PROVE  LeaseFollowsAppend'
  <1> SUFFICES ASSUME NEW sid \in Sids, sessions'[sid] # NoSession, Live(sessions'[sid])
               PROVE  (sessions[sid].activeOps = IF Holds(sid) THEN {AppendOperation} ELSE {})'
    BY DEF LeaseFollowsAppend, Registered
  <1>1. CASE sid = x
    BY <1>1 DEF Holds, TypeOK
  <1>2. CASE sid # x
    <2>1. sessions'[sid] = sessions[sid] /\ inflight'[sid] = inflight[sid]
      BY <1>2 DEF TypeOK
    <2> QED
      BY <2>1 DEF Holds, LeaseFollowsAppend, Registered
  <1> QED
    BY <1>1, <1>2

(* A step that leaves the lease and the append of the session alone.       *)
LEMMA SteadyLease ==
    ASSUME TypeOK, LeaseFollowsAppend, NEW x \in Sids, NEW e,
           sessions' = [sessions EXCEPT ![x] = e], inflight' = inflight,
           sessions[x] # NoSession, Steady(sessions[x], e)
    PROVE  LeaseFollowsAppend'
  <1>1. CASE Live(e)
    <2>1. Live(sessions[x])
      BY <1>1 DEF Steady, Live
    <2>2. e.activeOps = IF Holds(x) THEN {AppendOperation} ELSE {}
      BY <2>1 DEF Steady, LeaseFollowsAppend, Registered
    <2>3. Holds(x) <=> inflight'[x] # NoAppend /\ inflight'[x].res.fence.inc = e.fence.inc
      BY DEF Steady, Holds
    <2> QED
      BY <2>2, <2>3, OneLease
  <1>2. CASE ~Live(e)
    BY <1>2, OneLease
  <1> QED
    BY <1>1, <1>2

(* The finally clause, after whatever kept the lease steady, ends the      *)
(* operation of the append that the session held.                          *)
LEMMA EndedLease ==
    ASSUME TypeOK, LeaseFollowsAppend, NEW x \in Sids, NEW t \in Session, Holds(x),
           Steady(sessions[x], t), sessions' = [sessions EXCEPT ![x] = EndAppend(t)],
           inflight' = [inflight EXCEPT ![x] = NoAppend]
    PROVE  LeaseFollowsAppend'
  <1> DEFINE e == EndAppend(t)
  <1>1. e.terminal = t.terminal /\ e.activeOps = t.activeOps \ {AppendOperation}
    BY DEF EndAppend, EndOperation, Session
  <1>2. inflight'[x] = NoAppend /\ \A sid \in Sids \ {x} : inflight'[sid] = inflight[sid]
    BY DEF TypeOK
  <1>3. Live(e) => e.activeOps = {}
    <2> HAVE Live(e)
    <2>1. Live(sessions[x])
      BY <1>1 DEF Live, Steady
    <2>2. sessions[x].activeOps = {AppendOperation}
      BY <2>1 DEF Holds, LeaseFollowsAppend, Registered
    <2> QED
      BY <1>1, <2>2 DEF Steady
  <1> HIDE DEF e
  <1>4. ~Live(e) \/ e.activeOps = IF /\ inflight'[x] # NoAppend
                                     /\ inflight'[x].res.fence.inc = e.fence.inc
                                  THEN {AppendOperation} ELSE {}
    BY <1>2, <1>3
  <1>5. sessions' = [sessions EXCEPT ![x] = e]
    BY DEF e
  <1> QED
    BY <1>2, <1>4, <1>5, OneLease

(* A commit leaves the lease to the finally clause.                        *)
LEMMA CommitLease ==
    ASSUME TypeOK, LeaseFollowsAppend, NEW sid \in Sids, CommitInput(sid)
    PROVE  LeaseFollowsAppend'
  <1> DEFINE s == sessions[sid]
             a == inflight[sid]
             f == a.res.fence
             t == CommitAppend(s, a.res)
             u == Bind(t, EntryStage, RequestOf(f), f)
             v == RecordCompleted(u, a.op, f)
  <1>1. /\ s \in Session /\ a \in InputAppend /\ a.op \in OpIds /\ a.res \in Reservation
        /\ f \in Fence /\ f.inc = s.fence.inc /\ Holds(sid)
    BY RegisteredType, InflightType DEF CommitInput, Holds
  <1>2. EntryStage \in Stages /\ RequestOf(f) \in Request
    BY <1>1, RequestType, SessionAssumption
  <1>3. t \in Session /\ Steady(s, t)
    <2>1. AcceptFence(s, f) \in Session /\ Steady(s, AcceptFence(s, f))
      BY <1>1, AcceptFenceType, LeaseSteady
    <2>2. t \in Session
      BY <1>1, CommitAppendType
    <2> QED
      BY <2>1, <2>2 DEF CommitAppend, Steady, Session
  <1>4. sessions' = [sessions EXCEPT ![sid] = EndAppend(v)]
        /\ inflight' = [inflight EXCEPT ![sid] = NoAppend]
    BY DEF CommitInput, Commit
  <1> HIDE DEF t
  <1>5. u \in Session /\ Steady(t, u)
    <2>1. f \in Fence /\ t \in Session /\ f.inc = t.fence.inc
      BY <1>1, <1>3 DEF Steady
    <2> HIDE DEF f
    <2> QED
      BY <1>2, <2>1, ResourceTypes, RequestsSteady
  <1> HIDE DEF u
  <1>6. v \in Session
    BY <1>1, <1>5, RecordCompletedType
  <1>7. Steady(u, v)
    BY <1>5 DEF RecordCompleted, Steady, Session
  <1> HIDE DEF v
  <1>8. Steady(s, v)
    BY <1>3, <1>5, <1>7 DEF Steady
  <1> QED
    BY <1>1, <1>4, <1>6, <1>8, EndedLease

(* Every step keeps the lease with the append.                             *)
LEMMA LeaseStep == TypeOK /\ LeaseFollowsAppend /\ [Next]_vars => LeaseFollowsAppend'
  <1> SUFFICES ASSUME TypeOK, LeaseFollowsAppend, [Next]_vars PROVE LeaseFollowsAppend'
    OBVIOUS
  <1> USE SessionAssumption
  <1> now \in Nat
    BY DEF TypeOK
  <1>1. ASSUME NEW sid \in Sids, NEW f \in Fences, Open(sid, f) \/ OpenFails(sid, f)
        PROVE  LeaseFollowsAppend'
    <2>1. inflight[sid] = NoAppend /\ inflight' = inflight
      BY <1>1 DEF Open, OpenFails, Admit
    <2>2. Opened(f).activeOps = {}
      BY <1>1, NewSessionType DEF Opened, Reserve, NewSession, Session
    <2>3. ~Live(BeginClose(Opened(f), "open_rollback"))
      <3>1. Opened(f) \in Session
        BY <1>1, OpenedType
      <3> QED
        BY <3>1 DEF BeginClose, MarkTerminal, Live, Session
    <2>4. CASE sessions' = [sessions EXCEPT ![sid] = Opened(f)]
      BY <2>1, <2>2, <2>4, OneLease
    <2>5. CASE sessions' = [sessions EXCEPT ![sid] = BeginClose(Opened(f), "open_rollback")]
      BY <2>1, <2>3, <2>5, OneLease
    <2> QED
      BY <1>1, <2>4, <2>5 DEF Open, OpenFails
  <1>2. ASSUME NEW sid \in Sids, NEW f \in Fences, NEW op \in OpIds, BeginAppend(sid, op, f)
        PROVE  LeaseFollowsAppend'
    <2> DEFINE s == sessions[sid]
               t == BeginOperation(s, AppendOperation, now)
               u == Reserve(t, EntryStage, RequestOf(f), f)
    <2>1. /\ s \in Session /\ s # NoSession /\ f \in Fence /\ f.inc = s.fence.inc
          /\ Live(s) /\ inflight[sid] = NoAppend
      BY <1>2, RegisteredType DEF BeginAppend, Idle, ValidFence
    <2>2. s.activeOps = {}
      BY <2>1 DEF LeaseFollowsAppend, Registered, Holds
    <2>3. t \in Session /\ t.fence.inc = f.inc /\ t.activeOps = {AppendOperation}
      BY <2>1, <2>2, OperationTypes DEF BeginOperation, AppendOperation, Session
    <2>4. /\ sessions' = [sessions EXCEPT ![sid] = u]
          /\ inflight' = [inflight EXCEPT ![sid] = [op |-> op, res |-> PrepareAppend(s, f)]]
      BY <1>2 DEF BeginAppend
    <2> HIDE DEF t
    <2>5. u.activeOps = {AppendOperation} /\ u.fence.inc = f.inc
      BY <2>3, RequestsSteady, <2>1 DEF Steady
    <2>6. inflight'[sid] # NoAppend /\ inflight'[sid].res.fence = f
      <3>1. PrepareAppend(s, f) \in Reservation /\ PrepareAppend(s, f).fence = f
        BY <2>1, PrepareAppendType DEF PrepareAppend
      <3>2. [op |-> op, res |-> PrepareAppend(s, f)] \in InputAppend
        BY <3>1 DEF InputAppend
      <3> QED
        BY <2>4, <3>1, <3>2, AppendAssumption DEF TypeOK
    <2>7. \A x \in Sids \ {sid} : inflight'[x] = inflight[x]
      BY <2>4 DEF TypeOK
    <2> HIDE DEF u
    <2> QED
      BY <2>4, <2>5, <2>6, <2>7, OneLease
  <1>3. ASSUME NEW sid \in Sids, NEW f \in Fences, NEW op \in OpIds, RetryAppend(sid, op, f)
        PROVE  LeaseFollowsAppend'
    BY <1>3, RegisteredType, LeaseSteady, SteadyLease DEF RetryAppend, Idle, ValidFence
  <1>4. ASSUME NEW sid \in Sids, CommitInput(sid) PROVE LeaseFollowsAppend'
    BY <1>4, CommitLease
  <1>5. ASSUME NEW sid \in Sids, CompensateInput(sid) PROVE LeaseFollowsAppend'
    <2> DEFINE s == sessions[sid]
               t == ReleaseRequests(s, {RequestOf(inflight[sid].res.fence)})
    <2>1. /\ Holds(sid) /\ s \in Session /\ s.fence \in Fence
          /\ sessions' = [sessions EXCEPT ![sid] = EndAppend(t)]
          /\ inflight' = [inflight EXCEPT ![sid] = NoAppend]
      BY <1>5, RegisteredType DEF CompensateInput, Holds, Session
    <2>2. t \in Session /\ Steady(s, t)
      BY <2>1, ReleaseTypes, RequestsSteady
    <2> HIDE DEF t
    <2> QED
      BY <2>1, <2>2, EndedLease
  <1>6. ASSUME NEW sid \in Sids, FailInput(sid) PROVE LeaseFollowsAppend'
    <2>1. /\ Holds(sid) /\ sessions[sid] \in Session /\ Steady(sessions[sid], sessions[sid])
          /\ sessions' = [sessions EXCEPT ![sid] = EndAppend(sessions[sid])]
          /\ inflight' = [inflight EXCEPT ![sid] = NoAppend]
      BY <1>6, RegisteredType DEF FailInput, Holds, Steady
    <2> QED
      BY <2>1, EndedLease
  <1>7. ASSUME NEW sid \in Sids, NEW stage \in Stages, NEW f \in identity[sid],
               DownstreamBind(sid, stage, f)
        PROVE  LeaseFollowsAppend'
    <2> DEFINE s == sessions[sid]
               t == Reserve(s, stage, RequestOf(f), f)
               u == Bind(t, stage, RequestOf(f), f)
    <2>1. /\ s \in Session /\ s # NoSession /\ f \in Fence /\ f.inc = s.fence.inc
          /\ RequestOf(f) \in Request
      BY <1>7, RegisteredType, RequestType DEF DownstreamBind, CanReserve, ValidFence, TypeOK
    <2>2. t \in Session /\ Steady(s, t)
      BY <2>1, ResourceTypes, RequestsSteady
    <2>3. sessions' = [sessions EXCEPT ![sid] = u] /\ inflight' = inflight
      BY <1>7 DEF DownstreamBind
    <2> HIDE DEF t
    <2>4. Steady(s, u)
      BY <2>1, <2>2, RequestsSteady DEF Steady
    <2> HIDE DEF u
    <2> QED
      BY <2>1, <2>3, <2>4, SteadyLease
  <1>8. ASSUME NEW sid \in Sids, NEW f \in Fences, NEW next \in Fences,
               NEW configured \in BOOLEAN, Cancel(sid, f, next, configured)
        PROVE  LeaseFollowsAppend'
    <2> DEFINE s == sessions[sid]
               t == PrepareCancel(s, next)
               u == ReleaseFence(t, f)
               e == Published(u, configured)
    <2>1. /\ s \in Session /\ s # NoSession /\ next \in Fence /\ f \in Fence
          /\ next.inc = s.fence.inc /\ f.inc = s.fence.inc
      BY <1>8, RegisteredType DEF Cancel, Idle, CanCancel
    <2>2. t \in Session /\ Steady(s, t)
      BY <2>1, PrepareCancelType, LeaseSteady DEF PrepareCancel, Steady
    <2>3. sessions' = [sessions EXCEPT ![sid] = e] /\ inflight' = inflight
      BY <1>8 DEF Cancel
    <2> HIDE DEF t
    <2>4. u \in Session /\ Steady(t, u)
      BY <2>1, <2>2, ReleaseTypes, RequestsSteady DEF Steady
    <2> HIDE DEF u
    <2>5. Steady(s, e)
      BY <2>2, <2>4, PublishedSteady DEF Steady
    <2> HIDE DEF e
    <2> QED
      BY <2>1, <2>3, <2>5, SteadyLease
  <1>9. ASSUME NEW sid \in Sids, NEW f \in Fences, NEW configured \in BOOLEAN,
               Update(sid, f, configured)
        PROVE  LeaseFollowsAppend'
    <2> DEFINE s == sessions[sid]
               t == AcceptFence(s, f)
               e == Published(t, configured)
    <2>1. s \in Session /\ s # NoSession /\ f \in Fence /\ f.inc = s.fence.inc
      BY <1>9, RegisteredType DEF Update, Idle, ValidFence
    <2>2. t \in Session /\ Steady(s, t)
      BY <2>1, AcceptFenceType, LeaseSteady
    <2>3. sessions' = [sessions EXCEPT ![sid] = e] /\ inflight' = inflight
      BY <1>9 DEF Update
    <2> HIDE DEF t
    <2>4. Steady(s, e)
      BY <2>2, PublishedSteady DEF Steady
    <2> HIDE DEF e
    <2> QED
      BY <2>1, <2>3, <2>4, SteadyLease
  <1>10. ASSUME NEW sid \in Sids, NEW f \in Fences,
                \/ Touch(sid, f) \/ Detach(sid, f)
                \/ \E generation \in 0 .. MaxGeneration : Resume(sid, f, generation)
         PROVE  LeaseFollowsAppend'
    BY <1>10, RegisteredType, LeaseSteady, SteadyLease
       DEF Touch, Detach, Resume, Idle, ValidFence
  <1>11. ASSUME NEW sid \in Sids, NEW f \in Fences, Close(sid, f) PROVE LeaseFollowsAppend'
    <2>1. /\ sessions[sid] \in Session /\ inflight' = inflight
          /\ sessions' = [sessions EXCEPT ![sid] =
                            BeginClose(AcceptFence(sessions[sid], f), "explicit_close")]
      BY <1>11, RegisteredType DEF Close, Idle
    <2>2. AcceptFence(sessions[sid], f) \in Session
      BY <2>1, AcceptFenceType
    <2>3. ~Live(BeginClose(AcceptFence(sessions[sid], f), "explicit_close"))
      BY <2>2 DEF BeginClose, MarkTerminal, Live, Session
    <2> QED
      BY <2>1, <2>3, OneLease
  <1>12. ASSUME NEW sid \in Sids, FinalizeClose(sid) PROVE LeaseFollowsAppend'
    BY <1>12, OneLease DEF FinalizeClose
  <1>13. ASSUME CollectExpired \/ \E affected \in SUBSET Sids : CloseForRequests(affected)
         PROVE  LeaseFollowsAppend'
    <2> SUFFICES ASSUME NEW sid \in Sids, sessions'[sid] # NoSession, Live(sessions'[sid])
                 PROVE  (sessions[sid].activeOps =
                            IF Holds(sid) THEN {AppendOperation} ELSE {})'
      BY DEF LeaseFollowsAppend, Registered
    <2>1. inflight' = inflight
      BY <1>13 DEF CollectExpired, CloseForRequests
    <2>2. \/ sessions'[sid] = sessions[sid]
          \/ \E reason \in Reasons :
                sessions[sid] # NoSession /\ sessions'[sid] = BeginClose(sessions[sid], reason)
      BY <1>13 DEF CollectExpired, CloseForRequests, Expired, ExpiryReason, Reasons
    <2>3. ASSUME NEW reason \in Reasons, sessions[sid] # NoSession
          PROVE  ~Live(BeginClose(sessions[sid], reason))
      BY <2>3, RegisteredType DEF BeginClose, MarkTerminal, Live, Session, Reasons
    <2>4. sessions'[sid] = sessions[sid]
      BY <2>2, <2>3
    <2> QED
      BY <2>1, <2>4 DEF Holds, LeaseFollowsAppend, Registered
  <1>14. ASSUME NEW sid \in Sids, DropInput(sid) PROVE LeaseFollowsAppend'
    BY <1>14 DEF DropInput, Holds, LeaseFollowsAppend, Registered, TypeOK
  <1>15. ASSUME Tick \/ UNCHANGED vars PROVE LeaseFollowsAppend'
    BY <1>15 DEF Tick, vars, Holds, LeaseFollowsAppend, Registered
  <1> QED
    BY <1>1, <1>2, <1>3, <1>4, <1>5, <1>6, <1>7, <1>8, <1>9, <1>10, <1>11, <1>12, <1>13,
       <1>14, <1>15 DEF Next, SessionNext

(* An append that awaits its submission keeps its session from idling out, *)
(* and one that has ended, however it ended, no longer does.               *)
THEOREM LeaseFollows == Spec => []LeaseFollowsAppend
  <1>1. Init => LeaseFollowsAppend
    BY DEF Init, LeaseFollowsAppend, Registered
  <1> QED
    BY <1>1, LeaseStep, TypeCorrect, PTL DEF Spec

-----------------------------------------------------------------------------
(* What a session has taken in: its counters and its cache.                *)

(* The counters and the cache are those of the epoch, or of a new epoch.   *)
InputKept(s, t) ==
    /\ t.fence.inc = s.fence.inc
    /\ \/ /\ t.fence.epoch = s.fence.epoch
          /\ t.inputSeq = s.inputSeq /\ t.turnSeq = s.turnSeq
          /\ t.turnKey = s.turnKey /\ t.completed = s.completed
       \/ /\ t.fence.epoch > s.fence.epoch
          /\ t.inputSeq = 0 /\ t.turnSeq = 0
          /\ t.turnKey = NoFence /\ t.completed = {}

(* The operation does not touch them.                                      *)
SameInput(s, t) ==
    /\ t.fence = s.fence
    /\ t.inputSeq = s.inputSeq /\ t.turnSeq = s.turnSeq
    /\ t.turnKey = s.turnKey /\ t.completed = s.completed

(* A handler keeps the input if its calls do.                              *)
LEMMA InputKeptTransitive ==
    ASSUME NEW s \in Session, NEW t \in Session, NEW u \in Session
    PROVE  /\ InputKept(s, t) /\ InputKept(t, u) => InputKept(s, u)
           /\ InputKept(s, t) /\ SameInput(t, u) => InputKept(s, u)
           /\ SameInput(s, t) /\ InputKept(t, u) => InputKept(s, u)
           /\ SameInput(s, t) => InputKept(s, t)
  <1>1. s.fence.epoch \in Nat /\ t.fence.epoch \in Nat /\ u.fence.epoch \in Nat
    BY DEF Session, Fence
  <1> QED
    BY <1>1 DEF InputKept, SameInput

(* A change of epoch, and nothing else, resets the input.                  *)
LEMMA AcceptFenceInput ==
    ASSUME NEW s \in Session, NEW f \in Fence, ValidFence(s, f)
    PROVE  InputKept(s, AcceptFence(s, f))
  <1>1. s.fence \in Fence
    BY DEF Session
  <1>2. f.inc = s.fence.inc /\ (f.epoch = s.fence.epoch \/ f.epoch > s.fence.epoch)
    BY <1>1 DEF ValidFence, NotBehind
  <1>3. CASE f.epoch = s.fence.epoch
    BY <1>2, <1>3 DEF AcceptFence, InputKept, Session
  <1>4. CASE f.epoch # s.fence.epoch
    BY <1>2, <1>4 DEF AcceptFence, InputKept, Session
  <1> QED
    BY <1>3, <1>4

(* Neither the lease nor the resources are input.                          *)
LEMMA LeaseInput ==
    ASSUME NEW s \in Session, NEW t, NEW c, NEW reason
    PROVE  /\ SameInput(s, TouchLease(s, t))
           /\ SameInput(s, DetachLease(s, t))
           /\ SameInput(s, ResumeLease(s, t))
           /\ SameInput(s, BeginOperation(s, c, t))
           /\ SameInput(s, EndOperation(s, c, t))
           /\ SameInput(s, BeginClose(s, reason))
  BY DEF TouchLease, DetachLease, ResumeLease, BeginOperation, EndOperation, BeginClose,
         MarkTerminal, SameInput, Session

LEMMA ResourceInput ==
    ASSUME NEW s \in Session, NEW stage, NEW request, NEW f, NEW requests
    PROVE  /\ SameInput(s, Reserve(s, stage, request, f))
           /\ SameInput(s, ReleaseRequests(s, requests))
           /\ SameInput(s, ReleaseFence(s, f))
  BY DEF Reserve, ReleaseRequests, ReleaseFence, SameInput, Session

(* The end of a signal and the finally clause of an append touch the lease *)
(* and the configuration only.                                             *)
LEMMA EndInput ==
    ASSUME NEW s \in Session, NEW configured \in BOOLEAN
    PROVE  SameInput(s, EndAppend(s)) /\ SameInput(s, Published(s, configured))
  <1>1. SameInput(s, EndAppend(s))
    BY LeaseInput DEF EndAppend, SameInput
  <1> DEFINE t == IF configured THEN [s EXCEPT !.configGen = @ + 1] ELSE s
  <1>2. t \in Session /\ SameInput(s, t)
    BY DEF Session, SameInput
  <1> HIDE DEF t
  <1>3. SameInput(s, IF Live(t) THEN TouchLease(t, now) ELSE t)
    BY <1>2, LeaseInput DEF SameInput
  <1> QED
    BY <1>1, <1>3 DEF Published, t

(* bind_stage_request accepts the fence of the binding.                    *)
LEMMA BindInput ==
    ASSUME NEW s \in Session, NEW stage \in Stages, NEW f \in Fence
    PROVE  LET t == Bind(s, stage, RequestOf(f), f)
           IN  SameInput(AcceptFence(s, f), t)
  <1>1. AcceptFence(s, f) \in Session
    BY AcceptFenceType
  <1> DEFINE t == AcceptFence(s, f)
  <1> HIDE DEF t
  <1> QED
    BY <1>1 DEF Bind, SameInput, Session, t

(* A cancel accepts the next fence, if it is ahead.                        *)
LEMMA PrepareCancelInput ==
    ASSUME NEW s \in Session, NEW f \in Fence, NEW next \in Fence, CanCancel(s, f, next)
    PROVE  InputKept(s, PrepareCancel(s, next))
  <1>1. CASE KeyLess(s.fence, next)
    BY <1>1, AcceptFenceInput DEF PrepareCancel, CanCancel
  <1>2. CASE ~KeyLess(s.fence, next)
    BY <1>2 DEF PrepareCancel, InputKept
  <1> QED
    BY <1>1, <1>2

(* What the commit of an append leaves in the session.                     *)
LEMMA CommitInputs ==
    ASSUME TypeOK, NEW s \in Session, NEW a \in InputAppend
    PROVE  LET f == a.res.fence
               t == Commit(s, a)
               old == IF f.epoch = s.fence.epoch THEN s.completed ELSE {}
           IN  /\ t.fence = f
               /\ t.inputSeq = a.res.seq
               /\ t.turnSeq = a.res.turnSeq
               /\ t.turnKey = f
               /\ t.completed = Evict({c \in old : c.op # a.op} \cup
                                       {[op |-> a.op, fence |-> f, stamp |-> a.res.seq]})
  <1> DEFINE f == a.res.fence
             old == IF f.epoch = s.fence.epoch THEN s.completed ELSE {}
             t == CommitAppend(s, a.res)
             u == Bind(t, EntryStage, RequestOf(f), f)
             v == RecordCompleted(u, a.op, f)
             w == EndAppend(v)
             Taken(x) == /\ x.fence = f /\ x.inputSeq = a.res.seq
                         /\ x.turnSeq = a.res.turnSeq /\ x.turnKey = f
  <1>1. a.op \in OpIds /\ a.res \in Reservation /\ f \in Fence /\ EntryStage \in Stages
    BY SessionAssumption DEF InputAppend, Reservation
  <1>2. t \in Session /\ Taken(t) /\ t.completed = old
    <2>1. AcceptFence(s, f) \in Session
      BY <1>1, AcceptFenceType
    <2>2. AcceptFence(s, f).fence = f /\ AcceptFence(s, f).completed = old
      BY DEF AcceptFence, Session
    <2>3. t \in Session
      BY <1>1, CommitAppendType
    <2> QED
      BY <2>1, <2>2, <2>3 DEF CommitAppend, Session
  <1>3. AcceptFence(t, f) = t
    BY <1>2 DEF AcceptFence, Session
  <1> HIDE DEF t
  <1>4. u \in Session /\ Taken(u) /\ u.completed = old
    <2>1. u \in Session
      BY <1>1, <1>2, RequestType, ResourceTypes
    <2> QED
      BY <1>1, <1>2, <1>3, <2>1, BindInput DEF SameInput
  <1> HIDE DEF u, old
  <1>5. /\ v \in Session /\ Taken(v)
        /\ v.completed = Evict({c \in old : c.op # a.op} \cup
                               {[op |-> a.op, fence |-> f, stamp |-> a.res.seq]})
    <2>1. v \in Session
      BY <1>1, <1>4, RecordCompletedType
    <2> QED
      BY <1>4, <2>1 DEF RecordCompleted, Session
  <1> HIDE DEF v
  <1>6. Taken(w) /\ w.completed = v.completed
    BY <1>5, EndInput DEF SameInput
  <1>7. Commit(s, a) = w
    BY DEF Commit, w, v, u, t
  <1> QED
    BY <1>5, <1>6, <1>7 DEF old

-----------------------------------------------------------------------------
(* Steps that keep the input.                                              *)

(* Every registered session keeps its input.                               *)
InputsKept ==
    \A sid \in Sids : sessions[sid] # NoSession /\ sessions'[sid] # NoSession
                         => InputKept(sessions[sid], sessions'[sid])

(* An append comes under way by its reservation only, and only if the      *)
(* cache does not hold its operation.                                      *)
InflightKept ==
    \A sid \in Sids : inflight'[sid] # NoAppend =>
        \/ inflight'[sid] = inflight[sid]
        \/ /\ sessions[sid] # NoSession
           /\ CompletedEntries(sessions[sid], inflight'[sid].op) = {}
           /\ \E f \in Fences : inflight'[sid].res = PrepareAppend(sessions[sid], f)

(* What a step does that neither registers a session nor commits an append. *)
Quiescent ==
    /\ log' = log /\ nextInc' = nextInc
    /\ \A sid \in Sids : sessions[sid] = NoSession => sessions'[sid] = NoSession
    /\ InputsKept /\ InflightKept

(* A step on one session keeps the input if its handler does.              *)
LEMMA OneInput ==
    ASSUME TypeOK, NEW x \in Sids, NEW e, sessions' = [sessions EXCEPT ![x] = e],
           sessions[x] # NoSession,
           \/ e = NoSession
           \/ InputKept(sessions[x], e)
           \/ SameInput(sessions[x], e) /\ e \in Session,
           \/ inflight' = inflight
           \/ inflight' = [inflight EXCEPT ![x] = NoAppend],
           UNCHANGED <<nextInc, log>>
    PROVE  Quiescent
  <1>1. InputKept(sessions[x], e) \/ e = NoSession
    BY RegisteredType, InputKeptTransitive
  <1>2. InputsKept
    <2> SUFFICES ASSUME NEW sid \in Sids, sessions[sid] # NoSession, sessions'[sid] # NoSession
                 PROVE  InputKept(sessions[sid], sessions'[sid])
      BY DEF InputsKept
    <2>1. InputKept(sessions[sid], sessions[sid])
      BY DEF InputKept
    <2> QED
      BY <1>1, <2>1 DEF TypeOK
  <1>3. InflightKept
    BY DEF InflightKept, TypeOK
  <1> QED
    BY <1>2, <1>3 DEF Quiescent, TypeOK

(* A begin_close of some sessions keeps the input of all.                  *)
LEMMA ClosedInput ==
    ASSUME TypeOK,
           \A sid \in Sids : \/ sessions'[sid] = sessions[sid]
                             \/ /\ sessions[sid] # NoSession
                                /\ \E reason \in Reasons :
                                      sessions'[sid] = BeginClose(sessions[sid], reason),
           UNCHANGED <<inflight, nextInc, log>>
    PROVE  Quiescent
  <1>1. InputsKept
    <2> SUFFICES ASSUME NEW sid \in Sids, sessions[sid] # NoSession, sessions'[sid] # NoSession
                 PROVE  InputKept(sessions[sid], sessions'[sid])
      BY DEF InputsKept
    <2>1. InputKept(sessions[sid], sessions[sid])
      BY DEF InputKept
    <2>2. ASSUME NEW reason \in Reasons
          PROVE  InputKept(sessions[sid], BeginClose(sessions[sid], reason))
      BY RegisteredType, LeaseInput, BeginCloseType, InputKeptTransitive
    <2> QED
      BY <2>1, <2>2
  <1>2. \A sid \in Sids : sessions[sid] = NoSession => sessions'[sid] = NoSession
    OBVIOUS
  <1> QED
    BY <1>1, <1>2 DEF Quiescent, InflightKept

(* The steps that open no session and commit no append are quiescent.      *)
LEMMA BeginAppendQuiescent ==
    ASSUME TypeOK, NEW x \in Sids, NEW f \in Fences, NEW op \in OpIds, BeginAppend(x, op, f)
    PROVE  Quiescent
  <1> DEFINE s == sessions[x]
             t == BeginOperation(s, AppendOperation, now)
             u == Reserve(t, EntryStage, RequestOf(f), f)
  <1>1. /\ s \in Session /\ f \in Fence /\ now \in Nat /\ AppendOperation \in Nat
        /\ EntryStage \in Stages
    BY RegisteredType, SessionAssumption DEF BeginAppend, Idle, AppendOperation, TypeOK
  <1>2. t \in Session /\ SameInput(s, t)
    BY <1>1, OperationTypes, LeaseInput
  <1>3. RequestOf(f) \in Request
    BY <1>1, RequestType
  <1>4. sessions' = [sessions EXCEPT ![x] = u] /\ sessions[x] # NoSession
    BY DEF BeginAppend, Idle
  <1> HIDE DEF t
  <1>5. u \in Session /\ SameInput(t, u)
    BY <1>1, <1>2, <1>3, ResourceTypes, ResourceInput
  <1> HIDE DEF u
  <1>6. SameInput(s, u)
    BY <1>2, <1>5 DEF SameInput
  <1>7. InputsKept
    <2> SUFFICES ASSUME NEW sid \in Sids, sessions[sid] # NoSession, sessions'[sid] # NoSession
                 PROVE  InputKept(sessions[sid], sessions'[sid])
      BY DEF InputsKept
    <2>1. InputKept(sessions[sid], sessions[sid])
      BY DEF InputKept
    <2>2. InputKept(s, u)
      BY <1>6 DEF InputKept, SameInput
    <2> QED
      BY <1>4, <2>1, <2>2 DEF TypeOK
  <1>8. /\ inflight' = [inflight EXCEPT ![x] = [op |-> op, res |-> PrepareAppend(s, f)]]
        /\ CompletedEntries(s, op) = {}
        /\ log' = log /\ nextInc' = nextInc
    BY DEF BeginAppend
  <1>9. InflightKept
    <2> SUFFICES ASSUME NEW sid \in Sids, inflight'[sid] # inflight[sid]
                 PROVE  /\ sessions[sid] # NoSession
                        /\ CompletedEntries(sessions[sid], inflight'[sid].op) = {}
                        /\ \E g \in Fences : inflight'[sid].res = PrepareAppend(sessions[sid], g)
      BY DEF InflightKept
    <2>1. sid = x
      BY <1>8 DEF TypeOK
    <2>2. inflight'[sid] = [op |-> op, res |-> PrepareAppend(s, f)]
      BY <1>8, <2>1 DEF TypeOK
    <2> QED
      BY <1>4, <1>8, <2>1, <2>2
  <1> QED
    BY <1>4, <1>7, <1>8, <1>9 DEF Quiescent, TypeOK

LEMMA OtherQuiescent ==
    ASSUME TypeOK, NEW x \in Sids, OtherStep(x)
    PROVE  Quiescent
  <1> USE SessionAssumption
  <1> now \in Nat
    BY DEF TypeOK
  <1> DEFINE s == sessions[x]
  <1>1. ASSUME NEW f \in Fences, NEW op \in OpIds, RetryAppend(x, op, f) PROVE Quiescent
    BY <1>1, RegisteredType, LeaseInput, LeaseTypes, OneInput DEF RetryAppend, Idle
  <1>2. ASSUME NEW f \in Fences, NEW configured \in BOOLEAN, Update(x, f, configured)
        PROVE  Quiescent
    <2> DEFINE t == AcceptFence(s, f)
               u == Published(t, configured)
    <2>1. s \in Session /\ f \in Fence /\ ValidFence(s, f)
      BY <1>2, RegisteredType DEF Update, Idle
    <2>2. t \in Session /\ InputKept(s, t)
      BY <2>1, AcceptFenceType, AcceptFenceInput
    <2>3. /\ sessions' = [sessions EXCEPT ![x] = u] /\ sessions[x] # NoSession
          /\ UNCHANGED <<inflight, nextInc, log>>
      BY <1>2 DEF Update, Idle
    <2> HIDE DEF t
    <2>4. u \in Session /\ SameInput(t, u)
      BY <2>2, PublishedType, EndInput
    <2> HIDE DEF u
    <2>5. InputKept(s, u)
      BY <2>1, <2>2, <2>4, InputKeptTransitive
    <2> QED
      BY <2>3, <2>5, OneInput
  <1>3. ASSUME NEW f \in Fences, Touch(x, f) PROVE Quiescent
    BY <1>3, RegisteredType, LeaseInput, LeaseTypes, OneInput DEF Touch
  <1>4. ASSUME NEW f \in Fences, Detach(x, f) PROVE Quiescent
    BY <1>4, RegisteredType, LeaseInput, LeaseTypes, OneInput DEF Detach, Idle
  <1>5. ASSUME NEW f \in Fences, NEW generation \in 0 .. MaxGeneration, Resume(x, f, generation)
        PROVE  Quiescent
    BY <1>5, RegisteredType, LeaseInput, LeaseTypes, OneInput DEF Resume, Idle
  <1>6. ASSUME NEW f \in Fences, Close(x, f) PROVE Quiescent
    <2> DEFINE t == AcceptFence(s, f)
               u == BeginClose(t, "explicit_close")
    <2>1. s \in Session /\ f \in Fence /\ ValidFence(s, f) /\ "explicit_close" \in Reasons
      BY <1>6, RegisteredType DEF Close, Idle, Reasons
    <2>2. t \in Session /\ InputKept(s, t)
      BY <2>1, AcceptFenceType, AcceptFenceInput
    <2>3. /\ sessions' = [sessions EXCEPT ![x] = u] /\ sessions[x] # NoSession
          /\ UNCHANGED <<inflight, nextInc, log>>
      BY <1>6 DEF Close, Idle
    <2> HIDE DEF t
    <2>4. u \in Session /\ SameInput(t, u)
      BY <2>1, <2>2, BeginCloseType, LeaseInput
    <2> HIDE DEF u
    <2>5. InputKept(s, u)
      BY <2>1, <2>2, <2>4, InputKeptTransitive
    <2> QED
      BY <2>3, <2>5, OneInput
  <1>7. ASSUME NEW f \in identity[x], NEW stage \in Stages, DownstreamBind(x, stage, f)
        PROVE  Quiescent
    <2> DEFINE t == Reserve(s, stage, RequestOf(f), f)
               u == AcceptFence(t, f)
               v == Bind(t, stage, RequestOf(f), f)
    <2>1. s \in Session /\ f \in Fence /\ ValidFence(s, f)
      BY <1>7, RegisteredType DEF DownstreamBind, TypeOK, CanReserve
    <2>2. RequestOf(f) \in Request
      BY <2>1, RequestType
    <2>3. t \in Session /\ SameInput(s, t)
      BY <2>1, <2>2, ResourceTypes, ResourceInput
    <2>4. /\ sessions' = [sessions EXCEPT ![x] = v] /\ sessions[x] # NoSession
          /\ UNCHANGED <<inflight, nextInc, log>>
      BY <1>7 DEF DownstreamBind
    <2> HIDE DEF t
    <2>5. ValidFence(t, f)
      BY <2>1, <2>3 DEF ValidFence, SameInput
    <2>6. u \in Session /\ InputKept(t, u)
      BY <2>1, <2>3, <2>5, AcceptFenceType, AcceptFenceInput
    <2>7. v \in Session /\ SameInput(u, v)
      BY <2>1, <2>2, <2>3, ResourceTypes, BindInput
    <2> HIDE DEF u, v
    <2>8. InputKept(t, v)
      BY <2>3, <2>6, <2>7, InputKeptTransitive
    <2>9. InputKept(s, v)
      BY <2>1, <2>3, <2>7, <2>8, InputKeptTransitive
    <2> QED
      BY <2>4, <2>9, OneInput
  <1>8. ASSUME CompensateInput(x) PROVE Quiescent
    <2> DEFINE t == ReleaseRequests(s, {RequestOf(inflight[x].res.fence)})
               u == EndAppend(t)
    <2>1. s \in Session
      BY <1>8, RegisteredType DEF CompensateInput, Holds
    <2>2. t \in Session /\ SameInput(s, t)
      BY <2>1, ReleaseTypes, ResourceInput
    <2>3. /\ sessions' = [sessions EXCEPT ![x] = u] /\ sessions[x] # NoSession
          /\ inflight' = [inflight EXCEPT ![x] = NoAppend]
          /\ UNCHANGED <<nextInc, log>>
      BY <1>8 DEF CompensateInput, Holds
    <2> HIDE DEF t
    <2>4. u \in Session /\ SameInput(t, u)
      BY <2>2, EndAppendType, EndInput
    <2> HIDE DEF u
    <2>5. SameInput(s, u)
      BY <2>2, <2>4 DEF SameInput
    <2> QED
      BY <2>3, <2>4, <2>5, OneInput
  <1>9. ASSUME FailInput(x) PROVE Quiescent
    BY <1>9, RegisteredType, EndAppendType, EndInput, OneInput DEF FailInput, Holds
  <1>10. ASSUME DropInput(x) PROVE Quiescent
    <2>1. /\ sessions' = sessions /\ inflight' = [inflight EXCEPT ![x] = NoAppend]
          /\ log' = log /\ nextInc' = nextInc
      BY <1>10 DEF DropInput
    <2> QED
      BY <2>1 DEF Quiescent, InputsKept, InputKept, InflightKept, TypeOK
  <1>11. ASSUME FinalizeClose(x) PROVE Quiescent
    BY <1>11, OneInput DEF FinalizeClose
  <1>12. ASSUME NEW f \in Fences, NEW op \in OpIds, BeginAppend(x, op, f) PROVE Quiescent
    BY <1>12, BeginAppendQuiescent
  <1> QED
    BY <1>1, <1>2, <1>3, <1>4, <1>5, <1>6, <1>7, <1>8, <1>9, <1>10, <1>11, <1>12 DEF OtherStep

LEMMA SharedQuiescent ==
    ASSUME TypeOK,
           CollectExpired \/ (\E affected \in SUBSET Sids : CloseForRequests(affected)) \/ Tick
    PROVE  Quiescent
  <1>1. ASSUME CollectExpired PROVE Quiescent
    <2>1. \A sid \in Sids : ExpiryReason(sessions[sid]) \in Reasons
      BY DEF ExpiryReason, Reasons
    <2> QED
      BY <1>1, <2>1, ClosedInput DEF CollectExpired, Expired
  <1>2. ASSUME NEW affected \in SUBSET Sids, CloseForRequests(affected) PROVE Quiescent
    <2>1. "request_cleanup" \in Reasons
      BY DEF Reasons
    <2> QED
      BY <1>2, <2>1, ClosedInput DEF CloseForRequests
  <1>3. ASSUME Tick PROVE Quiescent
    BY <1>3 DEF Tick, Quiescent, InputsKept, InputKept, InflightKept
  <1> QED
    BY <1>1, <1>2, <1>3

LEMMA CancelQuiescent ==
    ASSUME TypeOK, NEW x \in Sids, NEW f \in Fences, NEW next \in Fences,
           NEW configured \in BOOLEAN, Cancel(x, f, next, configured)
    PROVE  Quiescent
  <1> USE SessionAssumption
  <1> DEFINE s == sessions[x]
             t == PrepareCancel(s, next)
             u == ReleaseFence(t, f)
             v == Published(u, configured)
  <1>1. s \in Session /\ f \in Fence /\ next \in Fence /\ CanCancel(s, f, next)
    BY RegisteredType DEF Cancel, Idle
  <1>2. t \in Session /\ InputKept(s, t)
    BY <1>1, PrepareCancelType, PrepareCancelInput
  <1>3. /\ sessions' = [sessions EXCEPT ![x] = v] /\ sessions[x] # NoSession
        /\ UNCHANGED <<inflight, nextInc, log>>
    BY DEF Cancel, Idle
  <1> HIDE DEF t
  <1>4. u \in Session /\ SameInput(t, u)
    BY <1>2, ReleaseTypes, ResourceInput
  <1> HIDE DEF u
  <1>5. v \in Session /\ SameInput(u, v)
    BY <1>4, PublishedType, EndInput
  <1> HIDE DEF v
  <1>6. SameInput(t, v)
    BY <1>4, <1>5 DEF SameInput
  <1>7. InputKept(s, v)
    BY <1>1, <1>2, <1>5, <1>6, InputKeptTransitive
  <1> QED
    BY <1>3, <1>7, OneInput

(* Every step is quiescent, an open or a commit.                           *)
LEMMA StepInputs ==
    ASSUME TypeOK, Next
    PROVE  \/ Quiescent
           \/ \E x \in Sids, f \in Fences : Open(x, f) \/ OpenFails(x, f)
           \/ \E x \in Sids : CommitInput(x)
  BY StepKinds, OtherQuiescent, SharedQuiescent, CancelQuiescent

-----------------------------------------------------------------------------
(* The inductive invariants.                                               *)

(* What an epoch of a registered session has committed.                    *)
EpochLog(sid) ==
    {e \in log : /\ e.sid = sid
                 /\ e.inc = sessions[sid].fence.inc
                 /\ e.epoch = sessions[sid].fence.epoch}

(* The counters of a session are those of its last append of the epoch E.  *)
Counted(s, E) ==
    /\ \A e \in E : 1 <= e.seq /\ e.seq <= s.inputSeq
    /\ s.inputSeq = 0 => s.turnKey = NoFence
    /\ s.inputSeq > 0 => \E e \in E :
          /\ e.seq = s.inputSeq
          /\ e.turnSeq = s.turnSeq
          /\ s.turnKey = [inc |-> e.inc, epoch |-> e.epoch, turn |-> e.turn, resp |-> e.resp]

(* No append is logged of an incarnation or an epoch that is still to come.*)
LogBehind ==
    /\ \A e \in log : e.inc < nextInc[e.sid]
    /\ \A sid \in Sids : sessions[sid] # NoSession =>
          /\ sessions[sid].fence.inc < nextInc[sid]
          /\ \A e \in log : e.sid = sid /\ e.inc = sessions[sid].fence.inc
                               => e.epoch <= sessions[sid].fence.epoch

CountersOK == \A sid \in Sids : sessions[sid] # NoSession => Counted(sessions[sid], EpochLog(sid))

(* A reservation is numbered from the state it was computed from.          *)
FromBase(r) ==
    LET fresh == r.fence.epoch # r.baseFence.epoch
    IN  /\ r.seq = IF fresh THEN 1 ELSE r.baseSeq + 1
        /\ r.turnSeq = IF ~fresh /\ r.baseKey = r.fence THEN r.baseTurnSeq + 1 ELSE 1

ReservedOK == \A sid \in Sids : inflight[sid] # NoAppend => FromBase(inflight[sid].res)

(* The inductive invariant of the numbering.                               *)
NInv == LogBehind /\ CountersOK /\ ReservedOK /\ AppendsNumbered

LaterOps(E, n) == {x.op : x \in {y \in E : n < y.seq}}

(* A cache C holds the last append of each of its operations, and an      *)
(* operation of the epoch E is in it or was followed by CompletedLimit     *)
(* others.                                                                 *)
Remembered(C, E) ==
    /\ \A c, d \in C : c.op = d.op \/ c.stamp = d.stamp => c = d
    /\ \A c \in C :
          /\ \E e \in E : e.op = c.op /\ e.seq = c.stamp
          /\ \A e \in E : e.op = c.op => e.seq <= c.stamp
    /\ \A e \in E :
          \/ \E c \in C : c.op = e.op
          \/ CompletedLimit <= Cardinality(LaterOps(E, e.seq))

CacheOK ==
    \A sid \in Sids : sessions[sid] # NoSession =>
        /\ IsFiniteSet(sessions[sid].completed)
        /\ Remembered(sessions[sid].completed, EpochLog(sid))

(* The append in flight is of an operation that is not in the cache.       *)
NotRepeated ==
    \A sid \in Sids : sessions[sid] # NoSession /\ inflight[sid] # NoAppend =>
        CompletedEntries(sessions[sid], inflight[sid].op) = {}

(* The inductive invariant of the cache.                                   *)
CInv == IsFiniteSet(log) /\ CacheOK /\ NotRepeated /\ AppendedOnce

(* prepare_append numbers a reservation from the session it was given.     *)
LEMMA PreparedFromBase ==
    ASSUME NEW s \in Session, NEW f \in Fence
    PROVE  FromBase(PrepareAppend(s, f))
  BY DEF FromBase, PrepareAppend

(* While the input of a session is kept and nothing is logged, its epoch   *)
(* stays the same, with its log, or is new, with nothing in the log.       *)
LEMMA KeptEpoch ==
    ASSUME TypeOK, LogBehind, Quiescent, NEW sid \in Sids,
           sessions[sid] # NoSession, sessions'[sid] # NoSession, sessions'[sid] \in Session
    PROVE  \/ /\ EpochLog(sid)' = EpochLog(sid)
              /\ sessions'[sid].inputSeq = sessions[sid].inputSeq
              /\ sessions'[sid].turnSeq = sessions[sid].turnSeq
              /\ sessions'[sid].turnKey = sessions[sid].turnKey
              /\ sessions'[sid].completed = sessions[sid].completed
           \/ /\ EpochLog(sid)' = {}
              /\ sessions'[sid].inputSeq = 0
              /\ sessions'[sid].turnKey = NoFence
              /\ sessions'[sid].completed = {}
  <1>1. InputKept(sessions[sid], sessions'[sid]) /\ log' = log
    BY DEF Quiescent, InputsKept
  <1>2. CASE sessions'[sid].fence.epoch = sessions[sid].fence.epoch
    <2>1. sessions[sid].fence.epoch \in Nat
      BY RegisteredType DEF Session, Fence
    <2> QED
      BY <1>1, <1>2, <2>1 DEF EpochLog, InputKept
  <1>3. CASE sessions'[sid].fence.epoch > sessions[sid].fence.epoch
    <2>1. sessions[sid].fence.epoch \in Nat /\ sessions'[sid].fence.epoch \in Nat
      BY RegisteredType DEF Session, Fence
    <2>2. \A e \in log : e.epoch \in Nat
      BY DEF TypeOK, Entry
    <2>3. \A e \in log : e.sid = sid /\ e.inc = sessions[sid].fence.inc
                            => e.epoch <= sessions[sid].fence.epoch
      BY DEF LogBehind
    <2>4. sessions'[sid].fence.inc = sessions[sid].fence.inc
      BY <1>1 DEF InputKept
    <2>5. EpochLog(sid)' = {}
      BY <1>1, <1>3, <2>1, <2>2, <2>3, <2>4 DEF EpochLog
    <2>6. sessions'[sid].fence.epoch # sessions[sid].fence.epoch
      BY <1>3, <2>1
    <2> QED
      BY <1>1, <2>5, <2>6 DEF InputKept
  <1> QED
    BY <1>1, <1>2, <1>3 DEF InputKept

(* A quiescent step keeps the numbering.                                   *)
LEMMA QuiescentNumbered ==
    ASSUME TypeOK, TypeOK', NInv, Quiescent
    PROVE  NInv'
  <1>1. /\ log' = log /\ nextInc' = nextInc
        /\ \A sid \in Sids : sessions'[sid] # NoSession =>
              sessions[sid] # NoSession /\ InputKept(sessions[sid], sessions'[sid])
    BY DEF Quiescent, InputsKept
  <1>2. LogBehind'
    <2>1. ASSUME NEW sid \in Sids, sessions'[sid] # NoSession
          PROVE  /\ sessions'[sid].fence.inc < nextInc'[sid]
                 /\ \A e \in log' : e.sid = sid /\ e.inc = sessions'[sid].fence.inc
                                      => e.epoch <= sessions'[sid].fence.epoch
      <3>1. sessions[sid] \in Session /\ sessions'[sid] \in Session /\ sessions[sid] # NoSession
        BY <1>1, <2>1, RegisteredType DEF TypeOK
      <3>2. sessions[sid].fence.epoch \in Nat /\ sessions'[sid].fence.epoch \in Nat
        BY <3>1 DEF Session, Fence
      <3>3. /\ sessions'[sid].fence.inc = sessions[sid].fence.inc
            /\ sessions'[sid].fence.epoch >= sessions[sid].fence.epoch
        BY <1>1, <2>1, <3>2 DEF InputKept
      <3>4. \A e \in log : e.epoch \in Nat
        BY DEF TypeOK, Entry
      <3>5. /\ sessions[sid].fence.inc < nextInc[sid]
            /\ \A e \in log : e.sid = sid /\ e.inc = sessions[sid].fence.inc
                                 => e.epoch <= sessions[sid].fence.epoch
        BY <3>1 DEF NInv, LogBehind
      <3> QED
        BY <1>1, <3>2, <3>3, <3>4, <3>5
    <2> QED
      BY <1>1, <2>1 DEF NInv, LogBehind
  <1>3. CountersOK'
    <2> SUFFICES ASSUME NEW sid \in Sids, sessions'[sid] # NoSession
                 PROVE  Counted(sessions'[sid], EpochLog(sid)')
      BY DEF CountersOK
    <2>1. sessions[sid] # NoSession /\ sessions'[sid] \in Session
      BY <1>1 DEF TypeOK
    <2>2. Counted(sessions[sid], EpochLog(sid))
      BY <2>1 DEF NInv, CountersOK
    <2> QED
      BY <2>1, <2>2, KeptEpoch DEF NInv, Counted
  <1>4. ReservedOK'
    <2> SUFFICES ASSUME NEW sid \in Sids, inflight'[sid] # NoAppend
                 PROVE  FromBase(inflight'[sid].res)
      BY DEF ReservedOK
    <2>1. CASE inflight'[sid] = inflight[sid]
      BY <2>1 DEF NInv, ReservedOK
    <2>2. CASE inflight'[sid] # inflight[sid]
      <3>1. /\ sessions[sid] # NoSession
            /\ \E f \in Fences : inflight'[sid].res = PrepareAppend(sessions[sid], f)
        BY <2>2 DEF Quiescent, InflightKept
      <3> QED
        BY <3>1, RegisteredType, PreparedFromBase, SessionAssumption
    <2> QED
      BY <2>1, <2>2
  <1>5. AppendsNumbered'
    BY <1>1 DEF NInv, AppendsNumbered
  <1> QED
    BY <1>2, <1>3, <1>4, <1>5 DEF NInv

(* What an open leaves: a session with no input, of an incarnation that    *)
(* the log does not know, and the other sessions as they are.              *)
LEMMA OpenInputs ==
    ASSUME TypeOK, NEW x \in Sids, NEW f \in Fences, Open(x, f) \/ OpenFails(x, f), LogBehind
    PROVE  /\ log' = log /\ inflight' = inflight /\ inflight[x] = NoAppend
           /\ f \in Fence /\ f.inc >= nextInc[x] /\ sessions[x] = NoSession
           /\ nextInc' = [nextInc EXCEPT ![x] = f.inc + 1]
           /\ \E t \in Session : /\ sessions' = [sessions EXCEPT ![x] = t]
                                 /\ t.fence = f /\ t.inputSeq = 0 /\ t.turnKey = NoFence
                                 /\ t.completed = {}
           /\ EpochLog(x)' = {}
           /\ \A sid \in Sids \ {x} : EpochLog(sid)' = EpochLog(sid)
  <1> USE SessionAssumption
  <1> DEFINE t == IF Open(x, f) THEN Opened(f) ELSE BeginClose(Opened(f), "open_rollback")
  <1>1. f \in Fence /\ now \in Nat /\ EntryStage \in Stages /\ RequestOf(f) \in Request
    BY RequestType DEF TypeOK
  <1>2. /\ log' = log /\ inflight' = inflight /\ inflight[x] = NoAppend
        /\ f.inc >= nextInc[x] /\ sessions[x] = NoSession
        /\ nextInc' = [nextInc EXCEPT ![x] = f.inc + 1]
        /\ sessions' = [sessions EXCEPT ![x] = t]
    BY DEF Open, OpenFails, Admit
  <1>3. /\ NewSession(f, now) \in Session /\ NewSession(f, now).fence = f
        /\ NewSession(f, now).inputSeq = 0 /\ NewSession(f, now).turnKey = NoFence
        /\ NewSession(f, now).completed = {}
    BY <1>1, NewSessionType DEF NewSession
  <1>4. Opened(f) \in Session /\ SameInput(NewSession(f, now), Opened(f))
    BY <1>1, <1>3, OpenedType, ResourceInput DEF Opened
  <1>5. /\ BeginClose(Opened(f), "open_rollback") \in Session
        /\ SameInput(Opened(f), BeginClose(Opened(f), "open_rollback"))
    BY <1>1, <1>4, OpenedType, LeaseInput
  <1>6. /\ t \in Session /\ t.fence = f /\ t.inputSeq = 0 /\ t.turnKey = NoFence
        /\ t.completed = {}
    BY <1>3, <1>4, <1>5 DEF SameInput
  <1> HIDE DEF t
  <1>7. EpochLog(x)' = {}
    <2>1. sessions'[x] = t
      BY <1>2 DEF TypeOK
    <2>2. \A e \in log : e.sid = x => e.inc < nextInc[x]
      BY DEF LogBehind
    <2>3. \A e \in log : e.sid = x => e.inc # f.inc
      <3>1. nextInc[x] \in Nat /\ f.inc \in Nat /\ \A e \in log : e.inc \in Nat
        BY <1>1 DEF TypeOK, Entry, Fence
      <3> QED
        BY <1>2, <2>2, <3>1
    <2> QED
      BY <1>2, <1>6, <2>1, <2>3 DEF EpochLog
  <1>8. \A sid \in Sids \ {x} : EpochLog(sid)' = EpochLog(sid)
    BY <1>2 DEF EpochLog, TypeOK
  <1> QED
    BY <1>1, <1>2, <1>6, <1>7, <1>8

(* An open keeps the numbering.                                            *)
LEMMA OpenNumbered ==
    ASSUME TypeOK, TypeOK', NInv, NEW x \in Sids, NEW f \in Fences,
           Open(x, f) \/ OpenFails(x, f)
    PROVE  NInv'
  <1>1. LogBehind
    BY DEF NInv
  <1>2. PICK t \in Session : /\ sessions' = [sessions EXCEPT ![x] = t]
                             /\ t.fence = f /\ t.inputSeq = 0 /\ t.turnKey = NoFence
                             /\ t.completed = {}
    BY <1>1, OpenInputs
  <1>3. /\ log' = log /\ inflight' = inflight /\ inflight[x] = NoAppend
        /\ f \in Fence /\ f.inc >= nextInc[x] /\ sessions[x] = NoSession
        /\ nextInc' = [nextInc EXCEPT ![x] = f.inc + 1]
        /\ EpochLog(x)' = {}
        /\ \A sid \in Sids \ {x} : EpochLog(sid)' = EpochLog(sid)
    BY <1>1, OpenInputs
  <1>4. f.inc \in Nat /\ nextInc \in [Sids -> Nat] /\ \A e \in log : e.inc \in Nat /\ e.sid \in Sids
    BY <1>3 DEF TypeOK, Entry, Fence
  <1>5. nextInc'[x] = f.inc + 1 /\ \A sid \in Sids \ {x} : nextInc'[sid] = nextInc[sid]
    BY <1>3, <1>4
  <1>6. sessions'[x] = t /\ \A sid \in Sids \ {x} : sessions'[sid] = sessions[sid]
    BY <1>2 DEF TypeOK
  <1>7. LogBehind'
    <2>1. ASSUME NEW e \in log PROVE e.inc < nextInc'[e.sid]
      <3>1. e.inc < nextInc[e.sid]
        BY <1>1 DEF LogBehind
      <3> QED
        BY <1>3, <1>4, <1>5, <3>1
    <2>2. ASSUME NEW e \in log, e.sid = x PROVE e.inc # f.inc
      <3>1. e.inc < nextInc[x]
        BY <1>1, <2>2 DEF LogBehind
      <3> QED
        BY <1>3, <1>4, <3>1
    <2>3. f.inc < nextInc'[x]
      BY <1>4, <1>5
    <2>4. ASSUME NEW sid \in Sids \ {x}, sessions[sid] # NoSession
          PROVE  /\ sessions[sid].fence.inc < nextInc[sid]
                 /\ \A e \in log : e.sid = sid /\ e.inc = sessions[sid].fence.inc
                                      => e.epoch <= sessions[sid].fence.epoch
      BY <1>1, <2>4 DEF LogBehind
    <2>5. ASSUME NEW sid \in Sids, sessions'[sid] # NoSession
          PROVE  /\ sessions'[sid].fence.inc < nextInc'[sid]
                 /\ \A e \in log' : e.sid = sid /\ e.inc = sessions'[sid].fence.inc
                                      => e.epoch <= sessions'[sid].fence.epoch
      <3>1. CASE sid = x
        BY <1>2, <1>3, <1>6, <2>2, <2>3, <3>1
      <3>2. CASE sid # x
        BY <1>3, <1>5, <1>6, <2>4, <2>5, <3>2
      <3> QED
        BY <3>1, <3>2
    <2> QED
      BY <1>3, <2>1, <2>5 DEF LogBehind
  <1>8. CountersOK'
    <2>1. Counted(t, {})
      BY <1>2 DEF Counted
    <2> QED
      BY <1>3, <1>6, <2>1 DEF NInv, CountersOK
  <1>9. ReservedOK' /\ AppendsNumbered'
    BY <1>3 DEF NInv, ReservedOK, AppendsNumbered
  <1> QED
    BY <1>7, <1>8, <1>9 DEF NInv

-----------------------------------------------------------------------------
(* The appends of an epoch are numbered.                                   *)

(* What the commit of the append in flight does to the log: it adds one    *)
(* entry, numbered from the last one of its epoch.                         *)
LEMMA CommitFacts ==
    ASSUME TypeOK, NInv, NEW x \in Sids, CommitInput(x)
    PROVE  LET s == sessions[x]
               a == inflight[x]
               f == a.res.fence
               new == LogEntry(x, a)
           IN  /\ s \in Session /\ s # NoSession /\ a \in InputAppend /\ a # NoAppend /\ f \in Fence
               /\ f.inc = s.fence.inc /\ f.epoch >= s.fence.epoch
               /\ new \in Entry /\ log' = log \cup {new}
               /\ sessions' = [sessions EXCEPT ![x] = Commit(s, a)]
               /\ inflight' = [inflight EXCEPT ![x] = NoAppend]
               /\ nextInc' = nextInc
               /\ new.sid = x /\ new.inc = f.inc /\ new.epoch = f.epoch
               /\ new.turn = f.turn /\ new.resp = f.resp /\ new.op = a.op
               /\ new.seq = a.res.seq /\ new.turnSeq = a.res.turnSeq
               /\ new.seq = IF f.epoch = s.fence.epoch THEN s.inputSeq + 1 ELSE 1
               /\ new.turnSeq = IF f.epoch = s.fence.epoch /\ s.turnKey = f
                                THEN s.turnSeq + 1 ELSE 1
  <1> DEFINE s == sessions[x]
             a == inflight[x]
             f == a.res.fence
             new == LogEntry(x, a)
  <1>1. /\ Holds(x) /\ ReservationCurrent(s, a.res) /\ ValidFence(s, f)
        /\ log' = log \cup {new}
        /\ sessions' = [sessions EXCEPT ![x] = Commit(s, a)]
        /\ inflight' = [inflight EXCEPT ![x] = NoAppend]
        /\ nextInc' = nextInc
    BY DEF CommitInput
  <1>2. /\ s # NoSession /\ s \in Session /\ a # NoAppend /\ a \in InputAppend /\ f \in Fence
        /\ f.inc = s.fence.inc
    BY <1>1, RegisteredType, InflightType DEF Holds
  <1>3. f.epoch >= s.fence.epoch
    BY <1>1, <1>2 DEF ValidFence, NotBehind, Session, Fence
  <1>4. new \in Entry
    BY <1>2, LogEntryType
  <1>5. FromBase(a.res)
    BY <1>2 DEF NInv, ReservedOK
  <1>6. /\ new.sid = x /\ new.inc = f.inc /\ new.epoch = f.epoch
        /\ new.turn = f.turn /\ new.resp = f.resp /\ new.op = a.op
        /\ new.seq = a.res.seq /\ new.turnSeq = a.res.turnSeq
    BY DEF LogEntry
  <1>7. /\ a.res.seq = IF f.epoch = s.fence.epoch THEN s.inputSeq + 1 ELSE 1
        /\ a.res.turnSeq = IF f.epoch = s.fence.epoch /\ s.turnKey = f
                           THEN s.turnSeq + 1 ELSE 1
    BY <1>1, <1>5 DEF FromBase, ReservationCurrent
  <1> QED
    BY <1>1, <1>2, <1>3, <1>4, <1>6, <1>7

(* ... and the log of the epoch is that of the session's epoch with the    *)
(* entry, or the entry alone.                                              *)
LEMMA CommitEpoch ==
    ASSUME TypeOK, NInv, NEW x \in Sids, CommitInput(x)
    PROVE  LET s == sessions[x]
               a == inflight[x]
               f == a.res.fence
               new == LogEntry(x, a)
               E == IF f.epoch = s.fence.epoch THEN EpochLog(x) ELSE {}
           IN  /\ \A e \in log : SameEpoch(e, new) <=> e \in E
               /\ E \subseteq log
               /\ \A e \in E : e.seq < new.seq
               /\ EpochLog(x)' = E \cup {new}
               /\ \A sid \in Sids \ {x} : EpochLog(sid)' = EpochLog(sid)
  <1> DEFINE s == sessions[x]
             a == inflight[x]
             f == a.res.fence
             new == LogEntry(x, a)
             E == IF f.epoch = s.fence.epoch THEN EpochLog(x) ELSE {}
  <1>1. /\ s \in Session /\ s # NoSession /\ a \in InputAppend /\ f \in Fence
        /\ f.inc = s.fence.inc /\ f.epoch >= s.fence.epoch
        /\ new \in Entry /\ log' = log \cup {new}
        /\ sessions' = [sessions EXCEPT ![x] = Commit(s, a)]
        /\ new.sid = x /\ new.inc = f.inc /\ new.epoch = f.epoch
        /\ new.seq = IF f.epoch = s.fence.epoch THEN s.inputSeq + 1 ELSE 1
    BY CommitFacts
  <1>2. /\ s.fence.epoch \in Nat /\ f.epoch \in Nat /\ s.inputSeq \in Nat
        /\ \A e \in log : e.epoch \in Nat /\ e.seq \in Nat
    BY <1>1 DEF Session, Fence, TypeOK, Entry
  <1>3. \A e \in log : e.sid = x /\ e.inc = s.fence.inc => e.epoch <= s.fence.epoch
    BY <1>1 DEF NInv, LogBehind
  <1>4. Counted(s, EpochLog(x))
    BY <1>1 DEF NInv, CountersOK
  <1>5. Commit(s, a).fence = f
    BY <1>1, CommitInputs
  <1>6. sessions'[x].fence = f /\ \A sid \in Sids \ {x} : sessions'[sid] = sessions[sid]
    BY <1>1, <1>5 DEF TypeOK
  <1> HIDE DEF new
  <1>7. ASSUME NEW e \in log PROVE SameEpoch(e, new) <=> e \in E
    <2>1. SameEpoch(e, new) <=> e.sid = x /\ e.inc = s.fence.inc /\ e.epoch = f.epoch
      BY <1>1 DEF SameEpoch
    <2>2. CASE f.epoch = s.fence.epoch
      BY <2>1, <2>2 DEF EpochLog
    <2>3. CASE f.epoch # s.fence.epoch
      BY <1>1, <1>2, <1>3, <2>1, <2>3
    <2> QED
      BY <2>2, <2>3
  <1>8. E \subseteq log
    BY DEF EpochLog
  <1>9. \A e \in E : e.seq < new.seq
    BY <1>1, <1>2, <1>4, <1>8 DEF Counted
  <1>10. EpochLog(x)' = E \cup {new}
    <2>1. EpochLog(x)' = {e \in log' : e.sid = x /\ e.inc = f.inc /\ e.epoch = f.epoch}
      BY <1>6 DEF EpochLog
    <2>2. EpochLog(x)' = {e \in log' : SameEpoch(e, new)}
      BY <1>1, <2>1 DEF SameEpoch
    <2> QED
      BY <1>1, <1>7, <1>8, <2>2 DEF SameEpoch
  <1>11. ASSUME NEW sid \in Sids \ {x} PROVE EpochLog(sid)' = EpochLog(sid)
    BY <1>1, <1>6 DEF EpochLog
  <1> QED
    BY <1>7, <1>8, <1>9, <1>10, <1>11 DEF new

(* A commit keeps the numbering: it adds the number after the last.        *)
LEMMA CommitNumbered ==
    ASSUME TypeOK, TypeOK', NInv, NEW x \in Sids, CommitInput(x)
    PROVE  NInv'
  <1> DEFINE s == sessions[x]
             a == inflight[x]
             f == a.res.fence
             new == LogEntry(x, a)
             E == IF f.epoch = s.fence.epoch THEN EpochLog(x) ELSE {}
             t == Commit(s, a)
  <1>1. /\ s \in Session /\ s # NoSession /\ a \in InputAppend /\ f \in Fence
        /\ f.inc = s.fence.inc /\ f.epoch >= s.fence.epoch
        /\ new \in Entry /\ log' = log \cup {new}
        /\ sessions' = [sessions EXCEPT ![x] = t]
        /\ inflight' = [inflight EXCEPT ![x] = NoAppend]
        /\ nextInc' = nextInc
    BY CommitFacts
  <1>2. /\ new.sid = x /\ new.inc = f.inc /\ new.epoch = f.epoch
        /\ new.turn = f.turn /\ new.resp = f.resp
        /\ new.seq = a.res.seq /\ new.turnSeq = a.res.turnSeq
        /\ new.seq = IF f.epoch = s.fence.epoch THEN s.inputSeq + 1 ELSE 1
        /\ new.turnSeq = IF f.epoch = s.fence.epoch /\ s.turnKey = f THEN s.turnSeq + 1 ELSE 1
    BY CommitFacts
  <1>3. /\ \A e \in log : SameEpoch(e, new) <=> e \in E
        /\ E \subseteq log
        /\ \A e \in E : e.seq < new.seq
        /\ EpochLog(x)' = E \cup {new}
        /\ \A sid \in Sids \ {x} : EpochLog(sid)' = EpochLog(sid)
    BY CommitEpoch
  <1>4. t.fence = f /\ t.inputSeq = a.res.seq /\ t.turnSeq = a.res.turnSeq /\ t.turnKey = f
    BY <1>1, CommitInputs
  <1>5. sessions'[x] = t /\ \A sid \in Sids \ {x} : sessions'[sid] = sessions[sid]
    BY <1>1 DEF TypeOK
  <1>6. /\ s.fence.epoch \in Nat /\ s.inputSeq \in Nat /\ s.turnSeq \in Nat
        /\ f.epoch \in Nat /\ f = [inc |-> f.inc, epoch |-> f.epoch, turn |-> f.turn, resp |-> f.resp]
        /\ \A e \in log : e.epoch \in Nat /\ e.seq \in Nat
    BY <1>1 DEF Session, Fence, TypeOK, Entry
  <1>7. Counted(s, EpochLog(x))
    BY <1>1 DEF NInv, CountersOK
  <1>8. E # {} => f.epoch = s.fence.epoch
    OBVIOUS
  <1>9. new.seq \in Nat /\ new.seq >= 1
    BY <1>2, <1>6
  <1>10. t.inputSeq = new.seq /\ t.inputSeq \in Nat /\ t.inputSeq >= 1
    <2>1. t.inputSeq = new.seq
      BY <1>2, <1>4
    <2> QED
      BY <1>9, <2>1
  <1> HIDE DEF new, t, E
  <1>11. LogBehind'
    <2>1. /\ s.fence.inc < nextInc[x]
          /\ \A e \in log : e.inc < nextInc[e.sid]
          /\ \A e \in log : e.sid = x /\ e.inc = s.fence.inc => e.epoch <= s.fence.epoch
      BY <1>1 DEF NInv, LogBehind
    <2>2. \A e \in log' : e.inc < nextInc'[e.sid]
      BY <1>1, <1>2, <2>1
    <2>3. f.inc < nextInc'[x]
      BY <1>1, <2>1
    <2>4. \A e \in log' : e.sid = x /\ e.inc = f.inc => e.epoch <= f.epoch
      BY <1>1, <1>2, <1>6, <2>1
    <2>5. ASSUME NEW sid \in Sids \ {x}, sessions[sid] # NoSession
          PROVE  /\ sessions[sid].fence.inc < nextInc'[sid]
                 /\ \A e \in log' : e.sid = sid /\ e.inc = sessions[sid].fence.inc
                                       => e.epoch <= sessions[sid].fence.epoch
      BY <1>1, <1>2, <2>5 DEF NInv, LogBehind
    <2>6. ASSUME NEW sid \in Sids, sessions'[sid] # NoSession
          PROVE  /\ sessions'[sid].fence.inc < nextInc'[sid]
                 /\ \A e \in log' : e.sid = sid /\ e.inc = sessions'[sid].fence.inc
                                       => e.epoch <= sessions'[sid].fence.epoch
      <3>1. CASE sid = x
        BY <1>4, <1>5, <2>3, <2>4, <3>1
      <3>2. CASE sid # x
        BY <1>5, <2>5, <2>6, <3>2
      <3> QED
        BY <3>1, <3>2
    <2> QED
      BY <2>2, <2>6 DEF LogBehind
  <1>12. Counted(t, E \cup {new})
    <2>1. \A e \in E \cup {new} : 1 <= e.seq /\ e.seq <= t.inputSeq
      <3>1. ASSUME NEW e \in E PROVE 1 <= e.seq /\ e.seq <= t.inputSeq
        <4>1. e \in EpochLog(x)
          BY DEF E
        <4> QED
          BY <1>3, <1>6, <1>7, <1>9, <1>10, <4>1 DEF Counted
      <3> QED
        BY <1>9, <1>10, <3>1
    <2>2. t.inputSeq # 0
      BY <1>10
    <2>3. /\ new.seq = t.inputSeq /\ new.turnSeq = t.turnSeq
          /\ t.turnKey = [inc |-> new.inc, epoch |-> new.epoch, turn |-> new.turn,
                          resp |-> new.resp]
      BY <1>2, <1>4, <1>6
    <2> QED
      BY <2>1, <2>2, <2>3 DEF Counted
  <1>13. CountersOK'
    BY <1>3, <1>5, <1>12 DEF NInv, CountersOK
  <1>14. ReservedOK'
    BY <1>1 DEF NInv, ReservedOK, TypeOK
  <1>15. AppendsNumbered'
    <2>1. ASSUME NEW d \in log', NEW e \in log', SameEpoch(d, e), d.seq = e.seq
          PROVE  d = e
      <3>1. ASSUME NEW y \in log, SameEpoch(y, new) \/ SameEpoch(new, y) PROVE y.seq # new.seq
        <4>1. y \in E
          BY <1>3, <3>1 DEF SameEpoch
        <4> QED
          BY <1>3, <1>6, <1>9, <4>1
      <3>2. d \in log /\ e \in log => d = e
        BY <2>1 DEF NInv, AppendsNumbered
      <3> QED
        BY <1>1, <2>1, <3>1, <3>2
    <2>2. new.seq = 1 => new.turnSeq = 1
      <3>1. ASSUME s.inputSeq = 0 PROVE s.turnKey # f
        BY <1>1, <1>7, <3>1, NoFenceAssumption DEF Counted
      <3> QED
        BY <1>2, <1>6, <3>1
    <2>3. ASSUME new.seq > 1
          PROVE  \E d \in log : /\ SameEpoch(d, new)
                                /\ d.seq = new.seq - 1
                                /\ new.turnSeq = IF SameTurn(d, new) THEN d.turnSeq + 1 ELSE 1
      <3>1. f.epoch = s.fence.epoch /\ s.inputSeq > 0 /\ E = EpochLog(x)
        BY <1>2, <1>6, <2>3 DEF E
      <3>2. PICK d \in EpochLog(x) :
                  /\ d.seq = s.inputSeq /\ d.turnSeq = s.turnSeq
                  /\ s.turnKey = [inc |-> d.inc, epoch |-> d.epoch, turn |-> d.turn,
                                  resp |-> d.resp]
        BY <1>7, <3>1 DEF Counted
      <3>3. d \in log /\ SameEpoch(d, new)
        BY <1>3, <3>1
      <3>4. d.inc = f.inc /\ d.epoch = f.epoch
        BY <1>2, <3>3 DEF SameEpoch
      <3>5. s.turnKey = f <=> d.turn = f.turn /\ d.resp = f.resp
        BY <1>6, <3>2, <3>4
      <3>6. SameTurn(d, new) <=> s.turnKey = f
        BY <1>2, <3>3, <3>5 DEF SameTurn
      <3>7. d.seq = new.seq - 1
        BY <1>2, <1>6, <3>1, <3>2
      <3> QED
        BY <1>2, <3>1, <3>2, <3>3, <3>6, <3>7
    <2>4. ASSUME NEW e \in log
          PROVE  /\ e.seq >= 1
                 /\ e.seq = 1 => e.turnSeq = 1
                 /\ e.seq > 1 => \E d \in log :
                       /\ SameEpoch(d, e)
                       /\ d.seq = e.seq - 1
                       /\ e.turnSeq = IF SameTurn(d, e) THEN d.turnSeq + 1 ELSE 1
      BY DEF NInv, AppendsNumbered
    <2>5. ASSUME NEW e \in log'
          PROVE  /\ e.seq >= 1
                 /\ e.seq = 1 => e.turnSeq = 1
                 /\ e.seq > 1 => \E d \in log' :
                       /\ SameEpoch(d, e)
                       /\ d.seq = e.seq - 1
                       /\ e.turnSeq = IF SameTurn(d, e) THEN d.turnSeq + 1 ELSE 1
      <3>1. CASE e \in log
        BY <1>1, <2>4, <3>1
      <3>2. CASE e = new
        BY <1>1, <1>9, <2>2, <2>3, <3>2
      <3> QED
        BY <1>1, <3>1, <3>2
    <2> QED
      BY <2>1, <2>5 DEF AppendsNumbered
  <1> QED
    BY <1>11, <1>13, <1>14, <1>15 DEF NInv

(* Every step keeps the numbering.                                         *)
LEMMA NumberedStep == TypeOK /\ TypeOK' /\ NInv /\ [Next]_vars => NInv'
  <1> SUFFICES ASSUME TypeOK, TypeOK', NInv, [Next]_vars PROVE NInv'
    OBVIOUS
  <1>1. CASE Next
    BY <1>1, StepInputs, QuiescentNumbered, OpenNumbered, CommitNumbered
  <1>2. CASE UNCHANGED vars
    BY <1>2 DEF vars, NInv, LogBehind, CountersOK, Counted, EpochLog, ReservedOK, FromBase,
                AppendsNumbered
  <1> QED
    BY <1>1, <1>2

(* The appends that commit in one epoch are numbered 1, 2, 3, ... without  *)
(* a gap or a repetition, and the run of a turn is counted: no cancel,     *)
(* update, expiry or downstream submission between the reservation of an   *)
(* append and its commit lets a number be taken twice or lost.             *)
THEOREM AppendsAreNumbered == Spec => []AppendsNumbered
  <1>1. Init => NInv
    BY DEF Init, NInv, LogBehind, CountersOK, ReservedOK, AppendsNumbered
  <1>2. NInv => AppendsNumbered
    BY DEF NInv
  <1> QED
    BY <1>1, <1>2, NumberedStep, TypeCorrect, PTL DEF Spec

-----------------------------------------------------------------------------
(* An operation commits once.                                              *)

(* The operations after a number are finitely many.                        *)
LEMMA LaterOpsFinite ==
    ASSUME NEW E, IsFiniteSet(E), NEW n
    PROVE  IsFiniteSet(LaterOps(E, n))
  <1> DEFINE S == {y \in E : n < y.seq}
             T == {y.op : y \in S}
             g == [y \in S |-> y.op]
  <1>1. IsFiniteSet(S)
    <2>1. S \in SUBSET E
      OBVIOUS
    <2> HIDE DEF S
    <2> QED
      BY <2>1, FS_Subset
  <1>2. g \in Surjection(S, T)
    <2> HIDE DEF S
    <2> QED
      BY DEF Surjection
  <1> HIDE DEF S, T, g
  <1>3. IsFiniteSet(T)
    BY <1>1, <1>2, FS_Surjection
  <1> QED
    BY <1>3 DEF LaterOps, T, S

(* More entries have more operations after a number.                       *)
LEMMA LaterOpsGrow ==
    ASSUME NEW D, NEW E, IsFiniteSet(E), D \subseteq E, NEW n
    PROVE  Cardinality(LaterOps(D, n)) <= Cardinality(LaterOps(E, n))
  <1>1. LaterOps(D, n) \in SUBSET LaterOps(E, n)
    BY DEF LaterOps
  <1> QED
    BY <1>1, LaterOpsFinite, FS_Subset

(* record_completed_append: what the cache forgets was followed by as many *)
(* operations as it holds.                                                 *)
LEMMA RecordRemembered ==
    ASSUME NEW E \in SUBSET Entry, IsFiniteSet(E), NEW C \in SUBSET Completed, IsFiniteSet(C),
           Remembered(C, E), NEW new \in Entry, \A e \in E : e.seq < new.seq,
           NEW f \in Fence
    PROVE  LET D == Evict({c \in C : c.op # new.op} \cup
                           {[op |-> new.op, fence |-> f, stamp |-> new.seq]})
           IN  IsFiniteSet(D) /\ Remembered(D, E \cup {new})
  <1> DEFINE entry == [op |-> new.op, fence |-> f, stamp |-> new.seq]
             others == {c \in C : c.op # new.op}
             A == others \cup {entry}
             D == Evict(A)
             F == E \cup {new}
  <1>1. /\ new.op \in OpIds /\ new.seq \in Nat
        /\ \A e \in E : e.seq \in Nat
        /\ \A c \in C : c.stamp \in Nat
    BY DEF Entry, Completed
  <1>2. entry.op = new.op /\ entry.stamp = new.seq
    OBVIOUS
  <1>3. /\ \A c, d \in C : c.op = d.op \/ c.stamp = d.stamp => c = d
        /\ \A c \in C : /\ \E e \in E : e.op = c.op /\ e.seq = c.stamp
                        /\ \A e \in E : e.op = c.op => e.seq <= c.stamp
        /\ \A e \in E : \/ \E c \in C : c.op = e.op
                        \/ CompletedLimit <= Cardinality(LaterOps(E, e.seq))
    BY DEF Remembered
  <1>4. \A c \in others : c \in C /\ c.op # new.op
    OBVIOUS
  <1>5. \A c \in C : c.op # new.op => c \in others
    OBVIOUS
  <1>6. others \in SUBSET C
    OBVIOUS
  <1> HIDE DEF entry, others
  <1>7. IsFiniteSet(A) /\ IsFiniteSet(D) /\ D \subseteq A
    <2>1. IsFiniteSet(others)
      BY <1>6, FS_Subset
    <2>2. IsFiniteSet(A)
      BY <2>1, FS_AddElement
    <2>3. D \in SUBSET A
      BY DEF Evict
    <2> HIDE DEF A, D
    <2> QED
      BY <2>2, <2>3, FS_Subset
  <1>8. IsFiniteSet(F)
    BY FS_AddElement
  <1>9. \A c \in A : c.stamp \in Nat
    BY <1>1, <1>2, <1>4
  <1>10. ASSUME NEW c \in others PROVE c.stamp < new.seq
    BY <1>1, <1>3, <1>4
  <1>11. \A c, d \in A : c.op = d.op \/ c.stamp = d.stamp => c = d
    <2>1. \A c \in others : c.stamp # entry.stamp /\ c.op # entry.op
      BY <1>1, <1>2, <1>4, <1>10
    <2> QED
      BY <1>3, <1>4, <2>1
  <1>12. ASSUME NEW c \in A
         PROVE  /\ \E e \in F : e.op = c.op /\ e.seq = c.stamp
                /\ \A e \in F : e.op = c.op => e.seq <= c.stamp
    <2>1. CASE c = entry
      BY <1>1, <1>2, <2>1
    <2>2. CASE c \in others
      BY <1>3, <1>4, <2>2
    <2> QED
      BY <2>1, <2>2
  <1>13. ASSUME NEW e \in F, \A c \in D : c.op # e.op
         PROVE  CompletedLimit <= Cardinality(LaterOps(F, e.seq))
    <2>1. CASE \E c \in A : c.op = e.op
      <3>1. PICK c \in A : c.op = e.op
        BY <2>1
      <3>2. c \notin D
        BY <1>13, <3>1
      <3>3. ~ Cardinality(A) <= CompletedLimit /\ \A d \in A : ~ d.stamp < c.stamp
        BY <3>1, <3>2 DEF Evict
      <3> DEFINE B == A \ {c}
      <3>4. IsFiniteSet(B) /\ Cardinality(B) = Cardinality(A) - 1
        <4> HIDE DEF A
        <4> QED
          BY <1>7, <3>1, FS_RemoveElement
      <3>5. \A d \in B : d \in A /\ d.stamp > c.stamp
        BY <1>9, <1>11, <3>1, <3>3
      <3>6. e.seq <= c.stamp /\ e.seq \in Nat
        BY <1>1, <1>12, <3>1
      <3>7. \A d \in B : d.op \in LaterOps(F, e.seq)
        <4> SUFFICES ASSUME NEW d \in B PROVE d.op \in LaterOps(F, e.seq)
          OBVIOUS
        <4>1. PICK y \in F : y.op = d.op /\ y.seq = d.stamp
          BY <1>12, <3>5
        <4>2. e.seq < y.seq
          BY <1>9, <3>1, <3>5, <3>6, <4>1
        <4> QED
          BY <4>1, <4>2 DEF LaterOps
      <3> DEFINE g == [d \in B |-> d.op]
      <3> HIDE DEF A, B, F
      <3>8. g \in Injection(B, LaterOps(F, e.seq))
        <4>1. g \in [B -> LaterOps(F, e.seq)]
          BY <3>7
        <4>2. \A p, q \in B : p.op = q.op => p = q
          BY <1>11, <3>5
        <4> QED
          BY <4>1, <4>2 DEF Injection, IsInjective
      <3> HIDE DEF g
      <3>9. IsFiniteSet(LaterOps(F, e.seq))
        BY <1>8, LaterOpsFinite
      <3>10. Cardinality(B) <= Cardinality(LaterOps(F, e.seq))
        BY <3>8, <3>9, FS_Injection
      <3>11. Cardinality(A) \in Nat /\ Cardinality(LaterOps(F, e.seq)) \in Nat
        BY <1>7, <3>9, FS_CardinalityType
      <3> QED
        BY <3>3, <3>4, <3>10, <3>11, StateAssumption
    <2>2. CASE \A c \in A : c.op # e.op
      <3>1. e.op # new.op
        BY <1>2, <2>2
      <3>2. e \in E /\ \A c \in C : c.op # e.op
        BY <1>5, <2>2, <3>1
      <3>3. CompletedLimit <= Cardinality(LaterOps(E, e.seq))
        BY <1>3, <3>2
      <3>4. Cardinality(LaterOps(E, e.seq)) <= Cardinality(LaterOps(F, e.seq))
        BY <1>8, LaterOpsGrow
      <3>5. /\ Cardinality(LaterOps(E, e.seq)) \in Nat
            /\ Cardinality(LaterOps(F, e.seq)) \in Nat
        BY <1>8, LaterOpsFinite, FS_CardinalityType
      <3> QED
        BY <3>3, <3>4, <3>5, StateAssumption
    <2> QED
      BY <2>1, <2>2
  <1>14. Remembered(D, F)
    <2>1. \A c \in D : c \in A
      BY <1>7
    <2> HIDE DEF A, D, F
    <2> QED
      BY <1>11, <1>12, <1>13, <2>1 DEF Remembered
  <1> QED
    BY <1>7, <1>14 DEF D, A, others, entry, F

-----------------------------------------------------------------------------
(* The cache of completed appends.                                         *)

(* A quiescent step keeps the cache.                                       *)
LEMMA QuiescentCached ==
    ASSUME TypeOK, TypeOK', NInv, CInv, Quiescent
    PROVE  CInv'
  <1>1. /\ log' = log
        /\ \A sid \in Sids : sessions'[sid] # NoSession =>
              sessions[sid] # NoSession /\ InputKept(sessions[sid], sessions'[sid])
    BY DEF Quiescent, InputsKept
  <1>2. CacheOK'
    <2> SUFFICES ASSUME NEW sid \in Sids, sessions'[sid] # NoSession
                 PROVE  /\ IsFiniteSet(sessions'[sid].completed)
                        /\ Remembered(sessions'[sid].completed, EpochLog(sid)')
      BY DEF CacheOK
    <2>1. sessions[sid] # NoSession /\ sessions'[sid] \in Session
      BY <1>1 DEF TypeOK
    <2>2. /\ IsFiniteSet(sessions[sid].completed)
          /\ Remembered(sessions[sid].completed, EpochLog(sid))
      BY <2>1 DEF CInv, CacheOK
    <2>3. IsFiniteSet({}) /\ Remembered({}, {})
      BY FS_EmptySet DEF Remembered
    <2>4. \/ /\ EpochLog(sid)' = EpochLog(sid)
             /\ sessions'[sid].completed = sessions[sid].completed
          \/ EpochLog(sid)' = {} /\ sessions'[sid].completed = {}
      BY <2>1, KeptEpoch DEF NInv
    <2> QED
      BY <2>2, <2>3, <2>4
  <1>3. NotRepeated'
    <2> SUFFICES ASSUME NEW sid \in Sids, sessions'[sid] # NoSession, inflight'[sid] # NoAppend
                 PROVE  CompletedEntries(sessions'[sid], inflight'[sid].op) = {}
      BY DEF NotRepeated
    <2>1. sessions[sid] # NoSession /\ InputKept(sessions[sid], sessions'[sid])
      BY <1>1
    <2>2. CompletedEntries(sessions[sid], inflight'[sid].op) = {}
      BY <2>1 DEF Quiescent, InflightKept, CInv, NotRepeated
    <2> QED
      BY <2>1, <2>2 DEF InputKept, CompletedEntries
  <1>4. AppendedOnce'
    BY <1>1 DEF CInv, AppendedOnce
  <1> QED
    BY <1>1, <1>2, <1>3, <1>4 DEF CInv

(* So does an open.                                                        *)
LEMMA OpenCached ==
    ASSUME TypeOK, NInv, CInv, NEW x \in Sids, NEW f \in Fences, Open(x, f) \/ OpenFails(x, f)
    PROVE  CInv'
  <1>1. LogBehind
    BY DEF NInv
  <1>2. PICK t \in Session : sessions' = [sessions EXCEPT ![x] = t] /\ t.completed = {}
    BY <1>1, OpenInputs
  <1>3. /\ log' = log /\ inflight' = inflight /\ inflight[x] = NoAppend
        /\ EpochLog(x)' = {}
        /\ \A sid \in Sids \ {x} : EpochLog(sid)' = EpochLog(sid)
    BY <1>1, OpenInputs
  <1>4. sessions'[x] = t /\ \A sid \in Sids \ {x} : sessions'[sid] = sessions[sid]
    BY <1>2 DEF TypeOK
  <1>5. IsFiniteSet({}) /\ Remembered({}, {})
    BY FS_EmptySet DEF Remembered
  <1>6. CacheOK'
    BY <1>2, <1>3, <1>4, <1>5 DEF CInv, CacheOK
  <1>7. NotRepeated'
    BY <1>3, <1>4 DEF CInv, NotRepeated
  <1>8. IsFiniteSet(log') /\ AppendedOnce'
    BY <1>3 DEF CInv, AppendedOnce
  <1> QED
    BY <1>6, <1>7, <1>8 DEF CInv

(* A commit keeps the cache, and logs an operation that the cache has      *)
(* forgotten at the earliest.                                              *)
LEMMA CommitCached ==
    ASSUME TypeOK, NInv, CInv, NEW x \in Sids, CommitInput(x)
    PROVE  CInv'
  <1> DEFINE s == sessions[x]
             a == inflight[x]
             f == a.res.fence
             new == LogEntry(x, a)
             E == IF f.epoch = s.fence.epoch THEN EpochLog(x) ELSE {}
             C == IF f.epoch = s.fence.epoch THEN s.completed ELSE {}
             t == Commit(s, a)
  <1>1. /\ s \in Session /\ s # NoSession /\ a \in InputAppend /\ a # NoAppend /\ f \in Fence
        /\ new \in Entry /\ log' = log \cup {new}
        /\ sessions' = [sessions EXCEPT ![x] = t]
        /\ inflight' = [inflight EXCEPT ![x] = NoAppend]
        /\ new.op = a.op /\ new.seq = a.res.seq
    BY CommitFacts
  <1>2. /\ \A e \in log : SameEpoch(e, new) <=> e \in E
        /\ E \subseteq log
        /\ \A e \in E : e.seq < new.seq
        /\ EpochLog(x)' = E \cup {new}
        /\ \A sid \in Sids \ {x} : EpochLog(sid)' = EpochLog(sid)
    BY CommitEpoch
  <1>3. t.completed = Evict({c \in C : c.op # new.op} \cup
                             {[op |-> new.op, fence |-> f, stamp |-> new.seq]})
    BY <1>1, CommitInputs
  <1>4. sessions'[x] = t /\ \A sid \in Sids \ {x} : sessions'[sid] = sessions[sid]
    BY <1>1 DEF TypeOK
  <1>5. inflight'[x] = NoAppend /\ \A sid \in Sids \ {x} : inflight'[sid] = inflight[sid]
    BY <1>1 DEF TypeOK
  <1>6. IsFiniteSet(C) /\ Remembered(C, E) /\ C \in SUBSET Completed
    <2>1. IsFiniteSet(s.completed) /\ Remembered(s.completed, EpochLog(x))
      BY <1>1 DEF CInv, CacheOK
    <2>2. s.completed \in SUBSET Completed
      BY <1>1 DEF Session
    <2>3. IsFiniteSet({}) /\ Remembered({}, {})
      BY FS_EmptySet DEF Remembered
    <2> QED
      BY <2>1, <2>2, <2>3
  <1>7. \A c \in C : c.op # new.op
    BY <1>1 DEF CInv, NotRepeated, CompletedEntries
  <1>8. IsFiniteSet(log) /\ E \in SUBSET Entry /\ \A e \in log : e \in Entry /\ e.seq \in Nat
    BY <1>2 DEF CInv, TypeOK, Entry
  <1>9. new.seq \in Nat
    BY <1>1 DEF Entry
  <1> HIDE DEF new, E, C, t
  <1>10. IsFiniteSet(E) /\ IsFiniteSet(log')
    BY <1>1, <1>2, <1>8, FS_Subset, FS_AddElement
  <1>11. IsFiniteSet(t.completed) /\ Remembered(t.completed, E \cup {new})
    <2> HIDE DEF f
    <2>1. /\ E \in SUBSET Entry /\ IsFiniteSet(E) /\ new \in Entry /\ f \in Fence
          /\ \A e \in E : e.seq < new.seq
      BY <1>1, <1>2, <1>8, <1>10
    <2>2. LET D == Evict({c \in C : c.op # new.op} \cup
                          {[op |-> new.op, fence |-> f, stamp |-> new.seq]})
          IN  IsFiniteSet(D) /\ Remembered(D, E \cup {new})
      BY <1>6, <2>1, RecordRemembered
    <2> QED
      BY <1>3, <2>2
  <1>12. CacheOK'
    BY <1>2, <1>4, <1>11 DEF CInv, CacheOK
  <1>13. NotRepeated'
    BY <1>4, <1>5 DEF CInv, NotRepeated
  <1>14. AppendedOnce'
    <2> DEFINE Between(L, d, e) == {x1.op : x1 \in
                  {y \in L : SameEpoch(d, y) /\ d.seq < y.seq /\ y.seq < e.seq}}
    <2> SUFFICES ASSUME NEW d \in log', NEW e \in log', SameEpoch(d, e), d.op = e.op,
                        d.seq < e.seq
                 PROVE  CompletedLimit <= Cardinality(Between(log', d, e))
      BY DEF AppendedOnce
    <2>1. ASSUME NEW y \in log, SameEpoch(y, new) \/ SameEpoch(new, y)
          PROVE  y \in E /\ y.seq < new.seq /\ ~ new.seq < y.seq
      <3>1. y \in E
        BY <1>2, <2>1 DEF SameEpoch
      <3> QED
        BY <1>2, <1>8, <1>9, <3>1
    <2>2. d \in log
      BY <1>1, <1>9, <2>1
    <2>3. CASE e \in log
      <3>1. ~(SameEpoch(d, new) /\ d.seq < new.seq /\ new.seq < e.seq)
        <4>1. SameEpoch(d, new) => SameEpoch(e, new)
          BY DEF SameEpoch
        <4> QED
          BY <2>1, <2>3, <4>1
      <3>2. Between(log', d, e) = Between(log, d, e)
        BY <1>1, <3>1
      <3> QED
        BY <2>2, <2>3, <3>2 DEF CInv, AppendedOnce
    <2>4. CASE e = new
      <3>1. d \in E /\ \A y \in E : SameEpoch(y, new)
        BY <1>2, <2>1, <2>2, <2>4
      <3>2. CompletedLimit <= Cardinality(LaterOps(E, d.seq))
        <4>1. \A c \in C : c.op # d.op
          BY <1>7, <2>4
        <4> QED
          BY <1>6, <3>1, <4>1 DEF Remembered
      <3>3. \A y \in log' : SameEpoch(d, y) /\ d.seq < y.seq /\ y.seq < e.seq
                               <=> y \in E /\ d.seq < y.seq
        <4>1. ASSUME NEW y \in log'
              PROVE  SameEpoch(d, y) /\ d.seq < y.seq /\ y.seq < e.seq
                               <=> y \in E /\ d.seq < y.seq
          <5>1. CASE y \in log
            <6>1. SameEpoch(d, y) <=> SameEpoch(y, new)
              BY <2>4 DEF SameEpoch
            <6> QED
              BY <1>2, <2>4, <5>1, <6>1
          <5>2. CASE y = new
            BY <1>2, <1>8, <1>9, <2>4, <5>2
          <5> QED
            BY <1>1, <5>1, <5>2
        <4> QED
          BY <4>1
      <3>4. E \subseteq log'
        BY <1>1, <1>2
      <3>5. {y \in log' : SameEpoch(d, y) /\ d.seq < y.seq /\ y.seq < e.seq}
              = {y \in E : d.seq < y.seq}
        BY <3>3, <3>4
      <3> QED
        BY <3>2, <3>5 DEF LaterOps
    <2> QED
      BY <1>1, <2>3, <2>4
  <1> QED
    BY <1>10, <1>12, <1>13, <1>14 DEF CInv

(* Every step keeps the cache.                                             *)
LEMMA CachedStep == TypeOK /\ TypeOK' /\ NInv /\ CInv /\ [Next]_vars => CInv'
  <1> SUFFICES ASSUME TypeOK, TypeOK', NInv, CInv, [Next]_vars PROVE CInv'
    OBVIOUS
  <1>1. CASE Next
    BY <1>1, StepInputs, QuiescentCached, OpenCached, CommitCached
  <1>2. CASE UNCHANGED vars
    BY <1>2 DEF vars, CInv, CacheOK, EpochLog, NotRepeated, AppendedOnce
  <1> QED
    BY <1>1, <1>2

(* An operation id commits twice in an epoch only after CompletedLimit     *)
(* other operations: as long as it is in the cache of completed appends a  *)
(* retry is answered from there, and what pushed it out came after it.     *)
THEOREM AppendsCommitOnce == Spec => []AppendedOnce
  <1>1. Init => NInv /\ CInv
    BY FS_EmptySet DEF Init, NInv, LogBehind, CountersOK, ReservedOK, AppendsNumbered, CInv,
       CacheOK, NotRepeated, AppendedOnce
  <1>2. CInv => AppendedOnce
    BY DEF CInv
  <1> QED
    BY <1>1, <1>2, NumberedStep, CachedStep, TypeCorrect, PTL DEF Spec

=============================================================================
