-------------------------- MODULE DuplexControlProofs --------------------------
(***************************************************************************)
(* Theorems about DuplexControl, for any sessions, fences, limits and      *)
(* failures: its type correctness, with the object that a suspended        *)
(* handler holds; no append is submitted while an earlier one is undone;   *)
(* a closing session has something pending that will remove it; what the   *)
(* entry stage holds has an owner, in the conditions Calm.                 *)
(***************************************************************************)
EXTENDS DuplexControl, TLAPS

-----------------------------------------------------------------------------
(* Types.                                                                  *)

(* accept_fence returns a session.                                         *)
LEMMA AcceptFenceType ==
    ASSUME NEW s \in Session, NEW f \in Fence
    PROVE  AcceptFence(s, f) \in Session
  BY DEF AcceptFence, Session

(* touch, detach and resume return a session.                              *)
LEMMA LeaseTypes ==
    ASSUME NEW s \in Session, NEW t \in Nat
    PROVE  /\ TouchLease(s, t) \in Session
           /\ DetachLease(s, t) \in Session
           /\ ResumeLease(s, t) \in Session
  <1>1. TouchLease(s, t) \in Session
    BY DEF TouchLease, Session
  <1>2. DetachLease(s, t) \in Session
    BY DEF DetachLease, Session
  <1>3. s.generation + 1 \in Nat
    BY DEF Session
  <1>4. ResumeLease(s, t) \in Session
    BY <1>3 DEF ResumeLease, Session
  <1> QED
    BY <1>1, <1>2, <1>4

(* begin_operation and end_operation return a session.                     *)
LEMMA OperationTypes ==
    ASSUME NEW s \in Session, NEW c \in Nat, NEW t \in Nat
    PROVE  /\ BeginOperation(s, c, t) \in Session
           /\ EndOperation(s, c, t) \in Session
  <1>1. BeginOperation(s, c, t) \in Session
    BY DEF BeginOperation, Session
  <1>2. EndOperation(s, c, t) \in Session
    BY DEF EndOperation, Session
  <1> QED
    BY <1>1, <1>2

(* begin_close returns a session.                                          *)
LEMMA BeginCloseType ==
    ASSUME NEW s \in Session, NEW reason \in Reasons
    PROVE  BeginClose(s, reason) \in Session
  <1>1. s.generation + 1 \in Nat
    BY DEF Session
  <1> QED
    BY <1>1 DEF BeginClose, MarkTerminal, Session

(* A fence names a request.                                                *)
LEMMA RequestType ==
    ASSUME NEW f \in Fence
    PROVE  RequestOf(f) \in Request
  BY DEF RequestOf, Request, Fence

(* reserve_stage_request and bind_stage_request return a session.          *)
LEMMA ResourceTypes ==
    ASSUME NEW s \in Session, NEW stage \in Stages, NEW request \in Request, NEW f \in Fence
    PROVE  /\ Reserve(s, stage, request, f) \in Session
           /\ Bind(s, stage, request, f) \in Session
  <1> DEFINE new(b) == [stage |-> stage, request |-> request, fence |-> f, submitted |-> b]
             binding == [stage |-> stage, request |-> request, fence |-> f]
  <1>1. new(TRUE) \in Resource /\ new(FALSE) \in Resource /\ binding \in Binding
    BY DEF Resource, Binding
  <1>2. s.resources \subseteq Resource /\ s.bindings \subseteq Binding
    BY DEF Session
  <1>3. Reserve(s, stage, request, f) \in Session
    BY <1>1, <1>2 DEF Reserve, Session
  <1>4. AcceptFence(s, f) \in Session
    BY AcceptFenceType
  <1>5. /\ (s.resources \ Reserved(s, stage, request)) \cup {new(TRUE)} \in SUBSET Resource
        /\ {b \in s.bindings : b.stage # stage} \cup {binding} \in SUBSET Binding
    BY <1>1, <1>2
  <1>6. Bind(s, stage, request, f) \in Session
    BY <1>4, <1>5 DEF Bind, Session
  <1> QED
    BY <1>3, <1>6

(* The release operations return a session.                                *)
LEMMA ReleaseTypes ==
    ASSUME NEW s \in Session, NEW requests, NEW f
    PROVE  /\ ReleaseRequests(s, requests) \in Session
           /\ ReleaseFence(s, f) \in Session
  BY DEF ReleaseRequests, ReleaseFence, Session

(* prepare_append returns a reservation for the fence it was given.        *)
LEMMA PrepareAppendType ==
    ASSUME NEW s \in Session, NEW f \in Fence
    PROVE  /\ PrepareAppend(s, f) \in Reservation
           /\ PrepareAppend(s, f).fence = f
           /\ PrepareAppend(s, f).seq >= 1
  <1>1. /\ s.fence \in Fence /\ s.inputSeq \in Nat /\ s.turnSeq \in Nat
        /\ s.turnKey \in Fence \cup {NoFence}
    BY DEF Session
  <1>2. s.inputSeq + 1 \in Nat /\ s.turnSeq + 1 \in Nat /\ s.inputSeq + 1 >= 1
    BY <1>1
  <1> QED
    BY <1>1, <1>2 DEF PrepareAppend, Reservation

(* commit_append returns a session at the fence and number reserved.       *)
LEMMA CommitAppendType ==
    ASSUME NEW s \in Session, NEW r \in Reservation
    PROVE  CommitAppend(s, r) \in Session
  <1>1. /\ r.fence \in Fence /\ r.seq \in Nat /\ r.turnSeq \in Nat
    BY DEF Reservation
  <1>2. AcceptFence(s, r.fence) \in Session
    BY <1>1, AcceptFenceType
  <1> QED
    BY <1>1, <1>2 DEF CommitAppend, Session

(* open_session registers a session.                                       *)
LEMMA NewSessionType ==
    ASSUME NEW f \in Fence, NEW t \in Nat
    PROVE  NewSession(f, t) \in Session
  BY DEF NewSession, Session

-----------------------------------------------------------------------------
(* Evolution: what no operation on a session takes back.                   *)

(* The order of the fences of one incarnation.                             *)
Onward(f, g) ==
    /\ g.inc = f.inc
    /\ g.epoch >= f.epoch
    /\ g.epoch = f.epoch => g.turn >= f.turn /\ g.resp >= f.resp

(* The lease of a closing session is neither busy nor detached.            *)
Quiet(s) == ~Live(s) => s.activeOps = {} /\ s.detachedAt = NoTime

Evolves(s, t) ==
    /\ Onward(s.fence, t.fence)
    /\ ~Live(s) => t.terminal = s.terminal /\ t.generation = s.generation
    /\ Quiet(s) => Quiet(t)

(* Evolution composes, so it holds of a handler if it holds of its calls.  *)
LEMMA EvolvesTransitive ==
    ASSUME NEW s \in Session, NEW t \in Session, NEW u \in Session,
           Evolves(s, t), Evolves(t, u)
    PROVE  Evolves(s, u)
  <1>1. s.fence \in Fence /\ t.fence \in Fence /\ u.fence \in Fence
    BY DEF Session
  <1>2. Onward(s.fence, u.fence)
    BY <1>1 DEF Evolves, Onward, Fence
  <1> QED
    BY <1>2 DEF Evolves, Live

(* A session that keeps its fence, its lease generation and its reason and *)
(* opens no operation and does not detach evolves.                         *)
LEMMA EvolvesKept ==
    ASSUME NEW s \in Session, NEW t \in Session,
           t.fence = s.fence, t.terminal = s.terminal, t.generation = s.generation,
           ~Live(s) => t.activeOps \subseteq s.activeOps /\ t.detachedAt = s.detachedAt
    PROVE  Evolves(s, t)
  <1>1. s.fence \in Fence
    BY DEF Session
  <1>2. Onward(s.fence, t.fence)
    BY <1>1 DEF Onward, Fence
  <1> QED
    BY <1>2 DEF Evolves, Quiet, Live

(* accept_fence evolves: it takes only fences that are not behind.         *)
LEMMA AcceptFenceEvolves ==
    ASSUME NEW s \in Session, NEW f \in Fence, ValidFence(s, f)
    PROVE  Evolves(s, AcceptFence(s, f)) /\ AcceptFence(s, f).fence = f
  <1>1. s.fence \in Fence
    BY DEF Session
  <1>2. Onward(s.fence, f)
    BY <1>1 DEF Onward, ValidFence, NotBehind, Fence
  <1>3. /\ AcceptFence(s, f).fence = f
        /\ AcceptFence(s, f).terminal = s.terminal
        /\ AcceptFence(s, f).generation = s.generation
        /\ AcceptFence(s, f).activeOps = s.activeOps
        /\ AcceptFence(s, f).detachedAt = s.detachedAt
    BY DEF AcceptFence, Session
  <1> QED
    BY <1>2, <1>3 DEF Evolves, Quiet, Live

(* The lease operations that need an open lease evolve.                    *)
LEMMA LeaseEvolves ==
    ASSUME NEW s \in Session, NEW t \in Nat, Live(s)
    PROVE  /\ Evolves(s, TouchLease(s, t))
           /\ Evolves(s, DetachLease(s, t))
           /\ Evolves(s, ResumeLease(s, t))
  <1>1. s.fence \in Fence
    BY DEF Session
  <1>2. Onward(s.fence, s.fence)
    BY <1>1 DEF Onward, Fence
  <1>3. /\ TouchLease(s, t).fence = s.fence /\ TouchLease(s, t).terminal = s.terminal
        /\ DetachLease(s, t).fence = s.fence /\ DetachLease(s, t).terminal = s.terminal
        /\ ResumeLease(s, t).fence = s.fence /\ ResumeLease(s, t).terminal = s.terminal
    BY DEF TouchLease, DetachLease, ResumeLease, Session
  <1> QED
    BY <1>2, <1>3 DEF Evolves, Quiet, Live

(* The operations of an append evolve.                                     *)
LEMMA OperationEvolves ==
    ASSUME NEW s \in Session, NEW c \in Nat, NEW t \in Nat
    PROVE  /\ Live(s) => Evolves(s, BeginOperation(s, c, t))
           /\ Evolves(s, EndOperation(s, c, t))
  <1>1. /\ BeginOperation(s, c, t).fence = s.fence
        /\ BeginOperation(s, c, t).terminal = s.terminal
        /\ BeginOperation(s, c, t).generation = s.generation
        /\ EndOperation(s, c, t).fence = s.fence
        /\ EndOperation(s, c, t).terminal = s.terminal
        /\ EndOperation(s, c, t).generation = s.generation
        /\ EndOperation(s, c, t).activeOps = s.activeOps \ {c}
        /\ EndOperation(s, c, t).detachedAt = s.detachedAt
    BY DEF BeginOperation, EndOperation, Session
  <1>2. EndOperation(s, c, t).activeOps \subseteq s.activeOps
    BY <1>1
  <1> QED
    BY <1>1, <1>2, OperationTypes, EvolvesKept

(* begin_close evolves, and closes.                                        *)
LEMMA BeginCloseEvolves ==
    ASSUME NEW s \in Session, NEW reason \in Reasons
    PROVE  Evolves(s, BeginClose(s, reason)) /\ ~Live(BeginClose(s, reason))
  <1>1. s.fence \in Fence /\ reason # "none"
    BY DEF Session, Reasons
  <1>2. Onward(s.fence, s.fence)
    BY <1>1 DEF Onward, Fence
  <1>3. CASE ~Live(s)
    BY <1>2, <1>3 DEF BeginClose, Evolves
  <1>4. CASE Live(s)
    <2>1. /\ BeginClose(s, reason).fence = s.fence
          /\ BeginClose(s, reason).terminal = reason
          /\ BeginClose(s, reason).activeOps = {}
          /\ BeginClose(s, reason).detachedAt = NoTime
      BY <1>4 DEF BeginClose, MarkTerminal, Session
    <2> QED
      BY <1>1, <1>2, <1>4, <2>1 DEF Evolves, Quiet, Live
  <1> QED
    BY <1>3, <1>4

(* bind_stage_request evolves: it accepts the fence of the binding.        *)
LEMMA BindEvolves ==
    ASSUME NEW s \in Session, NEW stage \in Stages, NEW request \in Request, NEW f \in Fence,
           ValidFence(s, f)
    PROVE  Evolves(s, Bind(s, stage, request, f)) /\ Bind(s, stage, request, f).fence = f
  <1> DEFINE t == AcceptFence(s, f)
             u == Bind(s, stage, request, f)
  <1>1. t \in Session /\ Evolves(s, t) /\ t.fence = f
    BY AcceptFenceType, AcceptFenceEvolves
  <1>2. u \in Session
    BY ResourceTypes
  <1>3. /\ u.fence = t.fence /\ u.terminal = t.terminal /\ u.generation = t.generation
        /\ u.activeOps = t.activeOps /\ u.detachedAt = t.detachedAt
    BY <1>1 DEF Bind, Session
  <1> HIDE DEF t, u
  <1>4. Evolves(t, u)
    BY <1>1, <1>2, <1>3, EvolvesKept
  <1>5. Evolves(s, u)
    BY <1>1, <1>2, <1>4, EvolvesTransitive
  <1> QED
    BY <1>1, <1>3, <1>5 DEF u

(* commit_append evolves, to the fence reserved.                           *)
LEMMA CommitAppendEvolves ==
    ASSUME NEW s \in Session, NEW r \in Reservation, ValidFence(s, r.fence)
    PROVE  Evolves(s, CommitAppend(s, r)) /\ CommitAppend(s, r).fence = r.fence
  <1> DEFINE t == AcceptFence(s, r.fence)
             u == CommitAppend(s, r)
  <1>1. r.fence \in Fence
    BY DEF Reservation
  <1>2. t \in Session /\ Evolves(s, t) /\ t.fence = r.fence
    BY <1>1, AcceptFenceType, AcceptFenceEvolves
  <1>3. u \in Session
    BY CommitAppendType
  <1>4. /\ u.fence = t.fence /\ u.terminal = t.terminal /\ u.generation = t.generation
        /\ u.activeOps = t.activeOps /\ u.detachedAt = t.detachedAt
    BY <1>2 DEF CommitAppend, Session
  <1> HIDE DEF t, u
  <1>5. Evolves(t, u)
    BY <1>2, <1>3, <1>4, EvolvesKept
  <1>6. Evolves(s, u)
    BY <1>2, <1>3, <1>5, EvolvesTransitive
  <1> QED
    BY <1>2, <1>4, <1>6 DEF u

-----------------------------------------------------------------------------
(* What the operations on a session leave alone.                           *)

(* The incarnation stays, and so does the lease of a closing session.      *)
Steady(s, t) ==
    /\ t.fence.inc = s.fence.inc
    /\ t.terminal = s.terminal
    /\ Live(s) \/ t.generation = s.generation

(* Steadiness composes.                                                    *)
LEMMA SteadyTransitive ==
    ASSUME NEW s, NEW t, NEW u, Steady(s, t), Steady(t, u)
    PROVE  Steady(s, u)
  BY DEF Steady, Live

(* An accepted fence is of the incarnation of its session.                 *)
LEMMA AcceptSteady ==
    ASSUME NEW s \in Session, NEW f \in Fence, f.inc = s.fence.inc
    PROVE  AcceptFence(s, f) \in Session /\ Steady(s, AcceptFence(s, f))
  <1>1. /\ AcceptFence(s, f).fence = f
        /\ AcceptFence(s, f).terminal = s.terminal
        /\ AcceptFence(s, f).generation = s.generation
    BY DEF AcceptFence, Session
  <1> QED
    BY <1>1, AcceptFenceType DEF Steady

(* Detaching, resuming and the ends of an append's operation.              *)
LEMMA LeaseSteady ==
    ASSUME NEW s \in Session, NEW c \in Nat
    PROVE  /\ Steady(s, BeginOperation(s, c, 0))
           /\ Steady(s, EndOperation(s, c, 0))
           /\ Live(s) => Steady(s, DetachLease(s, 0)) /\ Steady(s, ResumeLease(s, 0))
  <1>1. /\ BeginOperation(s, c, 0).fence = s.fence
        /\ BeginOperation(s, c, 0).terminal = s.terminal
        /\ BeginOperation(s, c, 0).generation = s.generation
    BY DEF BeginOperation, Session
  <1>2. /\ EndOperation(s, c, 0).fence = s.fence
        /\ EndOperation(s, c, 0).terminal = s.terminal
        /\ EndOperation(s, c, 0).generation = s.generation
    BY DEF EndOperation, Session
  <1>3. DetachLease(s, 0).fence = s.fence /\ DetachLease(s, 0).terminal = s.terminal
    BY DEF DetachLease, Session
  <1>4. ResumeLease(s, 0).fence = s.fence /\ ResumeLease(s, 0).terminal = s.terminal
    BY DEF ResumeLease, Session
  <1> QED
    BY <1>1, <1>2, <1>3, <1>4 DEF Steady

(* Releasing and reserving resources.                                      *)
LEMMA ResourcesSteady ==
    ASSUME NEW s \in Session, NEW stage \in Stages, NEW request \in Request, NEW f \in Fence,
           NEW requests
    PROVE  /\ Steady(s, Reserve(s, stage, request, f))
           /\ Steady(s, ReleaseRequests(s, requests))
           /\ Steady(s, ReleaseFence(s, f))
           /\ ReleaseAll(s) \in Session /\ Steady(s, ReleaseAll(s))
           /\ Reserve(s, stage, request, f).fence = s.fence
  <1>1. /\ ReleaseRequests(s, requests).fence = s.fence
        /\ ReleaseRequests(s, requests).terminal = s.terminal
        /\ ReleaseRequests(s, requests).generation = s.generation
    BY DEF ReleaseRequests, Session
  <1>2. /\ ReleaseFence(s, f).fence = s.fence
        /\ ReleaseFence(s, f).terminal = s.terminal
        /\ ReleaseFence(s, f).generation = s.generation
    BY DEF ReleaseFence, Session
  <1>3. /\ ReleaseAll(s).fence = s.fence
        /\ ReleaseAll(s).terminal = s.terminal
        /\ ReleaseAll(s).generation = s.generation
        /\ ReleaseAll(s) \in Session
    BY DEF ReleaseAll, Session
  <1>4. /\ Reserve(s, stage, request, f).fence = s.fence
        /\ Reserve(s, stage, request, f).terminal = s.terminal
        /\ Reserve(s, stage, request, f).generation = s.generation
    BY DEF Reserve, Session
  <1> QED
    BY <1>1, <1>2, <1>3, <1>4 DEF Steady

(* A bind accepts its fence.                                               *)
LEMMA BindSteady ==
    ASSUME NEW s \in Session, NEW stage \in Stages, NEW request \in Request, NEW f \in Fence,
           f.inc = s.fence.inc
    PROVE  Bind(s, stage, request, f) \in Session /\ Steady(s, Bind(s, stage, request, f))
  <1> DEFINE t == AcceptFence(s, f)
             u == Bind(s, stage, request, f)
  <1>1. t \in Session /\ Steady(s, t)
    BY AcceptSteady
  <1>2. u \in Session
    BY ResourceTypes
  <1>3. u.fence = t.fence /\ u.terminal = t.terminal /\ u.generation = t.generation
    BY <1>1 DEF Bind, Session
  <1> HIDE DEF t, u
  <1>4. Steady(s, u)
    BY <1>1, <1>3 DEF Steady
  <1> QED
    BY <1>2, <1>4 DEF u

(* A committed append changes the fence and the counters.                  *)
LEMMA CommitSteady ==
    ASSUME NEW s \in Session, NEW r \in Reservation, r.fence.inc = s.fence.inc
    PROVE  /\ CommitAppend(s, r) \in Session
           /\ Steady(s, CommitAppend(s, r))
           /\ CommitAppend(s, r).fence = r.fence
  <1> DEFINE t == AcceptFence(s, r.fence)
             u == CommitAppend(s, r)
  <1>1. r.fence \in Fence
    BY DEF Reservation
  <1>2. t \in Session /\ Steady(s, t) /\ t.fence = r.fence
    BY <1>1, AcceptSteady DEF AcceptFence, Session
  <1>3. u \in Session
    BY CommitAppendType
  <1>4. u.fence = t.fence /\ u.terminal = t.terminal /\ u.generation = t.generation
    BY <1>2 DEF CommitAppend, Session
  <1> HIDE DEF t, u
  <1>5. Steady(s, u) /\ u.fence = r.fence
    BY <1>2, <1>4 DEF Steady
  <1> QED
    BY <1>3, <1>5 DEF u

(* A cancel moves the fence within the incarnation.                        *)
LEMMA CancelSteady ==
    ASSUME NEW s \in Session, NEW f \in Fence, NEW next \in Fence, CanCancel(s, f, next)
    PROVE  PrepareCancel(s, next) \in Session /\ Steady(s, PrepareCancel(s, next))
  <1>1. Steady(s, s)
    BY DEF Steady
  <1> QED
    BY <1>1, AcceptSteady DEF PrepareCancel, CanCancel

(* A close keeps the fence, and a session that is closing as it is.        *)
LEMMA CloseFacts ==
    ASSUME NEW s \in Session, NEW reason \in Reasons
    PROVE  /\ BeginClose(s, reason) \in Session
           /\ ~Live(BeginClose(s, reason))
           /\ BeginClose(s, reason).fence = s.fence
           /\ Live(s) => BeginClose(s, reason).generation = s.generation + 1
           /\ ~Live(s) => BeginClose(s, reason) = s
  <1>1. reason # "none"
    BY DEF Reasons
  <1>2. BeginClose(s, reason) \in Session
    BY BeginCloseType
  <1>3. CASE Live(s)
    BY <1>1, <1>2, <1>3 DEF BeginClose, MarkTerminal, Live, Session
  <1>4. CASE ~Live(s)
    BY <1>2, <1>4 DEF BeginClose
  <1> QED
    BY <1>3, <1>4

(* handle_open, with or without its rollback, makes a session.             *)
LEMMA OpenedFacts ==
    ASSUME NEW f \in Fence
    PROVE  /\ Opened(f) \in Session /\ Opened(f).fence = f /\ Live(Opened(f))
           /\ BeginClose(Opened(f), "open_rollback") \in Session
           /\ BeginClose(Opened(f), "open_rollback").fence = f
  <1>1. /\ NewSession(f, 0) \in Session
        /\ NewSession(f, 0).fence = f /\ Live(NewSession(f, 0))
    BY NewSessionType DEF NewSession, Live
  <1>2. EntryStage \in Stages /\ RequestOf(f) \in Request
    BY ControlAssumption, RequestType
  <1>3. Opened(f) \in Session /\ Opened(f).fence = f /\ Live(Opened(f))
    BY <1>1, <1>2, ResourceTypes, ResourcesSteady DEF Opened, Steady, Live
  <1>4. "open_rollback" \in Reasons
    BY DEF Reasons
  <1> QED
    BY <1>3, <1>4, CloseFacts

(* The end of an append's operation.                                       *)
LEMMA EndAppendSteady ==
    ASSUME NEW s \in Session
    PROVE  EndAppend(s) \in Session /\ Steady(s, EndAppend(s))
  <1>1. Steady(s, s)
    BY DEF Steady
  <1> QED
    BY <1>1, OperationTypes, LeaseSteady DEF EndAppend, AppendOperation

-----------------------------------------------------------------------------
(* Type correctness.                                                       *)

(* A handler that will use the object it took.                             *)
Holding(sid) ==
    /\ handler[sid].pc \in {"compensate", "submit", "undo"}
    /\ handler[sid].msg.kind \in {"append", "cancel", "update"}

ObjectOK(sid) == Object(sid, handler[sid].inc) \in Session

(* What a suspended handler goes on with.                                  *)
HandlerOf(sid) ==
    /\ handler[sid].pc \in {"compensate", "submit", "undo"} => handler[sid].msg \in Message
    /\ handler[sid].pc \in {"submit", "undo"} =>
          handler[sid].msg.kind = "append" /\ handler[sid].res \in Reservation
    /\ Holding(sid) => ObjectOK(sid)

HandlersOK == \A sid \in Sids : HandlerOf(sid)

(* What the reaper and the orchestration loop go on with.                  *)
ReaperOK ==
    /\ reaper.pc = "compensations" => reaper.todo \subseteq Sids
    /\ reaper.pc = "controls" => reaper.todo \subseteq Control
    /\ reaper.pc = "expirations" => reaper.todo \subseteq Expiration

SegmentOK == loop.pc = "forward" => loop.sid \in Sids /\ loop.fence \in Fence

TInv == TypeOK /\ HandlersOK /\ ReaperOK /\ SegmentOK

Registry == [Sids -> Session \cup {NoSession}]

(* The object of a handler is there as long as the session is registered   *)
(* with its incarnation, and detached afterwards.                          *)
ObjectKept(sid) ==
    \/ detached'[sid] \in Session
    \/ /\ detached'[sid] = detached[sid]
       /\ IsRegistered(sid, handler[sid].inc) =>
             sessions'[sid] # NoSession /\ sessions'[sid].fence.inc = sessions[sid].fence.inc

SameHandler(sid) ==
    /\ handler'[sid].pc = handler[sid].pc /\ handler'[sid].msg = handler[sid].msg
    /\ handler'[sid].inc = handler[sid].inc /\ handler'[sid].res = handler[sid].res

(* A handler that others keep waiting is as it was.                        *)
LEMMA HandlerKept ==
    ASSUME NEW sid \in Sids, HandlerOf(sid), sessions' \in Registry, SameHandler(sid),
           Holding(sid) => ObjectKept(sid)
    PROVE  HandlerOf(sid)'
  <1>1. ASSUME Holding(sid)' PROVE ObjectOK(sid)'
    <2>0. PICK i : i = handler[sid].inc
      OBVIOUS
    <2>1. Holding(sid) /\ handler[sid].inc = i /\ handler'[sid].inc = i
      BY <1>1, <2>0 DEF Holding, SameHandler
    <2>2. Object(sid, i) \in Session /\ ObjectKept(sid)
      BY <2>1 DEF HandlerOf, ObjectOK
    <2>3. sessions'[sid] \in Session \cup {NoSession}
      BY DEF Registry
    <2>4. CASE IsRegistered(sid, i)'
      BY <2>3, <2>4, <2>1 DEF IsRegistered, Registered, ObjectOK, Object
    <2>5. CASE ~IsRegistered(sid, i)'
      <3>1. detached'[sid] \in Session
        BY <2>1, <2>2, <2>5 DEF ObjectKept, IsRegistered, Registered, Object
      <3> QED
        BY <3>1, <2>5, <2>1 DEF ObjectOK, Object
    <2> QED
      BY <2>4, <2>5
  <1> QED
    BY <1>1 DEF HandlerOf, SameHandler, Holding

(* Nothing of the handler of a session was touched.                        *)
Untouched(sid) ==
    /\ sessions'[sid] = sessions[sid] /\ detached'[sid] = detached[sid]
    /\ handler'[sid] = handler[sid]

(* A step of one handler.                                                  *)
LEMMA HandlersStep ==
    ASSUME HandlersOK, sessions' \in Registry, NEW sid \in Sids, HandlerOf(sid)',
           \A other \in Sids \ {sid} : Untouched(other)
    PROVE  HandlersOK'
  <1> SUFFICES ASSUME NEW other \in Sids \ {sid} PROVE HandlerOf(other)'
    BY DEF HandlersOK
  <1>1. HandlerOf(other) /\ SameHandler(other) /\ ObjectKept(other)
    BY DEF HandlersOK, Untouched, SameHandler, ObjectKept, IsRegistered, Registered
  <1> QED
    BY <1>1, HandlerKept

(* A step of somebody else.                                                *)
LEMMA HandlersFrame ==
    ASSUME HandlersOK, sessions' \in Registry,
           \A sid \in Sids : SameHandler(sid) /\ (Holding(sid) => ObjectKept(sid))
    PROVE  HandlersOK'
  BY HandlerKept DEF HandlersOK

(* A handler suspends with what it has made of its session.                *)
LEMMA SuspendFacts ==
    ASSUME TypeOK, NEW sid \in Sids, NEW inc \in Nat, NEW s \in Session, NEW h \in Handler,
           Suspend(sid, inc, s, h), IsRegistered(sid, inc) => s.fence.inc = inc
    PROVE  /\ sessions' \in Registry /\ detached' \in Registry /\ handler' \in [Sids -> Handler]
           /\ handler'[sid] = h
           /\ Object(sid, inc)' = s
           /\ \A other \in Sids \ {sid} : Untouched(other)
  <1>1. /\ sessions' \in Registry /\ detached' \in Registry /\ handler' \in [Sids -> Handler]
        /\ handler'[sid] = h
        /\ \A other \in Sids \ {sid} : Untouched(other)
    BY DEF TypeOK, Suspend, Stored, Registry, Untouched
  <1>2. s # NoSession
    BY ControlAssumption
  <1>3. CASE IsRegistered(sid, inc)
    <2>1. sessions'[sid] = s
      BY <1>3 DEF TypeOK, Suspend, Stored
    <2>2. IsRegistered(sid, inc)'
      BY <1>2, <1>3, <2>1 DEF IsRegistered, Registered
    <2> QED
      BY <1>1, <2>1, <2>2 DEF Object
  <1>4. CASE ~IsRegistered(sid, inc)
    <2>1. sessions' = sessions /\ detached'[sid] = s
      BY <1>4 DEF TypeOK, Suspend, Stored
    <2>2. ~IsRegistered(sid, inc)'
      BY <1>4, <2>1 DEF IsRegistered, Registered
    <2> QED
      BY <1>1, <2>1, <2>2 DEF Object
  <1> QED
    BY <1>1, <1>3, <1>4

(* A handler that has answered holds nothing.                              *)
LEMMA IdleFacts ==
    /\ IdleHandler \in Handler
    /\ \A sid \in Sids : handler'[sid] = IdleHandler => HandlerOf(sid)'
  BY DEF IdleHandler, Handler, Outcomes, HandlerOf, Holding

(* A handler answers, with the session it has made.                        *)
LEMMA AnswerFacts ==
    ASSUME TypeOK, HandlersOK, NEW sid \in Sids, NEW inc, NEW s \in Session, Answer(sid, inc, s)
    PROVE  /\ sessions' \in Registry /\ detached' \in Registry /\ handler' \in [Sids -> Handler]
           /\ HandlersOK'
  <1>1. /\ sessions' \in Registry /\ detached' \in Registry /\ handler' \in [Sids -> Handler]
        /\ handler'[sid] = IdleHandler
        /\ \A other \in Sids \ {sid} : Untouched(other)
    BY IdleFacts DEF TypeOK, Answer, Stored, Registry, Untouched
  <1> QED
    BY <1>1, IdleFacts, HandlersStep

(* A handler answers and leaves its session as it is.                      *)
LEMMA AnswerUnchangedFacts ==
    ASSUME TypeOK, HandlersOK, NEW sid \in Sids, AnswerUnchanged(sid)
    PROVE  /\ sessions' \in Registry /\ detached' \in Registry /\ handler' \in [Sids -> Handler]
           /\ HandlersOK'
  <1>1. /\ sessions' \in Registry /\ detached' \in Registry /\ handler' \in [Sids -> Handler]
        /\ handler'[sid] = IdleHandler
        /\ \A other \in Sids \ {sid} : Untouched(other)
    BY IdleFacts DEF TypeOK, AnswerUnchanged, Registry, Untouched
  <1> QED
    BY <1>1, IdleFacts, HandlersStep

(* The sessions that are finalized leave the registry; handlers keep what  *)
(* they hold.                                                              *)
LEMMA FinalizeFacts ==
    ASSUME TypeOK, NEW ss \in Registry, NEW sids \in SUBSET Registered, Finalize(ss, sids),
           \A sid \in Sids : sessions[sid] # NoSession =>
               ss[sid] # NoSession /\ ss[sid].fence.inc = sessions[sid].fence.inc
    PROVE  /\ sessions' \in Registry /\ detached' \in Registry
           /\ \A sid \in Sids : Holding(sid) => ObjectKept(sid)
  <1>1. \A sid \in sids : ReleaseAll(ss[sid]) \in Session
    <2> TAKE sid \in sids
    <2>1. ss[sid] \in Session
      BY DEF Registry, Registered
    <2> QED
      BY <2>1 DEF ReleaseAll, Session
  <1>2. sessions' \in Registry
    BY DEF Finalize, Registry
  <1>3. \A sid \in Sids : detached'[sid] =
           IF sid \in sids /\ HoldsObject(sid) THEN ReleaseAll(ss[sid]) ELSE detached[sid]
    BY DEF Finalize
  <1>4. detached' \in Registry
    BY <1>1 DEF Finalize, Registry, TypeOK
  <1>5. ASSUME NEW sid \in Sids, Holding(sid) PROVE ObjectKept(sid)
    <2>1. CASE sid \in sids /\ HoldsObject(sid)
      BY <2>1, <1>1, <1>3 DEF ObjectKept
    <2>2. CASE sid \notin sids
      BY <2>2, <1>3 DEF ObjectKept, Finalize, IsRegistered, Registered
    <2>3. CASE sid \in sids /\ ~HoldsObject(sid)
      <3>1. ~IsRegistered(sid, handler[sid].inc)
        BY <2>3, <1>5 DEF HoldsObject, Holding
      <3> QED
        BY <3>1, <2>3, <1>3 DEF ObjectKept
    <2> QED
      BY <2>1, <2>2, <2>3
  <1> QED
    BY <1>2, <1>4, <1>5

-----------------------------------------------------------------------------
(* The blocks that the actions are built from.                             *)

(* An abort leaves requests of stages in the stages.                       *)
LEMMA SendAbortType ==
    ASSUME TypeOK, NEW ids, NEW ok, SendAbort(ids, ok)
    PROVE  engine' \subseteq engine /\ engine' \subseteq StageRequest /\ failures' \in Nat
  BY DEF TypeOK, SendAbort, InEngine

(* A control cleanup that is joined or started.                            *)
LEMMA JoinControlType ==
    ASSUME TypeOK, NEW c \in Control, JoinControl(c)
    PROVE  controlTasks' \subseteq Task /\ engine' \subseteq StageRequest /\ failures' \in Nat
  <1>1. CASE \E t \in controlTasks : ControlKey(t.record) = ControlKey(c)
    BY <1>1 DEF JoinControl, TypeOK, stageVars
  <1>2. CASE ~ \E t \in controlTasks : ControlKey(t.record) = ControlKey(c)
    <2>1. PICK ok \in BOOLEAN : /\ SendAbort(Owned(c.sid, c.submitted), ok)
                                /\ controlTasks' = controlTasks \cup {[record |-> c, ok |-> ok]}
      BY <1>2 DEF JoinControl
    <2>2. [record |-> c, ok |-> ok] \in Task
      BY DEF Task
    <2> QED
      BY <2>1, <2>2, SendAbortType DEF TypeOK
  <1> QED
    BY <1>1, <1>2

(* A compensation that is joined or started.                               *)
LEMMA JoinCompensationType ==
    ASSUME TypeOK, NEW sid \in Sids, NEW ids \in SUBSET Request, JoinCompensation(sid, ids)
    PROVE  /\ compensating' \in [Sids -> SUBSET Compensation]
           /\ engine' \subseteq StageRequest /\ failures' \in Nat
  <1>1. CASE compensating[sid] # {}
    BY <1>1 DEF JoinCompensation, TypeOK, stageVars
  <1>2. CASE compensating[sid] = {}
    <2>1. PICK ok \in BOOLEAN :
             /\ SendAbort(Owned(sid, ids), ok)
             /\ compensating' = [compensating EXCEPT ![sid] = {[ids |-> ids, ok |-> ok]}]
      BY <1>2 DEF JoinCompensation
    <2>2. [ids |-> ids, ok |-> ok] \in Compensation
      BY DEF Compensation
    <2> QED
      BY <2>1, <2>2, SendAbortType DEF TypeOK
  <1> QED
    BY <1>1, <1>2

(* Preregistered requests are popped.                                      *)
LEMMA PoppedType ==
    ASSUME TypeOK, NEW ids
    PROVE  Popped(ids) \in [Sids -> SUBSET Fence]
  BY DEF TypeOK, Popped, ForgetRequests

(* What a handler's body may change.                                       *)
BodyVars ==
    /\ sessions \in Registry /\ detached \in Registry /\ handler \in [Sids -> Handler]
    /\ HandlersOK
    /\ identity \in [Sids -> SUBSET Fence]
    /\ controls \subseteq Control /\ controlTasks \subseteq Task
    /\ loop \in Loop /\ SegmentOK
    /\ engine \subseteq StageRequest /\ failures \in Nat

(* A handler that awaits its control cleanup.                              *)
LEMMA AwaitControlType ==
    ASSUME TInv, NEW sid \in Sids, NEW inc \in Nat, NEW s \in Session, NEW m \in Message,
           NEW c \in Control, AwaitControl(sid, inc, s, m, c), UNCHANGED <<identity, loop>>,
           IsRegistered(sid, inc) => s.fence.inc = inc
    PROVE  BodyVars'
  <1> DEFINE h == [IdleHandler EXCEPT !.pc = "cleanup", !.msg = m, !.inc = inc, !.record = c]
  <1>1. h \in Handler /\ h.pc = "cleanup"
    BY DEF IdleHandler, Handler, Outcomes
  <1>2. TypeOK /\ HandlersOK /\ SegmentOK
    BY DEF TInv
  <1>3. Suspend(sid, inc, s, h) /\ controls' = controls \cup {c} /\ JoinControl(c)
    BY DEF AwaitControl
  <1> HIDE DEF h
  <1>4. /\ sessions' \in Registry /\ detached' \in Registry /\ handler' \in [Sids -> Handler]
        /\ handler'[sid] = h
        /\ \A other \in Sids \ {sid} : Untouched(other)
    BY <1>1, <1>2, <1>3, SuspendFacts
  <1>5. HandlerOf(sid)'
    BY <1>1, <1>4 DEF HandlerOf, Holding
  <1>6. HandlersOK'
    BY <1>2, <1>4, <1>5, HandlersStep
  <1>7. controls' \subseteq Control /\ controlTasks' \subseteq Task
        /\ engine' \subseteq StageRequest /\ failures' \in Nat
    BY <1>2, <1>3, JoinControlType DEF TypeOK
  <1> QED
    BY <1>2, <1>4, <1>6, <1>7 DEF BodyVars, SegmentOK, TypeOK

(* What is left when the body changes no session and no stage.             *)
LEMMA AnswerBody ==
    ASSUME TInv, sessions' \in Registry, detached' \in Registry, handler' \in [Sids -> Handler],
           HandlersOK', UNCHANGED <<identity, loop, controlRecords, stageVars>>
    PROVE  BodyVars'
  BY DEF BodyVars, TInv, TypeOK, controlRecords, stageVars, SegmentOK

(* A message has two fences.                                               *)
LEMMA MessageFacts ==
    ASSUME NEW m \in Message
    PROVE  m.fence \in Fence /\ m.next \in Fence /\ m.kind \in Kinds
  BY DEF Message

(* The object is of the incarnation that the handler took.                 *)
LEMMA ObjectInc ==
    ASSUME NEW sid, NEW inc, IsRegistered(sid, inc)
    PROVE  Object(sid, inc).fence.inc = inc
  BY DEF Object, IsRegistered

(* handle_append sends its request.                                        *)
LEMMA AppendBodyType ==
    ASSUME TInv, NEW sid \in Sids, NEW inc \in Nat, NEW m \in Message, m.kind = "append",
           Object(sid, inc) \in Session, AppendBody(sid, inc, m)
    PROVE  BodyVars'
  <1> DEFINE s == Object(sid, inc)
             f == m.fence
             r == RequestOf(f)
  <1>1. TypeOK /\ HandlersOK /\ SegmentOK /\ s \in Session /\ f \in Fence
    BY MessageFacts DEF TInv
  <1>2. CASE CanAppend(s, f)
    <2>1. PICK ok \in BOOLEAN, sent \in BOOLEAN :
             /\ Suspend(sid, inc, Reserve(BeginOperation(s, AppendOperation, 0), EntryStage, r, f),
                        [IdleHandler EXCEPT !.pc = "submit", !.msg = m, !.inc = inc,
                             !.res = PrepareAppend(s, f), !.outcome = Outcome(ok)])
             /\ identity' = [identity EXCEPT ![sid] = EnsureRequest(@, f)]
             /\ loop' = SegmentRefenced(sid, f)
             /\ engine' = IF sent
                          THEN engine \cup {[stage |-> EntryStage, sid |-> sid, request |-> r]}
                          ELSE engine
             /\ UNCHANGED <<controlRecords, failures>>
      BY <1>2 DEF AppendBody
    <2> DEFINE h == [IdleHandler EXCEPT !.pc = "submit", !.msg = m, !.inc = inc,
                             !.res = PrepareAppend(s, f), !.outcome = Outcome(ok)]
               b == BeginOperation(s, AppendOperation, 0)
               t == Reserve(b, EntryStage, r, f)
    <2>2. PrepareAppend(s, f) \in Reservation
      BY <1>1, PrepareAppendType
    <2>3. /\ h \in Handler /\ h.pc = "submit" /\ h.msg = m /\ h.inc = inc
          /\ h.res \in Reservation
      BY <2>2 DEF IdleHandler, Handler, Outcomes, Outcome
    <2>4. EntryStage \in Stages /\ r \in Request
      BY <1>1, ControlAssumption, RequestType
    <2>5. b \in Session /\ Steady(s, b)
      BY <1>1, OperationTypes, LeaseSteady DEF AppendOperation
    <2>6. t \in Session /\ Steady(b, t)
      BY <1>1, <2>4, <2>5, ResourceTypes, ResourcesSteady
    <2>7. t.fence.inc = s.fence.inc
      BY <2>5, <2>6 DEF Steady
    <2>8. Suspend(sid, inc, t, h)
      BY <2>1
    <2>9. IsRegistered(sid, inc) => t.fence.inc = inc
      BY <2>7, ObjectInc
    <2>10. [stage |-> EntryStage, sid |-> sid, request |-> r] \in StageRequest
      BY <2>4 DEF StageRequest
    <2> HIDE DEF h, t, b
    <2>11. /\ sessions' \in Registry /\ detached' \in Registry /\ handler' \in [Sids -> Handler]
           /\ handler'[sid] = h /\ Object(sid, inc)' = t
           /\ \A other \in Sids \ {sid} : Untouched(other)
      BY <1>1, <2>3, <2>6, <2>8, <2>9, SuspendFacts
    <2>12. HandlerOf(sid)'
      BY <2>3, <2>6, <2>11 DEF HandlerOf, Holding, ObjectOK
    <2>13. HandlersOK'
      BY <1>1, <2>11, <2>12, HandlersStep
    <2>14. identity' \in [Sids -> SUBSET Fence]
      BY <1>1, <2>1 DEF EnsureRequest, TypeOK
    <2>15. loop' \in Loop /\ SegmentOK'
      BY <1>1, <2>1 DEF SegmentRefenced, SegmentOK, Loop, TypeOK
    <2>16. /\ controls' \subseteq Control /\ controlTasks' \subseteq Task
           /\ engine' \subseteq StageRequest /\ failures' \in Nat
      BY <1>1, <2>1, <2>10 DEF controlRecords, TypeOK
    <2> QED
      BY <2>11, <2>13, <2>14, <2>15, <2>16 DEF BodyVars
  <1>3. CASE ~CanAppend(s, f)
    BY <1>1, <1>3, AnswerUnchangedFacts, AnswerBody DEF AppendBody, stageVars
  <1> QED
    BY <1>2, <1>3

(* The records of controls name requests of a session.                     *)
LEMMA RequestSets ==
    ASSUME NEW s \in Session, NEW f
    PROVE  /\ AllRequests(s) \subseteq Request /\ SubmittedRequests(s) \subseteq Request
           /\ UnsubmittedRequests(s) \subseteq Request /\ RequestsOfFence(s, f) \subseteq Request
  <1>1. s.resources \subseteq Resource
    BY DEF Session
  <1> QED
    BY <1>1 DEF AllRequests, SubmittedRequests, UnsubmittedRequests, RequestsOfFence, Resource

-----------------------------------------------------------------------------
(* The bodies of the handlers.                                             *)

(* The pending controls of a key are controls.                             *)
LEMMA PendingType ==
    ASSUME TypeOK, NEW kind, NEW sid, NEW f
    PROVE  Pending(kind, sid, f) \subseteq controls /\ Pending(kind, sid, f) \subseteq Control
  BY DEF Pending, TypeOK

(* handle_signal with a cancel.                                            *)
LEMMA CancelBodyType ==
    ASSUME TInv, NEW sid \in Sids, NEW inc \in Nat, NEW m \in Message,
           Object(sid, inc) \in Session, CancelBody(sid, inc, m)
    PROVE  BodyVars'
  <1> DEFINE s == Object(sid, inc)
             t == PrepareCancel(s, m.next)
             pending == Pending("cancel", sid, m.fence)
             r == CancelRecord(sid, m.fence, t)
  <1>1. /\ TypeOK /\ HandlersOK /\ s \in Session /\ m.fence \in Fence /\ m.next \in Fence
        /\ UNCHANGED <<identity, loop>> /\ pending \subseteq Control
    BY MessageFacts, PendingType DEF TInv, CancelBody
  <1>2. IsRegistered(sid, inc) => s.fence.inc = inc
    BY ObjectInc
  <1>3. ASSUME NEW c \in pending, AwaitControl(sid, inc, s, m, c) PROVE BodyVars'
    BY <1>1, <1>2, <1>3, AwaitControlType
  <1>4. ASSUME CanCancel(s, m.fence, m.next), AwaitControl(sid, inc, t, m, r) PROVE BodyVars'
    <2>1. t \in Session /\ t.fence.inc = s.fence.inc
      BY <1>1, <1>4, CancelSteady DEF Steady
    <2>2. RequestsOfFence(t, m.fence) \subseteq Request
      BY <2>1, RequestSets
    <2>3. r \in Control
      BY <1>1, <2>2 DEF CancelRecord, Control
    <2> HIDE DEF t, r
    <2> QED
      BY <1>1, <1>2, <1>4, <2>1, <2>3, AwaitControlType
  <1>5. ASSUME AnswerUnchanged(sid), UNCHANGED <<controlRecords, stageVars>> PROVE BodyVars'
    BY <1>1, <1>5, AnswerUnchangedFacts, AnswerBody
  <1> QED
    BY <1>3, <1>4, <1>5 DEF CancelBody

(* handle_signal with an update.                                           *)
LEMMA UpdateBodyType ==
    ASSUME TInv, NEW sid \in Sids, NEW inc \in Nat, NEW m \in Message,
           Object(sid, inc) \in Session, UpdateBody(sid, inc, m)
    PROVE  BodyVars'
  <1>1. TypeOK /\ HandlersOK /\ UNCHANGED <<identity, loop, controlRecords, stageVars>>
    BY DEF TInv, UpdateBody
  <1>2. AcceptFence(Object(sid, inc), m.fence) \in Session
    BY MessageFacts, AcceptFenceType
  <1>3. CASE Answer(sid, inc, AcceptFence(Object(sid, inc), m.fence))
    BY <1>1, <1>2, <1>3, AnswerFacts, AnswerBody
  <1>4. CASE AnswerUnchanged(sid)
    BY <1>1, <1>4, AnswerUnchangedFacts, AnswerBody
  <1> QED
    BY <1>3, <1>4 DEF UpdateBody

(* handle_close.                                                           *)
LEMMA CloseBodyType ==
    ASSUME TInv, NEW sid \in Sids, NEW m \in Message, CloseBody(sid, m)
    PROVE  BodyVars'
  <1> DEFINE s == sessions[sid]
             t == BeginClose(AcceptFence(s, m.fence), "explicit_close")
             pending == Pending("close", sid, m.fence)
             r == CloseRecord("close", sid, m.fence, s)
  <1>1. /\ TypeOK /\ HandlersOK /\ m.fence \in Fence
        /\ UNCHANGED <<identity, loop>> /\ pending \subseteq Control
    BY MessageFacts, PendingType DEF TInv, CloseBody
  <1>2. ASSUME sid \in Registered PROVE s \in Session /\ s.fence.inc \in Nat
    BY <1>1, <1>2 DEF Registered, TypeOK, Session, Fence
  <1>3. ASSUME NEW c \in pending, sid \in Registered, AwaitControl(sid, s.fence.inc, s, m, c)
        PROVE  BodyVars'
    BY <1>1, <1>2, <1>3, AwaitControlType
  <1>4. ASSUME sid \in Registered, ValidFence(s, m.fence), AwaitControl(sid, s.fence.inc, t, m, r)
        PROVE  BodyVars'
    <2>1. "explicit_close" \in Reasons
      BY DEF Reasons
    <2>2. AcceptFence(s, m.fence) \in Session /\ AcceptFence(s, m.fence).fence.inc = s.fence.inc
      BY <1>1, <1>2, <1>4, AcceptSteady DEF ValidFence, Steady
    <2>3. t \in Session /\ t.fence.inc = s.fence.inc
      BY <2>1, <2>2, CloseFacts
    <2>4. SubmittedRequests(s) \subseteq Request /\ UnsubmittedRequests(s) \subseteq Request
      BY <1>2, <1>4, RequestSets
    <2>5. r \in Control
      BY <1>1, <2>4 DEF CloseRecord, Control
    <2> HIDE DEF t, r
    <2> QED
      BY <1>1, <1>2, <1>4, <2>3, <2>5, AwaitControlType
  <1>5. ASSUME AnswerUnchanged(sid), UNCHANGED <<controlRecords, stageVars>> PROVE BodyVars'
    BY <1>1, <1>5, AnswerUnchangedFacts, AnswerBody
  <1> QED
    BY <1>3, <1>4, <1>5 DEF CloseBody

(* Every body keeps the types.                                             *)
LEMMA BodyType ==
    ASSUME TInv, NEW sid \in Sids, NEW inc \in Nat, NEW m \in Message,
           m.kind \in {"append", "cancel", "update"} => Object(sid, inc) \in Session,
           Body(sid, inc, m)
    PROVE  TInv'
  <1>1. BodyVars'
    BY AppendBodyType, CancelBodyType, UpdateBodyType, CloseBodyType DEF Body
  <1>2. UNCHANGED <<nextInc, undoRecords, expirations, reaper, crashed>>
    BY DEF Body
  <1> QED
    BY <1>1, <1>2 DEF BodyVars, TInv, TypeOK, ReaperOK, undoRecords, Registry

(* An open and its rollback.                                               *)
LEMMA OpenType ==
    ASSUME TInv, NEW sid \in Sids, NEW f \in Fences, Open(sid, f)
    PROVE  TInv'
  <1>1. TypeOK /\ HandlersOK /\ ReaperOK /\ SegmentOK /\ f \in Fence /\ f.inc + 1 \in Nat
    BY ControlAssumption DEF TInv, Fence
  <1>2. sessions' \in Registry
    BY <1>1, OpenedFacts DEF Open, TypeOK, Registry
  <1>3. HandlersOK'
    <2>1. HandlerOf(sid)'
      BY DEF Open, Admitted, HandlerOf, Holding
    <2>2. \A other \in Sids \ {sid} : Untouched(other)
      BY <1>1 DEF Open, Untouched, TypeOK
    <2> QED
      BY <1>1, <1>2, <2>1, <2>2, HandlersStep
  <1>4. identity' \in [Sids -> SUBSET Fence] /\ nextInc' \in [Sids -> Nat]
    BY <1>1 DEF Open, Admitted, EnsureRequest, TypeOK
  <1> QED
    BY <1>1, <1>2, <1>3, <1>4 DEF Open, TInv, TypeOK, ReaperOK, SegmentOK, records, stageVars,
                                  Registry

(* An open whose sampling parameters are refused.                          *)
LEMMA OpenFailsType ==
    ASSUME TInv, NEW sid \in Sids, NEW f \in Fences, OpenFails(sid, f)
    PROVE  TInv'
  <1> DEFINE c == [kind |-> "open_rollback", sid |-> sid, fence |-> f, submitted |-> {},
                   reserved |-> AllRequests(Opened(f))]
             m == [kind |-> "open", fence |-> f, next |-> f]
             h == [IdleHandler EXCEPT !.pc = "cleanup", !.inc = f.inc, !.record = c, !.msg = m]
  <1>1. /\ TypeOK /\ HandlersOK /\ ReaperOK /\ SegmentOK
        /\ f \in Fence /\ f.inc \in Nat /\ f.inc + 1 \in Nat
    BY ControlAssumption DEF TInv, Fence
  <1>2. c \in Control
    <2>1. AllRequests(Opened(f)) \subseteq Request
      BY <1>1, OpenedFacts, RequestSets
    <2> QED
      BY <1>1, <2>1 DEF Control
  <1>3. m \in Message
    BY <1>1 DEF Message, Kinds
  <1>4. handler' = [handler EXCEPT ![sid] = h] /\ controls' = controls \cup {c} /\ JoinControl(c)
    BY DEF OpenFails
  <1> HIDE DEF c, m
  <1>5. h \in Handler /\ h.pc = "cleanup"
    BY <1>1, <1>2, <1>3 DEF IdleHandler, Handler, Outcomes
  <1> HIDE DEF h
  <1>6. sessions' \in Registry
    BY <1>1, OpenedFacts DEF OpenFails, TypeOK, Registry
  <1>7. handler' \in [Sids -> Handler] /\ handler'[sid] = h
    BY <1>1, <1>4, <1>5 DEF TypeOK
  <1>8. HandlersOK'
    <2>1. HandlerOf(sid)'
      BY <1>5, <1>7 DEF HandlerOf, Holding
    <2>2. \A other \in Sids \ {sid} : Untouched(other)
      BY <1>1, <1>4 DEF OpenFails, Untouched, TypeOK
    <2> QED
      BY <1>1, <1>6, <2>1, <2>2, HandlersStep
  <1>9. nextInc' \in [Sids -> Nat]
    BY <1>1 DEF OpenFails, Admitted, TypeOK
  <1>10. controls' \subseteq Control /\ controlTasks' \subseteq Task
        /\ engine' \subseteq StageRequest /\ failures' \in Nat
    BY <1>1, <1>2, <1>4, JoinControlType DEF TypeOK
  <1> QED
    BY <1>1, <1>6, <1>7, <1>8, <1>9, <1>10
    DEF OpenFails, TInv, TypeOK, ReaperOK, SegmentOK, undoRecords, Registry

-----------------------------------------------------------------------------
(* The handlers and the leases.                                            *)

(* A control begins.                                                       *)
LEMMA BeginType ==
    ASSUME TInv, NEW sid \in Sids, NEW m \in Messages, Begin(sid, m)
    PROVE  TInv'
  <1> DEFINE s == sessions[sid]
             inc == s.fence.inc
             h == [IdleHandler EXCEPT !.pc = "compensate", !.msg = m, !.inc = inc]
  <1>1. /\ TypeOK /\ HandlersOK /\ ReaperOK /\ SegmentOK
        /\ s \in Session /\ inc \in Nat /\ IsRegistered(sid, inc) /\ Object(sid, inc) = s
    BY DEF TInv, Begin, Registered, TypeOK, Session, Fence, IsRegistered, Object
  <1>2. m \in Message
    BY ControlAssumption DEF Messages, Message, Kinds
  <1>3. CASE compensation[sid] = {} /\ Body(sid, inc, m)
    BY <1>1, <1>2, <1>3, BodyType
  <1>4. CASE /\ Suspend(sid, inc, s, h)
             /\ JoinCompensation(sid, compensation[sid])
             /\ UNCHANGED <<identity, nextInc, controlRecords, compensation, expirations, reaper,
                            loop, crashed>>
    <2>1. h \in Handler /\ h.pc = "compensate" /\ h.msg = m /\ h.inc = inc
      BY <1>1, <1>2 DEF IdleHandler, Handler, Outcomes
    <2> HIDE DEF h
    <2>2. PICK i : i = inc
      OBVIOUS
    <2>3. /\ sessions' \in Registry /\ detached' \in Registry /\ handler' \in [Sids -> Handler]
          /\ handler'[sid] = h /\ Object(sid, i)' = s
          /\ \A other \in Sids \ {sid} : Untouched(other)
      BY <1>1, <1>4, <2>1, <2>2, SuspendFacts
    <2>4. handler'[sid].inc = i
      BY <2>1, <2>2, <2>3
    <2>5. ObjectOK(sid)'
      BY <1>1, <2>3, <2>4 DEF ObjectOK
    <2>6. HandlerOf(sid)'
      BY <1>2, <2>1, <2>3, <2>5 DEF HandlerOf
    <2>7. HandlersOK'
      BY <1>1, <2>3, <2>6, HandlersStep
    <2>8. compensation[sid] \in SUBSET Request
      BY <1>1 DEF TypeOK
    <2>9. /\ compensating' \in [Sids -> SUBSET Compensation]
          /\ engine' \subseteq StageRequest /\ failures' \in Nat
      BY <1>1, <1>4, <2>8, JoinCompensationType
    <2> QED
      BY <1>1, <1>4, <2>3, <2>7, <2>9
      DEF TInv, TypeOK, ReaperOK, SegmentOK, controlRecords, Registry
  <1> QED
    BY <1>3, <1>4 DEF Begin

(* A control goes on after the compensation it waited for.                 *)
LEMMA ContinueType ==
    ASSUME TInv, NEW sid \in Sids, Continue(sid)
    PROVE  TInv'
  <1> DEFINE h == handler[sid]
  <1>1. /\ TypeOK /\ HandlersOK /\ ReaperOK /\ SegmentOK
        /\ h \in Handler /\ h.pc = "compensate" /\ HandlerOf(sid)
    BY DEF TInv, TypeOK, HandlersOK, Continue
  <1>2. CASE Body(sid, h.inc, h.msg)
    <2>1. h.inc \in Nat /\ h.msg \in Message
      BY <1>1 DEF Handler, HandlerOf
    <2>2. h.msg.kind \in {"append", "cancel", "update"} => Object(sid, h.inc) \in Session
      BY <1>1 DEF HandlerOf, Holding, ObjectOK
    <2> QED
      BY <1>2, <2>1, <2>2, BodyType
  <1>3. CASE /\ AnswerUnchanged(sid)
             /\ UNCHANGED <<identity, nextInc, records, reaper, loop, stageVars, crashed>>
    BY <1>1, <1>3, AnswerUnchangedFacts
    DEF TInv, TypeOK, ReaperOK, SegmentOK, records, stageVars, Registry
  <1> QED
    BY <1>2, <1>3 DEF Continue

(* What a handler holds while its append is submitted or undone.           *)
LEMMA AppendHolds ==
    ASSUME TInv, NEW sid \in Sids, handler[sid].pc \in {"submit", "undo"}
    PROVE  /\ handler[sid].res \in Reservation /\ handler[sid].res.fence \in Fence
           /\ RequestOf(handler[sid].res.fence) \in Request
           /\ Object(sid, handler[sid].inc) \in Session
  <1>1. HandlerOf(sid)
    BY DEF TInv, HandlersOK
  <1>2. handler[sid].res \in Reservation /\ Holding(sid)
    BY <1>1 DEF HandlerOf, Holding
  <1>3. handler[sid].res.fence \in Fence
    BY <1>2 DEF Reservation
  <1> QED
    BY <1>1, <1>2, <1>3, RequestType DEF HandlerOf, ObjectOK

(* The submission of an append returns.                                    *)
LEMMA SubmittedType ==
    ASSUME TInv, NEW sid \in Sids, Submitted(sid)
    PROVE  TInv'
  <1> DEFINE h == handler[sid]
             s == Object(sid, h.inc)
             f == h.res.fence
             r == RequestOf(f)
             t == Bind(CommitAppend(s, h.res), EntryStage, r, f)
  <1>1. /\ TypeOK /\ HandlersOK /\ ReaperOK /\ SegmentOK /\ h.pc = "submit"
        /\ UNCHANGED <<identity, nextInc, controlRecords, expirations, reaper, loop, crashed>>
    BY DEF TInv, Submitted
  <1>2. h.res \in Reservation /\ f \in Fence /\ r \in Request /\ s \in Session
    BY <1>1, AppendHolds
  <1>3. ASSUME ValidFence(s, f), Answer(sid, h.inc, EndAppend(t)),
               UNCHANGED <<undoRecords, stageVars>>
        PROVE  TInv'
    <2>1. f.inc = s.fence.inc
      BY <1>3 DEF ValidFence
    <2>2. CommitAppend(s, h.res) \in Session /\ CommitAppend(s, h.res).fence = f
      BY <1>2, <2>1, CommitSteady
    <2>3. t \in Session
      BY <1>2, <2>2, BindSteady, ControlAssumption
    <2>4. EndAppend(t) \in Session
      BY <2>3, EndAppendSteady
    <2> HIDE DEF t
    <2> QED
      BY <1>1, <1>3, <2>4, AnswerFacts
      DEF TInv, TypeOK, ReaperOK, SegmentOK, controlRecords, undoRecords, stageVars, Registry
  <1>4. ASSUME handler' = [handler EXCEPT ![sid].pc = "undo", ![sid].outcome = "none"],
               compensation' = [compensation EXCEPT ![sid] = {r}],
               JoinCompensation(sid, {r}), UNCHANGED <<sessions, detached>>
        PROVE  TInv'
    <2>1. handler' \in [Sids -> Handler] /\ handler'[sid].pc = "undo"
      <3>1. [[h EXCEPT !.pc = "undo"] EXCEPT !.outcome = "none"] \in Handler
        BY <1>1 DEF TypeOK, Handler, Outcomes
      <3> QED
        BY <1>1, <1>4, <3>1 DEF TypeOK, Handler
    <2>3. HandlersOK'
      <3>1. HandlerOf(sid)'
        <4>1. /\ handler'[sid].msg = h.msg /\ handler'[sid].inc = h.inc
              /\ handler'[sid].res = h.res
          BY <1>1, <1>4 DEF TypeOK, Handler
        <4>2. HandlerOf(sid) /\ Object(sid, h.inc) \in Session
          BY <1>1, <1>2 DEF HandlersOK
        <4>3. PICK i : i = h.inc
          OBVIOUS
        <4>4. Object(sid, i)' = Object(sid, i)
          BY <1>4 DEF Object, IsRegistered, Registered
        <4>5. ObjectOK(sid)'
          BY <4>1, <4>2, <4>3, <4>4 DEF ObjectOK
        <4> QED
          BY <1>1, <4>1, <4>2, <4>5 DEF HandlerOf
      <3>2. \A other \in Sids \ {sid} : Untouched(other)
        BY <1>1, <1>4 DEF Untouched, TypeOK
      <3>3. sessions' \in Registry
        BY <1>1, <1>4 DEF TypeOK, Registry
      <3> QED
        BY <1>1, <3>1, <3>2, <3>3, HandlersStep
    <2>4. compensation' \in [Sids -> SUBSET Request]
      BY <1>1, <1>2, <1>4 DEF TypeOK
    <2>5. /\ compensating' \in [Sids -> SUBSET Compensation]
          /\ engine' \subseteq StageRequest /\ failures' \in Nat
      BY <1>1, <1>2, <1>4, JoinCompensationType
    <2> QED
      BY <1>1, <1>4, <2>1, <2>3, <2>4, <2>5
      DEF TInv, TypeOK, ReaperOK, SegmentOK, controlRecords
  <1> QED
    BY <1>3, <1>4 DEF Submitted

(* An append fails.                                                        *)
LEMMA AppendFailsType ==
    ASSUME TInv, NEW sid \in Sids, AppendFails(sid)
    PROVE  TInv'
  <1>1. /\ TypeOK /\ HandlersOK /\ ReaperOK /\ SegmentOK
        /\ handler[sid].pc \in {"submit", "undo"}
        /\ UNCHANGED <<identity, nextInc, records, reaper, loop, stageVars, crashed>>
        /\ Answer(sid, handler[sid].inc, EndAppend(Object(sid, handler[sid].inc)))
    BY DEF TInv, AppendFails
  <1>2. EndAppend(Object(sid, handler[sid].inc)) \in Session
    BY <1>1, AppendHolds, EndAppendSteady
  <1> QED
    BY <1>1, <1>2, AnswerFacts
    DEF TInv, TypeOK, ReaperOK, SegmentOK, records, stageVars, Registry

(* A control cleanup is answered.                                          *)
LEMMA CleanedUpType ==
    ASSUME TInv, NEW sid \in Sids, CleanedUp(sid)
    PROVE  TInv'
  <1>1. /\ TypeOK /\ HandlersOK /\ ReaperOK /\ SegmentOK /\ AnswerUnchanged(sid)
        /\ UNCHANGED <<identity, nextInc, records, reaper, loop, stageVars, crashed>>
    BY DEF TInv, CleanedUp
  <1> QED
    BY <1>1, AnswerUnchangedFacts
    DEF TInv, TypeOK, ReaperOK, SegmentOK, records, stageVars, Registry

(* Others change sessions and leave the handlers alone.                    *)
LEMMA SessionsFrame ==
    ASSUME TypeOK, HandlersOK, UNCHANGED <<detached, handler>>, sessions' \in Registry,
           \A sid \in Sids : sessions[sid] # NoSession =>
               sessions'[sid] # NoSession /\ sessions'[sid].fence.inc = sessions[sid].fence.inc
    PROVE  HandlersOK'
  <1> SUFFICES ASSUME NEW sid \in Sids PROVE SameHandler(sid) /\ ObjectKept(sid)
    BY HandlersFrame
  <1> QED
    BY DEF SameHandler, ObjectKept, IsRegistered, Registered

(* A session is stored under its id.                                       *)
LEMMA SessionStored ==
    ASSUME TypeOK, HandlersOK, UNCHANGED <<detached, handler>>, NEW sid \in Registered,
           NEW s \in Session, s.fence.inc = sessions[sid].fence.inc,
           sessions' = [sessions EXCEPT ![sid] = s]
    PROVE  sessions' \in Registry /\ HandlersOK'
  <1>1. s # NoSession
    BY ControlAssumption
  <1>2. sessions' \in Registry
    BY DEF TypeOK, Registry, Registered
  <1> QED
    BY <1>1, <1>2, SessionsFrame DEF TypeOK, Registered

(* The client goes, ...                                                    *)
LEMMA DetachType ==
    ASSUME TInv, NEW sid \in Sids, NEW f, Detach(sid, f)
    PROVE  TInv'
  <1>1. /\ TypeOK /\ HandlersOK /\ ReaperOK /\ SegmentOK
        /\ sid \in Registered /\ sessions[sid] \in Session /\ Live(sessions[sid])
    BY DEF TInv, TypeOK, Detach, Registered
  <1> DEFINE t == DetachLease(sessions[sid], 0)
  <1>2. t \in Session /\ t.fence.inc = sessions[sid].fence.inc
    BY <1>1, LeaseTypes, LeaseSteady DEF Steady
  <1>3. sessions' = [sessions EXCEPT ![sid] = t] /\ UNCHANGED <<detached, handler>>
    BY DEF Detach
  <1> HIDE DEF t
  <1>4. sessions' \in Registry /\ HandlersOK'
    BY <1>1, <1>2, <1>3, SessionStored
  <1> QED
    BY <1>1, <1>4 DEF Detach, TInv, TypeOK, ReaperOK, SegmentOK, records, stageVars, Registry

(* ... and comes back.                                                     *)
LEMMA ResumeType ==
    ASSUME TInv, NEW sid \in Sids, NEW f, Resume(sid, f)
    PROVE  TInv'
  <1>1. /\ TypeOK /\ HandlersOK /\ ReaperOK /\ SegmentOK
        /\ sid \in Registered /\ sessions[sid] \in Session /\ Live(sessions[sid])
    BY DEF TInv, TypeOK, Resume, Registered
  <1> DEFINE t == ResumeLease(sessions[sid], 0)
  <1>2. t \in Session /\ t.fence.inc = sessions[sid].fence.inc
    BY <1>1, LeaseTypes, LeaseSteady DEF Steady
  <1>3. sessions' = [sessions EXCEPT ![sid] = t] /\ UNCHANGED <<detached, handler>>
    BY DEF Resume
  <1> HIDE DEF t
  <1>4. sessions' \in Registry /\ HandlersOK'
    BY <1>1, <1>2, <1>3, SessionStored
  <1> QED
    BY <1>1, <1>4 DEF Resume, TInv, TypeOK, ReaperOK, SegmentOK, records, stageVars, Registry

-----------------------------------------------------------------------------
(* The cleanup tasks and the reaper.                                       *)

(* A compensation ends.                                                    *)
LEMMA FinishCompensationType ==
    ASSUME TInv, NEW sid \in Sids, NEW t \in compensating[sid], FinishCompensation(sid, t)
    PROVE  TInv'
  <1>1. /\ TypeOK /\ HandlersOK /\ ReaperOK /\ SegmentOK
        /\ compensating' = [compensating EXCEPT ![sid] = {}]
        /\ UNCHANGED <<detached, nextInc, controlRecords, expirations, loop, stageVars, crashed>>
    BY DEF TInv, FinishCompensation
  <1>2. /\ identity' \in [Sids -> SUBSET Fence] /\ compensation' \in [Sids -> SUBSET Request]
        /\ compensating' \in [Sids -> SUBSET Compensation]
    BY <1>1, PoppedType DEF FinishCompensation, TypeOK
  <1>3. /\ sessions' \in Registry
        /\ \A x \in Sids : sessions[x] # NoSession =>
              sessions'[x] # NoSession /\ sessions'[x].fence.inc = sessions[x].fence.inc
    <2>1. CASE sessions' = sessions
      BY <1>1, <2>1 DEF TypeOK, Registry
    <2>2. CASE /\ sid \in Registered
               /\ sessions' = [sessions EXCEPT ![sid] = ReleaseRequests(@, t.ids)]
      <3> DEFINE s == ReleaseRequests(sessions[sid], t.ids)
      <3>1. sessions[sid] \in Session
        BY <1>1, <2>2 DEF TypeOK, Registered
      <3>2. s \in Session /\ s.fence = sessions[sid].fence /\ s # NoSession
        <4>1. s \in Session
          BY <3>1, ReleaseTypes
        <4>2. s.fence = sessions[sid].fence
          BY <3>1 DEF ReleaseRequests, Session
        <4> HIDE DEF s
        <4> QED
          BY <4>1, <4>2, ControlAssumption
      <3>3. sessions' = [sessions EXCEPT ![sid] = s]
        BY <2>2
      <3> HIDE DEF s
      <3> QED
        BY <1>1, <3>2, <3>3 DEF TypeOK, Registry
    <2> QED
      BY <2>1, <2>2 DEF FinishCompensation
  <1>4. handler' \in [Sids -> Handler] /\ \A x \in Sids : SameHandler(x)
    <2>1. CASE handler' = handler
      BY <1>1, <2>1 DEF TypeOK, SameHandler
    <2>2. CASE handler' = [handler EXCEPT ![sid].outcome = Outcome(t.ok)]
      <3>1. Outcome(t.ok) \in Outcomes
        BY DEF Outcome, Outcomes
      <3>2. handler \in [Sids -> Handler]
        BY <1>1 DEF TypeOK
      <3> QED
        BY <2>2, <3>1, <3>2 DEF Handler, SameHandler
    <2> QED
      BY <2>1, <2>2 DEF FinishCompensation
  <1>5. HandlersOK'
    <2> SUFFICES ASSUME NEW x \in Sids PROVE SameHandler(x) /\ ObjectKept(x)
      BY <1>1, <1>3, HandlersFrame
    <2> QED
      BY <1>1, <1>3, <1>4 DEF ObjectKept, IsRegistered, Registered
  <1>6. reaper' \in Reaper /\ ReaperOK'
    <2>1. Outcome(t.ok) \in Outcomes
      BY DEF Outcome, Outcomes
    <2> QED
      BY <1>1, <2>1 DEF FinishCompensation, TypeOK, Reaper, ReaperOK
  <1> QED
    BY <1>1, <1>2, <1>3, <1>4, <1>5, <1>6
    DEF TInv, TypeOK, SegmentOK, controlRecords, stageVars, Registry

(* A control cleanup ends.                                                 *)
LEMMA FinishControlType ==
    ASSUME TInv, NEW t \in controlTasks, FinishControl(t)
    PROVE  TInv'
  <1> DEFINE c == t.record
  <1>1. /\ TypeOK /\ HandlersOK /\ ReaperOK /\ SegmentOK
        /\ controlTasks' = controlTasks \ {t} /\ controls' = StillPending(t)
        /\ UNCHANGED <<nextInc, undoRecords, expirations, loop, stageVars, crashed>>
    BY DEF TInv, FinishControl
  <1>2. c \in Control /\ c.sid \in Sids /\ t.ok \in BOOLEAN
    BY <1>1 DEF TypeOK, Task, Control
  <1>3. controls' \subseteq Control /\ controlTasks' \subseteq Task
    BY <1>1 DEF StillPending, TypeOK
  <1>4. identity' \in [Sids -> SUBSET Fence]
    BY <1>1, PoppedType DEF FinishControl, TypeOK
  <1>5. /\ sessions' \in Registry /\ detached' \in Registry
        /\ \A x \in Sids : Holding(x) => ObjectKept(x)
    <2>1. CASE UNCHANGED <<sessions, detached>>
      BY <1>1, <2>1 DEF TypeOK, Registry, ObjectKept, IsRegistered, Registered
    <2>2. CASE /\ c.sid \in Registered /\ UNCHANGED detached
               /\ sessions' = [sessions EXCEPT ![c.sid] = ReleaseFence(@, c.fence)]
      <3> DEFINE s == ReleaseFence(sessions[c.sid], c.fence)
      <3>1. sessions[c.sid] \in Session
        BY <1>1, <2>2 DEF TypeOK, Registered
      <3>2. s \in Session /\ s.fence = sessions[c.sid].fence /\ s # NoSession
        <4>1. s \in Session
          BY <3>1, ReleaseTypes
        <4>2. s.fence = sessions[c.sid].fence
          BY <3>1 DEF ReleaseFence, Session
        <4> HIDE DEF s
        <4> QED
          BY <4>1, <4>2, ControlAssumption
      <3>3. sessions' = [sessions EXCEPT ![c.sid] = s]
        BY <2>2
      <3> HIDE DEF s, c
      <3> QED
        BY <1>1, <1>2, <2>2, <3>2, <3>3
        DEF TypeOK, Registry, ObjectKept, IsRegistered, Registered
    <2>3. CASE Finalize(sessions, {c.sid} \cap Registered)
      <3>1. sessions \in Registry
        BY <1>1 DEF TypeOK, Registry
      <3> QED
        BY <1>1, <2>3, <3>1, FinalizeFacts
    <2> QED
      BY <2>1, <2>2, <2>3 DEF FinishControl
  <1>6. handler' \in [Sids -> Handler] /\ \A x \in Sids : SameHandler(x)
    <2>1. Outcome(t.ok) \in Outcomes
      BY DEF Outcome, Outcomes
    <2>2. \A x \in Sids : handler'[x] \in {handler[x],
                                        [handler[x] EXCEPT !.outcome = Outcome(t.ok)]}
      BY DEF FinishControl
    <2>3. handler \in [Sids -> Handler]
      BY <1>1 DEF TypeOK
    <2>4. \A x \in Sids : handler'[x] \in Handler /\ SameHandler(x)
      BY <2>1, <2>2, <2>3 DEF Handler, SameHandler
    <2>5. handler' = [x \in Sids |-> handler'[x]]
      BY DEF FinishControl
    <2> QED
      BY <2>4, <2>5
  <1>7. HandlersOK'
    BY <1>1, <1>5, <1>6, HandlersFrame
  <1>8. reaper' \in Reaper /\ ReaperOK'
    <2>1. Outcome(t.ok) \in Outcomes
      BY DEF Outcome, Outcomes
    <2> QED
      BY <1>1, <2>1 DEF FinishControl, TypeOK, Reaper, ReaperOK
  <1> QED
    BY <1>1, <1>3, <1>4, <1>5, <1>6, <1>7, <1>8
    DEF TInv, TypeOK, SegmentOK, undoRecords, stageVars, Registry

(* The reaper goes through the compensations and the controls.             *)
LEMMA ReapCompensationsType ==
    ASSUME TInv, ReapCompensations
    PROVE  TInv'
  <1> DEFINE rest == {sid \in Rest(Sids) : compensation[sid] # {}}
  <1>1. /\ TypeOK /\ HandlersOK /\ ReaperOK /\ SegmentOK /\ reaper.pc = "compensations"
        /\ UNCHANGED <<sessions, detached, identity, nextInc, handler, controlRecords,
                       compensation, expirations, loop, crashed>>
    BY DEF TInv, ReapCompensations, ReaperReady
  <1>2. HandlersOK'
    BY <1>1, SessionsFrame DEF TypeOK, Registry
  <1>3. rest \subseteq Sids
    BY <1>1 DEF Rest, ReaperOK
  <1>4. ASSUME NEW sid \in rest, AwaitNext(sid, rest, "none"),
               JoinCompensation(sid, compensation[sid])
        PROVE  TInv'
    <2>1. reaper' \in Reaper /\ ReaperOK'
      BY <1>1, <1>3, <1>4 DEF AwaitNext, TypeOK, Reaper, ReaperOK, Outcomes
    <2>2. sid \in Sids /\ compensation[sid] \in SUBSET Request
      BY <1>1, <1>3 DEF TypeOK
    <2>3. /\ compensating' \in [Sids -> SUBSET Compensation]
          /\ engine' \subseteq StageRequest /\ failures' \in Nat
      BY <1>1, <1>4, <2>2, JoinCompensationType
    <2> QED
      BY <1>1, <1>2, <2>1, <2>3 DEF TInv, TypeOK, SegmentOK, controlRecords
  <1>5. ASSUME reaper' = AtPhase("controls"), UNCHANGED <<compensating, stageVars>>
        PROVE  TInv'
    BY <1>1, <1>2, <1>5
    DEF TInv, TypeOK, SegmentOK, ReaperOK, AtPhase, Reaper, Outcomes, controlRecords, stageVars
  <1> QED
    BY <1>4, <1>5 DEF ReapCompensations

(* It joins the controls that are pending.                                 *)
LEMMA ReapControlsType ==
    ASSUME TInv, ReapControls
    PROVE  TInv'
  <1> DEFINE rest == Rest(controls)
  <1>1. /\ TypeOK /\ HandlersOK /\ ReaperOK /\ SegmentOK /\ reaper.pc = "controls"
        /\ UNCHANGED <<sessions, detached, identity, nextInc, handler, controls, undoRecords,
                       expirations, loop, crashed>>
    BY DEF TInv, ReapControls, ReaperReady
  <1>2. HandlersOK'
    BY <1>1, SessionsFrame DEF TypeOK, Registry
  <1>3. rest \subseteq Control
    BY <1>1 DEF Rest, ReaperOK, TypeOK
  <1>4. ASSUME NEW c \in rest, AwaitNext(c, rest, "none"), JoinControl(c)
        PROVE  TInv'
    <2>1. reaper' \in Reaper /\ ReaperOK'
      BY <1>1, <1>3, <1>4 DEF AwaitNext, TypeOK, Reaper, ReaperOK, Outcomes
    <2>2. controlTasks' \subseteq Task /\ engine' \subseteq StageRequest /\ failures' \in Nat
      BY <1>1, <1>3, <1>4, JoinControlType
    <2> QED
      BY <1>1, <1>2, <2>1, <2>2 DEF TInv, TypeOK, SegmentOK, undoRecords
  <1>5. ASSUME reaper' = AtPhase("expirations"), UNCHANGED <<controlTasks, stageVars>>
        PROVE  TInv'
    BY <1>1, <1>2, <1>5
    DEF TInv, TypeOK, SegmentOK, ReaperOK, AtPhase, Reaper, Outcomes, undoRecords, stageVars
  <1> QED
    BY <1>4, <1>5 DEF ReapControls

(* The reaper goes through the expirations.                                *)
LEMMA ExpireType ==
    ASSUME TInv, reaper.pc = "expirations",
           NEW ss \in Registry, NEW pending \in SUBSET Expiration, NEW ended,
           NEW rest \in SUBSET Expiration, Expire(ss, pending, ended, rest),
           \A sid \in Sids : sessions[sid] # NoSession =>
               ss[sid] # NoSession /\ ss[sid].fence.inc = sessions[sid].fence.inc,
           \A sid \in Sids : ss[sid] # NoSession => sessions[sid] # NoSession,
           UNCHANGED <<nextInc, handler, controlRecords, undoRecords, loop, crashed>>
    PROVE  TInv'
  <1> DEFINE quick == {x \in rest : x.submitted = {}}
  <1>1. TypeOK /\ HandlersOK /\ ReaperOK /\ SegmentOK
    BY DEF TInv
  <1>2. PICK current \in SUBSET quick :
          LET done == ended \cup current
          IN  /\ identity' = Popped(UNION {Owned(x.sid, x.submitted \cup x.reserved) : x \in done})
              /\ Finalize(ss, Expiring(ss, done))
              /\ expirations' = {y \in pending : \A x \in done : ~SameExpiry(x, y)}
              /\ \/ \E x \in rest \ quick, ok \in BOOLEAN :
                       /\ SendAbort(Owned(x.sid, x.submitted), ok)
                       /\ AwaitNext(x, rest \ current, Outcome(ok))
                 \/ /\ rest = current
                    /\ reaper' = AtPhase("compensations")
                    /\ UNCHANGED <<stageVars>>
    BY DEF Expire
  <1> DEFINE done == ended \cup current
  <1>3. Expiring(ss, done) \in SUBSET Registered
    BY DEF Expiring, Registered
  <1>4. Finalize(ss, Expiring(ss, done))
    BY <1>2
  <1>5. identity' \in [Sids -> SUBSET Fence] /\ expirations' \subseteq Expiration
    BY <1>1, <1>2, PoppedType
  <1> HIDE DEF done
  <1>6. /\ sessions' \in Registry /\ detached' \in Registry
        /\ \A sid \in Sids : Holding(sid) => ObjectKept(sid)
    BY <1>1, <1>3, <1>4, FinalizeFacts
  <1>7. HandlersOK'
    BY <1>1, <1>6, HandlersFrame DEF SameHandler
  <1>8. /\ reaper' \in Reaper /\ ReaperOK'
        /\ engine' \subseteq StageRequest /\ failures' \in Nat
    <2>1. ASSUME NEW x \in rest \ quick, NEW ok \in BOOLEAN,
                 SendAbort(Owned(x.sid, x.submitted), ok), AwaitNext(x, rest \ current, Outcome(ok))
          PROVE  <1>8!:
      <3>1. reaper' \in Reaper /\ ReaperOK'
        BY <1>1, <2>1 DEF AwaitNext, TypeOK, Reaper, ReaperOK, Outcome, Outcomes
      <3> QED
        BY <1>1, <2>1, <3>1, SendAbortType
    <2>2. ASSUME reaper' = AtPhase("compensations"), UNCHANGED <<stageVars>>
          PROVE  <1>8!:
      BY <1>1, <2>2 DEF AtPhase, TypeOK, Reaper, ReaperOK, Outcomes, stageVars
    <2> QED
      BY <1>2, <2>1, <2>2
  <1> QED
    BY <1>1, <1>5, <1>6, <1>7, <1>8
    DEF TInv, TypeOK, SegmentOK, controlRecords, undoRecords, Registry

(* What has expired begins to close.                                       *)
Closed(expired) ==
    [sid \in Sids |-> IF sid \in expired
                      THEN BeginClose(sessions[sid], ExpiryReason(sessions[sid]))
                      ELSE sessions[sid]]

(* They are sessions of the same incarnations, and their expirations are   *)
(* recorded.                                                               *)
LEMMA ClosedFacts ==
    ASSUME TypeOK, NEW expired \in SUBSET {sid \in Sids : MayExpire(sid)}
    PROVE  /\ Closed(expired) \in Registry
           /\ WithExpired(expired) \subseteq Expiration
           /\ \A sid \in Sids : sessions[sid] # NoSession =>
                 /\ Closed(expired)[sid] # NoSession
                 /\ Closed(expired)[sid].fence = sessions[sid].fence
           /\ \A sid \in Sids : Closed(expired)[sid] # NoSession => sessions[sid] # NoSession
  <1>1. ASSUME NEW sid \in expired
        PROVE  /\ sessions[sid] \in Session /\ sessions[sid] # NoSession
               /\ BeginClose(sessions[sid], ExpiryReason(sessions[sid])) \in Session
               /\ BeginClose(sessions[sid], ExpiryReason(sessions[sid])).fence = sessions[sid].fence
               /\ BeginClose(sessions[sid], ExpiryReason(sessions[sid])) # NoSession
               /\ Expiry(sid, sessions[sid]) \in Expiration
    <2>1. sessions[sid] \in Session /\ sessions[sid] # NoSession
      BY DEF MayExpire, Registered, TypeOK
    <2>2. ExpiryReason(sessions[sid]) \in Reasons
      BY DEF ExpiryReason, Reasons
    <2>3. /\ BeginClose(sessions[sid], ExpiryReason(sessions[sid])) \in Session
          /\ BeginClose(sessions[sid], ExpiryReason(sessions[sid])).fence = sessions[sid].fence
      BY <2>1, <2>2, CloseFacts
    <2>4. sessions[sid].generation + 1 \in Nat
      BY <2>1 DEF Session
    <2>5. Expiry(sid, sessions[sid]) \in Expiration
      BY <2>1, <2>4, RequestSets DEF Expiry, Expiration
    <2> QED
      BY <2>1, <2>3, <2>5, ControlAssumption
  <1>2. Closed(expired) \in Registry
    BY <1>1 DEF Closed, Registry, TypeOK
  <1>3. WithExpired(expired) \subseteq Expiration
    BY <1>1 DEF WithExpired, TypeOK
  <1>4. ASSUME NEW sid \in Sids
        PROVE  /\ sessions[sid] # NoSession =>
                     /\ Closed(expired)[sid] # NoSession
                     /\ Closed(expired)[sid].fence = sessions[sid].fence
               /\ Closed(expired)[sid] # NoSession => sessions[sid] # NoSession
    BY <1>1 DEF Closed
  <1> QED
    BY <1>2, <1>3, <1>4

(* The reaper closes what has expired.                                     *)
LEMMA CollectExpiredType ==
    ASSUME TInv, CollectExpired
    PROVE  TInv'
  <1>1. PICK expired \in SUBSET {sid \in Sids : MayExpire(sid)} :
           Expire(Closed(expired), WithExpired(expired), {}, WithExpired(expired))
    BY DEF CollectExpired, Closed
  <1>2. /\ Closed(expired) \in Registry
        /\ WithExpired(expired) \subseteq Expiration
        /\ \A sid \in Sids : sessions[sid] # NoSession =>
              /\ Closed(expired)[sid] # NoSession
              /\ Closed(expired)[sid].fence = sessions[sid].fence
        /\ \A sid \in Sids : Closed(expired)[sid] # NoSession => sessions[sid] # NoSession
    BY ClosedFacts DEF TInv
  <1>3. /\ reaper.pc = "expirations"
        /\ UNCHANGED <<nextInc, handler, controlRecords, undoRecords, loop, crashed>>
    BY DEF CollectExpired
  <1> DEFINE ss == Closed(expired)
             pending == WithExpired(expired)
  <1> HIDE DEF ss, pending
  <1>4. /\ ss \in Registry /\ pending \in SUBSET Expiration /\ Expire(ss, pending, {}, pending)
        /\ \A sid \in Sids : sessions[sid] # NoSession =>
              ss[sid] # NoSession /\ ss[sid].fence.inc = sessions[sid].fence.inc
        /\ \A sid \in Sids : ss[sid] # NoSession => sessions[sid] # NoSession
    BY <1>1, <1>2 DEF ss, pending
  <1> QED
    BY <1>3, <1>4, ExpireType

(* It goes on when the abort of an expiration has ended.                   *)
LEMMA ExpireNextType ==
    ASSUME TInv, ExpireNext
    PROVE  TInv'
  <1> DEFINE ended == IF reaper.outcome = "ok" THEN {reaper.current} ELSE {}
  <1>1. /\ reaper.pc = "expirations"
        /\ Expire(sessions, expirations, ended, reaper.todo)
        /\ UNCHANGED <<nextInc, handler, controlRecords, undoRecords, loop, crashed>>
    BY DEF ExpireNext
  <1>2. sessions \in Registry /\ expirations \in SUBSET Expiration
    BY DEF TInv, TypeOK, Registry
  <1>3. reaper.todo \in SUBSET Expiration
    BY <1>1 DEF TInv, ReaperOK
  <1> HIDE DEF ended
  <1> QED
    BY <1>1, <1>2, <1>3, ExpireType

-----------------------------------------------------------------------------
(* The orchestration loop.                                                 *)

(* A segment is sent to the next stage.                                    *)
LEMMA ForwardType ==
    ASSUME TInv, NEW sid \in Sids, NEW f \in identity[sid], ForwardSegment(sid, f)
    PROVE  TInv'
  <1>1. /\ TypeOK /\ HandlersOK /\ ReaperOK /\ f \in Fence
        /\ UNCHANGED <<sessions, detached, identity, nextInc, handler, records, reaper, failures,
                       crashed>>
        /\ engine' = engine \cup {[stage |-> NextStage, sid |-> sid, request |-> RequestOf(f)]}
        /\ loop' = [IdleLoop EXCEPT !.pc = "forward", !.sid = sid, !.fence = f]
    BY DEF TInv, ForwardSegment, TypeOK
  <1>2. HandlersOK'
    BY <1>1, SessionsFrame DEF TypeOK, Registry
  <1>3. loop' \in Loop /\ SegmentOK'
    BY <1>1 DEF IdleLoop, Loop, SegmentOK
  <1>4. engine' \subseteq StageRequest
    <2>1. [stage |-> NextStage, sid |-> sid, request |-> RequestOf(f)] \in StageRequest
      BY <1>1, ControlAssumption, RequestType DEF StageRequest
    <2> QED
      BY <1>1, <2>1 DEF TypeOK
  <1> QED
    BY <1>1, <1>2, <1>3, <1>4 DEF TInv, TypeOK, ReaperOK, records

(* The loop rests again.                                                   *)
LEMMA IdleLoopType == IdleLoop \in Loop /\ IdleLoop.pc = "idle"
  BY DEF IdleLoop, Loop

(* The segment is bound.                                                   *)
LEMMA ForwardedType ==
    ASSUME TInv, SegmentForwarded
    PROVE  TInv'
  <1> DEFINE sid == loop.sid
             f == loop.fence
             r == RequestOf(f)
             refused == sid \in Registered /\ ~CanReserve(sessions[sid], NextStage, r, f)
  <1>1. /\ TypeOK /\ HandlersOK /\ ReaperOK /\ SegmentOK /\ loop.pc = "forward"
        /\ crashed' = refused /\ loop' = IdleLoop
        /\ UNCHANGED <<detached, identity, nextInc, handler, records, reaper, stageVars>>
    BY DEF TInv, SegmentForwarded
  <1>2. sid \in Sids /\ f \in Fence /\ r \in Request /\ NextStage \in Stages
    BY <1>1, ControlAssumption, RequestType DEF SegmentOK
  <1>3. sessions' \in Registry /\ HandlersOK'
    <2>1. CASE sid \in Registered /\ ~refused
      <3> DEFINE s == sessions[sid]
                 t == Reserve(s, NextStage, r, f)
                 u == Bind(t, NextStage, r, f)
      <3>1. s \in Session /\ f.inc = s.fence.inc
        BY <1>1, <2>1 DEF TypeOK, Registered, CanReserve, ValidFence
      <3>2. t \in Session /\ t.fence = s.fence
        BY <1>2, <3>1, ResourceTypes, ResourcesSteady
      <3>3. u \in Session /\ u.fence.inc = s.fence.inc
        <4> HIDE DEF t
        <4>1. u \in Session /\ Steady(t, u)
          BY <1>2, <3>1, <3>2, BindSteady
        <4> QED
          BY <3>2, <4>1 DEF Steady
      <3>4. sessions' = [sessions EXCEPT ![sid] = u] /\ UNCHANGED <<detached, handler>>
        BY <1>1, <2>1 DEF SegmentForwarded
      <3> HIDE DEF u, t
      <3>5. PICK x \in Registered : x = sid
        BY <2>1
      <3> HIDE DEF sid
      <3> QED
        BY <1>1, <3>3, <3>4, <3>5, SessionStored
    <2>2. CASE sessions' = sessions
      BY <1>1, <2>2, SessionsFrame DEF TypeOK, Registry
    <2> QED
      BY <2>1, <2>2 DEF SegmentForwarded
  <1>4. loop' \in Loop /\ SegmentOK'
    BY <1>1, IdleLoopType DEF SegmentOK
  <1>5. crashed' \in BOOLEAN
    BY <1>1
  <1> QED
    BY <1>1, <1>3, <1>4, <1>5 DEF TInv, TypeOK, ReaperOK, records, stageVars, Registry

(* The owners of affected requests begin to close.                         *)
LEMMA OwnersFacts ==
    ASSUME TypeOK, NEW ids \in SUBSET [sid : Sids, request : Request]
    PROVE  /\ Owners(ids) \in SUBSET Registered
           /\ OwnersClosing(ids) \in Registry
           /\ Affected(ids) \subseteq [sid : Sids, request : Request]
           /\ \A sid \in Sids : sessions[sid] # NoSession =>
                 /\ OwnersClosing(ids)[sid] # NoSession
                 /\ OwnersClosing(ids)[sid].fence.inc = sessions[sid].fence.inc
                 /\ sid \in Owners(ids) => ~Live(OwnersClosing(ids)[sid])
                 /\ ~Live(sessions[sid]) \/ sid \notin Owners(ids) =>
                       OwnersClosing(ids)[sid] = sessions[sid]
           /\ \A sid \in Sids : sessions[sid] = NoSession => OwnersClosing(ids)[sid] = NoSession
  <1>1. Owners(ids) \in SUBSET Registered /\ "request_cleanup" \in Reasons
    BY DEF Owners, Reasons
  <1>2. \A sid \in Sids : OwnersClosing(ids)[sid] =
           IF sid \in Owners(ids) THEN BeginClose(sessions[sid], "request_cleanup")
                                  ELSE sessions[sid]
    BY DEF OwnersClosing
  <1>3. ASSUME NEW sid \in Registered
        PROVE  /\ sessions[sid] \in Session
               /\ BeginClose(sessions[sid], "request_cleanup") \in Session
               /\ BeginClose(sessions[sid], "request_cleanup") # NoSession
               /\ BeginClose(sessions[sid], "request_cleanup").fence = sessions[sid].fence
               /\ ~Live(BeginClose(sessions[sid], "request_cleanup"))
               /\ ~Live(sessions[sid]) =>
                     BeginClose(sessions[sid], "request_cleanup") = sessions[sid]
    <2>1. sessions[sid] \in Session
      BY DEF Registered, TypeOK
    <2> QED
      BY <1>1, <2>1, CloseFacts, ControlAssumption
  <1>4. OwnersClosing(ids) \in Registry
    BY <1>1, <1>3 DEF OwnersClosing, Registry, TypeOK
  <1>5. Affected(ids) \subseteq [sid : Sids, request : Request]
    <2>1. ASSUME NEW sid \in Owners(ids)
          PROVE  Owned(sid, AllRequests(sessions[sid])) \subseteq [sid : Sids, request : Request]
      <3>1. sid \in Sids /\ sid \in Registered
        BY DEF Owners, Registered
      <3>2. AllRequests(sessions[sid]) \subseteq Request
        BY <1>3, <3>1, RequestSets
      <3> QED
        BY <3>1, <3>2 DEF Owned
    <2> QED
      BY <2>1 DEF Affected
  <1>6. \A sid \in Sids : sessions[sid] # NoSession =>
            /\ OwnersClosing(ids)[sid] # NoSession
            /\ OwnersClosing(ids)[sid].fence.inc = sessions[sid].fence.inc
            /\ sid \in Owners(ids) => ~Live(OwnersClosing(ids)[sid])
            /\ ~Live(sessions[sid]) \/ sid \notin Owners(ids) =>
                  OwnersClosing(ids)[sid] = sessions[sid]
    BY <1>1, <1>2, <1>3 DEF Registered
  <1>7. \A sid \in Sids : sessions[sid] = NoSession => OwnersClosing(ids)[sid] = NoSession
    BY <1>1, <1>2 DEF Registered
  <1> QED
    BY <1>1, <1>4, <1>5, <1>6, <1>7

(* A stage reports an error.                                               *)
LEMMA StageErrorType ==
    ASSUME TInv, NEW sid \in Sids, NEW f \in identity[sid], StageError(sid, f)
    PROVE  TInv'
  <1> DEFINE ids == {[sid |-> sid, request |-> RequestOf(f)]}
  <1>1. /\ TypeOK /\ HandlersOK /\ ReaperOK /\ f \in Fence
        /\ sessions' = OwnersClosing(ids)
        /\ UNCHANGED <<detached, identity, nextInc, handler, records, reaper, crashed>>
    BY DEF TInv, StageError, TypeOK
  <1>2. PICK ok \in BOOLEAN :
           /\ SendAbort(Affected(ids), ok)
           /\ loop' = [IdleLoop EXCEPT !.pc = "cleanup", !.ids = Affected(ids),
                                       !.closing = Owners(ids), !.ok = ok]
    BY DEF StageError
  <1>3. ids \in SUBSET [sid : Sids, request : Request]
    BY <1>1, RequestType
  <1> HIDE DEF ids
  <1>4. /\ sessions' \in Registry /\ HandlersOK'
        /\ Affected(ids) \subseteq [sid : Sids, request : Request] /\ Owners(ids) \subseteq Sids
    <2>1. /\ Owners(ids) \in SUBSET Registered /\ OwnersClosing(ids) \in Registry
          /\ Affected(ids) \subseteq [sid : Sids, request : Request]
          /\ \A x \in Sids : sessions[x] # NoSession =>
                /\ OwnersClosing(ids)[x] # NoSession
                /\ OwnersClosing(ids)[x].fence.inc = sessions[x].fence.inc
      BY <1>1, <1>3, OwnersFacts
    <2> QED
      BY <1>1, <2>1, SessionsFrame DEF Registered
  <1>5. loop' \in Loop /\ SegmentOK'
    BY <1>2, <1>4 DEF IdleLoop, Loop, SegmentOK
  <1>6. engine' \subseteq StageRequest /\ failures' \in Nat
    BY <1>1, <1>2, SendAbortType
  <1> QED
    BY <1>1, <1>4, <1>5, <1>6 DEF TInv, TypeOK, ReaperOK, records, Registry

(* A replica dies.                                                         *)
LEMMA ReplicaDeathType ==
    ASSUME TInv, NEW dead \in SUBSET engine, ReplicaDeath(dead)
    PROVE  TInv'
  <1> DEFINE ids == {[sid |-> q.sid, request |-> q.request] : q \in dead}
  <1>1. /\ TypeOK /\ HandlersOK /\ ReaperOK /\ SegmentOK
        /\ engine' = engine \ dead /\ identity' = Popped(Affected(ids))
        /\ Finalize(OwnersClosing(ids), Owners(ids))
        /\ UNCHANGED <<nextInc, handler, records, reaper, loop, failures, crashed>>
    BY DEF TInv, ReplicaDeath
  <1>2. ids \in SUBSET [sid : Sids, request : Request]
    BY <1>1 DEF TypeOK, StageRequest
  <1> HIDE DEF ids
  <1>3. /\ sessions' \in Registry /\ detached' \in Registry
        /\ \A sid \in Sids : Holding(sid) => ObjectKept(sid)
    <2>1. /\ Owners(ids) \in SUBSET Registered /\ OwnersClosing(ids) \in Registry
          /\ \A x \in Sids : sessions[x] # NoSession =>
                /\ OwnersClosing(ids)[x] # NoSession
                /\ OwnersClosing(ids)[x].fence.inc = sessions[x].fence.inc
      BY <1>1, <1>2, OwnersFacts
    <2> QED
      BY <1>1, <2>1, FinalizeFacts
  <1>4. HandlersOK'
    BY <1>1, <1>3, HandlersFrame DEF SameHandler
  <1>5. identity' \in [Sids -> SUBSET Fence] /\ engine' \subseteq StageRequest
    BY <1>1, PoppedType DEF TypeOK
  <1> QED
    BY <1>1, <1>3, <1>4, <1>5 DEF TInv, TypeOK, ReaperOK, SegmentOK, records, Registry

(* The cleanup of the loop ends.                                           *)
LEMMA LoopCleanedUpType ==
    ASSUME TInv, LoopCleanedUp
    PROVE  TInv'
  <1> DEFINE gone == {sid \in loop.closing \cap Registered : ~Live(sessions[sid])}
  <1>1. /\ TypeOK /\ HandlersOK /\ ReaperOK /\ loop.ok \in BOOLEAN
        /\ crashed' = ~loop.ok /\ loop' = IdleLoop
        /\ UNCHANGED <<nextInc, handler, records, reaper, stageVars>>
    BY DEF TInv, TypeOK, LoopCleanedUp, Loop
  <1>2. identity' \in [Sids -> SUBSET Fence]
    BY <1>1, PoppedType DEF LoopCleanedUp, TypeOK
  <1>3. /\ sessions' \in Registry /\ detached' \in Registry
        /\ \A sid \in Sids : Holding(sid) => ObjectKept(sid)
    <2>1. CASE UNCHANGED <<sessions, detached>>
      BY <1>1, <2>1 DEF TypeOK, Registry, ObjectKept, IsRegistered, Registered
    <2>2. CASE Finalize(sessions, gone)
      <3>1. sessions \in Registry /\ gone \in SUBSET Registered
        BY <1>1 DEF TypeOK, Registry
      <3> HIDE DEF gone
      <3> QED
        BY <1>1, <2>2, <3>1, FinalizeFacts
    <2> QED
      BY <2>1, <2>2 DEF LoopCleanedUp
  <1>4. HandlersOK'
    BY <1>1, <1>3, HandlersFrame DEF SameHandler
  <1>5. loop' \in Loop /\ SegmentOK'
    BY <1>1, IdleLoopType DEF SegmentOK
  <1> QED
    BY <1>1, <1>2, <1>3, <1>4, <1>5 DEF TInv, TypeOK, ReaperOK, records, stageVars, Registry

(* Nothing has happened.                                                   *)
LEMMA StutterType ==
    ASSUME TInv, UNCHANGED vars
    PROVE  TInv'
  <1>1. /\ TypeOK /\ HandlersOK /\ ReaperOK /\ SegmentOK
        /\ UNCHANGED <<sessions, detached, identity, nextInc, handler, controls, controlTasks,
                       compensation, compensating, expirations, reaper, loop, engine, failures,
                       crashed>>
    BY DEF TInv, vars
  <1>2. HandlersOK'
    BY <1>1, SessionsFrame DEF TypeOK, Registry
  <1> QED
    BY <1>1, <1>2 DEF TInv, TypeOK, ReaperOK, SegmentOK

(* The types are correct initially, ...                                    *)
LEMMA InitType == Init => TInv
  <1> SUFFICES ASSUME Init PROVE TInv
    OBVIOUS
  <1>1. IdleHandler \in Handler /\ AtPhase("compensations") \in Reaper
    BY IdleFacts DEF AtPhase, Reaper, Outcomes
  <1>2. TypeOK
    BY <1>1, IdleLoopType DEF Init, TypeOK
  <1>3. HandlersOK
    BY DEF Init, HandlersOK, HandlerOf, Holding, IdleHandler
  <1>4. ReaperOK
    BY DEF Init, ReaperOK, AtPhase
  <1>5. SegmentOK
    BY IdleLoopType DEF Init, SegmentOK
  <1> QED
    BY <1>2, <1>3, <1>4, <1>5 DEF TInv

(* ... and every step keeps them so.                                       *)
LEMMA NextType == TInv /\ [Next]_vars => TInv'
  <1> SUFFICES ASSUME TInv, [Next]_vars PROVE TInv'
    OBVIOUS
  <1>1. ASSUME NEW sid \in Sids, Requests(sid) PROVE TInv'
    BY <1>1, OpenType, OpenFailsType, DetachType, ResumeType, BeginType DEF Requests
  <1>2. ASSUME NEW sid \in Sids, Handle(sid) PROVE TInv'
    BY <1>2, ContinueType, SubmittedType, AppendFailsType, CleanedUpType DEF Handle
  <1>3. ASSUME NEW sid \in Sids, Finish(sid) PROVE TInv'
    BY <1>3, FinishCompensationType DEF Finish
  <1>4. ASSUME NEW key \in Keys, FinishOf(key) PROVE TInv'
    BY <1>4, FinishControlType DEF FinishOf
  <1>5. CASE Reap
    BY <1>5, ReapCompensationsType, ReapControlsType, CollectExpiredType, ExpireNextType DEF Reap
  <1>6. CASE Poll
    BY <1>6, ForwardType, StageErrorType, ReplicaDeathType DEF Poll
  <1>7. CASE LoopReturns
    BY <1>7, ForwardedType, LoopCleanedUpType DEF LoopReturns
  <1>8. CASE UNCHANGED vars
    BY <1>8, StutterType
  <1> QED
    BY <1>1, <1>2, <1>3, <1>4, <1>5, <1>6, <1>7, <1>8 DEF Next

(* The control plane is type correct: a handler that goes on after its     *)
(* suspension finds the object it took, even if the session left the       *)
(* registry meanwhile.                                                     *)
THEOREM ControlTypeCorrect == Spec => []TypeOK
  <1>1. TInv => TypeOK
    BY DEF TInv
  <1> QED
    BY <1>1, InitType, NextType, PTL DEF Spec

-----------------------------------------------------------------------------
(* No append is submitted while an earlier one is undone.                  *)

(* A compensation that runs is the one that is pending, so that nothing is *)
(* left of it when it succeeds; an append is submitted, and a control goes *)
(* on, when none is pending.                                               *)
UndoOf(sid) ==
    /\ compensating[sid] # {} =>
          /\ compensation[sid] # {}
          /\ \A t \in compensating[sid] : t.ids = compensation[sid]
    /\ handler[sid].pc = "submit" => compensation[sid] = {} /\ compensating[sid] = {}
    /\ handler[sid].pc = "compensate" /\ handler[sid].outcome = "ok" => compensation[sid] = {}

UndoOK == \A sid \in Sids : UndoOf(sid)

SameUndo(sid) ==
    compensation'[sid] = compensation[sid] /\ compensating'[sid] = compensating[sid]

(* The handler waits for no compensation and submits nothing, or is where  *)
(* it was.                                                                 *)
Harmless(sid) ==
    \/ handler'[sid].pc \notin {"submit", "compensate"}
    \/ handler'[sid].pc = handler[sid].pc /\ handler'[sid].outcome = handler[sid].outcome

(* Steps that neither undo nor submit.                                     *)
LEMMA UndoFrame ==
    ASSUME NEW sid \in Sids, UndoOf(sid), SameUndo(sid), Harmless(sid)
    PROVE  UndoOf(sid)'
  BY DEF UndoOf, SameUndo, Harmless

(* A step of one handler.                                                  *)
LEMMA UndoStep ==
    ASSUME TypeOK, UndoOK, NEW sid \in Sids, NEW h, handler' = [handler EXCEPT ![sid] = h],
           UNCHANGED undoRecords,
           h.pc = "compensate" => h.outcome # "ok",
           h.pc = "submit" => compensation[sid] = {}
    PROVE  UndoOK'
  <1>1. /\ compensation' = compensation /\ compensating' = compensating
        /\ handler'[sid] = h /\ \A x \in Sids \ {sid} : handler'[x] = handler[x]
        /\ UndoOf(sid)
    BY DEF undoRecords, TypeOK, UndoOK
  <1>2. UndoOf(sid)'
    BY <1>1 DEF UndoOf
  <1>3. ASSUME NEW x \in Sids \ {sid} PROVE UndoOf(x)'
    BY <1>1, UndoFrame DEF UndoOK, SameUndo, Harmless
  <1> QED
    BY <1>2, <1>3 DEF UndoOK

(* A handler that answers waits for nothing.                               *)
LEMMA UndoAnswer ==
    ASSUME TypeOK, UndoOK, NEW sid \in Sids, handler' = [handler EXCEPT ![sid] = IdleHandler],
           UNCHANGED undoRecords
    PROVE  UndoOK'
  <1>1. IdleHandler.pc = "idle"
    BY DEF IdleHandler
  <1> QED
    BY <1>1, UndoStep

(* Others keep the handlers where they are.                                *)
LEMMA UndoOthers ==
    ASSUME UndoOK, UNCHANGED undoRecords, \A sid \in Sids : Harmless(sid)
    PROVE  UndoOK'
  BY UndoFrame DEF UndoOK, SameUndo, undoRecords

(* A control cleanup is awaited.                                           *)
LEMMA UndoAwait ==
    ASSUME TypeOK, UndoOK, NEW sid \in Sids, NEW inc, NEW s, NEW m, NEW c,
           AwaitControl(sid, inc, s, m, c), UNCHANGED undoRecords
    PROVE  UndoOK'
  <1> DEFINE h == [IdleHandler EXCEPT !.pc = "cleanup", !.msg = m, !.inc = inc, !.record = c]
  <1>1. handler' = [handler EXCEPT ![sid] = h] /\ h.pc = "cleanup"
    BY DEF AwaitControl, Suspend, IdleHandler
  <1> HIDE DEF h
  <1> QED
    BY <1>1, UndoStep

(* A body runs when no compensation is pending.                            *)
LEMMA UndoBody ==
    ASSUME TypeOK, UndoOK, NEW sid \in Sids, NEW inc, NEW m, compensation[sid] = {},
           Body(sid, inc, m)
    PROVE  UndoOK'
  <1>1. UNCHANGED undoRecords
    BY DEF Body
  <1>2. CASE AppendBody(sid, inc, m)
    <2> DEFINE s == Object(sid, inc)
    <2>1. ASSUME NEW ok,
                 handler' = [handler EXCEPT ![sid] =
                    [IdleHandler EXCEPT !.pc = "submit", !.msg = m, !.inc = inc,
                         !.res = PrepareAppend(s, m.fence), !.outcome = Outcome(ok)]]
          PROVE  UndoOK'
      <3> DEFINE h == [IdleHandler EXCEPT !.pc = "submit", !.msg = m, !.inc = inc,
                           !.res = PrepareAppend(s, m.fence), !.outcome = Outcome(ok)]
      <3>1. handler' = [handler EXCEPT ![sid] = h] /\ h.pc = "submit"
        BY <2>1 DEF IdleHandler
      <3> HIDE DEF h
      <3> QED
        BY <1>1, <3>1, UndoStep
    <2>2. CASE AnswerUnchanged(sid)
      BY <1>1, <2>2, UndoAnswer DEF AnswerUnchanged
    <2> QED
      BY <1>2, <2>1, <2>2 DEF AppendBody, Suspend
  <1>3. CASE CancelBody(sid, inc, m)
    BY <1>1, <1>3, UndoAwait, UndoAnswer DEF CancelBody, AnswerUnchanged
  <1>4. CASE UpdateBody(sid, inc, m)
    BY <1>1, <1>4, UndoAnswer DEF UpdateBody, Answer, AnswerUnchanged
  <1>5. CASE CloseBody(sid, m)
    BY <1>1, <1>5, UndoAwait, UndoAnswer DEF CloseBody, AnswerUnchanged
  <1> QED
    BY <1>2, <1>3, <1>4, <1>5 DEF Body

(* A compensation that is joined is the pending one.                       *)
LEMMA UndoJoin ==
    ASSUME TypeOK, NEW sid \in Sids, NEW ids \in SUBSET Request, ids # {},
           UndoOf(sid), compensation[sid] \in {ids, {}}, JoinCompensation(sid, ids)
    PROVE  /\ \A x \in Sids \ {sid} : compensating'[x] = compensating[x]
           /\ \A t \in compensating'[sid] : t.ids = ids
  <1>1. CASE compensating[sid] # {}
    <2>1. compensating' = compensating /\ compensation[sid] = ids
      BY <1>1 DEF JoinCompensation, UndoOf
    <2> QED
      BY <1>1, <2>1 DEF UndoOf
  <1>2. CASE compensating[sid] = {}
    <2>1. PICK ok : compensating' = [compensating EXCEPT ![sid] = {[ids |-> ids, ok |-> ok]}]
      BY <1>2 DEF JoinCompensation
    <2>2. /\ compensating'[sid] = {[ids |-> ids, ok |-> ok]}
          /\ \A x \in Sids \ {sid} : compensating'[x] = compensating[x]
      BY <2>1 DEF TypeOK
    <2> QED
      BY <2>2
  <1> QED
    BY <1>1, <1>2

(* A control begins.                                                       *)
LEMMA UndoBegin ==
    ASSUME TypeOK, UndoOK, NEW sid \in Sids, NEW m, Begin(sid, m)
    PROVE  UndoOK'
  <1> DEFINE inc == sessions[sid].fence.inc
             h == [IdleHandler EXCEPT !.pc = "compensate", !.msg = m, !.inc = inc]
  <1>1. CASE compensation[sid] = {} /\ Body(sid, inc, m)
    BY <1>1, UndoBody
  <1>2. CASE /\ compensation[sid] # {}
             /\ handler' = [handler EXCEPT ![sid] = h]
             /\ JoinCompensation(sid, compensation[sid])
             /\ UNCHANGED compensation
    <2>1. h.pc = "compensate" /\ h.outcome = "none"
      BY DEF IdleHandler
    <2>2. compensation[sid] \in SUBSET Request
      BY DEF TypeOK
    <2>3. /\ \A x \in Sids \ {sid} : compensating'[x] = compensating[x]
          /\ \A t \in compensating'[sid] : t.ids = compensation[sid]
      BY <1>2, <2>2, UndoJoin DEF UndoOK
    <2> HIDE DEF h
    <2>4. handler'[sid] = h /\ \A x \in Sids \ {sid} : handler'[x] = handler[x]
      BY <1>2 DEF TypeOK
    <2>5. UndoOf(sid)'
      BY <1>2, <2>1, <2>3, <2>4 DEF UndoOf
    <2>6. ASSUME NEW x \in Sids \ {sid} PROVE UndoOf(x)'
      BY <1>2, <2>3, <2>4, UndoFrame DEF UndoOK, SameUndo, Harmless
    <2> QED
      BY <2>5, <2>6 DEF UndoOK
  <1> QED
    BY <1>1, <1>2 DEF Begin, Suspend

(* The submission of an append returns.                                    *)
LEMMA UndoSubmitted ==
    ASSUME TInv, UndoOK, NEW sid \in Sids, Submitted(sid)
    PROVE  UndoOK'
  <1> DEFINE h == handler[sid]
             r == RequestOf(h.res.fence)
  <1>1. TypeOK /\ h.pc = "submit" /\ compensation[sid] = {} /\ compensating[sid] = {} /\ UndoOf(sid)
    BY DEF TInv, Submitted, UndoOK, UndoOf
  <1>2. r \in Request
    BY <1>1, AppendHolds
  <1>3. CASE handler' = [handler EXCEPT ![sid] = IdleHandler] /\ UNCHANGED undoRecords
    BY <1>1, <1>3, UndoAnswer
  <1>4. CASE /\ handler' = [handler EXCEPT ![sid].pc = "undo", ![sid].outcome = "none"]
             /\ compensation' = [compensation EXCEPT ![sid] = {r}]
             /\ JoinCompensation(sid, {r})
    <2>1. /\ \A x \in Sids \ {sid} : compensating'[x] = compensating[x]
          /\ \A t \in compensating'[sid] : t.ids = {r}
      BY <1>1, <1>2, <1>4, UndoJoin
    <2>2. compensation'[sid] = {r} /\ \A x \in Sids \ {sid} : compensation'[x] = compensation[x]
      BY <1>1, <1>4 DEF TypeOK
    <2>3. handler'[sid].pc = "undo" /\ \A x \in Sids \ {sid} : handler'[x] = handler[x]
      BY <1>1, <1>4 DEF TypeOK, Handler
    <2>4. UndoOf(sid)'
      BY <2>1, <2>2, <2>3 DEF UndoOf
    <2>5. ASSUME NEW x \in Sids \ {sid} PROVE UndoOf(x)'
      BY <2>1, <2>2, <2>3, UndoFrame DEF UndoOK, SameUndo, Harmless
    <2> QED
      BY <2>4, <2>5 DEF UndoOK
  <1> QED
    BY <1>3, <1>4 DEF Submitted, Answer

(* A compensation ends: one that succeeds leaves none pending.             *)
LEMMA UndoFinish ==
    ASSUME TypeOK, UndoOK, NEW sid \in Sids, NEW t \in compensating[sid],
           FinishCompensation(sid, t)
    PROVE  UndoOK'
  <1>1. UndoOf(sid) /\ compensating[sid] # {} /\ t.ids = compensation[sid] /\ t.ok \in BOOLEAN
    BY DEF UndoOK, UndoOf, TypeOK, Compensation
  <1>2. /\ compensating'[sid] = {} /\ \A x \in Sids \ {sid} : compensating'[x] = compensating[x]
        /\ compensation'[sid] = IF t.ok THEN {} ELSE compensation[sid]
        /\ \A x \in Sids \ {sid} : compensation'[x] = compensation[x]
    BY <1>1 DEF FinishCompensation, TypeOK
  <1>3. /\ \A x \in Sids \ {sid} : handler'[x] = handler[x]
        /\ handler'[sid].pc = handler[sid].pc
        /\ handler[sid].pc = "compensate" => handler'[sid].outcome = Outcome(t.ok)
    BY DEF FinishCompensation, TypeOK, Handler
  <1>4. handler[sid].pc # "submit"
    BY <1>1 DEF UndoOf
  <1>5. UndoOf(sid)'
    BY <1>2, <1>3, <1>4 DEF UndoOf, Outcome
  <1>6. ASSUME NEW x \in Sids \ {sid} PROVE UndoOf(x)'
    BY <1>2, <1>3, UndoFrame DEF UndoOK, SameUndo, Harmless
  <1> QED
    BY <1>5, <1>6 DEF UndoOK

(* The reaper joins what is pending.                                       *)
LEMMA UndoReap ==
    ASSUME TInv, UndoOK, ReapCompensations
    PROVE  UndoOK'
  <1>1. TypeOK /\ Rest(Sids) \subseteq Sids /\ UNCHANGED <<handler, compensation>>
    BY DEF TInv, ReapCompensations, ReaperReady, Rest, ReaperOK
  <1>2. ASSUME NEW sid \in Sids, compensation[sid] # {}, JoinCompensation(sid, compensation[sid])
        PROVE  UndoOK'
    <2>1. compensation[sid] \in SUBSET Request
      BY <1>1 DEF TypeOK
    <2>2. /\ \A x \in Sids \ {sid} : compensating'[x] = compensating[x]
          /\ \A t \in compensating'[sid] : t.ids = compensation[sid]
      BY <1>1, <1>2, <2>1, UndoJoin DEF UndoOK
    <2>3. UndoOf(sid)'
      BY <1>1, <1>2, <2>2 DEF UndoOK, UndoOf
    <2>4. ASSUME NEW x \in Sids \ {sid} PROVE UndoOf(x)'
      BY <1>1, <2>2, UndoFrame DEF UndoOK, SameUndo, Harmless
    <2> QED
      BY <2>3, <2>4 DEF UndoOK
  <1>3. CASE UNCHANGED compensating
    BY <1>1, <1>3, UndoOthers DEF undoRecords, Harmless
  <1> QED
    BY <1>1, <1>2, <1>3 DEF ReapCompensations

(* Every step keeps it so.                                                 *)
LEMMA NextUndo == TInv /\ UndoOK /\ [Next]_vars => UndoOK'
  <1> SUFFICES ASSUME TInv, UndoOK, [Next]_vars PROVE UndoOK'
    OBVIOUS
  <1>1. TypeOK
    BY DEF TInv
  <1>2. ASSUME UNCHANGED <<handler, undoRecords>> PROVE UndoOK'
    BY <1>2, UndoOthers DEF Harmless
  <1>3. ASSUME NEW sid \in Sids, Requests(sid) PROVE UndoOK'
    <2>1. ASSUME NEW f, Open(sid, f) \/ Detach(sid, f) \/ Resume(sid, f) PROVE UndoOK'
      BY <1>2, <2>1 DEF Open, Detach, Resume, records, undoRecords
    <2>2. ASSUME NEW f, OpenFails(sid, f) PROVE UndoOK'
      <3> DEFINE c == [kind |-> "open_rollback", sid |-> sid, fence |-> f, submitted |-> {},
                       reserved |-> AllRequests(Opened(f))]
                 h == [IdleHandler EXCEPT !.pc = "cleanup", !.inc = f.inc, !.record = c,
                           !.msg = [kind |-> "open", fence |-> f, next |-> f]]
      <3>1. handler' = [handler EXCEPT ![sid] = h] /\ UNCHANGED undoRecords
        BY <2>2 DEF OpenFails
      <3>2. h.pc = "cleanup"
        BY DEF IdleHandler
      <3> HIDE DEF h
      <3> QED
        BY <1>1, <3>1, <3>2, UndoStep
    <2> QED
      BY <1>1, <1>3, <2>1, <2>2, UndoBegin DEF Requests
  <1>4. ASSUME NEW sid \in Sids, Handle(sid) PROVE UndoOK'
    <2>1. CASE Continue(sid)
      <3>1. compensation[sid] = {} \/ handler[sid].outcome = "fail"
        BY <2>1 DEF Continue, UndoOK, UndoOf
      <3> QED
        BY <1>1, <2>1, <3>1, UndoBody, UndoAnswer
        DEF Continue, AnswerUnchanged, records, undoRecords
    <2>2. CASE AppendFails(sid) \/ CleanedUp(sid)
      BY <1>1, <2>2, UndoAnswer
      DEF AppendFails, CleanedUp, Answer, AnswerUnchanged, records, undoRecords
    <2> QED
      BY <1>4, <2>1, <2>2, UndoSubmitted DEF Handle
  <1>5. ASSUME NEW sid \in Sids, Finish(sid) PROVE UndoOK'
    BY <1>1, <1>5, UndoFinish DEF Finish
  <1>6. ASSUME NEW key \in Keys, FinishOf(key) PROVE UndoOK'
    <2>1. PICK t \in controlTasks : FinishControl(t)
      BY <1>6 DEF FinishOf
    <2>2. UNCHANGED undoRecords /\ \A sid \in Sids : Harmless(sid)
      <3>1. ASSUME NEW sid \in Sids PROVE Harmless(sid)
        <4>1. CASE handler'[sid] = handler[sid]
          BY <4>1 DEF Harmless
        <4>2. CASE /\ AwaitsControl(handler[sid], t.record)
                   /\ handler'[sid] = [handler[sid] EXCEPT !.outcome = Outcome(t.ok)]
          <5>1. handler[sid] \in Handler
            BY <1>1 DEF TypeOK
          <5>2. handler'[sid].pc = "cleanup"
            BY <4>2, <5>1 DEF AwaitsControl, Handler
          <5> QED
            BY <5>2 DEF Harmless
        <4> QED
          BY <2>1, <4>1, <4>2 DEF FinishControl
      <3> QED
        BY <2>1, <3>1 DEF FinishControl
    <2> QED
      BY <2>2, UndoOthers
  <1>7. CASE Reap
    <2>1. CASE ReapControls \/ CollectExpired \/ ExpireNext
      BY <1>2, <2>1 DEF ReapControls, CollectExpired, ExpireNext, undoRecords
    <2> QED
      BY <1>7, <2>1, UndoReap DEF Reap
  <1>8. CASE Poll \/ LoopReturns
    BY <1>2, <1>8 DEF Poll, LoopReturns, ForwardSegment, StageError, ReplicaDeath, SegmentForwarded,
                      LoopCleanedUp, records, undoRecords
  <1>9. CASE UNCHANGED vars
    BY <1>2, <1>9 DEF vars, undoRecords
  <1> QED
    BY <1>3, <1>4, <1>5, <1>6, <1>7, <1>8, <1>9 DEF Next

(* While an append is submitted, no abort of an earlier one of its session *)
(* is due or under way: the abort names the request that both share, and   *)
(* would take the new append with it.                                      *)
THEOREM SubmissionIsNotUndone == Spec => []NoSubmitDuringUndo
  <1>1. Init => UndoOK
    BY DEF Init, UndoOK, UndoOf, IdleHandler
  <1>2. UndoOK => NoSubmitDuringUndo
    BY DEF UndoOK, UndoOf, NoSubmitDuringUndo
  <1> QED
    BY <1>1, <1>2, InitType, NextType, NextUndo, PTL DEF Spec

-----------------------------------------------------------------------------
(* A closing session keeps its cleanup.                                    *)

(* Something pending will remove the session s of this id.                 *)
HasCleanup(sid, s) ==
    \/ Live(s)
    \/ \E c \in controls : c.sid = sid /\ c.kind \in {"close", "open_rollback"}
    \/ \E x \in expirations : x.sid = sid /\ x.generation = s.generation
    \/ loop.pc = "cleanup" /\ sid \in loop.closing

CleanupOK == \A sid \in Registered : HasCleanup(sid, sessions[sid])

(* The session was there, and its lease is the same if it was closing.     *)
Persists(sid) == sessions[sid] # NoSession /\ Steady(sessions[sid], sessions'[sid])

CleanupsKept ==
    /\ controls \subseteq controls' /\ expirations \subseteq expirations'
    /\ loop.pc = "cleanup" => loop'.pc = "cleanup" /\ loop'.closing = loop.closing

(* Steps that end no cleanup: a session that they register or close has    *)
(* its cleanup at once.                                                    *)
LEMMA CleanupStep ==
    ASSUME CleanupOK, CleanupsKept,
           \A sid \in Sids : sessions'[sid] # NoSession =>
               Persists(sid) \/ HasCleanup(sid, sessions[sid])'
    PROVE  CleanupOK'
  <1> SUFFICES ASSUME NEW sid \in Sids, sessions'[sid] # NoSession, Persists(sid)
               PROVE  HasCleanup(sid, sessions[sid])'
    BY DEF CleanupOK, Registered
  <1>1. HasCleanup(sid, sessions[sid])
    BY DEF CleanupOK, Registered, Persists
  <1> QED
    BY <1>1 DEF HasCleanup, CleanupsKept, Persists, Steady, Live

(* A session persists as it is.                                            *)
LEMMA SamePersists ==
    ASSUME NEW sid, sessions[sid] # NoSession, sessions'[sid] = sessions[sid]
    PROVE  Persists(sid)
  BY DEF Persists, Steady

(* Steps that change no session.                                           *)
LEMMA CleanupFrame ==
    ASSUME CleanupOK, CleanupsKept, sessions' = sessions
    PROVE  CleanupOK'
  BY CleanupStep, SamePersists

(* What a handler stores in the object it holds.                           *)
LEMMA StoredPersists ==
    ASSUME TypeOK, NEW sid \in Sids, NEW inc, NEW s, Steady(Object(sid, inc), s),
           sessions' = Stored(sid, inc, s)
    PROVE  \A x \in Sids : sessions'[x] # NoSession => Persists(x)
  <1>1. CASE IsRegistered(sid, inc)
    <2>1. sessions'[sid] = s /\ \A x \in Sids \ {sid} : sessions'[x] = sessions[x]
      BY <1>1 DEF Stored, TypeOK
    <2>2. sessions[sid] # NoSession /\ Object(sid, inc) = sessions[sid]
      BY <1>1 DEF Object, IsRegistered, Registered
    <2>3. Persists(sid)
      BY <2>1, <2>2 DEF Persists
    <2> QED
      BY <2>1, <2>3, SamePersists
  <1>2. CASE ~IsRegistered(sid, inc)
    BY <1>2, SamePersists DEF Stored
  <1> QED
    BY <1>1, <1>2

(* Somebody else changes one registered session.                           *)
LEMMA OnePersists ==
    ASSUME TypeOK, NEW sid \in Registered, NEW s, Steady(sessions[sid], s),
           sessions' = [sessions EXCEPT ![sid] = s]
    PROVE  \A x \in Sids : sessions'[x] # NoSession => Persists(x)
  <1>1. sid \in Sids /\ sessions[sid] # NoSession
    BY DEF Registered
  <1>2. sessions'[sid] = s /\ \A x \in Sids \ {sid} : sessions'[x] = sessions[x]
    BY <1>1 DEF TypeOK
  <1>3. Persists(sid)
    BY <1>1, <1>2 DEF Persists
  <1> QED
    BY <1>2, <1>3, SamePersists

(* A handler awaits its cleanup and has not closed its session.            *)
LEMMA AwaitCleanup ==
    ASSUME TypeOK, CleanupOK, NEW sid \in Sids, NEW inc, NEW s, NEW m, NEW c,
           AwaitControl(sid, inc, s, m, c), Steady(Object(sid, inc), s),
           UNCHANGED <<loop, expirations>>
    PROVE  CleanupOK'
  <1>1. sessions' = Stored(sid, inc, s) /\ controls \subseteq controls'
    BY DEF AwaitControl, Suspend
  <1> QED
    BY <1>1, StoredPersists, CleanupStep DEF CleanupsKept

(* The bodies.                                                             *)
LEMMA AppendCleanup ==
    ASSUME TypeOK, CleanupOK, NEW sid \in Sids, NEW inc, NEW m \in Message,
           Object(sid, inc) \in Session, AppendBody(sid, inc, m), UNCHANGED expirations
    PROVE  CleanupOK'
  <1> DEFINE s == Object(sid, inc)
             b == BeginOperation(s, AppendOperation, 0)
             t == Reserve(b, EntryStage, RequestOf(m.fence), m.fence)
  <1>1. CleanupsKept
    BY DEF AppendBody, SegmentRefenced, CleanupsKept, controlRecords, TypeOK, Loop
  <1>2. m.fence \in Fence /\ RequestOf(m.fence) \in Request /\ EntryStage \in Stages
    BY MessageFacts, RequestType, ControlAssumption
  <1>3. b \in Session /\ Steady(s, b)
    BY OperationTypes, LeaseSteady DEF AppendOperation
  <1>4. Steady(b, t)
    BY <1>2, <1>3, ResourcesSteady
  <1>5. Steady(s, t)
    BY <1>3, <1>4, SteadyTransitive
  <1>6. sessions' \in {sessions, Stored(sid, inc, t)}
    BY DEF AppendBody, Suspend, AnswerUnchanged
  <1> HIDE DEF t
  <1> QED
    BY <1>1, <1>5, <1>6, StoredPersists, CleanupStep, CleanupFrame

(* A cancel closes nothing.                                                *)
LEMMA CancelCleanup ==
    ASSUME TypeOK, CleanupOK, NEW sid \in Sids, NEW inc, NEW m \in Message,
           Object(sid, inc) \in Session, CancelBody(sid, inc, m), UNCHANGED expirations
    PROVE  CleanupOK'
  <1> DEFINE s == Object(sid, inc)
             t == PrepareCancel(s, m.next)
  <1>1. m.fence \in Fence /\ m.next \in Fence /\ UNCHANGED loop /\ Steady(s, s)
    BY MessageFacts DEF CancelBody, Steady
  <1>2. ASSUME NEW c, AwaitControl(sid, inc, s, m, c) PROVE CleanupOK'
    BY <1>1, <1>2, AwaitCleanup
  <1>3. ASSUME NEW c, CanCancel(s, m.fence, m.next), AwaitControl(sid, inc, t, m, c)
        PROVE  CleanupOK'
    <2>1. Steady(s, t)
      BY <1>1, <1>3, CancelSteady
    <2> HIDE DEF t
    <2> QED
      BY <1>1, <1>3, <2>1, AwaitCleanup
  <1>4. ASSUME AnswerUnchanged(sid), UNCHANGED <<controlRecords, stageVars>> PROVE CleanupOK'
    BY <1>1, <1>4, CleanupFrame DEF AnswerUnchanged, CleanupsKept, controlRecords
  <1> QED
    BY <1>2, <1>3, <1>4 DEF CancelBody

(* Nor does an update.                                                     *)
LEMMA UpdateCleanup ==
    ASSUME TypeOK, CleanupOK, NEW sid \in Sids, NEW inc, NEW m \in Message,
           Object(sid, inc) \in Session, UpdateBody(sid, inc, m), UNCHANGED expirations
    PROVE  CleanupOK'
  <1> DEFINE s == Object(sid, inc)
             t == AcceptFence(s, m.fence)
  <1>1. CleanupsKept /\ m.fence \in Fence
    BY MessageFacts DEF UpdateBody, CleanupsKept, controlRecords
  <1>2. CASE ValidFence(s, m.fence) /\ sessions' = Stored(sid, inc, t)
    <2>1. Steady(s, t)
      BY <1>1, <1>2, AcceptSteady DEF ValidFence
    <2> HIDE DEF t
    <2> QED
      BY <1>1, <1>2, <2>1, StoredPersists, CleanupStep
  <1>3. CASE sessions' = sessions
    BY <1>1, <1>3, CleanupFrame
  <1> QED
    BY <1>2, <1>3 DEF UpdateBody, Answer, AnswerUnchanged

(* A close leaves its record.                                              *)
LEMMA CloseCleanup ==
    ASSUME TypeOK, CleanupOK, NEW sid \in Sids, NEW m \in Message, CloseBody(sid, m),
           UNCHANGED expirations
    PROVE  CleanupOK'
  <1> DEFINE s == sessions[sid]
             inc == s.fence.inc
             t == BeginClose(AcceptFence(s, m.fence), "explicit_close")
             r == CloseRecord("close", sid, m.fence, s)
  <1>1. UNCHANGED loop
    BY DEF CloseBody
  <1>2. ASSUME NEW c, sid \in Registered, AwaitControl(sid, inc, s, m, c) PROVE CleanupOK'
    <2>1. Object(sid, inc) = s /\ Steady(s, s)
      BY <1>2 DEF Object, IsRegistered, Steady
    <2> HIDE DEF s, inc
    <2> QED
      BY <1>1, <1>2, <2>1, AwaitCleanup
  <1>3. ASSUME sid \in Registered, AwaitControl(sid, inc, t, m, r)
        PROVE  CleanupOK'
    <2>1. sessions' = [sessions EXCEPT ![sid] = t] /\ controls' = controls \cup {r}
      BY <1>3 DEF AwaitControl, Suspend, Stored, IsRegistered
    <2>2. r.sid = sid /\ r.kind = "close"
      BY DEF CloseRecord
    <2> HIDE DEF r, t
    <2>3. HasCleanup(sid, sessions[sid])'
      BY <2>1, <2>2 DEF HasCleanup
    <2>4. ASSUME NEW x \in Sids \ {sid}, sessions'[x] # NoSession PROVE Persists(x)
      <3>1. sessions'[x] = sessions[x]
        BY <2>1 DEF TypeOK
      <3> QED
        BY <2>4, <3>1, SamePersists
    <2>5. CleanupsKept
      BY <1>1, <2>1 DEF CleanupsKept
    <2> QED
      BY <2>3, <2>4, <2>5, CleanupStep
  <1>4. ASSUME AnswerUnchanged(sid), UNCHANGED <<controlRecords, stageVars>> PROVE CleanupOK'
    BY <1>1, <1>4, CleanupFrame DEF AnswerUnchanged, CleanupsKept, controlRecords
  <1> QED
    BY <1>2, <1>3, <1>4 DEF CloseBody

(* Every body leaves a closing session its cleanup.                        *)
LEMMA BodyCleanup ==
    ASSUME TypeOK, CleanupOK, NEW sid \in Sids, NEW inc, NEW m \in Message,
           m.kind \in {"append", "cancel", "update"} => Object(sid, inc) \in Session,
           Body(sid, inc, m)
    PROVE  CleanupOK'
  BY AppendCleanup, CancelCleanup, UpdateCleanup, CloseCleanup DEF Body

(* The requests of clients.                                                *)
LEMMA OpenCleanup ==
    ASSUME TypeOK, CleanupOK, NEW sid \in Sids, NEW f \in Fences,
           Open(sid, f) \/ OpenFails(sid, f)
    PROVE  CleanupOK'
  <1> DEFINE c == [kind |-> "open_rollback", sid |-> sid, fence |-> f, submitted |-> {},
                   reserved |-> AllRequests(Opened(f))]
  <1>1. f \in Fence
    BY ControlAssumption
  <1>2. CleanupsKept
    BY DEF Open, OpenFails, CleanupsKept, records
  <1>3. ASSUME NEW x \in Sids \ {sid}, sessions'[x] # NoSession PROVE Persists(x)
    <2>1. sessions'[x] = sessions[x]
      BY DEF Open, OpenFails, TypeOK
    <2> QED
      BY <1>3, <2>1, SamePersists
  <1>4. HasCleanup(sid, sessions[sid])'
    <2>1. CASE Open(sid, f)
      <3>1. sessions'[sid] = Opened(f)
        BY <2>1 DEF Open, TypeOK
      <3> QED
        BY <1>1, <3>1, OpenedFacts DEF HasCleanup
    <2>2. CASE OpenFails(sid, f)
      <3>1. c \in controls' /\ c.sid = sid /\ c.kind = "open_rollback"
        BY <2>2 DEF OpenFails
      <3> HIDE DEF c
      <3> QED
        BY <3>1 DEF HasCleanup
    <2> QED
      BY <2>1, <2>2
  <1> QED
    BY <1>2, <1>3, <1>4, CleanupStep

(* A lease that is detached or resumed is live.                            *)
LEMMA LeaseCleanup ==
    ASSUME TypeOK, CleanupOK, NEW sid \in Sids, NEW f, Detach(sid, f) \/ Resume(sid, f)
    PROVE  CleanupOK'
  <1> DEFINE s == sessions[sid]
             t == DetachLease(s, 0)
             u == ResumeLease(s, 0)
  <1>1. sid \in Registered /\ s \in Session /\ Live(s) /\ CleanupsKept
    BY DEF Detach, Resume, Registered, TypeOK, CleanupsKept, records
  <1>2. Steady(s, t) /\ Steady(s, u)
    BY <1>1, LeaseSteady
  <1>3. \/ sessions' = [sessions EXCEPT ![sid] = t]
        \/ sessions' = [sessions EXCEPT ![sid] = u]
    BY DEF Detach, Resume
  <1> HIDE DEF t, u
  <1> QED
    BY <1>1, <1>2, <1>3, OnePersists, CleanupStep

(* A control begins.                                                       *)
LEMMA BeginCleanup ==
    ASSUME TInv, CleanupOK, NEW sid \in Sids, NEW m \in Messages, Begin(sid, m)
    PROVE  CleanupOK'
  <1> DEFINE s == sessions[sid]
             inc == s.fence.inc
  <1>1. TypeOK /\ s \in Session /\ IsRegistered(sid, inc) /\ Object(sid, inc) = s /\ Steady(s, s)
    BY DEF TInv, Begin, Registered, TypeOK, IsRegistered, Object, Steady
  <1>2. m \in Message
    BY ControlAssumption DEF Messages, Message, Kinds
  <1>3. CASE Body(sid, inc, m)
    BY <1>1, <1>2, <1>3, BodyCleanup
  <1>4. CASE sessions' = Stored(sid, inc, s) /\ UNCHANGED <<controlRecords, expirations, loop>>
    <2>1. CleanupsKept
      BY <1>4 DEF CleanupsKept, controlRecords
    <2> HIDE DEF s, inc
    <2> QED
      BY <1>1, <1>4, <2>1, StoredPersists, CleanupStep
  <1> QED
    BY <1>3, <1>4 DEF Begin, Suspend

(* The handlers that go on.                                                *)
LEMMA ContinueCleanup ==
    ASSUME TInv, CleanupOK, NEW sid \in Sids, Continue(sid)
    PROVE  CleanupOK'
  <1> DEFINE h == handler[sid]
  <1>1. TypeOK /\ HandlerOf(sid) /\ h.pc = "compensate"
    BY DEF TInv, HandlersOK, Continue
  <1>2. CASE Body(sid, h.inc, h.msg)
    <2>1. h.msg \in Message
      BY <1>1 DEF HandlerOf
    <2>2. h.msg.kind \in {"append", "cancel", "update"} => Object(sid, h.inc) \in Session
      BY <1>1 DEF HandlerOf, Holding, ObjectOK
    <2> QED
      BY <1>1, <1>2, <2>1, <2>2, BodyCleanup
  <1>3. CASE AnswerUnchanged(sid) /\ UNCHANGED <<records, loop>>
    BY <1>3, CleanupFrame DEF AnswerUnchanged, CleanupsKept, records
  <1> QED
    BY <1>2, <1>3 DEF Continue

(* An append ends.                                                         *)
LEMMA AppendEndCleanup ==
    ASSUME TInv, CleanupOK, NEW sid \in Sids, Submitted(sid) \/ AppendFails(sid)
    PROVE  CleanupOK'
  <1> DEFINE h == handler[sid]
             s == Object(sid, h.inc)
             f == h.res.fence
             c == CommitAppend(s, h.res)
             b == Bind(c, EntryStage, RequestOf(f), f)
             t == EndAppend(b)
             u == EndAppend(s)
  <1>1. TypeOK /\ h.pc \in {"submit", "undo"} /\ CleanupsKept
    BY DEF TInv, Submitted, AppendFails, CleanupsKept, controlRecords, records
  <1>2. h.res \in Reservation /\ f \in Fence /\ RequestOf(f) \in Request /\ s \in Session
    BY <1>1, AppendHolds
  <1>3. Steady(s, u)
    BY <1>2, EndAppendSteady
  <1>4. ASSUME ValidFence(s, f) PROVE Steady(s, t)
    <2>1. f.inc = s.fence.inc
      BY <1>4 DEF ValidFence
    <2>2. c \in Session /\ Steady(s, c) /\ c.fence = f
      BY <1>2, <2>1, CommitSteady
    <2>3. b \in Session /\ Steady(c, b)
      <3> HIDE DEF c
      <3> QED
        BY <1>2, <2>2, BindSteady, ControlAssumption
    <2>4. Steady(b, t)
      BY <2>3, EndAppendSteady
    <2>5. Steady(s, b)
      BY <2>2, <2>3, SteadyTransitive
    <2> HIDE DEF b, c
    <2> QED
      BY <2>4, <2>5, SteadyTransitive
  <1>5. \/ sessions' = Stored(sid, h.inc, u)
        \/ sessions' = Stored(sid, h.inc, t) /\ ValidFence(s, f)
        \/ sessions' = sessions
    BY DEF Submitted, AppendFails, Answer
  <1> HIDE DEF t, u
  <1>6. CASE sessions' = Stored(sid, h.inc, u)
    BY <1>1, <1>3, <1>6, StoredPersists, CleanupStep
  <1>7. CASE sessions' = Stored(sid, h.inc, t) /\ ValidFence(s, f)
    BY <1>1, <1>4, <1>7, StoredPersists, CleanupStep
  <1>8. CASE sessions' = sessions
    BY <1>1, <1>8, CleanupFrame
  <1> QED
    BY <1>5, <1>6, <1>7, <1>8

(* A compensation releases requests.                                       *)
LEMMA CompensationCleanup ==
    ASSUME TypeOK, CleanupOK, NEW sid \in Sids, NEW t, FinishCompensation(sid, t)
    PROVE  CleanupOK'
  <1>1. CleanupsKept
    BY DEF FinishCompensation, CleanupsKept, controlRecords
  <1>2. CASE sessions' = sessions
    BY <1>1, <1>2, CleanupFrame
  <1>3. CASE /\ sid \in Registered
             /\ sessions' = [sessions EXCEPT ![sid] = ReleaseRequests(@, t.ids)]
    <2> DEFINE s == ReleaseRequests(sessions[sid], t.ids)
    <2>1. sessions[sid] \in Session
      BY <1>3 DEF TypeOK, Registered
    <2>2. Steady(sessions[sid], s)
      <3>1. /\ s.fence = sessions[sid].fence /\ s.terminal = sessions[sid].terminal
            /\ s.generation = sessions[sid].generation
        BY <2>1 DEF ReleaseRequests, Session
      <3> HIDE DEF s
      <3> QED
        BY <3>1 DEF Steady
    <2>3. sessions' = [sessions EXCEPT ![sid] = s]
      BY <1>3
    <2> HIDE DEF s
    <2> QED
      BY <1>1, <1>3, <2>2, <2>3, OnePersists, CleanupStep
  <1> QED
    BY <1>2, <1>3 DEF FinishCompensation

(* A control cleanup that succeeds takes its record and, unless it was a   *)
(* cancel, the session that needs it.                                      *)
LEMMA ControlCleanup ==
    ASSUME TypeOK, CleanupOK, NEW t \in controlTasks, FinishControl(t)
    PROVE  CleanupOK'
  <1> DEFINE c == t.record
  <1>1. /\ c \in Control /\ c.sid \in Sids /\ controls \subseteq Control
        /\ UNCHANGED <<expirations, loop>>
    BY DEF FinishControl, TypeOK, Task, Control
  <1>2. CASE ~t.ok
    BY <1>2, CleanupFrame DEF FinishControl, StillPending, CleanupsKept
  <1>3. CASE t.ok
    <2>1. ASSUME NEW sid \in Sids, sessions'[sid] # NoSession
          PROVE  Persists(sid) /\ (c.sid = sid => c.kind = "cancel")
      <3>1. CASE c.kind = "cancel" /\ c.sid \in Registered
                 /\ sessions' = [sessions EXCEPT ![c.sid] = ReleaseFence(@, c.fence)]
        <4> DEFINE s == ReleaseFence(sessions[c.sid], c.fence)
        <4>1. sessions[c.sid] \in Session
          BY <3>1 DEF TypeOK, Registered
        <4>2. Steady(sessions[c.sid], s)
          <5>1. /\ s.fence = sessions[c.sid].fence /\ s.terminal = sessions[c.sid].terminal
                /\ s.generation = sessions[c.sid].generation
            BY <4>1 DEF ReleaseFence, Session
          <5> HIDE DEF s
          <5> QED
            BY <5>1 DEF Steady
        <4>3. sessions' = [sessions EXCEPT ![c.sid] = s]
          BY <3>1
        <4>4. PICK x \in Registered : x = c.sid
          BY <3>1
        <4> HIDE DEF s, c
        <4>5. Persists(sid)
          BY <2>1, <4>2, <4>3, <4>4, OnePersists
        <4> QED
          BY <3>1, <4>5
      <3>2. CASE c.kind = "cancel" /\ sessions' = sessions
        BY <2>1, <3>2, SamePersists
      <3>3. CASE Finalize(sessions, {c.sid} \cap Registered)
        <4>1. sessions'[sid] = sessions[sid] /\ sid \notin {c.sid} \cap Registered
          BY <2>1, <3>3 DEF Finalize
        <4>2. sid # c.sid
          BY <2>1, <4>1 DEF Registered
        <4> QED
          BY <2>1, <4>1, <4>2, SamePersists
      <3> QED
        BY <1>3, <3>1, <3>2, <3>3 DEF FinishControl
    <2> SUFFICES ASSUME NEW sid \in Sids, sessions'[sid] # NoSession
                 PROVE  HasCleanup(sid, sessions[sid])'
      BY DEF CleanupOK, Registered
    <2>2. HasCleanup(sid, sessions[sid]) /\ Steady(sessions[sid], sessions'[sid])
      BY <2>1 DEF CleanupOK, Registered, Persists
    <2>3. ASSUME NEW d \in controls, d.sid = sid, d.kind \in {"close", "open_rollback"}
          PROVE  d \in controls'
      <3>1. ControlKey(d) # ControlKey(c)
        BY <2>1, <2>3 DEF ControlKey
      <3> QED
        BY <1>3, <3>1 DEF FinishControl, StillPending
    <2> QED
      BY <1>1, <2>2, <2>3 DEF HasCleanup, Steady, Live
  <1> QED
    BY <1>2, <1>3

(* A session that expires has its expiration until it is removed; an       *)
(* expiration that ends removes its session.                               *)
LEMMA ExpireCleanup ==
    ASSUME NEW ss, NEW pending, NEW ended, NEW rest, Expire(ss, pending, ended, rest),
           UNCHANGED <<controls, loop>>,
           \A sid \in Sids : ss[sid] # NoSession =>
               HasCleanup(sid, ss[sid]) \/ \E x \in pending : x.sid = sid
                                                   /\ x.generation = ss[sid].generation,
           expirations \subseteq pending
    PROVE  CleanupOK'
  <1>1. PICK done : /\ Finalize(ss, Expiring(ss, done))
                    /\ expirations' = {y \in pending : \A x \in done : ~SameExpiry(x, y)}
    BY DEF Expire
  <1> SUFFICES ASSUME NEW sid \in Sids, sessions'[sid] # NoSession
               PROVE  HasCleanup(sid, sessions[sid])'
    BY DEF CleanupOK, Registered
  <1>2. sessions'[sid] = ss[sid] /\ ss[sid] # NoSession /\ sid \notin Expiring(ss, done)
    BY <1>1 DEF Finalize
  <1>3. ASSUME NEW y \in pending, y.sid = sid, y.generation = ss[sid].generation
        PROVE  y \in expirations'
    BY <1>1, <1>2, <1>3 DEF Expiring, SameExpiry
  <1>4. CASE \E x \in pending : x.sid = sid /\ x.generation = ss[sid].generation
    BY <1>2, <1>3, <1>4 DEF HasCleanup
  <1>5. CASE HasCleanup(sid, ss[sid])
    BY <1>2, <1>3, <1>5 DEF HasCleanup
  <1> QED
    BY <1>2, <1>4, <1>5

(* What expires is recorded, or its key was pending already.               *)
LEMMA CollectCleanup ==
    ASSUME TypeOK, CleanupOK, CollectExpired
    PROVE  CleanupOK'
  <1>1. PICK expired \in SUBSET {sid \in Sids : MayExpire(sid)} :
           Expire(Closed(expired), WithExpired(expired), {}, WithExpired(expired))
    BY DEF CollectExpired, Closed
  <1> DEFINE ss == Closed(expired)
             pending == WithExpired(expired)
  <1>2. expirations \subseteq pending /\ UNCHANGED <<controls, loop>>
    BY DEF WithExpired, CollectExpired, controlRecords
  <1>3. ASSUME NEW sid \in Sids, ss[sid] # NoSession
        PROVE  HasCleanup(sid, ss[sid]) \/ \E x \in pending : x.sid = sid
                                                   /\ x.generation = ss[sid].generation
    <2>1. CASE sid \in expired
      <3> DEFINE s == sessions[sid]
      <3>1. s \in Session /\ Live(s) /\ ExpiryReason(s) \in Reasons
        BY <2>1 DEF MayExpire, Registered, TypeOK, ExpiryReason, Reasons
      <3>2. ss[sid].generation = s.generation + 1
        BY <2>1, <3>1, CloseFacts DEF Closed
      <3>3. Expiry(sid, s).sid = sid /\ Expiry(sid, s).generation = s.generation + 1
        BY DEF Expiry
      <3>4. Expiry(sid, s) \in pending \/ \E y \in expirations : SameExpiry(Expiry(sid, s), y)
        BY <2>1 DEF WithExpired
      <3> HIDE DEF ss, pending
      <3>5. CASE Expiry(sid, s) \in pending
        BY <3>2, <3>3, <3>5
      <3>6. CASE \E y \in expirations : SameExpiry(Expiry(sid, s), y)
        BY <1>2, <3>2, <3>3, <3>6 DEF SameExpiry
      <3> QED
        BY <3>4, <3>5, <3>6
    <2>2. CASE sid \notin expired
      BY <1>3, <2>2 DEF Closed, CleanupOK, Registered
    <2> QED
      BY <2>1, <2>2
  <1> HIDE DEF ss, pending
  <1>4. Expire(ss, pending, {}, pending)
    BY <1>1 DEF ss, pending
  <1> QED
    BY <1>2, <1>3, <1>4, ExpireCleanup

(* An expiration whose abort raised stays pending.                         *)
LEMMA ExpireNextCleanup ==
    ASSUME CleanupOK, ExpireNext
    PROVE  CleanupOK'
  <1> DEFINE ended == IF reaper.outcome = "ok" THEN {reaper.current} ELSE {}
  <1>1. Expire(sessions, expirations, ended, reaper.todo) /\ UNCHANGED <<controls, loop>>
    BY DEF ExpireNext, controlRecords
  <1>2. \A sid \in Sids : sessions[sid] # NoSession => HasCleanup(sid, sessions[sid])
    BY DEF CleanupOK, Registered
  <1> HIDE DEF ended
  <1> QED
    BY <1>1, <1>2, ExpireCleanup

(* The orchestration loop.                                                 *)
LEMMA ForwardedCleanup ==
    ASSUME TInv, CleanupOK, SegmentForwarded
    PROVE  CleanupOK'
  <1> DEFINE sid == loop.sid
             f == loop.fence
             r == RequestOf(f)
             s == sessions[sid]
             t == Reserve(s, NextStage, r, f)
             u == Bind(t, NextStage, r, f)
  <1>1. TypeOK /\ CleanupsKept /\ sid \in Sids /\ f \in Fence
    BY DEF TInv, SegmentForwarded, SegmentOK, CleanupsKept, records
  <1>2. r \in Request /\ NextStage \in Stages
    BY <1>1, ControlAssumption, RequestType
  <1>3. CASE sid \in Registered /\ CanReserve(s, NextStage, r, f)
             /\ sessions' = [sessions EXCEPT ![sid] = u]
    <2>1. s \in Session /\ f.inc = s.fence.inc
      BY <1>1, <1>3 DEF TypeOK, Registered, CanReserve, ValidFence
    <2>2. t \in Session /\ t.fence = s.fence /\ Steady(s, t)
      BY <1>1, <1>2, <2>1, ResourceTypes, ResourcesSteady
    <2>3. Steady(t, u)
      <3> HIDE DEF t
      <3> QED
        BY <1>1, <1>2, <2>1, <2>2, BindSteady
    <2>4. Steady(s, u)
      <3> HIDE DEF t
      <3>1. PICK v : v = u
        OBVIOUS
      <3> QED
        BY <2>2, <2>3, <3>1, SteadyTransitive
    <2>5. PICK x \in Registered : x = sid
      BY <1>3
    <2> HIDE DEF u, sid
    <2> QED
      BY <1>1, <1>3, <2>4, <2>5, OnePersists, CleanupStep
  <1>4. CASE sessions' = sessions
    BY <1>1, <1>4, CleanupFrame
  <1> QED
    BY <1>3, <1>4 DEF SegmentForwarded

(* A stage error: the loop will remove the owners.                         *)
LEMMA StageErrorCleanup ==
    ASSUME TInv, CleanupOK, NEW sid \in Sids, NEW f \in identity[sid], StageError(sid, f)
    PROVE  CleanupOK'
  <1> DEFINE ids == {[sid |-> sid, request |-> RequestOf(f)]}
  <1>1. TypeOK /\ f \in Fence /\ sessions' = OwnersClosing(ids) /\ UNCHANGED records
        /\ loop.pc = "idle"
    BY DEF TInv, StageError, TypeOK
  <1>2. loop'.pc = "cleanup" /\ loop'.closing = Owners(ids)
    BY DEF StageError, IdleLoop
  <1>3. ids \in SUBSET [sid : Sids, request : Request]
    BY <1>1, RequestType
  <1> HIDE DEF ids
  <1>4. ASSUME NEW x \in Sids, sessions'[x] # NoSession
        PROVE  Persists(x) \/ HasCleanup(x, sessions[x])'
    <2>1. /\ sessions[x] # NoSession
          /\ x \notin Owners(ids) => OwnersClosing(ids)[x] = sessions[x]
      BY <1>1, <1>3, <1>4, OwnersFacts
    <2>2. CASE x \in Owners(ids)
      BY <1>2, <2>2 DEF HasCleanup
    <2>3. CASE x \notin Owners(ids)
      BY <1>1, <2>1, <2>3, SamePersists
    <2> QED
      BY <2>2, <2>3
  <1>5. CleanupsKept
    BY <1>1 DEF CleanupsKept, records
  <1> QED
    BY <1>4, <1>5, CleanupStep

(* A replica dies: the owners are removed at once.                         *)
LEMMA ReplicaDeathCleanup ==
    ASSUME TypeOK, CleanupOK, NEW dead \in SUBSET engine, ReplicaDeath(dead)
    PROVE  CleanupOK'
  <1> DEFINE ids == {[sid |-> q.sid, request |-> q.request] : q \in dead}
  <1>1. Finalize(OwnersClosing(ids), Owners(ids)) /\ CleanupsKept
    BY DEF ReplicaDeath, CleanupsKept, records
  <1>2. ids \in SUBSET [sid : Sids, request : Request]
    BY DEF TypeOK, StageRequest
  <1> HIDE DEF ids
  <1>3. ASSUME NEW x \in Sids, sessions'[x] # NoSession PROVE Persists(x)
    <2>1. x \notin Owners(ids) /\ sessions'[x] = OwnersClosing(ids)[x]
      BY <1>1, <1>3 DEF Finalize
    <2>2. OwnersClosing(ids)[x] = sessions[x]
      BY <2>1 DEF OwnersClosing
    <2> QED
      BY <1>3, <2>1, <2>2, SamePersists
  <1> QED
    BY <1>1, <1>3, CleanupStep

(* The cleanup of the loop ends.                                           *)
LEMMA LoopCleanup ==
    ASSUME TypeOK, CleanupOK, LoopCleanedUp
    PROVE  TerminalHasCleanup'
  <1> DEFINE gone == {sid \in loop.closing \cap Registered : ~Live(sessions[sid])}
  <1>1. CASE ~loop.ok
    BY <1>1 DEF LoopCleanedUp, TerminalHasCleanup
  <1>2. CASE loop.ok
    <2>1. Finalize(sessions, gone) /\ UNCHANGED <<controls, expirations>>
      BY <1>2 DEF LoopCleanedUp, records
    <2> SUFFICES ASSUME NEW sid \in Sids, sessions'[sid] # NoSession
                 PROVE  HasCleanup(sid, sessions[sid])'
      BY DEF TerminalHasCleanup, HasCleanup, Registered
    <2>2. sessions'[sid] = sessions[sid] /\ sid \notin gone
      BY <2>1 DEF Finalize
    <2>3. HasCleanup(sid, sessions[sid]) /\ (Live(sessions[sid]) \/ sid \notin loop.closing)
      BY <2>2 DEF CleanupOK, Registered
    <2> QED
      BY <2>1, <2>2, <2>3 DEF HasCleanup
  <1> QED
    BY <1>1, <1>2

(* Every step keeps it so, unless the orchestrator stops.                  *)
LEMMA NextCleanup == TInv /\ TerminalHasCleanup /\ [Next]_vars => TerminalHasCleanup'
  <1> SUFFICES ASSUME TInv, TerminalHasCleanup, [Next]_vars PROVE TerminalHasCleanup'
    OBVIOUS
  <1>1. CASE UNCHANGED vars
    BY <1>1 DEF vars, TerminalHasCleanup, Registered, Live
  <1>2. CASE Next
    <2>1. TypeOK /\ CleanupOK
      BY <1>2 DEF TInv, Next, TerminalHasCleanup, CleanupOK, HasCleanup
    <2>2. CleanupOK' => TerminalHasCleanup'
      BY DEF TerminalHasCleanup, CleanupOK, HasCleanup
    <2>3. ASSUME NEW sid \in Sids, Requests(sid) PROVE CleanupOK'
      BY <2>1, <2>3, OpenCleanup, LeaseCleanup, BeginCleanup DEF Requests
    <2>4. ASSUME NEW sid \in Sids, Handle(sid) PROVE CleanupOK'
      <3>1. ASSUME CleanedUp(sid) PROVE CleanupOK'
        BY <2>1, <3>1, CleanupFrame DEF CleanedUp, AnswerUnchanged, CleanupsKept, records
      <3> QED
        BY <2>1, <2>4, <3>1, ContinueCleanup, AppendEndCleanup DEF Handle
    <2>5. ASSUME NEW sid \in Sids, Finish(sid) PROVE CleanupOK'
      BY <2>1, <2>5, CompensationCleanup DEF Finish
    <2>6. ASSUME NEW key \in Keys, FinishOf(key) PROVE CleanupOK'
      BY <2>1, <2>6, ControlCleanup DEF FinishOf
    <2>7. CASE Reap
      <3>1. ASSUME ReapCompensations \/ ReapControls PROVE CleanupOK'
        BY <2>1, <3>1, CleanupFrame
        DEF ReapCompensations, ReapControls, CleanupsKept, controlRecords
      <3>2. ASSUME CollectExpired PROVE CleanupOK'
        BY <2>1, <3>2, CollectCleanup
      <3>3. ASSUME ExpireNext PROVE CleanupOK'
        BY <2>1, <3>3, ExpireNextCleanup
      <3> QED
        BY <2>2, <2>7, <3>1, <3>2, <3>3 DEF Reap
    <2>8. CASE Poll
      <3>1. ASSUME NEW sid \in Sids, NEW f \in identity[sid], ForwardSegment(sid, f)
            PROVE  CleanupOK'
        BY <2>1, <3>1, CleanupFrame DEF ForwardSegment, CleanupsKept, records
      <3>2. ASSUME NEW sid \in Sids, NEW f \in identity[sid], StageError(sid, f)
            PROVE  CleanupOK'
        BY <2>1, <3>2, StageErrorCleanup
      <3>3. ASSUME NEW dead \in SUBSET engine, ReplicaDeath(dead) PROVE CleanupOK'
        BY <2>1, <3>3, ReplicaDeathCleanup
      <3> QED
        BY <2>2, <2>8, <3>1, <3>2, <3>3 DEF Poll
    <2>9. CASE LoopReturns
      BY <2>1, <2>2, <2>9, ForwardedCleanup, LoopCleanup DEF LoopReturns
    <2> QED
      BY <1>2, <2>2, <2>3, <2>4, <2>5, <2>6, <2>7, <2>8, <2>9 DEF Next
  <1> QED
    BY <1>1, <1>2

(* A closing session is never left in its slot with nothing pending that   *)
(* will remove it: a cleanup that ends takes the session that needs it, or *)
(* leaves its record for the reaper.                                       *)
THEOREM ClosingIsCleanedUp == Spec => []TerminalHasCleanup
  <1>1. Init => TerminalHasCleanup
    BY DEF Init, TerminalHasCleanup, Registered
  <1> QED
    BY <1>1, InitType, NextType, NextCleanup, PTL DEF Spec

-----------------------------------------------------------------------------
(* What the stages hold belongs to somebody.                               *)

(* What the operations on a session do to its requests: they lose none,    *)
(* and what they add is of the incarnation and not of an earlier epoch.    *)
Sound(x, s) == x.request = RequestOf(x.fence) /\ x.fence.inc = s.fence.inc

Follows(s, t) ==
    /\ Evolves(s, t)
    /\ s.detachedAt = NoTime => t.detachedAt = NoTime
    /\ \A x \in t.resources \ s.resources : Sound(x, s) /\ x.fence.epoch >= s.fence.epoch

Grows(s, t) ==
    /\ Follows(s, t)
    /\ AllRequests(s) \subseteq AllRequests(t)
    /\ SubmittedRequests(s) \subseteq SubmittedRequests(t)

(* Operations that release at most.                                        *)
LEMMA FollowsKept ==
    ASSUME NEW s \in Session, NEW t \in Session, Evolves(s, t),
           t.detachedAt \in {s.detachedAt, NoTime}, t.resources \subseteq s.resources
    PROVE  Follows(s, t)
  BY DEF Follows

(* Operations that do not touch the resources.                             *)
LEMMA GrowsKept ==
    ASSUME NEW s \in Session, NEW t \in Session, Evolves(s, t),
           t.detachedAt \in {s.detachedAt, NoTime}, t.resources = s.resources
    PROVE  Grows(s, t)
  BY FollowsKept DEF Grows, AllRequests, SubmittedRequests

(* Both compose.                                                           *)
LEMMA FollowsTransitive ==
    ASSUME NEW s \in Session, NEW t \in Session, NEW u \in Session, Follows(s, t), Follows(t, u)
    PROVE  Follows(s, u)
  <1>1. Evolves(s, u)
    BY EvolvesTransitive DEF Follows
  <1>2. t.fence.inc = s.fence.inc /\ t.fence.epoch >= s.fence.epoch
    BY DEF Follows, Evolves, Onward
  <1>3. ASSUME NEW x \in u.resources \ s.resources
        PROVE  Sound(x, s) /\ x.fence.epoch >= s.fence.epoch
    <2>1. CASE x \in t.resources
      BY <1>3, <2>1 DEF Follows
    <2>2. CASE x \notin t.resources
      <3>1. Sound(x, t) /\ x.fence.epoch >= t.fence.epoch
        BY <2>2 DEF Follows
      <3>2. /\ x.fence.epoch \in Nat /\ t.fence.epoch \in Nat /\ s.fence.epoch \in Nat
        BY DEF Session, Resource, Fence
      <3> QED
        BY <1>2, <3>1, <3>2 DEF Sound
    <2> QED
      BY <2>1, <2>2
  <1> QED
    BY <1>1, <1>3 DEF Follows

(* Growth composes.                                                        *)
LEMMA GrowsTransitive ==
    ASSUME NEW s \in Session, NEW t \in Session, NEW u \in Session, Grows(s, t), Grows(t, u)
    PROVE  Grows(s, u)
  BY FollowsTransitive DEF Grows

(* Nothing happened to the session.                                        *)
LEMMA GrowsReflexive ==
    ASSUME NEW s \in Session
    PROVE  Grows(s, s)
  <1>1. Evolves(s, s)
    BY EvolvesKept
  <1> QED
    BY <1>1, GrowsKept

(* accept_fence and the lease.                                             *)
LEMMA LeaseGrows ==
    ASSUME NEW s \in Session, NEW f \in Fence, NEW reason \in Reasons
    PROVE  /\ ValidFence(s, f) => Grows(s, AcceptFence(s, f))
           /\ Live(s) => Grows(s, ResumeLease(s, 0))
           /\ Live(s) => Grows(s, BeginOperation(s, AppendOperation, 0))
           /\ Grows(s, EndOperation(s, AppendOperation, 0))
           /\ Grows(s, BeginClose(s, reason))
  <1>1. AppendOperation \in Nat /\ 0 \in Nat
    BY DEF AppendOperation
  <1>2. ASSUME ValidFence(s, f) PROVE Grows(s, AcceptFence(s, f))
    <2>1. /\ AcceptFence(s, f).resources = s.resources
          /\ AcceptFence(s, f).detachedAt = s.detachedAt
      BY DEF AcceptFence, Session
    <2> QED
      BY <1>2, <2>1, AcceptFenceType, AcceptFenceEvolves, GrowsKept
  <1>3. ASSUME Live(s) PROVE Grows(s, ResumeLease(s, 0))
    <2>1. ResumeLease(s, 0).resources = s.resources /\ ResumeLease(s, 0).detachedAt = NoTime
      BY DEF ResumeLease, Session
    <2> QED
      BY <1>1, <1>3, <2>1, LeaseTypes, LeaseEvolves, GrowsKept
  <1>4. ASSUME Live(s) PROVE Grows(s, BeginOperation(s, AppendOperation, 0))
    <2>1. /\ BeginOperation(s, AppendOperation, 0).resources = s.resources
          /\ BeginOperation(s, AppendOperation, 0).detachedAt = s.detachedAt
      BY DEF BeginOperation, Session
    <2> QED
      BY <1>1, <1>4, <2>1, OperationTypes, OperationEvolves, GrowsKept
  <1>5. Grows(s, EndOperation(s, AppendOperation, 0))
    <2>1. /\ EndOperation(s, AppendOperation, 0).resources = s.resources
          /\ EndOperation(s, AppendOperation, 0).detachedAt = s.detachedAt
      BY DEF EndOperation, Session
    <2> QED
      BY <1>1, <2>1, OperationTypes, OperationEvolves, GrowsKept
  <1>6. Grows(s, BeginClose(s, reason))
    <2>1. /\ BeginClose(s, reason).resources = s.resources
          /\ BeginClose(s, reason).detachedAt \in {s.detachedAt, NoTime}
      BY DEF BeginClose, MarkTerminal, Session
    <2> QED
      BY <2>1, BeginCloseType, BeginCloseEvolves, GrowsKept
  <1> QED
    BY <1>2, <1>3, <1>4, <1>5, <1>6

(* The releases.                                                           *)
LEMMA ReleasesFollow ==
    ASSUME NEW s \in Session, NEW f \in Fence, NEW requests
    PROVE  /\ Follows(s, ReleaseRequests(s, requests))
           /\ Follows(s, ReleaseFence(s, f))
           /\ AllRequests(ReleaseRequests(s, requests)) = AllRequests(s) \ requests
           /\ SubmittedRequests(ReleaseRequests(s, requests)) = SubmittedRequests(s) \ requests
           /\ AllRequests(s) \subseteq AllRequests(ReleaseFence(s, f)) \cup RequestsOfFence(s, f)
           /\ SubmittedRequests(s) \subseteq
                 SubmittedRequests(ReleaseFence(s, f)) \cup RequestsOfFence(s, f)
           /\ ReleaseRequests(s, requests).activeOps = s.activeOps
           /\ ReleaseFence(s, f).activeOps = s.activeOps
           /\ RequestsOfFence(ReleaseFence(s, f), f) = {}
  <1> DEFINE t == ReleaseRequests(s, requests)
             u == ReleaseFence(s, f)
             Same(v) == /\ v.fence = s.fence /\ v.terminal = s.terminal
                        /\ v.generation = s.generation /\ v.activeOps = s.activeOps
                        /\ v.detachedAt = s.detachedAt
  <1>1. t \in Session /\ u \in Session
    BY ReleaseTypes
  <1>2. Same(t) /\ t.resources = {x \in s.resources : x.request \notin requests}
    BY DEF ReleaseRequests, Session
  <1>3. Same(u) /\ u.resources = {x \in s.resources : x.fence # f}
    BY DEF ReleaseFence, Session
  <1> HIDE DEF t, u
  <1>4. Follows(s, t) /\ Follows(s, u)
    BY <1>1, <1>2, <1>3, EvolvesKept, FollowsKept
  <1>5. AllRequests(t) = AllRequests(s) \ requests
    BY <1>2 DEF AllRequests
  <1>6. SubmittedRequests(t) = SubmittedRequests(s) \ requests
    BY <1>2 DEF SubmittedRequests
  <1>7. AllRequests(s) \subseteq AllRequests(u) \cup RequestsOfFence(s, f)
    BY <1>3 DEF AllRequests, RequestsOfFence
  <1>8. SubmittedRequests(s) \subseteq SubmittedRequests(u) \cup RequestsOfFence(s, f)
    BY <1>3 DEF SubmittedRequests, RequestsOfFence
  <1>9. RequestsOfFence(u, f) = {}
    BY <1>3 DEF RequestsOfFence
  <1> QED
    BY <1>2, <1>3, <1>4, <1>5, <1>6, <1>7, <1>8, <1>9 DEF t, u

(* A reservation.                                                          *)
LEMMA ReserveGrows ==
    ASSUME NEW s \in Session, NEW stage \in Stages, NEW f \in Fence, ValidFence(s, f)
    PROVE  /\ Reserve(s, stage, RequestOf(f), f) \in Session
           /\ Grows(s, Reserve(s, stage, RequestOf(f), f))
           /\ RequestOf(f) \in AllRequests(Reserve(s, stage, RequestOf(f), f))
           /\ Reserve(s, stage, RequestOf(f), f).fence = s.fence
           /\ Reserve(s, stage, RequestOf(f), f).activeOps = s.activeOps
           /\ Reserve(s, stage, RequestOf(f), f).terminal = s.terminal
  <1> DEFINE r == RequestOf(f)
             x == [stage |-> stage, request |-> r, fence |-> f, submitted |-> FALSE]
             t == Reserve(s, stage, r, f)
  <1>1. r \in Request
    BY RequestType
  <1>2. t \in Session
    BY <1>1, ResourceTypes
  <1>3. Evolves(s, t)
    <2>1. /\ t.fence = s.fence /\ t.terminal = s.terminal /\ t.generation = s.generation
          /\ t.activeOps = s.activeOps /\ t.detachedAt = s.detachedAt
      BY DEF Reserve, Session
    <2> HIDE DEF t
    <2> QED
      BY <1>2, <2>1, EvolvesKept
  <1>4. /\ t.detachedAt = s.detachedAt /\ t.fence = s.fence /\ t.activeOps = s.activeOps
        /\ t.terminal = s.terminal
        /\ t.resources = IF Reserved(s, stage, r) # {} THEN s.resources ELSE s.resources \cup {x}
    BY DEF Reserve, Session
  <1>5. x.request = r /\ x.fence = f
    OBVIOUS
  <1>6. Sound(x, s) /\ f.epoch >= s.fence.epoch
    <2>1. f.epoch \in Nat /\ s.fence.epoch \in Nat
      BY DEF Fence, Session
    <2> QED
      BY <2>1 DEF ValidFence, NotBehind, Sound
  <1> HIDE DEF t, x
  <1>7. Follows(s, t)
    BY <1>3, <1>4, <1>5, <1>6 DEF Follows
  <1>8. /\ AllRequests(s) \subseteq AllRequests(t)
        /\ SubmittedRequests(s) \subseteq SubmittedRequests(t)
    BY <1>4 DEF AllRequests, SubmittedRequests
  <1>9. r \in AllRequests(t)
    <2>1. CASE Reserved(s, stage, r) # {}
      BY <1>4, <2>1 DEF AllRequests, Reserved
    <2>2. CASE Reserved(s, stage, r) = {}
      BY <1>4, <1>5, <2>2 DEF AllRequests
    <2> QED
      BY <2>1, <2>2
  <1> QED
    BY <1>2, <1>4, <1>7, <1>8, <1>9 DEF Grows, t

(* A bind: its request is submitted.                                       *)
LEMMA BindGrows ==
    ASSUME NEW s \in Session, NEW stage \in Stages, NEW f \in Fence, ValidFence(s, f)
    PROVE  /\ Bind(s, stage, RequestOf(f), f) \in Session
           /\ Grows(s, Bind(s, stage, RequestOf(f), f))
           /\ RequestOf(f) \in SubmittedRequests(Bind(s, stage, RequestOf(f), f))
           /\ Bind(s, stage, RequestOf(f), f).activeOps = s.activeOps
           /\ Bind(s, stage, RequestOf(f), f).terminal = s.terminal
  <1> DEFINE r == RequestOf(f)
             x == [stage |-> stage, request |-> r, fence |-> f, submitted |-> TRUE]
             a == AcceptFence(s, f)
             t == Bind(s, stage, r, f)
  <1>1. r \in Request
    BY RequestType
  <1>2. t \in Session /\ Evolves(s, t)
    BY <1>1, ResourceTypes, BindEvolves
  <1>3. /\ a \in Session /\ a.detachedAt = s.detachedAt /\ a.activeOps = s.activeOps
        /\ a.terminal = s.terminal
    BY AcceptFenceType DEF AcceptFence, Session
  <1>4. /\ t.detachedAt = s.detachedAt /\ t.activeOps = s.activeOps /\ t.terminal = s.terminal
        /\ t.resources = (s.resources \ Reserved(s, stage, r)) \cup {x}
    <2> HIDE DEF a
    <2>1. /\ t.detachedAt = a.detachedAt /\ t.activeOps = a.activeOps /\ t.terminal = a.terminal
          /\ t.resources = (s.resources \ Reserved(s, stage, r)) \cup {x}
      BY <1>3 DEF Bind, Session, a
    <2> QED
      BY <1>3, <2>1
  <1>5. x.request = r /\ x.fence = f /\ x.submitted = TRUE
    OBVIOUS
  <1>6. Sound(x, s) /\ f.epoch >= s.fence.epoch
    <2>1. f.epoch \in Nat /\ s.fence.epoch \in Nat
      BY DEF Fence, Session
    <2> QED
      BY <2>1 DEF ValidFence, NotBehind, Sound
  <1> HIDE DEF t, x, a
  <1>7. Follows(s, t)
    BY <1>2, <1>4, <1>5, <1>6 DEF Follows
  <1>8. ASSUME NEW y \in s.resources
        PROVE  y \in t.resources \/ y.request = r
    BY <1>4 DEF Reserved
  <1>9. r \in SubmittedRequests(t) /\ r \in AllRequests(t)
    BY <1>4, <1>5 DEF SubmittedRequests, AllRequests
  <1>10. /\ AllRequests(s) \subseteq AllRequests(t)
         /\ SubmittedRequests(s) \subseteq SubmittedRequests(t)
    BY <1>8, <1>9 DEF AllRequests, SubmittedRequests
  <1> QED
    BY <1>2, <1>4, <1>7, <1>9, <1>10 DEF Grows, t

-----------------------------------------------------------------------------
(* Who owns the requests that the entry stage holds.                       *)

(* Nobody disconnects, submissions do not raise, replicas live, and no id  *)
(* is opened again: its fences have one incarnation.                       *)
Calm ==
    /\ Events \subseteq {"open_error", "abort_error", "forward", "stage_error"}
    /\ \A f, g \in Fences : f.inc = g.inc

Held(sid) == {r \in Request : [stage |-> EntryStage, sid |-> sid, request |-> r] \in engine}

(* No client opens this id again.                                          *)
Used(sid) == \A f \in Fences : f.inc < nextInc[sid]

(* Requests of which it is not settled whether the stages keep them.       *)
InFlight(sid) ==
    IF handler[sid].pc = "submit" THEN {RequestOf(handler[sid].res.fence)} ELSE {}

Unsettled(sid) == compensation[sid] \cup InFlight(sid)

(* A registered session s lists what is held for it.                       *)
Owning(sid, s) ==
    /\ \A x \in s.resources : Sound(x, s)
    /\ s.detachedAt = NoTime
    /\ Held(sid) \subseteq SubmittedRequests(s) \cup Unsettled(sid)
    /\ Unsettled(sid) \subseteq AllRequests(s)
    /\ Live(s) /\ handler[sid].pc \in {"submit", "undo"} => AppendOperation \in s.activeOps
    /\ handler[sid].pc # "idle" => handler[sid].inc = s.fence.inc

OwnerOf(sid) ==
    /\ Used(sid) \/ (sid \notin Registered /\ handler[sid].pc = "idle" /\ compensation[sid] = {})
    /\ sid \in Registered => Owning(sid, sessions[sid])
    /\ sid \notin Registered => Held(sid) = {}
    /\ handler[sid].pc = "submit" => handler[sid].outcome = "ok"
    /\ Holding(sid) /\ sid \notin Registered => ~Live(detached[sid])
    /\ \A t \in compensating[sid] : t.ok => Held(sid) \cap t.ids = {}

OwnersOK == \A sid \in Sids : OwnerOf(sid)

(* A cleanup of these requests may remove the session.                     *)
Closes(sid, ids) ==
    /\ Used(sid)
    /\ sid \in Registered => ~Live(sessions[sid])
    /\ Held(sid) \subseteq ids

(* A cancel has moved the session on, and names what it will release.      *)
Cancels(sid, f, ids) ==
    /\ Used(sid)
    /\ sid \in Registered =>
          /\ \A r \in ids : r.epoch = f.epoch
          /\ f.epoch < sessions[sid].fence.epoch
          /\ RequestsOfFence(sessions[sid], f) \subseteq ids
          /\ \A r \in Unsettled(sid) : r.epoch > f.epoch

ControlOK(c) ==
    IF c.kind = "cancel" THEN Cancels(c.sid, c.fence, c.submitted) ELSE Closes(c.sid, c.submitted)

TaskOK(t) ==
    /\ ControlOK(t.record)
    /\ t.ok => Held(t.record.sid) \cap t.record.submitted = {}

ControlsOK ==
    /\ \A c \in controls : ControlOK(c)
    /\ \A t \in controlTasks : TaskOK(t)
    /\ reaper.pc = "controls" => \A c \in reaper.todo : ControlOK(c)

ExpirationsOK ==
    /\ \A x \in expirations : Closes(x.sid, x.submitted)
    /\ reaper.pc = "expirations" =>
          /\ \A x \in reaper.todo : Closes(x.sid, x.submitted)
          /\ reaper.outcome = "ok" =>
                reaper.current \in Expiration /\ Closes(reaper.current.sid, {})

(* What the orchestration loop aborts for a session.                       *)
Reported(sid) ==
    IF loop.ok THEN {} ELSE {r \in Request : [sid |-> sid, request |-> r] \in loop.ids}

LoopOK == loop.pc = "cleanup" => \A sid \in loop.closing : Closes(sid, Reported(sid))

OInv == OwnersOK /\ ControlsOK /\ ExpirationsOK /\ LoopOK

-----------------------------------------------------------------------------
(* What a step may do to a session.                                        *)

(* An append of this request may be sent.                                  *)
Ahead(sid, r) == sid \in Registered => r.epoch >= sessions[sid].fence.epoch

Goes(sid) ==
    /\ nextInc'[sid] = nextInc[sid]
    /\ sid \in Registered' => sid \in Registered /\ Follows(sessions[sid], sessions'[sid])
    /\ \A r \in Held(sid)' : r \in Held(sid) \/ (/\ sid \in Registered /\ Live(sessions[sid])
                                                /\ Ahead(sid, r))
    /\ \A r \in Unsettled(sid)' : r \in Unsettled(sid) \/ Ahead(sid, r)

(* The requests of a session are requests.                                 *)
LEMMA UnsettledType ==
    ASSUME TInv', NEW sid \in Sids
    PROVE  Unsettled(sid)' \subseteq Request
  <1>1. compensation'[sid] \subseteq Request
    BY DEF TInv, TypeOK
  <1>2. ASSUME handler'[sid].pc = "submit" PROVE RequestOf(handler'[sid].res.fence) \in Request
    <2>1. handler'[sid].res \in Reservation
      BY <1>2 DEF TInv, HandlersOK, HandlerOf
    <2>2. handler'[sid].res.fence \in Fence
      BY <2>1 DEF Reservation
    <2> QED
      BY <2>2, RequestType
  <1> QED
    BY <1>1, <1>2 DEF Unsettled, InFlight

(* A cleanup that is due stays one that may remove the session.            *)
LEMMA ClosesKept ==
    ASSUME NEW sid \in Sids, NEW ids, Closes(sid, ids), Goes(sid)
    PROVE  Closes(sid, ids)'
  <1>1. Used(sid)'
    BY DEF Closes, Goes, Used
  <1>2. Held(sid)' \subseteq Held(sid)
    BY DEF Closes, Goes
  <1>3. sid \in Registered' => ~Live(sessions'[sid])
    BY DEF Closes, Goes, Follows, Evolves, Live
  <1> QED
    BY <1>1, <1>2, <1>3 DEF Closes, Live

(* A cancel that is due stays one that releases what it names.             *)
LEMMA CancelsKept ==
    ASSUME TInv, TInv', NEW sid \in Sids, NEW f \in Fence, NEW ids, Cancels(sid, f, ids), Goes(sid)
    PROVE  Cancels(sid, f, ids)'
  <1>1. Used(sid)'
    BY DEF Cancels, Goes, Used
  <1>2. ASSUME sid \in Registered'
        PROVE  /\ \A r \in ids : r.epoch = f.epoch
               /\ f.epoch < sessions'[sid].fence.epoch
               /\ RequestsOfFence(sessions'[sid], f) \subseteq ids
               /\ \A r \in Unsettled(sid)' : r.epoch > f.epoch
    <2>1. /\ sid \in Registered /\ Follows(sessions[sid], sessions'[sid])
          /\ \A r \in ids : r.epoch = f.epoch
          /\ f.epoch < sessions[sid].fence.epoch
          /\ RequestsOfFence(sessions[sid], f) \subseteq ids
          /\ \A r \in Unsettled(sid) : r.epoch > f.epoch
      BY <1>2 DEF Cancels, Goes
    <2>2. PICK s \in Session, t \in Session : s = sessions[sid] /\ t = sessions'[sid]
      BY <1>2, <2>1 DEF TInv, TypeOK, Registered
    <2>3. f.epoch \in Nat /\ s.fence.epoch \in Nat /\ t.fence.epoch \in Nat
      BY DEF Fence, Session
    <2>4. t.fence.epoch >= s.fence.epoch
      BY <2>1, <2>2 DEF Follows, Evolves, Onward
    <2>5. f.epoch < t.fence.epoch
      BY <2>1, <2>2, <2>3, <2>4
    <2>6. RequestsOfFence(t, f) \subseteq ids
      <3>1. ASSUME NEW x \in t.resources, x.fence = f PROVE x \in s.resources
        <4>1. CASE x.fence.epoch >= s.fence.epoch
          BY <2>1, <2>2, <2>3, <3>1, <4>1
        <4> QED
          BY <2>1, <2>2, <4>1 DEF Follows
      <3> QED
        BY <2>1, <2>2, <3>1 DEF RequestsOfFence
    <2>7. ASSUME NEW r \in Unsettled(sid)' PROVE r.epoch > f.epoch
      <3>1. r \in Request
        BY UnsettledType
      <3>2. r.epoch \in Nat
        BY <3>1 DEF Request
      <3>3. CASE r \in Unsettled(sid)
        BY <2>1, <3>3
      <3>4. CASE Ahead(sid, r)
        BY <2>1, <2>2, <2>3, <3>2, <3>4 DEF Ahead
      <3> QED
        BY <3>3, <3>4 DEF Goes
    <2> QED
      BY <2>1, <2>2, <2>5, <2>6, <2>7
  <1> QED
    BY <1>1, <1>2 DEF Cancels

(* What was aborted for a control is not sent again.                       *)
LEMMA TaskKept ==
    ASSUME TInv, TInv', NEW t \in Task, TaskOK(t), Goes(t.record.sid)
    PROVE  TaskOK(t)'
  <1>1. PICK sid \in Sids, f \in Fence, ids \in SUBSET Request :
           sid = t.record.sid /\ f = t.record.fence /\ ids = t.record.submitted
    BY DEF Task, Control
  <1>2. CASE t.record.kind = "cancel"
    <2>1. Cancels(sid, f, ids) /\ Goes(sid)
      BY <1>1, <1>2 DEF TaskOK, ControlOK
    <2>2. Cancels(sid, f, ids)'
      BY <2>1, CancelsKept
    <2>3. ASSUME t.ok, NEW r \in Held(sid)', r \in ids PROVE FALSE
      <3>1. r \notin Held(sid)
        BY <1>1, <2>3 DEF TaskOK
      <3>2. sid \in Registered /\ r.epoch >= sessions[sid].fence.epoch
        BY <2>1, <2>3, <3>1 DEF Goes, Ahead
      <3>3. r.epoch = f.epoch /\ f.epoch < sessions[sid].fence.epoch
        BY <2>1, <2>3, <3>2 DEF Cancels
      <3>4. f.epoch \in Nat /\ sessions[sid].fence.epoch \in Nat
        BY <3>2 DEF TInv, TypeOK, Registered, Session, Fence
      <3> QED
        BY <3>2, <3>3, <3>4
    <2>4. ControlOK(t.record)'
      BY <1>1, <1>2, <2>2 DEF ControlOK
    <2>5. t.ok => Held(sid)' \cap ids = {}
      BY <2>3
    <2> QED
      BY <1>1, <2>4, <2>5 DEF TaskOK
  <1>3. CASE t.record.kind # "cancel"
    <2>1. Closes(sid, ids) /\ Goes(sid)
      BY <1>1, <1>3 DEF TaskOK, ControlOK
    <2>2. Closes(sid, ids)'
      BY <2>1, ClosesKept
    <2>3. Held(sid)' \subseteq Held(sid)
      BY <2>1 DEF Closes, Goes
    <2>4. ControlOK(t.record)'
      BY <1>1, <1>3, <2>2 DEF ControlOK
    <2>5. t.ok => Held(sid)' \cap ids = {}
      BY <1>1, <2>3 DEF TaskOK
    <2> QED
      BY <1>1, <2>4, <2>5 DEF TaskOK
  <1> QED
    BY <1>2, <1>3

(* A pending control stays what it is.                                     *)
LEMMA ControlKept ==
    ASSUME TInv, TInv', NEW c \in Control, ControlOK(c), Goes(c.sid)
    PROVE  ControlOK(c)'
  <1>1. PICK sid \in Sids, f \in Fence, ids \in SUBSET Request :
           sid = c.sid /\ f = c.fence /\ ids = c.submitted
    BY DEF Control
  <1>2. CASE c.kind = "cancel"
    BY <1>1, <1>2, CancelsKept DEF ControlOK
  <1>3. CASE c.kind # "cancel"
    BY <1>1, <1>3, ClosesKept DEF ControlOK
  <1> QED
    BY <1>2, <1>3

-----------------------------------------------------------------------------
(* Steps that keep the records.                                            *)

(* The control cleanups.                                                   *)
LEMMA ControlsStep ==
    ASSUME TInv, TInv', ControlsOK, \A sid \in Sids : Used(sid) => Goes(sid),
           \A c \in controls' : c \in controls \/ ControlOK(c)',
           \A t \in controlTasks' : t \in controlTasks \/ TaskOK(t)',
           reaper'.pc = "controls" =>
              \A c \in reaper'.todo :
                 c \in controls \/ (reaper.pc = "controls" /\ c \in reaper.todo)
    PROVE  ControlsOK'
  <1>1. ASSUME NEW c \in Control, ControlOK(c) PROVE ControlOK(c)'
    <2>1. c.sid \in Sids /\ Used(c.sid)
      BY <1>1 DEF Control, ControlOK, Cancels, Closes
    <2> QED
      BY <1>1, <2>1, ControlKept
  <1>2. ASSUME NEW t \in Task, TaskOK(t) PROVE TaskOK(t)'
    <2>1. t.record.sid \in Sids /\ Used(t.record.sid)
      BY <1>2 DEF Task, Control, TaskOK, ControlOK, Cancels, Closes
    <2> QED
      BY <1>2, <2>1, TaskKept
  <1>3. \A c \in controls : ControlOK(c)'
    BY <1>1 DEF TInv, TypeOK, ControlsOK
  <1>4. \A t \in controlTasks : TaskOK(t)'
    BY <1>2 DEF TInv, TypeOK, ControlsOK
  <1>5. reaper.pc = "controls" => \A c \in reaper.todo : ControlOK(c)'
    BY <1>1 DEF TInv, ReaperOK, ControlsOK
  <1> QED
    BY <1>3, <1>4, <1>5 DEF ControlsOK

(* The expirations.                                                        *)
LEMMA ExpirationsStep ==
    ASSUME TInv, ExpirationsOK, \A sid \in Sids : Used(sid) => Goes(sid),
           \A x \in expirations' : x \in expirations \/ Closes(x.sid, x.submitted)',
           reaper'.pc = "expirations" =>
              /\ \A x \in reaper'.todo : \/ reaper.pc = "expirations" /\ x \in reaper.todo
                                         \/ Closes(x.sid, x.submitted)'
              /\ reaper'.outcome = "ok" =>
                    \/ /\ reaper.pc = "expirations" /\ reaper.outcome = "ok"
                       /\ reaper'.current = reaper.current
                    \/ reaper'.current \in Expiration /\ Closes(reaper.current.sid, {})'
    PROVE  ExpirationsOK'
  <1>1. ASSUME NEW x \in Expiration, NEW ids, Closes(x.sid, ids) PROVE Closes(x.sid, ids)'
    <2>1. x.sid \in Sids /\ Used(x.sid)
      BY <1>1 DEF Expiration, Closes
    <2> QED
      BY <1>1, <2>1, ClosesKept
  <1>2. \A x \in expirations : Closes(x.sid, x.submitted)'
    <2> TAKE x \in expirations
    <2>1. x \in Expiration /\ Closes(x.sid, x.submitted)
      BY DEF TInv, TypeOK, ExpirationsOK
    <2>2. PICK ids : ids = x.submitted
      OBVIOUS
    <2> QED
      BY <1>1, <2>1, <2>2
  <1>3. reaper.pc = "expirations" => \A x \in reaper.todo : Closes(x.sid, x.submitted)'
    <2> SUFFICES ASSUME reaper.pc = "expirations", NEW x \in reaper.todo
                 PROVE  Closes(x.sid, x.submitted)'
      OBVIOUS
    <2>1. x \in Expiration /\ Closes(x.sid, x.submitted)
      BY DEF TInv, ReaperOK, ExpirationsOK
    <2>2. PICK ids : ids = x.submitted
      OBVIOUS
    <2> QED
      BY <1>1, <2>1, <2>2
  <1>4. ASSUME reaper.pc = "expirations", reaper.outcome = "ok"
        PROVE  reaper.current \in Expiration /\
               \A x : x = reaper.current => Closes(x.sid, {})'
    <2>1. reaper.current \in Expiration /\ Closes(reaper.current.sid, {})
      BY <1>4 DEF ExpirationsOK
    <2>2. PICK x \in Expiration : x = reaper.current
      BY <2>1
    <2>3. Closes(x.sid, {})'
      BY <1>1, <2>1, <2>2
    <2> QED
      BY <2>2, <2>3
  <1> QED
    BY <1>2, <1>3, <1>4 DEF ExpirationsOK

(* What the orchestration loop cleans up.                                  *)
LEMMA LoopStep ==
    ASSUME TInv, LoopOK, \A sid \in Sids : Used(sid) => Goes(sid),
           loop'.pc = "cleanup" => loop' = loop
    PROVE  LoopOK'
  <1> SUFFICES ASSUME loop'.pc = "cleanup", NEW sid \in loop'.closing
               PROVE  Closes(sid, Reported(sid))'
    BY DEF LoopOK
  <1>1. loop' = loop /\ sid \in Sids /\ Closes(sid, Reported(sid))
    BY DEF LoopOK, TInv, TypeOK, Loop
  <1>2. PICK ids : ids = Reported(sid)
    OBVIOUS
  <1>3. Reported(sid)' = ids
    BY <1>1, <1>2 DEF Reported
  <1>4. Closes(sid, ids)'
    BY <1>1, <1>2, ClosesKept DEF Closes
  <1> QED
    BY <1>3, <1>4

(* Steps of the handlers: reaper and loop stay where they are.             *)
LEMMA RecordsStep ==
    ASSUME TInv, TInv', OInv, OwnersOK', \A sid \in Sids : Used(sid) => Goes(sid),
           \A c \in controls' : c \in controls \/ ControlOK(c)',
           \A t \in controlTasks' : t \in controlTasks \/ TaskOK(t)',
           UNCHANGED <<expirations, reaper>>, loop'.pc = "cleanup" => loop' = loop
    PROVE  OInv'
  <1>1. ControlsOK /\ ExpirationsOK /\ LoopOK
    BY DEF OInv
  <1>2. ControlsOK'
    BY <1>1, ControlsStep
  <1>3. ExpirationsOK'
    BY <1>1, ExpirationsStep
  <1>4. LoopOK'
    BY <1>1, LoopStep
  <1> QED
    BY <1>2, <1>3, <1>4 DEF OInv

-----------------------------------------------------------------------------
(* Steps that keep the owners.                                             *)

(* Somebody else's step, or an abort.                                      *)
Bystander(sid) ==
    /\ nextInc'[sid] = nextInc[sid]
    /\ sessions'[sid] = sessions[sid] /\ detached'[sid] = detached[sid]
    /\ SameHandler(sid)
    /\ handler[sid].pc = "submit" => handler'[sid].outcome = handler[sid].outcome
    /\ compensation'[sid] = compensation[sid]
    /\ \A t \in compensating'[sid] : t \in compensating[sid]
    /\ Held(sid)' \subseteq Held(sid)

(* What a step of somebody else does to a session.                         *)
LEMMA BystanderGoes ==
    ASSUME TypeOK, NEW sid \in Sids, Bystander(sid)
    PROVE  Goes(sid)
  <1>1. sid \in Registered => Follows(sessions[sid], sessions'[sid])
    BY GrowsReflexive DEF Bystander, TypeOK, Registered, Grows
  <1>2. Unsettled(sid)' = Unsettled(sid)
    BY DEF Bystander, SameHandler, Unsettled, InFlight
  <1> QED
    BY <1>1, <1>2 DEF Bystander, Goes, Registered

(* A step of somebody else leaves the owner.                               *)
LEMMA BystanderOwns ==
    ASSUME NEW sid \in Sids, OwnerOf(sid), Bystander(sid)
    PROVE  OwnerOf(sid)'
  <1>1. Unsettled(sid)' = Unsettled(sid)
    BY DEF Bystander, SameHandler, Unsettled, InFlight
  <1>2. Used(sid)' = Used(sid) /\ (sid \in Registered)' = (sid \in Registered)
    BY DEF Bystander, Used, Registered
  <1>3. sid \in Registered' => Owning(sid, sessions[sid])'
    BY <1>1, <1>2 DEF Bystander, SameHandler, OwnerOf, Owning
  <1>4. Holding(sid)' = Holding(sid)
    BY DEF Bystander, SameHandler, Holding
  <1> QED
    BY <1>2, <1>3, <1>4 DEF OwnerOf, Bystander, SameHandler

(* One session moves, the others are bystanders.                           *)
LEMMA OwnersStep ==
    ASSUME TypeOK, OwnersOK, NEW sid \in Sids, OwnerOf(sid)', Used(sid) => Goes(sid),
           \A other \in Sids \ {sid} : Bystander(other)
    PROVE  OwnersOK' /\ \A x \in Sids : Used(x) => Goes(x)
  <1>1. ASSUME NEW other \in Sids \ {sid} PROVE OwnerOf(other)' /\ Goes(other)
    BY BystanderOwns, BystanderGoes DEF OwnersOK
  <1> QED
    BY <1>1 DEF OwnersOK

(* The session of a step loses none of its requests, and no append begins. *)
LEMMA OwnerMoves ==
    ASSUME TypeOK, TypeOK', NEW sid \in Sids, OwnerOf(sid), Used(sid),
           nextInc'[sid] = nextInc[sid],
           (sid \in Registered)' = (sid \in Registered),
           sid \in Registered => Grows(sessions[sid], sessions'[sid]),
           Held(sid)' \subseteq Held(sid), Unsettled(sid)' \subseteq Unsettled(sid),
           sid \in Registered =>
               Unsettled(sid) \subseteq Unsettled(sid)' \cup SubmittedRequests(sessions'[sid]),
           handler'[sid].pc \in {"submit", "undo"} =>
               /\ handler[sid].pc \in {"submit", "undo"}
               /\ \/ sessions'[sid] = sessions[sid]
                  \/ sid \in Registered => ~Live(sessions'[sid])
                  \/ sessions'[sid].activeOps = sessions[sid].activeOps,
           handler'[sid].pc = "submit" => handler'[sid].outcome = "ok",
           sid \in Registered /\ handler'[sid].pc # "idle" =>
               handler'[sid].inc = sessions[sid].fence.inc,
           Holding(sid)' /\ sid \notin Registered => ~Live(detached'[sid]),
           \A t \in compensating'[sid] : t.ok => Held(sid)' \cap t.ids = {}
    PROVE  OwnerOf(sid)' /\ Goes(sid)
  <1>1. Goes(sid)
    BY DEF Goes, Grows
  <1>2. Used(sid)'
    BY DEF Used
  <1>3. ASSUME sid \in Registered PROVE Owning(sid, sessions[sid])'
    <2>1. PICK s \in Session, t \in Session : s = sessions[sid] /\ t = sessions'[sid]
      BY <1>3 DEF TypeOK, Registered
    <2>2. Owning(sid, s) /\ Grows(s, t)
      BY <1>3, <2>1 DEF OwnerOf
    <2>3. t.fence.inc = s.fence.inc
      BY <2>2 DEF Grows, Follows, Evolves, Onward
    <2>4. \A x \in t.resources : Sound(x, t)
      BY <2>2, <2>3 DEF Owning, Grows, Follows, Sound
    <2>5. t.detachedAt = NoTime
      BY <2>2 DEF Owning, Grows, Follows
    <2>6. Held(sid)' \subseteq SubmittedRequests(t) \cup Unsettled(sid)'
      BY <1>3, <2>1, <2>2 DEF Owning, Grows
    <2>7. Unsettled(sid)' \subseteq AllRequests(t)
      BY <2>2 DEF Owning, Grows
    <2>8. Live(t) /\ handler'[sid].pc \in {"submit", "undo"} => AppendOperation \in t.activeOps
      <3> SUFFICES ASSUME Live(t), handler'[sid].pc \in {"submit", "undo"}
                   PROVE  AppendOperation \in t.activeOps
        OBVIOUS
      <3>1. Live(s)
        BY <2>2 DEF Grows, Follows, Evolves, Live
      <3>2. AppendOperation \in s.activeOps
        BY <2>2, <3>1 DEF Owning
      <3>3. t = s \/ t.activeOps = s.activeOps
        BY <1>3, <2>1 DEF Live
      <3> QED
        BY <3>2, <3>3
    <2>9. handler'[sid].pc # "idle" => handler'[sid].inc = t.fence.inc
      BY <1>3, <2>1, <2>3
    <2> QED
      BY <2>1, <2>4, <2>5, <2>6, <2>7, <2>8, <2>9 DEF Owning
  <1>4. sid \notin Registered => Held(sid)' = {}
    BY DEF OwnerOf
  <1> QED
    BY <1>1, <1>2, <1>3, <1>4 DEF OwnerOf

-----------------------------------------------------------------------------
(* Aborts.                                                                 *)

(* An abort that succeeds takes the requests out of the stages.            *)
LEMMA AbortHeld ==
    ASSUME NEW ids, NEW ok, SendAbort(ids, ok)
    PROVE  \A sid : /\ Held(sid)' \subseteq Held(sid)
                    /\ ok => \A r \in Held(sid)' : [sid |-> sid, request |-> r] \notin ids
  <1> TAKE sid
  <1>1. Held(sid)' \subseteq Held(sid)
    BY DEF SendAbort, Held
  <1>2. ASSUME ok, NEW r \in Held(sid)' PROVE [sid |-> sid, request |-> r] \notin ids
    <2> DEFINE q == [stage |-> EntryStage, sid |-> sid, request |-> r]
    <2>1. q \in engine /\ q \notin InEngine(ids) /\ q.sid = sid /\ q.request = r
      BY <1>2 DEF SendAbort, Held
    <2> HIDE DEF q
    <2> QED
      BY <2>1 DEF InEngine
  <1> QED
    BY <1>1, <1>2

(* An abort of requests of one session.                                    *)
LEMMA AbortOwned ==
    ASSUME NEW sid, NEW ids, NEW ok, SendAbort(Owned(sid, ids), ok)
    PROVE  (\A x : Held(x)' \subseteq Held(x)) /\ (ok => Held(sid)' \cap ids = {})
  <1>1. \A r \in ids : [sid |-> sid, request |-> r] \in Owned(sid, ids)
    BY DEF Owned
  <1> QED
    BY <1>1, AbortHeld

(* A control cleanup that is joined or started.                            *)
LEMMA JoinControlHeld ==
    ASSUME NEW c, JoinControl(c)
    PROVE  /\ \A x : Held(x)' \subseteq Held(x)
           /\ \A t \in controlTasks' :
                 \/ t \in controlTasks
                 \/ t.record = c /\ (t.ok => Held(c.sid)' \cap c.submitted = {})
  <1>1. CASE UNCHANGED <<controlTasks, stageVars>>
    BY <1>1 DEF stageVars, Held
  <1>2. ASSUME NEW ok \in BOOLEAN, SendAbort(Owned(c.sid, c.submitted), ok),
               controlTasks' = controlTasks \cup {[record |-> c, ok |-> ok]}
        PROVE  /\ \A x : Held(x)' \subseteq Held(x)
               /\ \A t \in controlTasks' :
                     \/ t \in controlTasks
                     \/ t.record = c /\ (t.ok => Held(c.sid)' \cap c.submitted = {})
    <2>1. PICK sid, ids : sid = c.sid /\ ids = c.submitted
      OBVIOUS
    <2>2. (\A x : Held(x)' \subseteq Held(x)) /\ (ok => Held(sid)' \cap ids = {})
      BY <1>2, <2>1, AbortOwned
    <2> QED
      BY <1>2, <2>1, <2>2
  <1> QED
    BY <1>1, <1>2 DEF JoinControl

(* A compensation that is joined or started.                               *)
LEMMA JoinCompensationHeld ==
    ASSUME TypeOK, NEW sid \in Sids, NEW ids, JoinCompensation(sid, ids)
    PROVE  /\ \A x : Held(x)' \subseteq Held(x)
           /\ \A x \in Sids \ {sid} : compensating'[x] = compensating[x]
           /\ \A t \in compensating'[sid] :
                 t \in compensating[sid] \/ (t.ok => Held(sid)' \cap t.ids = {})
  <1>1. CASE UNCHANGED <<compensating, stageVars>>
    BY <1>1 DEF stageVars, Held
  <1>2. ASSUME NEW ok \in BOOLEAN, SendAbort(Owned(sid, ids), ok),
               compensating' = [compensating EXCEPT ![sid] = {[ids |-> ids, ok |-> ok]}]
        PROVE  /\ \A x : Held(x)' \subseteq Held(x)
               /\ \A x \in Sids \ {sid} : compensating'[x] = compensating[x]
               /\ \A t \in compensating'[sid] :
                     t \in compensating[sid] \/ (t.ok => Held(sid)' \cap t.ids = {})
    <2>1. (\A x : Held(x)' \subseteq Held(x)) /\ (ok => Held(sid)' \cap ids = {})
      BY <1>2, AbortOwned
    <2>2. compensating'[sid] = {[ids |-> ids, ok |-> ok]}
      BY <1>2 DEF TypeOK
    <2> QED
      BY <1>2, <2>1, <2>2 DEF TypeOK
  <1> QED
    BY <1>1, <1>2 DEF JoinCompensation

-----------------------------------------------------------------------------
(* The handlers.                                                           *)

(* A step of one handler.                                                  *)
LEMMA HandlerStep ==
    ASSUME TInv, TInv', OInv, NEW sid \in Sids, OwnerOf(sid)', Used(sid) => Goes(sid),
           \A other \in Sids \ {sid} : Bystander(other),
           \A c \in controls' : c \in controls \/ ControlOK(c)',
           \A t \in controlTasks' : t \in controlTasks \/ TaskOK(t)',
           UNCHANGED <<expirations, reaper>>, loop'.pc = "cleanup" => loop' = loop
    PROVE  OInv'
  <1>1. TypeOK /\ OwnersOK
    BY DEF TInv, OInv
  <1>2. OwnersOK' /\ \A x \in Sids : Used(x) => Goes(x)
    BY <1>1, OwnersStep
  <1> QED
    BY <1>2, RecordsStep

(* The handler of a used session finds it under the incarnation it took.   *)
LEMMA StoredFacts ==
    ASSUME TypeOK, NEW sid \in Sids, NEW inc, NEW s \in Session,
           sid \in Registered => inc = sessions[sid].fence.inc,
           sessions' = Stored(sid, inc, s)
    PROVE  /\ (sid \in Registered)' = (sid \in Registered)
           /\ sid \in Registered => sessions'[sid] = s
           /\ \A other \in Sids \ {sid} : sessions'[other] = sessions[other]
  <1>1. s # NoSession
    BY ControlAssumption
  <1> QED
    BY <1>1 DEF Stored, IsRegistered, Registered, TypeOK

(* A handler answers.                                                      *)
LEMMA OwnAnswer ==
    ASSUME TInv, TInv', OInv, NEW sid \in Sids, NEW inc, NEW s \in Session,
           Answer(sid, inc, s), Used(sid),
           sid \in Registered =>
              /\ inc = sessions[sid].fence.inc
              /\ Grows(sessions[sid], s)
              /\ InFlight(sid) \subseteq SubmittedRequests(s),
           UNCHANGED <<nextInc, records, stageVars, reaper, loop>>
    PROVE  OInv'
  <1>1. TypeOK /\ TypeOK' /\ OwnerOf(sid)
    BY DEF TInv, OInv, OwnersOK
  <1>2. /\ (sid \in Registered)' = (sid \in Registered)
        /\ sid \in Registered => sessions'[sid] = s
        /\ \A other \in Sids \ {sid} : sessions'[other] = sessions[other]
    BY <1>1, StoredFacts DEF Answer
  <1>3. /\ handler'[sid] = IdleHandler
        /\ \A other \in Sids \ {sid} :
              handler'[other] = handler[other] /\ detached'[other] = detached[other]
    BY <1>1 DEF Answer, TypeOK
  <1>4. /\ nextInc' = nextInc /\ controls' = controls /\ controlTasks' = controlTasks
        /\ compensation' = compensation /\ compensating' = compensating
        /\ expirations' = expirations /\ reaper' = reaper /\ loop' = loop /\ engine' = engine
    BY DEF records, stageVars
  <1>5. \A x : Held(x)' = Held(x)
    BY <1>4 DEF Held
  <1>6. handler'[sid].pc = "idle"
    BY <1>3 DEF IdleHandler
  <1>7. Unsettled(sid)' = compensation[sid] /\ Unsettled(sid) = compensation[sid] \cup InFlight(sid)
    BY <1>4, <1>6 DEF Unsettled, InFlight
  <1>8. \A t \in compensating'[sid] : t.ok => Held(sid)' \cap t.ids = {}
    BY <1>1, <1>4, <1>5 DEF OwnerOf
  <1>9. ~Holding(sid)'
    BY <1>6 DEF Holding
  <1>10. OwnerOf(sid)' /\ Goes(sid)
    BY <1>1, <1>2, <1>4, <1>5, <1>6, <1>7, <1>8, <1>9, OwnerMoves
  <1>11. \A other \in Sids \ {sid} : Bystander(other)
    BY <1>2, <1>3, <1>4, <1>5 DEF Bystander, SameHandler
  <1> QED
    BY <1>4, <1>10, <1>11, HandlerStep

(* A handler answers and leaves its session as it is.                      *)
LEMMA OwnAnswerUnchanged ==
    ASSUME TInv, TInv', OInv, NEW sid \in Sids, AnswerUnchanged(sid), handler[sid].pc # "submit",
           UNCHANGED <<nextInc, records, stageVars, reaper, loop>>
    PROVE  OInv'
  <1>1. TypeOK /\ TypeOK' /\ OwnerOf(sid)
    BY DEF TInv, OInv, OwnersOK
  <1>2. /\ handler'[sid] = IdleHandler /\ sessions' = sessions
        /\ \A other \in Sids \ {sid} :
              handler'[other] = handler[other] /\ detached'[other] = detached[other]
    BY <1>1 DEF AnswerUnchanged, TypeOK
  <1>3. /\ nextInc' = nextInc /\ controls' = controls /\ controlTasks' = controlTasks
        /\ compensation' = compensation /\ compensating' = compensating
        /\ expirations' = expirations /\ reaper' = reaper /\ loop' = loop /\ engine' = engine
    BY DEF records, stageVars
  <1>4. \A x : Held(x)' = Held(x)
    BY <1>3 DEF Held
  <1>5. handler'[sid].pc = "idle"
    BY <1>2 DEF IdleHandler
  <1>6. Unsettled(sid)' = Unsettled(sid)
    BY <1>3, <1>5 DEF Unsettled, InFlight
  <1>7. (sid \in Registered)' = (sid \in Registered) /\ Used(sid)' = Used(sid)
    BY <1>2, <1>3 DEF Registered, Used
  <1>8. OwnerOf(sid)'
    <2>1. sid \in Registered' => Owning(sid, sessions[sid])'
      BY <1>1, <1>2, <1>4, <1>5, <1>6, <1>7 DEF OwnerOf, Owning
    <2>2. ~Holding(sid)'
      BY <1>5 DEF Holding
    <2> QED
      BY <1>1, <1>3, <1>4, <1>5, <1>7, <2>1, <2>2 DEF OwnerOf
  <1>9. Goes(sid)
    <2>1. sid \in Registered => Follows(sessions[sid], sessions'[sid])
      BY <1>1, <1>2, GrowsReflexive DEF TypeOK, Registered, Grows
    <2> QED
      BY <1>2, <1>3, <1>4, <1>6, <1>7, <2>1 DEF Goes
  <1>10. \A other \in Sids \ {sid} : Bystander(other)
    BY <1>2, <1>3, <1>4 DEF Bystander, SameHandler
  <1> QED
    BY <1>3, <1>8, <1>9, <1>10, HandlerStep

(* A handler awaits its control cleanup.                                   *)
LEMMA OwnAwait ==
    ASSUME TInv, TInv', OInv, NEW sid \in Sids, NEW inc \in Nat, NEW s \in Session, NEW m, NEW c,
           AwaitControl(sid, inc, s, m, c), Used(sid), handler[sid].pc # "submit",
           sid \in Registered => inc = sessions[sid].fence.inc /\ Grows(sessions[sid], s),
           UNCHANGED <<nextInc, undoRecords, expirations, reaper, loop>>
    PROVE  /\ OwnerOf(sid)' /\ Goes(sid)
           /\ \A other \in Sids \ {sid} : Bystander(other)
           /\ (sid \in Registered)' = (sid \in Registered)
           /\ sid \in Registered => sessions'[sid] = s
           /\ Held(sid)' \subseteq Held(sid) /\ Unsettled(sid)' = Unsettled(sid)
           /\ controls' = controls \cup {c}
           /\ \A t \in controlTasks' :
                 \/ t \in controlTasks
                 \/ t.record = c /\ (t.ok => Held(c.sid)' \cap c.submitted = {})
  <1> DEFINE h == [IdleHandler EXCEPT !.pc = "cleanup", !.msg = m, !.inc = inc, !.record = c]
  <1>1. TypeOK /\ TypeOK' /\ OwnerOf(sid)
    BY DEF TInv, OInv, OwnersOK
  <1>2. Suspend(sid, inc, s, h) /\ controls' = controls \cup {c} /\ JoinControl(c)
    BY DEF AwaitControl
  <1>3. h.pc = "cleanup" /\ h.inc = inc
    BY DEF IdleHandler
  <1> HIDE DEF h
  <1>4. /\ (sid \in Registered)' = (sid \in Registered)
        /\ sid \in Registered => sessions'[sid] = s
        /\ \A other \in Sids \ {sid} : sessions'[other] = sessions[other]
    BY <1>1, <1>2, StoredFacts DEF Suspend
  <1>5. /\ handler'[sid] = h
        /\ \A other \in Sids \ {sid} :
              handler'[other] = handler[other] /\ detached'[other] = detached[other]
    BY <1>1, <1>2 DEF Suspend, TypeOK
  <1>6. /\ \A x : Held(x)' \subseteq Held(x)
        /\ \A t \in controlTasks' :
              \/ t \in controlTasks
              \/ t.record = c /\ (t.ok => Held(c.sid)' \cap c.submitted = {})
    BY <1>2, JoinControlHeld
  <1>7. nextInc' = nextInc /\ compensation' = compensation /\ compensating' = compensating
    BY DEF undoRecords
  <1>8. Unsettled(sid)' = compensation[sid] /\ Unsettled(sid) = compensation[sid]
    BY <1>3, <1>5, <1>7 DEF Unsettled, InFlight
  <1>9. \A t \in compensating'[sid] : t.ok => Held(sid)' \cap t.ids = {}
    BY <1>1, <1>6, <1>7 DEF OwnerOf
  <1>10. ~Holding(sid)' /\ handler'[sid].pc = "cleanup" /\ handler'[sid].inc = inc
    BY <1>3, <1>5 DEF Holding
  <1>11. OwnerOf(sid)' /\ Goes(sid)
    BY <1>1, <1>4, <1>6, <1>7, <1>8, <1>9, <1>10, OwnerMoves
  <1>12. \A other \in Sids \ {sid} : Bystander(other)
    BY <1>4, <1>5, <1>6, <1>7 DEF Bystander, SameHandler
  <1> QED
    BY <1>2, <1>4, <1>6, <1>8, <1>11, <1>12

(* A record that is pending is joined.                                     *)
LEMMA OwnJoin ==
    ASSUME TInv, TInv', OInv, NEW sid \in Sids, NEW inc \in Nat, NEW s \in Session, NEW m,
           NEW c \in controls, AwaitControl(sid, inc, s, m, c), Used(sid),
           handler[sid].pc # "submit", c.sid = sid,
           sid \in Registered => inc = sessions[sid].fence.inc /\ s = sessions[sid],
           UNCHANGED <<nextInc, undoRecords, expirations, reaper, loop>>
    PROVE  OInv'
  <1>1. sid \in Registered => Grows(sessions[sid], s)
    BY GrowsReflexive
  <1>2. /\ OwnerOf(sid)' /\ Goes(sid)
        /\ \A other \in Sids \ {sid} : Bystander(other)
        /\ controls' = controls \cup {c}
        /\ \A t \in controlTasks' :
              \/ t \in controlTasks
              \/ t.record = c /\ (t.ok => Held(c.sid)' \cap c.submitted = {})
    BY <1>1, OwnAwait
  <1>3. c \in Control /\ ControlOK(c)
    BY DEF TInv, TypeOK, OInv, ControlsOK
  <1>4. ControlOK(c)'
    BY <1>2, <1>3, ControlKept
  <1>5. \A t \in controlTasks' : t \in controlTasks \/ TaskOK(t)'
    BY <1>2, <1>4 DEF TaskOK
  <1> QED
    BY <1>2, <1>4, <1>5, HandlerStep

-----------------------------------------------------------------------------
(* The bodies of the handlers.                                             *)

(* A body starts when nothing of its session is unsettled.                 *)
Ready(sid, inc, m) ==
    /\ Used(sid)
    /\ handler[sid].pc \notin {"submit", "undo"}
    /\ compensation[sid] = {} /\ compensating[sid] = {}
    /\ sid \in Registered => inc = sessions[sid].fence.inc
    /\ m.kind \in {"append", "cancel", "update"} =>
          /\ Object(sid, inc) \in Session
          /\ sid \notin Registered => ~Live(detached[sid])

(* A handler before its body: nothing of its session is unsettled.         *)
LEMMA ReadyFacts ==
    ASSUME TInv, OInv, NEW sid \in Sids, NEW inc, NEW m, Ready(sid, inc, m)
    PROVE  /\ OwnerOf(sid) /\ Unsettled(sid) = {} /\ InFlight(sid) = {}
           /\ sid \in Registered =>
                 /\ sessions[sid] \in Session /\ Object(sid, inc) = sessions[sid]
                 /\ Owning(sid, sessions[sid])
                 /\ Held(sid) \subseteq SubmittedRequests(sessions[sid])
           /\ sid \notin Registered => Object(sid, inc) = detached[sid]
  <1>1. OwnerOf(sid) /\ Unsettled(sid) = {} /\ InFlight(sid) = {}
    BY DEF OInv, OwnersOK, Ready, Unsettled, InFlight
  <1>2. ASSUME sid \in Registered
        PROVE  /\ sessions[sid] \in Session /\ Object(sid, inc) = sessions[sid]
               /\ Owning(sid, sessions[sid]) /\ Held(sid) \subseteq SubmittedRequests(sessions[sid])
    BY <1>1, <1>2
    DEF TInv, TypeOK, Registered, Ready, Object, IsRegistered, OwnerOf, Owning
  <1>3. sid \notin Registered => Object(sid, inc) = detached[sid]
    BY DEF Object, IsRegistered
  <1> QED
    BY <1>1, <1>2, <1>3

(* handle_append sends its request only for a live session.                *)
LEMMA OwnAppendBody ==
    ASSUME TInv, TInv', OInv, Calm, NEW sid \in Sids, NEW inc \in Nat, NEW m \in Message,
           m.kind = "append", Ready(sid, inc, m), AppendBody(sid, inc, m),
           UNCHANGED <<nextInc, undoRecords, expirations, reaper>>
    PROVE  OInv'
  <1> DEFINE s == Object(sid, inc)
             f == m.fence
             r == RequestOf(f)
             b == BeginOperation(s, AppendOperation, 0)
             t == Reserve(b, EntryStage, r, f)
  <1>1. /\ TypeOK /\ TypeOK' /\ s \in Session /\ f \in Fence /\ r \in Request
        /\ OwnerOf(sid) /\ Used(sid)
    BY MessageFacts, RequestType, ReadyFacts DEF TInv, Ready
  <1>2. ASSUME CanAppend(s, f) PROVE OInv'
    <2>1. PICK ok \in BOOLEAN, sent \in BOOLEAN :
             /\ ok \/ "submit_error" \in Events
             /\ Suspend(sid, inc, t,
                        [IdleHandler EXCEPT !.pc = "submit", !.msg = m, !.inc = inc,
                             !.res = PrepareAppend(s, f), !.outcome = Outcome(ok)])
             /\ loop' = SegmentRefenced(sid, f)
             /\ engine' = IF sent
                          THEN engine \cup {[stage |-> EntryStage, sid |-> sid, request |-> r]}
                          ELSE engine
             /\ UNCHANGED controlRecords
      BY <1>2 DEF AppendBody
    <2> DEFINE h == [IdleHandler EXCEPT !.pc = "submit", !.msg = m, !.inc = inc,
                             !.res = PrepareAppend(s, f), !.outcome = Outcome(ok)]
    <2>2. ok = TRUE
      BY <2>1 DEF Calm
    <2>3. /\ h.pc = "submit" /\ h.inc = inc /\ h.res.fence = f /\ h.outcome = "ok"
      BY <2>2 DEF IdleHandler, Outcome, PrepareAppend
    <2>4. /\ sid \in Registered /\ s = sessions[sid] /\ Owning(sid, s)
          /\ Held(sid) \subseteq SubmittedRequests(s) /\ inc = s.fence.inc
      BY <1>2, ReadyFacts DEF CanAppend, Ready
    <2>5. Live(s) /\ ValidFence(s, f)
      BY <1>2 DEF CanAppend
    <2>6. /\ b \in Session /\ Grows(s, b)
          /\ b.fence = s.fence /\ AppendOperation \in b.activeOps
      <3>1. AppendOperation \in Nat /\ "explicit_close" \in Reasons
        BY DEF AppendOperation, Reasons
      <3>2. b \in Session /\ Grows(s, b)
        BY <1>1, <2>5, <3>1, OperationTypes, LeaseGrows
      <3>3. b.fence = s.fence /\ AppendOperation \in b.activeOps
        BY <1>1 DEF BeginOperation, Session
      <3> QED
        BY <3>2, <3>3
    <2>7. /\ t \in Session /\ Grows(b, t) /\ r \in AllRequests(t)
          /\ t.fence = s.fence /\ AppendOperation \in t.activeOps
      <3> HIDE DEF b
      <3>1. ValidFence(b, f) /\ EntryStage \in Stages
        BY <2>5, <2>6, ControlAssumption DEF ValidFence
      <3> QED
        BY <1>1, <2>6, <3>1, ReserveGrows
    <2> HIDE DEF h, b, t
    <2>8. Grows(s, t)
      BY <1>1, <2>6, <2>7, GrowsTransitive
    <2>9. sessions' = Stored(sid, inc, t) /\ handler' = [handler EXCEPT ![sid] = h]
          /\ detached' = IF IsRegistered(sid, inc) THEN detached ELSE [detached EXCEPT ![sid] = t]
      BY <2>1 DEF Suspend, h
    <2>10. /\ (sid \in Registered)' = (sid \in Registered)
           /\ sid \in Registered => sessions'[sid] = t
           /\ \A other \in Sids \ {sid} : sessions'[other] = sessions[other]
      BY <1>1, <2>4, <2>7, <2>9, StoredFacts
    <2>11. /\ handler'[sid] = h
           /\ \A other \in Sids \ {sid} :
                 handler'[other] = handler[other] /\ detached'[other] = detached[other]
      BY <1>1, <2>9 DEF TypeOK
    <2>12. /\ nextInc' = nextInc /\ compensation' = compensation /\ compensating' = compensating
           /\ controls' = controls /\ controlTasks' = controlTasks
      BY <2>1 DEF undoRecords, controlRecords
    <2>13. /\ \A x \in Held(sid)' : x \in Held(sid) \/ x = r
           /\ \A other \in Sids \ {sid} : Held(other)' \subseteq Held(other)
      BY <2>1 DEF Held
    <2>14. Unsettled(sid)' = {r}
      BY <2>3, <2>11, <2>12 DEF Ready, Unsettled, InFlight
    <2>15. OwnerOf(sid)'
      <3>1. Used(sid)' /\ compensating'[sid] = {}
        BY <1>1, <2>12 DEF Used, Ready
      <3>2. Owning(sid, sessions[sid])'
        <4>1. \A x \in t.resources : Sound(x, t)
          BY <2>4, <2>7, <2>8 DEF Owning, Grows, Follows, Sound
        <4>2. t.detachedAt = NoTime
          BY <2>4, <2>8 DEF Owning, Grows, Follows
        <4>3. Held(sid)' \subseteq SubmittedRequests(t) \cup Unsettled(sid)'
          BY <2>4, <2>8, <2>13, <2>14 DEF Grows
        <4> QED
          BY <2>3, <2>4, <2>7, <2>10, <2>11, <2>14, <4>1, <4>2, <4>3 DEF Owning
      <3> QED
        BY <2>3, <2>4, <2>10, <2>11, <3>1, <3>2 DEF OwnerOf
    <2>16. Goes(sid)
      <3>1. Ahead(sid, r)
        <4>1. f.epoch >= s.fence.epoch
          BY <1>1, <2>5 DEF ValidFence, NotBehind, Session, Fence
        <4> QED
          BY <2>4, <4>1 DEF Ahead, RequestOf
      <3> QED
        BY <2>4, <2>5, <2>8, <2>10, <2>12, <2>13, <2>14, <3>1 DEF Goes, Grows
    <2>17. \A other \in Sids \ {sid} : Bystander(other)
      BY <2>10, <2>11, <2>12, <2>13 DEF Bystander, SameHandler
    <2>18. loop'.pc = "cleanup" => loop' = loop
      BY <1>1, <2>1 DEF SegmentRefenced, TypeOK, Loop
    <2> QED
      BY <2>12, <2>15, <2>16, <2>17, <2>18, HandlerStep
  <1>3. ASSUME ~CanAppend(s, f) PROVE OInv'
    BY <1>3, OwnAnswerUnchanged
    DEF AppendBody, Ready, records, controlRecords, undoRecords, stageVars
  <1> QED
    BY <1>2, <1>3

(* A cancel names all that is held under its fence.                        *)
LEMMA OwnCancelBody ==
    ASSUME TInv, TInv', OInv, NEW sid \in Sids, NEW inc \in Nat, NEW m \in Message,
           m.kind = "cancel", Ready(sid, inc, m), CancelBody(sid, inc, m),
           UNCHANGED <<nextInc, undoRecords, expirations, reaper>>
    PROVE  OInv'
  <1> DEFINE s == Object(sid, inc)
             f == m.fence
             t == PrepareCancel(s, m.next)
             ids == RequestsOfFence(t, f)
             d == CancelRecord(sid, f, t)
  <1>1. /\ TypeOK /\ s \in Session /\ f \in Fence /\ m.next \in Fence /\ Used(sid)
        /\ handler[sid].pc # "submit" /\ UNCHANGED <<identity, loop>>
    BY MessageFacts DEF TInv, Ready, CancelBody
  <1>2. sid \in Registered =>
           s = sessions[sid] /\ Owning(sid, s) /\ inc = sessions[sid].fence.inc
    BY ReadyFacts DEF Ready
  <1>3. ASSUME NEW c \in Pending("cancel", sid, f), AwaitControl(sid, inc, s, m, c) PROVE OInv'
    <2>1. c \in controls /\ c.sid = sid
      BY DEF Pending, ControlKey
    <2> HIDE DEF s
    <2> QED
      BY <1>1, <1>2, <1>3, <2>1, OwnJoin
  <1>4. ASSUME CanCancel(s, f, m.next), AwaitControl(sid, inc, t, m, d) PROVE OInv'
    <2>1. t \in Session /\ Grows(s, t) /\ t.resources = s.resources
      <3>1. CASE KeyLess(s.fence, m.next)
        <4>1. ValidFence(s, m.next) /\ "explicit_close" \in Reasons
          BY <1>4, <3>1 DEF CanCancel, Reasons
        <4>2. AcceptFence(s, m.next).resources = s.resources
          BY <1>1 DEF AcceptFence, Session
        <4> QED
          BY <1>1, <3>1, <4>1, <4>2, LeaseGrows, AcceptFenceType DEF PrepareCancel
      <3>2. CASE ~KeyLess(s.fence, m.next)
        BY <1>1, <3>2, GrowsReflexive DEF PrepareCancel
      <3> QED
        BY <3>1, <3>2
    <2>2. f.epoch < t.fence.epoch
      <3>1. /\ f.epoch \in Nat /\ m.next.epoch \in Nat /\ s.fence.epoch \in Nat
            /\ m.next.epoch > f.epoch
        BY <1>1, <1>4 DEF CanCancel, Session, Fence
      <3>2. CASE KeyLess(s.fence, m.next)
        <4>1. t.fence = m.next
          BY <1>1, <3>2 DEF PrepareCancel, AcceptFence, Session
        <4> QED
          BY <3>1, <4>1
      <3>3. CASE ~KeyLess(s.fence, m.next)
        <4>1. t = s /\ s.fence.epoch >= m.next.epoch
          BY <3>1, <3>3 DEF PrepareCancel, KeyLess
        <4> QED
          BY <3>1, <4>1
      <3> QED
        BY <3>2, <3>3
    <2>3. PICK c : c = d
      OBVIOUS
    <2>4. c.kind = "cancel" /\ c.sid = sid /\ c.fence = f /\ c.submitted = ids
      BY <2>3 DEF CancelRecord
    <2>5. sid \in Registered => \A r \in ids : r.epoch = f.epoch
      <3>1. PICK u : u = t /\ u.resources = s.resources
        BY <2>1
      <3> HIDE DEF s, t
      <3>2. \A x \in u.resources : sid \in Registered => x.request = RequestOf(x.fence)
        BY <1>2, <3>1 DEF Owning, Sound
      <3>3. RequestsOfFence(u, f) = {x.request : x \in {y \in u.resources : y.fence = f}}
        BY DEF RequestsOfFence
      <3>4. RequestOf(f).epoch = f.epoch
        BY DEF RequestOf
      <3>5. sid \in Registered => \A r \in RequestsOfFence(u, f) : r.epoch = f.epoch
        BY <3>2, <3>3, <3>4
      <3> QED
        BY <3>1, <3>5
    <2>6. PICK u \in Session, set \in SUBSET Request : u = t /\ set = ids
      BY <2>1, RequestSets
    <2>7. sid \in Registered => inc = sessions[sid].fence.inc /\ Grows(sessions[sid], u)
      BY <1>2, <2>1, <2>6
    <2>8. AwaitControl(sid, inc, u, m, c)
      BY <1>4, <2>3, <2>6
    <2>9. RequestsOfFence(u, f) = set
      BY <2>6
    <2> HIDE DEF s, t, ids, d
    <2>10. /\ OwnerOf(sid)' /\ Goes(sid)
           /\ \A other \in Sids \ {sid} : Bystander(other)
           /\ (sid \in Registered)' = (sid \in Registered)
           /\ sid \in Registered => sessions'[sid] = u
           /\ Unsettled(sid)' = Unsettled(sid)
           /\ controls' = controls \cup {c}
           /\ \A x \in controlTasks' :
                 \/ x \in controlTasks
                 \/ x.record = c /\ (x.ok => Held(c.sid)' \cap c.submitted = {})
      BY <1>1, <2>7, <2>8, OwnAwait
    <2>11. Cancels(sid, f, set)'
      <3>1. Used(sid)'
        BY <1>1, <2>10 DEF Used, Goes
      <3>2. Unsettled(sid)' = {}
        BY <2>10, ReadyFacts
      <3> QED
        BY <2>2, <2>5, <2>6, <2>9, <2>10, <3>1, <3>2 DEF Cancels
    <2>12. ControlOK(c)'
      BY <2>4, <2>6, <2>11 DEF ControlOK
    <2>13. \A x \in controlTasks' : x \in controlTasks \/ TaskOK(x)'
      BY <2>10, <2>12 DEF TaskOK
    <2> QED
      BY <1>1, <2>10, <2>12, <2>13, HandlerStep
  <1>5. ASSUME AnswerUnchanged(sid), UNCHANGED <<controlRecords, stageVars>> PROVE OInv'
    BY <1>1, <1>5, OwnAnswerUnchanged DEF records, controlRecords, undoRecords
  <1> QED
    BY <1>3, <1>4, <1>5 DEF CancelBody

(* An update moves the fence.                                              *)
LEMMA OwnUpdateBody ==
    ASSUME TInv, TInv', OInv, NEW sid \in Sids, NEW inc \in Nat, NEW m \in Message,
           m.kind = "update", Ready(sid, inc, m), UpdateBody(sid, inc, m),
           UNCHANGED <<nextInc, undoRecords, expirations, reaper>>
    PROVE  OInv'
  <1> DEFINE s == Object(sid, inc)
             t == AcceptFence(s, m.fence)
  <1>1. /\ TypeOK /\ s \in Session /\ m.fence \in Fence /\ Used(sid)
        /\ handler[sid].pc # "submit"
        /\ UNCHANGED <<identity, loop, controlRecords, stageVars>>
    BY MessageFacts DEF TInv, Ready, UpdateBody
  <1>2. ASSUME ValidFence(s, m.fence), Answer(sid, inc, t) PROVE OInv'
    <2>1. t \in Session /\ Grows(s, t)
      <3>1. "explicit_close" \in Reasons
        BY DEF Reasons
      <3> QED
        BY <1>1, <1>2, <3>1, LeaseGrows, AcceptFenceType
    <2>2. sid \in Registered =>
             /\ s = sessions[sid] /\ inc = sessions[sid].fence.inc /\ InFlight(sid) = {}
      BY ReadyFacts DEF Ready
    <2>3. PICK u \in Session : u = t
      BY <2>1
    <2>4. Answer(sid, inc, u)
      BY <1>2, <2>3
    <2>5. sid \in Registered =>
             /\ inc = sessions[sid].fence.inc /\ Grows(sessions[sid], u)
             /\ InFlight(sid) \subseteq SubmittedRequests(u)
      BY <2>1, <2>2, <2>3
    <2> HIDE DEF s, t
    <2> QED
      BY <1>1, <2>4, <2>5, OwnAnswer DEF records, controlRecords, undoRecords
  <1>3. ASSUME AnswerUnchanged(sid) PROVE OInv'
    BY <1>1, <1>3, OwnAnswerUnchanged DEF records, controlRecords, undoRecords
  <1> QED
    BY <1>2, <1>3 DEF UpdateBody

(* A close names all that is held.                                         *)
LEMMA OwnCloseBody ==
    ASSUME TInv, TInv', OInv, NEW sid \in Sids, NEW inc, NEW m \in Message,
           m.kind = "close", Ready(sid, inc, m), CloseBody(sid, m),
           UNCHANGED <<nextInc, undoRecords, expirations, reaper>>
    PROVE  OInv'
  <1> DEFINE s == sessions[sid]
             f == m.fence
             a == AcceptFence(s, f)
             t == BeginClose(a, "explicit_close")
             d == CloseRecord("close", sid, f, s)
  <1>1. /\ TypeOK /\ f \in Fence /\ Used(sid)
        /\ handler[sid].pc # "submit" /\ UNCHANGED <<identity, loop>>
    BY MessageFacts DEF TInv, Ready, CloseBody
  <1>2. ASSUME sid \in Registered
        PROVE  s \in Session /\ s.fence.inc \in Nat /\ Held(sid) \subseteq SubmittedRequests(s)
    <2>1. s \in Session /\ Held(sid) \subseteq SubmittedRequests(s)
      BY <1>2, ReadyFacts
    <2> QED
      BY <2>1 DEF Session, Fence
  <1>3. ASSUME NEW c \in Pending("close", sid, f), sid \in Registered,
               AwaitControl(sid, s.fence.inc, s, m, c)
        PROVE  OInv'
    <2>1. c \in controls /\ c.sid = sid
      BY DEF Pending, ControlKey
    <2>2. PICK i \in Nat, u \in Session : i = s.fence.inc /\ u = s
      BY <1>2, <1>3
    <2>3. AwaitControl(sid, i, u, m, c)
      BY <1>3, <2>2
    <2> QED
      BY <1>1, <2>1, <2>2, <2>3, OwnJoin
  <1>4. ASSUME sid \in Registered, ValidFence(s, f), AwaitControl(sid, s.fence.inc, t, m, d)
        PROVE  OInv'
    <2>1. t \in Session /\ Grows(s, t) /\ ~Live(t)
      <3>1. "explicit_close" \in Reasons
        BY DEF Reasons
      <3>2. a \in Session /\ Grows(s, a)
        BY <1>1, <1>2, <1>4, <3>1, LeaseGrows, AcceptFenceType
      <3> HIDE DEF a
      <3>3. t \in Session /\ Grows(a, t) /\ ~Live(t)
        BY <1>1, <3>1, <3>2, LeaseGrows, CloseFacts
      <3> HIDE DEF t, s
      <3> QED
        BY <1>2, <1>4, <3>2, <3>3, GrowsTransitive
    <2>2. PICK c : c = d
      OBVIOUS
    <2>3. c.kind = "close" /\ c.sid = sid /\ c.submitted = SubmittedRequests(s)
      BY <2>2 DEF CloseRecord
    <2>4. PICK u \in Session, i \in Nat, set \in {SubmittedRequests(s)} :
             u = t /\ i = s.fence.inc
      BY <1>2, <1>4, <2>1
    <2>5. AwaitControl(sid, i, u, m, c)
      BY <1>4, <2>2, <2>4
    <2>6. i = sessions[sid].fence.inc /\ Grows(sessions[sid], u)
      BY <2>1, <2>4
    <2> HIDE DEF s, t, d, a
    <2>7. /\ OwnerOf(sid)' /\ Goes(sid)
          /\ \A other \in Sids \ {sid} : Bystander(other)
          /\ sid \in Registered => sessions'[sid] = u
          /\ Held(sid)' \subseteq Held(sid)
          /\ controls' = controls \cup {c}
          /\ \A x \in controlTasks' :
                \/ x \in controlTasks
                \/ x.record = c /\ (x.ok => Held(c.sid)' \cap c.submitted = {})
      BY <1>1, <2>5, <2>6, OwnAwait
    <2>8. Closes(sid, set)'
      <3>1. Used(sid)'
        BY <1>1, <2>7 DEF Used, Goes
      <3>2. ~Live(sessions'[sid]) /\ Held(sid)' \subseteq set
        BY <1>2, <1>4, <2>1, <2>4, <2>7
      <3> QED
        BY <3>1, <3>2 DEF Closes, Live
    <2>9. ControlOK(c)'
      BY <2>3, <2>4, <2>8 DEF ControlOK
    <2>10. \A x \in controlTasks' : x \in controlTasks \/ TaskOK(x)'
      BY <2>7, <2>9 DEF TaskOK
    <2> QED
      BY <1>1, <2>7, <2>9, <2>10, HandlerStep
  <1>5. ASSUME AnswerUnchanged(sid), UNCHANGED <<controlRecords, stageVars>> PROVE OInv'
    BY <1>1, <1>5, OwnAnswerUnchanged DEF records, controlRecords, undoRecords
  <1> QED
    BY <1>3, <1>4, <1>5 DEF CloseBody

(* Every body keeps the owners.                                            *)
LEMMA OwnBody ==
    ASSUME TInv, TInv', OInv, Calm, NEW sid \in Sids, NEW inc \in Nat, NEW m \in Message,
           Ready(sid, inc, m), Body(sid, inc, m)
    PROVE  OInv'
  <1>1. UNCHANGED <<nextInc, undoRecords, expirations, reaper>>
    BY DEF Body
  <1> QED
    BY <1>1, OwnAppendBody, OwnCancelBody, OwnUpdateBody, OwnCloseBody DEF Body

-----------------------------------------------------------------------------
(* The controls that open a session.                                       *)

(* An id that is opened was not used before, and is from then on.          *)
LEMMA AdmittedFacts ==
    ASSUME TInv, OInv, Calm, NEW sid \in Sids, NEW f \in Fences, Admitted(sid, f)
    PROVE  /\ TypeOK /\ f \in Fence /\ ~Used(sid) /\ Used(sid)'
           /\ sid \notin Registered /\ Held(sid) = {} /\ compensation[sid] = {}
           /\ handler[sid].pc = "idle"
           /\ \A other \in Sids \ {sid} : nextInc'[other] = nextInc[other]
  <1>1. TypeOK /\ f \in Fence /\ OwnerOf(sid)
    BY ControlAssumption DEF TInv, OInv, OwnersOK
  <1>2. sid \notin Registered /\ handler[sid].pc = "idle" /\ f.inc >= nextInc[sid]
    BY DEF Admitted
  <1>3. f.inc \in Nat /\ nextInc[sid] \in Nat
    BY <1>1 DEF Fence, TypeOK
  <1>4. ~Used(sid)
    BY <1>2, <1>3 DEF Used
  <1>5. nextInc'[sid] = f.inc + 1 /\ \A other \in Sids \ {sid} : nextInc'[other] = nextInc[other]
    BY <1>1 DEF Admitted, TypeOK
  <1>6. Used(sid)'
    <2> SUFFICES ASSUME NEW g \in Fences PROVE g.inc < nextInc'[sid]
      BY DEF Used
    <2>1. g.inc = f.inc
      BY DEF Calm
    <2> QED
      BY <1>3, <1>5, <2>1
  <1> QED
    BY <1>1, <1>2, <1>4, <1>5, <1>6 DEF OwnerOf

(* What is opened lists its first request only.                            *)
LEMMA OpenedOwns ==
    ASSUME NEW f \in Fence
    PROVE  /\ \A x \in Opened(f).resources : Sound(x, Opened(f))
           /\ Opened(f).detachedAt = NoTime
           /\ BeginClose(Opened(f), "open_rollback").resources = Opened(f).resources
           /\ BeginClose(Opened(f), "open_rollback").detachedAt = NoTime
           /\ ~Live(BeginClose(Opened(f), "open_rollback"))
  <1> DEFINE n == NewSession(f, 0)
             o == Opened(f)
  <1>1. /\ n \in Session /\ n.fence = f /\ n.resources = {} /\ n.detachedAt = NoTime
        /\ o = Reserve(n, EntryStage, RequestOf(f), f)
    BY NewSessionType DEF NewSession, Opened
  <1>2. o \in Session /\ o.fence = f
    BY OpenedFacts
  <1> HIDE DEF n, o
  <1>3. /\ o.detachedAt = NoTime
        /\ \A x \in o.resources : x.request = RequestOf(f) /\ x.fence = f
    BY <1>1 DEF Reserve, Session
  <1>4. \A x \in o.resources : Sound(x, o)
    BY <1>2, <1>3 DEF Sound
  <1>5. "open_rollback" \in Reasons
    BY DEF Reasons
  <1>6. /\ BeginClose(o, "open_rollback").resources = o.resources
        /\ BeginClose(o, "open_rollback").detachedAt = NoTime
    BY <1>2, <1>3 DEF BeginClose, MarkTerminal, Session
  <1>7. ~Live(BeginClose(o, "open_rollback"))
    BY <1>2, <1>5, CloseFacts
  <1> QED
    BY <1>3, <1>4, <1>6, <1>7 DEF o

(* An open.                                                                *)
LEMMA OwnOpen ==
    ASSUME TInv, TInv', OInv, Calm, NEW sid \in Sids, NEW f \in Fences, Open(sid, f)
    PROVE  OInv'
  <1>1. /\ TypeOK /\ f \in Fence /\ ~Used(sid) /\ Used(sid)' /\ Held(sid) = {}
        /\ compensation[sid] = {} /\ handler[sid].pc = "idle"
        /\ \A other \in Sids \ {sid} : nextInc'[other] = nextInc[other]
    BY AdmittedFacts DEF Open
  <1>2. /\ detached' = detached /\ handler' = handler /\ controls' = controls
        /\ controlTasks' = controlTasks /\ compensation' = compensation
        /\ compensating' = compensating /\ expirations' = expirations
        /\ reaper' = reaper /\ loop' = loop /\ engine' = engine
    BY DEF Open, records, stageVars
  <1>3. PICK s \in Session : s = Opened(f)
    BY <1>1, OpenedFacts
  <1>4. /\ sessions'[sid] = s
        /\ \A other \in Sids \ {sid} : sessions'[other] = sessions[other]
    BY <1>1, <1>3 DEF Open, TypeOK
  <1>5. \A x : Held(x)' = Held(x)
    BY <1>2 DEF Held
  <1>6. Unsettled(sid)' = {} /\ ~Holding(sid)'
    BY <1>1, <1>2 DEF Unsettled, InFlight, Holding
  <1>7. Owning(sid, sessions[sid])'
    BY <1>1, <1>2, <1>3, <1>4, <1>5, <1>6, OpenedOwns DEF Owning
  <1>8. sid \in Registered'
    BY <1>4, ControlAssumption DEF Registered
  <1>9. OwnerOf(sid)'
    BY <1>1, <1>2, <1>5, <1>6, <1>7, <1>8 DEF OwnerOf
  <1>10. \A other \in Sids \ {sid} : Bystander(other)
    BY <1>1, <1>2, <1>4, <1>5 DEF Bystander, SameHandler
  <1> QED
    BY <1>1, <1>2, <1>9, <1>10, HandlerStep

(* An open that is rolled back has nothing to abort.                       *)
LEMMA OwnOpenFails ==
    ASSUME TInv, TInv', OInv, Calm, NEW sid \in Sids, NEW f \in Fences, OpenFails(sid, f)
    PROVE  OInv'
  <1> DEFINE d == [kind |-> "open_rollback", sid |-> sid, fence |-> f, submitted |-> {},
                   reserved |-> AllRequests(Opened(f))]
             h == [IdleHandler EXCEPT !.pc = "cleanup", !.inc = f.inc, !.record = d,
                        !.msg = [kind |-> "open", fence |-> f, next |-> f]]
  <1>1. /\ TypeOK /\ f \in Fence /\ ~Used(sid) /\ Used(sid)' /\ Held(sid) = {}
        /\ compensation[sid] = {} /\ handler[sid].pc = "idle"
        /\ \A other \in Sids \ {sid} : nextInc'[other] = nextInc[other]
    BY AdmittedFacts DEF OpenFails
  <1>2. /\ detached' = detached /\ compensation' = compensation
        /\ compensating' = compensating /\ expirations' = expirations
        /\ reaper' = reaper /\ loop' = loop
        /\ controls' = controls \cup {d} /\ JoinControl(d)
        /\ handler' = [handler EXCEPT ![sid] = h]
    BY DEF OpenFails, undoRecords
  <1>3. PICK s \in Session : s = BeginClose(Opened(f), "open_rollback")
    BY <1>1, OpenedFacts
  <1>4. s.fence = f /\ Opened(f).fence = f
    BY <1>1, <1>3, OpenedFacts
  <1>5. /\ sessions'[sid] = s
        /\ \A other \in Sids \ {sid} : sessions'[other] = sessions[other]
    BY <1>1, <1>3 DEF OpenFails, TypeOK
  <1>6. d.kind = "open_rollback" /\ d.sid = sid /\ d.submitted = {}
    OBVIOUS
  <1>7. h.pc = "cleanup" /\ h.inc = f.inc
    BY DEF IdleHandler
  <1> HIDE DEF d, h
  <1>8. /\ \A x : Held(x)' \subseteq Held(x)
        /\ \A t \in controlTasks' :
              \/ t \in controlTasks
              \/ t.record = d /\ (t.ok => Held(d.sid)' \cap d.submitted = {})
    BY <1>2, JoinControlHeld
  <1>9. handler'[sid] = h /\ \A other \in Sids \ {sid} : handler'[other] = handler[other]
    BY <1>1, <1>2 DEF TypeOK
  <1>10. Unsettled(sid)' = {} /\ ~Holding(sid)' /\ Held(sid)' = {}
    BY <1>1, <1>2, <1>7, <1>8, <1>9 DEF Unsettled, InFlight, Holding
  <1>11. Owning(sid, sessions[sid])'
    <2>1. \A x \in s.resources : Sound(x, s)
      BY <1>1, <1>3, <1>4, OpenedOwns DEF Sound
    <2>2. s.detachedAt = NoTime
      BY <1>1, <1>3, OpenedOwns
    <2> QED
      BY <1>4, <1>5, <1>7, <1>9, <1>10, <2>1, <2>2 DEF Owning
  <1>12. sid \in Registered'
    BY <1>5, ControlAssumption DEF Registered
  <1>13. OwnerOf(sid)'
    BY <1>1, <1>2, <1>7, <1>9, <1>10, <1>11, <1>12 DEF OwnerOf
  <1>14. \A other \in Sids \ {sid} : Bystander(other)
    BY <1>1, <1>2, <1>5, <1>8, <1>9 DEF Bystander, SameHandler
  <1>15. ControlOK(d)'
    <2>1. ~Live(s)
      BY <1>1, <1>3, OpenedOwns
    <2>2. Closes(sid, {})'
      BY <1>1, <1>5, <1>10, <2>1 DEF Closes, Live
    <2> QED
      BY <1>6, <2>2 DEF ControlOK
  <1>16. \A t \in controlTasks' : t \in controlTasks \/ TaskOK(t)'
    BY <1>8, <1>15 DEF TaskOK
  <1> QED
    BY <1>1, <1>2, <1>13, <1>14, <1>15, <1>16, HandlerStep

(* A resumption.                                                           *)
LEMMA OwnResume ==
    ASSUME TInv, TInv', OInv, NEW sid \in Sids, NEW f, Resume(sid, f)
    PROVE  OInv'
  <1>1. /\ TypeOK /\ TypeOK' /\ OwnerOf(sid) /\ sid \in Registered /\ handler[sid].pc = "idle"
        /\ sessions[sid] \in Session /\ Live(sessions[sid])
    BY DEF TInv, OInv, OwnersOK, Resume, TypeOK, Registered
  <1>2. PICK s \in Session : s = ResumeLease(sessions[sid], 0)
    BY <1>1, LeaseTypes
  <1>3. Grows(sessions[sid], s)
    <2>1. NewSession(sessions[sid].fence, 0).fence \in Fence /\ "explicit_close" \in Reasons
      BY <1>1 DEF NewSession, Session, Reasons
    <2> QED
      BY <1>1, <1>2, <2>1, LeaseGrows
  <1>4. /\ detached' = detached /\ handler' = handler /\ controls' = controls
        /\ controlTasks' = controlTasks /\ compensation' = compensation
        /\ compensating' = compensating /\ expirations' = expirations
        /\ reaper' = reaper /\ loop' = loop /\ engine' = engine /\ nextInc' = nextInc
        /\ sessions' = [sessions EXCEPT ![sid] = s]
    BY <1>2 DEF Resume, records, stageVars
  <1>5. sessions'[sid] = s /\ \A other \in Sids \ {sid} : sessions'[other] = sessions[other]
    BY <1>1, <1>4 DEF TypeOK
  <1>6. sid \in Registered'
    BY <1>5, ControlAssumption DEF Registered
  <1>7. \A x : Held(x)' = Held(x)
    BY <1>4 DEF Held
  <1>8. /\ Unsettled(sid)' = Unsettled(sid) /\ InFlight(sid) = {} /\ ~Holding(sid)'
        /\ Used(sid)
    BY <1>1, <1>4 DEF Unsettled, InFlight, Holding, OwnerOf
  <1>9. \A t \in compensating'[sid] : t.ok => Held(sid)' \cap t.ids = {}
    BY <1>1, <1>4, <1>7 DEF OwnerOf
  <1>10. OwnerOf(sid)' /\ Goes(sid)
    BY <1>1, <1>3, <1>4, <1>5, <1>6, <1>7, <1>8, <1>9, OwnerMoves
  <1>11. \A other \in Sids \ {sid} : Bystander(other)
    BY <1>4, <1>5, <1>7 DEF Bystander, SameHandler
  <1> QED
    BY <1>4, <1>10, <1>11, HandlerStep

-----------------------------------------------------------------------------
(* The other steps of the handlers.                                        *)

(* A control that waits for a compensation, whoever started it.            *)
LEMMA OwnWait ==
    ASSUME TInv, TInv', OInv, NEW sid \in Sids, NEW ids, NEW h,
           handler' = [handler EXCEPT ![sid] = h], JoinCompensation(sid, ids),
           UNCHANGED <<sessions, detached, nextInc, controls, controlTasks, expirations,
                       reaper, loop>>,
           \A other \in Sids \ {sid} : compensation'[other] = compensation[other],
           Used(sid), h.pc \in {"compensate", "undo"},
           Unsettled(sid)' = Unsettled(sid),
           h.pc = "undo" => handler[sid].pc = "submit" /\ h.msg = handler[sid].msg,
           h.pc = "compensate" => sid \in Registered,
           sid \in Registered => h.inc = sessions[sid].fence.inc
    PROVE  OInv'
  <1>1. TypeOK /\ TypeOK' /\ OwnerOf(sid)
    BY DEF TInv, OInv, OwnersOK
  <1>2. handler'[sid] = h /\ \A other \in Sids \ {sid} : handler'[other] = handler[other]
    BY <1>1 DEF TypeOK
  <1>3. /\ \A x : Held(x)' \subseteq Held(x)
        /\ \A x \in Sids \ {sid} : compensating'[x] = compensating[x]
        /\ \A t \in compensating'[sid] :
              t \in compensating[sid] \/ (t.ok => Held(sid)' \cap t.ids = {})
    BY <1>1, JoinCompensationHeld
  <1>4. \A t \in compensating'[sid] : t.ok => Held(sid)' \cap t.ids = {}
    BY <1>1, <1>3 DEF OwnerOf
  <1>5. (sid \in Registered)' = (sid \in Registered)
    BY DEF Registered
  <1>6. sid \in Registered => Grows(sessions[sid], sessions'[sid])
    BY <1>1, GrowsReflexive DEF TypeOK, Registered
  <1>7. Holding(sid)' /\ sid \notin Registered => ~Live(detached'[sid])
    BY <1>1, <1>2 DEF Holding, OwnerOf
  <1>8. OwnerOf(sid)' /\ Goes(sid)
    BY <1>1, <1>2, <1>3, <1>4, <1>5, <1>6, <1>7, OwnerMoves
  <1>9. \A other \in Sids \ {sid} : Bystander(other)
    BY <1>2, <1>3 DEF Bystander, SameHandler
  <1> QED
    BY <1>8, <1>9, HandlerStep

(* A control begins.                                                       *)
LEMMA OwnBegin ==
    ASSUME TInv, TInv', UndoOK, OInv, Calm, NEW sid \in Sids, NEW m \in Messages, Begin(sid, m)
    PROVE  OInv'
  <1>1. /\ TypeOK /\ OwnerOf(sid) /\ UndoOf(sid) /\ sid \in Registered
        /\ handler[sid].pc = "idle" /\ sessions[sid] \in Session
    BY DEF TInv, OInv, OwnersOK, UndoOK, Begin, TypeOK, Registered
  <1>2. PICK inc : inc = sessions[sid].fence.inc
    OBVIOUS
  <1>3. Used(sid) /\ m \in Message /\ inc \in Nat /\ Object(sid, inc) = sessions[sid]
    BY <1>1, <1>2, ControlAssumption
    DEF OwnerOf, Messages, Message, Kinds, Session, Fence, Object, IsRegistered
  <1>4. CASE compensation[sid] = {} /\ Body(sid, sessions[sid].fence.inc, m)
    <2>1. Ready(sid, inc, m)
      BY <1>1, <1>2, <1>3, <1>4 DEF Ready, UndoOf
    <2>2. Body(sid, inc, m)
      BY <1>2, <1>4
    <2> QED
      BY <1>3, <2>1, <2>2, OwnBody
  <1>5. CASE /\ Suspend(sid, sessions[sid].fence.inc, sessions[sid],
                        [IdleHandler EXCEPT !.pc = "compensate", !.msg = m,
                                            !.inc = sessions[sid].fence.inc])
             /\ JoinCompensation(sid, compensation[sid])
             /\ UNCHANGED <<identity, nextInc, controlRecords, compensation, expirations, reaper,
                            loop, crashed>>
    <2>0. PICK h : h = [IdleHandler EXCEPT !.pc = "compensate", !.msg = m, !.inc = inc]
      OBVIOUS
    <2>1. h.pc = "compensate" /\ h.inc = inc
      BY <2>0 DEF IdleHandler
    <2>2. Suspend(sid, inc, sessions[sid], h)
      BY <1>2, <1>5, <2>0
    <2>3. /\ handler' = [handler EXCEPT ![sid] = h]
          /\ UNCHANGED <<sessions, detached>>
      BY <1>1, <1>2, <2>2 DEF Suspend, Stored, IsRegistered, TypeOK
    <2>4. handler'[sid] = h
      BY <1>1, <2>3 DEF TypeOK
    <2>5. Unsettled(sid)' = Unsettled(sid)
      BY <1>1, <1>5, <2>1, <2>4 DEF Unsettled, InFlight
    <2>6. PICK ids : ids = compensation[sid]
      OBVIOUS
    <2>7. JoinCompensation(sid, ids)
      BY <1>5, <2>6
    <2> QED
      BY <1>1, <1>2, <1>3, <1>5, <2>1, <2>3, <2>5, <2>7, OwnWait DEF controlRecords
  <1> QED
    BY <1>4, <1>5 DEF Begin

(* A control goes on.                                                      *)
LEMMA OwnContinue ==
    ASSUME TInv, TInv', UndoOK, OInv, Calm, NEW sid \in Sids, Continue(sid)
    PROVE  OInv'
  <1>1. /\ TypeOK /\ OwnerOf(sid) /\ UndoOf(sid) /\ HandlerOf(sid)
        /\ handler[sid].pc = "compensate" /\ handler[sid] \in Handler
    BY DEF TInv, OInv, OwnersOK, UndoOK, HandlersOK, Continue, TypeOK
  <1>2. PICK inc, m : inc = handler[sid].inc /\ m = handler[sid].msg
    OBVIOUS
  <1>3. CASE handler[sid].outcome = "ok" /\ Body(sid, handler[sid].inc, handler[sid].msg)
    <2>1. m \in Message /\ inc \in Nat /\ Used(sid)
      BY <1>1, <1>2 DEF HandlerOf, Handler, OwnerOf
    <2>2. compensation[sid] = {} /\ compensating[sid] = {}
      BY <1>1, <1>3 DEF UndoOf
    <2>3. sid \in Registered => inc = sessions[sid].fence.inc
      BY <1>1, <1>2 DEF OwnerOf, Owning
    <2>4. m.kind \in {"append", "cancel", "update"} =>
             /\ Object(sid, inc) \in Session
             /\ sid \notin Registered => ~Live(detached[sid])
      BY <1>1, <1>2 DEF HandlerOf, Holding, ObjectOK, OwnerOf
    <2>5. Ready(sid, inc, m)
      BY <1>1, <2>1, <2>2, <2>3, <2>4 DEF Ready
    <2>6. Body(sid, inc, m)
      BY <1>2, <1>3
    <2> QED
      BY <2>1, <2>5, <2>6, OwnBody
  <1>4. CASE /\ AnswerUnchanged(sid)
             /\ UNCHANGED <<identity, nextInc, records, reaper, loop, stageVars, crashed>>
    BY <1>1, <1>4, OwnAnswerUnchanged
  <1> QED
    BY <1>3, <1>4 DEF Continue

(* The end of an append's operation.                                       *)
LEMMA EndAppendGrows ==
    ASSUME NEW s \in Session
    PROVE  EndAppend(s) \in Session /\ Grows(s, EndAppend(s))
  <1>1. s.fence \in Fence /\ "explicit_close" \in Reasons
    BY DEF Session, Reasons
  <1> QED
    BY <1>1, EndAppendSteady, LeaseGrows, GrowsReflexive DEF EndAppend

(* A commit, with its bind.                                                *)
LEMMA CommitGrows ==
    ASSUME NEW s \in Session, NEW r \in Reservation, ValidFence(s, r.fence)
    PROVE  LET t == Bind(CommitAppend(s, r), EntryStage, RequestOf(r.fence), r.fence)
           IN  /\ t \in Session /\ Grows(s, t)
               /\ RequestOf(r.fence) \in SubmittedRequests(t)
  <1> DEFINE f == r.fence
             c == CommitAppend(s, r)
             t == Bind(c, EntryStage, RequestOf(f), f)
  <1>1. f \in Fence /\ EntryStage \in Stages
    BY ControlAssumption DEF Reservation
  <1>2. c \in Session /\ Evolves(s, c) /\ c.fence = f
    BY CommitAppendType, CommitAppendEvolves
  <1>3. c.resources = s.resources /\ c.detachedAt = s.detachedAt
    <2>1. PICK a \in Session : a = AcceptFence(s, f)
      BY <1>1, AcceptFenceType
    <2>2. a.resources = s.resources /\ a.detachedAt = s.detachedAt
      BY <2>1 DEF AcceptFence, Session
    <2>3. c = [a EXCEPT !.inputSeq = r.seq, !.turnSeq = r.turnSeq, !.turnKey = f]
      BY <2>1 DEF CommitAppend
    <2> HIDE DEF c
    <2>4. c.resources = a.resources /\ c.detachedAt = a.detachedAt
      BY <2>3 DEF Session
    <2> QED
      BY <2>2, <2>4
  <1> HIDE DEF c, f
  <1>4. Grows(s, c)
    BY <1>2, <1>3, GrowsKept
  <1>5. ValidFence(c, f)
    BY <1>1, <1>2 DEF ValidFence, NotBehind, Fence
  <1>6. t \in Session /\ Grows(c, t) /\ RequestOf(f) \in SubmittedRequests(t)
    BY <1>1, <1>2, <1>5, BindGrows
  <1> HIDE DEF t
  <1>7. Grows(s, t)
    BY <1>2, <1>4, <1>6, GrowsTransitive
  <1> QED
    BY <1>6, <1>7 DEF t, c, f

(* What the handler of an append knows of its session.                     *)
LEMMA AppendOwns ==
    ASSUME TInv, OInv, NEW sid \in Sids, handler[sid].pc \in {"submit", "undo"}
    PROVE  /\ Used(sid) /\ Object(sid, handler[sid].inc) \in Session
           /\ sid \in Registered =>
                 /\ handler[sid].inc = sessions[sid].fence.inc
                 /\ Object(sid, handler[sid].inc) = sessions[sid]
  <1>1. OwnerOf(sid)
    BY DEF OInv, OwnersOK
  <1>2. Object(sid, handler[sid].inc) \in Session
    BY AppendHolds
  <1>3. sid \in Registered => handler[sid].inc = sessions[sid].fence.inc
    BY <1>1 DEF OwnerOf, Owning
  <1> QED
    BY <1>1, <1>2, <1>3 DEF OwnerOf, Object, IsRegistered

(* The submission returned.                                                *)
LEMMA OwnSubmitted ==
    ASSUME TInv, TInv', UndoOK, OInv, NEW sid \in Sids, Submitted(sid)
    PROVE  OInv'
  <1>1. /\ TypeOK /\ OwnerOf(sid) /\ UndoOf(sid) /\ HandlerOf(sid)
        /\ handler[sid].pc = "submit" /\ handler[sid] \in Handler
        /\ compensation[sid] = {} /\ compensating[sid] = {}
        /\ UNCHANGED <<identity, nextInc, controlRecords, expirations, reaper, loop, crashed>>
    BY DEF TInv, OInv, OwnersOK, UndoOK, UndoOf, HandlersOK, Submitted, TypeOK
  <1>2. handler[sid].res \in Reservation /\ Object(sid, handler[sid].inc) \in Session
    BY <1>1, AppendHolds
  <1>3. PICK h \in Handler, s \in Session, res \in Reservation :
           h = handler[sid] /\ s = Object(sid, handler[sid].inc) /\ res = handler[sid].res
    BY <1>2, <1>1
  <1>4. PICK f, r : f = res.fence /\ r = RequestOf(f)
    OBVIOUS
  <1>5. /\ Used(sid) /\ InFlight(sid) = {r}
        /\ sid \in Registered => h.inc = sessions[sid].fence.inc /\ s = sessions[sid]
    BY <1>1, <1>3, <1>4, AppendOwns DEF InFlight
  <1>6. ASSUME ValidFence(s, f),
               Answer(sid, h.inc, EndAppend(Bind(CommitAppend(s, res), EntryStage, r, f))),
               UNCHANGED <<undoRecords, stageVars>>
        PROVE  OInv'
    <2>1. PICK t \in Session : /\ t = Bind(CommitAppend(s, res), EntryStage, r, f)
                               /\ Grows(s, t) /\ r \in SubmittedRequests(t)
      BY <1>4, <1>6, CommitGrows
    <2>2. PICK u \in Session : u = EndAppend(t) /\ Grows(t, u)
      BY EndAppendGrows
    <2>3. Grows(s, u) /\ r \in SubmittedRequests(u)
      BY <2>1, <2>2, GrowsTransitive DEF Grows
    <2>4. PICK inc : inc = h.inc /\ Answer(sid, inc, u)
      BY <1>6, <2>1, <2>2
    <2>5. sid \in Registered =>
             /\ inc = sessions[sid].fence.inc /\ Grows(sessions[sid], u)
             /\ InFlight(sid) \subseteq SubmittedRequests(u)
      BY <1>5, <2>3, <2>4
    <2> QED
      BY <1>1, <1>5, <1>6, <2>4, <2>5, OwnAnswer DEF records, controlRecords, undoRecords
  <1>7. ASSUME handler' = [handler EXCEPT ![sid].pc = "undo", ![sid].outcome = "none"],
               compensation' = [compensation EXCEPT ![sid] = {r}],
               JoinCompensation(sid, {r}), UNCHANGED <<sessions, detached>>
        PROVE  OInv'
    <2>0. PICK g : g = [[h EXCEPT !.pc = "undo"] EXCEPT !.outcome = "none"]
      OBVIOUS
    <2>1. g.pc = "undo" /\ g.msg = h.msg /\ g.inc = h.inc
      BY <2>0 DEF Handler
    <2>2. handler' = [handler EXCEPT ![sid] = g]
      BY <1>1, <1>3, <1>7, <2>0 DEF TypeOK, Handler
    <2>3. handler'[sid] = g /\ compensation'[sid] = {r}
      BY <1>1, <1>7, <2>2 DEF TypeOK
    <2>4. \A other \in Sids \ {sid} : compensation'[other] = compensation[other]
      BY <1>1, <1>7 DEF TypeOK
    <2>5. Unsettled(sid)' = Unsettled(sid)
      BY <1>1, <1>5, <2>1, <2>3 DEF Unsettled, InFlight
    <2>6. PICK ids : ids = {r}
      OBVIOUS
    <2>7. JoinCompensation(sid, ids)
      BY <1>7, <2>6
    <2> QED
      <3>1. /\ UNCHANGED <<sessions, detached, nextInc, controls, controlTasks, expirations,
                            reaper, loop>>
            /\ g.pc \in {"compensate", "undo"}
            /\ g.pc = "undo" => handler[sid].pc = "submit" /\ g.msg = handler[sid].msg
            /\ g.pc = "compensate" => sid \in Registered
            /\ sid \in Registered => g.inc = sessions[sid].fence.inc
        BY <1>1, <1>3, <1>5, <1>7, <2>1 DEF controlRecords
      <3> QED
        BY <1>5, <2>2, <2>4, <2>5, <2>7, <3>1, OwnWait
  <1> QED
    BY <1>1, <1>3, <1>4, <1>6, <1>7 DEF Submitted

(* An append fails: its submission was undone.                             *)
LEMMA OwnAppendFails ==
    ASSUME TInv, TInv', OInv, NEW sid \in Sids, AppendFails(sid)
    PROVE  OInv'
  <1>1. handler[sid].pc = "undo"
    BY DEF AppendFails, OInv, OwnersOK, OwnerOf
  <1>2. Object(sid, handler[sid].inc) \in Session
    BY <1>1, AppendOwns
  <1>3. PICK inc : inc = handler[sid].inc
    OBVIOUS
  <1>4. PICK s \in Session : s = Object(sid, inc)
    BY <1>2, <1>3
  <1>5. /\ Used(sid) /\ InFlight(sid) = {}
        /\ sid \in Registered => inc = sessions[sid].fence.inc /\ s = sessions[sid]
    BY <1>1, <1>3, <1>4, AppendOwns DEF InFlight
  <1>6. PICK t \in Session : t = EndAppend(s) /\ Grows(s, t)
    BY EndAppendGrows
  <1>7. Answer(sid, inc, t)
    BY <1>3, <1>4, <1>6 DEF AppendFails
  <1>8. sid \in Registered =>
           /\ inc = sessions[sid].fence.inc /\ Grows(sessions[sid], t)
           /\ InFlight(sid) \subseteq SubmittedRequests(t)
    BY <1>5, <1>6
  <1>9. UNCHANGED <<nextInc, records, stageVars, reaper, loop>>
    BY DEF AppendFails
  <1> QED
    BY <1>5, <1>7, <1>8, <1>9, OwnAnswer

(* A control cleanup is answered.                                          *)
LEMMA OwnCleanedUp ==
    ASSUME TInv, TInv', OInv, NEW sid \in Sids, CleanedUp(sid)
    PROVE  OInv'
  BY OwnAnswerUnchanged DEF CleanedUp

-----------------------------------------------------------------------------
(* The cleanup tasks.                                                      *)

(* Whatever keeps the owners and the records.                              *)
LEMMA AllStep ==
    ASSUME TInv, TInv', OInv, OwnersOK', \A sid \in Sids : Used(sid) => Goes(sid),
           \A c \in controls' : c \in controls,
           \A t \in controlTasks' : t \in controlTasks \/ TaskOK(t)',
           \A x \in expirations' : x \in expirations,
           reaper'.pc = "controls" =>
              \A c \in reaper'.todo :
                 c \in controls \/ (reaper.pc = "controls" /\ c \in reaper.todo),
           reaper'.pc = "expirations" =>
              reaper' = reaper \/ (reaper'.todo = {} /\ reaper'.outcome = "none"),
           loop'.pc = "cleanup" => loop' = loop
    PROVE  OInv'
  <1>1. ControlsOK /\ ExpirationsOK /\ LoopOK
    BY DEF OInv
  <1>2. ControlsOK'
    BY <1>1, ControlsStep
  <1>3. ExpirationsOK'
    BY <1>1, ExpirationsStep
  <1>4. LoopOK'
    BY <1>1, LoopStep
  <1> QED
    BY <1>2, <1>3, <1>4 DEF OInv

(* Sessions that are to close do so, and closing ones of which the stages  *)
(* hold nothing leave the registry.                                        *)
Departs(ss, sids) ==
    /\ \A sid \in Sids : sessions'[sid] = IF sid \in sids THEN NoSession ELSE ss[sid]
    /\ \A sid \in Sids : detached'[sid] = IF sid \in sids /\ HoldsObject(sid)
                                          THEN ReleaseAll(ss[sid])
                                          ELSE detached[sid]

(* ss is the registry, with some sessions closing that were live.          *)
Closing(ss) ==
    \A sid \in Sids :
        /\ sid \in Registered =>
              /\ ss[sid] \in Session /\ Grows(sessions[sid], ss[sid])
              /\ ss[sid] = sessions[sid] \/ ~Live(ss[sid])
        /\ sid \notin Registered => ss[sid] = NoSession

(* Sessions that begin to close or leave keep the owners.                  *)
LEMMA OwnDeparts ==
    ASSUME TInv, TInv', OwnersOK, NEW ss, Closing(ss), NEW sids \in SUBSET Registered,
           Departs(ss, sids), UNCHANGED <<nextInc, compensation, compensating>>,
           \A sid \in Sids : /\ SameHandler(sid)
                             /\ handler[sid].pc = "submit" =>
                                   handler'[sid].outcome = handler[sid].outcome
                             /\ Held(sid)' \subseteq Held(sid),
           \A sid \in sids : ~Live(ss[sid]) /\ Held(sid)' = {}
    PROVE  OwnersOK' /\ \A sid \in Sids : Used(sid) => Goes(sid)
  <1> SUFFICES ASSUME NEW sid \in Sids PROVE OwnerOf(sid)' /\ (Used(sid) => Goes(sid))
    BY DEF OwnersOK
  <1>1. TypeOK /\ TypeOK' /\ OwnerOf(sid)
    BY DEF TInv, OwnersOK
  <1>2. /\ Unsettled(sid)' = Unsettled(sid) /\ Holding(sid)' = Holding(sid)
        /\ Used(sid)' = Used(sid) /\ nextInc'[sid] = nextInc[sid]
        /\ handler'[sid].pc = handler[sid].pc /\ handler'[sid].inc = handler[sid].inc
        /\ handler[sid].pc = "submit" => handler'[sid].outcome = "ok"
        /\ Held(sid)' \subseteq Held(sid)
    BY <1>1 DEF SameHandler, Unsettled, InFlight, Holding, Used, OwnerOf
  <1>3. \A t \in compensating'[sid] : t.ok => Held(sid)' \cap t.ids = {}
    BY <1>1, <1>2 DEF OwnerOf
  <1>4. CASE sid \in sids
    <2>1. sid \in Registered /\ sid \notin Registered' /\ Used(sid)
      BY <1>1, <1>4 DEF Departs, Registered, OwnerOf
    <2>2. ss[sid] \in Session /\ ~Live(ss[sid]) /\ Held(sid)' = {}
      BY <1>4, <2>1 DEF Closing
    <2>3. Holding(sid) => ~Live(detached'[sid])
      <3> SUFFICES ASSUME Holding(sid) PROVE ~Live(detached'[sid])
        OBVIOUS
      <3>1. HoldsObject(sid)
        BY <1>1, <2>1 DEF Holding, HoldsObject, IsRegistered, OwnerOf, Owning
      <3>2. PICK s \in Session : s = ss[sid]
        BY <2>2
      <3>3. detached'[sid] = ReleaseAll(s)
        BY <1>4, <3>1, <3>2 DEF Departs
      <3>4. ReleaseAll(s).terminal = s.terminal
        BY DEF ReleaseAll, Session
      <3> QED
        BY <2>2, <3>2, <3>3, <3>4 DEF Live
    <2>4. Goes(sid)
      BY <1>2, <2>1 DEF Goes
    <2>5. OwnerOf(sid)'
      BY <1>2, <1>3, <2>1, <2>2, <2>3 DEF OwnerOf
    <2> QED
      BY <2>4, <2>5
  <1>5. CASE sid \notin sids /\ sid \in Registered
    <2>1. sessions'[sid] = ss[sid] /\ detached'[sid] = detached[sid] /\ Used(sid)
      BY <1>1, <1>5 DEF Departs, OwnerOf
    <2>2. PICK s \in Session : s = ss[sid] /\ Grows(sessions[sid], s)
                               /\ (s = sessions[sid] \/ ~Live(s))
      BY <1>5 DEF Closing
    <2>3. sid \in Registered' /\ sessions'[sid] = s
      BY <2>1, <2>2, ControlAssumption DEF Registered
    <2>4. handler'[sid].inc = sessions[sid].fence.inc \/ handler'[sid].pc = "idle"
      BY <1>1, <1>2, <1>5 DEF OwnerOf, Owning
    <2>5. sessions'[sid] = sessions[sid] \/ ~Live(sessions'[sid])
      BY <2>2, <2>3 DEF Live
    <2> QED
      BY <1>1, <1>2, <1>3, <1>5, <2>1, <2>2, <2>3, <2>4, <2>5, OwnerMoves
  <1>6. CASE sid \notin sids /\ sid \notin Registered
    <2>1. sessions'[sid] = sessions[sid] /\ detached'[sid] = detached[sid]
      BY <1>1, <1>6 DEF Departs, Closing, Registered
    <2>2. Bystander(sid)
      BY <1>2, <2>1 DEF Bystander
    <2> QED
      BY <1>1, <2>2, BystanderGoes, BystanderOwns
  <1> QED
    BY <1>4, <1>5, <1>6

(* The registry as it is.                                                  *)
LEMMA SameClosing ==
    ASSUME TypeOK
    PROVE  Closing(sessions)
  BY GrowsReflexive DEF Closing, TypeOK, Registered

(* What finalize_close_session does.                                       *)
LEMMA FinalizeDeparts ==
    ASSUME NEW ss, NEW sids, Finalize(ss, sids)
    PROVE  Departs(ss, sids)
  BY DEF Finalize, Departs

-----------------------------------------------------------------------------
(* The compensations.                                                      *)

(* A compensation ends, and releases what it aborted.                      *)
LEMMA OwnFinishCompensation ==
    ASSUME TInv, TInv', UndoOK, OInv, NEW sid \in Sids, NEW t \in compensating[sid],
           FinishCompensation(sid, t)
    PROVE  OInv'
  <1>1. /\ TypeOK /\ TypeOK' /\ OwnersOK /\ OwnerOf(sid) /\ UndoOf(sid)
        /\ t.ids = compensation[sid] /\ compensation[sid] # {}
        /\ handler[sid].pc # "submit" /\ Used(sid)
    BY DEF TInv, OInv, OwnersOK, OwnerOf, UndoOK, UndoOf
  <1>2. /\ detached' = detached /\ nextInc' = nextInc /\ controls' = controls
        /\ controlTasks' = controlTasks /\ expirations' = expirations /\ loop' = loop
        /\ engine' = engine
        /\ compensating'[sid] = {}
        /\ \A other \in Sids \ {sid} : compensating'[other] = compensating[other]
    BY <1>1 DEF FinishCompensation, controlRecords, stageVars, TypeOK
  <1>3. \A x : Held(x)' = Held(x)
    BY <1>2 DEF Held
  <1>4. SameHandler(sid) /\ \A other \in Sids \ {sid} : handler'[other] = handler[other]
    BY <1>1 DEF FinishCompensation, TypeOK, Handler, SameHandler
  <1>5. /\ reaper'.pc = reaper.pc /\ reaper'.todo = reaper.todo
        /\ reaper.pc # "compensations" => reaper' = reaper
    BY <1>1 DEF FinishCompensation, TypeOK, Reaper
  <1>6. \A other \in Sids \ {sid} : /\ sessions'[other] = sessions[other]
                                    /\ compensation'[other] = compensation[other]
    BY <1>1 DEF FinishCompensation, TypeOK
  <1>7. \A other \in Sids \ {sid} : Bystander(other)
    BY <1>2, <1>3, <1>4, <1>6 DEF Bystander, SameHandler
  <1>8. OwnerOf(sid)' /\ Goes(sid)
    <2>1. CASE t.ok
      <3>1. PICK ids : ids = t.ids
        OBVIOUS
      <3>2. compensation'[sid] = {} /\ Held(sid) \cap ids = {}
        BY <1>1, <2>1, <3>1 DEF FinishCompensation, TypeOK, OwnerOf
      <3>3. Unsettled(sid)' = {} /\ Unsettled(sid) = ids
        BY <1>1, <1>4, <3>1, <3>2 DEF SameHandler, Unsettled, InFlight
      <3>4. CASE sid \in Registered
        <4>1. PICK s \in Session : s = sessions[sid]
          BY <1>1, <3>4 DEF TypeOK, Registered
        <4>2. PICK u \in Session : u = ReleaseRequests(s, ids)
          BY ReleaseTypes
        <4>3. sessions'[sid] = u
          BY <1>1, <2>1, <3>1, <3>4, <4>1, <4>2 DEF FinishCompensation, TypeOK
        <4>4. /\ Follows(s, u) /\ SubmittedRequests(u) = SubmittedRequests(s) \ ids
              /\ u.activeOps = s.activeOps
          <5>1. s.fence \in Fence
            BY DEF Session
          <5> QED
            BY <4>2, <5>1, ReleasesFollow
        <4>5. u.resources \subseteq s.resources /\ u.fence = s.fence /\ u.terminal = s.terminal
              /\ u.detachedAt = s.detachedAt
          BY <4>2 DEF ReleaseRequests, Session
        <4>6. Owning(sid, s)
          BY <1>1, <3>4, <4>1 DEF OwnerOf
        <4>7. sid \in Registered'
          BY <4>3, ControlAssumption DEF Registered
        <4>8. Owning(sid, sessions[sid])'
          <5>1. \A x \in u.resources : Sound(x, u)
            BY <4>5, <4>6 DEF Owning, Sound
          <5>2. Held(sid)' \subseteq SubmittedRequests(u)
            BY <1>3, <3>2, <3>3, <4>4, <4>6 DEF Owning
          <5>3. handler'[sid].pc = handler[sid].pc /\ handler'[sid].inc = handler[sid].inc
            BY <1>4 DEF SameHandler
          <5> QED
            BY <3>3, <4>3, <4>4, <4>5, <4>6, <5>1, <5>2, <5>3 DEF Owning, Live
        <4>9. OwnerOf(sid)'
          BY <1>1, <1>2, <1>4, <4>7, <4>8 DEF OwnerOf, SameHandler, Used
        <4>10. Goes(sid)
          BY <1>2, <1>3, <3>3, <3>4, <4>1, <4>3, <4>4 DEF Goes
        <4> QED
          BY <4>9, <4>10
      <3>5. CASE sid \notin Registered
        <4>1. sessions'[sid] = sessions[sid] /\ sid \notin Registered'
          BY <1>1, <2>1, <3>5 DEF FinishCompensation, Registered
        <4>2. OwnerOf(sid)'
          BY <1>1, <1>2, <1>3, <1>4, <3>5, <4>1 DEF OwnerOf, SameHandler, Holding, Used
        <4>3. Goes(sid)
          BY <1>2, <1>3, <3>3, <4>1 DEF Goes
        <4> QED
          BY <4>2, <4>3
      <3> QED
        BY <3>4, <3>5
    <2>2. CASE ~t.ok
      <3>1. Bystander(sid)
        BY <1>1, <1>2, <1>3, <1>4, <2>2 DEF FinishCompensation, Bystander
      <3> QED
        BY <1>1, <3>1, BystanderGoes, BystanderOwns
    <2> QED
      BY <2>1, <2>2
  <1>9. OwnersOK' /\ \A x \in Sids : Used(x) => Goes(x)
    BY <1>1, <1>7, <1>8, OwnersStep
  <1> QED
    BY <1>2, <1>5, <1>9, AllStep

(* The reaper joins the compensations.                                     *)
LEMMA OwnReapCompensations ==
    ASSUME TInv, TInv', OInv, ReapCompensations
    PROVE  OInv'
  <1>1. /\ TypeOK /\ TypeOK' /\ OwnersOK /\ Rest(Sids) \subseteq Sids
        /\ reaper.pc = "compensations"
        /\ sessions' = sessions /\ detached' = detached /\ handler' = handler
        /\ nextInc' = nextInc /\ controls' = controls /\ controlTasks' = controlTasks
        /\ compensation' = compensation /\ expirations' = expirations /\ loop' = loop
    BY DEF TInv, OInv, ReapCompensations, ReaperReady, Rest, ReaperOK, controlRecords
  <1>2. reaper'.pc # "expirations" /\ (reaper'.pc = "controls" => reaper'.todo = {})
    <2>1. ASSUME NEW x, NEW rest, AwaitNext(x, rest, "none")
          PROVE  reaper'.pc = "compensations"
      BY <1>1, <2>1 DEF AwaitNext, TypeOK, Reaper
    <2>2. AtPhase("controls").pc = "controls" /\ AtPhase("controls").todo = {}
      BY DEF AtPhase
    <2> QED
      BY <2>1, <2>2 DEF ReapCompensations
  <1>3. ASSUME NEW sid \in Sids, compensation[sid] # {}, JoinCompensation(sid, compensation[sid])
        PROVE  OInv'
    <2>1. PICK ids : ids = compensation[sid]
      OBVIOUS
    <2>2. /\ \A x : Held(x)' \subseteq Held(x)
          /\ \A x \in Sids \ {sid} : compensating'[x] = compensating[x]
          /\ \A t \in compensating'[sid] :
                t \in compensating[sid] \/ (t.ok => Held(sid)' \cap t.ids = {})
      BY <1>1, <1>3, <2>1, JoinCompensationHeld
    <2>3. OwnerOf(sid) /\ Used(sid) /\ (sid \in Registered)' = (sid \in Registered)
      BY <1>1, <1>3 DEF OwnersOK, OwnerOf, Registered
    <2>4. \A t \in compensating'[sid] : t.ok => Held(sid)' \cap t.ids = {}
      BY <2>2, <2>3 DEF OwnerOf
    <2>5. Unsettled(sid)' = Unsettled(sid) /\ Holding(sid)' = Holding(sid)
      BY <1>1 DEF Unsettled, InFlight, Holding
    <2>6. sid \in Registered => Grows(sessions[sid], sessions'[sid])
      BY <1>1, GrowsReflexive DEF TypeOK, Registered
    <2>7. sid \in Registered /\ handler'[sid].pc # "idle" =>
             handler'[sid].inc = sessions[sid].fence.inc
      BY <1>1, <2>3 DEF OwnerOf, Owning
    <2>8. /\ handler'[sid].pc = "submit" => handler'[sid].outcome = "ok"
          /\ Holding(sid)' /\ sid \notin Registered => ~Live(detached'[sid])
      BY <1>1, <2>3, <2>5 DEF OwnerOf
    <2>9. OwnerOf(sid)' /\ Goes(sid)
      BY <1>1, <2>2, <2>3, <2>4, <2>5, <2>6, <2>7, <2>8, OwnerMoves
    <2>10. \A other \in Sids \ {sid} : Bystander(other)
      BY <1>1, <2>2 DEF Bystander, SameHandler
    <2>11. OwnersOK' /\ \A x \in Sids : Used(x) => Goes(x)
      BY <1>1, <2>9, <2>10, OwnersStep
    <2> QED
      BY <1>1, <1>2, <2>11, AllStep
  <1>4. CASE UNCHANGED <<compensating, stageVars>>
    <2>1. \A x \in Sids : Bystander(x)
      BY <1>1, <1>4 DEF Bystander, SameHandler, stageVars, Held
    <2>2. OwnersOK' /\ \A x \in Sids : Used(x) => Goes(x)
      BY <1>1, <2>1, BystanderGoes, BystanderOwns DEF OwnersOK
    <2> QED
      BY <1>1, <1>2, <2>2, AllStep
  <1> QED
    BY <1>1, <1>3, <1>4 DEF ReapCompensations

-----------------------------------------------------------------------------
(* The controls.                                                           *)

(* A control cleanup ends.                                                 *)
LEMMA OwnFinishControl ==
    ASSUME TInv, TInv', OInv, NEW t \in controlTasks, FinishControl(t)
    PROVE  OInv'
  <1>1. /\ TypeOK /\ TypeOK' /\ OwnersOK /\ t \in Task /\ TaskOK(t)
        /\ controlTasks' = controlTasks \ {t} /\ controls' \subseteq controls
        /\ nextInc' = nextInc /\ compensation' = compensation /\ compensating' = compensating
        /\ expirations' = expirations /\ loop' = loop /\ engine' = engine
    BY DEF TInv, OInv, ControlsOK, FinishControl, TypeOK, StillPending, undoRecords, stageVars
  <1>2. PICK sid \in Sids, f \in Fence, ids \in SUBSET Request :
           sid = t.record.sid /\ f = t.record.fence /\ ids = t.record.submitted
    BY <1>1 DEF Task, Control
  <1>3. \A x : Held(x)' = Held(x)
    BY <1>1 DEF Held
  <1>4. ASSUME NEW x \in Sids
        PROVE  /\ SameHandler(x)
               /\ handler[x].pc = "submit" => handler'[x].outcome = handler[x].outcome
    <2>1. handler[x] \in Handler
      BY <1>1 DEF TypeOK
    <2>2. CASE handler'[x] = handler[x]
      BY <2>2 DEF SameHandler
    <2>3. CASE /\ AwaitsControl(handler[x], t.record)
               /\ handler'[x] = [handler[x] EXCEPT !.outcome = Outcome(t.ok)]
      BY <2>1, <2>3 DEF AwaitsControl, Handler, SameHandler
    <2> QED
      BY <2>2, <2>3 DEF FinishControl
  <1>5. /\ reaper'.pc = reaper.pc /\ reaper'.todo = reaper.todo
        /\ reaper.pc # "controls" => reaper' = reaper
    BY <1>1 DEF FinishControl, TypeOK, Reaper
  <1>6. ASSUME OwnersOK', \A x \in Sids : Used(x) => Goes(x) PROVE OInv'
    BY <1>1, <1>5, <1>6, AllStep
  <1>7. ASSUME UNCHANGED <<sessions, detached>> PROVE OInv'
    <2>1. Departs(sessions, {})
      BY <1>7 DEF Departs
    <2> QED
      BY <1>1, <1>3, <1>4, <1>6, <2>1, SameClosing, OwnDeparts
  <1>8. ASSUME t.ok, t.record.kind = "cancel", sid \in Registered, UNCHANGED detached,
               sessions' = [sessions EXCEPT ![sid] = ReleaseFence(@, f)]
        PROVE  OInv'
    <2>1. /\ Cancels(sid, f, ids) /\ Held(sid) \cap ids = {} /\ OwnerOf(sid)
      BY <1>1, <1>2, <1>8 DEF TaskOK, ControlOK, OwnersOK
    <2>2. PICK s \in Session : s = sessions[sid]
      BY <1>1, <1>8 DEF TypeOK, Registered
    <2>3. PICK u \in Session : u = ReleaseFence(s, f)
      BY ReleaseTypes
    <2>4. sessions'[sid] = u /\ \A other \in Sids \ {sid} : sessions'[other] = sessions[other]
      BY <1>1, <1>8, <2>2, <2>3 DEF TypeOK
    <2>5. /\ Follows(s, u) /\ u.activeOps = s.activeOps
          /\ AllRequests(s) \subseteq AllRequests(u) \cup RequestsOfFence(s, f)
          /\ SubmittedRequests(s) \subseteq SubmittedRequests(u) \cup RequestsOfFence(s, f)
      BY <2>3, ReleasesFollow
    <2>6. /\ u.resources \subseteq s.resources /\ u.fence = s.fence
          /\ u.terminal = s.terminal /\ u.detachedAt = s.detachedAt
      BY <2>3 DEF ReleaseFence, Session
    <2>7. /\ RequestsOfFence(s, f) \subseteq ids /\ \A r \in ids : r.epoch = f.epoch
          /\ \A r \in Unsettled(sid) : r.epoch > f.epoch
      BY <1>8, <2>1, <2>2 DEF Cancels
    <2>8. Unsettled(sid) \cap ids = {}
      <3>1. f.epoch \in Nat
        BY DEF Fence
      <3> QED
        BY <2>7, <3>1
    <2>9. Owning(sid, s) /\ Used(sid)
      BY <1>8, <2>1, <2>2 DEF OwnerOf
    <2>10. /\ handler'[sid].pc = handler[sid].pc /\ handler'[sid].inc = handler[sid].inc
           /\ Unsettled(sid)' = Unsettled(sid) /\ Used(sid)'
           /\ handler[sid].pc = "submit" => handler'[sid].outcome = "ok"
      BY <1>1, <1>4, <2>1, <2>9 DEF SameHandler, Unsettled, InFlight, Used, OwnerOf
    <2>11. Owning(sid, sessions[sid])'
      <3>1. \A x \in u.resources : Sound(x, u)
        BY <2>6, <2>9 DEF Owning, Sound
      <3>2. Held(sid)' \subseteq SubmittedRequests(u) \cup Unsettled(sid)'
        BY <1>3, <2>1, <2>5, <2>7, <2>9, <2>10 DEF Owning
      <3>3. Unsettled(sid)' \subseteq AllRequests(u)
        BY <2>5, <2>7, <2>8, <2>9, <2>10 DEF Owning
      <3> QED
        BY <2>4, <2>5, <2>6, <2>9, <2>10, <3>1, <3>2, <3>3 DEF Owning, Live
    <2>12. sid \in Registered'
      BY <2>4, ControlAssumption DEF Registered
    <2>13. \A x \in compensating'[sid] : x.ok => Held(sid)' \cap x.ids = {}
      BY <1>1, <1>3, <2>1 DEF OwnerOf
    <2>14. OwnerOf(sid)'
      BY <2>10, <2>11, <2>12, <2>13 DEF OwnerOf
    <2>15. Goes(sid)
      BY <1>1, <1>3, <1>8, <2>2, <2>4, <2>5, <2>10 DEF Goes
    <2>16. \A other \in Sids \ {sid} : Bystander(other)
      BY <1>1, <1>3, <1>4, <1>8, <2>4 DEF Bystander
    <2>17. OwnersOK' /\ \A x \in Sids : Used(x) => Goes(x)
      BY <1>1, <2>14, <2>15, <2>16, OwnersStep
    <2> QED
      BY <1>6, <2>17
  <1>9. ASSUME t.ok, t.record.kind # "cancel", Finalize(sessions, {sid} \cap Registered)
        PROVE  OInv'
    <2>1. Closes(sid, ids) /\ Held(sid) \cap ids = {}
      BY <1>1, <1>2, <1>9 DEF TaskOK, ControlOK
    <2>2. Held(sid) = {}
      BY <2>1 DEF Closes
    <2>3. \A x \in {sid} \cap Registered : ~Live(sessions[x]) /\ Held(x)' = {}
      BY <1>3, <2>1, <2>2 DEF Closes
    <2>4. PICK gone \in SUBSET Registered : gone = {sid} \cap Registered
      OBVIOUS
    <2>5. Departs(sessions, gone)
      BY <1>9, <2>4, FinalizeDeparts
    <2> QED
      BY <1>1, <1>3, <1>4, <1>6, <2>3, <2>4, <2>5, SameClosing, OwnDeparts
  <1>10. CASE t.ok
    BY <1>2, <1>7, <1>8, <1>9, <1>10 DEF FinishControl
  <1>11. CASE ~t.ok
    BY <1>7, <1>11 DEF FinishControl
  <1> QED
    BY <1>10, <1>11

(* The reaper joins the controls.                                          *)
LEMMA OwnReapControls ==
    ASSUME TInv, TInv', OInv, ReapControls
    PROVE  OInv'
  <1>1. /\ TypeOK /\ OwnersOK /\ ControlsOK /\ reaper.pc = "controls"
        /\ sessions' = sessions /\ detached' = detached /\ handler' = handler
        /\ nextInc' = nextInc /\ controls' = controls /\ compensating' = compensating
        /\ compensation' = compensation /\ expirations' = expirations /\ loop' = loop
    BY DEF TInv, OInv, ReapControls, ReaperReady, undoRecords
  <1>2. ASSUME \A x : Held(x)' \subseteq Held(x)
        PROVE  OwnersOK' /\ \A x \in Sids : Goes(x)
    <2>1. \A x \in Sids : Bystander(x)
      BY <1>1, <1>2 DEF Bystander, SameHandler
    <2> QED
      BY <1>1, <2>1, BystanderGoes, BystanderOwns DEF OwnersOK
  <1>3. ASSUME NEW c \in Rest(controls), AwaitNext(c, Rest(controls), "none"), JoinControl(c)
        PROVE  OInv'
    <2>1. c \in Control /\ ControlOK(c)
      BY <1>1 DEF Rest, ControlsOK, TInv, TypeOK, ReaperOK
    <2>2. /\ \A x : Held(x)' \subseteq Held(x)
          /\ \A t \in controlTasks' :
                \/ t \in controlTasks
                \/ t.record = c /\ (t.ok => Held(c.sid)' \cap c.submitted = {})
      BY <1>3, JoinControlHeld
    <2>3. OwnersOK' /\ \A x \in Sids : Goes(x)
      BY <1>2, <2>2
    <2>4. ControlOK(c)'
      BY <2>1, <2>3, ControlKept DEF Control
    <2>5. \A t \in controlTasks' : t \in controlTasks \/ TaskOK(t)'
      BY <2>2, <2>4 DEF TaskOK
    <2>6. /\ reaper'.pc = "controls"
          /\ \A d \in reaper'.todo : d \in controls \/ d \in reaper.todo
      BY <1>1, <1>3 DEF AwaitNext, Rest, TypeOK, Reaper
    <2> QED
      BY <1>1, <2>3, <2>5, <2>6, AllStep
  <1>4. CASE reaper' = AtPhase("expirations") /\ UNCHANGED <<controlTasks, stageVars>>
    <2>1. \A x : Held(x)' \subseteq Held(x)
      BY <1>4 DEF Held, stageVars
    <2>2. /\ reaper'.pc = "expirations" /\ reaper'.todo = {} /\ reaper'.outcome = "none"
          /\ controlTasks' = controlTasks
      BY <1>4 DEF AtPhase
    <2>3. OwnersOK' /\ \A x \in Sids : Goes(x)
      BY <1>2, <2>1
    <2> QED
      BY <1>1, <2>2, <2>3, AllStep
  <1> QED
    BY <1>3, <1>4 DEF ReapControls

-----------------------------------------------------------------------------
(* The expirations.                                                        *)

(* Closes, once the sessions are as in ss.                                 *)
Due(ss, sid, ids) ==
    /\ Used(sid)
    /\ sid \in Registered => ~Live(ss[sid])
    /\ Held(sid) \subseteq ids

(* A session that is due, and stays or leaves.                             *)
LEMMA DueCloses ==
    ASSUME NEW ss, NEW sids, Departs(ss, sids), Closing(ss), NEW sid \in Sids,
           nextInc' = nextInc, NEW ids, NEW left, Held(sid)' \subseteq left,
           Due(ss, sid, ids)
    PROVE  Closes(sid, left)'
  <1>1. Used(sid)'
    BY DEF Due, Used
  <1>2. ASSUME sid \in Registered' PROVE ~Live(sessions'[sid])
    <2>1. sessions'[sid] = ss[sid] /\ sid \in Registered
      BY <1>2 DEF Departs, Closing, Registered
    <2> QED
      BY <2>1 DEF Due, Live
  <1> QED
    BY <1>1, <1>2 DEF Closes, Live

(* The reaper goes through the expirations.                                *)
LEMMA OwnExpire ==
    ASSUME TInv, TInv', OInv, reaper.pc = "expirations", NEW ss, Closing(ss),
           NEW pending \in SUBSET Expiration, NEW ended \in SUBSET Expiration,
           NEW rest \in SUBSET Expiration, Expire(ss, pending, ended, rest),
           \A x \in pending \cup rest : Due(ss, x.sid, x.submitted),
           \A x \in ended : Due(ss, x.sid, {}),
           UNCHANGED <<nextInc, handler, controlRecords, undoRecords, loop, crashed>>
    PROVE  OInv'
  <1> DEFINE quick == {x \in rest : x.submitted = {}}
  <1>1. PICK current \in SUBSET quick :
          LET done == ended \cup current
          IN  /\ identity' = Popped(UNION {Owned(x.sid, x.submitted \cup x.reserved) : x \in done})
              /\ Finalize(ss, Expiring(ss, done))
              /\ expirations' = {y \in pending : \A x \in done : ~SameExpiry(x, y)}
              /\ \/ \E x \in rest \ quick, ok \in BOOLEAN :
                       /\ SendAbort(Owned(x.sid, x.submitted), ok)
                       /\ AwaitNext(x, rest \ current, Outcome(ok))
                 \/ /\ rest = current
                    /\ reaper' = AtPhase("compensations")
                    /\ UNCHANGED <<stageVars>>
    BY DEF Expire
  <1> DEFINE done == ended \cup current
  <1>2. /\ TypeOK /\ OwnersOK /\ ControlsOK /\ ExpirationsOK /\ LoopOK
        /\ nextInc' = nextInc /\ handler' = handler /\ controls' = controls
        /\ controlTasks' = controlTasks /\ compensation' = compensation
        /\ compensating' = compensating /\ loop' = loop
    BY DEF TInv, OInv, controlRecords, undoRecords
  <1>3. \A x \in done : x \in Expiration /\ Due(ss, x.sid, {})
    BY DEF Due
  <1>4. expirations' \subseteq pending
    BY <1>1
  <1>5. Finalize(ss, Expiring(ss, done))
    BY <1>1
  <1> HIDE DEF done
  <1>6. PICK gone \in SUBSET Registered :
           Departs(ss, gone) /\ \A sid \in gone : ~Live(ss[sid]) /\ Held(sid) = {}
    <2>1. ASSUME NEW sid \in Expiring(ss, done)
          PROVE  sid \in Registered /\ ~Live(ss[sid]) /\ Held(sid) = {}
      <3>1. sid \in Sids /\ sid \in Registered
        BY DEF Expiring, Closing
      <3>2. Due(ss, sid, {})
        BY <1>3 DEF Expiring
      <3> QED
        BY <3>1, <3>2 DEF Due
    <2>2. Departs(ss, Expiring(ss, done))
      BY <1>5, FinalizeDeparts
    <2> QED
      BY <2>1, <2>2
  <1>7. /\ \A x : Held(x)' \subseteq Held(x)
        /\ reaper'.pc = "controls" => reaper'.todo = {}
        /\ reaper'.pc = "expirations" =>
              /\ reaper'.todo \subseteq rest
              /\ reaper'.outcome = "ok" =>
                    \E x \in rest : reaper'.current = x /\ Held(x.sid)' = {}
    <2>1. ASSUME NEW x \in rest, NEW ok \in BOOLEAN, SendAbort(Owned(x.sid, x.submitted), ok),
                 AwaitNext(x, rest \ current, Outcome(ok))
          PROVE  <1>7!:
      <3>1. PICK sid, ids : sid = x.sid /\ ids = x.submitted
        OBVIOUS
      <3>2. (\A y : Held(y)' \subseteq Held(y)) /\ (ok => Held(sid)' \cap ids = {})
        BY <2>1, <3>1, AbortOwned
      <3>3. Held(sid) \subseteq ids
        BY <2>1, <3>1 DEF Due
      <3>4. /\ reaper'.pc = "expirations" /\ reaper'.todo \subseteq rest
            /\ reaper'.current = x /\ reaper'.outcome = Outcome(ok)
        BY <1>2, <2>1 DEF AwaitNext, TypeOK, Reaper
      <3>5. Outcome(ok) = "ok" => ok
        BY DEF Outcome
      <3>6. reaper'.outcome = "ok" => Held(sid)' = {}
        BY <3>2, <3>3, <3>4, <3>5
      <3>7. Held(x.sid)' = Held(sid)'
        BY <3>1 DEF Held
      <3>8. reaper'.outcome = "ok" => reaper'.current = x /\ Held(x.sid)' = {}
        BY <3>4, <3>6, <3>7
      <3> QED
        BY <3>2, <3>4, <3>8
    <2>2. ASSUME reaper' = AtPhase("compensations"), UNCHANGED <<stageVars>>
          PROVE  <1>7!:
      <3>1. reaper'.pc = "compensations"
        BY <2>2 DEF AtPhase
      <3>2. \A x : Held(x)' = Held(x)
        BY <2>2 DEF Held, stageVars
      <3> QED
        BY <3>1, <3>2
    <2> QED
      BY <1>1, <2>1, <2>2
  <1>8. OwnersOK' /\ \A sid \in Sids : Used(sid) => Goes(sid)
    <2>1. \A sid \in Sids : SameHandler(sid) /\ handler'[sid].outcome = handler[sid].outcome
      BY <1>2 DEF SameHandler
    <2>2. \A sid \in gone : ~Live(ss[sid]) /\ Held(sid)' = {}
      BY <1>6, <1>7
    <2> QED
      BY <1>2, <1>6, <1>7, <2>1, <2>2, OwnDeparts
  <1>9. ASSUME NEW x \in pending \cup rest PROVE Closes(x.sid, x.submitted)'
    <2>1. PICK sid \in Sids, ids \in {x.submitted} : sid = x.sid
      BY DEF Expiration
    <2>2. Due(ss, sid, ids)
      BY <2>1
    <2>3. Held(sid)' \subseteq ids
      BY <1>7, <2>2 DEF Due
    <2>4. Closes(sid, ids)'
      BY <1>2, <1>6, <2>2, <2>3, DueCloses
    <2> QED
      BY <2>1, <2>4
  <1>10. ASSUME NEW x \in rest, Held(x.sid)' = {} PROVE Closes(x.sid, {})'
    <2>1. PICK sid \in Sids, ids \in {x.submitted}, none \in {{}} : sid = x.sid
      BY DEF Expiration
    <2>2. Due(ss, sid, ids) /\ Held(sid)' \subseteq none
      BY <1>10, <2>1
    <2>3. Closes(sid, none)'
      BY <1>2, <1>6, <2>2, DueCloses
    <2> QED
      BY <2>1, <2>3
  <1>11. reaper'.pc = "expirations" =>
            /\ \A x \in reaper'.todo : Closes(x.sid, x.submitted)'
            /\ reaper'.outcome = "ok" =>
                  reaper'.current \in Expiration /\ Closes(reaper.current.sid, {})'
    <2>1. ASSUME reaper'.pc = "expirations", reaper'.outcome = "ok"
          PROVE  reaper'.current \in Expiration /\ Closes(reaper.current.sid, {})'
      <3>1. PICK x \in rest : reaper'.current = x /\ Held(x.sid)' = {}
        BY <1>7, <2>1
      <3>2. Closes(x.sid, {})'
        BY <1>10, <3>1
      <3>3. Closes(reaper.current.sid, {})'
        BY <3>1, <3>2 DEF Closes
      <3> QED
        BY <3>1, <3>3
    <2> QED
      BY <1>7, <1>9, <2>1
  <1>12. ExpirationsOK'
    BY <1>4, <1>9, <1>11 DEF ExpirationsOK
  <1>13. ControlsOK'
    BY <1>2, <1>7, <1>8, ControlsStep
  <1>14. LoopOK'
    BY <1>2, <1>8, LoopStep
  <1> QED
    BY <1>8, <1>12, <1>13, <1>14 DEF OInv

(* A session that expires is quiet: it lists what is held for it.          *)
LEMMA ExpiryDue ==
    ASSUME TInv, OInv, NEW sid \in Sids, MayExpire(sid)
    PROVE  /\ handler[sid].pc \notin {"submit", "undo"}
           /\ Used(sid) /\ Held(sid) \subseteq SubmittedRequests(sessions[sid])
  <1>1. /\ OwnerOf(sid) /\ sid \in Registered /\ compensation[sid] = {} /\ Live(sessions[sid])
        /\ sessions[sid].detachedAt # NoTime \/ sessions[sid].activeOps = {}
    BY DEF OInv, OwnersOK, MayExpire
  <1>2. Owning(sid, sessions[sid]) /\ Used(sid)
    BY <1>1 DEF OwnerOf
  <1>3. handler[sid].pc \notin {"submit", "undo"}
    BY <1>1, <1>2 DEF Owning
  <1>4. Unsettled(sid) = {}
    BY <1>1, <1>3 DEF Unsettled, InFlight
  <1> QED
    BY <1>2, <1>3, <1>4 DEF Owning

(* It closes what has expired.                                             *)
LEMMA OwnCollectExpired ==
    ASSUME TInv, TInv', OInv, CollectExpired
    PROVE  OInv'
  <1>1. PICK expired \in SUBSET {sid \in Sids : MayExpire(sid)} :
           Expire(Closed(expired), WithExpired(expired), {}, WithExpired(expired))
    BY DEF CollectExpired, Closed
  <1>2. /\ TypeOK /\ ExpirationsOK /\ OwnersOK /\ reaper.pc = "expirations"
        /\ UNCHANGED <<nextInc, handler, controlRecords, undoRecords, loop, crashed>>
    BY DEF TInv, OInv, CollectExpired
  <1>3. WithExpired(expired) \subseteq Expiration
    BY <1>2, ClosedFacts
  <1>4. ASSUME NEW sid \in expired
        PROVE  /\ sid \in Registered /\ sessions[sid] \in Session
               /\ Closed(expired)[sid] \in Session
               /\ Grows(sessions[sid], Closed(expired)[sid]) /\ ~Live(Closed(expired)[sid])
    <2>1. sid \in Registered /\ sessions[sid] \in Session
      BY <1>2 DEF MayExpire, Registered, TypeOK
    <2>2. PICK reason \in Reasons : reason = ExpiryReason(sessions[sid])
      BY DEF ExpiryReason, Reasons
    <2>3. PICK s \in Session : s = sessions[sid]
      BY <2>1
    <2>4. s.fence \in Fence
      BY DEF Session
    <2>5. BeginClose(s, reason) \in Session /\ ~Live(BeginClose(s, reason))
          /\ Grows(s, BeginClose(s, reason))
      BY <2>4, CloseFacts, LeaseGrows
    <2>6. Closed(expired)[sid] = BeginClose(s, reason)
      BY <2>2, <2>3 DEF Closed
    <2> QED
      BY <2>1, <2>3, <2>5, <2>6
  <1>5. \A sid \in Sids \ expired : Closed(expired)[sid] = sessions[sid]
    BY DEF Closed
  <1>6. PICK ss : ss = Closed(expired)
    OBVIOUS
  <1>7. PICK pending \in SUBSET Expiration : pending = WithExpired(expired)
    BY <1>3
  <1>8. Closing(ss)
    BY <1>2, <1>4, <1>5, <1>6, GrowsReflexive DEF Closing, TypeOK, Registered
  <1>9. ASSUME NEW x \in pending PROVE Due(ss, x.sid, x.submitted)
    <2>1. CASE x \in expirations
      <3>1. Closes(x.sid, x.submitted) /\ x.sid \in Sids
        BY <1>2, <2>1 DEF ExpirationsOK, TypeOK, Expiration
      <3>2. x.sid \in Registered => ~Live(ss[x.sid])
        BY <1>4, <1>5, <1>6, <3>1 DEF Closes
      <3> QED
        BY <3>1, <3>2 DEF Closes, Due
    <2>2. CASE x \notin expirations
      <3>1. PICK sid \in expired : x = Expiry(sid, sessions[sid])
        BY <1>7, <2>2 DEF WithExpired
      <3>2. x.sid = sid /\ x.submitted = SubmittedRequests(sessions[sid])
        BY <3>1 DEF Expiry
      <3>3. Used(sid) /\ Held(sid) \subseteq SubmittedRequests(sessions[sid])
        BY ExpiryDue
      <3>4. ~Live(ss[sid])
        BY <1>4, <1>6
      <3> QED
        BY <3>2, <3>3, <3>4 DEF Due
    <2> QED
      BY <2>1, <2>2
  <1>10. Expire(ss, pending, {}, pending)
    BY <1>1, <1>6, <1>7
  <1> QED
    BY <1>2, <1>8, <1>9, <1>10, OwnExpire

(* It goes on.                                                             *)
LEMMA OwnExpireNext ==
    ASSUME TInv, TInv', OInv, ExpireNext
    PROVE  OInv'
  <1>1. /\ TypeOK /\ ExpirationsOK /\ reaper.pc = "expirations"
        /\ UNCHANGED <<nextInc, handler, controlRecords, undoRecords, loop, crashed>>
    BY DEF TInv, OInv, ExpireNext
  <1>2. PICK ended : ended = IF reaper.outcome = "ok" THEN {reaper.current} ELSE {}
    OBVIOUS
  <1>3. PICK ss, pending, rest : ss = sessions /\ pending = expirations /\ rest = reaper.todo
    OBVIOUS
  <1>4. Expire(ss, pending, ended, rest)
    BY <1>2, <1>3 DEF ExpireNext
  <1>5. pending \in SUBSET Expiration /\ rest \in SUBSET Expiration
    BY <1>1, <1>3 DEF TInv, TypeOK, ReaperOK
  <1>6. \A x \in pending \cup rest : Due(ss, x.sid, x.submitted)
    BY <1>1, <1>3 DEF ExpirationsOK, Closes, Due
  <1>7. ended \in SUBSET Expiration /\ \A x \in ended : Due(ss, x.sid, {})
    BY <1>1, <1>2, <1>3 DEF ExpirationsOK, Closes, Due
  <1>8. Closing(ss)
    BY <1>1, <1>3, SameClosing
  <1> QED
    BY <1>1, <1>4, <1>5, <1>6, <1>7, <1>8, OwnExpire

-----------------------------------------------------------------------------
(* The orchestration loop.                                                 *)

(* Nothing happens to the sessions and the records, and the entry stage    *)
(* holds what it held.                                                     *)
LEMMA OwnFrame ==
    ASSUME TInv, TInv', OInv, \A x : Held(x)' = Held(x),
           UNCHANGED <<sessions, detached, nextInc, handler, records, reaper>>,
           loop'.pc = "cleanup" => loop' = loop
    PROVE  OInv'
  <1>1. TypeOK /\ OwnersOK
    BY DEF TInv, OInv
  <1>2. /\ controls' = controls /\ controlTasks' = controlTasks
        /\ compensation' = compensation /\ compensating' = compensating
        /\ expirations' = expirations
    BY DEF records
  <1>3. \A x \in Sids : Bystander(x)
    BY <1>2 DEF Bystander, SameHandler
  <1>4. OwnersOK' /\ \A x \in Sids : Used(x) => Goes(x)
    BY <1>1, <1>3, BystanderGoes, BystanderOwns DEF OwnersOK
  <1> QED
    BY <1>2, <1>4, AllStep

(* A segment goes to the next stage.                                       *)
LEMMA OwnForward ==
    ASSUME TInv, TInv', OInv, NEW sid \in Sids, NEW f, ForwardSegment(sid, f)
    PROVE  OInv'
  <1>1. \A x : Held(x)' = Held(x)
    BY ControlAssumption DEF ForwardSegment, Held
  <1>2. loop'.pc = "forward"
    BY DEF ForwardSegment, IdleLoop
  <1> QED
    BY <1>1, <1>2, OwnFrame DEF ForwardSegment

(* The segment is bound in the session that has the id by then.            *)
LEMMA SegmentGrows ==
    ASSUME NEW s \in Session, NEW f \in Fence, ValidFence(s, f)
    PROVE  LET t == Bind(Reserve(s, NextStage, RequestOf(f), f), NextStage, RequestOf(f), f)
           IN  t \in Session /\ Grows(s, t)
  <1> DEFINE u == Reserve(s, NextStage, RequestOf(f), f)
             t == Bind(u, NextStage, RequestOf(f), f)
  <1>1. NextStage \in Stages
    BY ControlAssumption
  <1>2. u \in Session /\ Grows(s, u) /\ u.fence = s.fence
    BY <1>1, ReserveGrows
  <1>3. ValidFence(u, f)
    BY <1>2 DEF ValidFence, NotBehind
  <1> HIDE DEF u
  <1>4. t \in Session /\ Grows(u, t)
    BY <1>1, <1>2, <1>3, BindGrows
  <1> HIDE DEF t
  <1>5. Grows(s, t)
    BY <1>2, <1>4, GrowsTransitive
  <1> QED
    BY <1>4, <1>5 DEF t, u

(* The segment is bound, or its fence is refused.                          *)
LEMMA OwnForwarded ==
    ASSUME TInv, TInv', OInv, SegmentForwarded
    PROVE  OInv'
  <1>1. PICK sid \in Sids, f \in Fence : sid = loop.sid /\ f = loop.fence
    BY DEF TInv, SegmentOK, SegmentForwarded
  <1>2. /\ TypeOK /\ TypeOK' /\ OwnersOK /\ OwnerOf(sid)
        /\ detached' = detached /\ nextInc' = nextInc /\ handler' = handler
        /\ controls' = controls /\ controlTasks' = controlTasks
        /\ compensation' = compensation /\ compensating' = compensating
        /\ expirations' = expirations /\ reaper' = reaper /\ engine' = engine
    BY DEF TInv, OInv, OwnersOK, SegmentForwarded, records, stageVars
  <1>3. loop'.pc = "idle"
    BY IdleLoopType DEF SegmentForwarded
  <1>4. \A x : Held(x)' = Held(x)
    BY <1>2 DEF Held
  <1>5. CASE sessions' = sessions
    BY <1>2, <1>3, <1>4, <1>5, OwnFrame DEF records
  <1>6. ASSUME sid \in Registered, CanReserve(sessions[sid], NextStage, RequestOf(f), f),
               sessions' = [sessions EXCEPT ![sid] =
                              Bind(Reserve(@, NextStage, RequestOf(f), f), NextStage,
                                   RequestOf(f), f)]
        PROVE  OInv'
    <2>1. PICK s \in Session : s = sessions[sid]
      BY <1>2, <1>6 DEF TypeOK, Registered
    <2>2. ValidFence(s, f)
      BY <1>6, <2>1 DEF CanReserve
    <2>3. PICK t \in Session :
             /\ t = Bind(Reserve(s, NextStage, RequestOf(f), f), NextStage, RequestOf(f), f)
             /\ Grows(s, t)
      BY <2>2, SegmentGrows
    <2>4. sessions'[sid] = t /\ \A x \in Sids \ {sid} : sessions'[x] = sessions[x]
      BY <1>2, <1>6, <2>1, <2>3 DEF TypeOK
    <2>5. sid \in Registered' /\ Used(sid)
      BY <1>2, <1>6, <2>4, ControlAssumption DEF Registered, OwnerOf
    <2>6. t.activeOps = s.activeOps
      <3> DEFINE u == Reserve(s, NextStage, RequestOf(f), f)
      <3>1. NextStage \in Stages
        BY ControlAssumption
      <3>2. u \in Session /\ u.fence = s.fence /\ u.activeOps = s.activeOps
        BY <2>2, <3>1, ReserveGrows
      <3> HIDE DEF u
      <3>3. ValidFence(u, f)
        BY <2>2, <3>2 DEF ValidFence, NotBehind
      <3>4. Bind(u, NextStage, RequestOf(f), f).activeOps = u.activeOps
        BY <3>1, <3>2, <3>3, BindGrows
      <3> QED
        BY <2>3, <3>2, <3>4 DEF u
    <2>7. /\ Unsettled(sid)' = Unsettled(sid) /\ Holding(sid)' = Holding(sid)
          /\ handler'[sid] = handler[sid]
          /\ handler[sid].pc = "submit" => handler[sid].outcome = "ok"
          /\ handler[sid].pc # "idle" => handler[sid].inc = sessions[sid].fence.inc
          /\ \A x \in compensating'[sid] : x.ok => Held(sid)' \cap x.ids = {}
      BY <1>2, <1>4, <1>6 DEF Unsettled, InFlight, Holding, OwnerOf, Owning
    <2>8. OwnerOf(sid)' /\ Goes(sid)
      BY <1>2, <1>4, <1>6, <2>1, <2>3, <2>4, <2>5, <2>6, <2>7, OwnerMoves
    <2>9. \A other \in Sids \ {sid} : Bystander(other)
      BY <1>2, <1>4, <2>4 DEF Bystander, SameHandler
    <2>10. OwnersOK' /\ \A x \in Sids : Used(x) => Goes(x)
      BY <1>2, <2>8, <2>9, OwnersStep
    <2> QED
      BY <1>2, <1>3, <2>10, AllStep
  <1> QED
    BY <1>1, <1>5, <1>6 DEF SegmentForwarded

(* What the loop cleans up, and the reaper and the records stay.           *)
LEMMA OwnLoop ==
    ASSUME TInv, TInv', OInv, OwnersOK', \A sid \in Sids : Used(sid) => Goes(sid), LoopOK',
           UNCHANGED <<controls, controlTasks, expirations, reaper>>
    PROVE  OInv'
  <1>1. ControlsOK /\ ExpirationsOK
    BY DEF OInv
  <1>2. ControlsOK'
    BY <1>1, ControlsStep
  <1>3. ExpirationsOK'
    BY <1>1, ExpirationsStep
  <1> QED
    BY <1>2, <1>3 DEF OInv

(* A stage reports an error: the owners of its requests close, and all of  *)
(* theirs is aborted.                                                      *)
LEMMA OwnStageError ==
    ASSUME TInv, TInv', OInv, NEW sid \in Sids, NEW f \in Fence, StageError(sid, f)
    PROVE  OInv'
  <1>1. PICK ids : ids = {[sid |-> sid, request |-> RequestOf(f)]}
    OBVIOUS
  <1>2. /\ TypeOK /\ OwnersOK /\ sessions' = OwnersClosing(ids)
        /\ detached' = detached /\ nextInc' = nextInc /\ handler' = handler
        /\ controls' = controls /\ controlTasks' = controlTasks
        /\ compensation' = compensation /\ compensating' = compensating
        /\ expirations' = expirations /\ reaper' = reaper
    BY <1>1 DEF TInv, OInv, StageError, records
  <1>3. PICK ok \in BOOLEAN :
           /\ SendAbort(Affected(ids), ok)
           /\ loop' = [IdleLoop EXCEPT !.pc = "cleanup", !.ids = Affected(ids),
                                       !.closing = Owners(ids), !.ok = ok]
    BY <1>1 DEF StageError
  <1>4. loop'.ids = Affected(ids) /\ loop'.closing = Owners(ids) /\ loop'.ok = ok
    BY <1>3 DEF IdleLoop
  <1>5. ids \in SUBSET [sid : Sids, request : Request]
    BY <1>1, RequestType
  <1>6. Owners(ids) \in SUBSET Registered
    BY <1>2, <1>5, OwnersFacts
  <1>7. PICK ss : ss = OwnersClosing(ids)
    OBVIOUS
  <1>8. ASSUME NEW x \in Sids
        PROVE  ss[x] = IF x \in Owners(ids) THEN BeginClose(sessions[x], "request_cleanup")
                                            ELSE sessions[x]
    BY <1>7 DEF OwnersClosing
  <1>9. ASSUME NEW x \in Registered
        PROVE  /\ ss[x] \in Session /\ Grows(sessions[x], ss[x])
               /\ ss[x] = sessions[x] \/ ~Live(ss[x])
               /\ x \in Owners(ids) => ~Live(ss[x])
    <2>1. PICK s \in Session : s = sessions[x]
      BY <1>2 DEF TypeOK, Registered
    <2>2. PICK reason \in Reasons : reason = "request_cleanup"
      BY DEF Reasons
    <2>3. s.fence \in Fence
      BY DEF Session
    <2>4. /\ BeginClose(s, reason) \in Session /\ ~Live(BeginClose(s, reason))
          /\ Grows(s, BeginClose(s, reason))
      BY <2>3, CloseFacts, LeaseGrows
    <2>5. x \in Sids
      BY DEF Registered
    <2>6. CASE x \in Owners(ids)
      BY <1>8, <2>1, <2>2, <2>4, <2>5, <2>6
    <2>7. CASE x \notin Owners(ids)
      BY <1>8, <2>1, <2>5, <2>7, GrowsReflexive
    <2> QED
      BY <2>6, <2>7
  <1>10. Closing(ss)
    BY <1>2, <1>6, <1>8, <1>9 DEF Closing, Registered
  <1>11. Departs(ss, {})
    BY <1>2, <1>7 DEF Departs
  <1>12. \A x : /\ Held(x)' \subseteq Held(x)
                /\ ok => \A r \in Held(x)' : [sid |-> x, request |-> r] \notin Affected(ids)
    BY <1>3, AbortHeld
  <1>13. OwnersOK' /\ \A x \in Sids : Used(x) => Goes(x)
    <2>1. \A x \in Sids : SameHandler(x) /\ handler'[x].outcome = handler[x].outcome
      BY <1>2 DEF SameHandler
    <2> QED
      BY <1>2, <1>10, <1>11, <1>12, <2>1, OwnDeparts
  <1>14. ASSUME NEW x \in Owners(ids) PROVE Closes(x, Reported(x))'
    <2>1. x \in Registered /\ x \in Sids /\ Used(x) /\ Owning(x, sessions[x])
      BY <1>2, <1>6 DEF Registered, OwnersOK, OwnerOf
    <2>2. Used(x)'
      BY <1>2, <2>1 DEF Used
    <2>3. ~Live(sessions'[x])
      BY <1>2, <1>7, <1>9, <2>1
    <2>4. ASSUME NEW r \in Held(x)'
          PROVE  ~ok /\ [sid |-> x, request |-> r] \in Affected(ids) /\ r \in Request
      <3>1. r \in Held(x) /\ r \in Request
        BY <1>12, <2>4 DEF Held
      <3>2. r \in AllRequests(sessions[x])
        BY <2>1, <3>1 DEF Owning, SubmittedRequests, AllRequests
      <3>3. [sid |-> x, request |-> r] \in Affected(ids)
        BY <3>2 DEF Affected, Owned
      <3> QED
        BY <1>12, <2>4, <3>1, <3>3
    <2>5. Held(x)' \subseteq Reported(x)'
      BY <1>4, <2>4 DEF Reported
    <2> QED
      BY <2>2, <2>3, <2>5 DEF Closes
  <1>15. LoopOK'
    BY <1>4, <1>14 DEF LoopOK
  <1> QED
    BY <1>2, <1>13, <1>15, OwnLoop

(* The cleanup ended: closing sessions of which nothing is left leave.     *)
LEMMA OwnLoopCleanedUp ==
    ASSUME TInv, TInv', OInv, LoopCleanedUp
    PROVE  OInv'
  <1>1. /\ TypeOK /\ OwnersOK /\ LoopOK /\ loop.pc = "cleanup" /\ nextInc' = nextInc
        /\ handler' = handler /\ controls' = controls /\ controlTasks' = controlTasks
        /\ compensation' = compensation /\ compensating' = compensating
        /\ expirations' = expirations /\ reaper' = reaper /\ engine' = engine
    BY DEF TInv, OInv, LoopCleanedUp, records, stageVars
  <1>2. loop'.pc = "idle"
    BY IdleLoopType DEF LoopCleanedUp
  <1>3. \A x : Held(x)' = Held(x)
    BY <1>1 DEF Held
  <1>4. CASE loop.ok
    <2>1. PICK gone \in SUBSET Registered :
             gone = {sid \in loop.closing \cap Registered : ~Live(sessions[sid])}
      OBVIOUS
    <2>2. Departs(sessions, gone)
      BY <1>4, <2>1, FinalizeDeparts DEF LoopCleanedUp
    <2>3. \A x \in gone : ~Live(sessions[x]) /\ Held(x)' = {}
      BY <1>1, <1>3, <1>4, <2>1 DEF LoopOK, Closes, Reported
    <2>4. \A x \in Sids : SameHandler(x) /\ handler'[x].outcome = handler[x].outcome
      BY <1>1 DEF SameHandler
    <2>5. OwnersOK' /\ \A x \in Sids : Used(x) => Goes(x)
      BY <1>1, <1>3, <2>2, <2>3, <2>4, SameClosing, OwnDeparts
    <2> QED
      BY <1>1, <1>2, <2>5, AllStep
  <1>5. CASE ~loop.ok
    BY <1>1, <1>2, <1>3, <1>5, OwnFrame DEF LoopCleanedUp, records
  <1> QED
    BY <1>4, <1>5

-----------------------------------------------------------------------------

(* At the start nobody owns anything and nothing is held.                  *)
LEMMA InitOwned == Init => OInv
  <1> SUFFICES ASSUME Init PROVE OInv
    OBVIOUS
  <1>1. \A sid \in Sids : Held(sid) = {} /\ sid \notin Registered
    BY DEF Init, Held, Registered
  <1>2. \A sid \in Sids : /\ handler[sid].pc = "idle" /\ compensation[sid] = {}
                          /\ compensating[sid] = {}
    BY DEF Init, IdleHandler
  <1>3. OwnersOK
    BY <1>1, <1>2 DEF OwnersOK, OwnerOf, Holding
  <1>4. reaper.pc = "compensations" /\ loop.pc = "idle"
    BY IdleLoopType DEF Init, AtPhase
  <1> QED
    BY <1>3, <1>4 DEF Init, OInv, ControlsOK, ExpirationsOK, LoopOK

(* Every step keeps the owners.                                            *)
LEMMA NextOwned == Calm /\ TInv /\ UndoOK /\ OInv /\ [Next]_vars => OInv'
  <1> SUFFICES ASSUME Calm, TInv, UndoOK, OInv, [Next]_vars PROVE OInv'
    OBVIOUS
  <1>1. TInv'
    BY NextType
  <1>2. ASSUME NEW sid \in Sids, Requests(sid) PROVE OInv'
    <2>1. ASSUME NEW f \in Fences, Open(sid, f) \/ OpenFails(sid, f) \/ Resume(sid, f) PROVE OInv'
      BY <1>1, <2>1, OwnOpen, OwnOpenFails, OwnResume
    <2>2. ASSUME NEW f, Detach(sid, f) PROVE OInv'
      BY <2>2 DEF Calm, Detach
    <2> QED
      BY <1>1, <1>2, <2>1, <2>2, OwnBegin DEF Requests
  <1>3. ASSUME NEW sid \in Sids, Handle(sid) PROVE OInv'
    BY <1>1, <1>3, OwnContinue, OwnSubmitted, OwnAppendFails, OwnCleanedUp DEF Handle
  <1>4. ASSUME NEW sid \in Sids, Finish(sid) PROVE OInv'
    BY <1>1, <1>4, OwnFinishCompensation DEF Finish
  <1>5. ASSUME NEW key, FinishOf(key) PROVE OInv'
    BY <1>1, <1>5, OwnFinishControl DEF FinishOf
  <1>6. CASE Reap
    BY <1>1, <1>6, OwnReapCompensations, OwnReapControls, OwnCollectExpired, OwnExpireNext DEF Reap
  <1>7. CASE Poll
    <2>1. ASSUME NEW sid \in Sids, NEW f \in identity[sid],
                 ForwardSegment(sid, f) \/ StageError(sid, f)
          PROVE  OInv'
      <3>1. f \in Fence
        BY DEF TInv, TypeOK
      <3> QED
        BY <1>1, <2>1, <3>1, OwnForward, OwnStageError
    <2>2. ASSUME NEW dead, ReplicaDeath(dead) PROVE OInv'
      BY <2>2 DEF Calm, ReplicaDeath
    <2> QED
      BY <1>7, <2>1, <2>2 DEF Poll
  <1>8. CASE LoopReturns
    BY <1>1, <1>8, OwnForwarded, OwnLoopCleanedUp DEF LoopReturns
  <1>9. CASE UNCHANGED vars
    <2>1. \A x : Held(x)' = Held(x)
      BY <1>9 DEF vars, Held
    <2> QED
      BY <1>1, <1>9, <2>1, OwnFrame DEF vars, records
  <1> QED
    BY <1>2, <1>3, <1>4, <1>5, <1>6, <1>7, <1>8, <1>9 DEF Next

(* What is held belongs to a session that lists it, and that its cleanup   *)
(* names once it is closing.                                               *)
LEMMA HeldIsOwned == TInv /\ OInv /\ TerminalHasCleanup => StageRequestsOwned
  <1> SUFFICES ASSUME TInv, OInv, TerminalHasCleanup, ~crashed,
                      NEW q \in engine, q.stage = EntryStage
               PROVE  /\ IsRegistered(q.sid, q.request.inc)
                      /\ IF Live(sessions[q.sid])
                         THEN q.request \in AllRequests(sessions[q.sid])
                         ELSE Named(q.sid, q.request)
    BY DEF StageRequestsOwned
  <1>1. PICK sid \in Sids, r \in Request : sid = q.sid /\ r = q.request
    BY DEF TInv, TypeOK, StageRequest
  <1>2. r \in Held(sid)
    <2>1. q = [stage |-> EntryStage, sid |-> sid, request |-> r]
      BY <1>1 DEF TInv, TypeOK, StageRequest
    <2> QED
      BY <2>1 DEF Held
  <1>3. sid \in Registered /\ Owning(sid, sessions[sid])
    BY <1>2 DEF OInv, OwnersOK, OwnerOf
  <1>4. PICK s \in Session : s = sessions[sid]
    BY <1>3 DEF TInv, TypeOK, Registered
  <1>5. r \in AllRequests(s)
    BY <1>2, <1>3, <1>4 DEF Owning, SubmittedRequests, AllRequests
  <1>6. PICK b \in s.resources : b.request = r
    BY <1>5 DEF AllRequests
  <1>7. r.inc = s.fence.inc
    <2>1. Sound(b, s)
      BY <1>3, <1>4, <1>6 DEF Owning
    <2> QED
      BY <1>6, <2>1 DEF Sound, RequestOf
  <1>8. ASSUME ~Live(s) PROVE Named(sid, r)
    <2>1. CASE \E c \in controls : c.sid = sid /\ c.kind \in {"close", "open_rollback"}
      <3>1. PICK c \in controls : c.sid = sid /\ c.kind \in {"close", "open_rollback"}
        BY <2>1
      <3>2. Closes(c.sid, c.submitted)
        BY <3>1 DEF OInv, ControlsOK, ControlOK
      <3>3. r \in c.submitted
        BY <1>2, <3>1, <3>2 DEF Closes
      <3> QED
        BY <3>1, <3>3 DEF Named
    <2>2. CASE \E x \in expirations : x.sid = sid
      BY <1>2, <2>2 DEF OInv, ExpirationsOK, Closes, Named
    <2>3. CASE loop.pc = "cleanup" /\ sid \in loop.closing
      BY <1>2, <2>3 DEF OInv, LoopOK, Closes, Reported, Named
    <2> QED
      BY <1>3, <1>4, <1>8, <2>1, <2>2, <2>3 DEF TerminalHasCleanup, Live
  <1> QED
    BY <1>1, <1>3, <1>4, <1>5, <1>7, <1>8 DEF IsRegistered, Live

(* Every request that handle_append sent to the entry stage has an owner   *)
(* that will abort it, a session or the record of its cleanup, whatever    *)
(* the bounds, the fences, the segments forwarded, the aborts that raise   *)
(* and the stage errors, as long as nobody disconnects, no submission      *)
(* raises, no replica dies and no id is opened again: with any of these    *)
(* the code leaves a request that nobody owns.                             *)
THEOREM StageRequestsAreOwned == ASSUME Calm PROVE Spec => []StageRequestsOwned
  <1>1. Init => TInv /\ UndoOK /\ OInv
    <2>1. Init => UndoOK
      BY DEF Init, UndoOK, UndoOf, IdleHandler
    <2> QED
      BY <2>1, InitType, InitOwned
  <1>2. TInv /\ UndoOK /\ OInv /\ [Next]_vars => (TInv /\ UndoOK /\ OInv)'
    BY NextType, NextUndo, NextOwned
  <1>3. Spec => [](TInv /\ UndoOK /\ OInv)
    BY <1>1, <1>2, PTL DEF Spec
  <1> QED
    BY <1>3, ClosingIsCleanedUp, HeldIsOwned, PTL

=============================================================================
