------------------------------ MODULE DuplexState ------------------------------
(***************************************************************************)
(* The engine-side state of one full-duplex session and the operations on  *)
(* it: fences, the lease, stage resources, append reservations and the     *)
(* cache of completed appends.                                             *)
(*                                                                         *)
(* Source: src/vllm_omni/experimental/fullduplex/engine/duplex_session.py  *)
(* and lease.py.  Everything here is a pure operator on a session value;   *)
(* an operation that the code may refuse (it raises) comes as a predicate  *)
(* "Can..." or "Valid..." and an effect of the same idea.                  *)
(***************************************************************************)
EXTENDS Naturals, FiniteSets

CONSTANTS
    Stages,          \* stage ids that a session may bind
    OpIds,           \* append operation ids chosen by clients
    CompletedLimit,  \* completed_append_limit
    IdleTtl,         \* DuplexLeaseConfig.idle_ttl_s
    DisconnectGrace, \* DuplexLeaseConfig.disconnect_grace_s
    NoFence,         \* Python None where a fence or turn key is expected
    NoTime           \* Python None where a time is expected

ASSUME StateAssumption ==
    /\ CompletedLimit \in Nat \ {0}     \* DuplexSessionRuntimeState.__post_init__
    /\ IdleTtl \in Nat \ {0}            \* DuplexLeaseConfig.__post_init__
    /\ DisconnectGrace \in Nat \ {0}
    /\ NoTime \notin Nat

-----------------------------------------------------------------------------
(* Fences.  The session id is the index of the session in the registry.    *)

Fence == [inc : Nat, epoch : Nat, turn : Nat, resp : Nat]

ASSUME NoFenceAssumption == NoFence \notin Fence

(* The order of (epoch, turn_id, response_seq) tuples in Python.           *)
KeyLess(f, g) ==
    \/ f.epoch < g.epoch
    \/ f.epoch = g.epoch /\ f.turn < g.turn
    \/ f.epoch = g.epoch /\ f.turn = g.turn /\ f.resp < g.resp

(* f is not behind g: a later epoch, or the same epoch with neither the    *)
(* turn nor the response behind.                                           *)
NotBehind(f, g) ==
    \/ f.epoch > g.epoch
    \/ f.epoch = g.epoch /\ f.turn >= g.turn /\ f.resp >= g.resp

(* duplex_resource_request_id: turns and responses of one epoch share it.  *)
RequestOf(f) == [inc |-> f.inc, epoch |-> f.epoch]

Request == [inc : Nat, epoch : Nat]

-----------------------------------------------------------------------------
(* The session value.                                                      *)

Reasons == {"explicit_close", "disconnect_grace_expired", "idle_ttl_expired",
            "request_cleanup", "open_rollback"}

Resource  == [stage : Stages, request : Request, fence : Fence, submitted : BOOLEAN]
Binding   == [stage : Stages, request : Request, fence : Fence]
Completed == [op : OpIds, fence : Fence, stamp : Nat]

Session ==
    [ fence        : Fence,
      configGen    : Nat,
      resources    : SUBSET Resource,
      bindings     : SUBSET Binding,
      inputSeq     : Nat,
      turnSeq      : Nat,
      turnKey      : Fence \cup {NoFence},
      completed    : SUBSET Completed,
      generation   : Nat,
      lastActivity : Nat,
      detachedAt   : Nat \cup {NoTime},
      activeOps    : SUBSET Nat,
      terminal     : Reasons \cup {"none"} ]

NewSession(f, now) ==
    [ fence |-> f, configGen |-> 0, resources |-> {}, bindings |-> {},
      inputSeq |-> 0, turnSeq |-> 0, turnKey |-> NoFence, completed |-> {},
      generation |-> 0, lastActivity |-> now, detachedAt |-> NoTime,
      activeOps |-> {}, terminal |-> "none" ]

Live(s) == s.terminal = "none"

(* Wrong: lets a later turn take the response back.                        *)
ValidFenceByTurn(s, f) == f.inc = s.fence.inc /\ ~KeyLess(f, s.fence)

(* Wrong: no order.                                                        *)
ValidFenceUnordered(s, f) == f.inc = s.fence.inc

(* _validate_fence                                                         *)
ValidFence(s, f) == f.inc = s.fence.inc /\ NotBehind(f, s.fence)

(* Wrong: a new epoch inherits the input counters and the cache.           *)
AcceptFenceKeepingInput(s, f) == [s EXCEPT !.fence = f]

(* accept_fence: a change of epoch forgets the input counters and cache.   *)
AcceptFence(s, f) ==
    IF f.epoch = s.fence.epoch
    THEN [s EXCEPT !.fence = f]
    ELSE [s EXCEPT !.fence = f, !.inputSeq = 0, !.turnSeq = 0,
                   !.turnKey = NoFence, !.completed = {}]

-----------------------------------------------------------------------------
(* Lease.  Every operation but mark_terminal requires an open lease.       *)

TouchLease(s, now) == [s EXCEPT !.lastActivity = now]

DetachLease(s, now) == [s EXCEPT !.lastActivity = now, !.detachedAt = now]

ResumeLease(s, now) ==
    [s EXCEPT !.generation = @ + 1, !.detachedAt = NoTime, !.lastActivity = now]

BeginOperation(s, c, now) ==
    [s EXCEPT !.activeOps = @ \cup {c}, !.lastActivity = now]

EndOperation(s, c, now) ==
    [s EXCEPT !.activeOps = @ \ {c}, !.lastActivity = now]

GraceExpired(s, now) ==
    /\ Live(s)
    /\ s.detachedAt # NoTime
    /\ now >= s.detachedAt + DisconnectGrace

IdleExpired(s, now) ==
    /\ Live(s)
    /\ s.activeOps = {}
    /\ now >= s.lastActivity + IdleTtl

MarkTerminal(s, reason) ==
    [s EXCEPT !.terminal = reason, !.generation = @ + 1,
              !.detachedAt = NoTime, !.activeOps = {}]

(* begin_close without its fence check: a second close changes nothing.    *)
BeginClose(s, reason) == IF Live(s) THEN MarkTerminal(s, reason) ELSE s

-----------------------------------------------------------------------------
(* Stage resources and bindings.                                           *)

Reserved(s, stage, request) ==
    {r \in s.resources : r.stage = stage /\ r.request = request}

CanReserve(s, stage, request, f) ==
    /\ ValidFence(s, f)
    /\ \A r \in Reserved(s, stage, request) :
          r.fence.inc = f.inc /\ r.fence.epoch = f.epoch

Reserve(s, stage, request, f) ==
    IF Reserved(s, stage, request) # {}
    THEN s
    ELSE [s EXCEPT !.resources = @ \cup
            {[stage |-> stage, request |-> request, fence |-> f, submitted |-> FALSE]}]

(* bind_stage_request after its reservation has been accepted.             *)
Bind(s, stage, request, f) ==
    [AcceptFence(s, f) EXCEPT
        !.resources = (s.resources \ Reserved(s, stage, request)) \cup
            {[stage |-> stage, request |-> request, fence |-> f, submitted |-> TRUE]},
        !.bindings = {b \in s.bindings : b.stage # stage} \cup
            {[stage |-> stage, request |-> request, fence |-> f]}]

AllRequests(s)       == {r.request : r \in s.resources}
SubmittedRequests(s) == {r.request : r \in {q \in s.resources : q.submitted}}
UnsubmittedRequests(s) == {r.request : r \in {q \in s.resources : ~q.submitted}}
RequestsOfFence(s, f) == {r.request : r \in {q \in s.resources : q.fence = f}}

ReleaseRequests(s, requests) ==
    [s EXCEPT !.bindings  = {b \in @ : b.request \notin requests},
              !.resources = {r \in @ : r.request \notin requests}]

(* Wrong: forgets the bindings.                                            *)
ReleaseFenceResources(s, f) ==
    [s EXCEPT !.resources = {r \in @ : r.fence # f}]

ReleaseFence(s, f) ==
    [s EXCEPT !.bindings  = {b \in @ : b.fence # f},
              !.resources = {r \in @ : r.fence # f}]

(* finalize_close                                                          *)
ReleaseAll(s) == [s EXCEPT !.bindings = {}, !.resources = {}]

-----------------------------------------------------------------------------
(* Preregistered requests (request_states), each with its identity fence.  *)

(* Wrong: remembers the request and not its fence.                         *)
EnsureRequestById(fences, f) ==
    {g \in fences : RequestOf(g) # RequestOf(f)} \cup {RequestOf(f)}

(* ensure_request: the request of f carries the fence of its last append.  *)
EnsureRequest(fences, f) ==
    {g \in fences : RequestOf(g) # RequestOf(f)} \cup {f}

ForgetRequests(fences, requests) == {g \in fences : RequestOf(g) \notin requests}

-----------------------------------------------------------------------------
(* Append reservations.                                                    *)

(* prepare_append: what the next append would be numbered, and the state   *)
(* it was computed from.                                                   *)
Reservation ==
    [ fence : Fence, baseFence : Fence, baseSeq : Nat, baseTurnSeq : Nat,
      baseKey : Fence \cup {NoFence}, seq : Nat, turnSeq : Nat ]

PrepareAppend(s, f) ==
    LET fresh == f.epoch # s.fence.epoch
    IN  [ fence       |-> f,
          baseFence   |-> s.fence,
          baseSeq     |-> s.inputSeq,
          baseTurnSeq |-> s.turnSeq,
          baseKey     |-> s.turnKey,
          seq         |-> IF fresh THEN 1 ELSE s.inputSeq + 1,
          turnSeq     |-> IF ~fresh /\ s.turnKey = f THEN s.turnSeq + 1 ELSE 1 ]

(* The staleness test of commit_append.                                    *)
ReservationCurrent(s, r) ==
    /\ s.fence = r.baseFence
    /\ s.inputSeq = r.baseSeq
    /\ s.turnSeq = r.baseTurnSeq
    /\ s.turnKey = r.baseKey

CommitAppend(s, r) ==
    [AcceptFence(s, r.fence) EXCEPT
        !.inputSeq = r.seq, !.turnSeq = r.turnSeq, !.turnKey = r.fence]

-----------------------------------------------------------------------------
(* Completed appends.  stamp is the position in the OrderedDict.           *)

CompletedEntries(s, op) == {c \in s.completed : c.op = op}

(* completed_append raises when the operation id was used with a           *)
(* different fence.                                                        *)
CompletedMismatch(s, op, f) == \E c \in CompletedEntries(s, op) : c.fence # f

(* Wrong: drops the newest entry.                                          *)
EvictNewest(entries) ==
    IF Cardinality(entries) <= CompletedLimit
    THEN entries
    ELSE {c \in entries : \E d \in entries : d.stamp > c.stamp}

Evict(entries) ==
    IF Cardinality(entries) <= CompletedLimit
    THEN entries
    ELSE {c \in entries : \E d \in entries : d.stamp < c.stamp}

RecordCompleted(s, op, f) ==
    [s EXCEPT !.completed =
        Evict({c \in @ : c.op # op} \cup {[op |-> op, fence |-> f, stamp |-> s.inputSeq]})]

-----------------------------------------------------------------------------
(* Cancellation.                                                           *)

(* The checks of prepare_cancel_fence.                                     *)
CanCancel(s, cancelled, next) ==
    /\ cancelled.inc = s.fence.inc
    /\ next.inc = s.fence.inc
    /\ next.epoch > cancelled.epoch
    /\ ~KeyLess(s.fence, cancelled)
    /\ KeyLess(s.fence, next) => ValidFence(s, next)

(* Its effect; the requests to clean up are RequestsOfFence of the result. *)
PrepareCancel(s, next) ==
    IF KeyLess(s.fence, next) THEN AcceptFence(s, next) ELSE s

=============================================================================
