--------------------------- MODULE ReplicaMembership ---------------------------
(***************************************************************************)
(* The replicas of one stage of a distributed pipeline, and the requests   *)
(* dispatched to them.  A replica process reports to the coordinator; the  *)
(* coordinator marks the silent ones and broadcasts the list of those that *)
(* are up; the hub of the head keeps the last list received.  On the head  *)
(* a watcher compares the list with the one of its last round and has the  *)
(* clients of the addresses that went away detached; a registration        *)
(* attaches a client.  A request goes to a replica that is listed and has  *)
(* a client.                                                               *)
(*                                                                         *)
(* Threads: the receiver and the periodic loop of the coordinator, the     *)
(* event loop of the orchestrator (its request handler, the watcher, one   *)
(* task for each registration and disappearance) and the main thread of    *)
(* the engine, which preselects a replica.                                 *)
(*                                                                         *)
(* Source: src/vllm_omni/distributed/omni_coordinator/,                    *)
(*         engine/membership_controller.py, engine/stage_pool.py,          *)
(*         engine/orchestrator.py                                          *)
(***************************************************************************)
EXTENDS Naturals, Sequences, FiniteSets

CONSTANTS
    Addrs,        \* input addresses: one for each replica process, never reused
    Initial,      \* those that the head attached while it started
    Requests,
    NoAddr, NoRequest,
    MaxFaults,    \* bound: deaths of replicas and time-outs of live ones
    WatcherLags   \* whether a list may drop an address that no poll has seen

ASSUME MembershipAssumption ==
    /\ IsFiniteSet(Addrs)
    /\ Initial \subseteq Addrs
    /\ NoAddr \notin Addrs /\ NoRequest \notin Requests
    /\ MaxFaults \in Nat
    /\ WatcherLags \in BOOLEAN

VARIABLES
    proc,         \* replica processes: "none", "starting", "live", "closing", "dead"
    faults,       \* deaths and time-outs so far
    status,       \* status of each replica the coordinator knows
    pending,      \* _pending_broadcast
    periodic,     \* where the periodic loop is
    snapshot,     \* the list it is about to publish
    hub,          \* the list last received
    lastUp,       \* the list of the watcher's last round
    disappeared,  \* addresses whose unregister task has not started
    detaching,    \* the address it has invalidated and not yet detached
    lost,         \* affected requests, to be cleaned up and told
    joining,      \* registered addresses whose client is being built
    attached,     \* addresses with a client in the pool
    inbox,        \* messages to the request handler
    serving,      \* the request for which it waits in pick()
    failed,       \* the orchestrator has stopped on an error
    bound,        \* _affinity
    states,       \* request_states
    processor,    \* requests with state in the output processor
    told,         \* requests sent "stage replica disappeared"
    finished,     \* requests sent their output
    client        \* the consumer of each request

replicaVars == <<proc, faults>>
coordinatorVars == <<status, pending, periodic, snapshot>>
watcherVars == <<lastUp, disappeared, detaching, lost, joining, attached>>
handlerVars == <<inbox, serving, failed>>
requestVars == <<bound, states, processor, told, finished, client>>
vars == <<replicaVars, coordinatorVars, hub, watcherVars, handlerVars, requestVars>>

Init ==
    /\ proc = [a \in Addrs |-> IF a \in Initial THEN "starting" ELSE "none"]
    /\ faults = 0
    /\ status = [a \in Addrs |-> "absent"]
    /\ pending = FALSE /\ periodic = "idle" /\ snapshot = {}
    /\ hub = {}
    /\ lastUp = {} /\ disappeared = {} /\ detaching = NoAddr /\ lost = {}
    /\ joining = {} /\ attached = Initial
    /\ inbox = <<>> /\ serving = NoRequest /\ failed = FALSE
    /\ bound = [r \in Requests |-> NoAddr]
    /\ states = {} /\ processor = {} /\ told = {} /\ finished = {}
    /\ client = [r \in Requests |-> "new"]

----------------------------------------------------------------------------
(* Replica processes and _handle_event, on the receiving thread.  A report *)
(* that is late is one sent later; one after the death of the process only *)
(* close() leaves behind.                                                  *)

(* A launcher registers a new replica with the head.                       *)
Register(a) ==
    /\ proc[a] = "none"
    /\ proc' = [proc EXCEPT ![a] = "starting"]
    /\ inbox' = Append(inbox, [type |-> "register", of |-> a])
    /\ UNCHANGED <<faults, coordinatorVars, hub, watcherVars, serving, failed, requestVars>>

(* A report other than a heartbeat sets the status, of an unknown replica  *)
(* as well.                                                                *)
Update(a, new) ==
    /\ status' = [status EXCEPT ![a] = new]
    /\ pending' = TRUE
    /\ UNCHANGED <<faults, periodic, snapshot, hub, watcherVars, handlerVars, requestVars>>

ReportUp(a) ==
    /\ proc[a] = "starting"
    /\ proc' = [proc EXCEPT ![a] = "live"]
    /\ Update(a, "UP")

(* A heartbeat promotes a silent replica; of an unknown one it is ignored. *)
Heartbeat(a) ==
    /\ proc[a] = "live"
    /\ status[a] = "ERROR"
    /\ status' = [status EXCEPT ![a] = "UP"]
    /\ pending' = TRUE
    /\ UNCHANGED <<replicaVars, periodic, snapshot, hub, watcherVars, handlerVars, requestVars>>

(* close() sends a last report, which may be lost as the socket is closed  *)
(* without lingering.                                                      *)
Close(a) ==
    /\ proc[a] = "live"
    /\ faults < MaxFaults
    /\ proc' = [proc EXCEPT ![a] = "closing"]
    /\ faults' = faults + 1
    /\ UNCHANGED <<coordinatorVars, hub, watcherVars, handlerVars, requestVars>>

ReportDown(a) ==
    /\ proc[a] = "closing"
    /\ proc' = [proc EXCEPT ![a] = "dead"]
    /\ Update(a, "DOWN")

(* The process dies, or its last report is lost.                           *)
Crash(a) ==
    /\ \/ proc[a] \in {"starting", "live"} /\ faults < MaxFaults /\ faults' = faults + 1
       \/ proc[a] = "closing" /\ UNCHANGED faults
    /\ proc' = [proc EXCEPT ![a] = "dead"]
    /\ UNCHANGED <<coordinatorVars, hub, watcherVars, handlerVars, requestVars>>

----------------------------------------------------------------------------
(* The periodic loop of the coordinator.  On a tick it marks the silent    *)
(* replicas, forgets those marked long ago and asks for a broadcast.       *)

Active(s) == {a \in Addrs : s[a] = "UP"}

Marked == {a \in Addrs : status[a] \in {"ERROR", "DOWN"}}

Dead == {a \in Addrs : proc[a] = "dead"}

(* Wrong: no keepalive broadcast.                                          *)
TickQuietly(silent) ==
    /\ periodic = "idle"
    /\ silent \subseteq Active(status)
    /\ faults' = faults + Cardinality(silent \ Dead)
    /\ faults' <= MaxFaults
    /\ status' = [a \in Addrs |-> IF a \in silent THEN "ERROR" ELSE status[a]]
    /\ pending' = (pending \/ silent # {})
    /\ UNCHANGED <<proc, periodic, snapshot, hub, watcherVars, handlerVars, requestVars>>

Tick(silent) ==
    /\ periodic = "idle"
    /\ silent \subseteq Active(status)
    /\ faults' = faults + Cardinality(silent \ Dead)
    /\ faults' <= MaxFaults
    /\ \E old \in SUBSET Marked :
        status' = [a \in Addrs |-> IF a \in silent THEN "ERROR"
                                   ELSE IF a \in old THEN "absent" ELSE status[a]]
    /\ pending' = TRUE
    /\ periodic' = "send"
    /\ snapshot' = Active(status')
    /\ UNCHANGED <<proc, hub, watcherVars, handlerVars, requestVars>>

Flush ==
    /\ periodic = "idle"
    /\ pending
    /\ periodic' = "send"
    /\ snapshot' = Active(status)
    /\ UNCHANGED <<replicaVars, status, pending, hub, watcherVars, handlerVars, requestVars>>

(* The subscriber gets the list.  Unless the watcher lags, it has polled   *)
(* since an address that the list drops was listed.                        *)
Deliver ==
    /\ periodic = "send"
    /\ WatcherLags \/ failed \/ hub \ snapshot \subseteq lastUp
    /\ hub' = snapshot
    /\ periodic' = "clear" /\ snapshot' = {}
    /\ UNCHANGED <<replicaVars, status, pending, watcherVars, handlerVars, requestVars>>

(* The publication counts as sent and the subscriber does not get it.      *)
LoseList ==
    /\ periodic = "send"
    /\ periodic' = "clear" /\ snapshot' = {}
    /\ UNCHANGED <<replicaVars, status, pending, hub, watcherVars, handlerVars, requestVars>>

SendFails ==
    /\ periodic = "send"
    /\ periodic' = "idle" /\ snapshot' = {}
    /\ UNCHANGED <<replicaVars, status, pending, hub, watcherVars, handlerVars, requestVars>>

ClearPending ==
    /\ periodic = "clear"
    /\ pending' = FALSE
    /\ periodic' = "idle"
    /\ UNCHANGED <<replicaVars, status, snapshot, hub, watcherVars, handlerVars, requestVars>>

----------------------------------------------------------------------------
(* The membership controller, on the event loop.  Between the two halves   *)
(* of Unregister only another thread runs.                                 *)

LoopFree == ~failed /\ detaching = NoAddr

WatchReplicaList ==
    /\ LoopFree
    /\ lastUp # hub
    /\ disappeared' = disappeared \cup (lastUp \ hub)
    /\ lastUp' = hub
    /\ UNCHANGED <<replicaVars, coordinatorVars, hub, detaching, lost, joining, attached,
                   handlerVars, requestVars>>

BoundTo(a) == {r \in Requests : bound[r] = a}

(* Wrong: the affected requests are collected after they lost the binding.  *)
UnregisterUntold(a) ==
    /\ LoopFree
    /\ a \in disappeared
    /\ disappeared' = disappeared \ {a}
    /\ detaching' = a
    /\ bound' = [r \in Requests |-> IF bound[r] = a THEN NoAddr ELSE bound[r]]
    /\ UNCHANGED <<replicaVars, coordinatorVars, hub, lastUp, lost, joining, attached, handlerVars,
                   states, processor, told, finished, client>>

(* invalidate_addr: the requests bound to the address lose their binding.  *)
Unregister(a) ==
    /\ LoopFree
    /\ a \in disappeared
    /\ disappeared' = disappeared \ {a}
    /\ detaching' = a
    /\ lost' = lost \cup BoundTo(a)
    /\ bound' = [r \in Requests |-> IF bound[r] = a THEN NoAddr ELSE bound[r]]
    /\ UNCHANGED <<replicaVars, coordinatorVars, hub, lastUp, joining, attached, handlerVars,
                   states, processor, told, finished, client>>

(* remove_client; the client is shut down.                                 *)
Detach ==
    /\ ~failed
    /\ detaching # NoAddr
    /\ attached' = attached \ {detaching}
    /\ detaching' = NoAddr
    /\ UNCHANGED <<replicaVars, coordinatorVars, hub, lastUp, disappeared, lost, joining,
                   handlerVars, requestVars>>

(* The output processor forgets an aborted request whose binding still     *)
(* leads to a client.                                                      *)
Aborted(r) == IF bound[r] \in attached THEN processor \ {r} ELSE processor

(* An affected request is cleaned up and its consumer sent an error.       *)
Tell(r) ==
    /\ LoopFree
    /\ r \in lost
    /\ lost' = lost \ {r}
    /\ processor' = Aborted(r)
    /\ bound' = [bound EXCEPT ![r] = NoAddr]
    /\ states' = states \ {r}
    /\ told' = told \cup {r}
    /\ UNCHANGED <<replicaVars, coordinatorVars, hub, lastUp, disappeared, detaching, joining,
                   attached, handlerVars, finished, client>>

(* Wrong: the finished task is not discarded.                              *)
AddClientAgain(a) ==
    /\ LoopFree
    /\ a \in joining
    /\ attached' = attached \cup {a}
    /\ UNCHANGED <<replicaVars, coordinatorVars, hub, lastUp, disappeared, detaching, lost, joining,
                   handlerVars, requestVars>>

(* _do_register: the client has been built in a thread.                    *)
AddClient(a) ==
    /\ LoopFree
    /\ a \in joining
    /\ joining' = joining \ {a}
    /\ attached' = attached \cup {a}
    /\ UNCHANGED <<replicaVars, coordinatorVars, hub, lastUp, disappeared, detaching, lost,
                   handlerVars, requestVars>>

----------------------------------------------------------------------------
(* Requests.  The main thread preselects a replica, or finds none, and     *)
(* later sends the request to the handler.                                 *)

(* Wrong: a listed replica counts even without a client.                   *)
ListedReplicas == hub

Serviceable == hub \cap attached

Preselect(r) ==
    /\ client[r] = "new"
    /\ client' = [client EXCEPT ![r] = "preparing"]
    /\ \E a \in IF Serviceable = {} THEN {NoAddr} ELSE Serviceable :
        bound' = [bound EXCEPT ![r] = a]
    /\ UNCHANGED <<replicaVars, coordinatorVars, hub, watcherVars, handlerVars,
                   states, processor, told, finished>>

Send(r) ==
    /\ client[r] = "preparing"
    /\ client' = [client EXCEPT ![r] = "waiting"]
    /\ inbox' = Append(inbox, [type |-> "add_request", of |-> r])
    /\ UNCHANGED <<replicaVars, coordinatorVars, hub, watcherVars, serving, failed,
                   bound, states, processor, told, finished>>

(* The consumer takes its output; on an error, or when it is cancelled, it *)
(* aborts.                                                                 *)
Receive(r) ==
    /\ client[r] = "waiting"
    /\ r \in finished
    /\ client' = [client EXCEPT ![r] = "done"]
    /\ UNCHANGED <<replicaVars, coordinatorVars, hub, watcherVars, handlerVars,
                   bound, states, processor, told, finished>>

GiveUp(r) ==
    /\ client[r] = "waiting"
    /\ client' = [client EXCEPT ![r] = "done"]
    /\ inbox' = Append(inbox, [type |-> "abort", of |-> r])
    /\ UNCHANGED <<replicaVars, coordinatorVars, hub, watcherVars, serving, failed,
                   bound, states, processor, told, finished>>

(* The request handler takes one message at a time.                        *)
Takes(type) ==
    /\ LoopFree
    /\ serving = NoRequest
    /\ inbox # <<>> /\ Head(inbox).type = type
    /\ inbox' = Tail(inbox)

HandleRegister ==
    /\ Takes("register")
    /\ joining' = joining \cup {Head(inbox).of}
    /\ UNCHANGED <<replicaVars, coordinatorVars, hub, lastUp, disappeared, detaching, lost,
                   attached, serving, failed, requestVars>>

(* Wrong: the binding is released before the abort.                        *)
ReleaseThenAbort ==
    /\ Takes("abort")
    /\ bound' = [bound EXCEPT ![Head(inbox).of] = NoAddr]
    /\ states' = states \ {Head(inbox).of}
    /\ UNCHANGED <<replicaVars, coordinatorVars, hub, watcherVars, serving, failed,
                   processor, told, finished, client>>

HandleAbort ==
    /\ Takes("abort")
    /\ LET r == Head(inbox).of
       IN /\ processor' = Aborted(r)
          /\ bound' = [bound EXCEPT ![r] = NoAddr]
          /\ states' = states \ {r}
    /\ UNCHANGED <<replicaVars, coordinatorVars, hub, watcherVars, serving, failed,
                   told, finished, client>>

(* pick(): the replica it is bound to, if that is still serviceable, or    *)
(* any that is.  Then the request is submitted to the replica's client.    *)
Choices(r) == IF bound[r] \in Serviceable THEN {bound[r]} ELSE Serviceable

Submit(r, a) ==
    /\ bound' = [bound EXCEPT ![r] = a]
    /\ processor' = processor \cup {r}

HandleAddRequest ==
    /\ Takes("add_request")
    /\ LET r == Head(inbox).of
       IN /\ states' = states \cup {r}
          /\ IF Serviceable = {}
             THEN /\ serving' = r
                  /\ bound' = [bound EXCEPT ![r] = NoAddr]
                  /\ UNCHANGED processor
             ELSE /\ \E a \in Choices(r) : Submit(r, a)
                  /\ UNCHANGED serving
    /\ UNCHANGED <<replicaVars, coordinatorVars, hub, watcherVars, failed, told, finished, client>>

(* The wait in pick() ends with a serviceable replica or with an error,    *)
(* which nothing above it catches.                                         *)
RetryPick ==
    /\ LoopFree
    /\ serving # NoRequest
    /\ \E a \in Serviceable : Submit(serving, a)
    /\ serving' = NoRequest
    /\ UNCHANGED <<replicaVars, coordinatorVars, hub, watcherVars, inbox, failed,
                   states, told, finished, client>>

PickTimesOut ==
    /\ LoopFree
    /\ serving # NoRequest
    /\ Serviceable = {}
    /\ failed' = TRUE
    /\ UNCHANGED <<replicaVars, coordinatorVars, hub, watcherVars, inbox, serving, requestVars>>

(* The replica's last output of a request is polled and routed.            *)
Finish(r) ==
    /\ LoopFree
    /\ r \in states /\ r \in processor
    /\ bound[r] \in attached /\ proc[bound[r]] = "live"
    /\ processor' = processor \ {r}
    /\ bound' = [bound EXCEPT ![r] = NoAddr]
    /\ states' = states \ {r}
    /\ finished' = finished \cup {r}
    /\ UNCHANGED <<replicaVars, coordinatorVars, hub, watcherVars, handlerVars, told, client>>

----------------------------------------------------------------------------
Next ==
    \/ \E a \in Addrs : \/ Register(a) \/ ReportUp(a) \/ Heartbeat(a) \/ Close(a)
                        \/ ReportDown(a) \/ Crash(a) \/ Unregister(a) \/ AddClient(a)
    \/ \E silent \in SUBSET Addrs : Tick(silent)
    \/ Flush \/ Deliver \/ LoseList \/ SendFails \/ ClearPending
    \/ WatchReplicaList \/ Detach
    \/ \E r \in Requests : \/ Preselect(r) \/ Send(r) \/ Receive(r) \/ GiveUp(r)
                           \/ Tell(r) \/ Finish(r)
    \/ HandleRegister \/ HandleAbort \/ HandleAddRequest \/ RetryPick \/ PickTimesOut

(* Every thread and task goes on.  A live replica sends heartbeats, the    *)
(* tick comes round and finds the dead ones silent, and not every          *)
(* publication is lost.                                                    *)
Fairness ==
    /\ \A a \in Addrs : /\ WF_vars(ReportUp(a)) /\ WF_vars(Heartbeat(a))
                        /\ WF_vars(Unregister(a)) /\ WF_vars(AddClient(a))
    /\ SF_vars(Tick(Active(status) \cap Dead)) /\ SF_vars(Deliver) /\ WF_vars(ClearPending)
    /\ WF_vars(WatchReplicaList) /\ WF_vars(Detach)
    /\ \A r \in Requests : /\ WF_vars(Send(r)) /\ WF_vars(Tell(r))
                           /\ WF_vars(r \in told /\ GiveUp(r))
    /\ WF_vars(HandleRegister) /\ WF_vars(HandleAbort) /\ WF_vars(HandleAddRequest)
    /\ WF_vars(RetryPick \/ PickTimesOut)

Spec == Init /\ [][Next]_vars /\ Fairness

----------------------------------------------------------------------------
(* Properties.                                                             *)

Messages == [type : {"register"}, of : Addrs]
                \cup [type : {"add_request", "abort"}, of : Requests]

TypeOK ==
    /\ proc \in [Addrs -> {"none", "starting", "live", "closing", "dead"}]
    /\ faults \in 0..MaxFaults
    /\ status \in [Addrs -> {"absent", "UP", "ERROR", "DOWN"}]
    /\ pending \in BOOLEAN /\ failed \in BOOLEAN
    /\ periodic \in {"idle", "send", "clear"}
    /\ snapshot \cup hub \cup lastUp \cup disappeared \subseteq Addrs
    /\ joining \cup attached \subseteq Addrs
    /\ detaching \in Addrs \cup {NoAddr}
    /\ joining \cap attached = {}
    /\ inbox \in Seq(Messages)
    /\ serving \in Requests \cup {NoRequest}
    /\ bound \in [Requests -> Addrs \cup {NoAddr}]
    /\ lost \cup states \cup processor \cup told \cup finished \subseteq Requests
    /\ client \in [Requests -> {"new", "preparing", "waiting", "done"}]

(* An admitted request that is not waiting for a replica is bound to one   *)
(* that has a client, or is about to be told that its replica went away:   *)
(* no detachment slips past the requests of the replica, whatever the main *)
(* thread preselects meanwhile.                                            *)
ActiveHasClient ==
    \A r \in states \ (lost \cup {serving}) : bound[r] \in attached

(* The output processor keeps the state of requests that are over only if  *)
(* their replica disappeared under them.                                   *)
ProcessorLeftovers == processor \subseteq states \cup lost \cup told

(* The consumer of a request whose replica has died gets an answer, unless *)
(* the orchestrator stops.                                                 *)
GoneIsAnswered ==
    \A r \in Requests :
        r \in states /\ bound[r] \in attached /\ proc[bound[r]] = "dead"
            ~> client[r] = "done" \/ failed

(* The list of the hub catches up with the coordinator, although lists are *)
(* lost and the broadcast flag is cleared after the send.                  *)
HubCatchesUp ==
    \A a \in Addrs :
        (a \in hub) # (status[a] = "UP") ~> (a \in hub) = (status[a] = "UP")

(* A live replica that the hub lists gets a client, so that it serves.     *)
ListedIsAttached ==
    \A a \in Addrs :
        a \in hub /\ proc[a] = "live"
            ~> a \in attached \/ a \notin hub \/ proc[a] # "live" \/ failed
=============================================================================
