------------------------ MODULE ReplicaMembershipProofs ------------------------
(***************************************************************************)
(* Theorems about ReplicaMembership, for any replicas and requests.        *)
(***************************************************************************)
EXTENDS ReplicaMembership, TLAPS, SequenceTheorems, FiniteSetTheorems

Posted(r) == client[r] \in {"waiting", "done"}

(* A message is of a request that was sent, or of a replica that was       *)
(* registered once and has no client yet.                                  *)
InboxOK ==
    \A i \in 1..Len(inbox) :
        /\ inbox[i].type # "register" => Posted(inbox[i].of)
        /\ inbox[i].type = "register" =>
              /\ proc[inbox[i].of] # "none"
              /\ inbox[i].of \notin joining \cup attached
              /\ \A j \in 1..Len(inbox) :
                    inbox[j].type = "register" /\ inbox[j].of = inbox[i].of => i = j

(* A client is built for a registered replica only.                        *)
RegisteredOK == \A a \in joining \cup attached : proc[a] # "none"

(* A request is not admitted before it was sent.                           *)
AdmittedOK == \A r \in states : Posted(r)

(* The request that waits in pick() has no binding, and keeps its state    *)
(* until it is told that its replica went away.                            *)
ServingOK ==
    serving # NoRequest =>
        Posted(serving) /\ bound[serving] = NoAddr /\ serving \in states \cup told

(* While a replica is being detached no admitted request is bound to it.   *)
DetachingOK ==
    detaching # NoAddr =>
        \A r \in states \ (lost \cup {serving}) : bound[r] # detaching

IInv ==
    /\ TypeOK /\ InboxOK /\ RegisteredOK
    /\ AdmittedOK /\ ServingOK /\ DetachingOK
    /\ ActiveHasClient /\ ProcessorLeftovers

-----------------------------------------------------------------------------
(* The queue of the request handler.                                       *)

(* A message is of a replica if it registers one, else of a request.       *)
LEMMA MessageOf ==
  ASSUME NEW m \in Messages
  PROVE  /\ m.type \in {"register", "add_request", "abort"}
         /\ m.type = "register" => m.of \in Addrs
         /\ m.type # "register" => m.of \in Requests
  BY DEF Messages

(* An appended message comes last and leaves the others in their places.   *)
LEMMA Sent ==
  ASSUME TypeOK, NEW m \in Messages, inbox' = Append(inbox, m)
  PROVE  /\ inbox' \in Seq(Messages)
         /\ Len(inbox) \in Nat /\ Len(inbox') = Len(inbox) + 1
         /\ \A i \in 1..Len(inbox) : inbox'[i] = inbox[i]
         /\ inbox'[Len(inbox) + 1] = m
  BY AppendProperties, LenProperties DEF TypeOK

(* Taking the head moves every other message one place forward.            *)
LEMMA Taken ==
  ASSUME TypeOK, inbox # <<>>, inbox' = Tail(inbox)
  PROVE  /\ inbox' \in Seq(Messages)
         /\ Head(inbox) \in Messages /\ Head(inbox) = inbox[1]
         /\ Len(inbox) \in Nat \ {0} /\ Len(inbox') = Len(inbox) - 1
         /\ \A i \in 1..Len(inbox') : inbox'[i] = inbox[i + 1]
  <1>1. inbox \in Seq(Messages)
    BY DEF TypeOK
  <1>2. Len(inbox) \in Nat \ {0}
    BY <1>1, EmptySeq
  <1>3. Head(inbox) = inbox[1]
    BY <1>1, <1>2
  <1> QED
    BY <1>1, <1>2, <1>3, HeadTailProperties

(* What remains in the queue stays in order when the head is taken, if     *)
(* nothing joins but the replica that the head registers.                  *)
LEMMA TakenOK ==
  ASSUME TypeOK, InboxOK, inbox # <<>>, inbox' = Tail(inbox),
         proc' = proc, client' = client, attached' = attached,
         joining' = IF Head(inbox).type = "register"
                      THEN joining \cup {Head(inbox).of} ELSE joining
  PROVE  InboxOK'
  <1>1. /\ Head(inbox) = inbox[1]
        /\ Len(inbox) \in Nat \ {0} /\ Len(inbox') = Len(inbox) - 1
        /\ \A i \in 1..Len(inbox') : inbox'[i] = inbox[i + 1]
    BY Taken
  <1>2. \A i \in 1..Len(inbox') : i + 1 \in 1..Len(inbox) /\ i + 1 # 1
    BY <1>1
  <1>3. 1 \in 1..Len(inbox)
    BY <1>1
  <1>4. ASSUME NEW i \in 1..Len(inbox')
        PROVE  inbox'[i].type # "register" => client'[inbox'[i].of] \in {"waiting", "done"}
    BY <1>1, <1>2, <1>4 DEF InboxOK, Posted
  <1>5. ASSUME NEW i \in 1..Len(inbox'), inbox'[i].type = "register"
        PROVE  /\ proc'[inbox'[i].of] # "none"
               /\ inbox'[i].of \notin joining' \cup attached'
               /\ \A j \in 1..Len(inbox') :
                     inbox'[j].type = "register" /\ inbox'[j].of = inbox'[i].of => i = j
    <2>1. /\ inbox'[i] = inbox[i + 1] /\ i + 1 \in 1..Len(inbox) /\ i + 1 # 1
      BY <1>1, <1>2
    <2>2. inbox[1].type = "register" => inbox[1].of # inbox[i + 1].of
      BY <1>3, <1>5, <2>1 DEF InboxOK
    <2>3. inbox'[i].of \notin joining' \cup attached'
      BY <1>1, <1>5, <2>1, <2>2 DEF InboxOK
    <2>4. ASSUME NEW j \in 1..Len(inbox'), inbox'[j].type = "register",
                 inbox'[j].of = inbox'[i].of
          PROVE  i = j
      <3>1. inbox'[j] = inbox[j + 1] /\ j + 1 \in 1..Len(inbox)
        BY <1>1, <1>2
      <3>2. i + 1 = j + 1
        BY <1>5, <2>1, <2>4, <3>1 DEF InboxOK
      <3> QED
        BY <3>2
    <2> QED
      BY <1>5, <2>1, <2>3, <2>4 DEF InboxOK
  <1> QED
    BY <1>4, <1>5 DEF InboxOK, Posted

(* A message that names no replica is added for a request that was sent.   *)
LEMMA SentOK ==
  ASSUME TypeOK, InboxOK, NEW r \in Requests, NEW m \in Messages,
         inbox' = Append(inbox, m), m.type # "register", m.of = r,
         \A q \in Requests : q = r \/ Posted(q) => Posted(q)',
         proc' = proc, attached' = attached, joining' = joining
  PROVE  InboxOK'
  <1>1. /\ Len(inbox) \in Nat /\ Len(inbox') = Len(inbox) + 1
        /\ \A i \in 1..Len(inbox) : inbox'[i] = inbox[i]
        /\ inbox'[Len(inbox) + 1] = m
    BY Sent
  <1>2. \A i \in 1..Len(inbox') : i \in 1..Len(inbox) \/ inbox'[i] = m
    BY <1>1
  <1>3. ASSUME NEW i \in 1..Len(inbox'), inbox'[i].type # "register"
        PROVE  client'[inbox'[i].of] \in {"waiting", "done"}
    <2>1. CASE inbox'[i] = m
      BY <2>1 DEF Posted
    <2>2. CASE i \in 1..Len(inbox)
      <3>1. inbox'[i] = inbox[i] /\ inbox[i] \in Messages
        BY <1>1, <2>2 DEF TypeOK
      <3>2. Posted(inbox[i].of) /\ inbox[i].of \in Requests
        BY <1>3, <2>2, <3>1, MessageOf DEF InboxOK
      <3> QED
        BY <3>1, <3>2 DEF Posted
    <2> QED
      BY <1>2, <2>1, <2>2
  <1>4. ASSUME NEW i \in 1..Len(inbox'), inbox'[i].type = "register"
        PROVE  /\ proc'[inbox'[i].of] # "none"
               /\ inbox'[i].of \notin joining' \cup attached'
               /\ \A j \in 1..Len(inbox') :
                     inbox'[j].type = "register" /\ inbox'[j].of = inbox'[i].of => i = j
    BY <1>1, <1>2, <1>4 DEF InboxOK
  <1> QED
    BY <1>3, <1>4 DEF InboxOK, Posted

-----------------------------------------------------------------------------
(* Steps that leave the pool, the queue and the requests alone.            *)

(* The invariant is about a part of the state only; a replica process that *)
(* has been started never goes back to being none.                         *)
LEMMA Frame ==
  ASSUME IInv, TypeOK',
         \A a \in Addrs : proc[a] # "none" => proc'[a] # "none",
         UNCHANGED <<inbox, joining, attached, client, states, serving, bound,
                     told, detaching, lost, processor>>
  PROVE  IInv'
  <1>1. InboxOK'
    <2>1. ASSUME NEW i \in 1..Len(inbox), inbox[i].type = "register"
          PROVE  proc'[inbox[i].of] # "none"
      <3>1. inbox[i] \in Messages
        BY DEF IInv, TypeOK
      <3>2. inbox[i].of \in Addrs
        BY <2>1, <3>1, MessageOf
      <3> QED
        BY <2>1, <3>2 DEF IInv, InboxOK
    <2> QED
      BY <2>1 DEF IInv, InboxOK, Posted
  <1>2. RegisteredOK'
    BY DEF IInv, RegisteredOK, TypeOK
  <1>3. AdmittedOK' /\ ServingOK' /\ DetachingOK' /\ ActiveHasClient' /\ ProcessorLeftovers'
    BY DEF IInv, AdmittedOK, ServingOK, DetachingOK, ActiveHasClient, ProcessorLeftovers, Posted
  <1> QED
    BY <1>1, <1>2, <1>3 DEF IInv

(* The steps of a replica process, but its registration.                   *)
LEMMA ReplicaSteps ==
  ASSUME IInv, NEW a \in Addrs,
         ReportUp(a) \/ Heartbeat(a) \/ Close(a) \/ ReportDown(a) \/ Crash(a)
  PROVE  IInv'
  <1> USE MembershipAssumption DEF IInv
  <1>1. CASE ReportUp(a)
    BY <1>1, Frame DEF ReportUp, Update, TypeOK, watcherVars, handlerVars, requestVars
  <1>2. CASE Heartbeat(a)
    BY <1>2, Frame DEF Heartbeat, TypeOK, replicaVars, watcherVars, handlerVars, requestVars
  <1>3. CASE Close(a)
    BY <1>3, Frame DEF Close, TypeOK, coordinatorVars, watcherVars, handlerVars, requestVars
  <1>4. CASE ReportDown(a)
    BY <1>4, Frame DEF ReportDown, Update, TypeOK, watcherVars, handlerVars, requestVars
  <1>5. CASE Crash(a)
    BY <1>5, Frame DEF Crash, TypeOK, coordinatorVars, watcherVars, handlerVars, requestVars
  <1> QED
    BY <1>1, <1>2, <1>3, <1>4, <1>5

(* The steps of the coordinator's periodic loop, and the subscriber's.     *)
LEMMA CoordinatorSteps ==
  ASSUME IInv,
         \/ \E silent \in SUBSET Addrs : Tick(silent)
         \/ Flush \/ Deliver \/ LoseList \/ SendFails \/ ClearPending
  PROVE  IInv'
  <1> USE DEF IInv
  <1>1. ASSUME NEW silent \in SUBSET Addrs, Tick(silent)
        PROVE  IInv'
    <2>1. Cardinality(silent \ Dead) \in Nat
      BY MembershipAssumption, FS_Subset, FS_CardinalityType
    <2>2. faults' \in 0..MaxFaults
      BY <1>1, <2>1, MembershipAssumption DEF Tick, TypeOK
    <2>3. status' \in [Addrs -> {"absent", "UP", "ERROR", "DOWN"}]
      BY <1>1 DEF Tick, TypeOK
    <2>4. snapshot' \subseteq Addrs
      BY <1>1 DEF Tick, Active
    <2>5. TypeOK'
      BY <1>1, <2>2, <2>3, <2>4 DEF Tick, TypeOK, watcherVars, handlerVars, requestVars
    <2> QED
      BY <1>1, <2>5, Frame DEF Tick, watcherVars, handlerVars, requestVars
  <1>2. CASE Flush
    BY <1>2, Frame DEF Flush, Active, TypeOK, replicaVars, watcherVars, handlerVars, requestVars
  <1>3. CASE Deliver
    BY <1>3, Frame DEF Deliver, TypeOK, replicaVars, watcherVars, handlerVars, requestVars
  <1>4. CASE LoseList
    BY <1>4, Frame DEF LoseList, TypeOK, replicaVars, watcherVars, handlerVars, requestVars
  <1>5. CASE SendFails
    BY <1>5, Frame DEF SendFails, TypeOK, replicaVars, watcherVars, handlerVars, requestVars
  <1>6. CASE ClearPending
    BY <1>6, Frame DEF ClearPending, TypeOK, replicaVars, watcherVars, handlerVars, requestVars
  <1> QED
    BY <1>1, <1>2, <1>3, <1>4, <1>5, <1>6

(* A round of the watcher, and the end of a wait in pick() with an error.  *)
LEMMA RoundSteps ==
  ASSUME IInv, WatchReplicaList \/ PickTimesOut
  PROVE  IInv'
  <1> USE DEF IInv
  <1>1. CASE WatchReplicaList
    BY <1>1, Frame DEF WatchReplicaList, TypeOK, replicaVars, coordinatorVars, handlerVars, requestVars
  <1>2. CASE PickTimesOut
    BY <1>2, Frame DEF PickTimesOut, TypeOK, replicaVars, coordinatorVars, watcherVars, requestVars
  <1> QED
    BY <1>1, <1>2

-----------------------------------------------------------------------------
(* The pool: registrations and detachments.                                *)

(* The replica has never been registered: no message and no client of it   *)
(* is around.                                                              *)
LEMMA RegisterStep ==
  ASSUME IInv, NEW a \in Addrs, Register(a)
  PROVE  IInv'
  <1> DEFINE m == [type |-> "register", of |-> a]
  <1> USE DEF IInv
  <1>1. /\ proc[a] = "none" /\ a \notin joining \cup attached
        /\ proc' = [proc EXCEPT ![a] = "starting"]
        /\ inbox' = Append(inbox, m)
        /\ UNCHANGED <<faults, coordinatorVars, hub, watcherVars, serving, failed, requestVars>>
    BY DEF Register, RegisteredOK
  <1>2. m \in Messages /\ m.type = "register" /\ m.of = a
    BY DEF Messages
  <1>3. /\ inbox' \in Seq(Messages)
        /\ Len(inbox) \in Nat /\ Len(inbox') = Len(inbox) + 1
        /\ \A i \in 1..Len(inbox) : inbox'[i] = inbox[i]
        /\ inbox'[Len(inbox) + 1] = m
    <2> HIDE DEF m, IInv
    <2> QED
      BY <1>1, <1>2, Sent DEF IInv
  <1> HIDE DEF m
  <1>4. /\ proc' \in [Addrs -> {"none", "starting", "live", "closing", "dead"}]
        /\ \A b \in Addrs : proc[b] # "none" => proc'[b] # "none"
        /\ proc'[a] # "none"
    BY <1>1 DEF TypeOK
  <1>5. TypeOK'
    BY <1>1, <1>3, <1>4 DEF TypeOK, coordinatorVars, watcherVars, requestVars
  <1>6. \A i \in 1..Len(inbox) : inbox[i] \in Messages
    BY <1>3 DEF TypeOK
  <1>7. \A i \in 1..Len(inbox) : inbox[i].type = "register" => inbox[i].of \in Addrs /\ inbox[i].of # a
    BY <1>1, <1>6, MessageOf DEF InboxOK
  <1>8. \A i \in 1..Len(inbox') : i \in 1..Len(inbox) \/ i = Len(inbox) + 1
    BY <1>3
  <1>9. ASSUME NEW i \in 1..Len(inbox')
        PROVE  inbox'[i].type # "register" => client'[inbox'[i].of] \in {"waiting", "done"}
    BY <1>1, <1>2, <1>3, <1>8 DEF InboxOK, Posted, requestVars
  <1>10. ASSUME NEW i \in 1..Len(inbox'), inbox'[i].type = "register"
         PROVE  /\ proc'[inbox'[i].of] # "none"
                /\ inbox'[i].of \notin joining' \cup attached'
                /\ \A j \in 1..Len(inbox') :
                      inbox'[j].type = "register" /\ inbox'[j].of = inbox'[i].of => i = j
    <2>1. joining' = joining /\ attached' = attached
      BY <1>1 DEF watcherVars
    <2>2. CASE i \in 1..Len(inbox)
      BY <1>2, <1>3, <1>4, <1>7, <1>8, <1>10, <2>1, <2>2 DEF InboxOK
    <2>3. CASE i = Len(inbox) + 1
      BY <1>1, <1>2, <1>3, <1>4, <1>7, <1>8, <2>1, <2>3
    <2> QED
      BY <1>8, <2>2, <2>3
  <1>11. InboxOK'
    BY <1>9, <1>10 DEF InboxOK, Posted
  <1>12. RegisteredOK'
    BY <1>1, <1>4 DEF RegisteredOK, TypeOK, watcherVars
  <1>13. AdmittedOK' /\ ServingOK' /\ DetachingOK' /\ ActiveHasClient' /\ ProcessorLeftovers'
    BY <1>1 DEF AdmittedOK, ServingOK, DetachingOK, ActiveHasClient, ProcessorLeftovers,
                Posted, watcherVars, requestVars
  <1> QED
    BY <1>5, <1>11, <1>12, <1>13

(* The handler starts to build the client of a registered replica.         *)
LEMMA HandleRegisterStep ==
  ASSUME IInv, HandleRegister
  PROVE  IInv'
  <1> USE DEF IInv
  <1>1. /\ inbox # <<>> /\ inbox' = Tail(inbox) /\ Head(inbox).type = "register"
        /\ joining' = joining \cup {Head(inbox).of}
        /\ UNCHANGED <<replicaVars, coordinatorVars, hub, lastUp, disappeared, detaching, lost,
                       attached, serving, failed, requestVars>>
    BY DEF HandleRegister, Takes
  <1>2. /\ inbox' \in Seq(Messages)
        /\ Head(inbox) \in Messages /\ Head(inbox) = inbox[1] /\ 1 \in 1..Len(inbox)
    BY <1>1, Taken
  <1>3. /\ Head(inbox).of \in Addrs /\ proc[Head(inbox).of] # "none"
        /\ Head(inbox).of \notin joining \cup attached
    BY <1>1, <1>2, MessageOf DEF InboxOK
  <1>4. TypeOK'
    BY <1>1, <1>2, <1>3 DEF TypeOK, replicaVars, coordinatorVars, requestVars
  <1>5. InboxOK'
    BY <1>1, TakenOK DEF replicaVars, requestVars
  <1>6. RegisteredOK'
    BY <1>1, <1>3 DEF RegisteredOK, replicaVars
  <1>7. AdmittedOK' /\ ServingOK' /\ DetachingOK' /\ ActiveHasClient' /\ ProcessorLeftovers'
    BY <1>1 DEF AdmittedOK, ServingOK, DetachingOK, ActiveHasClient, ProcessorLeftovers,
                Posted, requestVars
  <1> QED
    BY <1>4, <1>5, <1>6, <1>7

(* The client that was built joins the pool.                               *)
LEMMA AddClientStep ==
  ASSUME IInv, NEW a \in Addrs, AddClient(a)
  PROVE  IInv'
  <1> USE DEF IInv
  <1>1. TypeOK'
    BY DEF AddClient, TypeOK, replicaVars, coordinatorVars, handlerVars, requestVars
  <1>2. joining' \cup attached' = joining \cup attached
    BY DEF AddClient
  <1>3. InboxOK'
    <2>1. inbox' = inbox /\ proc' = proc /\ client' = client
      BY DEF AddClient, handlerVars, replicaVars, requestVars
    <2> QED
      BY <1>2, <2>1 DEF InboxOK, Posted
  <1>4. RegisteredOK'
    BY <1>2 DEF AddClient, RegisteredOK, replicaVars
  <1>5. AdmittedOK' /\ ServingOK' /\ DetachingOK' /\ ActiveHasClient' /\ ProcessorLeftovers'
    BY DEF AddClient, AdmittedOK, ServingOK, DetachingOK, ActiveHasClient, ProcessorLeftovers,
           Posted, handlerVars, requestVars
  <1> QED
    BY <1>1, <1>3, <1>4, <1>5

(* Every admitted request bound to the replica becomes an affected one.    *)
LEMMA UnregisterStep ==
  ASSUME IInv, NEW a \in Addrs, Unregister(a)
  PROVE  IInv'
  <1> USE DEF IInv
  <1>1. TypeOK'
    BY DEF Unregister, BoundTo, TypeOK, replicaVars, coordinatorVars, handlerVars
  <1>2. InboxOK' /\ RegisteredOK' /\ AdmittedOK'
    BY DEF Unregister, InboxOK, RegisteredOK, AdmittedOK, Posted, handlerVars, replicaVars
  <1>3. ServingOK'
    BY DEF Unregister, ServingOK, Posted, TypeOK, handlerVars
  <1>4. \A r \in states' \ (lost' \cup {serving'}) :
           r \in states \ (lost \cup {serving}) /\ bound[r] # a /\ bound'[r] = bound[r]
    BY DEF Unregister, BoundTo, TypeOK, handlerVars
  <1>5. DetachingOK' /\ ActiveHasClient'
    BY <1>4 DEF Unregister, DetachingOK, ActiveHasClient, handlerVars
  <1>6. ProcessorLeftovers'
    BY DEF Unregister, ProcessorLeftovers
  <1> QED
    BY <1>1, <1>2, <1>3, <1>5, <1>6

(* The client goes: no admitted request is bound to it.                    *)
LEMMA DetachStep ==
  ASSUME IInv, Detach
  PROVE  IInv'
  <1> USE DEF IInv
  <1>1. TypeOK'
    BY DEF Detach, TypeOK, replicaVars, coordinatorVars, handlerVars, requestVars
  <1>2. InboxOK'
    <2>1. /\ inbox' = inbox /\ proc' = proc /\ client' = client
          /\ joining' = joining /\ attached' \subseteq attached
      BY DEF Detach, handlerVars, replicaVars, requestVars
    <2> QED
      BY <2>1 DEF InboxOK, Posted
  <1>3. RegisteredOK'
    BY DEF Detach, RegisteredOK, replicaVars
  <1>4. AdmittedOK' /\ ServingOK' /\ DetachingOK' /\ ProcessorLeftovers'
    BY MembershipAssumption
       DEF Detach, AdmittedOK, ServingOK, DetachingOK, ProcessorLeftovers, Posted, handlerVars, requestVars
  <1>5. ActiveHasClient'
    BY DEF Detach, DetachingOK, ActiveHasClient, handlerVars, requestVars
  <1> QED
    BY <1>1, <1>2, <1>3, <1>4, <1>5

-----------------------------------------------------------------------------
(* Requests.                                                               *)

(* Nothing but the registration of a replica and the requests is touched:  *)
(* what the invariant says of the replicas and the queue remains.          *)
LEMMA RequestFrame ==
  ASSUME IInv,
         UNCHANGED <<proc, inbox, joining, attached>>,
         \A q \in Requests : Posted(q) => Posted(q)'
  PROVE  InboxOK' /\ RegisteredOK'
  <1>1. ASSUME NEW i \in 1..Len(inbox), inbox[i].type # "register"
        PROVE  client'[inbox[i].of] \in {"waiting", "done"}
    <2>1. inbox[i] \in Messages
      BY DEF IInv, TypeOK
    <2>2. inbox[i].of \in Requests
      BY <1>1, <2>1, MessageOf
    <2> QED
      BY <1>1, <2>2 DEF IInv, InboxOK, Posted
  <1> QED
    BY <1>1 DEF IInv, InboxOK, RegisteredOK, Posted

(* The main thread chooses a replica for a request not yet sent.           *)
LEMMA PreselectStep ==
  ASSUME IInv, NEW r \in Requests, Preselect(r)
  PROVE  IInv'
  <1> USE DEF IInv
  <1>1. /\ client[r] = "new" /\ client' = [client EXCEPT ![r] = "preparing"]
        /\ UNCHANGED <<replicaVars, coordinatorVars, hub, watcherVars, handlerVars,
                       states, processor, told, finished>>
    BY DEF Preselect
  <1>2. PICK a \in Addrs \cup {NoAddr} : bound' = [bound EXCEPT ![r] = a]
    BY DEF Preselect, Serviceable, TypeOK
  <1>3. TypeOK'
    BY <1>1, <1>2 DEF TypeOK, replicaVars, coordinatorVars, watcherVars, handlerVars
  <1>4. r \notin states /\ r # serving
    BY <1>1, MembershipAssumption DEF AdmittedOK, ServingOK, Posted
  <1>5. /\ \A q \in Requests : Posted(q) => Posted(q)'
        /\ \A q \in Requests : q # r => bound'[q] = bound[q]
    BY <1>1, <1>2 DEF TypeOK, Posted
  <1>6. states \subseteq Requests /\ serving \in Requests \cup {NoRequest}
    BY DEF TypeOK
  <1>7. InboxOK' /\ RegisteredOK'
    BY <1>1, <1>5, RequestFrame DEF replicaVars, watcherVars, handlerVars
  <1>8. AdmittedOK' /\ ServingOK'
    BY <1>1, <1>4, <1>5, <1>6 DEF AdmittedOK, ServingOK, handlerVars
  <1>9. DetachingOK' /\ ActiveHasClient' /\ ProcessorLeftovers'
    BY <1>1, <1>4, <1>5, <1>6
       DEF DetachingOK, ActiveHasClient, ProcessorLeftovers, watcherVars, handlerVars
  <1> QED
    BY <1>3, <1>7, <1>8, <1>9

(* A request is sent; later its consumer takes the output, or aborts.      *)
LEMMA ConsumerSteps ==
  ASSUME IInv, NEW r \in Requests, Send(r) \/ Receive(r) \/ GiveUp(r)
  PROVE  IInv'
  <1> USE DEF IInv
  <1>1. /\ UNCHANGED <<replicaVars, coordinatorVars, hub, watcherVars, serving, failed,
                       bound, states, processor, told, finished>>
        /\ client' \in [Requests -> {"new", "preparing", "waiting", "done"}]
        /\ \A q \in Requests : q = r \/ Posted(q) => Posted(q)'
    BY DEF Send, Receive, GiveUp, TypeOK, Posted, handlerVars
  <1>2. inbox' \in Seq(Messages) /\ InboxOK'
    <2>1. ASSUME NEW m \in Messages, m.type # "register", m.of = r, inbox' = Append(inbox, m)
          PROVE  inbox' \in Seq(Messages) /\ InboxOK'
      BY <1>1, <2>1, Sent, SentOK DEF replicaVars, watcherVars
    <2>2. CASE Send(r)
      <3>1. [type |-> "add_request", of |-> r] \in Messages
        BY DEF Messages
      <3> QED
        BY <2>1, <2>2, <3>1 DEF Send
    <2>3. CASE GiveUp(r)
      <3>1. [type |-> "abort", of |-> r] \in Messages
        BY DEF Messages
      <3> QED
        BY <2>1, <2>3, <3>1 DEF GiveUp
    <2>4. CASE Receive(r)
      BY <1>1, <2>4, RequestFrame DEF Receive, TypeOK, replicaVars, watcherVars, handlerVars
    <2> QED
      BY <2>2, <2>3, <2>4
  <1>3. TypeOK'
    BY <1>1, <1>2 DEF TypeOK, replicaVars, coordinatorVars, watcherVars
  <1>4. RegisteredOK'
    BY <1>1 DEF RegisteredOK, replicaVars, watcherVars
  <1>5. AdmittedOK' /\ ServingOK'
    BY <1>1 DEF AdmittedOK, ServingOK, TypeOK
  <1>6. DetachingOK' /\ ActiveHasClient' /\ ProcessorLeftovers'
    BY <1>1 DEF DetachingOK, ActiveHasClient, ProcessorLeftovers, watcherVars
  <1> QED
    BY <1>2, <1>3, <1>4, <1>5, <1>6

(* An affected request is dropped and its consumer told.                   *)
LEMMA TellStep ==
  ASSUME IInv, NEW r \in Requests, Tell(r)
  PROVE  IInv'
  <1> USE DEF IInv
  <1>1. /\ lost' = lost \ {r} /\ states' = states \ {r} /\ told' = told \cup {r}
        /\ processor' \subseteq processor
        /\ bound' = [bound EXCEPT ![r] = NoAddr]
        /\ UNCHANGED <<replicaVars, coordinatorVars, hub, lastUp, disappeared, detaching,
                       joining, attached, handlerVars, finished, client>>
    BY DEF Tell, Aborted
  <1>2. TypeOK'
    BY <1>1 DEF TypeOK, replicaVars, coordinatorVars, handlerVars
  <1>3. \A q \in Requests : q # r => bound'[q] = bound[q]
    BY <1>1 DEF TypeOK
  <1>4. \A q \in Requests : Posted(q) => Posted(q)'
    BY <1>1 DEF Posted
  <1>5. InboxOK' /\ RegisteredOK'
    BY <1>1, <1>4, RequestFrame DEF replicaVars, handlerVars
  <1>6. AdmittedOK' /\ ServingOK'
    BY <1>1, <1>3, <1>4 DEF AdmittedOK, ServingOK, TypeOK, handlerVars
  <1>7. DetachingOK' /\ ActiveHasClient' /\ ProcessorLeftovers'
    BY <1>1, <1>3 DEF DetachingOK, ActiveHasClient, ProcessorLeftovers, TypeOK, handlerVars
  <1> QED
    BY <1>2, <1>5, <1>6, <1>7

(* The request is over: its binding, its state and what the output         *)
(* processor keeps of it go in one step.                                   *)
LEMMA FinishStep ==
  ASSUME IInv, NEW r \in Requests, Finish(r)
  PROVE  IInv'
  <1> USE DEF IInv
  <1>1. /\ states' = states \ {r} /\ processor' = processor \ {r}
        /\ bound' = [bound EXCEPT ![r] = NoAddr]
        /\ finished' = finished \cup {r}
        /\ UNCHANGED <<replicaVars, coordinatorVars, hub, watcherVars, handlerVars, told, client>>
    BY DEF Finish
  <1>2. r # serving
    BY MembershipAssumption DEF Finish, ServingOK, TypeOK
  <1>3. TypeOK'
    BY <1>1 DEF TypeOK, replicaVars, coordinatorVars, watcherVars, handlerVars
  <1>4. \A q \in Requests : q # r => bound'[q] = bound[q]
    BY <1>1 DEF TypeOK
  <1>5. \A q \in Requests : Posted(q) => Posted(q)'
    BY <1>1 DEF Posted
  <1>6. InboxOK' /\ RegisteredOK'
    BY <1>1, <1>5, RequestFrame DEF replicaVars, watcherVars, handlerVars
  <1>7. AdmittedOK' /\ ServingOK'
    BY <1>1, <1>2, <1>4, <1>5 DEF AdmittedOK, ServingOK, TypeOK, handlerVars
  <1>8. DetachingOK' /\ ActiveHasClient' /\ ProcessorLeftovers'
    BY <1>1, <1>4
       DEF DetachingOK, ActiveHasClient, ProcessorLeftovers, TypeOK, watcherVars, handlerVars
  <1> QED
    BY <1>3, <1>6, <1>7, <1>8

(* The handler takes a message that registers no replica.                  *)
LEMMA TakesOK ==
  ASSUME IInv, NEW type \in {"add_request", "abort"}, Takes(type),
         UNCHANGED <<proc, joining, attached, client>>
  PROVE  /\ serving = NoRequest /\ detaching = NoAddr
         /\ Head(inbox).of \in Requests /\ Posted(Head(inbox).of)
         /\ inbox' \in Seq(Messages)
         /\ InboxOK' /\ RegisteredOK'
  <1> USE DEF IInv
  <1>1. /\ serving = NoRequest /\ detaching = NoAddr
        /\ inbox # <<>> /\ inbox' = Tail(inbox)
        /\ Head(inbox).type = type /\ type # "register"
    BY DEF Takes, LoopFree
  <1>2. /\ inbox' \in Seq(Messages)
        /\ Head(inbox) \in Messages /\ Head(inbox) = inbox[1] /\ 1 \in 1..Len(inbox)
    BY <1>1, Taken
  <1>3. Head(inbox).of \in Requests /\ Posted(Head(inbox).of)
    BY <1>1, <1>2, MessageOf DEF InboxOK
  <1>4. InboxOK'
    BY <1>1, TakenOK
  <1>5. RegisteredOK'
    BY DEF RegisteredOK
  <1> QED
    BY <1>1, <1>2, <1>3, <1>4, <1>5

(* An admitted request leads to a client, so that the output processor     *)
(* forgets it; what it keeps of others was explained before.               *)
LEMMA HandleAbortStep ==
  ASSUME IInv, HandleAbort
  PROVE  IInv'
  <1> DEFINE r == Head(inbox).of
  <1> USE DEF IInv
  <1>1. /\ Takes("abort")
        /\ processor' = Aborted(r) /\ bound' = [bound EXCEPT ![r] = NoAddr]
        /\ states' = states \ {r}
        /\ UNCHANGED <<replicaVars, coordinatorVars, hub, watcherVars, serving, failed,
                       told, finished, client>>
    BY DEF HandleAbort
  <1>2. /\ serving = NoRequest /\ r \in Requests /\ inbox' \in Seq(Messages)
        /\ InboxOK' /\ RegisteredOK'
    <2> HIDE DEF IInv
    <2> QED
      BY <1>1, TakesOK DEF replicaVars, watcherVars
  <1> HIDE DEF r
  <1>3. processor' \subseteq processor
    BY <1>1 DEF Aborted
  <1>4. TypeOK'
    BY <1>1, <1>2, <1>3 DEF TypeOK, replicaVars, coordinatorVars, watcherVars
  <1>5. \A q \in Requests : q # r => bound'[q] = bound[q]
    BY <1>1 DEF TypeOK
  <1>6. AdmittedOK' /\ ServingOK'
    BY <1>1, <1>2 DEF AdmittedOK, ServingOK, Posted
  <1>7. DetachingOK' /\ ActiveHasClient'
    BY <1>1, <1>5 DEF DetachingOK, ActiveHasClient, TypeOK, watcherVars
  <1>8. r \in processor' => r \in lost \cup told
    BY <1>1, <1>2, MembershipAssumption
       DEF Aborted, ActiveHasClient, ProcessorLeftovers, TypeOK
  <1>9. ProcessorLeftovers'
    BY <1>1, <1>3, <1>8 DEF ProcessorLeftovers, watcherVars
  <1> QED
    BY <1>2, <1>4, <1>6, <1>7, <1>9

(* The request is bound to a serviceable replica, or waits for one.        *)
LEMMA HandleAddRequestStep ==
  ASSUME IInv, HandleAddRequest
  PROVE  IInv'
  <1> DEFINE r == Head(inbox).of
  <1> USE DEF IInv
  <1>1. /\ Takes("add_request")
        /\ states' = states \cup {r}
        /\ UNCHANGED <<replicaVars, coordinatorVars, hub, watcherVars, failed,
                       told, finished, client>>
        /\ \/ /\ serving' = r
              /\ bound' = [bound EXCEPT ![r] = NoAddr]
              /\ processor' = processor
           \/ /\ \E a \in Choices(r) : Submit(r, a)
              /\ serving' = serving
    BY DEF HandleAddRequest
  <1>2. /\ serving = NoRequest /\ detaching = NoAddr
        /\ r \in Requests /\ Posted(r) /\ inbox' \in Seq(Messages)
        /\ InboxOK' /\ RegisteredOK'
    <2> HIDE DEF IInv
    <2> QED
      BY <1>1, TakesOK DEF replicaVars, watcherVars
  <1> HIDE DEF r
  <1>3. Choices(r) \subseteq Serviceable
    BY DEF Choices
  <1>4. PICK a \in Addrs \cup {NoAddr} :
            /\ bound' = [bound EXCEPT ![r] = a]
            /\ processor' \subseteq processor \cup {r}
            /\ \/ serving' = r /\ a = NoAddr
               \/ serving' = serving /\ a \in attached
    BY <1>1, <1>3 DEF Submit, Serviceable, TypeOK
  <1>5. TypeOK'
    BY <1>1, <1>2, <1>4 DEF TypeOK, replicaVars, coordinatorVars, watcherVars
  <1>6. /\ bound'[r] = a
        /\ \A q \in Requests : q # r => bound'[q] = bound[q]
    BY <1>2, <1>4 DEF TypeOK
  <1>7. AdmittedOK' /\ ServingOK'
    BY <1>1, <1>2, <1>4, <1>6 DEF AdmittedOK, ServingOK, Posted
  <1>8. DetachingOK' /\ ActiveHasClient'
    <2>1. detaching' = NoAddr /\ lost' = lost /\ attached' = attached
      BY <1>1, <1>2 DEF watcherVars
    <2>2. ASSUME NEW q \in states' \ (lost' \cup {serving'})
          PROVE  bound'[q] \in attached'
      <3>1. CASE q = r
        BY <1>4, <1>6, <2>2, <3>1, <2>1
      <3>2. CASE q # r
        <4>1. q \in states \ (lost \cup {serving})
          BY <1>1, <1>2, <2>1, <2>2, <3>2, MembershipAssumption DEF TypeOK
        <4>2. bound'[q] = bound[q]
          BY <1>6, <3>2, <4>1 DEF TypeOK
        <4> QED
          BY <2>1, <4>1, <4>2 DEF ActiveHasClient
      <3> QED
        BY <3>1, <3>2
    <2> QED
      BY <2>1, <2>2 DEF DetachingOK, ActiveHasClient
  <1>9. ProcessorLeftovers'
    BY <1>1, <1>4 DEF ProcessorLeftovers, watcherVars
  <1> QED
    BY <1>2, <1>5, <1>7, <1>8, <1>9

(* The wait in pick() ends: the request is bound, unless it was told       *)
(* meanwhile and only leaves something in the output processor.            *)
LEMMA RetryPickStep ==
  ASSUME IInv, RetryPick
  PROVE  IInv'
  <1> USE DEF IInv
  <1>1. /\ detaching = NoAddr /\ serving # NoRequest
        /\ serving' = NoRequest
        /\ UNCHANGED <<replicaVars, coordinatorVars, hub, watcherVars, inbox, failed,
                       states, told, finished, client>>
    BY DEF RetryPick, LoopFree
  <1>2. PICK a \in Addrs :
            /\ a \in attached
            /\ bound' = [bound EXCEPT ![serving] = a]
            /\ processor' = processor \cup {serving}
    BY DEF RetryPick, Submit, Serviceable, TypeOK
  <1>3. serving \in Requests
    BY <1>1 DEF TypeOK
  <1>4. TypeOK'
    BY <1>1, <1>2, <1>3 DEF TypeOK, replicaVars, coordinatorVars, watcherVars
  <1>5. /\ bound'[serving] = a
        /\ \A q \in Requests : q # serving => bound'[q] = bound[q]
    BY <1>2, <1>3 DEF TypeOK
  <1>6. InboxOK' /\ RegisteredOK'
    BY <1>1, RequestFrame DEF replicaVars, watcherVars, Posted
  <1>7. AdmittedOK' /\ ServingOK'
    BY <1>1 DEF AdmittedOK, ServingOK, Posted
  <1>8. DetachingOK' /\ ActiveHasClient'
    BY <1>1, <1>2, <1>5 DEF DetachingOK, ActiveHasClient, TypeOK, watcherVars
  <1>9. ProcessorLeftovers'
    BY <1>1, <1>2 DEF ProcessorLeftovers, ServingOK, watcherVars
  <1> QED
    BY <1>4, <1>6, <1>7, <1>8, <1>9

-----------------------------------------------------------------------------
(* The theorems.                                                           *)

(* The invariant holds in the initial states.                              *)
LEMMA InitOK == Init => IInv
  <1> SUFFICES ASSUME Init PROVE IInv
    OBVIOUS
  <1>1. inbox = <<>> /\ <<>> \in Seq(Messages)
    BY DEF Init
  <1>2. TypeOK
    <2>1. /\ proc \in [Addrs -> {"none", "starting", "live", "closing", "dead"}]
          /\ status \in [Addrs -> {"absent", "UP", "ERROR", "DOWN"}]
          /\ bound \in [Requests -> Addrs \cup {NoAddr}]
          /\ client \in [Requests -> {"new", "preparing", "waiting", "done"}]
      BY DEF Init
    <2>2. faults \in 0..MaxFaults
      BY MembershipAssumption DEF Init
    <2>3. /\ snapshot \cup hub \cup lastUp \cup disappeared \subseteq Addrs
          /\ joining \cup attached \subseteq Addrs /\ joining \cap attached = {}
          /\ lost \cup states \cup processor \cup told \cup finished \subseteq Requests
      BY MembershipAssumption DEF Init
    <2> QED
      <3>1. inbox \in Seq(Messages)
        BY <1>1
      <3> QED
        BY <2>1, <2>2, <2>3, <3>1 DEF Init, TypeOK
  <1>3. Len(inbox) = 0
    BY <1>1
  <1>4. InboxOK
    BY <1>3 DEF InboxOK
  <1>5. RegisteredOK
    BY MembershipAssumption DEF Init, RegisteredOK
  <1> QED
    BY <1>2, <1>4, <1>5 DEF Init, IInv, AdmittedOK, ServingOK, DetachingOK,
                            ActiveHasClient, ProcessorLeftovers

(* Every step preserves it.                                                *)
LEMMA NextOK == IInv /\ [Next]_vars => IInv'
  <1> SUFFICES ASSUME IInv, [Next]_vars PROVE IInv'
    OBVIOUS
  <1>1. CASE UNCHANGED vars
    BY <1>1 DEF vars, replicaVars, coordinatorVars, watcherVars, handlerVars, requestVars,
                IInv, TypeOK, InboxOK, RegisteredOK, AdmittedOK, ServingOK, DetachingOK,
                ActiveHasClient, ProcessorLeftovers, Posted
  <1>2. ASSUME NEW a \in Addrs,
               \/ Register(a) \/ ReportUp(a) \/ Heartbeat(a) \/ Close(a)
               \/ ReportDown(a) \/ Crash(a) \/ Unregister(a) \/ AddClient(a)
        PROVE  IInv'
    BY <1>2, RegisterStep, ReplicaSteps, UnregisterStep, AddClientStep
  <1>3. ASSUME NEW r \in Requests,
               \/ Preselect(r) \/ Send(r) \/ Receive(r) \/ GiveUp(r)
               \/ Tell(r) \/ Finish(r)
        PROVE  IInv'
    BY <1>3, PreselectStep, ConsumerSteps, TellStep, FinishStep
  <1>4. CASE \/ \E silent \in SUBSET Addrs : Tick(silent)
             \/ Flush \/ Deliver \/ LoseList \/ SendFails \/ ClearPending
    BY <1>4, CoordinatorSteps
  <1>5. CASE WatchReplicaList \/ PickTimesOut \/ Detach
    BY <1>5, RoundSteps, DetachStep
  <1>6. CASE HandleRegister \/ HandleAbort \/ HandleAddRequest \/ RetryPick
    BY <1>6, HandleRegisterStep, HandleAbortStep, HandleAddRequestStep, RetryPickStep
  <1> QED
    BY <1>1, <1>2, <1>3, <1>4, <1>5, <1>6 DEF Next

(* The variables of the pool, its queue and its requests keep their types, *)
(* and no address is both being built a client and attached.               *)
THEOREM MembershipTypeCorrect == Spec => []TypeOK
  <1>1. IInv => TypeOK
    BY DEF IInv
  <1> QED
    BY <1>1, InitOK, NextOK, PTL DEF Spec

(* An admitted request that is not waiting in pick() is bound to a replica *)
(* with a client, or is about to be told that the replica went away.       *)
THEOREM ActiveKeepsClient == Spec => []ActiveHasClient
  <1>1. IInv => ActiveHasClient
    BY DEF IInv
  <1> QED
    BY <1>1, InitOK, NextOK, PTL DEF Spec

(* Of a request that is over, the output processor keeps something only if *)
(* its replica disappeared under it.                                       *)
THEOREM LeftoversExplained == Spec => []ProcessorLeftovers
  <1>1. IInv => ProcessorLeftovers
    BY DEF IInv
  <1> QED
    BY <1>1, InitOK, NextOK, PTL DEF Spec

=============================================================================
