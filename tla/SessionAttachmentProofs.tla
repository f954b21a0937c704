----------------------- MODULE SessionAttachmentProofs -----------------------
(***************************************************************************)
(* Theorems about SessionAttachment, for any transports, senders and       *)
(* limits: what a transport receives has no gap, a detached session has a  *)
(* grace, the client keeps a token that is accepted, and nobody gets a     *)
(* payload without a number before the resynchronization is announced.     *)
(***************************************************************************)
EXTENDS SessionAttachment, TLAPS, SequenceTheorems

(* The number that the client of a transport has reached.                  *)
Heard(c) == conn[c].after + Len(received[c])

(* Who replays or sends holds the lock.                                    *)
HolderOK ==
    /\ \A c \in Conns : conn[c].phase = "replaying" => Turn(c)
    /\ IF sending.to = NoConn
         THEN sending.number = 0
         ELSE queue # <<>> /\ Head(queue) \in Senders

(* Before the activation nothing is sent.                                  *)
FreshOK ==
    \A c \in Conns : conn[c].phase \in {"new", "control", "queued"} => ~conn[c].welcomed

(* What is still to be replayed goes on where the client is, to the end of *)
(* the journal.                                                            *)
ReplayOK ==
    \A c \in Conns :
        conn[c].phase = "replaying" /\ link[c] = "up" =>
            /\ Heard(c) + Len(conn[c].replay) = journal.last
            /\ \A i \in 1..Len(conn[c].replay) : conn[c].replay[i] = Heard(c) + i

(* The transport that is attached is at the end of the journal, but for    *)
(* the event that is being sent.                                           *)
CurrentOK ==
    \A c \in Conns :
        registry.attachment = c =>
            /\ registry.present /\ registry.generation = conn[c].generation
            /\ \/ conn[c].phase = "replaying"
               \/ /\ conn[c].phase = "attached" /\ conn[c].welcomed
                  /\ link[c] = "up" =>
                        IF sending.to = c /\ sending.number > 0
                          THEN Heard(c) + 1 = journal.last
                          ELSE Heard(c) = journal.last

(* An event is sent to a transport that was attached, and is its next one. *)
SendingOK ==
    \A c \in Conns :
        sending.to = c =>
            /\ conn[c].phase \in {"attached", "touching", "done"} /\ conn[c].welcomed
            /\ link[c] = "up" /\ sending.number > 0 => sending.number = Heard(c) + 1

(* Nothing is numbered beyond the journal.                                 *)
NumbersOK ==
    /\ client.seen <= journal.last
    /\ sending.number <= journal.last
    /\ \A c \in Conns : \A i \in 1..Len(conn[c].replay) : conn[c].replay[i] <= journal.last

(* No token is the one of no generation.                                   *)
TokensOK ==
    /\ registry.generation > 0 /\ client.token > 0
    /\ \A c \in Conns :
         /\ conn[c].phase \in {"control", "queued", "replaying"} => conn[c].token > 0
         /\ conn[c].phase = "replaying" => conn[c].generation > 0

IInv ==
    /\ TypeOK /\ HolderOK /\ FreshOK /\ ReplayOK /\ CurrentOK /\ SendingOK
    /\ NumbersOK /\ TokensOK /\ GapFree /\ DetachedHasGrace

-----------------------------------------------------------------------------
(* What the types of the records and sequences mean for their parts.       *)

ConnType == [phase : Phases, token : Nat, after : Nat, lease : Nat,
             generation : Nat, replay : Seq(Nat), welcomed : BOOLEAN]

(* The parts of a handshake, of what was received, and of the journal.     *)
LEMMA Types ==
  ASSUME TypeOK
  PROVE  /\ conn \in [Conns -> ConnType]
         /\ \A c \in Conns :
              /\ conn[c].phase \in Phases
              /\ conn[c].token \in Nat /\ conn[c].after \in Nat /\ conn[c].lease \in Nat
              /\ conn[c].generation \in Nat /\ conn[c].welcomed \in BOOLEAN
              /\ conn[c].replay \in Seq(Nat)
              /\ \A i \in 1..Len(conn[c].replay) : conn[c].replay[i] \in Nat
              /\ received[c] \in Seq(Nat) /\ Heard(c) \in Nat
         /\ journal \in [dropped : Nat, last : Nat, overflowed : BOOLEAN]
         /\ journal.dropped \in Nat /\ journal.last \in Nat /\ journal.dropped <= journal.last
         /\ client.token \in Nat /\ client.seen \in Nat
         /\ sending.to \in Conns \cup {NoConn} /\ sending.number \in Nat
         /\ registry.attachment \in Conns \cup {NoConn}
         /\ task \in [Senders -> {"idle", "event", "resync", "bare"}]
  <1>1. conn \in [Conns -> ConnType]
    BY DEF TypeOK, ConnType
  <1>2. ASSUME NEW x \in ConnType
        PROVE  /\ x.phase \in Phases
               /\ x.token \in Nat /\ x.after \in Nat /\ x.lease \in Nat
               /\ x.generation \in Nat /\ x.welcomed \in BOOLEAN
               /\ x.replay \in Seq(Nat)
    BY DEF ConnType
  <1>3. ASSUME NEW x \in Seq(Nat)
        PROVE  Len(x) \in Nat /\ \A i \in 1..Len(x) : x[i] \in Nat
    OBVIOUS
  <1>4. received \in [Conns -> Seq(Nat)]
    BY DEF TypeOK
  <1>5. /\ journal \in [dropped : Nat, last : Nat, overflowed : BOOLEAN]
        /\ journal.dropped <= journal.last
    BY DEF TypeOK
  <1>6. /\ client \in [token : Nat, seen : Nat]
        /\ sending \in [to : Conns \cup {NoConn}, number : Nat]
        /\ registry \in [present : BOOLEAN, generation : Nat, attachment : Conns \cup {NoConn},
                         recovery : Nat, grace : Nat]
        /\ task \in [Senders -> {"idle", "event", "resync", "bare"}]
    BY DEF TypeOK
  <1>7. \A c \in Conns : received[c] \in Seq(Nat) /\ conn[c] \in ConnType
    BY <1>1, <1>4
  <1>8. ASSUME NEW c \in Conns
        PROVE  Heard(c) \in Nat
    <2>1. conn[c].after \in Nat
      BY <1>2, <1>7
    <2>2. Len(received[c]) \in Nat
      BY <1>3, <1>7
    <2> QED
      BY <2>1, <2>2 DEF Heard
  <1> QED
    BY <1>1, <1>2, <1>3, <1>5, <1>6, <1>7, <1>8

-----------------------------------------------------------------------------
(* The lock.                                                               *)

(* One more waits: who holds the lock keeps it.                            *)
LEMMA Waits ==
  ASSUME TypeOK, NEW x \in Conns \cup Senders, queue' = Append(queue, x)
  PROVE  /\ queue' \in Seq(Conns \cup Senders) /\ queue' # <<>>
         /\ queue # <<>> => Head(queue') = Head(queue)
  <1>1. queue \in Seq(Conns \cup Senders)
    BY DEF TypeOK
  <1> QED
    BY <1>1

(* The holder leaves, at most to wait again.                               *)
LEMMA Leaves ==
  ASSUME TypeOK, queue # <<>>, NEW x \in Conns \cup Senders,
         queue' = Tail(queue) \/ queue' = Append(Tail(queue), x)
  PROVE  queue' \in Seq(Conns \cup Senders)
  <1>1. queue \in Seq(Conns \cup Senders)
    BY DEF TypeOK
  <1> QED
    BY <1>1

(* While a sender has the lock nothing is replayed, while a handshake has  *)
(* it nothing is sent.                                                     *)
LEMMA Holder ==
  ASSUME IInv
  PROVE  /\ \A s \in Senders : Turn(s) =>
              s \notin Conns /\ \A c \in Conns : conn[c].phase # "replaying"
         /\ \A c \in Conns : Turn(c) =>
              /\ sending.to = NoConn /\ sending.number = 0
              /\ \A d \in Conns : conn[d].phase = "replaying" => d = c
  BY AttachmentAssumption DEF IInv, HolderOK, Turn

-----------------------------------------------------------------------------
(* Steps that touch neither the handshakes nor what was received.          *)

(* An event that waits for the lock changes nothing else.                  *)
LEMMA EmitStep ==
  ASSUME IInv, NEW s \in Senders, Emit(s)
  PROVE  IInv'
  <1> USE DEF IInv
  <1>1. /\ queue' = Append(queue, s)
        /\ task' \in [Senders -> {"idle", "event", "resync", "bare"}]
        /\ UNCHANGED <<conn, link, wireVars, apiVars, graced, sending, lease>>
    BY DEF Emit, TypeOK
  <1>2. /\ queue' \in Seq(Conns \cup Senders) /\ queue' # <<>>
        /\ queue # <<>> => Head(queue') = Head(queue)
    BY <1>1, Waits
  <1>3. TypeOK'
    BY <1>1, <1>2 DEF TypeOK, wireVars, apiVars
  <1>4. HolderOK'
    BY <1>1, <1>2 DEF HolderOK, Turn
  <1>5. FreshOK' /\ ReplayOK' /\ CurrentOK' /\ SendingOK' /\ NumbersOK' /\ TokensOK'
    BY <1>1 DEF FreshOK, ReplayOK, CurrentOK, SendingOK, NumbersOK, TokensOK, Heard,
                wireVars, apiVars
  <1>6. GapFree' /\ DetachedHasGrace'
    BY <1>1 DEF GapFree, DetachedHasGrace, Attached, wireVars, apiVars
  <1> QED
    BY <1>3, <1>4, <1>5, <1>6

(* The event is numbered next, and next for the attached transport.        *)
LEMMA SendEventStep ==
  ASSUME IInv, NEW s \in Senders, SendEvent(s)
  PROVE  IInv'
  <1> USE DEF IInv
  <1> DEFINE n == IF task[s] = "event" THEN journal'.last ELSE 0
  <1>1. /\ Turn(s) /\ sending = NotSending
        /\ journal' = IF task[s] = "event" THEN Record(journal) ELSE journal
        /\ Dispatch(s, n)
        /\ UNCHANGED <<conn, link, wireVars, registry, resync, known, graced, lease>>
    BY DEF SendEvent, BeginSend
  <1>2. /\ journal' \in [dropped : Nat, last : Nat, overflowed : BOOLEAN]
        /\ journal'.dropped = journal.dropped
        /\ journal.dropped <= journal'.last /\ journal.last <= journal'.last
        /\ n \in Nat /\ n <= journal'.last
        /\ n > 0 => n = journal.last + 1 /\ journal'.last = n
        /\ n = 0 => journal'.last = journal.last
    <2>1. /\ journal \in [dropped : Nat, last : Nat, overflowed : BOOLEAN]
          /\ journal.dropped <= journal.last
      BY DEF TypeOK
    <2>2. CASE task[s] = "event"
      <3>1. journal' = [journal EXCEPT !.last = @ + 1]
        BY <1>1, <2>2 DEF Record
      <3>2. /\ journal' \in [dropped : Nat, last : Nat, overflowed : BOOLEAN]
            /\ journal'.dropped = journal.dropped /\ journal'.last = journal.last + 1
        BY <2>1, <3>1
      <3> HIDE DEF IInv
      <3> QED
        BY <2>1, <2>2, <3>2
    <2>3. CASE task[s] # "event"
      BY <1>1, <2>1, <2>3
    <2> QED
      BY <2>2, <2>3
  <1> HIDE DEF n
  <1>3. /\ sending.to = NoConn /\ sending.number = 0
        /\ queue # <<>> /\ Head(queue) = s
        /\ \A c \in Conns : conn[c].phase # "replaying"
    BY <1>1, Holder DEF NotSending, Turn
  <1>4. \/ /\ registry.attachment \in Conns
           /\ sending' = [to |-> registry.attachment, number |-> n]
           /\ queue' = queue /\ task' = task
        \/ /\ registry.attachment = NoConn
           /\ sending' = sending
           /\ queue' \in Seq(Conns \cup Senders)
           /\ task' \in [Senders -> {"idle", "event", "resync", "bare"}]
    <2>1. CASE registry.attachment # NoConn
      BY <1>1, <2>1 DEF Dispatch, Attached, TypeOK
    <2>2. CASE registry.attachment = NoConn
      <3>1. Release(s) /\ sending' = sending
        BY <1>1, <2>2 DEF Dispatch, Attached
      <3>2. queue' \in Seq(Conns \cup Senders)
        BY <1>3, <3>1, Leaves DEF Release
      <3>3. task \in [Senders -> {"idle", "event", "resync", "bare"}]
        BY DEF TypeOK
      <3>4. task' \in [Senders -> {"idle", "event", "resync", "bare"}]
        BY <3>1, <3>3 DEF Release
      <3> QED
        BY <2>2, <3>1, <3>2, <3>4
    <2> QED
      BY <2>1, <2>2
  <1>5. TypeOK'
    <2>1. /\ journal' \in [dropped : Nat, last : Nat, overflowed : BOOLEAN]
          /\ journal'.dropped <= journal'.last
      BY <1>2
    <2>2. /\ sending' \in [to : Conns \cup {NoConn}, number : Nat]
          /\ queue' \in Seq(Conns \cup Senders)
          /\ task' \in [Senders -> {"idle", "event", "resync", "bare"}]
      <3>1. CASE sending' = sending /\ task' \in [Senders -> {"idle", "event", "resync", "bare"}]
                 /\ queue' \in Seq(Conns \cup Senders)
        BY <3>1 DEF TypeOK
      <3>2. CASE sending' = [to |-> registry.attachment, number |-> n] /\ queue' = queue /\ task' = task
        BY <1>2, <3>2, Types DEF TypeOK
      <3> QED
        BY <1>4, <3>1, <3>2
    <2> QED
      BY <1>1, <2>1, <2>2 DEF TypeOK, wireVars
  <1>6. HolderOK'
    BY <1>1, <1>3, <1>4, AttachmentAssumption DEF HolderOK
  <1>7. FreshOK' /\ ReplayOK' /\ TokensOK' /\ GapFree' /\ DetachedHasGrace'
    BY <1>1, <1>3 DEF FreshOK, ReplayOK, TokensOK, GapFree, DetachedHasGrace, Attached, wireVars
  <1>8. CurrentOK' /\ SendingOK'
    <2>1. UNCHANGED <<conn, link, received, registry>>
      BY <1>1 DEF wireVars
    <2>2. \A c \in Conns : Heard(c) \in Nat
      BY Types
    <2>3. \A c \in Conns : registry.attachment = c =>
             /\ registry.present /\ registry.generation = conn[c].generation
             /\ conn[c].phase = "attached" /\ conn[c].welcomed
             /\ link[c] = "up" => Heard(c) = journal.last
      BY <1>3, AttachmentAssumption DEF CurrentOK
    <2>4. journal.last \in Nat
      BY DEF TypeOK
    <2>5. \A c \in Conns : Heard(c)' = Heard(c)
      BY <2>1 DEF Heard
    <2>6. CASE registry.attachment \in Conns
      <3>1. sending' = [to |-> registry.attachment, number |-> n]
        BY <1>4, <2>6, AttachmentAssumption
      <3>2. sending'.to = registry.attachment /\ sending'.number = n
        BY <3>1
      <3> HIDE DEF IInv
      <3> QED
        BY <1>2, <2>1, <2>2, <2>3, <2>4, <2>5, <3>2 DEF CurrentOK, SendingOK
    <2>7. CASE registry.attachment = NoConn
      BY <1>3, <1>4, <2>1, <2>7, AttachmentAssumption DEF CurrentOK, SendingOK
    <2> QED
      BY <1>4, <2>6, <2>7
  <1>9. NumbersOK'
    <2>1. sending'.number <= journal'.last
      BY <1>2, <1>3, <1>4
    <2>2. client.seen \in Nat /\ journal.last \in Nat /\ journal'.last \in Nat
      BY <1>2, Types
    <2>3. \A c \in Conns : \A i \in 1..Len(conn[c].replay) : conn[c].replay[i] \in Nat
      BY Types
    <2> QED
      BY <1>1, <1>2, <2>1, <2>2, <2>3 DEF NumbersOK, wireVars
  <1> QED
    BY <1>5, <1>6, <1>7, <1>8, <1>9

(* The holder is a sender that sends no event any more, and received       *)
(* remains as it is.                                                       *)
LEMMA SenderFrame ==
  ASSUME IInv, TypeOK', NEW s \in Senders, Turn(s),
         UNCHANGED <<conn, link, received, client, registry, graced>>,
         journal'.last = journal.last,
         sending' = NotSending,
         sending.to = NoConn \/ link[sending.to] = "down"
  PROVE  IInv'
  <1> USE DEF IInv
  <1>1. /\ \A c \in Conns : conn[c].phase # "replaying"
        /\ sending'.to = NoConn /\ sending'.number = 0
    BY Holder DEF NotSending
  <1>2. HolderOK'
    BY <1>1 DEF HolderOK
  <1>3. FreshOK' /\ ReplayOK' /\ TokensOK' /\ GapFree' /\ DetachedHasGrace'
    BY <1>1 DEF FreshOK, ReplayOK, TokensOK, GapFree, DetachedHasGrace, Attached
  <1>4. CurrentOK' /\ SendingOK'
    BY <1>1, AttachmentAssumption DEF CurrentOK, SendingOK, Heard
  <1>5. NumbersOK'
    <2>1. client.seen <= journal.last /\ journal.last \in Nat /\ 0 <= journal.last
      BY Types DEF NumbersOK
    <2> QED
      BY <1>1, <2>1 DEF NumbersOK
  <1> QED
    BY <1>2, <1>3, <1>4, <1>5

(* The steps of a sender that send no event.                               *)
LEMMA SenderSteps ==
  ASSUME IInv, NEW s \in Senders, Overflow(s) \/ SendUnknown(s) \/ SendFails(s)
  PROVE  IInv'
  <1> USE DEF IInv
  <1>1. /\ Turn(s) /\ queue # <<>>
        /\ UNCHANGED <<conn, link, wireVars, registry, known, graced, lease>>
        /\ queue' = Tail(queue) \/ queue' = Append(Tail(queue), s)
        /\ sending' = NotSending
        /\ sending = NotSending \/ link[sending.to] = "down"
    BY DEF Overflow, SendUnknown, SendFails, BeginSend, Turn, apiVars
  <1>2. /\ task' \in [Senders -> {"idle", "event", "resync", "bare"}]
        /\ resync' \in BOOLEAN
    <2>1. task \in [Senders -> {"idle", "event", "resync", "bare"}] /\ resync \in BOOLEAN
      BY DEF TypeOK
    <2>2. CASE Overflow(s)
      BY <2>1, <2>2 DEF Overflow, apiVars
    <2>3. CASE SendUnknown(s) \/ SendFails(s)
      BY <2>1, <2>3 DEF SendUnknown, SendFails, apiVars
    <2> QED
      BY <2>2, <2>3
  <1>3. /\ journal' \in [dropped : Nat, last : Nat, overflowed : BOOLEAN]
        /\ journal'.last = journal.last /\ journal'.dropped = journal.dropped
    <2>1. journal' = journal \/ journal' = [journal EXCEPT !.overflowed = TRUE]
      BY DEF Overflow, SendUnknown, SendFails, apiVars
    <2> QED
      BY <2>1, Types
  <1>4. queue' \in Seq(Conns \cup Senders)
    BY <1>1, Leaves
  <1>5. journal'.dropped <= journal'.last
    BY <1>3, Types
  <1>6. sending' \in [to : Conns \cup {NoConn}, number : Nat]
    BY <1>1 DEF NotSending
  <1>7. TypeOK'
    BY <1>1, <1>2, <1>3, <1>4, <1>5, <1>6 DEF TypeOK, wireVars
  <1>8. sending.to = NoConn \/ link[sending.to] = "down"
    BY <1>1 DEF NotSending
  <1> QED
    BY <1>1, <1>3, <1>7, <1>8, SenderFrame DEF wireVars

(* A transport receives the event after the last it received.              *)
LEMMA Delivered ==
  ASSUME TypeOK, GapFree, NEW c \in Conns, NEW n \in Nat, n > 0,
         conn[c].welcomed, n = Heard(c) + 1, n <= journal.last,
         client.seen <= journal.last,
         Deliver(c, n)
  PROVE  /\ received' \in [Conns -> Seq(Nat)]
         /\ client' \in [token : Nat, seen : Nat] /\ client'.token = client.token
         /\ client'.seen <= journal.last
         /\ Len(received'[c]) = Len(received[c]) + 1
         /\ \A d \in Conns : d # c => received'[d] = received[d]
         /\ \A i \in 1..Len(received'[c]) : received'[c][i] = conn[c].after + i
  <1>1. /\ received' = [received EXCEPT ![c] = Append(@, n)]
        /\ client' = [client EXCEPT !.seen = IF n > @ THEN n ELSE @]
    BY DEF Deliver
  <1>2. received \in [Conns -> Seq(Nat)] /\ received[c] \in Seq(Nat)
    BY DEF TypeOK
  <1>3. client \in [token : Nat, seen : Nat]
    BY DEF TypeOK
  <1>4. received'[c] = Append(received[c], n) /\ Append(received[c], n) \in Seq(Nat)
    BY <1>1, <1>2
  <1>5. /\ Len(received'[c]) = Len(received[c]) + 1 /\ Len(received[c]) \in Nat
        /\ \A i \in 1..Len(received[c]) : received'[c][i] = received[c][i]
        /\ received'[c][Len(received[c]) + 1] = n
    BY <1>2, <1>4
  <1>6. \A i \in 1..Len(received[c]) : received[c][i] = conn[c].after + i
    BY DEF GapFree
  <1>7. n = conn[c].after + (Len(received[c]) + 1)
    <2>1. conn[c].after \in Nat
      BY Types
    <2>2. Len(received[c]) \in Nat
      BY <1>5
    <2>3. n = (conn[c].after + Len(received[c])) + 1
      BY DEF Heard
    <2>4. \A x, y \in Nat : (x + y) + 1 = x + (y + 1)
      OBVIOUS
    <2> QED
      BY <2>1, <2>2, <2>3, <2>4
  <1>8. \A i \in 1..Len(received'[c]) : received'[c][i] = conn[c].after + i
    BY <1>5, <1>6, <1>7
  <1>9. received' \in [Conns -> Seq(Nat)] /\ \A d \in Conns : d # c => received'[d] = received[d]
    BY <1>1, <1>2, <1>4
  <1>10. /\ client' \in [token : Nat, seen : Nat] /\ client'.token = client.token
         /\ client'.seen <= journal.last
    BY <1>1, <1>3
  <1> QED
    BY <1>5, <1>8, <1>9, <1>10

(* The transport takes what is sent, and may have received it.             *)
LEMMA SendDoneStep ==
  ASSUME IInv, NEW s \in Senders, SendDone(s)
  PROVE  IInv'
  <1> DEFINE c == sending.to
             n == sending.number
  <1> USE DEF IInv
  <1>1. /\ Turn(s) /\ queue # <<>> /\ c # NoConn
        /\ IF link[c] = "up" /\ n > 0
             THEN Deliver(c, n)
             ELSE UNCHANGED <<received, client>>
        /\ told' = IF link[c] = "up" /\ task[s] = "resync" THEN told \cup {c} ELSE told
        /\ bare' = IF link[c] = "up" /\ task[s] = "bare" THEN bare \cup {c} ELSE bare
        /\ sending' = NotSending
        /\ Release(s)
        /\ UNCHANGED <<conn, link, apiVars, graced, lease>>
    BY DEF SendDone, Turn
  <1>2. c \in Conns /\ n \in Nat
    BY <1>1, Types
  <1> HIDE DEF c, n
  <1>3. /\ \A d \in Conns : conn[d].phase # "replaying"
        /\ conn[c].phase \in {"attached", "touching", "done"} /\ conn[c].welcomed
        /\ link[c] = "up" /\ n > 0 => n = Heard(c) + 1
        /\ n <= journal.last /\ client.seen <= journal.last
    BY <1>1, <1>2, Holder DEF SendingOK, NumbersOK, c, n
  <1>4. /\ received' \in [Conns -> Seq(Nat)]
        /\ client' \in [token : Nat, seen : Nat] /\ client'.token = client.token
        /\ client'.seen <= journal.last
        /\ \A d \in Conns : d # c => received'[d] = received[d]
        /\ Len(received'[c]) = IF link[c] = "up" /\ n > 0 THEN Len(received[c]) + 1
                               ELSE Len(received[c])
        /\ \A i \in 1..Len(received'[c]) : received'[c][i] = conn[c].after + i
    <2>1. CASE link[c] = "up" /\ n > 0
      BY <1>1, <1>2, <1>3, <2>1, Delivered
    <2>2. CASE ~(link[c] = "up" /\ n > 0)
      <3>1. received' = received /\ client' = client
        BY <1>1, <2>2
      <3>2. received \in [Conns -> Seq(Nat)] /\ client \in [token : Nat, seen : Nat]
        BY DEF TypeOK
      <3> QED
        BY <1>2, <1>3, <2>2, <3>1, <3>2 DEF GapFree
    <2> QED
      BY <2>1, <2>2
  <1>5. TypeOK'
    <2>1. /\ queue' \in Seq(Conns \cup Senders)
          /\ task' \in [Senders -> {"idle", "event", "resync", "bare"}]
      <3>1. queue' = Tail(queue) \/ queue' = Append(Tail(queue), s)
        BY <1>1 DEF Release
      <3>2. task' = [task EXCEPT ![s] = "bare"] \/ task' = [task EXCEPT ![s] = "idle"]
        BY <1>1 DEF Release
      <3> QED
        BY <1>1, <3>1, <3>2, Leaves, Types
    <2>2. told' \subseteq Conns /\ bare' \subseteq Conns
      BY <1>1, <1>2 DEF TypeOK
    <2>3. sending' \in [to : Conns \cup {NoConn}, number : Nat]
      BY <1>1 DEF NotSending
    <2> QED
      BY <1>1, <1>4, <2>1, <2>2, <2>3 DEF TypeOK, apiVars
  <1>6. sending'.to = NoConn /\ sending'.number = 0
    BY <1>1 DEF NotSending
  <1>7. UNCHANGED <<conn, link, journal, registry, graced>>
    BY <1>1 DEF apiVars
  <1>8. HolderOK' /\ FreshOK' /\ ReplayOK'
    BY <1>3, <1>6, <1>7 DEF HolderOK, FreshOK, ReplayOK
  <1>9. TokensOK' /\ DetachedHasGrace'
    BY <1>4, <1>7 DEF TokensOK, DetachedHasGrace, Attached
  <1>10. GapFree'
    <2>1. ASSUME NEW d \in Conns
          PROVE  /\ received'[d] # <<>> => conn[d].welcomed
                 /\ \A i \in 1..Len(received'[d]) : received'[d][i] = conn[d].after + i
      <3>1. CASE d = c
        BY <1>3, <1>4, <3>1
      <3>2. CASE d # c
        BY <1>4, <3>2 DEF GapFree
      <3> QED
        BY <3>1, <3>2
    <2> QED
      BY <1>7, <2>1 DEF GapFree
  <1>11. SendingOK'
    BY <1>6, AttachmentAssumption DEF SendingOK
  <1>12. CurrentOK'
    <2>1. ASSUME NEW d \in Conns, registry.attachment = d
          PROVE  /\ registry.present /\ registry.generation = conn[d].generation
                 /\ conn[d].phase = "attached" /\ conn[d].welcomed
                 /\ link[d] = "up" => Heard(d)' = journal.last
      <3>1. CASE d # c
        BY <1>3, <1>4, <1>7, <2>1, <3>1 DEF CurrentOK, Heard, c
      <3>2. CASE d = c /\ link[c] = "up" /\ n > 0
        <4>1. Len(received'[c]) = Len(received[c]) + 1 /\ Len(received[c]) \in Nat
          BY <1>2, <1>4, <3>2, Types
        <4>2. conn[c].after \in Nat
          BY <1>2, Types
        <4>3. Heard(d)' = Heard(d) + 1
          BY <1>7, <3>2, <4>1, <4>2 DEF Heard
        <4> QED
          BY <1>3, <2>1, <3>2, <4>3 DEF CurrentOK, c, n
      <3>3. CASE d = c /\ ~(link[c] = "up" /\ n > 0)
        BY <1>3, <1>4, <1>7, <2>1, <3>3 DEF CurrentOK, Heard, c, n
      <3> QED
        BY <3>1, <3>2, <3>3
    <2> QED
      BY <1>6, <1>7, <2>1, AttachmentAssumption DEF CurrentOK
  <1>13. NumbersOK'
    <2>1. journal.last \in Nat
      BY Types
    <2> QED
      BY <1>4, <1>6, <1>7, <2>1 DEF NumbersOK
  <1> QED
    BY <1>5, <1>8, <1>9, <1>10, <1>11, <1>12, <1>13

(* Entries leave the journal at its start.                                 *)
LEMMA JournalSteps ==
  ASSUME IInv, ExpireEntry \/ \E c \in Conns : Acknowledge(c)
  PROVE  IInv'
  <1> USE DEF IInv
  <1>1. UNCHANGED <<conn, link, wireVars, registry, resync, known, graced, sendVars, lease>>
    BY DEF ExpireEntry, Acknowledge
  <1>2. PICK n \in Nat : n <= journal.last /\ journal' = DropThrough(journal, n)
    <2>1. CASE ExpireEntry
      <3>1. journal.dropped + 1 \in Nat /\ journal.dropped + 1 <= journal.last
        BY <2>1, Types DEF ExpireEntry
      <3> QED
        BY <2>1, <3>1 DEF ExpireEntry
    <2>2. ASSUME NEW c \in Conns, Acknowledge(c)
          PROVE  \E n \in Nat : n <= journal.last /\ journal' = DropThrough(journal, n)
      <3>1. client.seen \in Nat /\ journal.last \in Nat /\ client.seen <= journal.last
        BY Types DEF NumbersOK
      <3>2. PICK n \in 1..client.seen : journal' = DropThrough(journal, n)
        BY <2>2 DEF Acknowledge
      <3>3. n \in Nat /\ n <= journal.last
        BY <3>1
      <3> QED
        BY <3>2, <3>3
    <2> QED
      BY <2>1, <2>2
  <1>3. /\ journal' \in [dropped : Nat, last : Nat, overflowed : BOOLEAN]
        /\ journal'.dropped <= journal'.last /\ journal'.last = journal.last
    <2>1. /\ journal \in [dropped : Nat, last : Nat, overflowed : BOOLEAN]
          /\ journal.dropped <= journal.last
      BY Types
    <2> HIDE DEF IInv
    <2> QED
      BY <1>2, <2>1 DEF DropThrough
  <1>4. TypeOK'
    BY <1>1, <1>3 DEF TypeOK, wireVars, sendVars
  <1>5. HolderOK' /\ FreshOK' /\ ReplayOK' /\ CurrentOK' /\ SendingOK' /\ NumbersOK' /\ TokensOK'
    BY <1>1, <1>3 DEF HolderOK, FreshOK, ReplayOK, CurrentOK, SendingOK, NumbersOK, TokensOK,
                      Heard, Turn, wireVars, sendVars
  <1>6. GapFree' /\ DetachedHasGrace'
    BY <1>1 DEF GapFree, DetachedHasGrace, Attached, wireVars
  <1> QED
    BY <1>4, <1>5, <1>6

-----------------------------------------------------------------------------
(* Steps of the transports, the grace and the lease.                       *)

(* A transport that breaks or falls silent is owed nothing.                *)
LEMMA LinkSteps ==
  ASSUME IInv, NEW c \in Conns, LinkDown(c) \/ LinkSilent(c)
  PROVE  IInv'
  <1> USE DEF IInv
  <1>1. /\ UNCHANGED <<conn, wireVars, apiVars, graced, sendVars, lease>>
        /\ link' = [link EXCEPT ![c] = "down"] \/ link' = [link EXCEPT ![c] = "silent"]
    BY DEF LinkDown, LinkSilent
  <1>2. link \in [Conns -> {"up", "silent", "down"}]
    BY DEF TypeOK
  <1>3. /\ link' \in [Conns -> {"up", "silent", "down"}]
        /\ \A d \in Conns : link'[d] = "up" => link[d] = "up"
    BY <1>1, <1>2
  <1>4. TypeOK'
    BY <1>1, <1>3 DEF TypeOK, wireVars, apiVars, sendVars
  <1>5. HolderOK' /\ FreshOK' /\ TokensOK' /\ NumbersOK' /\ GapFree' /\ DetachedHasGrace'
    BY <1>1 DEF HolderOK, FreshOK, TokensOK, NumbersOK, GapFree, DetachedHasGrace, Attached,
                Turn, wireVars, apiVars, sendVars
  <1>6. ReplayOK' /\ CurrentOK' /\ SendingOK'
    BY <1>1, <1>3 DEF ReplayOK, CurrentOK, SendingOK, Heard, wireVars, apiVars, sendVars
  <1> QED
    BY <1>4, <1>5, <1>6

(* The grace task wakes up, the engine reaps, the session closes.          *)
LEMMA EndSteps ==
  ASSUME IInv, GraceExpires \/ Reap \/ CloseAttachment
  PROVE  IInv'
  <1> USE DEF IInv
  <1>1. /\ UNCHANGED <<conn, link, wireVars, journal, sendVars>>
        /\ registry'.generation = registry.generation
        /\ registry'.attachment = registry.attachment \/ registry'.attachment = NoConn
        /\ registry'.attachment # NoConn => registry'.present = registry.present
    <2>1. registry \in [present : BOOLEAN, generation : Nat, attachment : Conns \cup {NoConn},
                        recovery : Nat, grace : Nat]
      BY DEF TypeOK
    <2>2. CASE GraceExpires
      BY <2>1, <2>2 DEF GraceExpires, apiVars
    <2>3. CASE Reap
      BY <2>1, <2>3 DEF Reap, apiVars
    <2>4. CASE CloseAttachment
      BY <2>1, <2>4 DEF CloseAttachment, apiVars
    <2> QED
      BY <2>2, <2>3, <2>4
  <1>2. /\ registry' \in [present : BOOLEAN, generation : Nat, attachment : Conns \cup {NoConn},
                          recovery : Nat, grace : Nat]
        /\ graced' \in Nat /\ resync' \in BOOLEAN /\ known' \in Nat
        /\ lease' \in [generation : Nat, detached : BOOLEAN, terminal : BOOLEAN]
    <2>1. /\ registry \in [present : BOOLEAN, generation : Nat, attachment : Conns \cup {NoConn},
                           recovery : Nat, grace : Nat]
          /\ graced \in Nat /\ resync \in BOOLEAN /\ known \in Nat
          /\ lease \in [generation : Nat, detached : BOOLEAN, terminal : BOOLEAN]
      BY DEF TypeOK
    <2> HIDE DEF IInv
    <2>2. CASE GraceExpires
      BY <2>1, <2>2 DEF GraceExpires
    <2>3. CASE Reap
      BY <2>1, <2>3 DEF Reap, MarkTerminal, apiVars
    <2>4. CASE CloseAttachment
      BY <2>1, <2>4 DEF CloseAttachment
    <2> QED
      BY <2>2, <2>3, <2>4
  <1>3. TypeOK'
    BY <1>1, <1>2 DEF TypeOK, wireVars, sendVars
  <1>4. HolderOK' /\ FreshOK' /\ ReplayOK' /\ SendingOK' /\ NumbersOK' /\ GapFree'
    BY <1>1 DEF HolderOK, FreshOK, ReplayOK, SendingOK, NumbersOK, GapFree, Heard, Turn,
                wireVars, sendVars
  <1>5. CurrentOK' /\ TokensOK'
    BY <1>1, AttachmentAssumption DEF CurrentOK, TokensOK, Heard, wireVars, sendVars
  <1>6. DetachedHasGrace'
    <2>1. /\ registry \in [present : BOOLEAN, generation : Nat, attachment : Conns \cup {NoConn},
                           recovery : Nat, grace : Nat]
          /\ graced \in Nat /\ DetachedHasGrace
      BY DEF TypeOK
    <2>2. CASE GraceExpires
      BY <2>1, <2>2 DEF GraceExpires, DetachedHasGrace, Attached, apiVars
    <2>3. CASE Reap
      BY <2>1, <2>3 DEF Reap, DetachedHasGrace, Attached, apiVars
    <2>4. CASE CloseAttachment
      BY <2>1, <2>4 DEF CloseAttachment, DetachedHasGrace, Attached, apiVars
    <2> QED
      BY <2>2, <2>3, <2>4
  <1> QED
    BY <1>3, <1>4, <1>5, <1>6

-----------------------------------------------------------------------------
(* Handshakes and runners.                                                 *)

(* A handshake ends: its activation and its start stay on record.          *)
LEMMA EndedOK ==
  ASSUME TypeOK, NEW c \in Conns, NEW phase \in Phases, conn' = Ended(c, phase)
  PROVE  /\ conn' \in [Conns -> ConnType]
         /\ \A d \in Conns : d # c => conn'[d] = conn[d]
         /\ conn'[c].phase = phase /\ conn'[c].replay = <<>>
         /\ conn'[c].after = conn[c].after /\ conn'[c].welcomed = conn[c].welcomed
         /\ conn'[c].generation = conn[c].generation
  <1>1. conn \in [Conns -> ConnType] /\ conn[c] \in ConnType
    BY Types
  <1>2. conn' = [conn EXCEPT ![c] = [@ EXCEPT !.phase = phase, !.token = 0,
                                              !.lease = 0, !.replay = <<>>]]
    BY <1>1 DEF Ended, ConnType
  <1>3. [conn[c] EXCEPT !.phase = phase, !.token = 0, !.lease = 0, !.replay = <<>>] \in ConnType
    <2>1. <<>> \in Seq(Nat)
      OBVIOUS
    <2> QED
      BY <1>1, <2>1 DEF ConnType
  <1>4. conn'[c] = [conn[c] EXCEPT !.phase = phase, !.token = 0, !.lease = 0, !.replay = <<>>]
    BY <1>1, <1>2
  <1> QED
    BY <1>1, <1>2, <1>3, <1>4 DEF ConnType

(* The runner of a transport leaves, and the engine is told.               *)
LEMMA DetachSteps ==
  ASSUME IInv, NEW c \in Conns, Detach(c) \/ TouchDetach(c)
  PROVE  IInv'
  <1> USE DEF IInv
  <1>1. /\ conn[c].phase \in {"attached", "touching"}
        /\ \E phase \in {"touching", "done"} : conn' = [conn EXCEPT ![c].phase = phase]
        /\ UNCHANGED <<link, wireVars, journal, resync, known, graced, sendVars>>
    BY DEF Detach, TouchDetach, apiVars
  <1>2. /\ conn' \in [Conns -> ConnType]
        /\ \A d \in Conns : d # c => conn'[d] = conn[d]
        /\ conn'[c].phase \in {"touching", "done"}
        /\ conn'[c].replay = conn[c].replay
        /\ conn'[c].after = conn[c].after /\ conn'[c].welcomed = conn[c].welcomed
        /\ conn'[c].generation = conn[c].generation
    <2>1. conn \in [Conns -> ConnType] /\ conn[c] \in ConnType
      BY Types
    <2>2. PICK phase \in {"touching", "done"} : conn' = [conn EXCEPT ![c].phase = phase]
      BY <1>1
    <2>3. phase \in Phases
      BY DEF Phases
    <2> HIDE DEF IInv
    <2> QED
      BY <2>1, <2>2, <2>3 DEF ConnType
  <1>3. \/ /\ Detach(c) /\ registry.present /\ registry.generation = conn[c].generation
           /\ registry' = [registry EXCEPT !.attachment = NoConn, !.grace = conn[c].generation]
        \/ /\ registry' = registry /\ registry.attachment # c
    BY <1>1 DEF Detach, TouchDetach, CurrentOK, apiVars
  <1>4. /\ registry' \in [present : BOOLEAN, generation : Nat, attachment : Conns \cup {NoConn},
                          recovery : Nat, grace : Nat]
        /\ lease' \in [generation : Nat, detached : BOOLEAN, terminal : BOOLEAN]
    <2>1. /\ registry \in [present : BOOLEAN, generation : Nat, attachment : Conns \cup {NoConn},
                           recovery : Nat, grace : Nat]
          /\ lease \in [generation : Nat, detached : BOOLEAN, terminal : BOOLEAN]
      BY DEF TypeOK
    <2>2. conn[c].generation \in Nat
      BY Types DEF ConnType
    <2> HIDE DEF IInv
    <2>3. registry' \in [present : BOOLEAN, generation : Nat, attachment : Conns \cup {NoConn},
                         recovery : Nat, grace : Nat]
      BY <1>3, <2>1, <2>2
    <2>4. lease' \in [generation : Nat, detached : BOOLEAN, terminal : BOOLEAN]
      BY <1>1, <2>1 DEF Detach, TouchDetach
    <2> QED
      BY <2>3, <2>4
  <1>5. TypeOK'
    BY <1>1, <1>2, <1>4 DEF TypeOK, ConnType, wireVars, sendVars
  <1>6. HolderOK' /\ FreshOK' /\ ReplayOK' /\ SendingOK' /\ NumbersOK' /\ GapFree'
    BY <1>1, <1>2 DEF HolderOK, FreshOK, ReplayOK, SendingOK, NumbersOK, GapFree, Heard, Turn,
                wireVars, sendVars
  <1>7. /\ registry'.generation = registry.generation /\ registry'.present = registry.present
        /\ registry'.attachment = registry.attachment \/ registry'.attachment = NoConn
        /\ registry'.attachment # c
    <2>1. registry \in [present : BOOLEAN, generation : Nat, attachment : Conns \cup {NoConn},
                        recovery : Nat, grace : Nat]
      BY DEF TypeOK
    <2> HIDE DEF IInv
    <2> QED
      BY <1>3, <2>1, AttachmentAssumption
  <1>8. CurrentOK' /\ TokensOK'
    BY <1>1, <1>2, <1>7, AttachmentAssumption DEF CurrentOK, TokensOK, Heard, wireVars, sendVars
  <1>9. DetachedHasGrace'
    <2>1. registry \in [present : BOOLEAN, generation : Nat, attachment : Conns \cup {NoConn},
                        recovery : Nat, grace : Nat]
      BY DEF TypeOK
    <2>2. registry' = registry \/ registry'.grace = registry'.generation
      BY <1>3, <2>1
    <2> QED
      BY <1>1, <2>2 DEF DetachedHasGrace, Attached
  <1> QED
    BY <1>5, <1>6, <1>8, <1>9

(* A handshake before its activation: the transport has received nothing.  *)
LEMMA EarlyFrame ==
  ASSUME IInv, TypeOK', NEW c \in Conns,
         conn[c].phase \in {"new", "control"},
         conn'[c].phase \in {"control", "queued", "done"},
         conn'[c].welcomed = conn[c].welcomed,
         conn'[c].replay \in {conn[c].replay, <<>>},
         conn'[c].phase # "done" => conn'[c].token > 0,
         \A d \in Conns : d # c => conn'[d] = conn[d],
         queue' = queue \/ (queue' # <<>> /\ (queue # <<>> => Head(queue') = Head(queue))),
         UNCHANGED <<link, received, client, registry, journal, graced, sending>>
  PROVE  IInv'
  <1> USE DEF IInv
  <1>1. ~conn[c].welcomed /\ received[c] = <<>> /\ registry.attachment # c /\ sending.to # c
    BY DEF FreshOK, GapFree, CurrentOK, SendingOK
  <1>2. HolderOK'
    BY DEF HolderOK, Turn
  <1>3. FreshOK' /\ ReplayOK' /\ TokensOK'
    BY <1>1 DEF FreshOK, ReplayOK, TokensOK, Heard
  <1>4. CurrentOK' /\ SendingOK'
    BY <1>1 DEF CurrentOK, SendingOK, Heard
  <1>5. NumbersOK'
    BY DEF NumbersOK
  <1>6. GapFree'
    BY <1>1 DEF GapFree
  <1>7. DetachedHasGrace'
    BY DEF DetachedHasGrace, Attached
  <1> QED
    BY <1>2, <1>3, <1>4, <1>5, <1>6, <1>7

(* The handshake until it waits for the lock, or is refused.               *)
LEMMA EarlySteps ==
  ASSUME IInv, NEW c \in Conns, Connect(c) \/ EngineResume(c) \/ EngineRefuses(c)
  PROVE  IInv'
  <1>1. TypeOK /\ conn \in [Conns -> ConnType] /\ conn[c] \in ConnType /\ "done" \in Phases
    BY Types DEF IInv, Phases
  <1>2. client.token > 0 /\ client.token \in Nat /\ client.seen \in Nat
    BY Types DEF IInv, TokensOK
  <1>3. CASE conn' = Ended(c, "done") /\ (Connect(c) \/ EngineRefuses(c))
    <2>1. /\ conn[c].phase \in {"new", "control"}
          /\ UNCHANGED <<link, wireVars, apiVars, graced, sendVars, lease>>
      BY <1>3 DEF Connect, EngineRefuses
    <2>2. /\ conn' \in [Conns -> ConnType]
          /\ \A d \in Conns : d # c => conn'[d] = conn[d]
          /\ conn'[c].phase = "done" /\ conn'[c].replay = <<>>
          /\ conn'[c].welcomed = conn[c].welcomed
      BY <1>1, <1>3, EndedOK
    <2>3. TypeOK'
      BY <1>1, <2>1, <2>2 DEF TypeOK, ConnType, wireVars, apiVars, sendVars
    <2> QED
      BY <2>1, <2>2, <2>3, EarlyFrame DEF wireVars, apiVars, sendVars
  <1>4. CASE Connect(c) /\ conn' # Ended(c, "done")
    <2>1. /\ conn[c].phase = "new"
          /\ conn' = [conn EXCEPT ![c].phase = "control", ![c].token = client.token,
                                  ![c].after = client.seen, ![c].lease = known]
          /\ UNCHANGED <<link, wireVars, apiVars, graced, sendVars, lease>>
      BY <1>4 DEF Connect
    <2>2. known \in Nat /\ "control" \in Phases
      BY <1>1 DEF TypeOK, Phases
    <2>3. /\ conn' \in [Conns -> ConnType]
          /\ \A d \in Conns : d # c => conn'[d] = conn[d]
          /\ conn'[c].phase = "control" /\ conn'[c].token = client.token
          /\ conn'[c].replay = conn[c].replay /\ conn'[c].welcomed = conn[c].welcomed
      BY <1>1, <1>2, <2>1, <2>2 DEF ConnType
    <2>4. TypeOK'
      BY <1>1, <2>1, <2>3 DEF TypeOK, ConnType, wireVars, apiVars, sendVars
    <2> QED
      BY <1>2, <2>1, <2>3, <2>4, EarlyFrame DEF wireVars, apiVars, sendVars
  <1>5. CASE EngineResume(c)
    <2>1. /\ conn[c].phase = "control"
          /\ lease' = [lease EXCEPT !.generation = @ + 1, !.detached = FALSE]
          /\ conn' = [conn EXCEPT ![c].phase = "queued", ![c].lease = lease.generation + 1]
          /\ queue' = Append(queue, c)
          /\ UNCHANGED <<link, wireVars, apiVars, graced, sending, task>>
      BY <1>5 DEF EngineResume
    <2>2. lease \in [generation : Nat, detached : BOOLEAN, terminal : BOOLEAN]
      BY <1>1 DEF TypeOK
    <2>3. /\ lease' \in [generation : Nat, detached : BOOLEAN, terminal : BOOLEAN]
          /\ lease.generation + 1 \in Nat /\ "queued" \in Phases
      <3>1. lease.generation + 1 \in Nat
        BY <2>2
      <3> QED
        BY <2>1, <2>2, <3>1 DEF Phases
    <2>4. /\ conn' \in [Conns -> ConnType]
          /\ \A d \in Conns : d # c => conn'[d] = conn[d]
          /\ conn'[c].phase = "queued" /\ conn'[c].token = conn[c].token
          /\ conn'[c].replay = conn[c].replay /\ conn'[c].welcomed = conn[c].welcomed
      BY <1>1, <2>1, <2>3 DEF ConnType
    <2>5. /\ queue' \in Seq(Conns \cup Senders) /\ queue' # <<>>
          /\ queue # <<>> => Head(queue') = Head(queue)
      BY <1>1, <2>1, Waits
    <2>6. TypeOK'
      BY <1>1, <2>1, <2>3, <2>4, <2>5 DEF TypeOK, ConnType, wireVars, apiVars
    <2>7. conn[c].token > 0
      BY <2>1 DEF IInv, TokensOK
    <2> QED
      BY <2>1, <2>4, <2>5, <2>6, <2>7, EarlyFrame DEF wireVars, apiVars
  <1> QED
    BY <1>3, <1>4, <1>5 DEF EngineRefuses

(* The entries above n are consecutive up to the last.                     *)
LEMMA ReplayFrom ==
  ASSUME TypeOK, NEW n \in Nat, Replayable(journal, n)
  PROVE  /\ ReplayAfter(journal, n) \in Seq(Nat)
         /\ n + Len(ReplayAfter(journal, n)) = journal.last
         /\ \A i \in 1..Len(ReplayAfter(journal, n)) : ReplayAfter(journal, n)[i] = n + i
  <1> DEFINE entries == [i \in 1..(journal.last - n) |-> n + i]
  <1>1. /\ journal.dropped \in Nat /\ journal.last \in Nat
        /\ journal.dropped <= n /\ n <= journal.last
    BY Types DEF Replayable
  <1>2. journal.last - n \in Nat /\ n + (journal.last - n) = journal.last
    BY <1>1
  <1>3. ReplayAfter(journal, n) = entries
    BY <1>1 DEF ReplayAfter
  <1>4. entries \in Seq(Nat) /\ Len(entries) = journal.last - n
    BY <1>2
  <1> QED
    BY <1>2, <1>3, <1>4

(* The journal replaces the transport; nothing is being sent.              *)
LEMMA ActivateStep ==
  ASSUME IInv, NEW c \in Conns, Activate(c)
  PROVE  IInv'
  <1> DEFINE entries == ReplayAfter(journal, conn[c].after)
  <1>1. /\ Turn(c) /\ conn[c].phase = "queued" /\ Replayable(journal, conn[c].after)
        /\ registry' = [registry EXCEPT !.generation = @ + 1, !.attachment = c,
                                        !.recovery = 0, !.grace = 0]
        /\ conn' = [conn EXCEPT ![c].phase = "replaying",
                                ![c].generation = registry.generation + 1,
                                ![c].replay = entries]
        /\ UNCHANGED <<link, wireVars, journal, resync, known, graced, sendVars, lease>>
        /\ registry.present
    BY DEF Activate, MayResume
  <1>2. /\ TypeOK /\ conn \in [Conns -> ConnType] /\ conn[c] \in ConnType
        /\ conn[c].after \in Nat /\ "replaying" \in Phases
    BY Types DEF IInv, Phases
  <1>3. /\ entries \in Seq(Nat) /\ conn[c].after + Len(entries) = journal.last
        /\ \A i \in 1..Len(entries) : entries[i] = conn[c].after + i
    BY <1>1, <1>2, ReplayFrom
  <1> HIDE DEF entries
  <1>4. registry \in [present : BOOLEAN, generation : Nat, attachment : Conns \cup {NoConn},
                      recovery : Nat, grace : Nat]
    BY <1>2 DEF TypeOK
  <1>5. registry.generation + 1 \in Nat /\ registry.generation + 1 > 0
    BY <1>4
  <1>6. /\ registry' \in [present : BOOLEAN, generation : Nat, attachment : Conns \cup {NoConn},
                          recovery : Nat, grace : Nat]
        /\ registry'.present = registry.present /\ registry'.attachment = c
        /\ registry'.generation = registry.generation + 1
    BY <1>1, <1>4, <1>5
  <1>7. /\ conn' \in [Conns -> ConnType]
        /\ \A d \in Conns : d # c => conn'[d] = conn[d]
        /\ conn'[c].phase = "replaying" /\ conn'[c].token = conn[c].token
        /\ conn'[c].generation = registry.generation + 1
        /\ conn'[c].replay = entries /\ conn'[c].after = conn[c].after
        /\ conn'[c].welcomed = conn[c].welcomed
    BY <1>1, <1>2, <1>3, <1>5 DEF ConnType
  <1>8. TypeOK'
    BY <1>1, <1>2, <1>6, <1>7 DEF TypeOK, ConnType, wireVars, sendVars
  <1>9. /\ received[c] = <<>> /\ sending.to = NoConn /\ sending.number = 0
        /\ \A d \in Conns : conn[d].phase = "replaying" => d = c
    BY <1>1, Holder DEF IInv, FreshOK, GapFree
  <1>10. Heard(c)' = conn[c].after
    BY <1>1, <1>2, <1>7, <1>9 DEF Heard, wireVars
  <1>11. HolderOK' /\ FreshOK' /\ SendingOK'
    BY <1>1, <1>7, <1>9, AttachmentAssumption
       DEF IInv, HolderOK, FreshOK, SendingOK, Turn, wireVars, sendVars
  <1>12. ReplayOK'
    BY <1>1, <1>3, <1>7, <1>9, <1>10 DEF ReplayOK
  <1>13. CurrentOK' /\ DetachedHasGrace'
    BY <1>1, <1>6, <1>7, AttachmentAssumption DEF CurrentOK, DetachedHasGrace, Attached
  <1>14. NumbersOK'
    <2>1. \A i \in 1..Len(entries) : entries[i] <= journal.last
      BY <1>2, <1>3
    <2> QED
      BY <1>1, <1>7, <2>1 DEF IInv, NumbersOK, wireVars, sendVars
  <1>15. TokensOK'
    BY <1>1, <1>5, <1>6, <1>7 DEF IInv, TokensOK, wireVars
  <1>16. GapFree'
    BY <1>1, <1>7 DEF IInv, GapFree, wireVars
  <1> QED
    BY <1>8, <1>11, <1>12, <1>13, <1>14, <1>15, <1>16 DEF IInv

(* The transport has the activation, its client perhaps the new token.     *)
LEMMA SendActivationStep ==
  ASSUME IInv, NEW c \in Conns, SendActivation(c)
  PROVE  IInv'
  <1>1. /\ Turn(c) /\ conn[c].phase = "replaying"
        /\ conn' = [conn EXCEPT ![c].welcomed = TRUE]
        /\ client' = [client EXCEPT !.token = conn[c].generation] \/ client' = client
        /\ UNCHANGED <<link, received, told, bare, apiVars, graced, sendVars, lease>>
    BY DEF SendActivation
  <1>2. TypeOK /\ conn \in [Conns -> ConnType] /\ conn[c] \in ConnType
    BY Types DEF IInv
  <1>3. /\ client \in [token : Nat, seen : Nat] /\ client.token > 0
        /\ conn[c].generation \in Nat /\ conn[c].generation > 0
    BY <1>1, Types DEF IInv, TypeOK, TokensOK
  <1>4. /\ client' \in [token : Nat, seen : Nat] /\ client'.seen = client.seen
        /\ client'.token > 0
    BY <1>1, <1>3
  <1>5. /\ conn' \in [Conns -> ConnType]
        /\ \A d \in Conns : d # c => conn'[d] = conn[d]
        /\ conn'[c].phase = "replaying" /\ conn'[c].token = conn[c].token
        /\ conn'[c].generation = conn[c].generation
        /\ conn'[c].replay = conn[c].replay /\ conn'[c].after = conn[c].after
        /\ conn'[c].welcomed
    BY <1>1, <1>2 DEF ConnType
  <1>6. TypeOK'
    BY <1>1, <1>2, <1>4, <1>5 DEF TypeOK, ConnType, apiVars, sendVars
  <1>7. \A d \in Conns : Heard(d)' = Heard(d)
    BY <1>1, <1>5 DEF Heard
  <1>8. HolderOK' /\ FreshOK' /\ SendingOK'
    BY <1>1, <1>5, <1>7 DEF IInv, HolderOK, FreshOK, SendingOK, Turn, apiVars, sendVars
  <1>9. ReplayOK' /\ CurrentOK'
    BY <1>1, <1>5, <1>7 DEF IInv, ReplayOK, CurrentOK, apiVars, sendVars
  <1>10. NumbersOK' /\ TokensOK'
    BY <1>1, <1>4, <1>5 DEF IInv, NumbersOK, TokensOK, apiVars, sendVars
  <1>11. GapFree' /\ DetachedHasGrace'
    BY <1>1, <1>5 DEF IInv, GapFree, DetachedHasGrace, Attached, apiVars
  <1> QED
    BY <1>6, <1>8, <1>9, <1>10, <1>11 DEF IInv

(* An entry of the replay is the next number of the transport.             *)
LEMMA ReplayStep ==
  ASSUME IInv, NEW c \in Conns, Replay(c)
  PROVE  IInv'
  <1> DEFINE entries == conn[c].replay
  <1>1. /\ Turn(c) /\ conn[c].phase = "replaying" /\ conn[c].welcomed /\ entries # <<>>
        /\ IF link[c] = "up"
             THEN Deliver(c, Head(entries))
             ELSE UNCHANGED <<received, client>>
        /\ conn' = [conn EXCEPT ![c].replay = Tail(entries)]
        /\ UNCHANGED <<link, told, bare, apiVars, graced, sendVars, lease>>
    BY DEF Replay
  <1>2. /\ TypeOK /\ conn \in [Conns -> ConnType] /\ conn[c] \in ConnType
        /\ conn[c].after \in Nat /\ Heard(c) \in Nat /\ journal.last \in Nat
        /\ entries \in Seq(Nat) /\ received[c] \in Seq(Nat)
    BY Types DEF IInv
  <1>3. /\ sending.to = NoConn /\ sending.number = 0
        /\ \A d \in Conns : conn[d].phase = "replaying" => d = c
    BY <1>1, Holder
  <1> HIDE DEF entries
  <1>4. /\ Len(entries) \in Nat \ {0} /\ Head(entries) = entries[1]
        /\ Tail(entries) \in Seq(Nat) /\ Len(Tail(entries)) = Len(entries) - 1
        /\ \A i \in 1..Len(Tail(entries)) : Tail(entries)[i] = entries[i + 1]
    BY <1>1, <1>2, HeadTailProperties, EmptySeq
  <1>5. /\ conn' \in [Conns -> ConnType]
        /\ \A d \in Conns : d # c => conn'[d] = conn[d]
        /\ conn'[c].phase = "replaying" /\ conn'[c].token = conn[c].token
        /\ conn'[c].generation = conn[c].generation
        /\ conn'[c].replay = Tail(entries) /\ conn'[c].after = conn[c].after
        /\ conn'[c].welcomed
    BY <1>1, <1>2, <1>4 DEF ConnType
  <1>6. client.seen <= journal.last
    BY DEF IInv, NumbersOK
  <1>7. /\ received' \in [Conns -> Seq(Nat)]
        /\ client' \in [token : Nat, seen : Nat] /\ client'.token = client.token
        /\ client'.seen <= journal.last
        /\ \A d \in Conns : d # c => received'[d] = received[d]
        /\ Len(received'[c]) = IF link[c] = "up" THEN Len(received[c]) + 1 ELSE Len(received[c])
        /\ \A i \in 1..Len(received'[c]) : received'[c][i] = conn[c].after + i
    <2>1. CASE link[c] = "up"
      <3>1. 1 \in 1..Len(entries)
        BY <1>4
      <3>2. entries[1] = Heard(c) + 1 /\ entries[1] <= journal.last
        BY <1>1, <2>1, <3>1 DEF IInv, ReplayOK, NumbersOK, entries
      <3>3. entries[1] \in Nat /\ entries[1] > 0
        BY <1>2, <3>2
      <3> QED
        BY <1>1, <1>2, <1>4, <1>6, <2>1, <3>2, <3>3, Delivered DEF IInv
    <2>2. CASE link[c] # "up"
      <3>1. received' = received /\ client' = client
        BY <1>1, <2>2
      <3>2. received \in [Conns -> Seq(Nat)] /\ client \in [token : Nat, seen : Nat]
        BY <1>2 DEF TypeOK
      <3> QED
        BY <1>6, <2>2, <3>1, <3>2 DEF IInv, GapFree
    <2> QED
      BY <2>1, <2>2
  <1>8. TypeOK'
    BY <1>1, <1>2, <1>5, <1>7 DEF TypeOK, ConnType, apiVars, sendVars
  <1>9. HolderOK' /\ FreshOK' /\ SendingOK'
    BY <1>1, <1>3, <1>5, AttachmentAssumption
       DEF IInv, HolderOK, FreshOK, SendingOK, Turn, apiVars, sendVars
  <1>10. ReplayOK'
    <2>1. ASSUME link[c] = "up"
          PROVE  /\ Heard(c)' + Len(Tail(entries)) = journal.last
                 /\ \A i \in 1..Len(Tail(entries)) : Tail(entries)[i] = Heard(c)' + i
      <3>1. Heard(c)' = Heard(c) + 1
        <4>1. Heard(c)' = conn[c].after + (Len(received[c]) + 1) /\ Len(received[c]) \in Nat
          BY <1>2, <1>5, <1>7, <2>1 DEF Heard
        <4>2. \A x, y \in Nat : x + (y + 1) = (x + y) + 1
          OBVIOUS
        <4> QED
          BY <1>2, <4>1, <4>2 DEF Heard
      <3>2. /\ Heard(c) + Len(entries) = journal.last
            /\ \A i \in 1..Len(entries) : entries[i] = Heard(c) + i
        BY <1>1, <2>1 DEF IInv, ReplayOK, entries
      <3>3. (Heard(c) + 1) + (Len(entries) - 1) = Heard(c) + Len(entries)
        BY <1>2, <1>4
      <3>4. ASSUME NEW i \in 1..Len(Tail(entries))
            PROVE  Tail(entries)[i] = (Heard(c) + 1) + i
        <4>1. i + 1 \in 1..Len(entries)
          BY <1>4
        <4>2. Tail(entries)[i] = Heard(c) + (i + 1)
          BY <1>4, <3>2, <4>1
        <4> QED
          BY <1>2, <4>2
      <3> QED
        BY <1>4, <3>1, <3>2, <3>3, <3>4
    <2> QED
      BY <1>1, <1>3, <1>5, <2>1 DEF ReplayOK, apiVars
  <1>11. CurrentOK'
    <2>1. ASSUME NEW d \in Conns, registry.attachment = d, d # c
          PROVE  Heard(d)' = Heard(d)
      BY <1>5, <1>7, <2>1 DEF Heard
    <2> QED
      BY <1>1, <1>3, <1>5, <2>1 DEF IInv, CurrentOK, apiVars, sendVars
  <1>12. NumbersOK'
    <2>1. \A i \in 1..Len(Tail(entries)) : i + 1 \in 1..Len(entries)
      BY <1>4
    <2>2. \A i \in 1..Len(Tail(entries)) : Tail(entries)[i] <= journal.last
      BY <1>4, <2>1 DEF IInv, NumbersOK, entries
    <2> QED
      BY <1>1, <1>5, <1>7, <2>2 DEF IInv, NumbersOK, apiVars, sendVars
  <1>13. TokensOK'
    BY <1>1, <1>5, <1>7 DEF IInv, TokensOK, apiVars
  <1>14. GapFree'
    <2>1. ASSUME NEW d \in Conns
          PROVE  /\ received'[d] # <<>> => conn'[d].welcomed
                 /\ \A i \in 1..Len(received'[d]) : received'[d][i] = conn'[d].after + i
      <3>1. CASE d = c
        BY <1>5, <1>7, <3>1
      <3>2. CASE d # c
        <4>1. /\ received'[d] = received[d] /\ conn'[d].welcomed = conn[d].welcomed
              /\ conn'[d].after = conn[d].after
          BY <1>5, <1>7, <3>2
        <4>2. /\ received[d] # <<>> => conn[d].welcomed
              /\ \A i \in 1..Len(received[d]) : received[d][i] = conn[d].after + i
          BY DEF IInv, GapFree
        <4> QED
          BY <4>1, <4>2
      <3> QED
        BY <3>1, <3>2
    <2> QED
      BY <2>1 DEF GapFree
  <1>15. DetachedHasGrace'
    BY <1>1 DEF IInv, DetachedHasGrace, Attached, apiVars
  <1> QED
    BY <1>8, <1>9, <1>10, <1>11, <1>12, <1>13, <1>14, <1>15 DEF IInv

(* The handshake gives the lock up and ends.                               *)
LEMMA LateSteps ==
  ASSUME IInv, NEW c \in Conns, RefuseResume(c) \/ ReplayFails(c) \/ Resumed(c)
  PROVE  IInv'
  <1>1. /\ Turn(c) /\ queue # <<>> /\ queue' = Tail(queue) /\ known' = conn[c].lease
        /\ UNCHANGED <<link, wireVars, journal, resync, graced, sending, task, lease>>
        /\ conn[c].phase \in {"queued", "replaying"}
        /\ \/ conn' = Ended(c, "done")
           \/ /\ conn' = Ended(c, "attached") /\ registry' = registry
              /\ conn[c].phase = "replaying" /\ conn[c].welcomed /\ conn[c].replay = <<>>
    BY DEF RefuseResume, ReplayFails, Resumed, ResumeRaises, Turn
  <1>2. /\ TypeOK /\ conn \in [Conns -> ConnType] /\ conn[c].lease \in Nat
        /\ Heard(c) \in Nat /\ "done" \in Phases /\ "attached" \in Phases
        /\ conn[c].token \in Nat
    BY Types DEF IInv, Phases
  <1>3. /\ sending.to = NoConn /\ sending.number = 0
        /\ \A d \in Conns : conn[d].phase = "replaying" => d = c
    BY <1>1, Holder
  <1>4. /\ conn' \in [Conns -> ConnType]
        /\ \A d \in Conns : d # c => conn'[d] = conn[d]
        /\ conn'[c].phase \in {"done", "attached"} /\ conn'[c].replay = <<>>
        /\ conn'[c].phase = "attached" =>
              /\ registry' = registry /\ conn[c].welcomed
              /\ conn[c].phase = "replaying" /\ conn[c].replay = <<>>
        /\ conn'[c].after = conn[c].after /\ conn'[c].welcomed = conn[c].welcomed
        /\ conn'[c].generation = conn[c].generation
    BY <1>1, <1>2, EndedOK
  <1>5. /\ registry' \in [present : BOOLEAN, generation : Nat, attachment : Conns \cup {NoConn},
                          recovery : Nat, grace : Nat]
        /\ registry'.present = registry.present /\ registry'.generation = registry.generation
        /\ registry'.attachment = registry.attachment \/ registry'.attachment = NoConn
        /\ registry' = registry \/ (registry'.recovery = conn[c].token /\ conn[c].phase = "replaying")
        /\ conn'[c].phase = "done" => registry'.attachment # c
    <2>1. registry \in [present : BOOLEAN, generation : Nat, attachment : Conns \cup {NoConn},
                        recovery : Nat, grace : Nat]
      BY <1>2 DEF TypeOK
    <2>2. registry.attachment = c =>
             /\ registry.present /\ registry.generation = conn[c].generation
             /\ conn[c].phase = "replaying"
      BY <1>1 DEF IInv, CurrentOK
    <2>3. CASE RefuseResume(c)
      BY <2>1, <2>2, <2>3 DEF RefuseResume
    <2>4. CASE ReplayFails(c)
      BY <1>2, <2>1, <2>2, <2>4, AttachmentAssumption DEF ReplayFails
    <2>5. CASE Resumed(c)
      BY <1>2, <2>1, <2>5, EndedOK DEF Resumed
    <2> QED
      BY <2>3, <2>4, <2>5
  <1>6. queue' \in Seq(Conns \cup Senders)
    BY <1>1, <1>2, Leaves
  <1>7. TypeOK'
    BY <1>1, <1>2, <1>4, <1>5, <1>6 DEF TypeOK, ConnType, wireVars
  <1>8. \A d \in Conns : Heard(d)' = Heard(d)
    BY <1>1, <1>4 DEF Heard, wireVars
  <1>9. HolderOK' /\ FreshOK' /\ ReplayOK' /\ SendingOK'
    BY <1>1, <1>3, <1>4, AttachmentAssumption
       DEF IInv, HolderOK, FreshOK, ReplayOK, SendingOK, wireVars
  <1>10. CurrentOK'
    <2>1. conn'[c].phase = "attached" /\ link[c] = "up" => Heard(c) = journal.last
      <3>1. conn[c].replay = <<>> => Len(conn[c].replay) = 0
        OBVIOUS
      <3> QED
        BY <1>2, <1>4, <3>1 DEF IInv, ReplayOK
    <2> QED
      BY <1>1, <1>3, <1>4, <1>5, <1>8, <2>1, AttachmentAssumption DEF IInv, CurrentOK
  <1>11. NumbersOK' /\ TokensOK'
    <2>1. NumbersOK'
      BY <1>1, <1>4, <1>5 DEF IInv, NumbersOK, wireVars
    <2>2. TokensOK'
      BY <1>1, <1>4, <1>5 DEF IInv, TokensOK, wireVars
    <2> QED
      BY <2>1, <2>2
  <1>12. GapFree'
    BY <1>1, <1>4 DEF IInv, GapFree, wireVars
  <1>13. DetachedHasGrace'
    <2>1. conn[c].phase = "replaying" => conn[c].token # 0
      BY <1>2 DEF IInv, TokensOK
    <2> QED
      BY <1>1, <1>5, <2>1 DEF IInv, DetachedHasGrace, Attached
  <1> QED
    BY <1>7, <1>9, <1>10, <1>11, <1>12, <1>13 DEF IInv

-----------------------------------------------------------------------------
(* The theorems.                                                           *)

(* The invariant holds in the initial state.                               *)
LEMMA InitOK == Init => IInv
  <1> SUFFICES ASSUME Init PROVE IInv
    OBVIOUS
  <1>1. /\ \A c \in Conns :
              /\ conn[c].phase = IF c = First THEN "attached" ELSE "new"
              /\ conn[c].after = 0 /\ conn[c].replay = <<>> /\ conn[c].welcomed = (c = First)
              /\ conn[c].generation = IF c = First THEN 1 ELSE 0
        /\ \A c \in Conns : received[c] = <<>>
    BY DEF Init
  <1>2. TypeOK
    <2>1. <<>> \in Seq(Nat) /\ <<>> \in Seq(Conns \cup Senders)
      OBVIOUS
    <2>2. conn \in [Conns -> ConnType]
      <3>1. conn = [c \in Conns |->
                      [phase |-> IF c = First THEN "attached" ELSE "new",
                       token |-> 0, after |-> 0, lease |-> 0,
                       generation |-> IF c = First THEN 1 ELSE 0,
                       replay |-> <<>>, welcomed |-> c = First]]
        BY DEF Init
      <3>2. ASSUME NEW c \in Conns
            PROVE  conn[c] \in ConnType
        <4>1. CASE c = First
          BY <2>1, <3>1, <4>1 DEF ConnType, Phases
        <4>2. CASE c # First
          BY <2>1, <3>1, <4>2 DEF ConnType, Phases
        <4> QED
          BY <4>1, <4>2
      <3> QED
        BY <3>1, <3>2
    <2>3. /\ link \in [Conns -> {"up", "silent", "down"}]
          /\ received \in [Conns -> Seq(Nat)]
          /\ client \in [token : Nat, seen : Nat]
          /\ sending \in [to : Conns \cup {NoConn}, number : Nat]
          /\ task \in [Senders -> {"idle", "event", "resync", "bare"}]
          /\ lease \in [generation : Nat, detached : BOOLEAN, terminal : BOOLEAN]
      BY <2>1 DEF Init, NotSending
    <2>4. registry \in [present : BOOLEAN, generation : Nat, attachment : Conns \cup {NoConn},
                        recovery : Nat, grace : Nat]
      BY AttachmentAssumption DEF Init
    <2>5. /\ journal \in [dropped : Nat, last : Nat, overflowed : BOOLEAN]
          /\ journal.dropped <= journal.last
      BY DEF Init
    <2>6. /\ told \subseteq Conns /\ bare \subseteq Conns /\ graced \in Nat /\ known \in Nat
          /\ resync \in BOOLEAN /\ queue \in Seq(Conns \cup Senders)
      BY <2>1 DEF Init
    <2> QED
      BY <2>2, <2>3, <2>4, <2>5, <2>6 DEF TypeOK, ConnType
  <1>3. /\ client.seen = 0 /\ client.token = 1 /\ sending.to = NoConn /\ sending.number = 0
        /\ journal.last = 0 /\ registry.present /\ registry.attachment = First
        /\ registry.generation = 1
    BY DEF Init, NotSending
  <1>4. ASSUME NEW c \in Conns
        PROVE  Heard(c) = 0
    <2>1. conn[c].after = 0 /\ received[c] = <<>> /\ Len(<<>>) = 0
      BY <1>1
    <2>2. Len(received[c]) = 0
      BY <2>1
    <2> QED
      BY <2>1, <2>2 DEF Heard
  <1>5. HolderOK /\ FreshOK /\ ReplayOK
    BY <1>1, <1>3 DEF HolderOK, FreshOK, ReplayOK
  <1>6. CurrentOK /\ SendingOK
    <2>1. CurrentOK
      BY <1>1, <1>3, <1>4, AttachmentAssumption DEF CurrentOK
    <2>2. SendingOK
      BY <1>3, AttachmentAssumption DEF SendingOK
    <2> QED
      BY <2>1, <2>2
  <1>7. NumbersOK /\ TokensOK /\ GapFree
    BY <1>1, <1>3 DEF NumbersOK, TokensOK, GapFree
  <1>8. DetachedHasGrace
    BY <1>3, AttachmentAssumption DEF DetachedHasGrace, Attached
  <1> QED
    BY <1>2, <1>5, <1>6, <1>7, <1>8 DEF IInv

(* Every step preserves it.                                                *)
LEMMA NextOK == IInv /\ [Next]_vars => IInv'
  <1> SUFFICES ASSUME IInv, [Next]_vars PROVE IInv'
    OBVIOUS
  <1>1. CASE UNCHANGED vars
    <2>1. TypeOK'
      BY <1>1 DEF vars, wireVars, apiVars, sendVars, IInv, TypeOK
    <2>2. HolderOK' /\ FreshOK' /\ ReplayOK' /\ CurrentOK' /\ SendingOK' /\ NumbersOK' /\ TokensOK'
      BY <1>1 DEF vars, wireVars, apiVars, sendVars, IInv, HolderOK, FreshOK, ReplayOK,
                  CurrentOK, SendingOK, NumbersOK, TokensOK, Heard, Turn
    <2>3. GapFree' /\ DetachedHasGrace'
      BY <1>1 DEF vars, wireVars, apiVars, sendVars, IInv, GapFree, DetachedHasGrace, Attached
    <2> QED
      BY <2>1, <2>2, <2>3 DEF IInv
  <1>2. ASSUME NEW s \in Senders, Emit(s) \/ SendStep(s)
        PROVE  IInv'
    BY <1>2, EmitStep, SendEventStep, SenderSteps, SendDoneStep DEF SendStep
  <1>3. ASSUME NEW c \in Conns,
               \/ Acknowledge(c) \/ Connect(c) \/ HandshakeStep(c)
               \/ LinkDown(c) \/ LinkSilent(c)
               \/ Detach(c) \/ TouchDetach(c)
        PROVE  IInv'
    <2>1. CASE HandshakeStep(c)
      BY <2>1, EarlySteps, ActivateStep, SendActivationStep, ReplayStep, LateSteps
         DEF HandshakeStep
    <2> QED
      BY <1>3, <2>1, JournalSteps, EarlySteps, LinkSteps, DetachSteps
  <1>4. CASE ExpireEntry \/ GraceExpires \/ Reap \/ CloseAttachment
    BY <1>4, JournalSteps, EndSteps
  <1> QED
    BY <1>1, <1>2, <1>3, <1>4 DEF Next

(* The state of a session's attachments keeps its type, and the journal    *)
(* never drops more than it has numbered.                                  *)
THEOREM AttachmentTypeCorrect == Spec => []TypeOK
  <1>1. IInv => TypeOK
    BY DEF IInv
  <1> QED
    BY <1>1, InitOK, NextOK, PTL DEF Spec

(* No transport ever receives the events with a gap, twice or out of       *)
(* order: from the number it resumed at, each is one more than the last.   *)
THEOREM ReceivedWithoutGap == Spec => []GapFree
  <1>1. IInv => GapFree
    BY DEF IInv
  <1> QED
    BY <1>1, InitOK, NextOK, PTL DEF Spec

(* A detached session has a grace that runs or has ended, unless a resume  *)
(* failed after it was accepted.                                           *)
THEOREM GraceIsKept == Spec => []DetachedHasGrace
  <1>1. IInv => DetachedHasGrace
    BY DEF IInv
  <1> QED
    BY <1>1, InitOK, NextOK, PTL DEF Spec

-----------------------------------------------------------------------------

(* A handshake that the engine has granted and that has not ended.         *)
Granted(c) == conn[c].phase \in {"queued", "replaying"}

(* The engine's compare-and-set lets no handshake in before the one that   *)
(* was granted last has ended and its lease generation is known.           *)
HandshakesOK ==
    registry.present =>
        /\ known <= lease.generation
        /\ \A c \in Conns :
             /\ conn[c].phase = "control" =>
                  /\ conn[c].lease <= known
                  /\ conn[c].lease = lease.generation => conn[c].token = client.token
             /\ Granted(c) => known < conn[c].lease /\ conn[c].lease <= lease.generation
        /\ \A c, d \in Conns : Granted(c) /\ Granted(d) => c = d

(* So the token of a granted handshake is the client's until its           *)
(* activation is sent, and the generation is the one it has rotated to.    *)
RotationOK ==
    registry.present =>
        /\ client.token <= registry.generation
        /\ \A c \in Conns :
             /\ conn[c].phase = "queued" => conn[c].token = client.token
             /\ conn[c].phase = "replaying" =>
                  /\ conn[c].generation = registry.generation
                  /\ ~conn[c].welcomed =>
                       conn[c].token = client.token /\ client.token < registry.generation

TInv == HandshakesOK /\ RotationOK /\ TokenAccepted

(* A step that leaves the handshakes, the tokens and the leases alone.     *)
LEMMA TokenFrame ==
  ASSUME TInv, UNCHANGED <<conn, known, lease>>, client'.token = client.token,
         registry'.present = registry.present, registry'.generation = registry.generation,
         registry'.attachment = registry.attachment, registry'.recovery = registry.recovery
  PROVE  TInv'
  <1>1. HandshakesOK'
    BY DEF TInv, HandshakesOK, Granted
  <1>2. RotationOK'
    BY DEF TInv, RotationOK
  <1>3. TokenAccepted'
    BY DEF TInv, TokenAccepted, Accepts, Attached
  <1> QED
    BY <1>1, <1>2, <1>3 DEF TInv

(* The steps of the senders and of the journal, of the links and the grace.*)
LEMMA TokenUntouched ==
  ASSUME TypeOK, TInv,
         \/ \E s \in Senders : Emit(s) \/ SendStep(s)
         \/ \E c \in Conns : Acknowledge(c) \/ LinkDown(c) \/ LinkSilent(c)
         \/ ExpireEntry \/ GraceExpires
  PROVE  TInv'
  <1>1. UNCHANGED <<conn, known, lease>>
    BY DEF Emit, SendStep, SendEvent, Overflow, SendUnknown, SendDone, SendFails, Acknowledge,
           LinkDown, LinkSilent, ExpireEntry, GraceExpires, apiVars, sendVars, wireVars
  <1>2. client'.token = client.token
    <2>1. client \in [token : Nat, seen : Nat]
      BY DEF TypeOK
    <2>2. \/ client' = client
          \/ \E n : client' = [client EXCEPT !.seen = n]
      BY DEF Emit, SendStep, SendEvent, Overflow, SendUnknown, SendDone, SendFails, Acknowledge,
             LinkDown, LinkSilent, ExpireEntry, GraceExpires, apiVars, sendVars, wireVars, Deliver
    <2> QED
      BY <2>1, <2>2
  <1>3. registry' = registry \/ registry' = [registry EXCEPT !.grace = 0]
    BY DEF Emit, SendStep, SendEvent, Overflow, SendUnknown, SendDone, SendFails, Acknowledge,
           LinkDown, LinkSilent, ExpireEntry, GraceExpires, apiVars, sendVars, wireVars
  <1>4. registry \in [present : BOOLEAN, generation : Nat, attachment : Conns \cup {NoConn},
                      recovery : Nat, grace : Nat]
    BY DEF TypeOK
  <1>5. /\ registry'.present = registry.present /\ registry'.generation = registry.generation
        /\ registry'.attachment = registry.attachment /\ registry'.recovery = registry.recovery
    BY <1>3, <1>4
  <1> QED
    BY <1>1, <1>2, <1>5, TokenFrame

(* What a handshake is after a step that touches only its own record.      *)
LEMMA Others ==
  ASSUME TypeOK, NEW c \in Conns, NEW r, conn' = [conn EXCEPT ![c] = r]
  PROVE  conn'[c] = r /\ \A d \in Conns \ {c} : conn'[d] = conn[d]
  BY DEF TypeOK

(* The types of the leases.                                                *)
LEMMA LeaseTypes ==
  ASSUME TypeOK
  PROVE  /\ lease \in [generation : Nat, detached : BOOLEAN, terminal : BOOLEAN]
         /\ lease.generation \in Nat /\ known \in Nat
         /\ registry \in [present : BOOLEAN, generation : Nat, attachment : Conns \cup {NoConn},
                          recovery : Nat, grace : Nat]
         /\ registry.generation \in Nat /\ registry.present \in BOOLEAN
         /\ client \in [token : Nat, seen : Nat]
  BY DEF TypeOK

(* The session leaves the registry, or its lease ends: what was granted    *)
(* stays so, and nothing is granted any more.                              *)
LEMMA TokenEnds ==
  ASSUME TypeOK, TInv, Reap \/ CloseAttachment
  PROVE  TInv'
  <1>1. CASE CloseAttachment
    <2>1. ~registry'.present
      BY <1>1, LeaseTypes DEF CloseAttachment
    <2> QED
      BY <2>1 DEF TInv, HandshakesOK, RotationOK, TokenAccepted
  <1>2. CASE Reap
    <2>1. UNCHANGED <<conn, known, registry, client>>
      BY <1>2 DEF Reap, apiVars, wireVars
    <2>2. lease'.generation = lease.generation + 1 /\ lease.generation \in Nat /\ known \in Nat
      BY <1>2, LeaseTypes DEF Reap, MarkTerminal
    <2>3. \A c \in Conns : conn[c].lease \in Nat
      BY Types
    <2>4. HandshakesOK'
      BY <2>1, <2>2, <2>3 DEF TInv, HandshakesOK, Granted
    <2>5. RotationOK' /\ TokenAccepted'
      BY <2>1 DEF TInv, RotationOK, TokenAccepted, Accepts, Attached
    <2> QED
      BY <2>4, <2>5 DEF TInv
  <1> QED
    BY <1>1, <1>2

(* A transport connects with the client's token and the known lease.       *)
LEMMA TokenConnect ==
  ASSUME TypeOK, TInv, NEW c \in Conns, Connect(c)
  PROVE  TInv'
  <1>1. /\ conn[c].phase = "new"
        /\ UNCHANGED <<registry, known, lease, client>>
    BY DEF Connect, apiVars, wireVars
  <1>2. /\ \A d \in Conns \ {c} : conn'[d] = conn[d]
        /\ conn'[c].welcomed = conn[c].welcomed /\ conn'[c].generation = conn[c].generation
        /\ \/ conn'[c].phase = "done"
           \/ /\ conn'[c].phase = "control" /\ conn'[c].token = client.token
              /\ conn'[c].lease = known
    <2>1. conn \in [Conns -> ConnType] /\ conn[c] \in ConnType
      BY Types
    <2> QED
      BY <2>1 DEF Connect, Ended, ConnType
  <1>3. known \in Nat /\ lease.generation \in Nat
    BY LeaseTypes
  <1>4. HandshakesOK'
    BY <1>1, <1>2, <1>3 DEF TInv, HandshakesOK, Granted
  <1>5. RotationOK'
    BY <1>1, <1>2 DEF TInv, RotationOK
  <1>6. TokenAccepted'
    BY <1>1, <1>2 DEF TInv, TokenAccepted, Accepts, Attached
  <1> QED
    BY <1>4, <1>5, <1>6 DEF TInv

(* The engine grants the lease or refuses it.                              *)
LEMMA TokenControl ==
  ASSUME TypeOK, TInv, NEW c \in Conns, EngineResume(c) \/ EngineRefuses(c)
  PROVE  TInv'
  <1>1. /\ conn[c].phase = "control"
        /\ UNCHANGED <<registry, known, client>>
    BY DEF EngineResume, EngineRefuses, apiVars, wireVars
  <1>2. /\ \A d \in Conns \ {c} : conn'[d] = conn[d]
        /\ conn'[c].welcomed = conn[c].welcomed /\ conn'[c].generation = conn[c].generation
        /\ \/ conn'[c].phase = "done" /\ lease' = lease
           \/ /\ conn'[c].phase = "queued" /\ conn'[c].token = conn[c].token
              /\ conn[c].lease = lease.generation
              /\ conn'[c].lease = lease.generation + 1
              /\ lease'.generation = lease.generation + 1
    <2>1. conn \in [Conns -> ConnType] /\ conn[c] \in ConnType
      BY Types
    <2>2. CASE EngineResume(c)
      <3>1. lease'.generation = lease.generation + 1
        BY <2>2, LeaseTypes DEF EngineResume
      <3> QED
        BY <2>1, <2>2, <3>1 DEF EngineResume, ConnType
    <2>3. CASE EngineRefuses(c)
      BY <2>1, <2>3 DEF EngineRefuses, Ended, ConnType
    <2> QED
      BY <2>2, <2>3
  <1>3. known \in Nat /\ lease.generation \in Nat /\ \A d \in Conns : conn[d].lease \in Nat
    BY LeaseTypes, Types
  <1>4. HandshakesOK'
    <2>1. CASE lease' = lease /\ conn'[c].phase = "done"
      BY <1>1, <1>2, <2>1 DEF TInv, HandshakesOK, Granted
    <2>2. CASE conn'[c].phase = "queued" /\ lease'.generation = lease.generation + 1
      <3> SUFFICES ASSUME registry.present PROVE HandshakesOK'
        BY <1>1 DEF HandshakesOK
      <3>1. /\ conn[c].lease = lease.generation /\ conn'[c].lease = lease.generation + 1
            /\ known = lease.generation
        BY <1>1, <1>2, <1>3, <2>2 DEF TInv, HandshakesOK
      <3>2. \A d \in Conns : ~Granted(d)
        BY <1>3, <3>1 DEF TInv, HandshakesOK
      <3> QED
        BY <1>1, <1>2, <1>3, <2>2, <3>1, <3>2 DEF TInv, HandshakesOK, Granted
    <2> QED
      BY <1>2, <2>1, <2>2
  <1>5. RotationOK'
    BY <1>1, <1>2 DEF TInv, RotationOK, HandshakesOK
  <1>6. TokenAccepted'
    BY <1>1, <1>2 DEF TInv, TokenAccepted, Accepts, Attached
  <1> QED
    BY <1>4, <1>5, <1>6 DEF TInv

(* The activation: the client's token is the one that is rotated.          *)
LEMMA TokenActivate ==
  ASSUME TypeOK, FreshOK, TInv, NEW c \in Conns, Activate(c)
  PROVE  TInv'
  <1>1. /\ conn[c].phase = "queued" /\ registry.present
        /\ registry'.present /\ registry'.generation = registry.generation + 1
        /\ UNCHANGED <<known, client, lease>>
    BY LeaseTypes DEF Activate, MayResume, wireVars
  <1>2. /\ \A d \in Conns \ {c} : conn'[d] = conn[d]
        /\ conn'[c].welcomed = conn[c].welcomed /\ conn'[c].lease = conn[c].lease
        /\ conn'[c].phase = "replaying" /\ conn'[c].token = conn[c].token
        /\ conn'[c].generation = registry.generation + 1
    <2>1. conn \in [Conns -> ConnType] /\ conn[c] \in ConnType
      BY Types
    <2> QED
      BY <2>1 DEF Activate, ConnType
  <1>3. registry.generation \in Nat /\ client.token \in Nat
    BY LeaseTypes, Types
  <1>4. ~conn[c].welcomed /\ conn[c].token = client.token
    BY <1>1 DEF FreshOK, TInv, RotationOK
  <1>5. HandshakesOK'
    BY <1>1, <1>2 DEF TInv, HandshakesOK, Granted
  <1>6. RotationOK'
    <2>1. \A d \in Conns \ {c} : conn[d].phase \notin {"queued", "replaying"}
      BY <1>1 DEF TInv, HandshakesOK, Granted
    <2> QED
      BY <1>1, <1>2, <1>3, <1>4, <2>1 DEF TInv, RotationOK
  <1>7. TokenAccepted'
    BY <1>1, <1>2, <1>4 DEF TokenAccepted
  <1> QED
    BY <1>5, <1>6, <1>7 DEF TInv

(* The client learns the rotated token, or has one before it.              *)
LEMMA TokenSent ==
  ASSUME TypeOK, TInv, NEW c \in Conns, SendActivation(c) \/ Replay(c)
  PROVE  TInv'
  <1>1. /\ conn[c].phase = "replaying"
        /\ UNCHANGED <<registry, known, lease>>
    BY DEF SendActivation, Replay, apiVars
  <1>2. /\ \A d \in Conns \ {c} : conn'[d] = conn[d]
        /\ conn'[c].phase = conn[c].phase /\ conn'[c].lease = conn[c].lease
        /\ conn'[c].token = conn[c].token /\ conn'[c].generation = conn[c].generation
        /\ conn'[c].welcomed
    <2>1. conn \in [Conns -> ConnType] /\ conn[c] \in ConnType
      BY Types
    <2>2. CASE SendActivation(c)
      BY <2>1, <2>2 DEF SendActivation, ConnType
    <2>3. CASE Replay(c)
      BY <2>1, <2>3 DEF Replay, ConnType
    <2> QED
      BY <2>2, <2>3
  <1>3. client'.token \in {client.token, conn[c].generation}
    <2>1. CASE SendActivation(c)
      BY <2>1, LeaseTypes DEF SendActivation
    <2>2. CASE Replay(c)
      <3>1. client' = client \/ \E n : client' = [client EXCEPT !.seen = n]
        BY <2>2 DEF Replay, Deliver
      <3> QED
        BY <3>1, LeaseTypes
    <2> QED
      BY <2>1, <2>2
  <1>4. registry.generation \in Nat /\ client.token \in Nat /\ lease.generation \in Nat /\ known \in Nat
        /\ \A d \in Conns : conn[d].lease \in Nat
    BY LeaseTypes, Types
  <1> SUFFICES ASSUME registry.present PROVE TInv'
    BY <1>1 DEF TInv, HandshakesOK, RotationOK, TokenAccepted
  <1>5. /\ \A d \in Conns \ {c} : conn[d].phase \notin {"queued", "replaying"}
        /\ conn[c].generation = registry.generation
        /\ client.token <= registry.generation
        /\ \A d \in Conns : conn[d].phase = "control" => conn[d].lease # lease.generation
    BY <1>1, <1>4 DEF TInv, HandshakesOK, RotationOK, Granted
  <1>6. HandshakesOK'
    BY <1>1, <1>2, <1>5 DEF TInv, HandshakesOK, Granted
  <1>7. RotationOK'
    BY <1>1, <1>2, <1>3, <1>4, <1>5 DEF RotationOK
  <1>8. TokenAccepted'
    <2>1. CASE client'.token = registry.generation
      BY <1>1, <2>1 DEF TokenAccepted, Accepts
    <2>2. CASE client'.token # registry.generation
      BY <1>1, <1>2, <1>3, <1>4, <1>5, <2>2 DEF TokenAccepted
    <2> QED
      BY <2>1, <2>2
  <1> QED
    BY <1>6, <1>7, <1>8 DEF TInv

(* A granted handshake ends, and its lease generation becomes known.       *)
LEMMA TokenHandshakeEnds ==
  ASSUME TypeOK, TInv, NEW c \in Conns, RefuseResume(c) \/ ReplayFails(c) \/ Resumed(c)
  PROVE  TInv'
  <1>1. /\ Granted(c)
        /\ known' = conn[c].lease /\ UNCHANGED <<client, lease>>
        /\ \/ registry' = registry /\ (conn[c].phase = "replaying" => conn[c].welcomed)
           \/ registry' = registry /\ conn[c].phase = "replaying" /\ ~registry.present
           \/ registry' = registry /\ registry.generation # conn[c].generation
                /\ conn[c].phase = "replaying"
           \/ /\ registry' = [registry EXCEPT !.attachment = NoConn, !.recovery = conn[c].token]
              /\ conn[c].phase = "replaying"
    BY DEF RefuseResume, ReplayFails, Resumed, ResumeRaises, Granted, wireVars
  <1>2. /\ \A d \in Conns \ {c} : conn'[d] = conn[d]
        /\ conn'[c].phase \in {"done", "attached"}
        /\ conn'[c].welcomed = conn[c].welcomed /\ conn'[c].generation = conn[c].generation
    <2>1. conn \in [Conns -> ConnType] /\ conn[c] \in ConnType
      BY Types
    <2> QED
      BY <2>1 DEF RefuseResume, ReplayFails, Resumed, ResumeRaises, Ended, ConnType
  <1>3. registry.generation \in Nat /\ client.token \in Nat /\ lease.generation \in Nat /\ known \in Nat
        /\ \A d \in Conns : conn[d].lease \in Nat
    BY LeaseTypes, Types
  <1>4. registry'.present = registry.present /\ registry'.generation = registry.generation
    BY <1>1, LeaseTypes
  <1> SUFFICES ASSUME registry.present PROVE TInv'
    BY <1>4 DEF TInv, HandshakesOK, RotationOK, TokenAccepted
  <1>5. /\ \A d \in Conns \ {c} : conn[d].phase \notin {"queued", "replaying"}
        /\ known < conn[c].lease /\ conn[c].lease <= lease.generation
        /\ conn[c].phase = "replaying" => conn[c].generation = registry.generation
    BY <1>1 DEF TInv, HandshakesOK, RotationOK, Granted
  <1>6. HandshakesOK'
    BY <1>1, <1>2, <1>3, <1>4, <1>5 DEF TInv, HandshakesOK, Granted
  <1>7. RotationOK'
    BY <1>1, <1>2, <1>4, <1>5 DEF TInv, RotationOK
  <1>8. TokenAccepted'
    <2>1. CASE registry' = registry /\ (conn[c].phase = "replaying" => conn[c].welcomed)
      BY <1>1, <1>2, <2>1 DEF TInv, TokenAccepted, Accepts, Attached
    <2>2. CASE /\ registry' = [registry EXCEPT !.attachment = NoConn, !.recovery = conn[c].token]
               /\ conn[c].phase = "replaying"
      <3>1. registry'.recovery = conn[c].token /\ registry'.attachment = NoConn
        BY <2>2, LeaseTypes
      <3>2. CASE ~conn[c].welcomed
        <4>1. conn[c].token = client.token
          BY <2>2, <3>2 DEF TInv, RotationOK
        <4> QED
          BY <1>1, <3>1, <4>1 DEF TokenAccepted, Accepts, Attached
      <3>3. CASE conn[c].welcomed
        <4>1. client.token <= registry.generation
          BY DEF TInv, RotationOK
        <4>2. CASE client.token = registry.generation
          BY <1>1, <1>4, <4>2 DEF TokenAccepted, Accepts
        <4>3. CASE client.token # registry.generation
          <5>1. conn'[c].welcomed /\ conn'[c].generation > client'.token
            BY <1>1, <1>2, <1>3, <1>5, <2>2, <3>3, <4>1, <4>3
          <5> QED
            BY <5>1 DEF TokenAccepted
        <4> QED
          BY <4>2, <4>3
      <3> QED
        BY <3>2, <3>3
    <2> QED
      BY <1>1, <1>5, <2>1, <2>2
  <1> QED
    BY <1>6, <1>7, <1>8 DEF TInv

(* A runner leaves: at most nobody is attached any more.                   *)
LEMMA TokenDetach ==
  ASSUME TypeOK, TInv, NEW c \in Conns, Detach(c) \/ TouchDetach(c)
  PROVE  TInv'
  <1>1. /\ conn[c].phase \in {"attached", "touching"}
        /\ UNCHANGED <<known, client>> /\ lease'.generation = lease.generation
        /\ registry'.present = registry.present /\ registry'.generation = registry.generation
        /\ registry'.recovery = registry.recovery
        /\ registry'.attachment \in {registry.attachment, NoConn}
    BY LeaseTypes DEF Detach, TouchDetach, wireVars, apiVars
  <1>2. /\ \A d \in Conns \ {c} : conn'[d] = conn[d]
        /\ conn'[c].phase \in {"touching", "done"}
        /\ conn'[c].welcomed = conn[c].welcomed /\ conn'[c].generation = conn[c].generation
    <2>1. conn \in [Conns -> ConnType] /\ conn[c] \in ConnType
      BY Types
    <2> QED
      BY <2>1 DEF Detach, TouchDetach, ConnType
  <1>3. HandshakesOK'
    BY <1>1, <1>2 DEF TInv, HandshakesOK, Granted
  <1>4. RotationOK'
    BY <1>1, <1>2 DEF TInv, RotationOK
  <1>5. TokenAccepted'
    BY <1>1, <1>2 DEF TInv, TokenAccepted, Accepts, Attached
  <1> QED
    BY <1>3, <1>4, <1>5 DEF TInv

LEMMA TokenInit == Init => TInv
  <1> SUFFICES ASSUME Init PROVE TInv
    OBVIOUS
  <1>1. /\ \A c \in Conns : conn[c].phase = IF c = First THEN "attached" ELSE "new"
        /\ client.token = 1 /\ registry.generation = 1 /\ known = 0 /\ lease.generation = 0
    BY DEF Init
  <1> QED
    BY <1>1 DEF TInv, HandshakesOK, RotationOK, TokenAccepted, Granted, Accepts

LEMMA TokenNext == IInv /\ TInv /\ [Next]_vars => TInv'
  <1> SUFFICES ASSUME IInv, TInv, [Next]_vars PROVE TInv'
    OBVIOUS
  <1>1. TypeOK /\ FreshOK
    BY DEF IInv
  <1>2. CASE UNCHANGED vars
    BY <1>2, TokenFrame DEF vars, wireVars, apiVars
  <1>3. CASE \E c \in Conns : Connect(c) \/ HandshakeStep(c) \/ Detach(c) \/ TouchDetach(c)
    BY <1>1, <1>3, TokenConnect, TokenControl, TokenActivate, TokenSent, TokenHandshakeEnds,
       TokenDetach DEF HandshakeStep
  <1>4. CASE Reap \/ CloseAttachment
    BY <1>1, <1>4, TokenEnds
  <1> QED
    BY <1>1, <1>2, <1>3, <1>4, TokenUntouched DEF Next

(* After any number of resumes, failed or lost, the client has a token     *)
(* that is accepted, or its new one is under way.                          *)
THEOREM ClientKeepsToken == Spec => []TokenAccepted
  <1>1. TInv => TokenAccepted
    BY DEF TInv
  <1>2. Spec => []IInv
    BY InitOK, NextOK, PTL DEF Spec
  <1> QED
    BY <1>1, <1>2, TokenInit, TokenNext, PTL DEF Spec

-----------------------------------------------------------------------------

(* A sender waits once, while it has something to send; the one that       *)
(* announces the overflow is before everyone who sends without a number.   *)
QueueOK ==
    /\ \A i, j \in 1..Len(queue) : queue[i] = queue[j] /\ queue[i] \in Senders => i = j
    /\ \A s \in Senders : task[s] # "idle" <=> \E i \in 1..Len(queue) : queue[i] = s
    /\ \A i, j \in 1..Len(queue) :
         queue[i] \in Senders /\ queue[j] \in Senders
           /\ task[queue[i]] = "resync" /\ task[queue[j]] = "bare" => i < j

(* Nobody is attached, or who is was told or does not listen any more.     *)
Informed ==
    \/ registry.attachment = NoConn
    \/ registry.attachment \in told
    \/ link[registry.attachment] # "up"

(* Once the journal has overflowed, it is announced or will be.            *)
OverflowOK ==
    /\ resync => journal.overflowed
    /\ journal.overflowed /\ registry.present => resync
    /\ \A s \in Senders : task[s] \in {"resync", "bare"} => journal.overflowed
    /\ journal.overflowed => Informed \/ \E s \in Senders : task[s] = "resync"

(* While something is sent nobody else is attached.                        *)
InformedOK ==
    /\ ~registry.present => registry.attachment = NoConn
    /\ sending.to # NoConn =>
         /\ registry.attachment \in {NoConn, sending.to}
         /\ task[Head(queue)] = "bare" => sending.to \in told \/ link[sending.to] # "up"

RInv == QueueOK /\ OverflowOK /\ InformedOK /\ ResyncFirst

(* Steps of others: the queue and what is sent stay as they are.           *)
LEMMA ResyncFrame ==
  ASSUME TypeOK, RInv, UNCHANGED <<queue, task, sending, told, bare>>,
         journal'.overflowed = journal.overflowed,
         resync' => resync,
         registry'.present => registry.present /\ resync' = resync,
         registry'.attachment \in {registry.attachment, NoConn},
         ~registry'.present => registry'.attachment = NoConn,
         \A c \in Conns : link[c] # "up" => link'[c] # "up"
  PROVE  RInv'
  <1>1. QueueOK' /\ ResyncFirst'
    BY DEF RInv, QueueOK, ResyncFirst
  <1>2. registry.attachment \in Conns \cup {NoConn} /\ sending.to \in Conns \cup {NoConn}
    BY Types
  <1>3. Informed => Informed'
    BY <1>2 DEF Informed
  <1>4. OverflowOK'
    BY <1>3 DEF RInv, OverflowOK
  <1>5. InformedOK'
    BY <1>2 DEF RInv, InformedOK
  <1> QED
    BY <1>1, <1>4, <1>5 DEF RInv

LEMMA ResyncUntouched ==
  ASSUME IInv, RInv,
         \/ \E c \in Conns :
              \/ Acknowledge(c) \/ LinkDown(c) \/ LinkSilent(c) \/ Detach(c) \/ TouchDetach(c)
              \/ Connect(c) \/ EngineRefuses(c) \/ SendActivation(c) \/ Replay(c)
         \/ ExpireEntry \/ GraceExpires \/ Reap \/ CloseAttachment
         \/ UNCHANGED vars
  PROVE  RInv'
  <1> DEFINE Act ==
         \/ \E c \in Conns :
              \/ Acknowledge(c) \/ LinkDown(c) \/ LinkSilent(c) \/ Detach(c) \/ TouchDetach(c)
              \/ Connect(c) \/ EngineRefuses(c) \/ SendActivation(c) \/ Replay(c)
         \/ ExpireEntry \/ GraceExpires \/ Reap \/ CloseAttachment
         \/ UNCHANGED vars
  <1>0. TypeOK /\ registry \in [present : BOOLEAN, generation : Nat,
                                attachment : Conns \cup {NoConn}, recovery : Nat, grace : Nat]
        /\ journal \in [dropped : Nat, last : Nat, overflowed : BOOLEAN]
        /\ link \in [Conns -> {"up", "silent", "down"}]
    BY DEF IInv, TypeOK
  <1>1. UNCHANGED <<queue, task, sending, told, bare>>
    BY DEF Acknowledge, LinkDown, LinkSilent, Detach, TouchDetach, Connect, EngineRefuses,
           SendActivation, Replay, ExpireEntry, GraceExpires, Reap, CloseAttachment, vars,
           sendVars, wireVars
  <1>2. journal' = journal \/ \E n : journal' = [journal EXCEPT !.dropped = n]
    BY DEF Acknowledge, LinkDown, LinkSilent, Detach, TouchDetach, Connect, EngineRefuses,
           SendActivation, Replay, ExpireEntry, GraceExpires, Reap, CloseAttachment, vars,
           apiVars, DropThrough
  <1>3. journal'.overflowed = journal.overflowed
    BY <1>0, <1>2
  <1>4. \/ UNCHANGED <<registry, resync>>
        \/ \E n : UNCHANGED resync /\ registry' = [registry EXCEPT !.grace = n]
        \/ \E n : UNCHANGED resync /\ registry' = [registry EXCEPT !.attachment = NoConn, !.grace = n]
        \/ /\ registry' = [registry EXCEPT !.present = FALSE, !.attachment = NoConn, !.grace = 0]
           /\ resync' = FALSE
    BY DEF Acknowledge, LinkDown, LinkSilent, Detach, TouchDetach, Connect, EngineRefuses,
           SendActivation, Replay, ExpireEntry, GraceExpires, Reap, CloseAttachment, vars,
           apiVars
  <1>5. /\ resync' => resync
        /\ registry'.present => registry.present /\ resync' = resync
        /\ registry'.attachment \in {registry.attachment, NoConn}
        /\ registry'.present = registry.present \/ registry'.attachment = NoConn
    <2>1. CASE UNCHANGED <<registry, resync>>
      BY <2>1
    <2>2. CASE \E n : UNCHANGED resync /\ registry' = [registry EXCEPT !.grace = n]
      BY <1>0, <2>2
    <2>3. CASE \E n : UNCHANGED resync
                     /\ registry' = [registry EXCEPT !.attachment = NoConn, !.grace = n]
      BY <1>0, <2>3
    <2>4. CASE /\ registry' = [registry EXCEPT !.present = FALSE, !.attachment = NoConn, !.grace = 0]
               /\ resync' = FALSE
      BY <1>0, <2>4
    <2> QED
      BY <1>4, <2>1, <2>2, <2>3, <2>4
  <1>6. ~registry'.present => registry'.attachment = NoConn
    BY <1>5 DEF RInv, InformedOK
  <1>7. link' = link \/ \E c \in Conns, l \in {"down", "silent"} : link' = [link EXCEPT ![c] = l]
    BY DEF Acknowledge, LinkDown, LinkSilent, Detach, TouchDetach, Connect, EngineRefuses,
           SendActivation, Replay, ExpireEntry, GraceExpires, Reap, CloseAttachment, vars
  <1>8. \A c \in Conns : link[c] # "up" => link'[c] # "up"
    BY <1>0, <1>7
  <1> QED
    BY <1>0, <1>1, <1>3, <1>5, <1>6, <1>8, ResyncFrame

-----------------------------------------------------------------------------
(* The queue under the steps that change it.                               *)

(* The places in the queue after someone has joined it.                    *)
LEMMA JoinedAt ==
  ASSUME TypeOK, NEW x \in Conns \cup Senders, queue' = Append(queue, x)
  PROVE  /\ Len(queue) \in Nat /\ Len(queue') = Len(queue) + 1
         /\ \A i \in 1..Len(queue) : queue'[i] = queue[i] /\ queue[i] \in Conns \cup Senders
         /\ queue'[Len(queue')] = x
  <1>1. queue \in Seq(Conns \cup Senders)
    BY DEF TypeOK
  <1> QED
    BY <1>1

(* The places after the holder has left.                                   *)
LEMMA LeftAt ==
  ASSUME TypeOK, queue # <<>>
  PROVE  /\ Len(queue) \in Nat /\ Len(queue) >= 1 /\ Head(queue) = queue[1]
         /\ Tail(queue) \in Seq(Conns \cup Senders)
         /\ Len(Tail(queue)) = Len(queue) - 1
         /\ \A i \in 1..(Len(queue) - 1) : Tail(queue)[i] = queue[i + 1]
  <1>1. queue \in Seq(Conns \cup Senders)
    BY DEF TypeOK
  <1> QED
    BY <1>1

(* ... and has joined it again.                                            *)
LEMMA RejoinedAt ==
  ASSUME TypeOK, queue # <<>>, NEW x \in Conns \cup Senders, queue' = Append(Tail(queue), x)
  PROVE  /\ Len(queue') = Len(queue)
         /\ \A i \in 1..(Len(queue) - 1) : queue'[i] = queue[i + 1]
         /\ queue'[Len(queue)] = x
  <1>1. /\ Tail(queue) \in Seq(Conns \cup Senders) /\ Len(queue) \in Nat
        /\ Len(Tail(queue)) = Len(queue) - 1
        /\ \A i \in 1..(Len(queue) - 1) : Tail(queue)[i] = queue[i + 1]
    BY LeftAt
  <1> HIDE DEF TypeOK
  <1> QED
    BY <1>1

LEMMA SenderJoins ==
  ASSUME TypeOK, QueueOK, NEW s \in Senders, task[s] = "idle", NEW x \in {"event", "bare"},
         queue' = Append(queue, s), task' = [task EXCEPT ![s] = x]
  PROVE  QueueOK'
  <1>1. /\ Len(queue) \in Nat /\ Len(queue') = Len(queue) + 1
        /\ \A i \in 1..Len(queue) : queue'[i] = queue[i]
        /\ queue'[Len(queue) + 1] = s
    BY JoinedAt
  <1>2. task'[s] = x /\ \A t \in Senders \ {s} : task'[t] = task[t]
    BY Types
  <1>3. \A i \in 1..Len(queue) : queue[i] # s
    BY DEF QueueOK
  <1>4. \A i, j \in 1..Len(queue') : queue'[i] = queue'[j] /\ queue'[i] \in Senders => i = j
    BY <1>1, <1>3 DEF QueueOK
  <1>5. ASSUME NEW t \in Senders
        PROVE  task'[t] # "idle" <=> \E i \in 1..Len(queue') : queue'[i] = t
    <2>1. CASE t = s
      BY <1>1, <1>2, <2>1
    <2>2. CASE t # s
      BY <1>1, <1>2, <2>2 DEF QueueOK
    <2> QED
      BY <2>1, <2>2
  <1>6. ASSUME NEW i \in 1..Len(queue'), NEW j \in 1..Len(queue'),
               queue'[i] \in Senders, queue'[j] \in Senders,
               task'[queue'[i]] = "resync", task'[queue'[j]] = "bare"
        PROVE  i < j
    <2>1. i \in 1..Len(queue) /\ queue[i] # s
      BY <1>1, <1>2, <1>3, <1>6
    <2>2. CASE j = Len(queue) + 1
      BY <1>1, <2>1, <2>2
    <2>3. CASE j # Len(queue) + 1
      <3>1. j \in 1..Len(queue) /\ queue[j] # s
        BY <1>1, <1>3, <2>3
      <3>2. task[queue[i]] = "resync" /\ task[queue[j]] = "bare"
        BY <1>1, <1>2, <1>6, <2>1, <3>1
      <3> QED
        BY <1>1, <1>6, <2>1, <3>1, <3>2 DEF QueueOK
    <2> QED
      BY <2>2, <2>3
  <1> QED
    BY <1>4, <1>5, <1>6 DEF QueueOK

LEMMA SenderLeaves ==
  ASSUME TypeOK, QueueOK, NEW s \in Senders, Turn(s),
         queue' = Tail(queue), task' = [task EXCEPT ![s] = "idle"]
  PROVE  QueueOK'
  <1>1. /\ Len(queue) \in Nat /\ Len(queue) >= 1 /\ queue[1] = s
        /\ Len(queue') = Len(queue) - 1
        /\ \A i \in 1..Len(queue') : queue'[i] = queue[i + 1]
    BY LeftAt DEF Turn
  <1>2. task'[s] = "idle" /\ \A t \in Senders \ {s} : task'[t] = task[t]
    BY Types
  <1>3. \A i \in 1..Len(queue') : i + 1 \in 1..Len(queue) /\ queue'[i] # s
    BY <1>1 DEF QueueOK
  <1>4. \A i, j \in 1..Len(queue') : queue'[i] = queue'[j] /\ queue'[i] \in Senders => i = j
    BY <1>1, <1>3 DEF QueueOK
  <1>5. ASSUME NEW t \in Senders
        PROVE  task'[t] # "idle" <=> \E i \in 1..Len(queue') : queue'[i] = t
    <2>1. CASE t = s
      BY <1>2, <1>3, <2>1
    <2>2. CASE t # s
      <3>1. ASSUME NEW i \in 1..Len(queue), queue[i] = t
            PROVE  \E k \in 1..Len(queue') : queue'[k] = t
        <4>1. i - 1 \in 1..Len(queue') /\ queue'[i - 1] = t
          BY <1>1, <2>2, <3>1
        <4> QED
          BY <4>1
      <3> QED
        BY <1>1, <1>2, <1>3, <2>2, <3>1 DEF QueueOK
    <2> QED
      BY <2>1, <2>2
  <1>6. ASSUME NEW i \in 1..Len(queue'), NEW j \in 1..Len(queue'),
               queue'[i] \in Senders, queue'[j] \in Senders,
               task'[queue'[i]] = "resync", task'[queue'[j]] = "bare"
        PROVE  i < j
    <2>1. task[queue[i + 1]] = "resync" /\ task[queue[j + 1]] = "bare"
      BY <1>1, <1>2, <1>3, <1>6
    <2>2. i + 1 < j + 1
      BY <1>1, <1>3, <1>6, <2>1 DEF QueueOK
    <2> QED
      BY <1>1, <2>2
  <1> QED
    BY <1>4, <1>5, <1>6 DEF QueueOK

LEMMA SenderReturns ==
  ASSUME TypeOK, QueueOK, NEW s \in Senders, Turn(s), NEW x \in {"resync", "bare"},
         x = "resync" => \A t \in Senders : task[t] # "bare",
         queue' = Append(Tail(queue), s), task' = [task EXCEPT ![s] = x]
  PROVE  QueueOK'
  <1>1. /\ Len(queue) \in Nat /\ Len(queue) >= 1 /\ queue[1] = s
        /\ Len(queue') = Len(queue)
        /\ \A i \in 1..(Len(queue) - 1) : queue'[i] = queue[i + 1]
        /\ queue'[Len(queue)] = s
    BY LeftAt, RejoinedAt DEF Turn
  <1>2. task'[s] = x /\ \A t \in Senders \ {s} : task'[t] = task[t]
    BY Types
  <1>3. \A i \in 1..(Len(queue) - 1) : i + 1 \in 1..Len(queue) /\ queue'[i] # s
    BY <1>1 DEF QueueOK
  <1>4. \A i, j \in 1..Len(queue') : queue'[i] = queue'[j] /\ queue'[i] \in Senders => i = j
    BY <1>1, <1>3 DEF QueueOK
  <1>5. ASSUME NEW t \in Senders
        PROVE  task'[t] # "idle" <=> \E i \in 1..Len(queue') : queue'[i] = t
    <2>1. CASE t = s
      BY <1>1, <1>2, <2>1
    <2>2. CASE t # s
      <3>1. ASSUME NEW i \in 1..Len(queue), queue[i] = t
            PROVE  \E k \in 1..Len(queue') : queue'[k] = t
        <4>1. i - 1 \in 1..Len(queue') /\ queue'[i - 1] = t
          BY <1>1, <2>2, <3>1
        <4> QED
          BY <4>1
      <3>2. ASSUME NEW k \in 1..Len(queue'), queue'[k] = t
            PROVE  \E i \in 1..Len(queue) : queue[i] = t
        <4>1. k + 1 \in 1..Len(queue) /\ queue[k + 1] = t
          BY <1>1, <1>3, <2>2, <3>2
        <4> QED
          BY <4>1
      <3> QED
        BY <1>2, <2>2, <3>1, <3>2 DEF QueueOK
    <2> QED
      BY <2>1, <2>2
  <1>6. ASSUME NEW i \in 1..Len(queue'), NEW j \in 1..Len(queue'),
               queue'[i] \in Senders, queue'[j] \in Senders,
               task'[queue'[i]] = "resync", task'[queue'[j]] = "bare"
        PROVE  i < j
    <2>1. CASE i = Len(queue)
      <3>1. x = "resync" /\ queue'[j] # s
        BY <1>1, <1>2, <1>6, <2>1
      <3> QED
        BY <1>2, <1>6, <3>1
    <2>2. CASE i # Len(queue) /\ j = Len(queue)
      BY <1>1, <2>2
    <2>3. CASE i # Len(queue) /\ j # Len(queue)
      <3>1. i \in 1..(Len(queue) - 1) /\ j \in 1..(Len(queue) - 1)
        BY <1>1, <2>3
      <3>2. task[queue[i + 1]] = "resync" /\ task[queue[j + 1]] = "bare"
        BY <1>1, <1>2, <1>3, <1>6, <3>1
      <3>3. i + 1 < j + 1
        BY <1>1, <1>3, <1>6, <3>1, <3>2 DEF QueueOK
      <3> QED
        BY <3>1, <3>3
    <2> QED
      BY <2>1, <2>2, <2>3
  <1> QED
    BY <1>4, <1>5, <1>6 DEF QueueOK

(* Handshakes join and leave the queue among the senders.                  *)
LEMMA HandshakeQueues ==
  ASSUME TypeOK, QueueOK, NEW c \in Conns, task' = task,
         \/ queue' = Append(queue, c)
         \/ Turn(c) /\ queue' = Tail(queue)
  PROVE  QueueOK'
  <1>0. c \notin Senders
    BY AttachmentAssumption
  <1>1. CASE queue' = Append(queue, c)
    <2>1. /\ Len(queue) \in Nat /\ Len(queue') = Len(queue) + 1
          /\ \A i \in 1..Len(queue) : queue'[i] = queue[i]
          /\ queue'[Len(queue) + 1] = c
      BY <1>1, JoinedAt
    <2>2. \A i \in 1..Len(queue') : queue'[i] \in Senders => i \in 1..Len(queue)
      BY <1>0, <2>1
    <2>3. \A i \in 1..Len(queue) : i \in 1..Len(queue')
      BY <2>1
    <2>4. \A s \in Senders : (\E i \in 1..Len(queue) : queue[i] = s)
                                <=> \E i \in 1..Len(queue') : queue'[i] = s
      BY <2>1, <2>2, <2>3
    <2>5. \A i, j \in 1..Len(queue') : queue'[i] = queue'[j] /\ queue'[i] \in Senders => i = j
      BY <2>1, <2>2 DEF QueueOK
    <2>6. \A i, j \in 1..Len(queue') :
            queue'[i] \in Senders /\ queue'[j] \in Senders
              /\ task[queue'[i]] = "resync" /\ task[queue'[j]] = "bare" => i < j
      BY <2>1, <2>2 DEF QueueOK
    <2> QED
      BY <2>4, <2>5, <2>6 DEF QueueOK
  <1>2. CASE Turn(c) /\ queue' = Tail(queue)
    <2>1. /\ Len(queue) \in Nat /\ Len(queue) >= 1 /\ queue[1] = c
          /\ Len(queue') = Len(queue) - 1
          /\ \A i \in 1..Len(queue') : queue'[i] = queue[i + 1]
      BY <1>2, LeftAt DEF Turn
    <2>2. \A i \in 1..Len(queue') : i + 1 \in 1..Len(queue)
      BY <2>1
    <2>3. ASSUME NEW s \in Senders
          PROVE  (\E i \in 1..Len(queue) : queue[i] = s)
                    <=> \E i \in 1..Len(queue') : queue'[i] = s
      <3>1. ASSUME NEW i \in 1..Len(queue), queue[i] = s
            PROVE  \E k \in 1..Len(queue') : queue'[k] = s
        <4>1. i - 1 \in 1..Len(queue') /\ queue'[i - 1] = s
          BY <1>0, <2>1, <3>1
        <4> QED
          BY <4>1
      <3> QED
        BY <2>1, <2>2, <3>1
    <2>4. \A i, j \in 1..Len(queue') : queue'[i] = queue'[j] /\ queue'[i] \in Senders => i = j
      BY <2>1, <2>2 DEF QueueOK
    <2>5. ASSUME NEW i \in 1..Len(queue'), NEW j \in 1..Len(queue'),
                 queue'[i] \in Senders, queue'[j] \in Senders,
                 task[queue'[i]] = "resync", task[queue'[j]] = "bare"
          PROVE  i < j
      <3>0. /\ i + 1 \in 1..Len(queue) /\ j + 1 \in 1..Len(queue)
            /\ queue[i + 1] \in Senders /\ queue[j + 1] \in Senders
            /\ task[queue[i + 1]] = "resync" /\ task[queue[j + 1]] = "bare"
        BY <2>1, <2>2, <2>5
      <3>1. i + 1 < j + 1
        BY <3>0 DEF QueueOK
      <3> QED
        BY <2>1, <3>1
    <2> QED
      BY <2>3, <2>4, <2>5 DEF QueueOK
  <1> QED
    BY <1>1, <1>2

(* Who sends without a number comes after every announcement.              *)
LEMMA AfterResync ==
  ASSUME TypeOK, QueueOK, NEW s \in Senders, Turn(s), task[s] = "bare"
  PROVE  \A t \in Senders : task[t] # "resync"
  <1>1. Len(queue) \in Nat /\ Len(queue) >= 1 /\ queue[1] = s
    BY LeftAt DEF Turn
  <1>2. ASSUME NEW t \in Senders, task[t] = "resync" PROVE FALSE
    <2>1. PICK i \in 1..Len(queue) : queue[i] = t
      BY <1>2 DEF QueueOK
    <2>2. i < 1
      BY <1>1, <1>2, <2>1 DEF QueueOK
    <2> QED
      BY <1>1, <2>1, <2>2
  <1> QED
    BY <1>2

-----------------------------------------------------------------------------
(* The steps of the senders.                                               *)

LEMMA ResyncEmit ==
  ASSUME IInv, RInv, NEW s \in Senders, Emit(s)
  PROVE  RInv'
  <1>1. /\ TypeOK /\ task[s] = "idle" /\ queue' = Append(queue, s)
        /\ task' = [task EXCEPT ![s] = IF resync THEN "bare" ELSE "event"]
        /\ UNCHANGED <<link, told, bare, registry, journal, resync, sending>>
    BY DEF Emit, IInv, wireVars, apiVars
  <1>2. /\ task'[s] = (IF resync THEN "bare" ELSE "event")
        /\ \A t \in Senders \ {s} : task'[t] = task[t]
    BY <1>1, Types
  <1>3. QueueOK'
    BY <1>1, SenderJoins DEF RInv
  <1>4. OverflowOK'
    BY <1>1, <1>2 DEF RInv, OverflowOK, Informed
  <1>5. ASSUME sending.to # NoConn
        PROVE  Head(queue') = Head(queue) /\ task'[Head(queue')] = task[Head(queue)]
    <2>1. queue # <<>> /\ Head(queue) \in Senders
      BY <1>5 DEF IInv, HolderOK
    <2>2. Head(queue') = Head(queue)
      BY <1>1, <2>1, Waits
    <2>3. task[Head(queue)] # "idle"
      BY <1>1, <2>1, LeftAt DEF RInv, QueueOK
    <2> QED
      BY <1>1, <1>2, <2>1, <2>2, <2>3
  <1>6. InformedOK'
    BY <1>1, <1>5 DEF RInv, InformedOK
  <1> QED
    BY <1>1, <1>3, <1>4, <1>6 DEF RInv, ResyncFirst

LEMMA ResyncSend ==
  ASSUME IInv, RInv, NEW s \in Senders, SendEvent(s)
  PROVE  RInv'
  <1>1. /\ TypeOK /\ Turn(s) /\ sending = NotSending /\ registry.present
        /\ UNCHANGED <<link, told, bare, registry, resync>>
        /\ journal' = IF task[s] = "event" THEN Record(journal) ELSE journal
        /\ IF Attached
             THEN sending'.to = registry.attachment /\ UNCHANGED <<queue, task>>
             ELSE Release(s) /\ UNCHANGED sending
    BY DEF SendEvent, BeginSend, Dispatch, IInv, wireVars
  <1>2. journal'.overflowed = journal.overflowed
    BY <1>1, Types DEF Record
  <1>3. CASE Attached
    <2>1. QueueOK'
      BY <1>1, <1>3 DEF RInv, QueueOK
    <2>2. OverflowOK'
      BY <1>1, <1>2, <1>3 DEF RInv, OverflowOK, Informed
    <2>3. task[s] = "bare" => registry.attachment \in told \/ link[registry.attachment] # "up"
      <3>1. task[s] = "bare" => Informed
        BY <1>1, AfterResync DEF RInv, OverflowOK
      <3> QED
        BY <1>3, <3>1 DEF Informed, Attached
    <2>4. InformedOK'
      BY <1>1, <1>3, <2>3 DEF RInv, InformedOK, Turn
    <2> QED
      BY <1>1, <2>1, <2>2, <2>4 DEF RInv, ResyncFirst
  <1>4. CASE ~Attached
    <2>1. \/ /\ task[s] = "resync" /\ queue' = Append(Tail(queue), s)
             /\ task' = [task EXCEPT ![s] = "bare"]
          \/ queue' = Tail(queue) /\ task' = [task EXCEPT ![s] = "idle"]
      BY <1>1, <1>4 DEF Release
    <2>2. QueueOK'
      BY <1>1, <2>1, SenderLeaves, SenderReturns DEF RInv
    <2>3. OverflowOK'
      <3>1. \A t \in Senders : task'[t] \in {"resync", "bare"} => journal.overflowed
        BY <2>1, Types, <1>1 DEF RInv, OverflowOK
      <3> QED
        BY <1>1, <1>2, <1>4, <3>1 DEF RInv, OverflowOK, Informed, Attached
    <2>4. InformedOK'
      BY <1>1, <1>4 DEF RInv, InformedOK, NotSending
    <2> QED
      BY <1>1, <2>2, <2>3, <2>4 DEF RInv, ResyncFirst
  <1> QED
    BY <1>3, <1>4

LEMMA ResyncOverflow ==
  ASSUME IInv, RInv, NEW s \in Senders, Overflow(s)
  PROVE  RInv'
  <1>1. /\ TypeOK /\ Turn(s) /\ sending = NotSending /\ registry.present
        /\ UNCHANGED <<link, told, bare, registry, sending>>
        /\ resync' = TRUE /\ journal' = [journal EXCEPT !.overflowed = TRUE]
        /\ task' = [task EXCEPT ![s] = IF resync THEN "bare" ELSE "resync"]
        /\ queue' = Append(Tail(queue), s) /\ task[s] = "event"
    BY DEF Overflow, BeginSend, IInv, wireVars
  <1>2. journal'.overflowed
    BY <1>1, Types
  <1>3. ~resync => \A t \in Senders : task[t] # "bare"
    BY <1>1 DEF RInv, OverflowOK
  <1>4. QueueOK'
    BY <1>1, <1>3, SenderReturns DEF RInv
  <1>5. /\ task'[s] = (IF resync THEN "bare" ELSE "resync")
        /\ \A t \in Senders \ {s} : task'[t] = task[t]
    BY <1>1, Types
  <1>6. OverflowOK'
    BY <1>1, <1>2, <1>5 DEF RInv, OverflowOK, Informed
  <1>7. InformedOK'
    BY <1>1 DEF RInv, InformedOK, NotSending
  <1> QED
    BY <1>1, <1>4, <1>6, <1>7 DEF RInv, ResyncFirst

LEMMA ResyncSent ==
  ASSUME IInv, RInv, NEW s \in Senders, SendUnknown(s) \/ SendDone(s) \/ SendFails(s)
  PROVE  RInv'
  <1>1. /\ TypeOK /\ Turn(s) /\ sending'.to = NoConn
        /\ UNCHANGED <<link, registry, journal, resync>>
        /\ \/ /\ task[s] = "resync" /\ queue' = Append(Tail(queue), s)
              /\ task' = [task EXCEPT ![s] = "bare"]
           \/ queue' = Tail(queue) /\ task' = [task EXCEPT ![s] = "idle"]
    BY DEF SendUnknown, SendDone, SendFails, BeginSend, Release, NotSending, IInv, wireVars, apiVars
  <1>2. /\ told \subseteq told' /\ bare \subseteq bare'
        /\ bare' # bare => /\ SendDone(s) /\ task[s] = "bare" /\ link[sending.to] = "up"
                           /\ bare' = bare \cup {sending.to}
    BY DEF SendUnknown, SendDone, SendFails, wireVars
  <1>3. QueueOK'
    BY <1>1, SenderLeaves, SenderReturns DEF RInv
  <1>4. registry.attachment \in Conns \cup {NoConn}
    BY <1>1, Types
  <1>5. OverflowOK'
    <2>1. /\ \A t \in Senders \ {s} : task'[t] = task[t]
          /\ task'[s] \in {"bare", "resync"} => task[s] = "resync"
      BY <1>1, Types
    <2>2. task[s] = "resync" => Informed'
      <3>1. CASE SendUnknown(s)
        BY <1>1, <3>1 DEF SendUnknown, RInv, InformedOK, Informed
      <3>2. CASE SendFails(s)
        <4>1. link[sending.to] = "down" /\ registry.attachment \in {NoConn, sending.to}
          BY <3>2 DEF SendFails, RInv, InformedOK
        <4> QED
          BY <1>1, <4>1 DEF Informed
      <3>3. CASE SendDone(s) /\ task[s] = "resync"
        <4>1. /\ registry.attachment \in {NoConn, sending.to}
              /\ link[sending.to] = "up" => sending.to \in told'
          BY <3>3 DEF SendDone, RInv, InformedOK
        <4> QED
          BY <1>1, <4>1 DEF Informed
      <3> QED
        BY <3>1, <3>2, <3>3
    <2>3. Informed => Informed'
      BY <1>1, <1>2 DEF Informed
    <2> QED
      BY <1>1, <2>1, <2>2, <2>3 DEF RInv, OverflowOK
  <1>6. InformedOK'
    BY <1>1 DEF RInv, InformedOK
  <1>7. ResyncFirst'
    <2>1. CASE bare' = bare
      BY <1>2, <2>1 DEF RInv, ResyncFirst
    <2>2. CASE bare' # bare
      <3>1. task[Head(queue)] = "bare" /\ sending.to # NoConn /\ link[sending.to] = "up"
        BY <1>1, <1>2, <2>2 DEF SendDone, Turn
      <3>2. sending.to \in told
        BY <3>1 DEF RInv, InformedOK
      <3> QED
        BY <1>2, <2>2, <3>2 DEF RInv, ResyncFirst
    <2> QED
      BY <2>1, <2>2
  <1> QED
    BY <1>3, <1>5, <1>6, <1>7 DEF RInv

-----------------------------------------------------------------------------
(* The steps of the handshakes that touch the queue or the attachment.     *)

LEMMA ResyncHandshake ==
  ASSUME IInv, RInv, NEW c \in Conns,
         EngineResume(c) \/ RefuseResume(c) \/ ReplayFails(c) \/ Resumed(c)
  PROVE  RInv'
  <1>1. /\ TypeOK /\ UNCHANGED <<link, told, bare, journal, resync, sending, task>>
        /\ \/ queue' = Append(queue, c)
           \/ Turn(c) /\ queue' = Tail(queue)
        /\ \/ registry' = registry
           \/ registry' = [registry EXCEPT !.attachment = NoConn, !.recovery = conn[c].token]
    BY DEF EngineResume, RefuseResume, ReplayFails, Resumed, ResumeRaises, IInv, wireVars, apiVars
  <1>2. /\ registry'.attachment \in {registry.attachment, NoConn}
        /\ registry'.present = registry.present
    BY <1>1 DEF TypeOK
  <1>3. QueueOK'
    BY <1>1, HandshakeQueues DEF RInv
  <1>4. OverflowOK'
    <2>1. Informed => Informed'
      BY <1>1, <1>2 DEF Informed
    <2> QED
      BY <1>1, <1>2, <2>1 DEF RInv, OverflowOK
  <1>5. sending.to # NoConn => Head(queue') = Head(queue)
    <2>1. Turn(c) => sending.to = NoConn
      BY Holder
    <2>2. sending.to # NoConn => queue # <<>>
      BY DEF IInv, HolderOK
    <2> QED
      BY <1>1, <2>1, <2>2, Waits
  <1>6. InformedOK'
    BY <1>1, <1>2, <1>5 DEF RInv, InformedOK
  <1> QED
    BY <1>1, <1>3, <1>4, <1>6 DEF RInv, ResyncFirst

LEMMA ResyncActivate ==
  ASSUME IInv, RInv, NEW c \in Conns, Activate(c)
  PROVE  RInv'
  <1>1. /\ TypeOK /\ Turn(c) /\ registry.present /\ ~journal.overflowed
        /\ UNCHANGED <<link, told, bare, journal, resync, queue, sending, task>>
        /\ registry' = [registry EXCEPT !.generation = @ + 1, !.attachment = c,
                                        !.recovery = 0, !.grace = 0]
    BY DEF Activate, MayResume, Replayable, IInv, wireVars, sendVars
  <1>2. registry'.present
    BY <1>1 DEF TypeOK
  <1>3. sending.to = NoConn
    BY <1>1, Holder
  <1>4. QueueOK' /\ ResyncFirst'
    BY <1>1 DEF RInv, QueueOK, ResyncFirst
  <1>5. OverflowOK'
    BY <1>1 DEF RInv, OverflowOK
  <1>6. InformedOK'
    BY <1>1, <1>2, <1>3 DEF InformedOK
  <1> QED
    BY <1>4, <1>5, <1>6 DEF RInv

LEMMA ResyncInit == Init => RInv
  <1> SUFFICES ASSUME Init PROVE RInv
    OBVIOUS
  <1>1. /\ queue = <<>> /\ \A s \in Senders : task[s] = "idle"
        /\ ~resync /\ ~journal.overflowed /\ registry.present
        /\ sending.to = NoConn /\ bare = {}
    BY DEF Init, NotSending
  <1>2. Len(queue) = 0
    BY <1>1
  <1> QED
    BY <1>1, <1>2 DEF RInv, QueueOK, OverflowOK, InformedOK, ResyncFirst

LEMMA ResyncNext == IInv /\ RInv /\ [Next]_vars => RInv'
  BY ResyncUntouched, ResyncEmit, ResyncSend, ResyncOverflow, ResyncSent, ResyncHandshake,
     ResyncActivate DEF Next, SendStep, HandshakeStep

(* However many tasks see the journal overflow, no client gets a payload   *)
(* without a number before it is told to resynchronize.                    *)
THEOREM ResyncIsFirst == Spec => []ResyncFirst
  <1>1. RInv => ResyncFirst
    BY DEF RInv
  <1>2. Spec => []IInv
    BY InitOK, NextOK, PTL DEF Spec
  <1> QED
    BY <1>1, <1>2, ResyncInit, ResyncNext, PTL DEF Spec

=============================================================================
