--------------------------- MODULE SessionAttachment ---------------------------
(***************************************************************************)
(* The transport side of one resumable duplex session: the registry that   *)
(* attaches web sockets to it, the journal of numbered events, resume with *)
(* a rotated token and replay, the grace after a disconnect, and the lease *)
(* of the session in the engine as far as attaching moves it.              *)
(*                                                                         *)
(* The sections under _lock never suspend, so each is a step.  Whoever     *)
(* sends holds the session's outbound_lock, a queue in order of arrival,   *)
(* also while the transport suspends it.                                   *)
(*                                                                         *)
(* The token that generation g rotates to is named g.  The event of number *)
(* n is named n.  The client is honest: it resumes with the last token and *)
(* the highest number it has received, on any transport.                   *)
(*                                                                         *)
(* Source: fullduplex/openai/session_attachment.py and its callers in      *)
(* fullduplex/openai/session_runner.py and serving.py; engine/lease.py     *)
(***************************************************************************)
EXTENDS Naturals, Sequences

CONSTANTS
    Conns,          \* web sockets, each used once
    First,          \* the one that opened the session
    Senders,        \* tasks of the session that emit events
    NoConn,         \* no attachment
    JournalLimit,   \* replay_max_bytes_per_session, in events
    MaxEvents,      \* bound: events are emitted while fewer are numbered
    Events          \* what the environment does besides dropping transports

ASSUME AttachmentAssumption ==
    /\ First \in Conns
    /\ Senders \cap Conns = {}
    /\ NoConn \notin Conns
    /\ JournalLimit \in Nat /\ MaxEvents \in Nat
    /\ Events \subseteq {"silence", "ttl"}

VARIABLES
    conn,       \* the handshake and runner of each transport
    link,       \* its state: a silent one loses what is sent, a down one raises
    received,   \* the numbers its client received
    told,       \* transports that received session.resync_required
    bare,       \* transports that received a payload without a number
    client,     \* the client's token and highest number
    registry,   \* _DuplexSessionAttachmentState
    journal,    \* its DuplexEventJournal
    graced,     \* the generation whose grace has ended last, or 0
    resync,     \* the session is in _resync_required_sessions
    queue,      \* outbound_lock: the holder, then who waits
    sending,    \* what the holder awaits: a send of an event
    task,       \* where each sender is in send_attachment_payload
    lease,      \* the lease of the session in the engine
    known       \* the lease generation in _lease_generations

wireVars == <<received, told, bare, client>>
apiVars == <<registry, journal, resync, known>>
sendVars == <<queue, sending, task>>
vars == <<conn, link, wireVars, apiVars, graced, sendVars, lease>>

Phases == {"new", "control", "queued", "replaying", "attached", "touching", "done"}

NotSending == [to |-> NoConn, number |-> 0]

Init ==
    /\ conn = [c \in Conns |->
                [phase |-> IF c = First THEN "attached" ELSE "new",
                 token |-> 0, after |-> 0, lease |-> 0,
                 generation |-> IF c = First THEN 1 ELSE 0,
                 replay |-> <<>>, welcomed |-> c = First]]
    /\ link = [c \in Conns |-> "up"]
    /\ received = [c \in Conns |-> <<>>]
    /\ told = {} /\ bare = {}
    /\ client = [token |-> 1, seen |-> 0]
    /\ registry = [present |-> TRUE, generation |-> 1, attachment |-> First,
                   recovery |-> 0, grace |-> 0]
    /\ journal = [dropped |-> 0, last |-> 0, overflowed |-> FALSE]
    /\ graced = 0
    /\ resync = FALSE
    /\ queue = <<>>
    /\ sending = NotSending
    /\ task = [s \in Senders |-> "idle"]
    /\ lease = [generation |-> 0, detached |-> FALSE, terminal |-> FALSE]
    /\ known = 0

----------------------------------------------------------------------------
(* The journal.  Its entries are the numbers above dropped, up to last.    *)

Recordable(j) == ~j.overflowed /\ j.last - j.dropped < JournalLimit

Record(j) == [j EXCEPT !.last = @ + 1]

(* Wrong: takes the number for a count.                                    *)
DropCount(j, n) == [j EXCEPT !.dropped = @ + n]

DropThrough(j, n) == [j EXCEPT !.dropped = IF n > @ THEN n ELSE @]

Replayable(j, n) == ~j.overflowed /\ j.dropped <= n /\ n <= j.last

ReplayAfter(j, n) ==
    LET first == IF j.dropped > n THEN j.dropped ELSE n
    IN  [i \in 1..(j.last - first) |-> first + i]

----------------------------------------------------------------------------
(* Sending an event.                                                       *)

Turn(x) == queue # <<>> /\ Head(queue) = x

Attached == registry.attachment # NoConn

(* is_current_attachment, for a transport that has been attached.          *)
Current(c) ==
    /\ registry.present
    /\ registry.attachment = c
    /\ registry.generation = conn[c].generation

(* send_attachment_payload decides whether the journal takes the event     *)
(* before it waits for the lock.                                           *)
Emit(s) ==
    /\ task[s] = "idle"
    /\ registry.present
    /\ journal.last < MaxEvents
    /\ task' = [task EXCEPT ![s] = IF resync THEN "bare" ELSE "event"]
    /\ queue' = Append(queue, s)
    /\ UNCHANGED <<conn, link, wireVars, apiVars, graced, sending, lease>>

(* The sender releases the lock; after resync_required it sends its        *)
(* payload, without a number.                                              *)
Release(s) ==
    IF task[s] = "resync"
      THEN /\ queue' = Append(Tail(queue), s)
           /\ task' = [task EXCEPT ![s] = "bare"]
      ELSE /\ queue' = Tail(queue)
           /\ task' = [task EXCEPT ![s] = "idle"]

(* With an attachment the payload is sent to it, under the lock.           *)
Dispatch(s, number) ==
    IF Attached
      THEN /\ sending' = [to |-> registry.attachment, number |-> number]
           /\ UNCHANGED <<queue, task>>
      ELSE /\ Release(s)
           /\ UNCHANGED sending

BeginSend(s) ==
    /\ Turn(s)
    /\ sending = NotSending

SendEvent(s) ==
    /\ BeginSend(s)
    /\ registry.present
    /\ task[s] = "event" => Recordable(journal)
    /\ journal' = IF task[s] = "event" THEN Record(journal) ELSE journal
    /\ Dispatch(s, IF task[s] = "event" THEN journal'.last ELSE 0)
    /\ UNCHANGED <<conn, link, wireVars, registry, resync, known, graced, lease>>

(* Wrong: asks whether it is the first after it has said so.               *)
OverflowUnannounced(s) ==
    /\ BeginSend(s)
    /\ registry.present
    /\ task[s] = "event"
    /\ ~Recordable(journal)
    /\ journal' = [journal EXCEPT !.overflowed = TRUE]
    /\ resync' = TRUE
    /\ task' = [task EXCEPT ![s] = IF resync' THEN "bare" ELSE "resync"]
    /\ queue' = Append(Tail(queue), s)
    /\ UNCHANGED <<conn, link, wireVars, registry, known, graced, sending, lease>>

(* The journal raises; the first sender to see that announces it.          *)
Overflow(s) ==
    /\ BeginSend(s)
    /\ registry.present
    /\ task[s] = "event"
    /\ ~Recordable(journal)
    /\ journal' = [journal EXCEPT !.overflowed = TRUE]
    /\ resync' = TRUE
    /\ task' = [task EXCEPT ![s] = IF resync THEN "bare" ELSE "resync"]
    /\ queue' = Append(Tail(queue), s)
    /\ UNCHANGED <<conn, link, wireVars, registry, known, graced, sending, lease>>

(* The session has left the registry: send_event raises.                   *)
SendUnknown(s) ==
    /\ BeginSend(s)
    /\ ~registry.present
    /\ queue' = Tail(queue)
    /\ task' = [task EXCEPT ![s] = "idle"]
    /\ UNCHANGED <<conn, link, wireVars, apiVars, graced, sending, lease>>

Deliver(c, number) ==
    /\ received' = [received EXCEPT ![c] = Append(@, number)]
    /\ client' = [client EXCEPT !.seen = IF number > @ THEN number ELSE @]

(* The transport takes the payload; over a silent link it is lost.         *)
SendDone(s) ==
    LET c == sending.to IN
    /\ Turn(s)
    /\ c # NoConn
    /\ link[c] # "down"
    /\ IF link[c] = "up" /\ sending.number > 0
         THEN Deliver(c, sending.number)
         ELSE UNCHANGED <<received, client>>
    /\ told' = IF link[c] = "up" /\ task[s] = "resync" THEN told \cup {c} ELSE told
    /\ bare' = IF link[c] = "up" /\ task[s] = "bare" THEN bare \cup {c} ELSE bare
    /\ sending' = NotSending
    /\ Release(s)
    /\ UNCHANGED <<conn, link, apiVars, graced, lease>>

(* The transport raises, and with it the sender.                           *)
SendFails(s) ==
    /\ Turn(s)
    /\ sending.to # NoConn
    /\ link[sending.to] = "down"
    /\ sending' = NotSending
    /\ queue' = Tail(queue)
    /\ task' = [task EXCEPT ![s] = "idle"]
    /\ UNCHANGED <<conn, link, wireVars, apiVars, graced, lease>>

(* session.event_ack, processed by the runner of the current attachment.   *)
Acknowledge(c) ==
    /\ conn[c].phase = "attached"
    /\ Current(c)
    /\ \E n \in 1..client.seen :
         /\ n > journal.dropped
         /\ journal' = DropThrough(journal, n)
    /\ UNCHANGED <<conn, link, wireVars, registry, resync, known, graced, sendVars, lease>>

(* The oldest entry exceeds its time to live.  It is pruned before the     *)
(* journal is next used, which nobody can tell from pruning it now.        *)
ExpireEntry ==
    /\ "ttl" \in Events
    /\ registry.present
    /\ journal.dropped < journal.last
    /\ journal' = DropThrough(journal, journal.dropped + 1)
    /\ UNCHANGED <<conn, link, wireVars, registry, resync, known, graced, sendVars, lease>>

----------------------------------------------------------------------------
(* Resuming on a new transport.                                            *)

(* _validate_resume_identity.                                              *)
Accepts(token) ==
    \/ token = registry.generation
    \/ ~Attached /\ token = registry.recovery

(* The handshake is over, its local state gone.                            *)
Ended(c, phase) ==
    [conn EXCEPT ![c].phase = phase, ![c].token = 0, ![c].lease = 0, ![c].replay = <<>>]

(* The client sends session.resume; authenticate_resume checks it before   *)
(* the engine is asked.                                                    *)
Connect(c) ==
    /\ conn[c].phase = "new"
    /\ conn' = IF /\ registry.present
                  /\ Accepts(client.token)
                  /\ Replayable(journal, client.seen)
                 THEN [conn EXCEPT ![c].phase = "control", ![c].token = client.token,
                                   ![c].after = client.seen, ![c].lease = known]
                 ELSE Ended(c, "done")
    /\ UNCHANGED <<link, wireVars, apiVars, graced, sendVars, lease>>

(* resume_duplex_session: a compare-and-set of the lease generation.  Once *)
(* it is granted the handshake waits for the lock.                         *)
EngineResume(c) ==
    /\ conn[c].phase = "control"
    /\ ~lease.terminal
    /\ conn[c].lease = lease.generation
    /\ lease' = [lease EXCEPT !.generation = @ + 1, !.detached = FALSE]
    /\ conn' = [conn EXCEPT ![c].phase = "queued", ![c].lease = lease.generation + 1]
    /\ queue' = Append(queue, c)
    /\ UNCHANGED <<link, wireVars, apiVars, graced, sending, task>>

EngineRefuses(c) ==
    /\ conn[c].phase = "control"
    /\ lease.terminal \/ conn[c].lease # lease.generation
    /\ conn' = Ended(c, "done")
    /\ UNCHANGED <<link, wireVars, apiVars, graced, sendVars, lease>>

(* Wrong: the journal as it was when the client authenticated.             *)
MayResumeUnchecked(c) ==
    /\ registry.present
    /\ Accepts(conn[c].token)

MayResume(c) ==
    /\ registry.present
    /\ Accepts(conn[c].token)
    /\ Replayable(journal, conn[c].after)

(* Under both locks: the grace is cancelled, the token rotates, the new    *)
(* transport replaces the old one, and what it has to be sent is fixed.    *)
Activate(c) ==
    /\ Turn(c)
    /\ conn[c].phase = "queued"
    /\ MayResume(c)
    /\ registry' = [registry EXCEPT !.generation = @ + 1, !.attachment = c,
                                    !.recovery = 0, !.grace = 0]
    /\ conn' = [conn EXCEPT ![c].phase = "replaying",
                            ![c].generation = registry.generation + 1,
                            ![c].replay = ReplayAfter(journal, conn[c].after)]
    /\ UNCHANGED <<link, wireVars, journal, resync, known, graced, sendVars, lease>>

(* registry.resume raises.  The lease generation is kept: the engine has   *)
(* already moved it.                                                       *)
ResumeRaises(c) ==
    /\ conn' = Ended(c, "done")
    /\ known' = conn[c].lease
    /\ queue' = Tail(queue)

(* Wrong: cancels the grace before it checks.                              *)
RefuseAfterCancel(c) ==
    /\ Turn(c)
    /\ conn[c].phase = "queued"
    /\ ~MayResume(c)
    /\ ResumeRaises(c)
    /\ registry' = [registry EXCEPT !.grace = 0]
    /\ UNCHANGED <<link, wireVars, journal, resync, graced, sending, task, lease>>

RefuseResume(c) ==
    /\ Turn(c)
    /\ conn[c].phase = "queued"
    /\ ~MayResume(c)
    /\ ResumeRaises(c)
    /\ UNCHANGED <<link, wireVars, registry, journal, resync, graced, sending, task, lease>>

(* The activation carries the rotated token.                               *)
SendActivation(c) ==
    /\ Turn(c)
    /\ conn[c].phase = "replaying"
    /\ ~conn[c].welcomed
    /\ link[c] # "down"
    /\ conn' = [conn EXCEPT ![c].welcomed = TRUE]
    /\ client' = IF link[c] = "up"
                   THEN [client EXCEPT !.token = conn[c].generation]
                   ELSE client
    /\ UNCHANGED <<link, received, told, bare, apiVars, graced, sendVars, lease>>

Replay(c) ==
    LET entries == conn[c].replay IN
    /\ Turn(c)
    /\ conn[c].phase = "replaying"
    /\ conn[c].welcomed
    /\ entries # <<>>
    /\ link[c] # "down"
    /\ IF link[c] = "up"
         THEN Deliver(c, Head(entries))
         ELSE UNCHANGED <<received, client>>
    /\ conn' = [conn EXCEPT ![c].replay = Tail(entries)]
    /\ UNCHANGED <<link, told, bare, apiVars, graced, sendVars, lease>>

(* Wrong: the accepted token is not kept.                                  *)
ReplayFailsForgetful(c) ==
    /\ Turn(c)
    /\ conn[c].phase = "replaying"
    /\ conn[c].welcomed => conn[c].replay # <<>>
    /\ link[c] = "down"
    /\ registry' = [registry EXCEPT !.attachment = NoConn]
    /\ ResumeRaises(c)
    /\ UNCHANGED <<link, wireVars, journal, resync, graced, sending, task, lease>>

(* A send of the activation or the replay raises: nobody is attached, and  *)
(* the token that was accepted is accepted once more.                      *)
ReplayFails(c) ==
    /\ Turn(c)
    /\ conn[c].phase = "replaying"
    /\ conn[c].welcomed => conn[c].replay # <<>>
    /\ link[c] = "down"
    /\ registry' = IF registry.present /\ registry.generation = conn[c].generation
                     THEN [registry EXCEPT !.attachment = NoConn,
                                           !.recovery = conn[c].token]
                     ELSE registry
    /\ ResumeRaises(c)
    /\ UNCHANGED <<link, wireVars, journal, resync, graced, sending, task, lease>>

(* The handshake succeeds and the runner of the transport starts.  The     *)
(* replaced transport is closed, so that its runner takes a last event.    *)
Resumed(c) ==
    /\ Turn(c)
    /\ conn[c].phase = "replaying"
    /\ conn[c].welcomed
    /\ conn[c].replay = <<>>
    /\ conn' = Ended(c, "attached")
    /\ known' = conn[c].lease
    /\ queue' = Tail(queue)
    /\ UNCHANGED <<link, wireVars, registry, journal, resync, graced, sending, task, lease>>

----------------------------------------------------------------------------
(* Transports come and go.                                                 *)

(* The transport breaks and the server notices.  Before the activation     *)
(* nobody uses it, so a break then is one just before the activation.      *)
LinkDown(c) ==
    /\ conn[c].phase \in {"replaying", "attached"}
    /\ link[c] # "down"
    /\ link' = [link EXCEPT ![c] = "down"]
    /\ UNCHANGED <<conn, wireVars, apiVars, graced, sendVars, lease>>

(* The client is gone and the server has not noticed.  Of interest during  *)
(* the handshake: later a send in vain is like one that raises.            *)
LinkSilent(c) ==
    /\ "silence" \in Events
    /\ conn[c].phase = "replaying"
    /\ link[c] = "up"
    /\ link' = [link EXCEPT ![c] = "silent"]
    /\ UNCHANGED <<conn, wireVars, apiVars, graced, sendVars, lease>>

(* The runner of a transport that is down or replaced leaves.  detach acts *)
(* for the current generation only; then the engine is told.               *)
Detach(c) ==
    LET detached == registry.present /\ registry.generation = conn[c].generation IN
    /\ conn[c].phase = "attached"
    /\ link[c] = "down" \/ ~Current(c)
    /\ registry' = IF detached
                     THEN [registry EXCEPT !.attachment = NoConn,
                                           !.grace = conn[c].generation]
                     ELSE registry
    /\ conn' = [conn EXCEPT ![c].phase = IF detached THEN "touching" ELSE "done"]
    /\ UNCHANGED <<link, wireVars, journal, resync, known, graced, sendVars, lease>>

(* The engine runs the touch, which carries no lease generation.           *)
TouchDetach(c) ==
    /\ conn[c].phase = "touching"
    /\ conn' = [conn EXCEPT ![c].phase = "done"]
    /\ lease' = IF lease.terminal THEN lease ELSE [lease EXCEPT !.detached = TRUE]
    /\ UNCHANGED <<link, wireVars, apiVars, graced, sendVars>>

(* The grace task wakes up; its callback cancels the orphan response.      *)
GraceExpires ==
    /\ registry.grace > 0
    /\ registry.present /\ ~Attached /\ registry.generation = registry.grace
    /\ registry' = [registry EXCEPT !.grace = 0]
    /\ graced' = registry.grace
    /\ UNCHANGED <<conn, link, wireVars, journal, resync, known, sendVars, lease>>

MarkTerminal(l) == [generation |-> l.generation + 1, detached |-> FALSE, terminal |-> TRUE]

(* The reaper: the disconnect grace of the lease has passed.  A session    *)
(* that is idle or closed ends in the same two steps.                      *)
Reap ==
    /\ lease.detached
    /\ lease' = MarkTerminal(lease)
    /\ UNCHANGED <<conn, link, wireVars, apiVars, graced, sendVars>>

(* The session ends in the API server, after the engine: by the lifecycle  *)
(* listener, whose message has the newest lease generation, or the runner. *)
CloseAttachment ==
    /\ lease.terminal
    /\ registry.present
    /\ registry' = [registry EXCEPT !.present = FALSE, !.attachment = NoConn, !.grace = 0]
    /\ resync' = FALSE
    /\ known' = 0
    /\ UNCHANGED <<conn, link, wireVars, journal, graced, sendVars, lease>>

----------------------------------------------------------------------------

SendStep(s) == SendEvent(s) \/ Overflow(s) \/ SendUnknown(s) \/ SendDone(s) \/ SendFails(s)

HandshakeStep(c) ==
    \/ EngineResume(c) \/ EngineRefuses(c)
    \/ Activate(c) \/ RefuseResume(c)
    \/ SendActivation(c) \/ Replay(c) \/ ReplayFails(c) \/ Resumed(c)

Next ==
    \/ \E s \in Senders : Emit(s) \/ SendStep(s)
    \/ \E c \in Conns :
         \/ Acknowledge(c) \/ Connect(c) \/ HandshakeStep(c)
         \/ LinkDown(c) \/ LinkSilent(c)
         \/ Detach(c) \/ TouchDetach(c)
    \/ ExpireEntry \/ GraceExpires
    \/ Reap \/ CloseAttachment

Spec == Init /\ [][Next]_vars

----------------------------------------------------------------------------

TypeOK ==
    /\ conn \in [Conns -> [phase : Phases, token : Nat, after : Nat, lease : Nat,
                           generation : Nat, replay : Seq(Nat), welcomed : BOOLEAN]]
    /\ link \in [Conns -> {"up", "silent", "down"}]
    /\ received \in [Conns -> Seq(Nat)]
    /\ told \subseteq Conns /\ bare \subseteq Conns
    /\ client \in [token : Nat, seen : Nat]
    /\ registry \in [present : BOOLEAN, generation : Nat, attachment : Conns \cup {NoConn},
                     recovery : Nat, grace : Nat]
    /\ journal \in [dropped : Nat, last : Nat, overflowed : BOOLEAN]
    /\ journal.dropped <= journal.last
    /\ graced \in Nat
    /\ resync \in BOOLEAN
    /\ queue \in Seq(Conns \cup Senders)
    /\ sending \in [to : Conns \cup {NoConn}, number : Nat]
    /\ task \in [Senders -> {"idle", "event", "resync", "bare"}]
    /\ lease \in [generation : Nat, detached : BOOLEAN, terminal : BOOLEAN]
    /\ known \in Nat

(* What a transport receives starts with the activation and then numbers   *)
(* the events without a gap or a repetition, from the number it asked for: *)
(* record, replay, pruning and takeover interleave only under the lock.    *)
GapFree ==
    \A c \in Conns :
        /\ received[c] # <<>> => conn[c].welcomed
        /\ \A i \in 1..Len(received[c]) : received[c][i] = conn[c].after + i

(* Nobody is sent a payload without a number before session.resync_        *)
(* required, although several tasks see the journal overflow.              *)
ResyncFirst == bare \subseteq told

(* The client always has a token that is accepted, or its new one is under *)
(* way: also after any number of resumes whose activation failed.  Only an *)
(* activation that is lost without an error leaves it without.             *)
TokenAccepted ==
    registry.present =>
        \/ Accepts(client.token)
        \/ \E c \in Conns : /\ conn[c].phase = "replaying"
                            /\ ~conn[c].welcomed
                            /\ client.token = conn[c].token
        \/ \E c \in Conns : conn[c].welcomed /\ conn[c].generation > client.token

(* A detached session has its grace running or ended, whatever resumes     *)
(* were refused meanwhile, unless a resume failed after it was accepted.   *)
DetachedHasGrace ==
    registry.present /\ ~Attached /\ registry.recovery = 0 =>
        registry.generation \in {registry.grace, graced}

=============================================================================
