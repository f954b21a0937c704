------------------------------- MODULE RpcRouter -------------------------------
(***************************************************************************)
(* Correlated RPC between the threads of the API server and the            *)
(* orchestrator: callers register a waiter under the key of their call,    *)
(* submit, wait, perhaps with a timeout, and unregister; the dispatcher    *)
(* thread takes results from the shared queue; close and fatal errors wake *)
(* all who wait.  A step is what a thread does under the lock, or one      *)
(* operation on a queue.                                                   *)
(*                                                                         *)
(* Every call has a key of its own (a uuid), so a caller, its call, its    *)
(* key and its answer are one value.                                       *)
(*                                                                         *)
(* Source: src/vllm_omni/engine/rpc_result_router.py                       *)
(***************************************************************************)
CONSTANTS
    Callers,      \* calls, each with its own correlation key
    Impatient,    \* those with a timeout
    Fatal,        \* a fatal ErrorMessage
    Empty,        \* an empty waiter, or no message
    TimedOut,     \* TimeoutError
    Rejected      \* register raised

ASSUME RouterAssumption ==
    /\ Impatient \subseteq Callers
    /\ Callers \cap {Fatal, Empty, TimedOut, Rejected} = {}
    /\ Fatal # Empty /\ Fatal # TimedOut /\ Fatal # Rejected
    /\ Empty # TimedOut /\ Empty # Rejected /\ TimedOut # Rejected

VARIABLES
    pc,         \* where each caller is in execute()
    outcome,    \* how its call ended
    waiter,     \* its queue of size one
    requests,   \* calls that were put into the request queue
    executed,   \* calls that the orchestrator has executed
    alive,      \* the orchestrator has not reported a fatal error
    source,     \* the queue of results; its order makes no difference here
    pending,    \* _pending
    terminal,   \* _terminal_error is set
    stopped,    \* _stopped
    phase,      \* where the dispatcher and the closing thread are
    message,    \* what the dispatcher has taken from the queue
    wake        \* waiters that each of the two still has to wake

callVars == <<pc, outcome>>
engineVars == <<requests, executed, alive>>
routerVars == <<pending, terminal, stopped>>
threadVars == <<phase, message, wake>>
vars == <<callVars, waiter, engineVars, source, routerVars, threadVars>>

Threads == {"dispatcher", "closer"}

Phases == {"open", "check", "poll", "match", "deliver", "latch", "wake", "ended", "crashed"}

TypeOK ==
    /\ pc \in [Callers -> {"idle", "submit", "wait", "unregister", "done"}]
    /\ outcome \in [Callers -> Callers \cup {Empty, Fatal, TimedOut, Rejected}]
    /\ waiter \in [Callers -> Callers \cup {Empty, Fatal}]
    /\ requests \subseteq Callers
    /\ executed \subseteq Callers
    /\ alive \in BOOLEAN
    /\ source \subseteq Callers \cup {Fatal}
    /\ pending \subseteq Callers
    /\ terminal \in BOOLEAN
    /\ stopped \in BOOLEAN
    /\ phase \in [Threads -> Phases]
    /\ message \in Callers \cup {Fatal, Empty}
    /\ wake \in [Threads -> SUBSET Callers]

Init ==
    /\ pc = [c \in Callers |-> "idle"]
    /\ outcome = [c \in Callers |-> Empty]
    /\ waiter = [c \in Callers |-> Empty]
    /\ requests = {}
    /\ executed = {}
    /\ alive = TRUE
    /\ source = {}
    /\ pending = {}
    /\ terminal = FALSE
    /\ stopped = FALSE
    /\ phase = [t \in Threads |-> IF t = "dispatcher" THEN "check" ELSE "open"]
    /\ message = Empty
    /\ wake = [t \in Threads |-> {}]

-----------------------------------------------------------------------------
(* The caller: CorrelatedRpcClient.execute.                                *)

Goto(c, p) == pc' = [pc EXCEPT ![c] = p]

(* The call ends with x, once it has unregistered.                         *)
End(c, x) == Goto(c, "unregister") /\ outcome' = [outcome EXCEPT ![c] = x]

(* Wrong: does not look at the terminal error.                             *)
MayRegisterUnlessStopped == ~stopped

MayRegister == ~stopped /\ ~terminal

Register(c) ==
    /\ pc[c] = "idle"
    /\ MayRegister
    /\ Goto(c, "submit")
    /\ pending' = pending \cup {c}
    /\ UNCHANGED <<outcome, waiter, engineVars, source, terminal, stopped, threadVars>>

Refuse(c) ==
    /\ pc[c] = "idle"
    /\ ~MayRegister
    /\ Goto(c, "done")
    /\ outcome' = [outcome EXCEPT ![c] = Rejected]
    /\ UNCHANGED <<waiter, engineVars, source, routerVars, threadVars>>

Submit(c) ==
    /\ pc[c] = "submit"
    /\ Goto(c, "wait")
    /\ requests' = requests \cup {c}
    /\ UNCHANGED <<outcome, waiter, executed, alive, source, routerVars, threadVars>>

(* The request queue is full or closed.                                    *)
SubmitFails(c) ==
    /\ pc[c] = "submit"
    /\ End(c, Fatal)
    /\ UNCHANGED <<waiter, engineVars, source, routerVars, threadVars>>

Get(c) ==
    /\ pc[c] = "wait"
    /\ waiter[c] # Empty
    /\ End(c, waiter[c])
    /\ waiter' = [waiter EXCEPT ![c] = Empty]
    /\ UNCHANGED <<engineVars, source, routerVars, threadVars>>

TimeOut(c) ==
    /\ pc[c] = "wait"
    /\ c \in Impatient
    /\ waiter[c] = Empty
    /\ End(c, TimedOut)
    /\ UNCHANGED <<waiter, engineVars, source, routerVars, threadVars>>

Unregister(c) ==
    /\ pc[c] = "unregister"
    /\ Goto(c, "done")
    /\ pending' = pending \ {c}
    /\ UNCHANGED <<outcome, waiter, engineVars, source, terminal, stopped, threadVars>>

-----------------------------------------------------------------------------
(* The orchestrator: it executes calls in any order and answers each once, *)
(* unless it ends with a fatal error.                                      *)
Execute(c) ==
    /\ alive
    /\ c \in requests \ executed
    /\ executed' = executed \cup {c}
    /\ source' = source \cup {c}
    /\ UNCHANGED <<callVars, waiter, requests, alive, routerVars, threadVars>>

Die ==
    /\ alive
    /\ alive' = FALSE
    /\ source' = source \cup {Fatal}
    /\ UNCHANGED <<callVars, waiter, requests, executed, routerVars, threadVars>>

-----------------------------------------------------------------------------
(* The dispatcher: RpcResultRouter._run.                                   *)

Enter(t, p) == phase' = [phase EXCEPT ![t] = p]

Check ==
    /\ phase["dispatcher"] = "check"
    /\ Enter("dispatcher", IF stopped THEN "ended" ELSE "poll")
    /\ message' = Empty
    /\ UNCHANGED <<callVars, waiter, engineVars, source, routerVars, wake>>

Poll(m) ==
    /\ phase["dispatcher"] = "poll"
    /\ m \in source
    /\ source' = source \ {m}
    /\ message' = m
    /\ Enter("dispatcher", IF m = Fatal THEN "latch" ELSE "match")
    /\ UNCHANGED <<callVars, waiter, engineVars, routerVars, wake>>

(* Nothing came in time.                                                   *)
PollEmpty ==
    /\ phase["dispatcher"] = "poll"
    /\ source = {}
    /\ Enter("dispatcher", "check")
    /\ UNCHANGED <<callVars, waiter, engineVars, source, routerVars, message, wake>>

(* The queue raised, because it was closed or otherwise.                   *)
SourceFails ==
    /\ phase["dispatcher"] = "poll"
    /\ Enter("dispatcher", IF stopped THEN "ended" ELSE "latch")
    /\ UNCHANGED <<callVars, waiter, engineVars, source, routerVars, message, wake>>

(* Wrong: any waiter will do.                                              *)
AddresseeAny(m) == IF pending = {} THEN m ELSE CHOOSE c \in pending : TRUE

Addressee(m) == m

Matched(c) == pending \ {c}

(* Take the waiter of the key; a late result has none.                     *)
Match ==
    /\ phase["dispatcher"] = "match"
    /\ LET c == Addressee(message)
       IN  /\ Enter("dispatcher", IF c \in pending THEN "deliver" ELSE "check")
           /\ message' = c
           /\ pending' = Matched(c)
    /\ UNCHANGED <<callVars, waiter, engineVars, source, terminal, stopped, wake>>

(* put_nowait: a waiter that is full would end the thread.                 *)
Deliver ==
    /\ phase["dispatcher"] = "deliver"
    /\ IF waiter[message] = Empty
       THEN /\ waiter' = [waiter EXCEPT ![message] = message]
            /\ Enter("dispatcher", "check")
       ELSE /\ Enter("dispatcher", "crashed")
            /\ UNCHANGED waiter
    /\ UNCHANGED <<callVars, engineVars, source, routerVars, message, wake>>

-----------------------------------------------------------------------------
(* close, and the broadcast of the terminal error by either thread.        *)
Stop ==
    /\ phase["closer"] = "open"
    /\ stopped' = TRUE
    /\ Enter("closer", "latch")
    /\ UNCHANGED <<callVars, waiter, engineVars, source, pending, terminal, message, wake>>

(* Wrong: clears the waiters, then lists them.                             *)
ToWakeCleared == {}

(* Wrong: lists the entries of the table, not their waiters.               *)
ToWakeItems == {<<c, waiter[c]>> : c \in pending}

ToWake == pending

Latch(t) ==
    /\ phase[t] = "latch"
    /\ terminal' = TRUE
    /\ wake' = [wake EXCEPT ![t] = ToWake]
    /\ pending' = {}
    /\ Enter(t, "wake")
    /\ UNCHANGED <<callVars, waiter, engineVars, source, stopped, message>>

Wake(t, c) ==
    /\ phase[t] = "wake"
    /\ c \in wake[t]
    /\ waiter' = [waiter EXCEPT ![c] = IF @ = Empty THEN Fatal ELSE @]
    /\ wake' = [wake EXCEPT ![t] = @ \ {c}]
    /\ UNCHANGED <<callVars, engineVars, source, routerVars, phase, message>>

(* All are awake: the dispatcher goes on after a fatal message.            *)
Awake(t) ==
    /\ phase[t] = "wake"
    /\ wake[t] = {}
    /\ Enter(t, IF t = "dispatcher" /\ message = Fatal THEN "check" ELSE "ended")
    /\ UNCHANGED <<callVars, waiter, engineVars, source, routerVars, message, wake>>

-----------------------------------------------------------------------------
Caller(c) ==
    \/ Register(c) \/ Refuse(c) \/ Submit(c) \/ SubmitFails(c)
    \/ Get(c) \/ TimeOut(c) \/ Unregister(c)

Broadcast(t) == Latch(t) \/ Awake(t) \/ \E c \in Callers : Wake(t, c)

Dispatch ==
    \/ Check \/ PollEmpty \/ SourceFails \/ Match \/ Deliver
    \/ \E m \in source : Poll(m)

Next ==
    \/ \E c \in Callers : Caller(c) \/ Execute(c)
    \/ Die
    \/ Dispatch
    \/ Stop
    \/ \E t \in Threads : Broadcast(t)

Spec == Init /\ [][Next]_vars

(* Every thread that can go on does so.  Nobody has to call or to close,   *)
(* and the orchestrator need not answer.                                   *)
Fairness ==
    /\ WF_vars(Dispatch)
    /\ \A t \in Threads : WF_vars(Broadcast(t))
    /\ \A c \in Callers : WF_vars(Get(c)) /\ WF_vars(Unregister(c))

FairSpec == Spec /\ Fairness

-----------------------------------------------------------------------------
(* Properties.                                                             *)

(* The error or answer of c is on its way: some thread has taken its       *)
(* waiter from the table and will put a message into it.                   *)
OnItsWay(c) ==
    \/ phase["dispatcher"] = "deliver" /\ message = c
    \/ \E t \in Threads : c \in wake[t]

(* Nobody waits in vain: whoever waits is in the table, where a result, a  *)
(* fatal error or a close finds it, or has a message, or one on its way;   *)
(* after a fatal error or a close the table is empty and stays so.         *)
NobodyStranded ==
    /\ \A c \in Callers :
          pc[c] = "wait" => c \in pending \/ waiter[c] # Empty \/ OnItsWay(c)
    /\ terminal => pending = {}

(* No waiter is handed out twice, so the dispatcher never finds one full,  *)
(* which would end it and leave every later result undelivered.            *)
DispatcherSurvives == phase["dispatcher"] # "crashed"

(* The end of the orchestrator, of the queue or of the router releases     *)
(* everyone who waits, with or without a timeout.                          *)
TerminalReleases ==
    \A c \in Callers :
        ((~alive \/ terminal \/ stopped) /\ pc[c] = "wait") ~> pc[c] = "done"

(* A call as its caller sees it, at p in execute() and with outcome o.     *)
Seen(c, p, o) ==
    CASE p = "idle" -> "idle"
      [] p \in {"submit", "wait"} -> "open"
      [] OTHER -> IF o = c THEN "answered"
                  ELSE IF o = TimedOut THEN "timed_out"
                  ELSE IF o = Rejected THEN "rejected"
                  ELSE "failed"

CallState == [c \in Callers |-> Seen(c, pc[c], outcome[c])]

Calls == INSTANCE RpcCalls WITH state <- CallState, executed <- executed,
                                closed <- terminal \/ stopped

(* Callers see what RpcCalls promises: a call that is accepted ends once,  *)
(* with its own answer, an error or a timeout, and no call is accepted     *)
(* after a fatal error or a close.                                         *)
CallsKept == Calls!Spec

=============================================================================
