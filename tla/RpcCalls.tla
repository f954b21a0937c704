-------------------------------- MODULE RpcCalls --------------------------------
(***************************************************************************)
(* What correlated RPC promises its callers: a call that is accepted ends  *)
(* once, with its own answer, a failure or a timeout; an answer is given   *)
(* only to a call that was executed; when the service has closed no call   *)
(* is accepted.  A call that failed or timed out may still be executed.    *)
(***************************************************************************)

CONSTANT Callers

VARIABLES
    state,      \* of each call
    executed,   \* calls that the orchestrator has executed
    closed      \* no call is accepted any more

States == {"idle", "open", "answered", "failed", "timed_out", "rejected"}

Init ==
    /\ state = [c \in Callers |-> "idle"]
    /\ executed = {}
    /\ closed = FALSE

Call(c) ==
    /\ state[c] = "idle" /\ ~closed
    /\ state' = [state EXCEPT ![c] = "open"]
    /\ UNCHANGED <<executed, closed>>

Reject(c) ==
    /\ state[c] = "idle" /\ closed
    /\ state' = [state EXCEPT ![c] = "rejected"]
    /\ UNCHANGED <<executed, closed>>

Execute(c) ==
    /\ state[c] \in {"open", "failed", "timed_out"} /\ c \notin executed
    /\ executed' = executed \cup {c}
    /\ UNCHANGED <<state, closed>>

Answer(c) ==
    /\ state[c] = "open" /\ c \in executed
    /\ state' = [state EXCEPT ![c] = "answered"]
    /\ UNCHANGED <<executed, closed>>

GiveUp(c, end) ==
    /\ state[c] = "open"
    /\ state' = [state EXCEPT ![c] = end]
    /\ UNCHANGED <<executed, closed>>

Close ==
    /\ closed' = TRUE
    /\ UNCHANGED <<state, executed>>

Next ==
    \/ \E c \in Callers :
          \/ Call(c) \/ Reject(c) \/ Execute(c) \/ Answer(c)
          \/ GiveUp(c, "failed") \/ GiveUp(c, "timed_out")
    \/ Close

Spec == Init /\ [][Next]_<<state, executed, closed>>

=============================================================================
