----------------------------- MODULE StreamPlayback -----------------------------
(***************************************************************************)
(* What a stage of the pipeline promises of an input stream in async-chunk *)
(* mode: the chunks that the sender puts into it are computed one by one   *)
(* and in their order, those without content are passed over, and the      *)
(* stream ends by itself when all of it has been computed.  An aborted     *)
(* stream is computed no further.  Nothing is said of when.                *)
(***************************************************************************)
EXTENDS Naturals, Sequences

CONSTANTS
    Chunks,
    Content,    \* the chunks that have something to compute
    Final       \* the chunks that end a stream

VARIABLES
    sent,       \* the chunks of the stream so far
    played,     \* the numbers of those that have been computed
    state       \* of its request: new, live, ended or aborted

Init == sent = <<>> /\ played = <<>> /\ state = "new"

Complete == sent # <<>> /\ sent[Len(sent)] \in Final

(* All that has content among the first n chunks has been computed, and    *)
(* nothing else.                                                           *)
PlayedUpTo(n) ==
    {played[i] : i \in DOMAIN played} = {i \in 1..n : sent[i] \in Content}

Put ==
    /\ ~Complete
    /\ \E c \in Chunks : sent' = Append(sent, c)
    /\ UNCHANGED <<played, state>>

Begin ==
    /\ state = "new" /\ state' = "live"
    /\ UNCHANGED <<sent, played>>

(* The chunk whose turn it is.                                             *)
Play ==
    /\ state = "live"
    /\ \E n \in DOMAIN sent :
          sent[n] \in Content /\ PlayedUpTo(n - 1) /\ played' = Append(played, n)
    /\ UNCHANGED <<sent, state>>

End ==
    /\ state = "live" /\ Complete /\ PlayedUpTo(Len(sent))
    /\ state' = "ended"
    /\ UNCHANGED <<sent, played>>

Abort ==
    /\ state = "live" /\ state' = "aborted"
    /\ UNCHANGED <<sent, played>>

Next == Put \/ Begin \/ Play \/ End \/ Abort

Spec == Init /\ [][Next]_<<sent, played, state>>

=============================================================================
