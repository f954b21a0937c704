-------------------------- MODULE MCSessionAttachment --------------------------
(* Instances of SessionAttachment for TLC.                                 *)
EXTENDS SessionAttachment, TLC

(* Senders are alike, and so are the transports that resume.               *)
Symmetry == Permutations(Senders) \cup Permutations(Conns \ {First})

=============================================================================
