---------------------------- MODULE MCDuplexSession ----------------------------
(* Instances of DuplexSession for TLC.                                     *)
EXTENDS DuplexSession, TLC

F(i, e, t, r) == [inc |-> i, epoch |-> e, turn |-> t, resp |-> r]

(* Two epochs, in the second a turn and a response, which NotBehind        *)
(* compares each for itself, and the next incarnation of the id.           *)
TurnFences == {F(0, 0, 0, 0), F(0, 1, 0, 0), F(0, 1, 1, 0), F(0, 1, 0, 1), F(1, 0, 0, 0)}

OpSymmetry == Permutations(OpIds)

=============================================================================
