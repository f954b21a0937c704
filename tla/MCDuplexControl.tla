---------------------------- MODULE MCDuplexControl ----------------------------
(* Instances of DuplexControl for TLC.                                     *)
EXTENDS DuplexControl

F(i, e, t) == [inc |-> i, epoch |-> e, turn |-> t, resp |-> 0]

(* One incarnation: a turn, the epoch after a cancel.                      *)
OneFences == {F(0, 0, 0), F(0, 1, 0)}

(* An id that is opened twice.                                             *)
TwoFences == {F(0, 0, 0), F(0, 1, 0), F(1, 0, 0)}

=============================================================================
