---------------------------- MODULE MCNativeInput ----------------------------
(* The instance of NativeInput for TLC.                                    *)
EXTENDS NativeInput

(* Less than a unit without speech, a unit with speech.                    *)
TwoChunks == {[size |-> 1, speech |-> FALSE], [size |-> 2, speech |-> TRUE]}

=============================================================================
