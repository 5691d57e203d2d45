--------------------------- MODULE MCFlowControl ---------------------------
(* Small instances of FlowControl for TLC. *)
EXTENDS FlowControl, TLC

CONSTANTS s1, s2

OneStream == {s1}
TwoStreams == {s1, s2}
Symmetry == Permutations(TwoStreams)
============================================================================
