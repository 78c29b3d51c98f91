------------------------------- MODULE MCGate -------------------------------
(* Small instances of GateHistory for TLC. *)
EXTENDS GateHistory, TLC

\* Tool calls are alike.
CallSymmetry == Permutations(Calls)
=============================================================================
