------------------------------ MODULE MCAoaiGate ------------------------------
(* A small instance of AoaiGate for TLC.                                   *)
EXTENDS AoaiGate

GateSymmetry == Permutations(Streaming)
=============================================================================
