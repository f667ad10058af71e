---------------------------- MODULE MCEmailOutbox ----------------------------
(* Small instances of EmailOutbox for TLC.                                 *)
EXTENDS EmailOutbox

OutboxSymmetry == Permutations(Workers) \cup Permutations(Deliveries)
=============================================================================
