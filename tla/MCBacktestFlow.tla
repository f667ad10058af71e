---------------------------- MODULE MCBacktestFlow ----------------------------
(* Small instances of BacktestFlow for TLC: the calls ask for the same     *)
(* back-test, each under a key of its own, except that c4 repeats the key  *)
(* of c1.                                                                  *)
EXTENDS BacktestFlow, TLC

CONSTANTS c1, c2, c3, c4, p1

MCKeyOf == [c \in Calls |-> IF c = c4 THEN c1 ELSE c]
MCPrintOf == [c \in Calls |-> p1]


(* c2 and c3 differ in nothing.                                            *)
CallSymmetry == Permutations({c2, c3})
=============================================================================
