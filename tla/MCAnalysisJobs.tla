---------------------------- MODULE MCAnalysisJobs ----------------------------
(* Small instances of AnalysisJobs for TLC.                                *)
EXTENDS AnalysisJobs, TLC

DispatcherSymmetry == Permutations(Dispatchers)
=============================================================================
