------------------------------ MODULE MCJobEvents ------------------------------
(* Small instances of JobEvents for TLC: the tabs follow the same job,     *)
(* which is claimed by both tasks.                                         *)
EXTENDS JobEvents

CONSTANT j1

RunJob == [t \in Tasks |-> j1]
FollowJob == [r \in Readers |-> j1]
=============================================================================
