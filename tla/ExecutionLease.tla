----------------------------- MODULE ExecutionLease -----------------------------
(***************************************************************************)
(* What the back-test service promises about execution.  Of the requests   *)
(* with one fingerprint at most one holds the lease; only the holder's     *)
(* program executes, and only once; a lease is not given up under a        *)
(* running program.  service_db/README.md: the table blocks a second       *)
(* execution of the same request.                                          *)
(***************************************************************************)
CONSTANTS Calls, PrintOf

VARIABLES known, held, executing, executed

leaseVars == <<known, held, executing, executed>>

Init == known = {} /\ held = {} /\ executing = {} /\ executed = {}

(* A new request takes the free lease of its fingerprint.                  *)
Acquire(c) ==
  /\ c \notin known
  /\ \A d \in held : PrintOf[d] # PrintOf[c]
  /\ known' = known \cup {c}
  /\ held' = held \cup {c}
  /\ UNCHANGED <<executing, executed>>

Start(c) ==
  /\ c \in held
  /\ c \notin executed
  /\ executing' = executing \cup {c}
  /\ executed' = executed \cup {c}
  /\ UNCHANGED <<known, held>>

Stop(c) ==
  /\ c \in executing
  /\ executing' = executing \ {c}
  /\ UNCHANGED <<known, held, executed>>

GiveUp(c) ==
  /\ c \in held
  /\ c \notin executing
  /\ held' = held \ {c}
  /\ UNCHANGED <<known, executing, executed>>

Next == \E c \in Calls : Acquire(c) \/ Start(c) \/ Stop(c) \/ GiveUp(c)

Spec == Init /\ [][Next]_leaseVars
=============================================================================
