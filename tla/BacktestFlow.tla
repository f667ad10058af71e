------------------------------ MODULE BacktestFlow ------------------------------
(***************************************************************************)
(* The life of an AI-generated back-test request in the backend:           *)
(* the service (services/ai_backtest_flow.py), its durable rows            *)
(* (db/ai_backtest_repository.py), the executor and its child process      *)
(* (services/ai_backtest_runtime.py, ai_backtest_subprocess_runner.py) and *)
(* the operator's calls that settle a request and approve a replacement.   *)
(*                                                                         *)
(* A call is one POST; a call that wins its claim creates a request row,   *)
(* and the row, its execution run, its child process and its trace are     *)
(* named after the call.  All calls are of one scope family.               *)
(*                                                                         *)
(* Durable: row, exec, code, saved, approval, trace.  Lost when the        *)
(* backend process dies: pc, armedVersion, outcome, broken.  A child       *)
(* process survives its parent.                                            *)
(***************************************************************************)
EXTENDS Integers, FiniteSets

CONSTANTS
  Calls,       \* POST /ai/backtests/generate-and-run calls
  Keys,        \* idempotency keys
  KeyOf,       \* the key of each call
  Prints,      \* payload fingerprints
  PrintOf,     \* the fingerprint of each call
  Approvals,   \* replacement approvals an operator may issue
  None,
  WindowsCalls,  \* calls served by a backend on Windows
  MaxDisturbances  \* bound: process deaths and failed or unacknowledged
                   \* database calls explored

ASSUME FlowConstants ==
  /\ KeyOf \in [Calls -> Keys]
  /\ PrintOf \in [Calls -> Prints]
  /\ None \notin Approvals
  /\ None \notin Calls
  /\ WindowsCalls \subseteq Calls
  /\ MaxDisturbances \in Nat

VARIABLES
  row,           \* app.ai_backtest_request
  exec,          \* app.code_execution_run
  code,          \* app.ai_code_generation.code_status
  saved,         \* further records a call has stored
  approval,      \* app.ai_backtest_replacement_approval
  trace,         \* app.ai_trace.status
  pc,            \* where each call stands
  armedVersion,  \* armed_claim.state_version in _run_execution
  outcome,       \* what the child left for the executor
  broken,        \* _AuditWrites.broken
  child,         \* the runner process
  pipe,          \* the release pipe or signal file
  answer,        \* what the client was told, and about which row
  warrant,       \* history: the approval a row was created with
  runs,          \* history: how often a row's program began to execute
  crashes, faults

tables == <<row, exec, code, saved>>
vars == <<row, exec, code, saved, approval, trace, pc, armedVersion, outcome,
          broken, child, pipe, answer, warrant, runs, crashes, faults>>

TerminalStates == {"succeeded", "failed", "abandoned"}
States == TerminalStates \cup
  {"none", "claimed", "generation_in_progress", "execution_armed",
   "execution_released", "execution_outcome_unknown"}
Leases == {"none", "active", "blocked_unknown", "closed"}
Held   == {"active", "blocked_unknown"}

Outcomes  == {"succeeded", "failed", "timeout", "empty", "garbled"}
RunStates == {"none", "running", "succeeded", "failed", "timeout"}
Records   == {"parse", "validation", "result", "report"}

(* Program points.  "closing" is _complete_failure, "marking" is           *)
(* _mark_outcome_unknown; "withhold" waits for a child that gets no        *)
(* release.                                                                *)
PcValues == {"idle", "begin", "seal", "generate", "validate", "createRun",
             "arm", "spawn", "identify", "authorize", "signal", "withhold",
             "await", "recordRun", "settle", "persist", "report", "complete",
             "closing", "marking", "done", "crashed"}
Underway(c) == pc[c] \notin {"idle", "done", "crashed"}

NoRow == [state |-> "none", lease |-> "none", version |-> 0,
          response |-> "none", evidence |-> FALSE, run |-> FALSE]

Exists(c) == row[c].state # "none"
OfPrint(p) == {c \in Calls : Exists(c) /\ PrintOf[c] = p}

Init ==
  /\ row = [c \in Calls |-> NoRow]
  /\ exec = [c \in Calls |-> [status |-> "none", identity |-> FALSE]]
  /\ code = [c \in Calls |-> "none"]
  /\ saved = [c \in Calls |-> {}]
  /\ approval = [a \in Approvals |-> [status |-> "none", source |-> None]]
  /\ trace = [c \in Calls |-> "none"]
  /\ pc = [c \in Calls |-> "idle"]
  /\ armedVersion = [c \in Calls |-> 0]
  /\ outcome = [c \in Calls |-> "none"]
  /\ broken = [c \in Calls |-> FALSE]
  /\ child = [c \in Calls |-> "none"]
  /\ pipe = [c \in Calls |-> "none"]
  /\ answer = [c \in Calls |-> [kind |-> "none", of |-> None]]
  /\ warrant = [c \in Calls |-> None]
  /\ runs = [c \in Calls |-> 0]
  /\ crashes = 0
  /\ faults = 0

-----------------------------------------------------------------------------
(* Claiming a request: one transaction under the advisory lock of the      *)
(* fingerprint.                                                            *)

Answer(c, kind, q) == answer' = [answer EXCEPT ![c] = [kind |-> kind, of |-> q]]

(* An approval opens the fingerprint of its source, as long as the source  *)
(* is settled and carries evidence.                                        *)
ApprovalReusable(a, p) ==
  /\ approval[a].status \in {"issued", "consumed"}
  /\ PrintOf[approval[a].source] = p
  /\ row[approval[a].source].lease = "closed"
  /\ row[approval[a].source].evidence

ApprovalAccepted(a, p) ==
  /\ approval[a].status = "issued"
  /\ PrintOf[approval[a].source] = p
  /\ row[approval[a].source].state \in TerminalStates
  /\ row[approval[a].source].lease = "closed"
  /\ row[approval[a].source].evidence

(* The insert and its trace.  The two unique indexes make the insert yield *)
(* to a row with the same key or a held lease on the same fingerprint.     *)
InsertRow(c, a) ==
  /\ row' = [row EXCEPT ![c] =
       [state |-> "claimed", lease |-> "active", version |-> 1,
        response |-> "none", evidence |-> FALSE, run |-> FALSE]]
  /\ trace' = [trace EXCEPT ![c] = "started"]
  /\ warrant' = [warrant EXCEPT ![c] = a]

SameKey(c) == {q \in Calls : Exists(q) /\ KeyOf[q] = KeyOf[c]}
HeldBy(p) == {q \in OfPrint(p) : row[q].lease \in Held}

(* A first request for a fingerprint needs no approval.                    *)
CommitFresh(c) ==
  /\ SameKey(c) = {}
  /\ OfPrint(PrintOf[c]) = {}
  /\ InsertRow(c, None)
  /\ UNCHANGED approval

(* A later one consumes an approval.                                       *)
CommitReplacement(c, a) ==
  /\ SameKey(c) = {}
  /\ OfPrint(PrintOf[c]) # {}
  /\ HeldBy(PrintOf[c]) = {}
  /\ ApprovalAccepted(a, PrintOf[c])
  /\ approval' = [approval EXCEPT ![a] = [status |-> "consumed", source |-> @.source]]
  /\ InsertRow(c, a)

CommitClaim(c) == CommitFresh(c) \/ \E a \in Approvals : CommitReplacement(c, a)

ClaimNew(c) ==
  /\ pc[c] = "idle"
  /\ CommitClaim(c)
  /\ pc' = [pc EXCEPT ![c] = "begin"]
  /\ UNCHANGED <<exec, code, saved, armedVersion, outcome, broken, child,
                 pipe, answer, runs, crashes, faults>>

(* _replay_or_conflict for the row the claim found.                        *)
ReplayAnswer(q) ==
  CASE row[q].response = "result" -> "result"
    [] row[q].response = "error" -> "failure"
    [] row[q].response = "none"
       /\ (row[q].state = "execution_outcome_unknown"
           \/ row[q].lease = "blocked_unknown") -> "unknown"
    [] OTHER -> "running"

(* The key names a row of the same fingerprint, or the fingerprint has a   *)
(* held row: the call answers from that row.                               *)
ClaimExisting(c, q) ==
  /\ pc[c] = "idle"
  /\ \/ q \in SameKey(c) /\ PrintOf[q] = PrintOf[c]
     \/ SameKey(c) = {} /\ q \in HeldBy(PrintOf[c])
  /\ Answer(c, ReplayAnswer(q), q)
  /\ pc' = [pc EXCEPT ![c] = "done"]
  /\ UNCHANGED <<tables, approval, trace, armedVersion, outcome, broken,
                 child, pipe, warrant, runs, crashes, faults>>

(* The key was used for another fingerprint, or the fingerprint is settled *)
(* and the call brings no valid approval.  The service reports every error *)
(* of the claim as 503.                                                    *)
ClaimRefused(c) ==
  /\ pc[c] = "idle"
  /\ \/ \E q \in SameKey(c) : PrintOf[q] # PrintOf[c]
     \/ /\ SameKey(c) = {}
        /\ OfPrint(PrintOf[c]) # {}
        /\ HeldBy(PrintOf[c]) = {}
  /\ Answer(c, "refused", None)
  /\ pc' = [pc EXCEPT ![c] = "done"]
  /\ UNCHANGED <<tables, approval, trace, armedVersion, outcome, broken,
                 child, pipe, warrant, runs, crashes, faults>>

(* The database rejects the claim, or commits it and the acknowledgement   *)
(* is lost: the row then has no owner.                                     *)
ClaimFails(c) ==
  /\ pc[c] = "idle"
  /\ crashes + faults < MaxDisturbances
  /\ faults' = faults + 1
  /\ CommitClaim(c) \/ UNCHANGED <<row, trace, warrant, approval>>
  /\ Answer(c, "refused", None)
  /\ pc' = [pc EXCEPT ![c] = "done"]
  /\ UNCHANGED <<exec, code, saved, armedVersion, outcome, broken, child,
                 pipe, runs, crashes>>

-----------------------------------------------------------------------------
(* Writes of the flow.  transition_idempotent_request compares the state   *)
(* and nothing else; leases, run and response keep their value unless one  *)
(* is given.                                                               *)

Moved(c, next, lease, response, run) ==
  [state |-> next, lease |-> lease, version |-> row[c].version + 1,
   response |-> response, evidence |-> row[c].evidence, run |-> run]

Transition(c, expected, next) ==
  /\ row[c].state \in expected
  /\ row' = [row EXCEPT ![c] = Moved(c, next, @.lease, @.response, @.run)]

Settle(c, expected, next, lease, response) ==
  /\ row[c].state \in expected
  /\ row' = [row EXCEPT ![c] = Moved(c, next, lease, response, @.run)]

BeginWrite(c) ==
  /\ Transition(c, {"claimed"}, "generation_in_progress")
  /\ UNCHANGED <<exec, code, saved>>

SealWrite(c) ==
  /\ saved' = [saved EXCEPT ![c] = @ \cup {"parse"}]
  /\ UNCHANGED <<row, exec, code>>

GenerateWrite(c) ==
  /\ code' = [code EXCEPT ![c] = "generated"]
  /\ UNCHANGED <<row, exec, saved>>

(* The verdict is stored first, the code's new status in a second          *)
(* transaction; the last write decides the status.                         *)
ValidateWrite(c, status) ==
  /\ saved' = [saved EXCEPT ![c] = @ \cup {"validation"}]
  /\ code' = [code EXCEPT ![c] = status]
  /\ UNCHANGED <<row, exec>>

CreateRunWrite(c) ==
  /\ exec' = [exec EXCEPT ![c] = [status |-> "running", identity |-> @.identity]]
  /\ UNCHANGED <<row, code, saved>>

ArmWrite(c) ==
  /\ row[c].state = "generation_in_progress"
  /\ row' = [row EXCEPT ![c] = Moved(c, "execution_armed", @.lease, @.response, TRUE)]
  /\ UNCHANGED <<exec, code, saved>>

IdentifyWrite(c) ==
  /\ row[c].run
  /\ row[c].state = "execution_armed"
  /\ row[c].lease = "active"
  /\ exec' = [exec EXCEPT ![c] = [status |-> @.status, identity |-> TRUE]]
  /\ UNCHANGED <<row, code, saved>>

ReleaseWriteUnchecked(c) ==
  /\ row[c].run
  /\ exec[c].identity
  /\ row' = [row EXCEPT ![c] = Moved(c, "execution_released", @.lease, @.response, @.run)]
  /\ UNCHANGED <<exec, code, saved>>

ReleaseWrite(c) ==
  /\ row[c].state = "execution_armed"
  /\ row[c].lease = "active"
  /\ row[c].version = armedVersion[c]
  /\ row[c].run
  /\ exec[c].identity
  /\ row' = [row EXCEPT ![c] = Moved(c, "execution_released", @.lease, @.response, @.run)]
  /\ UNCHANGED <<exec, code, saved>>

RunStatusRaw(o) == o

RunStatus(o) == IF o = "empty" THEN "succeeded" ELSE o

RecordRunWrite(c) ==
  /\ exec' = [exec EXCEPT ![c] =
       [status |-> RunStatus(outcome[c]), identity |-> @.identity]]
  /\ UNCHANGED <<row, code, saved>>

SettleCodeWrite(c) ==
  /\ code' = [code EXCEPT ![c] = IF outcome[c] = "succeeded" THEN "executed" ELSE "failed"]
  /\ UNCHANGED <<row, exec, saved>>

StoreWrite(c, record) ==
  /\ saved' = [saved EXCEPT ![c] = @ \cup {record}]
  /\ UNCHANGED <<row, exec, code>>

(* The states each outcome is written from; _transition_from_any tries     *)
(* them one by one and stops at the first that matches.                    *)
CompleteFrom == {"execution_released", "generation_in_progress"}
CloseFrom == {"execution_released", "execution_outcome_unknown",
              "execution_armed", "generation_in_progress"}
MarkFromClaimed == {"execution_released", "generation_in_progress", "claimed"}
MarkFrom == {"execution_released", "execution_armed",
             "generation_in_progress", "claimed"}

CompleteWrite(c) ==
  /\ Settle(c, CompleteFrom, "succeeded", "closed", "result")
  /\ UNCHANGED <<exec, code, saved>>

CloseWriteNoResponse(c) ==
  /\ Settle(c, CloseFrom, "failed", "closed", row[c].response)
  /\ UNCHANGED <<exec, code, saved>>

CloseWrite(c) ==
  /\ Settle(c, CloseFrom, "failed", "closed", "error")
  /\ UNCHANGED <<exec, code, saved>>

MarkWriteBlind(c) ==
  /\ Settle(c, States, "execution_outcome_unknown", "blocked_unknown", row[c].response)
  /\ UNCHANGED <<exec, code, saved>>

MarkWrite(c) ==
  /\ Settle(c, MarkFrom, "execution_outcome_unknown", "blocked_unknown", row[c].response)
  /\ UNCHANGED <<exec, code, saved>>

-----------------------------------------------------------------------------
(* Steps of the owning call.                                               *)

FinishTrace(c, status) ==
  trace' = IF broken[c] THEN trace ELSE [trace EXCEPT ![c] = status]

GoTo(c, next) ==
  /\ pc' = [pc EXCEPT ![c] = next]
  /\ UNCHANGED trace

(* An exception that is no 422, 502 or 504: the trace is closed as failed  *)
(* and the request is to be marked unknown.                                *)
AbortKeepsTrace(c) ==
  /\ IF trace[c] = "started" THEN FinishTrace(c, "failed") ELSE UNCHANGED trace
  /\ pc' = [pc EXCEPT ![c] = "marking"]

Abort(c) ==
  /\ FinishTrace(c, "failed")
  /\ pc' = [pc EXCEPT ![c] = "marking"]

(* An AppError of status 422, 502 or 504: the request is to be closed.     *)
Reject(c, status) ==
  /\ FinishTrace(c, status)
  /\ pc' = [pc EXCEPT ![c] = "closing"]

localRest == <<approval, outcome, broken, child, pipe, answer, warrant, runs,
               crashes, faults>>

Begin(c) ==
  /\ pc[c] = "begin"
  /\ \/ BeginWrite(c) /\ GoTo(c, "seal")
     \/ row[c].state # "claimed" /\ Abort(c) /\ UNCHANGED tables
  /\ UNCHANGED <<armedVersion, localRest>>

(* seal_backtest_strategy_request refuses an unusable strategy (422) or a  *)
(* provider failure (502) before the parse is stored; a strategy that does *)
(* not validate or cannot be built, or a missing package, is no such error.*)
Seal(c) ==
  /\ pc[c] = "seal"
  /\ \/ SealWrite(c) /\ GoTo(c, "generate")
     \/ (Reject(c, "failed") \/ Abort(c)) /\ UNCHANGED tables
  /\ UNCHANGED <<armedVersion, localRest>>

(* A generation failure is no AppError.                                    *)
Generate(c) ==
  /\ pc[c] = "generate"
  /\ \/ GenerateWrite(c) /\ GoTo(c, "validate")
     \/ Abort(c) /\ UNCHANGED tables
  /\ UNCHANGED <<armedVersion, localRest>>

Validate(c) ==
  /\ pc[c] = "validate"
  /\ \/ ValidateWrite(c, "validated") /\ GoTo(c, "createRun")
     \/ ValidateWrite(c, "rejected") /\ Reject(c, "rejected")
  /\ UNCHANGED <<armedVersion, localRest>>

CreateRun(c) ==
  /\ pc[c] = "createRun"
  /\ CreateRunWrite(c)
  /\ GoTo(c, "arm")
  /\ UNCHANGED <<armedVersion, localRest>>

Arm(c) ==
  /\ pc[c] = "arm"
  /\ \/ /\ ArmWrite(c)
        /\ armedVersion' = [armedVersion EXCEPT ![c] = row[c].version + 1]
        /\ GoTo(c, "spawn")
     \/ /\ row[c].state # "generation_in_progress"
        /\ Abort(c)
        /\ UNCHANGED <<tables, armedVersion>>
  /\ UNCHANGED localRest

(* The child starts blocked on the pipe or, on Windows, polls for a signal *)
(* file; "open" says that no release was sent and one can still come.      *)
Spawn(c) ==
  /\ pc[c] = "spawn"
  /\ \/ /\ child' = [child EXCEPT ![c] = "blocked"]
        /\ pipe' = [pipe EXCEPT ![c] = "open"]
        /\ GoTo(c, "identify")
     \/ Abort(c) /\ UNCHANGED <<child, pipe>>
  /\ UNCHANGED <<tables, approval, armedVersion, outcome, broken, answer,
                 warrant, runs, crashes, faults>>

(* A signal file has no writer to close.                                   *)
ClosePipe(c) ==
  pipe' = [pipe EXCEPT ![c] = IF c \in WindowsCalls THEN @ ELSE "closed"]

Identify(c) ==
  /\ pc[c] = "identify"
  /\ \/ IdentifyWrite(c) /\ GoTo(c, "authorize") /\ UNCHANGED pipe
     \/ /\ ~(row[c].state = "execution_armed" /\ row[c].lease = "active")
        /\ ClosePipe(c)
        /\ GoTo(c, "withhold")
        /\ UNCHANGED tables
  /\ UNCHANGED <<approval, armedVersion, outcome, broken, child, answer,
                 warrant, runs, crashes, faults>>

Authorize(c) ==
  /\ pc[c] = "authorize"
  /\ \/ ReleaseWrite(c) /\ GoTo(c, "signal") /\ UNCHANGED pipe
     \/ /\ ~(row[c].state = "execution_armed" /\ row[c].lease = "active"
             /\ row[c].version = armedVersion[c])
        /\ ClosePipe(c)
        /\ GoTo(c, "withhold")
        /\ UNCHANGED tables
  /\ UNCHANGED <<approval, armedVersion, outcome, broken, child, answer,
                 warrant, runs, crashes, faults>>

WithholdPatient(c) ==
  /\ pc[c] = "withhold"
  /\ child[c] = "ended"
  /\ Abort(c)
  /\ UNCHANGED <<tables, approval, armedVersion, outcome, broken, child, pipe,
                 answer, warrant, runs, crashes, faults>>

(* _withhold_release_and_wait, then release_authorized is false.  A child  *)
(* that does not end within five seconds is killed.                        *)
Withhold(c) ==
  /\ pc[c] = "withhold"
  /\ child' = [child EXCEPT ![c] = "ended"]
  /\ Abort(c)
  /\ UNCHANGED <<tables, approval, armedVersion, outcome, broken, pipe,
                 answer, warrant, runs, crashes, faults>>

(* The release byte and the close, or a failed write.  A signal file is    *)
(* created first and holds the byte later.                                 *)
Signal(c) ==
  /\ pc[c] = "signal"
  /\ \/ /\ c \in WindowsCalls
        /\ pipe[c] = "open"
        /\ pipe' = [pipe EXCEPT ![c] = "empty"]
        /\ GoTo(c, "signal")
        /\ UNCHANGED <<child, outcome>>
     \/ /\ c \in WindowsCalls => pipe[c] = "empty"
        /\ pipe' = [pipe EXCEPT ![c] = "byte"]
        /\ GoTo(c, "await")
        /\ UNCHANGED <<child, outcome>>
     \/ /\ ClosePipe(c)
        /\ child' = [child EXCEPT ![c] = "ended"]
        /\ outcome' = [outcome EXCEPT ![c] = "failed"]
        /\ GoTo(c, "recordRun")
  /\ UNCHANGED <<tables, approval, armedVersion, broken, answer, warrant,
                 runs, crashes, faults>>

(* communicate returns, or times out and the child is killed.  A result    *)
(* file that does not parse raises.                                        *)
Await(c) ==
  /\ pc[c] = "await"
  /\ \/ /\ child[c] = "ended"
        /\ IF outcome[c] = "garbled" THEN Abort(c) ELSE GoTo(c, "recordRun")
        /\ UNCHANGED <<child, outcome>>
     \/ /\ child[c] # "ended"
        /\ child' = [child EXCEPT ![c] = "ended"]
        /\ outcome' = [outcome EXCEPT ![c] = "timeout"]
        /\ GoTo(c, "recordRun")
  /\ UNCHANGED <<tables, approval, armedVersion, broken, pipe, answer,
                 warrant, runs, crashes, faults>>

RecordRun(c) ==
  /\ pc[c] = "recordRun"
  /\ RecordRunWrite(c)
  /\ GoTo(c, "settle")
  /\ UNCHANGED <<armedVersion, localRest>>

SettleCodeByStatus(c) ==
  /\ pc[c] = "settle"
  /\ SettleCodeWrite(c)
  /\ IF exec[c].status = "succeeded" THEN GoTo(c, "persist") ELSE Reject(c, "failed")
  /\ UNCHANGED <<armedVersion, localRest>>

SettleCode(c) ==
  /\ pc[c] = "settle"
  /\ SettleCodeWrite(c)
  /\ IF outcome[c] = "succeeded" THEN GoTo(c, "persist") ELSE Reject(c, "failed")
  /\ UNCHANGED <<armedVersion, localRest>>

PersistResult(c) ==
  /\ pc[c] = "persist"
  /\ StoreWrite(c, "result")
  /\ GoTo(c, "report")
  /\ UNCHANGED <<armedVersion, localRest>>

(* The report is the last record; the trace is closed before the request   *)
(* row is.                                                                 *)
Report(c) ==
  /\ pc[c] = "report"
  /\ \/ StoreWrite(c, "report") /\ FinishTrace(c, "succeeded")
        /\ pc' = [pc EXCEPT ![c] = "complete"]
     \/ Abort(c) /\ UNCHANGED tables
  /\ UNCHANGED <<armedVersion, localRest>>

Complete(c) ==
  /\ pc[c] = "complete"
  /\ \/ /\ CompleteWrite(c)
        /\ Answer(c, "result", c)
        /\ GoTo(c, "done")
     \/ /\ row[c].state \notin CompleteFrom
        /\ Abort(c)
        /\ UNCHANGED <<tables, answer>>
  /\ UNCHANGED <<approval, armedVersion, outcome, broken, child, pipe,
                 warrant, runs, crashes, faults>>

(* _complete_failure; the original error is raised either way.             *)
Close(c) ==
  /\ pc[c] = "closing"
  /\ \/ CloseWrite(c) /\ Answer(c, "failure", c) /\ GoTo(c, "done")
     \/ /\ row[c].state \notin CloseFrom
        /\ GoTo(c, "marking")
        /\ UNCHANGED <<tables, answer>>
  /\ UNCHANGED <<approval, armedVersion, outcome, broken, child, pipe,
                 warrant, runs, crashes, faults>>

(* _mark_outcome_unknown swallows a conflict.                              *)
Mark(c) ==
  /\ pc[c] = "marking"
  /\ \/ MarkWrite(c)
     \/ /\ row[c].state \notin MarkFrom
        /\ UNCHANGED tables
  /\ Answer(c, "error", c)
  /\ GoTo(c, "done")
  /\ UNCHANGED <<approval, armedVersion, outcome, broken, child, pipe,
                 warrant, runs, crashes, faults>>

-----------------------------------------------------------------------------
(* Database faults: a write of the current step fails, or commits without  *)
(* the caller learning of it.                                              *)

WriteAt(c) ==
  \/ pc[c] = "begin" /\ BeginWrite(c)
  \/ pc[c] = "seal" /\ SealWrite(c)
  \/ pc[c] = "generate" /\ GenerateWrite(c)
  \/ pc[c] = "validate" /\ \E s \in {"generated", "validated", "rejected"} : ValidateWrite(c, s)
  \/ pc[c] = "createRun" /\ CreateRunWrite(c)
  \/ pc[c] = "arm" /\ ArmWrite(c)
  \/ pc[c] = "identify" /\ IdentifyWrite(c)
  \/ pc[c] = "authorize" /\ ReleaseWrite(c)
  \/ pc[c] = "recordRun" /\ RecordRunWrite(c)
  \/ pc[c] = "settle" /\ SettleCodeWrite(c)
  \/ pc[c] = "persist" /\ StoreWrite(c, "result")
  \/ pc[c] = "report" /\ StoreWrite(c, "report")
  \/ pc[c] = "complete" /\ CompleteWrite(c)
  \/ pc[c] = "closing" /\ CloseWrite(c)
  \/ pc[c] = "marking" /\ MarkWrite(c)

WritePoints == {"begin", "seal", "generate", "validate", "createRun", "arm",
                "identify", "authorize", "recordRun", "settle", "persist",
                "report", "complete", "closing", "marking"}

(* Where the exception of a failed write leads.                            *)
AfterFault(c) ==
  CASE pc[c] \in {"identify", "authorize"} ->
         ClosePipe(c) /\ GoTo(c, "withhold") /\ UNCHANGED answer
    [] pc[c] = "closing" -> GoTo(c, "marking") /\ UNCHANGED <<pipe, answer>>
    [] pc[c] = "marking" -> Answer(c, "error", c) /\ GoTo(c, "done") /\ UNCHANGED pipe
    [] OTHER -> Abort(c) /\ UNCHANGED <<pipe, answer>>

WriteFault(c) ==
  /\ pc[c] \in WritePoints
  /\ crashes + faults < MaxDisturbances
  /\ faults' = faults + 1
  /\ WriteAt(c) \/ UNCHANGED tables
  /\ AfterFault(c)
  /\ UNCHANGED <<approval, armedVersion, outcome, broken, child, warrant,
                 runs, crashes>>

(* An audit write of the current step fails: the flow goes on, and no      *)
(* later audit write of this call is tried.                                *)
AuditFault(c) ==
  /\ Underway(c)
  /\ crashes + faults < MaxDisturbances
  /\ faults' = faults + 1
  /\ broken' = [broken EXCEPT ![c] = TRUE]
  /\ UNCHANGED <<tables, approval, trace, pc, armedVersion, outcome, child,
                 pipe, answer, warrant, runs, crashes>>

(* The backend process dies; the system closes its end of a pipe.          *)
Crash(c) ==
  /\ Underway(c)
  /\ crashes + faults < MaxDisturbances
  /\ crashes' = crashes + 1
  /\ pc' = [pc EXCEPT ![c] = "crashed"]
  /\ pipe' = [pipe EXCEPT ![c] = IF @ = "open" /\ c \notin WindowsCalls THEN "closed" ELSE @]
  /\ UNCHANGED <<tables, approval, trace, armedVersion, outcome, broken,
                 child, answer, warrant, runs, faults>>

-----------------------------------------------------------------------------
(* The child: _await_release, then the generated program.                  *)

(* The end of a pipe without a byte, and a signal file read before its     *)
(* byte is in it, are no release; nor is a signal file that cannot be      *)
(* removed because the parent still has it open.                           *)
ChildRelease(c) ==
  /\ child[c] = "blocked"
  /\ \/ /\ pipe[c] = "byte"
        /\ child' = [child EXCEPT ![c] = "executing"]
        /\ runs' = [runs EXCEPT ![c] = @ + 1]
        /\ UNCHANGED outcome
     \/ /\ pipe[c] \in {"closed", "empty"} \/ (pipe[c] = "byte" /\ c \in WindowsCalls)
        /\ child' = [child EXCEPT ![c] = "ended"]
        /\ outcome' = [outcome EXCEPT ![c] = "failed"]
        /\ UNCHANGED runs
  /\ UNCHANGED <<tables, approval, trace, pc, armedVersion, broken, pipe,
                 answer, warrant, crashes, faults>>

(* It writes a result, fails, hits its CPU limit, or leaves a file that    *)
(* holds no result or does not parse.                                      *)
ChildEnd(c) ==
  /\ child[c] = "executing"
  /\ child' = [child EXCEPT ![c] = "ended"]
  /\ \E o \in Outcomes : outcome' = [outcome EXCEPT ![c] = o]
  /\ UNCHANGED <<tables, approval, trace, pc, armedVersion, broken, pipe,
                 answer, warrant, runs, crashes, faults>>

-----------------------------------------------------------------------------
(* The operator.  Each call compares the state and version it was given    *)
(* with the row's: a stale one changes nothing.                            *)

operatorRest == <<exec, code, saved, trace, pc, armedVersion, outcome, broken,
                  child, pipe, answer, warrant, runs, crashes, faults>>

(* An armed or released request needs the identity of its process, and a   *)
(* released one the recorded end of its run.                               *)
ProcessEvidenceAnyRun(c) ==
  row[c].state \in {"execution_armed", "execution_released"}
    => row[c].run /\ exec[c].identity

ProcessEvidence(c) ==
  /\ row[c].state \in {"execution_armed", "execution_released"}
       => row[c].run /\ exec[c].identity
  /\ row[c].state = "execution_released"
       => exec[c].status \in {"succeeded", "failed", "timeout"}

WithEvidence(c, terminal) ==
  [state |-> terminal, lease |-> "closed", version |-> row[c].version + 1,
   response |-> row[c].response, evidence |-> TRUE, run |-> row[c].run]

OperatorTerminalize(c, terminal) ==
  /\ Exists(c)
  /\ row[c].lease \in Held
  /\ ProcessEvidence(c)
  /\ row' = [row EXCEPT ![c] = WithEvidence(c, terminal)]
  /\ UNCHANGED <<approval, operatorRest>>

OperatorRecordEvidence(c) ==
  /\ row[c].state \in TerminalStates
  /\ row[c].lease = "closed"
  /\ ~row[c].evidence
  /\ row' = [row EXCEPT ![c] = WithEvidence(c, @.state)]
  /\ UNCHANGED <<approval, operatorRest>>

(* Lapsed approvals of the source are marked first; a live one refuses.    *)
OperatorIssueApproval(a, c) ==
  /\ approval[a].status = "none"
  /\ row[c].state \in TerminalStates
  /\ row[c].lease = "closed"
  /\ row[c].evidence
  /\ \A b \in Approvals : approval[b].source = c => approval[b].status # "issued"
  /\ approval' = [b \in Approvals |->
       IF b = a THEN [status |-> "issued", source |-> c]
       ELSE IF approval[b].source = c /\ approval[b].status = "lapsed"
            THEN [status |-> "expired", source |-> c]
            ELSE approval[b]]
  /\ UNCHANGED <<row, operatorRest>>

(* expires_at passes.                                                      *)
ApprovalLapses(a) ==
  /\ approval[a].status = "issued"
  /\ approval' = [approval EXCEPT ![a] = [status |-> "lapsed", source |-> @.source]]
  /\ UNCHANGED <<row, operatorRest>>

-----------------------------------------------------------------------------
Claim(c) ==
  \/ ClaimNew(c)
  \/ \E q \in Calls : ClaimExisting(c, q)
  \/ ClaimRefused(c)
  \/ ClaimFails(c)

Prepare(c) == Begin(c) \/ Seal(c) \/ Generate(c) \/ Validate(c)
Execute(c) ==
  \/ CreateRun(c) \/ Arm(c) \/ Spawn(c) \/ Identify(c) \/ Authorize(c)
  \/ Withhold(c) \/ Signal(c) \/ Await(c) \/ RecordRun(c)
Finish(c) ==
  \/ SettleCode(c) \/ PersistResult(c) \/ Report(c) \/ Complete(c)
  \/ Close(c) \/ Mark(c)

Child(c) == ChildRelease(c) \/ ChildEnd(c)

Disturb(c) == WriteFault(c) \/ AuditFault(c) \/ Crash(c)

Operator ==
  \/ \E c \in Calls : OperatorRecordEvidence(c)
  \/ \E c \in Calls, t \in {"failed", "abandoned"} : OperatorTerminalize(c, t)
  \/ \E a \in Approvals, c \in Calls : OperatorIssueApproval(a, c)
  \/ \E a \in Approvals : ApprovalLapses(a)

Next ==
  \/ \E c \in Calls : Claim(c) \/ Prepare(c) \/ Execute(c) \/ Finish(c)
                      \/ Child(c) \/ Disturb(c)
  \/ Operator

Spec == Init /\ [][Next]_vars

(* A claimed call runs to its end unless its process dies, and a child     *)
(* looks for its release and ends by itself or by its CPU limit; on        *)
(* Windows it has no limit.  Nobody has to call, and no operator has to    *)
(* act.                                                                    *)
FairSpec ==
  /\ Spec
  /\ \A c \in Calls : /\ WF_vars(Prepare(c) \/ Execute(c) \/ Finish(c))
                      /\ WF_vars(ChildRelease(c))
  /\ \A c \in Calls \ WindowsCalls : WF_vars(ChildEnd(c))

-----------------------------------------------------------------------------
TypeOK ==
  /\ row \in [Calls -> [state : States, lease : Leases, version : Nat,
                        response : {"none", "result", "error"},
                        evidence : BOOLEAN, run : BOOLEAN]]
  /\ exec \in [Calls -> [status : RunStates, identity : BOOLEAN]]
  /\ code \in [Calls -> {"none", "generated", "validated", "rejected", "executed", "failed"}]
  /\ saved \in [Calls -> SUBSET Records]
  /\ approval \in [Approvals ->
       [status : {"none", "issued", "lapsed", "expired", "consumed"},
        source : Calls \cup {None}]]
  /\ trace \in [Calls -> {"none", "started", "succeeded", "failed", "rejected"}]
  /\ pc \in [Calls -> PcValues]
  /\ armedVersion \in [Calls -> Nat]
  /\ outcome \in [Calls -> Outcomes \cup {"none"}]
  /\ broken \in [Calls -> BOOLEAN]
  /\ child \in [Calls -> {"none", "blocked", "executing", "ended"}]
  /\ pipe \in [Calls -> {"none", "open", "empty", "byte", "closed"}]
  /\ answer \in [Calls -> [kind : {"none", "running", "unknown", "result", "failure",
                                  "refused", "error"},
                          of : Calls \cup {None}]]
  /\ warrant \in [Calls -> Approvals \cup {None}]
  /\ runs \in [Calls -> Nat]
  /\ crashes \in Nat
  /\ faults \in Nat

(* Generated code executes only while its request is durably released, its *)
(* lease is active and its process is on record: neither a crash, a lost   *)
(* acknowledgement nor an operator settles a request under a running       *)
(* child.                                                                  *)
ExecutingIsOwned ==
  \A c \in Calls : child[c] = "executing" =>
    /\ row[c].state = "execution_released"
    /\ row[c].lease = "active"
    /\ exec[c].identity

(* Every request row beyond the first of its fingerprint was bought with   *)
(* an approval of its own: no retry, race or lost acknowledgement makes a  *)
(* second row for nothing, and no approval makes two.                      *)
RowsHaveDistinctWarrants ==
  \A c, d \in Calls :
    c # d /\ Exists(c) /\ Exists(d) /\ PrintOf[c] = PrintOf[d]
      => warrant[c] # warrant[d]

(* A stored success response stands on a complete set of records: the      *)
(* program ran once, its run is recorded as succeeded, and code, result    *)
(* and report are stored.  A stored error response never hides a result.   *)
ResponseMatchesRecords ==
  \A c \in Calls :
    /\ row[c].response = "result" =>
         /\ row[c].state = "succeeded"
         /\ runs[c] = 1
         /\ exec[c].status = "succeeded"
         /\ code[c] = "executed"
         /\ saved[c] = Records
    /\ row[c].response = "error" =>
         /\ row[c].state = "failed"
         /\ "result" \notin saved[c]

(* What a client was told stays true: a result or failure it was given is  *)
(* the stored response of a row with its own fingerprint.                  *)
AnswersHold ==
  \A c \in Calls :
    /\ answer[c].kind \in {"result", "failure", "running", "unknown"} =>
         /\ Exists(answer[c].of)
         /\ PrintOf[answer[c].of] = PrintOf[c]
    /\ answer[c].kind = "result" => row[answer[c].of].response = "result"
    /\ answer[c].kind = "failure" => row[answer[c].of].response = "error"

(* Every way out of the flow gives up the active lease, by closing or by   *)
(* blocking it, unless the database failed.                                *)
NoForgottenLease ==
  \A c \in Calls : pc[c] = "done" /\ row[c].lease = "active" => faults > 0

(* With its audit intact a finished call leaves a closed trace, and a      *)
(* trace that reports success belongs to a request that succeeded.         *)
TraceAgrees ==
  \A c \in Calls :
    pc[c] = "done" /\ ~broken[c] /\ answer[c].of = c =>
      /\ trace[c] \in {"succeeded", "failed", "rejected"}
      /\ trace[c] = "succeeded" => row[c].state = "succeeded"

(* A settled request is settled for good: its state, lease and response    *)
(* never change again, and a blocked lease is never made active.           *)
SettledForGood ==
  [][\A c \in Calls :
       /\ row[c].lease = "closed" =>
            /\ row'[c].state = row[c].state
            /\ row'[c].lease = "closed"
            /\ row'[c].response = row[c].response
       /\ row[c].lease = "blocked_unknown" => row'[c].lease # "active"]_vars

Living(c) == child[c] \in {"blocked", "executing"}

(* A call that owns a request reaches its end, and so does its child: one  *)
(* with a live parent because the parent waits no longer than its time     *)
(* limits, one that lost its parent because its pipe ends and its CPU time *)
(* is limited.  Only on Windows, where it has neither, an orphan may live  *)
(* on.                                                                     *)
EverythingEnds ==
  \A c \in Calls :
    (Underway(c) \/ Living(c))
      ~> (~Underway(c) /\ (Living(c) => c \in WindowsCalls /\ pc[c] = "crashed"))

(* The service implements the execution lease.                             *)
Lease == INSTANCE ExecutionLease WITH
  known     <- {c \in Calls : Exists(c)},
  held      <- {c \in Calls : row[c].lease \in Held},
  executing <- {c \in Calls : child[c] = "executing"},
  executed  <- {c \in Calls : runs[c] > 0}

ImplementsLease == Lease!Spec
=============================================================================
