--------------------------- MODULE BacktestFlowProofs ---------------------------
(***************************************************************************)
(* Proofs about BacktestFlow, for any number of calls, keys, fingerprints, *)
(* approvals, process deaths and database faults: its safety invariants,   *)
(* that a settled request stays settled, and that the flow implements      *)
(* ExecutionLease.                                                         *)
(*                                                                         *)
(* Every step but a claim and an approval belongs to one call and changes  *)
(* that call's state alone.  The invariant is therefore mostly a statement *)
(* about one call (CallOK); a step is shown to keep it for its own call,   *)
(* and Frame carries it over for the others.  Two parts look across calls: *)
(* what a client was told about another call's row, and the approvals.     *)
(***************************************************************************)
EXTENDS BacktestFlow, TLAPS

(* An operator may settle a request under its call's hands.                *)
Taken == {"failed", "abandoned"}

Early     == {"begin", "seal", "generate", "validate", "createRun", "arm", "spawn"}
Launching == {"identify", "authorize", "signal"}
Recording == {"settle", "persist", "report", "complete"}

(* A call without a request row has touched nothing durable.               *)
BlankOK(c) ==
  /\ pc[c] = "idle" => ~ Exists(c)
  /\ ~ Exists(c) => /\ pc[c] \in {"idle", "done"}
                    /\ row[c].response = "none"
                    /\ saved[c] = {}
                    /\ ~ exec[c].identity
                    /\ child[c] = "none" /\ pipe[c] = "none"

(* Lease and state say the same.                                           *)
RowOK(c) ==
  /\ row[c].state = "none" <=> row[c].lease = "none"
  /\ row[c].state \in TerminalStates <=> row[c].lease = "closed"
  /\ row[c].state = "execution_outcome_unknown" <=> row[c].lease = "blocked_unknown"
  /\ row[c].response # "none" => pc[c] \in {"marking", "done", "crashed"}

(* The state a call finds at each of its steps.                            *)
StageOK(c) ==
  /\ pc[c] = "begin" => row[c].state \in {"claimed"} \cup Taken
  /\ pc[c] \in Early \ {"begin", "spawn"} =>
       row[c].state \in {"generation_in_progress"} \cup Taken
  /\ pc[c] \in {"spawn", "identify"} => row[c].state = "execution_armed" /\ row[c].run
  /\ pc[c] = "authorize" => row[c].state \in {"execution_armed"} \cup Taken
  /\ pc[c] = "withhold" =>
       row[c].state \in {"execution_armed", "execution_released"} \cup Taken
  /\ pc[c] \in {"signal", "await", "recordRun"} => row[c].state = "execution_released"
  /\ pc[c] \in Recording => row[c].state \in {"execution_released"} \cup Taken
  /\ pc[c] = "closing" =>
       row[c].state \in {"generation_in_progress", "execution_released"} \cup Taken

(* The child and its pipe.  A child with the release byte before it is     *)
(* that of a released request whose run nobody has recorded as over.       *)
ChildOK(c) ==
  /\ pc[c] \in Early => child[c] = "none"
  /\ pc[c] \in Early \cup {"identify"} => ~ exec[c].identity
  /\ pc[c] \in {"authorize", "signal", "await"} => exec[c].identity
  /\ pc[c] \in {"identify", "authorize"} => child[c] = "blocked" /\ pipe[c] = "open"
  /\ pc[c] = "signal" => pipe[c] \in {"open", "empty"} /\ child[c] \in {"blocked", "ended"}
  /\ pc[c] = "await" => pipe[c] = "byte" /\ child[c] # "none"
  /\ pc[c] = "withhold" => pipe[c] \in {"open", "closed"} /\ child[c] \in {"blocked", "ended"}
  /\ pc[c] \in Recording \cup {"recordRun", "closing", "marking", "done"} =>
       child[c] \in {"none", "ended"}
  /\ child[c] = "executing" => pipe[c] = "byte"
  /\ child[c] \in {"blocked", "executing"} /\ pipe[c] = "byte" =>
       /\ pc[c] \in {"await", "crashed"}
       /\ row[c].state = "execution_released"
       /\ exec[c].identity
       /\ exec[c].status = "running"

(* What is on record at each step, and how often the program ran.          *)
RecordsOK(c) ==
  /\ pc[c] \in Launching \cup {"arm", "spawn", "withhold", "await", "recordRun"} =>
       exec[c].status = "running"
  /\ child[c] \in {"none", "blocked"} => runs[c] = 0
  /\ child[c] = "executing" => runs[c] = 1
  /\ outcome[c] = "succeeded" => runs[c] = 1
  /\ pc[c] \in {"signal", "await"} /\ child[c] = "ended" => outcome[c] # "none"
  /\ pc[c] \in {"recordRun", "settle"} => outcome[c] \notin {"none", "garbled"}
  /\ pc[c] = "settle" => exec[c].status = RunStatus(outcome[c])
  /\ pc[c] \in Early \cup Launching
               \cup {"withhold", "await", "recordRun", "settle", "closing"} =>
       "result" \notin saved[c]
  /\ pc[c] \in {"generate", "validate"} => "parse" \in saved[c]
  /\ pc[c] \in {"createRun", "arm", "spawn", "await", "recordRun"}
               \cup Launching \cup Recording =>
       {"parse", "validation"} \subseteq saved[c]
  /\ pc[c] \in {"persist", "report", "complete"} =>
       runs[c] = 1 /\ exec[c].status = "succeeded" /\ code[c] = "executed"
  /\ pc[c] \in {"report", "complete"} => "result" \in saved[c]
  /\ pc[c] = "complete" => "report" \in saved[c]

(* The trace a call is about to end with, unless audit writes were lost.   *)
TraceOK(c) ==
  ~ broken[c] =>
    /\ pc[c] = "complete" => trace[c] = "succeeded"
    /\ pc[c] \in {"closing", "marking"} => trace[c] \in {"failed", "rejected"}

(* The safety properties of the model, for one call.                       *)
ResponseOK(c) ==
  /\ row[c].response = "result" =>
       /\ row[c].state = "succeeded"
       /\ runs[c] = 1
       /\ exec[c].status = "succeeded"
       /\ code[c] = "executed"
       /\ saved[c] = Records
  /\ row[c].response = "error" =>
       /\ row[c].state = "failed"
       /\ "result" \notin saved[c]

LeaseOK(c) == pc[c] = "done" /\ row[c].lease = "active" => faults > 0

FinishedTraceOK(c) ==
  pc[c] = "done" /\ ~ broken[c] /\ answer[c].of = c =>
    /\ trace[c] \in {"succeeded", "failed", "rejected"}
    /\ trace[c] = "succeeded" => row[c].state = "succeeded"

(* What a client was told, of the row it was told about.                   *)
AnswerOK(c) ==
  /\ answer[c].kind \in {"result", "failure", "running", "unknown"} =>
       /\ answer[c].of \in Calls
       /\ Exists(answer[c].of)
       /\ PrintOf[answer[c].of] = PrintOf[c]
  /\ answer[c].kind = "result" => row[answer[c].of].response = "result"
  /\ answer[c].kind = "failure" => row[answer[c].of].response = "error"

(* An approval that made a row is used up.                                 *)
WarrantOK(c) ==
  Exists(c) /\ warrant[c] # None => approval[warrant[c]].status = "consumed"

(* All that can be said of a call without looking at another.              *)
CallOK(c) ==
  /\ BlankOK(c) /\ RowOK(c) /\ StageOK(c) /\ ChildOK(c) /\ RecordsOK(c) /\ TraceOK(c)
  /\ ResponseOK(c) /\ LeaseOK(c) /\ FinishedTraceOK(c)

FlowInv ==
  /\ TypeOK
  /\ \A c \in Calls : CallOK(c) /\ AnswerOK(c) /\ WarrantOK(c)
  /\ RowsHaveDistinctWarrants

-----------------------------------------------------------------------------
(* A step of another call leaves a call alone.                             *)
Untouched(d) ==
  /\ row'[d] = row[d] /\ exec'[d] = exec[d] /\ code'[d] = code[d]
  /\ saved'[d] = saved[d] /\ trace'[d] = trace[d] /\ pc'[d] = pc[d]
  /\ outcome'[d] = outcome[d] /\ broken'[d] = broken[d]
  /\ child'[d] = child[d] /\ pipe'[d] = pipe[d] /\ answer'[d] = answer[d]
  /\ runs'[d] = runs[d]

(* A call that no step touched keeps its part of the invariant.            *)
LEMMA Frame ==
  ASSUME NEW d \in Calls, CallOK(d), Untouched(d), faults \in Nat, faults' \in Nat,
         faults' >= faults
  PROVE  CallOK(d)'
BY DEF CallOK, Untouched, BlankOK, RowOK, StageOK, ChildOK, RecordsOK, TraceOK, ResponseOK,
       LeaseOK, FinishedTraceOK, Exists, RunStatus

(* The types of TypeOK, by name.                                           *)
RowType == [state : States, lease : Leases, version : Nat,
            response : {"none", "result", "error"}, evidence : BOOLEAN, run : BOOLEAN]
ExecType == [status : RunStates, identity : BOOLEAN]
CodeType == {"none", "generated", "validated", "rejected", "executed", "failed"}
TraceType == {"none", "started", "succeeded", "failed", "rejected"}

ApprovalType == [status : {"none", "issued", "lapsed", "expired", "consumed"},
                 source : Calls \cup {None}]
ChildStates == {"none", "blocked", "executing", "ended"}
PipeStates == {"none", "open", "empty", "byte", "closed"}
AnswerType == [kind : {"none", "running", "unknown", "result", "failure", "refused", "error"},
               of : Calls \cup {None}]

TablesType ==
  /\ row \in [Calls -> RowType]
  /\ exec \in [Calls -> ExecType]
  /\ code \in [Calls -> CodeType]
  /\ saved \in [Calls -> SUBSET Records]

-----------------------------------------------------------------------------
(* One call's row is replaced.                                             *)
LEMMA RowUpdate ==
  ASSUME row \in [Calls -> RowType], NEW c \in Calls, NEW r \in RowType,
         row' = [row EXCEPT ![c] = r]
  PROVE  /\ row' \in [Calls -> RowType]
         /\ row'[c] = r
         /\ \A d \in Calls \ {c} : row'[d] = row[d]
OBVIOUS

(* A moved row is a row.                                                   *)
LEMMA MovedType ==
  ASSUME NEW c \in Calls, row[c] \in RowType, NEW s \in States, NEW l \in Leases,
         NEW r \in {"none", "result", "error"}, NEW u \in BOOLEAN
  PROVE  Moved(c, s, l, r, u) \in RowType
BY DEF Moved, RowType

(* A settled row stays as it is, a blocked lease is not reopened, and no   *)
(* row is unmade.                                                          *)
SettledAt(d) ==
  /\ row[d].lease = "closed" =>
       /\ row'[d].state = row[d].state
       /\ row'[d].lease = "closed"
       /\ row'[d].response = row[d].response
  /\ row[d].lease = "blocked_unknown" => row'[d].lease # "active"

RowKept(d) == Exists(d)' = Exists(d) /\ SettledAt(d)

TablesUntouched(d) ==
  row'[d] = row[d] /\ exec'[d] = exec[d] /\ code'[d] = code[d] /\ saved'[d] = saved[d]

TablesKept(c) ==
  /\ TablesType'
  /\ \A d \in Calls \ {c} : TablesUntouched(d)
  /\ RowKept(c)

(* A write of the row that moves it on.                                    *)
LEMMA MoveRow ==
  ASSUME TablesType, NEW c \in Calls, RowOK(c), NEW s \in States \ {"none"}, NEW l \in Leases,
         NEW r \in {"none", "result", "error"}, NEW u \in BOOLEAN,
         row' = [row EXCEPT ![c] = Moved(c, s, l, r, u)],
         row[c].state \notin TerminalStates \cup {"none"},
         l = "active" => row[c].lease # "blocked_unknown",
         UNCHANGED <<exec, code, saved>>
  PROVE  TablesKept(c)
<1>1. row[c] \in RowType
  BY DEF TablesType
<1>2. Moved(c, s, l, r, u) \in RowType
  BY <1>1, MovedType
<1>3. /\ row' \in [Calls -> RowType]
      /\ row'[c] = Moved(c, s, l, r, u)
      /\ \A d \in Calls \ {c} : row'[d] = row[d]
  BY <1>2, RowUpdate DEF TablesType
<1>4. Moved(c, s, l, r, u).state = s /\ Moved(c, s, l, r, u).lease = l
  BY DEF Moved
<1>5. RowKept(c)
  BY <1>3, <1>4 DEF RowKept, SettledAt, Exists, RowOK
<1> QED BY <1>3, <1>5 DEF TablesKept, TablesType, TablesUntouched

(* A step that writes no table.                                            *)
LEMMA NothingWritten ==
  ASSUME TablesType, NEW c \in Calls, UNCHANGED tables
  PROVE  TablesKept(c)
BY DEF TablesKept, TablesType, TablesUntouched, RowKept, SettledAt, Exists, tables

(* What the writes of the flow do to the tables.                           *)
LEMMA WriteKeeps ==
  ASSUME TypeOK, NEW c \in Calls, RowOK(c), RecordsOK(c), WriteAt(c)
  PROVE  TablesKept(c)
<1>t. TablesType /\ row[c] \in RowType
  BY DEF TablesType, TypeOK, RowType, ExecType, CodeType
<1>f. row[c].state \in States /\ row[c].lease \in Leases
      /\ row[c].response \in {"none", "result", "error"} /\ row[c].run \in BOOLEAN
  BY <1>t DEF RowType
<1>a. ASSUME row[c].state \notin TerminalStates \cup {"none", "execution_outcome_unknown"}
      PROVE  row[c].lease # "blocked_unknown"
  BY <1>a DEF RowOK
<1>1. CASE BeginWrite(c)
  <2>1. row' = [row EXCEPT ![c] =
                 Moved(c, "generation_in_progress", row[c].lease, row[c].response, row[c].run)]
        /\ row[c].state = "claimed" /\ UNCHANGED <<exec, code, saved>>
    BY <1>1 DEF BeginWrite, Transition
  <2> QED BY <2>1, <1>t, <1>f, <1>a, MoveRow DEF States, TerminalStates
<1>2. CASE SealWrite(c) \/ StoreWrite(c, "result") \/ StoreWrite(c, "report")
  BY <1>t, <1>2 DEF SealWrite, StoreWrite, TablesKept, TablesType, TablesUntouched, RowKept,
                    SettledAt, Exists, Records
<1>3. CASE GenerateWrite(c) \/ SettleCodeWrite(c)
  BY <1>t, <1>3 DEF GenerateWrite, SettleCodeWrite, TablesKept, TablesType, TablesUntouched,
                    RowKept, SettledAt, Exists, CodeType
<1>4. CASE \E s \in {"generated", "validated", "rejected"} : ValidateWrite(c, s)
  BY <1>t, <1>4 DEF ValidateWrite, TablesKept, TablesType, TablesUntouched, RowKept, SettledAt,
                    Exists, CodeType, Records
<1>5. CASE CreateRunWrite(c)
  <2>1. [status |-> "running", identity |-> exec[c].identity] \in ExecType
    BY <1>t DEF TablesType, ExecType, RunStates
  <2> QED BY <1>t, <1>5, <2>1 DEF CreateRunWrite, TablesKept, TablesType, TablesUntouched,
                                  RowKept, SettledAt, Exists
<1>6. CASE ArmWrite(c)
  <2>1. row' = [row EXCEPT ![c] =
                 Moved(c, "execution_armed", row[c].lease, row[c].response, TRUE)]
        /\ row[c].state = "generation_in_progress" /\ UNCHANGED <<exec, code, saved>>
    BY <1>6 DEF ArmWrite
  <2> QED BY <2>1, <1>t, <1>f, <1>a, MoveRow DEF States, TerminalStates
<1>7. CASE IdentifyWrite(c)
  <2>1. [status |-> exec[c].status, identity |-> TRUE] \in ExecType
    BY <1>t DEF TablesType, ExecType
  <2> QED BY <1>t, <1>7, <2>1 DEF IdentifyWrite, TablesKept, TablesType, TablesUntouched,
                                  RowKept, SettledAt, Exists
<1>8. CASE ReleaseWrite(c)
  <2>1. row' = [row EXCEPT ![c] =
                 Moved(c, "execution_released", row[c].lease, row[c].response, row[c].run)]
        /\ row[c].state = "execution_armed" /\ UNCHANGED <<exec, code, saved>>
    BY <1>8 DEF ReleaseWrite
  <2> QED BY <2>1, <1>t, <1>f, <1>a, MoveRow DEF States, TerminalStates
<1>9. CASE pc[c] = "recordRun" /\ RecordRunWrite(c)
  <2>1. RunStatus(outcome[c]) \in RunStates
    BY <1>9 DEF RecordsOK, TypeOK, Outcomes, RunStatus, RunStates
  <2>2. [status |-> RunStatus(outcome[c]), identity |-> exec[c].identity] \in ExecType
    BY <1>t, <2>1 DEF TablesType, ExecType
  <2> QED BY <1>t, <1>9, <2>2 DEF RecordRunWrite, TablesKept, TablesType, TablesUntouched,
                                  RowKept, SettledAt, Exists
<1>10. CASE CompleteWrite(c)
  <2>1. row' = [row EXCEPT ![c] = Moved(c, "succeeded", "closed", "result", row[c].run)]
        /\ row[c].state \in CompleteFrom /\ UNCHANGED <<exec, code, saved>>
    BY <1>10 DEF CompleteWrite, Settle
  <2> QED BY <2>1, <1>t, <1>f, MoveRow DEF States, TerminalStates, CompleteFrom, Leases
<1>11. CASE CloseWrite(c)
  <2>1. row' = [row EXCEPT ![c] = Moved(c, "failed", "closed", "error", row[c].run)]
        /\ row[c].state \in CloseFrom /\ UNCHANGED <<exec, code, saved>>
    BY <1>11 DEF CloseWrite, Settle
  <2> QED BY <2>1, <1>t, <1>f, MoveRow DEF States, TerminalStates, CloseFrom, Leases
<1>12. CASE MarkWrite(c)
  <2>1. row' = [row EXCEPT ![c] =
                 Moved(c, "execution_outcome_unknown", "blocked_unknown", row[c].response, row[c].run)]
        /\ row[c].state \in MarkFrom /\ UNCHANGED <<exec, code, saved>>
    BY <1>12 DEF MarkWrite, Settle
  <2> QED BY <2>1, <1>t, <1>f, MoveRow DEF States, TerminalStates, MarkFrom, Leases
<1> QED BY <1>1, <1>2, <1>3, <1>4, <1>5, <1>6, <1>7, <1>8, <1>9, <1>10, <1>11, <1>12 DEF WriteAt

(* The call moves on and may close its trace.                              *)
TrackKept(c) ==
  /\ pc' \in [Calls -> PcValues]
  /\ trace' \in [Calls -> TraceType]
  /\ \A d \in Calls \ {c} : pc'[d] = pc[d] /\ trace'[d] = trace[d]

(* A step of the call's program, with or without the end of its trace.     *)
LEMMA Moves ==
  ASSUME TypeOK, NEW c \in Calls, NEW t \in PcValues, pc' = [pc EXCEPT ![c] = t],
         UNCHANGED trace \/ \E s \in TraceType : FinishTrace(c, s)
  PROVE  TrackKept(c)
<1>1. pc' \in [Calls -> PcValues] /\ \A d \in Calls \ {c} : pc'[d] = pc[d]
  BY DEF TypeOK
<1>2. trace \in [Calls -> TraceType]
  BY DEF TypeOK, TraceType
<1>3. trace' \in [Calls -> TraceType] /\ \A d \in Calls \ {c} : trace'[d] = trace[d]
  BY <1>2 DEF FinishTrace
<1> QED BY <1>1, <1>3 DEF TrackKept

(* The same for a plain move to the next step.                             *)
LEMMA Goes ==
  ASSUME TypeOK, NEW c \in Calls, NEW t \in PcValues, GoTo(c, t)
  PROVE  TrackKept(c)
BY Moves DEF GoTo

(* The same for a call that gives up.                                      *)
LEMMA Leaves ==
  ASSUME TypeOK, NEW c \in Calls,
         Abort(c) \/ Reject(c, "failed") \/ Reject(c, "rejected")
  PROVE  TrackKept(c)
<1>1. "marking" \in PcValues /\ "closing" \in PcValues /\ "failed" \in TraceType
      /\ "rejected" \in TraceType
  BY DEF PcValues, TraceType
<1> QED BY <1>1, Moves DEF Abort, Reject

(* Everything else a step of one call may change.                          *)
RestKept(c) ==
  /\ armedVersion' \in [Calls -> Nat]
  /\ outcome' \in [Calls -> Outcomes \cup {"none"}]
  /\ broken' \in [Calls -> BOOLEAN]
  /\ child' \in [Calls -> ChildStates]
  /\ pipe' \in [Calls -> PipeStates]
  /\ answer' \in [Calls -> AnswerType]
  /\ runs' \in [Calls -> Nat]
  /\ crashes' \in Nat
  /\ faults' \in Nat
  /\ faults' >= faults
  /\ \A d \in Calls \ {c} :
       /\ outcome'[d] = outcome[d] /\ broken'[d] = broken[d]
       /\ child'[d] = child[d] /\ pipe'[d] = pipe[d]
       /\ answer'[d] = answer[d] /\ runs'[d] = runs[d]

(* A step of one call.                                                     *)
StepKeeps(c) ==
  /\ TypeOK'
  /\ \A d \in Calls \ {c} : Untouched(d)
  /\ faults \in Nat /\ faults' \in Nat /\ faults' >= faults
  /\ RowKept(c)
  /\ UNCHANGED <<approval, warrant>>

(* Tables, program and the rest make up a step that keeps to its call.     *)
LEMMA Assemble ==
  ASSUME TypeOK, NEW c \in Calls, TablesKept(c), TrackKept(c), RestKept(c),
         UNCHANGED <<approval, warrant>>
  PROVE  StepKeeps(c)
<1>1. TypeOK'
  BY DEF TypeOK, TablesKept, TablesType, TrackKept, RestKept, RowType, ExecType, CodeType,
         TraceType, ChildStates, PipeStates, AnswerType
<1>2. \A d \in Calls \ {c} : Untouched(d)
  BY DEF Untouched, TablesKept, TablesUntouched, TrackKept, RestKept
<1> QED BY <1>1, <1>2 DEF StepKeeps, TypeOK, RestKept, TablesKept

(* A step that leaves child, pipe, answer and the counters alone.          *)
LEMMA RestSame ==
  ASSUME TypeOK, NEW c \in Calls, armedVersion' \in [Calls -> Nat],
         UNCHANGED localRest
  PROVE  RestKept(c)
BY DEF RestKept, TypeOK, localRest, ChildStates, PipeStates, AnswerType

(* Preparing a run touches one call: begin, parse, generate, validate.     *)
LEMMA PrepareKeeps ==
  ASSUME TypeOK, NEW c \in Calls, CallOK(c), Prepare(c)
  PROVE  StepKeeps(c)
<1>r. RestKept(c) /\ UNCHANGED <<approval, warrant>>
  <2>1. UNCHANGED <<armedVersion, localRest>>
    BY DEF Prepare, Begin, Seal, Generate, Validate
  <2> QED BY <2>1, RestSame DEF localRest, TypeOK
<1>w. WriteAt(c) \/ UNCHANGED tables
  BY DEF Prepare, Begin, Seal, Generate, Validate, WriteAt
<1>t. TablesKept(c)
  <2>1. TablesType
    BY DEF TablesType, TypeOK, RowType, ExecType, CodeType
  <2> QED BY <2>1, <1>w, WriteKeeps, NothingWritten DEF CallOK
<1>p. "seal" \in PcValues /\ "generate" \in PcValues /\ "validate" \in PcValues
      /\ "createRun" \in PcValues
  BY DEF PcValues
<1>m. TrackKept(c)
  BY <1>p, Goes, Leaves DEF Prepare, Begin, Seal, Generate, Validate
<1> QED BY <1>r, <1>t, <1>m, Assemble

(* The pipe is closed, or stays as it is on Windows.                       *)
LEMMA ClosedPipe ==
  ASSUME TypeOK, NEW c \in Calls, ClosePipe(c)
  PROVE  \E v \in PipeStates : pipe' = [pipe EXCEPT ![c] = v]
<1>1. pipe[c] \in PipeStates /\ "closed" \in PipeStates
  BY DEF TypeOK, PipeStates
<1>2. CASE c \in WindowsCalls
  <2>1. pipe' = [pipe EXCEPT ![c] = pipe[c]]
    BY <1>2 DEF ClosePipe
  <2> QED BY <1>1, <2>1
<1>3. CASE c \notin WindowsCalls
  <2>1. pipe' = [pipe EXCEPT ![c] = "closed"]
    BY <1>3 DEF ClosePipe
  <2> QED BY <1>1, <2>1
<1> QED BY <1>2, <1>3

(* So does launching it, from the run record to the recorded outcome.      *)
LEMMA ExecuteKeeps ==
  ASSUME TypeOK, NEW c \in Calls, CallOK(c), Execute(c)
  PROVE  StepKeeps(c)
<1>w. WriteAt(c) \/ UNCHANGED tables
  BY DEF Execute, CreateRun, Arm, Spawn, Identify, Authorize, Withhold, Signal, Await,
         RecordRun, WriteAt
<1>t. TablesKept(c)
  <2>1. TablesType
    BY DEF TablesType, TypeOK, RowType, ExecType, CodeType
  <2> QED BY <2>1, <1>w, WriteKeeps, NothingWritten DEF CallOK
<1>p. /\ "arm" \in PcValues /\ "spawn" \in PcValues /\ "identify" \in PcValues
      /\ "authorize" \in PcValues /\ "signal" \in PcValues /\ "withhold" \in PcValues
      /\ "await" \in PcValues /\ "recordRun" \in PcValues /\ "settle" \in PcValues
  BY DEF PcValues
<1>m. TrackKept(c)
  BY <1>p, Goes, Leaves DEF Execute, CreateRun, Arm, Spawn, Identify, Authorize, Withhold,
                            Signal, Await, RecordRun
<1>v. armedVersion' \in [Calls -> Nat]
  <2>1. \/ UNCHANGED armedVersion
        \/ armedVersion' = [armedVersion EXCEPT ![c] = row[c].version + 1]
    BY DEF Execute, CreateRun, Arm, Spawn, Identify, Authorize, Withhold, Signal, Await,
           RecordRun
  <2>2. armedVersion \in [Calls -> Nat] /\ row[c].version + 1 \in Nat
    BY DEF TypeOK
  <2> QED BY <2>1, <2>2
<1>c. child' \in [Calls -> ChildStates] /\ \A d \in Calls \ {c} : child'[d] = child[d]
  <2>1. UNCHANGED child \/ \E v \in ChildStates : child' = [child EXCEPT ![c] = v]
    BY DEF Execute, CreateRun, Arm, Spawn, Identify, Authorize, Withhold, Signal, Await,
           RecordRun, localRest, ChildStates
  <2>2. child \in [Calls -> ChildStates]
    BY DEF TypeOK, ChildStates
  <2> QED BY <2>1, <2>2
<1>i. pipe' \in [Calls -> PipeStates] /\ \A d \in Calls \ {c} : pipe'[d] = pipe[d]
  <2>1. UNCHANGED pipe \/ \E v \in PipeStates : pipe' = [pipe EXCEPT ![c] = v]
    <3>1. \/ UNCHANGED pipe \/ ClosePipe(c)
          \/ \E v \in {"open", "empty", "byte"} : pipe' = [pipe EXCEPT ![c] = v]
      BY DEF Execute, CreateRun, Arm, Spawn, Identify, Authorize, Withhold, Signal, Await,
             RecordRun, localRest
    <3> QED BY <3>1, ClosedPipe DEF PipeStates
  <2>2. pipe \in [Calls -> PipeStates]
    BY DEF TypeOK, PipeStates
  <2> QED BY <2>1, <2>2
<1>o. /\ outcome' \in [Calls -> Outcomes \cup {"none"}]
      /\ \A d \in Calls \ {c} : outcome'[d] = outcome[d]
  <2>1. UNCHANGED outcome \/ \E v \in Outcomes : outcome' = [outcome EXCEPT ![c] = v]
    BY DEF Execute, CreateRun, Arm, Spawn, Identify, Authorize, Withhold, Signal, Await,
           RecordRun, localRest, Outcomes
  <2>2. outcome \in [Calls -> Outcomes \cup {"none"}]
    BY DEF TypeOK
  <2> QED BY <2>1, <2>2
<1>u. UNCHANGED <<approval, warrant, broken, answer, runs, crashes, faults>>
  BY DEF Execute, CreateRun, Arm, Spawn, Identify, Authorize, Withhold, Signal, Await,
         RecordRun, localRest
<1>r. RestKept(c)
  BY <1>v, <1>c, <1>i, <1>o, <1>u DEF RestKept, TypeOK, AnswerType
<1> QED BY <1>r, <1>t, <1>m, <1>u, Assemble

(* So does publishing it, from the code record to the answer.              *)
LEMMA FinishKeeps ==
  ASSUME TypeOK, NEW c \in Calls, CallOK(c), Finish(c)
  PROVE  StepKeeps(c)
<1>w. WriteAt(c) \/ UNCHANGED tables
  BY DEF Finish, SettleCode, PersistResult, Report, Complete, Close, Mark, WriteAt
<1>t. TablesKept(c)
  <2>1. TablesType
    BY DEF TablesType, TypeOK, RowType, ExecType, CodeType
  <2> QED BY <2>1, <1>w, WriteKeeps, NothingWritten DEF CallOK
<1>p. /\ "persist" \in PcValues /\ "report" \in PcValues /\ "complete" \in PcValues
      /\ "marking" \in PcValues /\ "done" \in PcValues /\ "succeeded" \in TraceType
  BY DEF PcValues, TraceType
<1>m. TrackKept(c)
  BY <1>p, Goes, Leaves, Moves DEF Finish, SettleCode, PersistResult, Report, Complete, Close,
                                   Mark
<1>a. answer' \in [Calls -> AnswerType] /\ \A d \in Calls \ {c} : answer'[d] = answer[d]
  <2>1. answer \in [Calls -> AnswerType]
    BY DEF TypeOK, AnswerType
  <2>2. /\ [kind |-> "result", of |-> c] \in AnswerType
        /\ [kind |-> "failure", of |-> c] \in AnswerType
        /\ [kind |-> "error", of |-> c] \in AnswerType
    BY DEF AnswerType
  <2> QED BY <2>1, <2>2 DEF Finish, SettleCode, PersistResult, Report, Complete, Close, Mark,
                            Answer, localRest
<1>u. UNCHANGED <<approval, armedVersion, outcome, broken, child, pipe, warrant, runs,
                 crashes, faults>>
  BY DEF Finish, SettleCode, PersistResult, Report, Complete, Close, Mark, localRest
<1>r. RestKept(c)
  BY <1>a, <1>u DEF RestKept, TypeOK, ChildStates, PipeStates
<1> QED BY <1>r, <1>t, <1>m, <1>u, Assemble

(* A child, the process or an audit write changes no table.                *)
LEMMA ChildKeeps ==
  ASSUME TypeOK, NEW c \in Calls, CallOK(c), Child(c) \/ AuditFault(c) \/ Crash(c)
  PROVE  StepKeeps(c)
<1>t. TablesKept(c)
  <2>1. TablesType
    BY DEF TablesType, TypeOK, RowType, ExecType, CodeType
  <2>2. UNCHANGED tables
    BY DEF Child, ChildRelease, ChildEnd, AuditFault, Crash
  <2> QED BY <2>1, <2>2, NothingWritten
<1>m. TrackKept(c)
  <2>1. "crashed" \in PcValues
    BY DEF PcValues
  <2>2. CASE pc' = [pc EXCEPT ![c] = "crashed"] /\ UNCHANGED trace
    BY <2>1, <2>2, Moves
  <2>3. CASE UNCHANGED <<pc, trace>>
    BY <2>3 DEF TrackKept, TypeOK, TraceType
  <2> QED BY <2>2, <2>3 DEF Child, ChildRelease, ChildEnd, AuditFault, Crash
<1>c. child' \in [Calls -> ChildStates] /\ \A d \in Calls \ {c} : child'[d] = child[d]
  <2>1. UNCHANGED child \/ \E v \in ChildStates : child' = [child EXCEPT ![c] = v]
    BY DEF Child, ChildRelease, ChildEnd, AuditFault, Crash, ChildStates
  <2>2. child \in [Calls -> ChildStates]
    BY DEF TypeOK, ChildStates
  <2> QED BY <2>1, <2>2
<1>i. pipe' \in [Calls -> PipeStates] /\ \A d \in Calls \ {c} : pipe'[d] = pipe[d]
  <2>1. \/ UNCHANGED pipe
        \/ \E v \in {pipe[c], "closed"} : pipe' = [pipe EXCEPT ![c] = v]
    <3>1. CASE Crash(c)
      BY <3>1 DEF Crash
    <3>2. CASE Child(c) \/ AuditFault(c)
      BY <3>2 DEF Child, ChildRelease, ChildEnd, AuditFault
    <3> QED BY <3>1, <3>2
  <2>2. pipe \in [Calls -> PipeStates] /\ "closed" \in PipeStates
    BY DEF TypeOK, PipeStates
  <2> QED BY <2>1, <2>2
<1>o. /\ outcome' \in [Calls -> Outcomes \cup {"none"}]
      /\ \A d \in Calls \ {c} : outcome'[d] = outcome[d]
  <2>1. UNCHANGED outcome \/ \E v \in Outcomes : outcome' = [outcome EXCEPT ![c] = v]
    BY DEF Child, ChildRelease, ChildEnd, AuditFault, Crash, Outcomes
  <2>2. outcome \in [Calls -> Outcomes \cup {"none"}]
    BY DEF TypeOK
  <2> QED BY <2>1, <2>2
<1>n. runs' \in [Calls -> Nat] /\ \A d \in Calls \ {c} : runs'[d] = runs[d]
  <2>1. UNCHANGED runs \/ runs' = [runs EXCEPT ![c] = @ + 1]
    BY DEF Child, ChildRelease, ChildEnd, AuditFault, Crash
  <2>2. runs \in [Calls -> Nat]
    BY DEF TypeOK
  <2>3. runs[c] + 1 \in Nat
    BY <2>2
  <2> QED BY <2>1, <2>2, <2>3
<1>b. broken' \in [Calls -> BOOLEAN] /\ \A d \in Calls \ {c} : broken'[d] = broken[d]
  <2>1. UNCHANGED broken \/ broken' = [broken EXCEPT ![c] = TRUE]
    BY DEF Child, ChildRelease, ChildEnd, AuditFault, Crash
  <2>2. broken \in [Calls -> BOOLEAN]
    BY DEF TypeOK
  <2> QED BY <2>1, <2>2
<1>k. crashes' \in Nat /\ faults' \in Nat /\ faults' >= faults
  BY DEF TypeOK, Child, ChildRelease, ChildEnd, AuditFault, Crash
<1>u. UNCHANGED <<approval, warrant, armedVersion, answer>>
  BY DEF Child, ChildRelease, ChildEnd, AuditFault, Crash
<1>r. RestKept(c)
  BY <1>c, <1>i, <1>o, <1>n, <1>b, <1>k, <1>u DEF RestKept, TypeOK, AnswerType
<1> QED BY <1>r, <1>t, <1>m, <1>u, Assemble

(* A failed database write touches one call, committed or not.             *)
LEMMA FaultKeeps ==
  ASSUME TypeOK, NEW c \in Calls, CallOK(c), WriteFault(c)
  PROVE  StepKeeps(c)
<1>t. TablesKept(c)
  <2>1. TablesType
    BY DEF TablesType, TypeOK, RowType, ExecType, CodeType
  <2>2. WriteAt(c) \/ UNCHANGED tables
    BY DEF WriteFault
  <2> QED BY <2>1, <2>2, WriteKeeps, NothingWritten DEF CallOK
<1>f. \/ ClosePipe(c) /\ GoTo(c, "withhold") /\ UNCHANGED answer
      \/ GoTo(c, "marking") /\ UNCHANGED <<pipe, answer>>
      \/ Answer(c, "error", c) /\ GoTo(c, "done") /\ UNCHANGED pipe
      \/ Abort(c) /\ UNCHANGED <<pipe, answer>>
  BY DEF WriteFault, AfterFault
<1>m. TrackKept(c)
  <2>1. "withhold" \in PcValues /\ "marking" \in PcValues /\ "done" \in PcValues
    BY DEF PcValues
  <2> QED BY <2>1, <1>f, Goes, Leaves
<1>i. pipe' \in [Calls -> PipeStates] /\ \A d \in Calls \ {c} : pipe'[d] = pipe[d]
  <2>1. UNCHANGED pipe \/ \E v \in PipeStates : pipe' = [pipe EXCEPT ![c] = v]
    BY <1>f, ClosedPipe
  <2>2. pipe \in [Calls -> PipeStates]
    BY DEF TypeOK, PipeStates
  <2> QED BY <2>1, <2>2
<1>a. answer' \in [Calls -> AnswerType] /\ \A d \in Calls \ {c} : answer'[d] = answer[d]
  <2>1. answer \in [Calls -> AnswerType]
    BY DEF TypeOK, AnswerType
  <2>2. [kind |-> "error", of |-> c] \in AnswerType
    BY DEF AnswerType
  <2> QED BY <2>1, <2>2, <1>f DEF Answer
<1>u. /\ UNCHANGED <<approval, warrant, armedVersion, outcome, broken, child, runs, crashes>>
      /\ faults' = faults + 1
  BY DEF WriteFault
<1>r. RestKept(c)
  BY <1>i, <1>a, <1>u DEF RestKept, TypeOK, ChildStates
<1> QED BY <1>r, <1>t, <1>m, <1>u, Assemble

-----------------------------------------------------------------------------
(* What a step does to the call that takes it.                             *)
LEMMA PrepareOK ==
  ASSUME TypeOK, NEW c \in Calls, CallOK(c), Prepare(c)
  PROVE  CallOK(c)'
<1> USE DEF TypeOK, CallOK, Abort, Reject, GoTo, FinishTrace, tables, localRest, Moved,
            Transition, BlankOK, RowOK, StageOK, ChildOK, RecordsOK, TraceOK, ResponseOK,
            LeaseOK, FinishedTraceOK, Exists, RunStatus, Early, Launching, Recording, Taken,
            TerminalStates, Records
<1>1. CASE Begin(c)
  BY <1>1 DEF Begin, BeginWrite
<1>2. CASE Seal(c)
  BY <1>2 DEF Seal, SealWrite
<1>3. CASE Generate(c)
  BY <1>3 DEF Generate, GenerateWrite
<1>4. CASE Validate(c)
  BY <1>4 DEF Validate, ValidateWrite
<1> QED BY <1>1, <1>2, <1>3, <1>4 DEF Prepare

(* Launching keeps the invariant of the call.                              *)
LEMMA ExecuteOK ==
  ASSUME TypeOK, NEW c \in Calls, CallOK(c), Execute(c)
  PROVE  CallOK(c)'
<1> USE DEF TypeOK, CallOK, Abort, Reject, GoTo, FinishTrace, tables, localRest, Moved,
            ClosePipe, BlankOK, RowOK, StageOK, ChildOK, RecordsOK, TraceOK, ResponseOK,
            LeaseOK, FinishedTraceOK, Exists, RunStatus, Early, Launching, Recording, Taken,
            TerminalStates, Records
<1>1. CASE CreateRun(c)
  BY <1>1 DEF CreateRun, CreateRunWrite
<1>2. CASE Arm(c)
  BY <1>2 DEF Arm, ArmWrite
<1>3. CASE Spawn(c)
  BY <1>3 DEF Spawn
<1>4. CASE Identify(c)
  BY <1>4 DEF Identify, IdentifyWrite
<1>5. CASE Authorize(c)
  BY <1>5 DEF Authorize, ReleaseWrite
<1>6. CASE Withhold(c)
  BY <1>6 DEF Withhold
<1>7. CASE Signal(c)
  BY <1>7 DEF Signal
<1>8. CASE Await(c)
  BY <1>8 DEF Await
<1>9. CASE RecordRun(c)
  BY <1>9 DEF RecordRun, RecordRunWrite
<1> QED BY <1>1, <1>2, <1>3, <1>4, <1>5, <1>6, <1>7, <1>8, <1>9 DEF Execute

(* Publishing and giving up keep it.                                       *)
LEMMA FinishOK ==
  ASSUME TypeOK, NEW c \in Calls, CallOK(c), Finish(c)
  PROVE  CallOK(c)'
<1> USE DEF TypeOK, CallOK, Abort, Reject, GoTo, FinishTrace, tables, localRest, Moved, Settle,
            Answer, BlankOK, RowOK, StageOK, ChildOK, RecordsOK, TraceOK, ResponseOK, LeaseOK,
            FinishedTraceOK, Exists, RunStatus, Early, Launching, Recording, Taken,
            TerminalStates, Records
<1>1. CASE SettleCode(c)
  BY <1>1 DEF SettleCode, SettleCodeWrite
<1>2. CASE PersistResult(c)
  BY <1>2 DEF PersistResult, StoreWrite
<1>3. CASE Report(c)
  BY <1>3 DEF Report, StoreWrite
<1>4. CASE Complete(c)
  BY <1>4 DEF Complete, CompleteWrite, CompleteFrom
<1>5. CASE Close(c)
  BY <1>5 DEF Close, CloseWrite, CloseFrom
<1>6. CASE Mark(c)
  BY <1>6 DEF Mark, MarkWrite, MarkFrom, States
<1> QED BY <1>1, <1>2, <1>3, <1>4, <1>5, <1>6 DEF Finish

(* The child, a lost audit write and the death of the process keep it.     *)
LEMMA ChildStepOK ==
  ASSUME TypeOK, NEW c \in Calls, CallOK(c), Child(c) \/ AuditFault(c) \/ Crash(c)
  PROVE  CallOK(c)'
<1> USE DEF TypeOK, CallOK, tables, Underway, BlankOK, RowOK, StageOK, ChildOK, RecordsOK,
            TraceOK, ResponseOK, LeaseOK, FinishedTraceOK, Exists, RunStatus, Early, Launching,
            Recording, Taken, TerminalStates, Records
<1>1. CASE ChildRelease(c)
  BY <1>1 DEF ChildRelease
<1>2. CASE ChildEnd(c)
  BY <1>2 DEF ChildEnd, Outcomes
<1>3. CASE AuditFault(c)
  BY <1>3 DEF AuditFault
<1>4. CASE Crash(c)
  BY <1>4 DEF Crash
<1> QED BY <1>1, <1>2, <1>3, <1>4 DEF Child

(* A failed write, committed or not, at each point of the flow.            *)
LEMMA FaultOK ==
  ASSUME TypeOK, NEW c \in Calls, CallOK(c), WriteFault(c)
  PROVE  CallOK(c)'
<1>u. /\ UNCHANGED <<outcome, broken, child, runs>>
      /\ faults' = faults + 1
      /\ pc[c] \in WritePoints
      /\ WriteAt(c) \/ UNCHANGED tables
      /\ AfterFault(c)
  BY DEF WriteFault
<1> USE DEF TypeOK, CallOK, tables, BlankOK, RowOK, StageOK, ChildOK, RecordsOK, TraceOK,
            ResponseOK, LeaseOK, FinishedTraceOK, Exists, RunStatus, Early, Launching,
            Recording, Taken, TerminalStates, Records, GoTo, FinishTrace, Abort, Moved
<1>1. CASE pc[c] \in {"begin", "seal", "generate", "validate", "createRun", "arm"}
  <2>1. Abort(c) /\ UNCHANGED <<pipe, answer>>
    BY <1>u, <1>1 DEF AfterFault
  <2>2. \/ UNCHANGED tables
        \/ BeginWrite(c) \/ SealWrite(c) \/ GenerateWrite(c)
        \/ \E s \in {"generated", "validated", "rejected"} : ValidateWrite(c, s)
        \/ CreateRunWrite(c) \/ ArmWrite(c)
    BY <1>u, <1>1 DEF WriteAt
  <2> QED BY <1>u, <1>1, <2>1, <2>2
      DEF BeginWrite, Transition, SealWrite, GenerateWrite, ValidateWrite, CreateRunWrite,
          ArmWrite
<1>2. CASE pc[c] \in {"identify", "authorize"}
  <2>1. ClosePipe(c) /\ GoTo(c, "withhold") /\ UNCHANGED answer
    BY <1>u, <1>2 DEF AfterFault
  <2>2. UNCHANGED tables \/ IdentifyWrite(c) \/ ReleaseWrite(c)
    BY <1>u, <1>2 DEF WriteAt
  <2> QED BY <1>u, <1>2, <2>1, <2>2 DEF ClosePipe, IdentifyWrite, ReleaseWrite
<1>3. CASE pc[c] \in {"recordRun", "settle", "persist", "report", "complete"}
  <2>1. Abort(c) /\ UNCHANGED <<pipe, answer>>
    BY <1>u, <1>3 DEF AfterFault
  <2>2. CASE UNCHANGED tables
    BY <1>u, <1>3, <2>1, <2>2
  <2>3. CASE pc[c] = "recordRun" /\ RecordRunWrite(c)
    BY <1>u, <2>1, <2>3 DEF RecordRunWrite
  <2>4. CASE pc[c] = "settle" /\ SettleCodeWrite(c)
    BY <1>u, <2>1, <2>4 DEF SettleCodeWrite
  <2>5. CASE pc[c] = "persist" /\ StoreWrite(c, "result")
    BY <1>u, <2>1, <2>5 DEF StoreWrite
  <2>6. CASE pc[c] = "report" /\ StoreWrite(c, "report")
    BY <1>u, <2>1, <2>6 DEF StoreWrite
  <2>7. CASE pc[c] = "complete" /\ CompleteWrite(c)
    BY <1>u, <2>1, <2>7 DEF CompleteWrite, Settle, CompleteFrom
  <2> QED BY <1>u, <1>3, <2>2, <2>3, <2>4, <2>5, <2>6, <2>7 DEF WriteAt
<1>4. CASE pc[c] = "closing"
  <2>1. GoTo(c, "marking") /\ UNCHANGED <<pipe, answer>>
    BY <1>u, <1>4 DEF AfterFault
  <2>2. UNCHANGED tables \/ CloseWrite(c)
    BY <1>u, <1>4 DEF WriteAt
  <2> QED BY <1>u, <1>4, <2>1, <2>2 DEF CloseWrite, Settle, CloseFrom
<1>5. CASE pc[c] = "marking"
  <2>1. Answer(c, "error", c) /\ GoTo(c, "done") /\ UNCHANGED pipe
    BY <1>u, <1>5 DEF AfterFault
  <2>2. UNCHANGED tables \/ MarkWrite(c)
    BY <1>u, <1>5 DEF WriteAt
  <2> QED BY <1>u, <1>5, <2>1, <2>2 DEF MarkWrite, Settle, MarkFrom, Answer
<1> QED BY <1>u, <1>1, <1>2, <1>3, <1>4, <1>5 DEF WritePoints

-----------------------------------------------------------------------------
(* Claims.                                                                 *)
LEMMA AnswerTyped ==
  ASSUME TypeOK, NEW c \in Calls, NEW q \in Calls \cup {None},
         NEW k \in {"running", "unknown", "result", "failure", "refused", "error"},
         Answer(c, k, q)
  PROVE  /\ answer' \in [Calls -> AnswerType]
         /\ answer'[c] = [kind |-> k, of |-> q]
         /\ \A d \in Calls \ {c} : answer'[d] = answer[d]
<1>1. answer \in [Calls -> AnswerType] /\ [kind |-> k, of |-> q] \in AnswerType
  BY DEF TypeOK, AnswerType
<1> QED BY <1>1 DEF Answer

(* A call that is answered without a row of its own.                       *)
LEMMA AnsweredKeeps ==
  ASSUME TypeOK, NEW c \in Calls, CallOK(c), pc[c] = "idle",
         NEW q \in (Calls \ {c}) \cup {None},
         NEW k \in {"running", "unknown", "result", "failure", "refused"},
         Answer(c, k, q), pc' = [pc EXCEPT ![c] = "done"],
         UNCHANGED <<tables, approval, trace, armedVersion, outcome, broken,
                     child, pipe, warrant, runs, crashes>>,
         faults' \in {faults, faults + 1}
  PROVE  StepKeeps(c) /\ CallOK(c)'
<1>t. TablesKept(c)
  <2>1. TablesType
    BY DEF TablesType, TypeOK, RowType, ExecType, CodeType
  <2> QED BY <2>1, NothingWritten
<1>m. TrackKept(c)
  <2>1. "done" \in PcValues
    BY DEF PcValues
  <2> QED BY <2>1, Moves
<1>a. /\ answer' \in [Calls -> AnswerType]
      /\ answer'[c] = [kind |-> k, of |-> q]
      /\ \A d \in Calls \ {c} : answer'[d] = answer[d]
  <2>1. q \in Calls \cup {None}
    OBVIOUS
  <2>2. k \in {"running", "unknown", "result", "failure", "refused", "error"}
    OBVIOUS
  <2> QED BY <2>1, <2>2, AnswerTyped
<1>f. faults' \in Nat /\ faults' >= faults
  BY DEF TypeOK
<1>r. RestKept(c)
  BY <1>a, <1>f DEF RestKept, TypeOK, ChildStates, PipeStates
<1>k. StepKeeps(c)
  BY <1>t, <1>m, <1>r, Assemble
<1>n. q # c
  BY FlowConstants
<1>o. CallOK(c)'
  BY <1>a, <1>n DEF TypeOK, CallOK, tables, BlankOK, RowOK, StageOK, ChildOK, RecordsOK,
                    TraceOK, ResponseOK, LeaseOK, FinishedTraceOK, Exists, RunStatus, Early,
                    Launching, Recording, Taken, TerminalStates, Records
<1> QED BY <1>k, <1>o

(* The claim is committed.                                                 *)
LEMMA CommitFacts ==
  ASSUME TypeOK, NEW c \in Calls, pc[c] = "idle", CommitClaim(c)
  PROVE  /\ row' = [row EXCEPT ![c] =
               [state |-> "claimed", lease |-> "active", version |-> 1,
                response |-> "none", evidence |-> FALSE, run |-> FALSE]]
         /\ trace' = [trace EXCEPT ![c] = "started"]
         /\ \E a \in Approvals \cup {None} :
              /\ warrant' = [warrant EXCEPT ![c] = a]
              /\ \/ a = None /\ OfPrint(PrintOf[c]) = {} /\ UNCHANGED approval
                 \/ /\ a \in Approvals
                    /\ approval[a].status = "issued"
                    /\ approval' = [approval EXCEPT ![a] =
                         [status |-> "consumed", source |-> @.source]]
         /\ HeldBy(PrintOf[c]) = {}
<1>1. CASE CommitFresh(c)
  BY <1>1 DEF CommitFresh, InsertRow, HeldBy
<1>2. CASE \E a \in Approvals : CommitReplacement(c, a)
  BY <1>2 DEF CommitReplacement, InsertRow, ApprovalAccepted
<1> QED BY <1>1, <1>2 DEF CommitClaim

(* An inserted row is the call's first.                                    *)
LEMMA CommitOK ==
  ASSUME TypeOK, NEW c \in Calls, CallOK(c), pc[c] = "idle", CommitClaim(c),
         \/ pc' = [pc EXCEPT ![c] = "begin"] /\ UNCHANGED <<answer, faults>>
         \/ /\ pc' = [pc EXCEPT ![c] = "done"]
            /\ Answer(c, "refused", None)
            /\ faults' = faults + 1,
         UNCHANGED <<exec, code, saved, armedVersion, outcome, broken, child, pipe, runs,
                     crashes>>
  PROVE  /\ TypeOK'
         /\ CallOK(c)'
         /\ \A d \in Calls \ {c} : Untouched(d)
         /\ faults \in Nat /\ faults' \in Nat /\ faults' >= faults
         /\ ~ Exists(c) /\ Exists(c)'
<1> DEFINE r == [state |-> "claimed", lease |-> "active", version |-> 1,
                 response |-> "none", evidence |-> FALSE, run |-> FALSE]
<1>r. row' = [row EXCEPT ![c] = r] /\ r \in RowType /\ row \in [Calls -> RowType]
  BY CommitFacts DEF RowType, States, Leases, TypeOK
<1>1. /\ row' \in [Calls -> RowType] /\ row'[c] = r
      /\ \A d \in Calls \ {c} : row'[d] = row[d]
  BY <1>r, RowUpdate
<1>2. /\ trace' \in [Calls -> TraceType] /\ \A d \in Calls \ {c} : trace'[d] = trace[d]
  <2>1. trace' = [trace EXCEPT ![c] = "started"]
    BY CommitFacts
  <2> QED BY <2>1 DEF TypeOK, TraceType
<1>3. warrant' \in [Calls -> Approvals \cup {None}]
  <2>1. \E a \in Approvals \cup {None} : warrant' = [warrant EXCEPT ![c] = a]
    BY CommitFacts
  <2> QED BY <2>1 DEF TypeOK
<1>4. approval' \in [Approvals -> ApprovalType]
  <2>1. UNCHANGED approval \/ \E a \in Approvals : approval' = [approval EXCEPT ![a] =
                         [status |-> "consumed", source |-> @.source]]
    BY CommitFacts
  <2>2. /\ approval \in [Approvals -> ApprovalType]
        /\ \A a \in Approvals :
             [status |-> "consumed", source |-> approval[a].source] \in ApprovalType
    BY DEF TypeOK, ApprovalType
  <2> QED BY <2>1, <2>2
<1>5. /\ pc' \in [Calls -> PcValues] /\ \A d \in Calls \ {c} : pc'[d] = pc[d]
  <2>1. \E v \in PcValues : pc' = [pc EXCEPT ![c] = v]
    BY DEF PcValues
  <2>2. pc \in [Calls -> PcValues]
    BY DEF TypeOK
  <2> QED BY <2>1, <2>2
<1>6. /\ answer' \in [Calls -> AnswerType] /\ \A d \in Calls \ {c} : answer'[d] = answer[d]
      /\ pc'[c] = "done" => answer'[c].of = None /\ faults' = faults + 1
      /\ pc'[c] \in {"begin", "done"}
  <2>1. answer \in [Calls -> AnswerType]
    BY DEF TypeOK, AnswerType
  <2>2. CASE pc' = [pc EXCEPT ![c] = "begin"] /\ UNCHANGED <<answer, faults>>
    BY <2>1, <2>2 DEF TypeOK
  <2>3. CASE /\ pc' = [pc EXCEPT ![c] = "done"]
             /\ Answer(c, "refused", None)
             /\ faults' = faults + 1
    <3>1. /\ answer' \in [Calls -> AnswerType]
          /\ answer'[c] = [kind |-> "refused", of |-> None]
          /\ \A d \in Calls \ {c} : answer'[d] = answer[d]
      BY <2>3, AnswerTyped
    <3>2. pc'[c] = "done"
      BY <2>3 DEF TypeOK
    <3>3. answer'[c].of = None
      BY <3>1
    <3> QED BY <2>3, <3>1, <3>2, <3>3
  <2> QED BY <2>2, <2>3
<1>7. faults \in Nat /\ faults' \in Nat /\ faults' >= faults
  BY DEF TypeOK
<1>8. TypeOK'
  BY <1>1, <1>2, <1>3, <1>4, <1>5, <1>6, <1>7
      DEF TypeOK, RowType, TraceType, AnswerType, ApprovalType
<1>9. CallOK(c)'
  BY <1>1, <1>6, <1>7, FlowConstants
      DEF TypeOK, CallOK, BlankOK, RowOK, StageOK, ChildOK, RecordsOK, TraceOK, ResponseOK,
          LeaseOK, FinishedTraceOK, Exists, RunStatus, Early, Launching, Recording, Taken,
          TerminalStates, Records
<1>10. \A d \in Calls \ {c} : Untouched(d)
  BY <1>1, <1>2, <1>5, <1>6 DEF Untouched
<1>11. ~ Exists(c) /\ Exists(c)'
  BY <1>1 DEF CallOK, BlankOK, Exists
<1> QED BY <1>7, <1>8, <1>9, <1>10, <1>11

-----------------------------------------------------------------------------
(* The operator settles a request, or adds evidence to a settled one.      *)
LEMMA OperatorRowKeeps ==
  ASSUME TypeOK, NEW c \in Calls, CallOK(c),
         \/ OperatorRecordEvidence(c)
         \/ \E t \in {"failed", "abandoned"} : OperatorTerminalize(c, t)
  PROVE  StepKeeps(c) /\ CallOK(c)'
<1>1. PICK t \in TerminalStates :
        /\ row' = [row EXCEPT ![c] = WithEvidence(c, t)]
        /\ \/ row[c].state = t /\ row[c].lease = "closed"
           \/ t \in Taken /\ row[c].lease \in Held /\ ProcessEvidence(c)
        /\ Exists(c)
        /\ UNCHANGED <<approval, operatorRest>>
  BY DEF OperatorRecordEvidence, OperatorTerminalize, TerminalStates, Exists, Taken
<1>2. row \in [Calls -> RowType] /\ row[c] \in RowType
  BY DEF TypeOK, RowType
<1>3. WithEvidence(c, t) \in RowType
  BY <1>2 DEF WithEvidence, RowType, States, Leases
<1>4. /\ row' \in [Calls -> RowType] /\ row'[c] = WithEvidence(c, t)
      /\ \A d \in Calls \ {c} : row'[d] = row[d]
  BY <1>1, <1>2, <1>3, RowUpdate
<1>5. /\ row'[c].state = t /\ row'[c].lease = "closed"
      /\ row'[c].response = row[c].response /\ row'[c].run = row[c].run
  BY <1>4 DEF WithEvidence
<1>6. TypeOK'
  BY <1>1, <1>4 DEF TypeOK, RowType, operatorRest
<1>7. \A d \in Calls \ {c} : Untouched(d)
  BY <1>1, <1>4 DEF Untouched, operatorRest
<1>8. RowKept(c)
  BY <1>1, <1>5 DEF RowKept, SettledAt, Exists, Held, CallOK, RowOK, TerminalStates
<1>9. CallOK(c)'
  BY <1>1, <1>5 DEF operatorRest, TypeOK, CallOK, BlankOK, RowOK, StageOK, ChildOK, RecordsOK,
                    TraceOK, ResponseOK, LeaseOK, FinishedTraceOK, Exists, RunStatus, Early,
                    Launching, Recording, Taken, TerminalStates, Records, ProcessEvidence, Held
<1> QED BY <1>1, <1>6, <1>7, <1>8, <1>9 DEF StepKeeps, TypeOK, operatorRest

(* The operator's approvals touch no request.                              *)
LEMMA OperatorApprovalKeeps ==
  ASSUME TypeOK,
         \/ \E a \in Approvals, c \in Calls : OperatorIssueApproval(a, c)
         \/ \E a \in Approvals : ApprovalLapses(a)
  PROVE  /\ TypeOK'
         /\ \A a \in Approvals : approval[a].status = "consumed" =>
                                    approval'[a].status = "consumed"
         /\ UNCHANGED <<row, operatorRest>>
<1>1. UNCHANGED <<row, operatorRest>>
  BY DEF OperatorIssueApproval, ApprovalLapses
<1>t. approval \in [Approvals -> ApprovalType]
  BY DEF TypeOK, ApprovalType
<1>2. CASE \E a \in Approvals, c \in Calls : OperatorIssueApproval(a, c)
  <2>1. PICK a \in Approvals, c \in Calls : OperatorIssueApproval(a, c)
    BY <1>2
  <2>2. /\ [status |-> "issued", source |-> c] \in ApprovalType
        /\ [status |-> "expired", source |-> c] \in ApprovalType
    BY DEF ApprovalType
  <2>3. approval' \in [Approvals -> ApprovalType]
    BY <2>1, <2>2, <1>t DEF OperatorIssueApproval
  <2>4. \A b \in Approvals : approval[b].status = "consumed" => approval'[b].status = "consumed"
    BY <2>1 DEF OperatorIssueApproval
  <2> QED BY <2>3, <2>4, <1>1 DEF TypeOK, ApprovalType, operatorRest
<1>3. CASE \E a \in Approvals : ApprovalLapses(a)
  <2>1. PICK a \in Approvals : ApprovalLapses(a)
    BY <1>3
  <2>2. [status |-> "lapsed", source |-> approval[a].source] \in ApprovalType
    BY <1>t DEF ApprovalType
  <2>3. approval' \in [Approvals -> ApprovalType]
    BY <2>1, <2>2, <1>t DEF ApprovalLapses
  <2>4. \A b \in Approvals : approval[b].status = "consumed" => approval'[b].status = "consumed"
    BY <2>1, <1>t DEF ApprovalLapses
  <2> QED BY <2>3, <2>4, <1>1 DEF TypeOK, ApprovalType, operatorRest
<1> QED BY <1>2, <1>3

-----------------------------------------------------------------------------
(* What one call was told rests on the row of another.                     *)
Persists(d) ==
  /\ Exists(d) => Exists(d)'
  /\ row[d].response # "none" => row'[d].response = row[d].response

(* What a client was told stays true while no row is taken back.           *)
LEMMA AnswersPersist ==
  ASSUME NEW c \in Calls, AnswerOK(c), answer'[c] = answer[c], \A d \in Calls : Persists(d)
  PROVE  AnswerOK(c)'
BY DEF AnswerOK, Persists

Preserved == FlowInv' /\ \A d \in Calls : SettledAt(d)

(* A step that keeps to its call takes no row back.                        *)
LEMMA RowsPersist ==
  ASSUME FlowInv, NEW c \in Calls, StepKeeps(c)
  PROVE  /\ \A d \in Calls : Persists(d)
         /\ \A d \in Calls : SettledAt(d)
         /\ \A d \in Calls : Exists(d)' = Exists(d)
<1> SUFFICES ASSUME NEW d \in Calls
             PROVE  Persists(d) /\ SettledAt(d) /\ Exists(d)' = Exists(d)
  OBVIOUS
<1>1. CASE d = c
  <2>1. row[c].response # "none" => row[c].lease = "closed"
    BY DEF FlowInv, TypeOK, CallOK, ResponseOK, RowOK, TerminalStates
  <2> QED BY <1>1, <2>1 DEF StepKeeps, RowKept, Persists, SettledAt
<1>2. CASE d # c
  <2>1. row'[d] = row[d]
    BY <1>2 DEF StepKeeps, Untouched
  <2> QED BY <2>1 DEF Persists, SettledAt, Exists
<1> QED BY <1>1, <1>2

(* A step of one call that is right about itself keeps the invariant.      *)
LEMMA StepInv ==
  ASSUME FlowInv, NEW c \in Calls, StepKeeps(c), CallOK(c)',
         answer'[c] = answer[c] \/ AnswerOK(c)'
  PROVE  Preserved
<1>1. /\ \A d \in Calls : Persists(d)
      /\ \A d \in Calls : SettledAt(d)
      /\ \A d \in Calls : Exists(d)' = Exists(d)
  BY RowsPersist
<1>2. \A d \in Calls : CallOK(d)'
  <2> SUFFICES ASSUME NEW d \in Calls, d # c PROVE CallOK(d)'
    OBVIOUS
  <2> QED BY Frame DEF FlowInv, StepKeeps
<1>3. \A d \in Calls : AnswerOK(d)'
  <2> SUFFICES ASSUME NEW d \in Calls, answer'[d] = answer[d] PROVE AnswerOK(d)'
    BY DEF StepKeeps, Untouched
  <2> QED BY <1>1, AnswersPersist DEF FlowInv
<1>4. UNCHANGED <<approval, warrant>>
  BY DEF StepKeeps
<1>5. \A d \in Calls : WarrantOK(d)'
  BY <1>1, <1>4 DEF WarrantOK, FlowInv
<1>6. RowsHaveDistinctWarrants'
  BY <1>1, <1>4 DEF RowsHaveDistinctWarrants, FlowInv
<1> QED BY <1>1, <1>2, <1>3, <1>5, <1>6 DEF FlowInv, StepKeeps, Preserved

(* Every step of a call after its claim preserves the invariant.           *)
LEMMA OwnStep ==
  ASSUME FlowInv, NEW c \in Calls,
         Prepare(c) \/ Execute(c) \/ Finish(c) \/ Child(c) \/ Disturb(c)
  PROVE  Preserved
<1>i. TypeOK /\ CallOK(c)
  BY DEF FlowInv
<1>1. CASE Prepare(c)
  <2>1. answer' = answer
    BY <1>1 DEF Prepare, Begin, Seal, Generate, Validate, localRest
  <2> QED BY <1>i, <1>1, <2>1, PrepareKeeps, PrepareOK, StepInv
<1>2. CASE Execute(c)
  <2>1. answer' = answer
    BY <1>2 DEF Execute, CreateRun, Arm, Spawn, Identify, Authorize, Withhold, Signal, Await,
                RecordRun, localRest
  <2> QED BY <1>i, <1>2, <2>1, ExecuteKeeps, ExecuteOK, StepInv
<1>3. CASE Finish(c)
  <2>1. StepKeeps(c) /\ CallOK(c)'
    BY <1>i, <1>3, FinishKeeps, FinishOK
  <2>2. CASE UNCHANGED answer
    BY <2>1, <2>2, StepInv
  <2>3. CASE Answer(c, "error", c)
    <3>1. answer'[c] = [kind |-> "error", of |-> c]
      BY <1>i, <2>3 DEF TypeOK, Answer
    <3> QED BY <2>1, <3>1, StepInv DEF AnswerOK
  <2>4. CASE \/ CompleteWrite(c) /\ Answer(c, "result", c)
             \/ CloseWrite(c) /\ Answer(c, "failure", c)
    <3>1. /\ answer'[c].of = c
          /\ answer'[c].kind = "result" => row'[c].response = "result"
          /\ answer'[c].kind = "failure" => row'[c].response = "error"
      BY <1>i, <2>4 DEF TypeOK, Answer, CompleteWrite, CloseWrite, Settle, Moved
    <3>2. Exists(c)'
      <4>1. Exists(c)
        BY <2>4 DEF CompleteWrite, CloseWrite, Settle, Exists, CompleteFrom, CloseFrom
      <4> QED BY <4>1, <2>1 DEF StepKeeps, RowKept
    <3>3. AnswerOK(c)'
      BY <3>1, <3>2 DEF AnswerOK
    <3> QED BY <2>1, <3>3, StepInv
  <2> QED BY <1>3, <2>2, <2>3, <2>4
      DEF Finish, SettleCode, PersistResult, Report, Complete, Close, Mark, localRest
<1>4. CASE Child(c) \/ AuditFault(c) \/ Crash(c)
  <2>1. answer' = answer
    BY <1>4 DEF Child, ChildRelease, ChildEnd, AuditFault, Crash
  <2> QED BY <1>i, <1>4, <2>1, ChildKeeps, ChildStepOK, StepInv
<1>5. CASE WriteFault(c)
  <2>1. StepKeeps(c) /\ CallOK(c)'
    BY <1>i, <1>5, FaultKeeps, FaultOK
  <2>2. UNCHANGED answer \/ Answer(c, "error", c)
    BY <1>5 DEF WriteFault, AfterFault
  <2>3. answer'[c] = answer[c] \/ AnswerOK(c)'
    <3>1. Answer(c, "error", c) => answer'[c] = [kind |-> "error", of |-> c]
      BY <1>i DEF TypeOK, Answer
    <3> QED BY <2>2, <3>1 DEF AnswerOK
  <2> QED BY <2>1, <2>3, StepInv
<1> QED BY <1>1, <1>2, <1>3, <1>4, <1>5 DEF Disturb

(* So does the claim that inserts a row.                                   *)
LEMMA CommitStep ==
  ASSUME FlowInv, NEW c \in Calls, pc[c] = "idle", CommitClaim(c),
         \/ pc' = [pc EXCEPT ![c] = "begin"] /\ UNCHANGED <<answer, faults>>
         \/ /\ pc' = [pc EXCEPT ![c] = "done"]
            /\ Answer(c, "refused", None)
            /\ faults' = faults + 1,
         UNCHANGED <<exec, code, saved, armedVersion, outcome, broken, child, pipe, runs,
                     crashes>>
  PROVE  Preserved
<1>i. TypeOK /\ CallOK(c)
  BY DEF FlowInv
<1>1. /\ TypeOK'
      /\ CallOK(c)'
      /\ \A d \in Calls \ {c} : Untouched(d)
      /\ faults \in Nat /\ faults' \in Nat /\ faults' >= faults
      /\ ~ Exists(c) /\ Exists(c)'
  BY <1>i, CommitOK
<1>2. \A d \in Calls : CallOK(d)'
  BY <1>1, Frame DEF FlowInv
<1>3. \A d \in Calls : Persists(d) /\ SettledAt(d)
  <2>1. /\ row[c].response = "none" /\ row[c].lease = "none"
    BY <1>1, <1>i DEF CallOK, BlankOK, RowOK, Exists
  <2>2. \A d \in Calls \ {c} : row'[d] = row[d]
    BY <1>1 DEF Untouched
  <2> QED BY <1>1, <2>1, <2>2 DEF Persists, SettledAt, Exists
<1>4. \A d \in Calls : AnswerOK(d)'
  <2>1. ASSUME NEW d \in Calls, answer'[d] = answer[d] PROVE AnswerOK(d)'
    BY <2>1, <1>3, AnswersPersist DEF FlowInv
  <2>2. answer'[c] = answer[c] \/ answer'[c] = [kind |-> "refused", of |-> None]
    BY <1>i DEF Answer, TypeOK
  <2>3. answer'[c] = [kind |-> "refused", of |-> None] => AnswerOK(c)'
    BY DEF AnswerOK
  <2> QED BY <2>1, <2>2, <2>3, <1>1 DEF Untouched
<1>5. PICK a \in Approvals \cup {None} :
        /\ warrant' = [warrant EXCEPT ![c] = a]
        /\ \/ a = None /\ OfPrint(PrintOf[c]) = {} /\ UNCHANGED approval
           \/ /\ a \in Approvals
              /\ approval[a].status = "issued"
              /\ approval' = [approval EXCEPT ![a] =
                   [status |-> "consumed", source |-> @.source]]
  BY <1>i, CommitFacts
<1>6. /\ \A d \in Calls \ {c} : warrant'[d] = warrant[d] /\ Exists(d)' = Exists(d)
      /\ warrant'[c] = a
  BY <1>i, <1>1, <1>5 DEF TypeOK, Untouched, Exists
<1>7. \A b \in Approvals : approval[b].status = "consumed" => approval'[b].status = "consumed"
  BY <1>i, <1>5 DEF TypeOK
<1>8. a # None => approval'[a].status = "consumed"
  BY <1>i, <1>5, FlowConstants DEF TypeOK
<1>9. \A d \in Calls : WarrantOK(d)'
  BY <1>i, <1>6, <1>7, <1>8 DEF WarrantOK, FlowInv, TypeOK
<1>10. RowsHaveDistinctWarrants'
  <2>1. ASSUME NEW d \in Calls, d # c, Exists(d), PrintOf[d] = PrintOf[c] PROVE warrant[d] # a
    <3>1. OfPrint(PrintOf[c]) # {}
      BY <2>1 DEF OfPrint
    <3>2. a \in Approvals /\ approval[a].status = "issued"
      BY <3>1, <1>5
    <3> QED BY <2>1, <3>2, FlowConstants DEF FlowInv, WarrantOK
  <2> QED BY <1>6, <2>1 DEF RowsHaveDistinctWarrants, FlowInv
<1> QED BY <1>1, <1>2, <1>3, <1>4, <1>9, <1>10 DEF FlowInv, Preserved

(* A replay tells what the row says.                                       *)
LEMMA ReplayFacts ==
  ASSUME NEW q \in Calls
  PROVE  /\ ReplayAnswer(q) \in {"running", "unknown", "result", "failure"}
         /\ ReplayAnswer(q) = "result" => row[q].response = "result"
         /\ ReplayAnswer(q) = "failure" => row[q].response = "error"
<1>1. CASE row[q].response = "result"
  BY <1>1 DEF ReplayAnswer
<1>2. CASE row[q].response = "error"
  BY <1>2 DEF ReplayAnswer
<1>3. CASE row[q].response \notin {"result", "error"}
  <2>1. ReplayAnswer(q) \in {"running", "unknown"}
    BY <1>3 DEF ReplayAnswer
  <2> QED BY <2>1
<1> QED BY <1>1, <1>2, <1>3

(* So does a claim, whatever it finds.                                     *)
LEMMA ClaimStep ==
  ASSUME FlowInv, NEW c \in Calls, Claim(c)
  PROVE  Preserved
<1>i. TypeOK /\ CallOK(c)
  BY DEF FlowInv
<1>1. CASE ClaimNew(c)
  BY <1>1, CommitStep DEF ClaimNew
<1>2. CASE \E q \in Calls : ClaimExisting(c, q)
  <2>1. PICK q \in Calls : ClaimExisting(c, q)
    BY <1>2
  <2>2. Exists(q) /\ PrintOf[q] = PrintOf[c] /\ pc[c] = "idle"
    BY <2>1 DEF ClaimExisting, SameKey, HeldBy, OfPrint
  <2>3. q # c
    BY <1>i, <2>2 DEF CallOK, BlankOK
  <2>4. ReplayAnswer(q) \in {"running", "unknown", "result", "failure", "refused"}
    BY ReplayFacts
  <2>5. /\ Answer(c, ReplayAnswer(q), q) /\ pc' = [pc EXCEPT ![c] = "done"]
        /\ UNCHANGED <<tables, approval, trace, armedVersion, outcome, broken,
                       child, pipe, warrant, runs, crashes>>
        /\ faults' = faults
    BY <2>1 DEF ClaimExisting
  <2>6. StepKeeps(c) /\ CallOK(c)'
    <3>1. q \in (Calls \ {c}) \cup {None}
      BY <2>3
    <3> QED BY <1>i, <2>2, <2>4, <2>5, <3>1, AnsweredKeeps
  <2>7. answer'[c] = [kind |-> ReplayAnswer(q), of |-> q] /\ row' = row
    BY <1>i, <2>5 DEF TypeOK, Answer, tables
  <2>8. AnswerOK(c)'
    BY <2>2, <2>7, ReplayFacts DEF AnswerOK, Exists
  <2> QED BY <2>6, <2>8, StepInv
<1>3. ASSUME pc[c] = "idle", Answer(c, "refused", None), pc' = [pc EXCEPT ![c] = "done"],
             UNCHANGED <<tables, approval, trace, armedVersion, outcome, broken,
                         child, pipe, warrant, runs, crashes>>,
             faults' \in {faults, faults + 1}
      PROVE  Preserved
  <2>1. StepKeeps(c) /\ CallOK(c)'
    <3>1. None \in (Calls \ {c}) \cup {None}
      OBVIOUS
    <3>2. "refused" \in {"running", "unknown", "result", "failure", "refused"}
      OBVIOUS
    <3> QED BY <1>i, <1>3, <3>1, <3>2, AnsweredKeeps
  <2>2. answer'[c] = [kind |-> "refused", of |-> None]
    BY <1>i, <1>3 DEF TypeOK, Answer
  <2>3. AnswerOK(c)'
    BY <2>2 DEF AnswerOK
  <2> QED BY <2>1, <2>3, StepInv
<1>4. CASE ClaimRefused(c)
  BY <1>3, <1>4 DEF ClaimRefused
<1>5. CASE ClaimFails(c)
  <2>1. CASE CommitClaim(c)
    BY <1>5, <2>1, CommitStep DEF ClaimFails
  <2>2. CASE UNCHANGED <<row, trace, warrant, approval>>
    BY <1>3, <1>5, <2>2 DEF ClaimFails, tables
  <2> QED BY <1>5, <2>1, <2>2 DEF ClaimFails
<1> QED BY <1>1, <1>2, <1>4, <1>5 DEF Claim

(* So does the operator.                                                   *)
LEMMA OperatorStep ==
  ASSUME FlowInv, Operator
  PROVE  Preserved
<1>i. TypeOK
  BY DEF FlowInv
<1>1. ASSUME NEW c \in Calls,
             \/ OperatorRecordEvidence(c)
             \/ \E t \in {"failed", "abandoned"} : OperatorTerminalize(c, t)
      PROVE  Preserved
  <2>1. StepKeeps(c) /\ CallOK(c)'
    BY <1>1, OperatorRowKeeps DEF FlowInv
  <2>2. answer' = answer
    BY <1>1 DEF OperatorRecordEvidence, OperatorTerminalize, operatorRest
  <2> QED BY <2>1, <2>2, StepInv
<1>2. ASSUME \/ \E a \in Approvals, c \in Calls : OperatorIssueApproval(a, c)
             \/ \E a \in Approvals : ApprovalLapses(a)
      PROVE  Preserved
  <2>1. /\ TypeOK'
        /\ \A a \in Approvals : approval[a].status = "consumed" =>
                                    approval'[a].status = "consumed"
        /\ UNCHANGED <<row, operatorRest>>
    BY <1>i, <1>2, OperatorApprovalKeeps
  <2>2. \A d \in Calls : CallOK(d)'
    BY <1>i, <2>1, Frame DEF FlowInv, Untouched, operatorRest, TypeOK
  <2>3. \A d \in Calls : Persists(d) /\ SettledAt(d)
    BY <2>1 DEF Persists, SettledAt, Exists
  <2>4. \A d \in Calls : AnswerOK(d)'
    BY <2>1, <2>3, AnswersPersist DEF FlowInv, operatorRest
  <2>5. \A d \in Calls : WarrantOK(d)'
    BY <1>i, <2>1 DEF FlowInv, WarrantOK, Exists, operatorRest, TypeOK
  <2>6. RowsHaveDistinctWarrants'
    BY <2>1 DEF FlowInv, RowsHaveDistinctWarrants, Exists, operatorRest
  <2> QED BY <2>1, <2>2, <2>3, <2>4, <2>5, <2>6 DEF FlowInv, Preserved
<1> QED BY <1>1, <1>2 DEF Operator

(* Every step of the flow preserves the invariant and takes no row back.   *)
LEMMA FlowStep ==
  ASSUME FlowInv, [Next]_vars
  PROVE  Preserved
<1>1. CASE UNCHANGED vars
  BY <1>1 DEF vars, FlowInv, TypeOK, CallOK, BlankOK, RowOK, StageOK, ChildOK, RecordsOK,
              TraceOK, ResponseOK, LeaseOK, FinishedTraceOK, AnswerOK, WarrantOK,
              RowsHaveDistinctWarrants, Exists, Preserved, SettledAt
<1>2. ASSUME NEW c \in Calls, Claim(c) PROVE Preserved
  BY <1>2, ClaimStep
<1>3. ASSUME NEW c \in Calls, Prepare(c) \/ Execute(c) \/ Finish(c) \/ Child(c) \/ Disturb(c)
      PROVE  Preserved
  BY <1>3, OwnStep
<1>4. CASE Operator
  BY <1>4, OperatorStep
<1> QED BY <1>1, <1>2, <1>3, <1>4 DEF Next

(* The invariant holds at the start.                                       *)
LEMMA FlowInit == Init => FlowInv
<1> SUFFICES ASSUME Init PROVE FlowInv
  OBVIOUS
<1>1. TypeOK
  BY DEF Init, TypeOK, NoRow, States, Leases, RunStates, Records, PcValues, Outcomes
<1>2. \A c \in Calls : CallOK(c) /\ AnswerOK(c) /\ WarrantOK(c)
  BY DEF Init, NoRow, CallOK, BlankOK, RowOK, StageOK, ChildOK, RecordsOK, TraceOK, ResponseOK,
         LeaseOK, FinishedTraceOK, AnswerOK, WarrantOK, Exists, TerminalStates, Early,
         Launching, Recording
<1>3. RowsHaveDistinctWarrants
  BY DEF Init, NoRow, RowsHaveDistinctWarrants, Exists
<1> QED BY <1>1, <1>2, <1>3 DEF FlowInv

(* FlowInv is inductive, so it holds in every state of the flow.           *)
THEOREM FlowInvariant == Spec => []FlowInv
<1>1. FlowInv /\ [Next]_vars => FlowInv'
  BY FlowStep DEF Preserved
<1> QED BY <1>1, FlowInit, PTL DEF Spec

-----------------------------------------------------------------------------
(* The state of every part of the back-test flow stays within its type.    *)
THEOREM FlowTypes == Spec => []TypeOK
<1>1. FlowInv => TypeOK
  BY DEF FlowInv
<1> QED BY <1>1, FlowInvariant, PTL

(* A generated program executes only under a released request with an      *)
(* active lease and its process on record, whatever crashes, whichever     *)
(* acknowledgements are lost and however operators act.                    *)
THEOREM ExecutionOwned == Spec => []ExecutingIsOwned
<1>1. FlowInv => ExecutingIsOwned
  <2> SUFFICES ASSUME FlowInv, NEW c \in Calls, child[c] = "executing"
               PROVE  /\ row[c].state = "execution_released"
                      /\ row[c].lease = "active"
                      /\ exec[c].identity
    BY DEF ExecutingIsOwned
  <2>1. row[c].state = "execution_released" /\ exec[c].identity
    BY DEF FlowInv, CallOK, ChildOK
  <2>2. row[c].lease \in Leases
    BY DEF FlowInv, TypeOK
  <2>3. row[c].lease = "active"
    BY <2>1, <2>2 DEF FlowInv, CallOK, RowOK, Leases, TerminalStates
  <2> QED BY <2>1, <2>3
<1> QED BY <1>1, FlowInvariant, PTL

(* No retry, race or lost acknowledgement makes a second request row for   *)
(* one fingerprint without an approval of its own.                         *)
THEOREM WarrantsDistinct == Spec => []RowsHaveDistinctWarrants
<1>1. FlowInv => RowsHaveDistinctWarrants
  BY DEF FlowInv
<1> QED BY <1>1, FlowInvariant, PTL

(* A stored response agrees with the stored records.                       *)
THEOREM ResponsesStand == Spec => []ResponseMatchesRecords
<1>1. FlowInv => ResponseMatchesRecords
  BY DEF FlowInv, CallOK, ResponseOK, ResponseMatchesRecords
<1> QED BY <1>1, FlowInvariant, PTL

(* What a client was told stays true of the row it was told about.         *)
THEOREM AnswersStand == Spec => []AnswersHold
<1>1. FlowInv => AnswersHold
  BY DEF FlowInv, AnswerOK, AnswersHold
<1> QED BY <1>1, FlowInvariant, PTL

(* A finished call leaves an active lease only if the database failed.     *)
THEOREM LeasesGivenUp == Spec => []NoForgottenLease
<1>1. FlowInv => NoForgottenLease
  BY DEF FlowInv, CallOK, LeaseOK, NoForgottenLease
<1> QED BY <1>1, FlowInvariant, PTL

(* The trace of a finished call agrees with its request.                   *)
THEOREM TracesAgree == Spec => []TraceAgrees
<1>1. FlowInv => TraceAgrees
  BY DEF FlowInv, CallOK, FinishedTraceOK, TraceAgrees
<1> QED BY <1>1, FlowInvariant, PTL

(* A settled request never changes again, a blocked one is never reopened. *)
THEOREM SettledStays == Spec => SettledForGood
<1>1. FlowInv /\ [Next]_vars => \A c \in Calls : SettledAt(c)
  BY FlowStep DEF Preserved
<1> QED BY <1>1, FlowInvariant, PTL DEF Spec, SettledForGood, SettledAt

-----------------------------------------------------------------------------
(* The refinement.  Seen from the lease, a step of one call starts or      *)
(* stops its program, gives up its lease, or is invisible.                 *)
LeaseMove(c) ==
  LET held == row[c].lease \in Held
      heldNext == row'[c].lease \in Held
  IN \/ /\ heldNext = held
        /\ (child'[c] = "executing") = (child[c] = "executing")
        /\ (runs'[c] > 0) = (runs[c] > 0)
     \/ /\ held /\ heldNext /\ ~ (runs[c] > 0)
        /\ child'[c] = "executing" /\ runs'[c] > 0
     \/ /\ heldNext = held /\ (runs'[c] > 0) = (runs[c] > 0)
        /\ child[c] = "executing" /\ child'[c] # "executing"
     \/ /\ held /\ ~ heldNext /\ (runs'[c] > 0) = (runs[c] > 0)
        /\ child[c] # "executing" /\ child'[c] # "executing"

(* A step that moves the lease of one call as ExecutionLease allows.       *)
LEMMA LeaseStep ==
  ASSUME NEW c \in Calls, LeaseMove(c), \A d \in Calls \ {c} : Untouched(d),
         Exists(c)' = Exists(c)
  PROVE  [Lease!Next]_(Lease!leaseVars)
<1> DEFINE known == {d \in Calls : Exists(d)}
           held == {d \in Calls : row[d].lease \in Held}
           executing == {d \in Calls : child[d] = "executing"}
           executed == {d \in Calls : runs[d] > 0}
<1>1. known' = known
  BY DEF Untouched, Exists
<1>2. ASSUME (row'[c].lease \in Held) = (row[c].lease \in Held) PROVE held' = held
  BY <1>2 DEF Untouched
<1>3. ASSUME (child'[c] = "executing") = (child[c] = "executing") PROVE executing' = executing
  BY <1>3 DEF Untouched
<1>4. ASSUME (runs'[c] > 0) = (runs[c] > 0) PROVE executed' = executed
  BY <1>4 DEF Untouched
<1>5. CASE /\ (row'[c].lease \in Held) = (row[c].lease \in Held)
           /\ (child'[c] = "executing") = (child[c] = "executing")
           /\ (runs'[c] > 0) = (runs[c] > 0)
  BY <1>1, <1>2, <1>3, <1>4, <1>5 DEF Lease!leaseVars
<1>6. CASE /\ row[c].lease \in Held /\ row'[c].lease \in Held /\ ~ (runs[c] > 0)
           /\ child'[c] = "executing" /\ runs'[c] > 0
  <2>1. held' = held
    BY <1>2, <1>6
  <2>2. executing' = executing \cup {c} /\ executed' = executed \cup {c}
    BY <1>6 DEF Untouched
  <2>3. Lease!Start(c)
    BY <1>1, <1>6, <2>1, <2>2 DEF Lease!Start
  <2> QED BY <2>3 DEF Lease!Next
<1>7. CASE /\ (row'[c].lease \in Held) = (row[c].lease \in Held)
           /\ (runs'[c] > 0) = (runs[c] > 0)
           /\ child[c] = "executing" /\ child'[c] # "executing"
  <2>1. executing' = executing \ {c}
    BY <1>7 DEF Untouched
  <2>2. Lease!Stop(c)
    BY <1>1, <1>2, <1>4, <1>7, <2>1 DEF Lease!Stop
  <2> QED BY <2>2 DEF Lease!Next
<1>8. CASE /\ row[c].lease \in Held /\ row'[c].lease \notin Held
           /\ (runs'[c] > 0) = (runs[c] > 0)
           /\ child[c] # "executing" /\ child'[c] # "executing"
  <2>1. held' = held \ {c}
    BY <1>8 DEF Untouched
  <2>2. executing' = executing
    BY <1>3, <1>8
  <2>3. Lease!GiveUp(c)
    BY <1>1, <1>4, <1>8, <2>1, <2>2 DEF Lease!GiveUp
  <2> QED BY <2>3 DEF Lease!Next
<1> QED BY <1>5, <1>6, <1>7, <1>8 DEF LeaseMove

(* A write of the flow closes a lease only when no program executes.       *)
LEMMA WriteLease ==
  ASSUME TypeOK, NEW c \in Calls, CallOK(c), WriteAt(c) \/ UNCHANGED tables
  PROVE  \/ (row'[c].lease \in Held) = (row[c].lease \in Held)
         \/ row[c].lease \in Held /\ row'[c].lease \notin Held /\ child[c] # "executing"
<1> USE DEF TypeOK
<1>1. CASE row' = row
  BY <1>1
<1>2. CASE BeginWrite(c) \/ ArmWrite(c) \/ ReleaseWrite(c)
  <2>1. row'[c].lease = row[c].lease
    BY <1>2 DEF BeginWrite, Transition, ArmWrite, ReleaseWrite, Moved
  <2> QED BY <2>1
<1>3. CASE pc[c] \in {"complete", "closing"} /\ (CompleteWrite(c) \/ CloseWrite(c))
  <2>1. row'[c].lease = "closed"
    BY <1>3 DEF CompleteWrite, CloseWrite, Settle, Moved
  <2>2. child[c] # "executing"
    BY <1>3 DEF CallOK, ChildOK, Recording
  <2> QED BY <2>1, <2>2 DEF Held
<1>4. CASE MarkWrite(c)
  <2>1. row'[c].lease = "blocked_unknown" /\ row[c].state \in MarkFrom
    BY <1>4 DEF MarkWrite, Settle, Moved
  <2>2. row[c].lease = "active"
    BY <2>1 DEF CallOK, RowOK, MarkFrom, TerminalStates, Leases
  <2> QED BY <2>1, <2>2 DEF Held
<1> QED BY <1>1, <1>2, <1>3, <1>4 DEF WriteAt, tables, SealWrite, StoreWrite, GenerateWrite,
                                      SettleCodeWrite, ValidateWrite, CreateRunWrite,
                                      IdentifyWrite, RecordRunWrite

(* Every step of a call after its claim is a step of ExecutionLease or     *)
(* none.                                                                   *)
LEMMA OwnLease ==
  ASSUME FlowInv, NEW c \in Calls,
         Prepare(c) \/ Execute(c) \/ Finish(c) \/ Child(c) \/ Disturb(c)
  PROVE  [Lease!Next]_(Lease!leaseVars)
<1>i. TypeOK /\ CallOK(c)
  BY DEF FlowInv
<1>1. CASE Prepare(c) \/ Finish(c) \/ WriteFault(c)
  <2>1. StepKeeps(c)
    BY <1>i, <1>1, PrepareKeeps, FinishKeeps, FaultKeeps
  <2>2. UNCHANGED <<child, runs>>
    BY <1>1 DEF Prepare, Begin, Seal, Generate, Validate, Finish, SettleCode, PersistResult,
                Report, Complete, Close, Mark, WriteFault, localRest
  <2>3. WriteAt(c) \/ UNCHANGED tables
    BY <1>1 DEF Prepare, Begin, Seal, Generate, Validate, Finish, SettleCode, PersistResult,
                Report, Complete, Close, Mark, WriteFault, WriteAt
  <2>4. LeaseMove(c)
    BY <1>i, <2>2, <2>3, WriteLease DEF LeaseMove
  <2> QED BY <2>1, <2>4, LeaseStep DEF StepKeeps, RowKept
<1>2. CASE Execute(c)
  <2>1. StepKeeps(c)
    BY <1>i, <1>2, ExecuteKeeps
  <2>2. row'[c].lease = row[c].lease /\ UNCHANGED runs
    BY <1>i, <1>2 DEF TypeOK, Execute, CreateRun, Arm, Spawn, Identify, Authorize, Withhold,
                      Signal, Await, RecordRun, localRest, tables, CreateRunWrite, ArmWrite,
                      IdentifyWrite, ReleaseWrite, RecordRunWrite, Moved
  <2>3. child'[c] # "executing" \/ UNCHANGED child
    BY <1>i, <1>2 DEF TypeOK, Execute, CreateRun, Arm, Spawn, Identify, Authorize, Withhold,
                      Signal, Await, RecordRun, localRest
  <2>4. LeaseMove(c)
    BY <2>2, <2>3 DEF LeaseMove
  <2> QED BY <2>1, <2>4, LeaseStep DEF StepKeeps, RowKept
<1>3. CASE Child(c) \/ AuditFault(c) \/ Crash(c)
  <2>1. StepKeeps(c) /\ CallOK(c)' /\ UNCHANGED row
    BY <1>i, <1>3, ChildKeeps, ChildStepOK
        DEF Child, ChildRelease, ChildEnd, AuditFault, Crash, tables
  <2>2. CASE UNCHANGED <<child, runs>>
    BY <2>1, <2>2, LeaseStep DEF LeaseMove, StepKeeps, RowKept
  <2>3. CASE child[c] = "blocked" /\ pipe[c] = "byte"
             /\ child' = [child EXCEPT ![c] = "executing"]
    <3>1. row[c].lease = "active" /\ runs[c] = 0
      BY <1>i, <2>3 DEF TypeOK, CallOK, ChildOK, RecordsOK, RowOK, Leases, TerminalStates
    <3>2. child'[c] = "executing"
      BY <1>i, <2>3 DEF TypeOK
    <3>3. runs'[c] = 1
      BY <2>1, <3>2 DEF CallOK, RecordsOK
    <3>4. LeaseMove(c)
      BY <2>1, <3>1, <3>2, <3>3 DEF LeaseMove, Held
    <3> QED BY <2>1, <3>4, LeaseStep DEF StepKeeps, RowKept
  <2>4. CASE child' = [child EXCEPT ![c] = "ended"] /\ UNCHANGED runs
    <3>1. child'[c] # "executing"
      BY <1>i, <2>4 DEF TypeOK
    <3>2. LeaseMove(c)
      BY <2>1, <2>4, <3>1 DEF LeaseMove
    <3> QED BY <2>1, <3>2, LeaseStep DEF StepKeeps, RowKept
  <2> QED BY <1>3, <2>2, <2>3, <2>4 DEF Child, ChildRelease, ChildEnd, AuditFault, Crash
<1> QED BY <1>1, <1>2, <1>3 DEF Disturb

(* A committed claim takes the free lease of its fingerprint.              *)
LEMMA CommitLease ==
  ASSUME FlowInv, NEW c \in Calls, pc[c] = "idle", CommitClaim(c),
         \/ pc' = [pc EXCEPT ![c] = "begin"] /\ UNCHANGED <<answer, faults>>
         \/ /\ pc' = [pc EXCEPT ![c] = "done"]
            /\ Answer(c, "refused", None)
            /\ faults' = faults + 1,
         UNCHANGED <<exec, code, saved, armedVersion, outcome, broken, child, pipe, runs,
                     crashes>>
  PROVE  [Lease!Next]_(Lease!leaseVars)
<1>i. TypeOK /\ CallOK(c)
  BY DEF FlowInv
<1>1. (\A d \in Calls \ {c} : row'[d] = row[d]) /\ ~ Exists(c) /\ Exists(c)'
  BY <1>i, CommitOK DEF Untouched
<1>2. row'[c].lease = "active"
  BY <1>i, CommitFacts DEF TypeOK
<1>3. ASSUME NEW d \in Calls, row[d].lease \in Held PROVE PrintOf[d] # PrintOf[c]
  <2>1. HeldBy(PrintOf[c]) = {}
    BY <1>i, CommitFacts
  <2>2. Exists(d)
    BY <1>3 DEF FlowInv, CallOK, RowOK, Exists, Held
  <2> QED BY <1>3, <2>1, <2>2 DEF HeldBy, OfPrint
<1>4. Lease!Acquire(c)
  BY <1>1, <1>2, <1>3 DEF Lease!Acquire, Exists, Held
<1> QED BY <1>4 DEF Lease!Next

(* So is every step of the flow.                                           *)
LEMMA FlowLease ==
  ASSUME FlowInv, [Next]_vars
  PROVE  [Lease!Next]_(Lease!leaseVars)
<1>i. TypeOK
  BY DEF FlowInv
<1>u. ASSUME UNCHANGED <<row, child, runs>> PROVE [Lease!Next]_(Lease!leaseVars)
  BY <1>u DEF Lease!leaseVars, Exists
<1>1. CASE UNCHANGED vars
  BY <1>1, <1>u DEF vars
<1>2. ASSUME NEW c \in Calls, Claim(c) PROVE [Lease!Next]_(Lease!leaseVars)
  <2>1. CASE ClaimNew(c)
    BY <2>1, CommitLease DEF ClaimNew
  <2>2. CASE ClaimFails(c) /\ CommitClaim(c)
    BY <2>2, CommitLease DEF ClaimFails
  <2>3. CASE (\E q \in Calls : ClaimExisting(c, q)) \/ ClaimRefused(c)
             \/ (ClaimFails(c) /\ UNCHANGED <<row, trace, warrant, approval>>)
    BY <2>3, <1>u DEF ClaimExisting, ClaimRefused, ClaimFails, tables
  <2> QED BY <1>2, <2>1, <2>2, <2>3 DEF Claim, ClaimFails
<1>3. ASSUME NEW c \in Calls, Prepare(c) \/ Execute(c) \/ Finish(c) \/ Child(c) \/ Disturb(c)
      PROVE  [Lease!Next]_(Lease!leaseVars)
  BY <1>3, OwnLease
<1>4. ASSUME NEW c \in Calls,
             \/ OperatorRecordEvidence(c)
             \/ \E t \in {"failed", "abandoned"} : OperatorTerminalize(c, t)
      PROVE  [Lease!Next]_(Lease!leaseVars)
  <2>1. StepKeeps(c) /\ UNCHANGED <<child, runs>>
    BY <1>4, OperatorRowKeeps DEF FlowInv, OperatorRecordEvidence, OperatorTerminalize,
                                  operatorRest
  <2>2. row'[c].lease = "closed"
    BY <1>i, <1>4 DEF TypeOK, OperatorRecordEvidence, OperatorTerminalize, WithEvidence
  <2>3. row[c].lease \in Held => child[c] # "executing"
    BY <1>4 DEF FlowInv, CallOK, ChildOK, OperatorRecordEvidence, OperatorTerminalize,
                ProcessEvidence, Held
  <2>4. LeaseMove(c)
    BY <2>1, <2>2, <2>3 DEF LeaseMove, Held
  <2> QED BY <2>1, <2>4, LeaseStep DEF StepKeeps, RowKept
<1>5. CASE \/ \E a \in Approvals, c \in Calls : OperatorIssueApproval(a, c)
           \/ \E a \in Approvals : ApprovalLapses(a)
  BY <1>5, <1>u DEF OperatorIssueApproval, ApprovalLapses, operatorRest
<1> QED BY <1>1, <1>2, <1>3, <1>4, <1>5 DEF Next, Operator

(* The back-test flow implements the execution lease: of the requests with *)
(* one fingerprint at most one holds the lease, only its holder executes,  *)
(* and only once.                                                          *)
THEOREM FlowImplementsLease == Spec => ImplementsLease
<1>1. Init => Lease!Init
  BY DEF Init, Lease!Init, NoRow, Exists, Held
<1>2. FlowInv /\ [Next]_vars => [Lease!Next]_(Lease!leaseVars)
  BY FlowLease
<1> QED BY <1>1, <1>2, FlowInvariant, PTL DEF Spec, ImplementsLease, Lease!Spec
=============================================================================
