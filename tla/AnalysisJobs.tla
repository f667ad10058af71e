------------------------------ MODULE AnalysisJobs ------------------------------
(***************************************************************************)
(* The analysis-job runtime of the AI API: the durable job rows and their  *)
(* dispatch outbox (ai_graph/job_repository_postgres.py), the capacity     *)
(* gate (analysis_capacity.py), the job runner (jobs.py: run_job_sync,     *)
(* _run_analysis_job), the outbox dispatcher (api.py:                      *)
(* _dispatch_analysis_job_outbox), user cancellation, and the restart      *)
(* reconciliation of the lifespan hook (jobs.py: reap_interrupted_jobs).   *)
(*                                                                         *)
(* Two kinds of job share the runner.  A parse-bound job is admitted       *)
(* together with one outbox row and is run by whichever dispatcher claims  *)
(* that row.  A direct job has no outbox row: a background task of the     *)
(* creating request runs it, and the model names that task after its job.  *)
(*                                                                         *)
(* Durable: status, result, outbox.  Process-local, lost in a crash: pc,   *)
(* work, handled, free, cancelled.                                         *)
(***************************************************************************)
EXTENDS Integers, FiniteSets

CONSTANTS
  ParseJobs,          \* jobs admitted through POST /analysis-jobs with a draft token
  DirectJobs,         \* jobs created by a raw query: no outbox row
  DemoJobs,           \* jobs whose query triggers the demo report (demo_mock_active)
  DriftJobs,          \* jobs whose row a later build cannot decode
  Dispatchers,        \* concurrent runs of _dispatch_analysis_job_outbox
  NoJob,
  MaxConcurrency,     \* AI_ANALYSIS_MAX_CONCURRENCY
  MaxMessages,        \* max_messages of one dispatcher run
  WaitOutlastsLease,  \* AI_ANALYSIS_QUEUE_WAIT_SECONDS exceeds the 5 minute lease
  MaxCrashes,         \* bound: process crashes explored
  MaxFaults           \* bound: raised store calls explored

Jobs    == ParseJobs \cup DirectJobs
Workers == Dispatchers \cup DirectJobs

ASSUME JobSets ==
  /\ ParseJobs \cap DirectJobs = {}
  /\ Dispatchers \cap Jobs = {}
  /\ NoJob \notin Jobs
  /\ DemoJobs \subseteq Jobs
  /\ DriftJobs \subseteq Jobs
  /\ IsFiniteSet(Workers)

ASSUME Parameters ==
  /\ MaxConcurrency \in Nat \ {0}
  /\ MaxMessages \in Nat \ {0}
  /\ WaitOutlastsLease \in BOOLEAN
  /\ MaxCrashes \in Nat
  /\ MaxFaults \in Nat

VARIABLES
  phase,      \* "reaping" while lifespan reconciles, then "serving"
  status,     \* job_jsonb ->> 'status'; "none" before the row exists
  result,     \* what job.result holds
  outbox,     \* status of the job's app.ai_analysis_job_outbox row
  stale,      \* that row's claimed_at is more than five minutes old
  pc,         \* where each dispatcher or background task stands
  work,       \* the job it is handling
  handled,    \* messages a dispatcher run has finished
  free,       \* permits left in the BoundedSemaphore
  cancelled,  \* CancellationRegistry._cancelled
  starts,     \* history: how often a job's analysis was started
  crashes, faults

durable == <<status, result, outbox, stale>>
local   == <<pc, work, handled, free, cancelled>>
vars    == <<phase, status, result, outbox, stale, pc, work, handled, free,
             cancelled, starts, crashes, faults>>

Statuses == {"none", "queued", "running", "completed", "failed"}
Active   == {"queued", "running"}
Terminal == {"completed", "failed"}

(* Program points.  "waiting": inside capacity.slot().  "starting" through *)
(* "failing": a slot is held.  The rest are the dispatcher's own steps.    *)
HoldingSlot == {"starting", "running", "completing", "failing"}
PcValues == {"idle", "claim", "fetch", "waiting", "timedout", "returned",
             "escaped", "settle", "ack", "ackLast", "release"} \cup HoldingSlot

Busy(w) == pc[w] \notin {"idle", "claim"}
Holder(w, j) == Busy(w) /\ work[w] = j
Holders == {w \in Workers : pc[w] \in HoldingSlot}

Init ==
  /\ phase = "reaping"
  /\ status = [j \in Jobs |-> "none"]
  /\ result = [j \in Jobs |-> "none"]
  /\ outbox = [j \in ParseJobs |-> "none"]
  /\ stale = [j \in ParseJobs |-> FALSE]
  /\ pc = [w \in Workers |-> "idle"]
  /\ work = [w \in Workers |-> NoJob]
  /\ handled = [d \in Dispatchers |-> 0]
  /\ free = MaxConcurrency
  /\ cancelled = {}
  /\ starts = [j \in Jobs |-> 0]
  /\ crashes = 0
  /\ faults = 0

-----------------------------------------------------------------------------
(* Writes to one job row.  update_job_status, complete_job and fail_job    *)
(* overwrite the row whatever its status is.                               *)

WriteRunning(j) ==
  /\ status' = [status EXCEPT ![j] = "running"]
  /\ UNCHANGED result

CompleteJob(j) ==
  /\ status' = [status EXCEPT ![j] = "completed"]
  /\ result' = [result EXCEPT ![j] = "report"]

FailJob(j) ==
  /\ status' = [status EXCEPT ![j] = "failed"]
  /\ result' = [result EXCEPT ![j] = "failure"]

(* A task ends: a dispatcher run also forgets its message count.           *)
GoIdle(w) ==
  /\ pc' = [pc EXCEPT ![w] = "idle"]
  /\ work' = [work EXCEPT ![w] = NoJob]
  /\ handled' = [d \in Dispatchers |-> IF d = w THEN 0 ELSE handled[d]]

GoTo(w, target) ==
  /\ pc' = [pc EXCEPT ![w] = target]
  /\ UNCHANGED <<work, handled>>

-----------------------------------------------------------------------------
(* Requests.                                                               *)

(* POST with a draft token: the job, its idempotency record and its outbox *)
(* row commit together, and the response schedules a dispatcher.           *)
AdmitParseBoundJob(j, d) ==
  /\ phase = "serving"
  /\ status[j] = "none"
  /\ pc[d] = "idle"
  /\ status' = [status EXCEPT ![j] = "queued"]
  /\ outbox' = [outbox EXCEPT ![j] = "pending"]
  /\ pc' = [pc EXCEPT ![d] = "claim"]
  /\ UNCHANGED <<phase, result, stale, work, handled, free, cancelled, starts,
                 crashes, faults>>

(* A replay of an accepted idempotency key creates nothing and schedules   *)
(* another dispatcher.                                                     *)
ReplayAdmission(d) ==
  /\ phase = "serving"
  /\ \E j \in ParseJobs : status[j] # "none"
  /\ pc[d] = "idle"
  /\ pc' = [pc EXCEPT ![d] = "claim"]
  /\ UNCHANGED <<phase, durable, work, handled, free, cancelled, starts,
                 crashes, faults>>

(* POST with a raw query: run_job_sync is scheduled on the job directly.   *)
CreateDirectJob(j) ==
  /\ phase = "serving"
  /\ status[j] = "none"
  /\ status' = [status EXCEPT ![j] = "queued"]
  /\ pc' = [pc EXCEPT ![j] = "waiting"]
  /\ work' = [work EXCEPT ![j] = j]
  /\ UNCHANGED <<phase, result, outbox, stale, handled, free, cancelled,
                 starts, crashes, faults>>

(* The endpoint reads the job first, which a force-failed row no longer    *)
(* survives (it raises), and stops nothing once a result is stored.        *)
CancelAnalysisJob(j) ==
  /\ phase = "serving"
  /\ status[j] # "none"
  /\ result[j] = "none"
  /\ ~(j \in DriftJobs /\ status[j] = "failed")
  /\ cancelled' = cancelled \cup {j}
  /\ UNCHANGED <<phase, durable, pc, work, handled, free, starts, crashes,
                 faults>>

-----------------------------------------------------------------------------
(* The dispatcher up to the runner.                                        *)

(* Mutants: a live lease is ignored; the job's status is ignored; a        *)
(* claimed row is never taken over.                                        *)
ClaimableIgnoringLease(j) == status[j] = "queued" /\ outbox[j] \in {"pending", "claimed"}
ClaimableWhateverStatus(j) == outbox[j] = "pending" \/ (outbox[j] = "claimed" /\ stale[j])
ClaimablePendingOnly(j) == status[j] = "queued" /\ outbox[j] = "pending"

Claimable(j) ==
  /\ status[j] = "queued"
  /\ \/ outbox[j] = "pending"
     \/ outbox[j] = "claimed" /\ stale[j]

(* ORDER BY created_at with SKIP LOCKED: a concurrent claim may pass over  *)
(* the oldest row, so any claimable row may be the one returned.           *)
ClaimAnalysisJobOutbox(d, j) ==
  /\ pc[d] = "claim"
  /\ Claimable(j)
  /\ outbox' = [outbox EXCEPT ![j] = "claimed"]
  /\ stale' = [stale EXCEPT ![j] = FALSE]
  /\ pc' = [pc EXCEPT ![d] = "fetch"]
  /\ work' = [work EXCEPT ![d] = j]
  /\ UNCHANGED <<phase, status, result, handled, free, cancelled, starts,
                 crashes, faults>>

ClaimNothing(d) ==
  /\ pc[d] = "claim"
  /\ \A j \in ParseJobs : ~Claimable(j)
  /\ GoIdle(d)
  /\ UNCHANGED <<phase, durable, free, cancelled, starts, crashes, faults>>

FetchJob(d) ==
  /\ pc[d] = "fetch"
  /\ GoTo(d, "waiting")
  /\ UNCHANGED <<phase, durable, free, cancelled, starts, crashes, faults>>

-----------------------------------------------------------------------------
(* run_job_sync: take a slot, run the analysis, write the verdict.         *)

AcquireSlot(w) ==
  /\ pc[w] = "waiting"
  /\ free > 0
  /\ free' = free - 1
  /\ GoTo(w, "starting")
  /\ UNCHANGED <<phase, durable, cancelled, starts, crashes, faults>>

SlotTimeout(w) ==
  /\ pc[w] = "waiting"
  /\ free = 0
  /\ GoTo(w, "timedout")
  /\ UNCHANGED <<phase, durable, free, cancelled, starts, crashes, faults>>

(* except AnalysisCapacityTimeout: the demo query completes, others fail.  *)
SettleTimeout(w) ==
  /\ pc[w] = "timedout"
  /\ IF work[w] \in DemoJobs THEN CompleteJob(work[w]) ELSE FailJob(work[w])
  /\ GoTo(w, "returned")
  /\ UNCHANGED <<phase, outbox, stale, free, cancelled, starts, crashes, faults>>

StartRunning(w) ==
  /\ pc[w] = "starting"
  /\ WriteRunning(work[w])
  /\ starts' = [starts EXCEPT ![work[w]] = @ + 1]
  /\ GoTo(w, "running")
  /\ UNCHANGED <<phase, outbox, stale, free, cancelled, crashes, faults>>

(* report_stage: a node boundary re-writes RUNNING with the new stage.     *)
ReportStage(w) ==
  /\ pc[w] = "running"
  /\ WriteRunning(work[w])
  /\ UNCHANGED <<phase, outbox, stale, local, starts, crashes, faults>>

(* The runner returns an envelope.                                         *)
RunnerReturns(w) ==
  /\ pc[w] = "running"
  /\ GoTo(w, "completing")
  /\ UNCHANGED <<phase, durable, free, cancelled, starts, crashes, faults>>

(* The runner raises: AnalysisDeadlineExceeded or any other exception      *)
(* becomes a failure, except that the demo query still gets its report.    *)
RunnerRaises(w) ==
  /\ pc[w] = "running"
  /\ GoTo(w, IF work[w] \in DemoJobs THEN "completing" ELSE "failing")
  /\ UNCHANGED <<phase, durable, free, cancelled, starts, crashes, faults>>

(* AnalysisCancelled at a checkpoint is a failure for the demo query too.  *)
RunnerCancelled(w) ==
  /\ pc[w] = "running"
  /\ work[w] \in cancelled
  /\ GoTo(w, "failing")
  /\ UNCHANGED <<phase, durable, free, cancelled, starts, crashes, faults>>

(* The terminal write, then the slot's finally.                            *)
FinishRun(w) ==
  /\ \/ pc[w] = "completing" /\ CompleteJob(work[w])
     \/ pc[w] = "failing" /\ FailJob(work[w])
  /\ free' = free + 1
  /\ GoTo(w, "returned")
  /\ UNCHANGED <<phase, outbox, stale, cancelled, starts, crashes, faults>>

-----------------------------------------------------------------------------
(* After run_job_sync.  A direct background task ends; a dispatcher reads  *)
(* the job again and settles its outbox row.                               *)

DirectTaskEnds(w) ==
  /\ w \in DirectJobs
  /\ pc[w] \in {"returned", "escaped"}
  /\ GoIdle(w)
  /\ UNCHANGED <<phase, durable, free, cancelled, starts, crashes, faults>>

AfterRun(j) == IF status[j] \in Terminal THEN "ack" ELSE "settle"

(* Mutant: an escaped run is acknowledged without being failed first.      *)
AfterEscapeUnsettled(j) == "ackLast"

AfterEscape(j) == IF status[j] \in Terminal THEN "ackLast" ELSE "settle"

RereadJob(d) ==
  /\ d \in Dispatchers
  /\ \/ /\ pc[d] = "returned"
        /\ GoTo(d, AfterRun(work[d]))
     \/ /\ pc[d] = "escaped"
        /\ GoTo(d, AfterEscape(work[d]))
  /\ UNCHANGED <<phase, durable, free, cancelled, starts, crashes, faults>>

SettleNonTerminal(d) ==
  /\ pc[d] = "settle"
  /\ FailJob(work[d])
  /\ GoTo(d, "ackLast")
  /\ UNCHANGED <<phase, outbox, stale, free, cancelled, starts, crashes, faults>>

(* mark_analysis_job_outbox_delivered changes only a claimed row.  After   *)
(* an ordinary run the loop goes on; after a settled escape it returns.    *)
MarkDelivered(d) ==
  /\ pc[d] \in {"ack", "ackLast"}
  /\ outbox' = IF outbox[work[d]] = "claimed"
                 THEN [outbox EXCEPT ![work[d]] = "delivered"] ELSE outbox
  /\ IF pc[d] = "ack" /\ handled[d] + 1 < MaxMessages
       THEN /\ pc' = [pc EXCEPT ![d] = "claim"]
            /\ work' = [work EXCEPT ![d] = NoJob]
            /\ handled' = [handled EXCEPT ![d] = @ + 1]
       ELSE GoIdle(d)
  /\ UNCHANGED <<phase, status, result, stale, free, cancelled, starts,
                 crashes, faults>>

ReleaseClaim(d) ==
  /\ pc[d] = "release"
  /\ IF outbox[work[d]] = "claimed"
       THEN /\ outbox' = [outbox EXCEPT ![work[d]] = "pending"]
            /\ stale' = [stale EXCEPT ![work[d]] = FALSE]
       ELSE UNCHANGED <<outbox, stale>>
  /\ GoIdle(d)
  /\ UNCHANGED <<phase, status, result, free, cancelled, starts, crashes, faults>>

-----------------------------------------------------------------------------
(* A store call raises and its write is not applied.  Inside run_job_sync  *)
(* the exception unwinds through slot()'s finally and escapes; inside the  *)
(* dispatcher's settling try it leads to the release; elsewhere it ends    *)
(* the dispatcher.                                                         *)

EndedByFault == {"claim", "fetch", "ack", "release"}
EscapesByFault == {"timedout", "starting", "completing", "failing"}
ReleasesByFault == {"settle", "ackLast"}

(* Mutants: the slot is not given back, or is given back without having    *)
(* been taken.                                                             *)
SlotsLeakedOnEscape(w) == free
SlotsReleasedTwice(w) == free + 1

SlotsAfterEscape(w) == IF pc[w] \in HoldingSlot THEN free + 1 ELSE free

StoreFault(w) ==
  /\ faults < MaxFaults
  /\ faults' = faults + 1
  /\ \/ /\ pc[w] \in EndedByFault \/ (pc[w] = "returned" /\ w \in Dispatchers)
        /\ GoIdle(w)
        /\ UNCHANGED free
     \/ /\ pc[w] \in EscapesByFault
        /\ GoTo(w, "escaped")
        /\ free' = SlotsAfterEscape(w)
     \/ /\ pc[w] \in ReleasesByFault \/ (pc[w] = "escaped" /\ w \in Dispatchers)
        /\ GoTo(w, "release")
        /\ UNCHANGED free
  /\ UNCHANGED <<phase, durable, cancelled, starts, crashes>>

-----------------------------------------------------------------------------
(* Time, crash and restart.                                                *)

(* Five minutes pass since the claim.  The only long stop of a live        *)
(* claimant with its job still QUEUED is the capacity wait; when that wait *)
(* is shorter than the lease, the claimant is past it before the expiry.   *)
LeaseExpires(j) ==
  /\ outbox[j] = "claimed"
  /\ ~stale[j]
  /\ \/ status[j] # "queued"
     \/ \A w \in Workers :
          Holder(w, j) => WaitOutlastsLease /\ pc[w] = "waiting" /\ free = 0
  /\ stale' = [stale EXCEPT ![j] = TRUE]
  /\ UNCHANGED <<phase, status, result, outbox, local, starts, crashes, faults>>

(* The process dies; the next one starts in lifespan.  A failed reaper     *)
(* refuses startup, which is this action in phase "reaping".               *)
Crash ==
  /\ crashes < MaxCrashes
  /\ crashes' = crashes + 1
  /\ phase' = "reaping"
  /\ pc' = [w \in Workers |-> "idle"]
  /\ work' = [w \in Workers |-> NoJob]
  /\ handled' = [d \in Dispatchers |-> 0]
  /\ free' = MaxConcurrency
  /\ cancelled' = {}
  /\ UNCHANGED <<durable, starts, faults>>

(* Every row was written by an earlier incarnation.  A queued row with a   *)
(* pending or claimed outbox record is left for the dispatcher, unless     *)
(* this build cannot decode it.                                            *)
Recoverable(j) == j \in ParseJobs /\ outbox[j] \in {"pending", "claimed"}

(* Mutant: the sweep covers the queued rows only.                          *)
ReapableQueuedOnly(j) == status[j] = "queued" /\ (j \in DriftJobs \/ ~Recoverable(j))

Reapable(j) ==
  /\ status[j] \in Active
  /\ \/ j \in DriftJobs
     \/ ~(status[j] = "queued" /\ Recoverable(j))

(* force_fail_undecodable_job writes the status alone; fail_job also       *)
(* stores a failure envelope as the result.                                *)
ReapInterruptedJob(j) ==
  /\ phase = "reaping"
  /\ Reapable(j)
  /\ IF j \in DriftJobs
       THEN status' = [status EXCEPT ![j] = "failed"] /\ UNCHANGED result
       ELSE FailJob(j)
  /\ UNCHANGED <<phase, outbox, stale, local, starts, crashes, faults>>

StartServing(d) ==
  /\ phase = "reaping"
  /\ \A j \in Jobs : ~Reapable(j)
  /\ phase' = "serving"
  /\ pc' = [pc EXCEPT ![d] = "claim"]
  /\ UNCHANGED <<durable, work, handled, free, cancelled, starts, crashes, faults>>

-----------------------------------------------------------------------------
DispatchStep(d) ==
  \/ \E j \in ParseJobs : ClaimAnalysisJobOutbox(d, j)
  \/ ClaimNothing(d) \/ FetchJob(d)
  \/ RereadJob(d) \/ SettleNonTerminal(d) \/ MarkDelivered(d) \/ ReleaseClaim(d)

RunStep(w) ==
  \/ AcquireSlot(w) \/ SlotTimeout(w) \/ SettleTimeout(w) \/ StartRunning(w)
  \/ RunnerReturns(w) \/ RunnerRaises(w) \/ RunnerCancelled(w) \/ FinishRun(w)
  \/ DirectTaskEnds(w)

Next ==
  \/ \E j \in ParseJobs, d \in Dispatchers : AdmitParseBoundJob(j, d)
  \/ \E d \in Dispatchers : ReplayAdmission(d) \/ DispatchStep(d) \/ StartServing(d)
  \/ \E j \in DirectJobs : CreateDirectJob(j)
  \/ \E j \in Jobs : CancelAnalysisJob(j) \/ ReapInterruptedJob(j)
  \/ \E w \in Workers : RunStep(w) \/ ReportStage(w) \/ StoreFault(w)
  \/ \E j \in ParseJobs : LeaseExpires(j)
  \/ Crash

Spec == Init /\ [][Next]_vars

(***************************************************************************)
(* Fairness.  The process keeps executing its tasks, a run ends (it has a  *)
(* deadline and every provider call a timeout), five minutes eventually    *)
(* pass and startup finishes.  Nothing in the process schedules a later    *)
(* dispatcher by itself: that needs a request.                             *)
(***************************************************************************)
ProcessFairness ==
  /\ \A w \in Workers : WF_vars(RunStep(w))
  /\ \A d \in Dispatchers : WF_vars(DispatchStep(d))
  /\ \A j \in ParseJobs : WF_vars(LeaseExpires(j))
  /\ \A j \in Jobs : WF_vars(ReapInterruptedJob(j))
  /\ WF_vars(\E d \in Dispatchers : StartServing(d))

QuietSpec == Spec /\ ProcessFairness

(* ... and clients keep sending parse-bound requests.                      *)
TrafficSpec == QuietSpec /\ WF_vars(\E d \in Dispatchers : ReplayAdmission(d))

-----------------------------------------------------------------------------
(* Properties.                                                             *)

(* Every variable ranges over the values the store and the process use.    *)
TypeOK ==
  /\ phase \in {"reaping", "serving"}
  /\ status \in [Jobs -> Statuses]
  /\ result \in [Jobs -> {"none", "report", "failure"}]
  /\ outbox \in [ParseJobs -> {"none", "pending", "claimed", "delivered"}]
  /\ stale \in [ParseJobs -> BOOLEAN]
  /\ pc \in [Workers -> PcValues]
  /\ work \in [Workers -> Jobs \cup {NoJob}]
  /\ handled \in [Dispatchers -> 0 .. MaxMessages - 1]
  /\ free \in 0 .. MaxConcurrency
  /\ cancelled \subseteq Jobs
  /\ starts \in [Jobs -> Nat]
  /\ crashes \in 0 .. MaxCrashes
  /\ faults \in 0 .. MaxFaults

(* No path through run_job_sync, raised store calls included, loses or     *)
(* invents a permit of the capacity gate.                                  *)
SlotConservation == free + Cardinality(Holders) = MaxConcurrency

(* A queued parse-bound job always has an outbox record that a dispatcher  *)
(* can still claim: no acknowledgement, release, escape or crash leaves a  *)
(* queued row that nothing can pick up.                                    *)
QueuedIsRecoverable ==
  \A j \in ParseJobs : status[j] = "queued" => outbox[j] \in {"pending", "claimed"}

(* Claim leasing hands a job out once: over crashes, replays and takeovers *)
(* its analysis, which is paid for, is started at most once.               *)
RunAtMostOnce == \A j \in Jobs : starts[j] <= 1

(* A job that reached completed or failed is never written again.          *)
TerminalIsFinal ==
  [][\A j \in Jobs : status[j] \in Terminal => status'[j] = status[j]]_vars

(* An acknowledged outbox record belongs to a finished job.                *)
DeliveredIsTerminal ==
  \A j \in ParseJobs : outbox[j] = "delivered" => status[j] \in Terminal

(* While serving, a job reads as running only if a task of this process is *)
(* running it, unless the store itself raised: a restart leaves no row     *)
(* that says running for ever.                                             *)
NoStrandedRunning ==
  phase = "serving" /\ faults = 0 =>
    \A j \in Jobs : status[j] = "running" => \E w \in Workers : Holder(w, j)

(* A stored result means the job is over, which is what the cancel         *)
(* endpoint concludes from it.                                             *)
ResultMeansFinished ==
  \A j \in Jobs : result[j] # "none" => status[j] \in Terminal

(* Every job that was accepted reaches completed or failed, whatever       *)
(* crashes and takeovers happen on the way, unless a store call raised: a  *)
(* direct job whose verdict could not be written stays as it is until the  *)
(* next restart.                                                           *)
EventuallySettled ==
  \A j \in Jobs : status[j] # "none" ~> (status[j] \in Terminal \/ faults > 0)

(* A queued parse-bound job does not stay queued, whatever became of the   *)
(* dispatcher that first claimed it, raised store calls included.          *)
QueuedEventuallyLeaves ==
  \A j \in ParseJobs : status[j] = "queued" ~> status[j] # "queued"

-----------------------------------------------------------------------------
(* Inductive strengthenings, used by AnalysisJobsProofs.                   *)

(* A busy direct task handles its own job and never reaches a dispatcher's *)
(* program point; a busy dispatcher handles a parse-bound job.             *)
DispatcherPoints == {"claim", "fetch", "settle", "ack", "ackLast", "release"}

WorkOK ==
  /\ \A w \in DirectJobs : pc[w] \notin DispatcherPoints
  /\ \A w \in DirectJobs : Busy(w) => work[w] = w
  /\ \A d \in Dispatchers : Busy(d) => work[d] \in ParseJobs
  /\ \A w \in Workers : Busy(w) => status[work[w]] # "none"
  /\ phase = "reaping" => \A w \in Workers : pc[w] = "idle"

(* No job returns to the queue: behind the RUNNING write a job is started  *)
(* for good, and so is one whose outbox record was acknowledged.           *)
Started == {"running", "completed", "failed"}
PastQueue == {"running", "completing", "failing", "returned", "ack", "ackLast"}

StartedOK ==
  /\ \A w \in Workers : pc[w] \in PastQueue => status[work[w]] \in Started
  /\ \A j \in ParseJobs : outbox[j] = "none" => status[j] = "none"
  /\ \A j \in ParseJobs : outbox[j] = "delivered" => status[j] \in Started

(* A running row has a task behind it until a store call raises.           *)
RunnerPoints == {"running", "completing", "failing"}

RunnerOK ==
  phase = "serving" /\ faults = 0 =>
    \A j \in Jobs : status[j] = "running" =>
      \E w \in Workers : pc[w] \in RunnerPoints /\ work[w] = j

IndInv == TypeOK /\ SlotConservation /\ WorkOK /\ StartedOK /\ RunnerOK

(* What a short capacity wait adds: a job has one handler, whose outbox    *)
(* claim is live while the job is queued, and the handler's program point  *)
(* fixes the row's status.                                                 *)
OneHandler ==
  \A w1, w2 \in Workers :
    Busy(w1) /\ Busy(w2) /\ work[w1] = work[w2] => w1 = w2

ClaimLive ==
  \A d \in Dispatchers : Busy(d) =>
    /\ outbox[work[d]] = "claimed"
    /\ status[work[d]] = "queued" => ~stale[work[d]]

PointStatus ==
  \A w \in Workers :
    /\ pc[w] \in {"fetch", "waiting", "timedout", "starting"} => status[work[w]] = "queued"
    /\ pc[w] \in RunnerPoints => status[work[w]] = "running"
    /\ pc[w] \in {"returned", "ack", "ackLast"} => status[work[w]] \in Terminal
    /\ pc[w] = "settle" => status[work[w]] \in Active

StartsOK ==
  \A j \in Jobs : /\ starts[j] <= 1
                  /\ status[j] \in {"none", "queued"} => starts[j] = 0

ExclusiveInv ==
  /\ OneHandler /\ ClaimLive /\ PointStatus /\ StartsOK
  /\ DeliveredIsTerminal /\ ResultMeansFinished

=============================================================================
