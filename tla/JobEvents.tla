------------------------------- MODULE JobEvents -------------------------------
(***************************************************************************)
(* The live view of a running analysis: the in-process event buffer        *)
(* (job_events.py), the run that fills and closes it (jobs.py) and the     *)
(* server-sent event stream that readers follow and resume with            *)
(* Last-Event-ID (api.py).                                                 *)
(*                                                                         *)
(* An event is the number of its publication; what it says is left out.    *)
(* A task is one call of run_job_sync.  By default a waiting task outlives *)
(* its claim, a second one is started for the same job, and both publish   *)
(* into one buffer, one after the other or, with several slots, together.  *)
(***************************************************************************)
EXTENDS Integers, Sequences, FiniteSets, SequencesExt

CONSTANTS
  Jobs,
  Tasks,          \* calls of run_job_sync
  JobOf,          \* the job each task runs
  WaitOutlastsLease,  \* AI_ANALYSIS_QUEUE_WAIT_SECONDS exceeds the 5 minute lease
  Readers,        \* browser tabs
  Follows,        \* the job each reader follows
  MaxEvents,      \* max_events: events kept per job
  MaxPublished,   \* bound: events of one job
  MaxCuts         \* bound: dropped connections and restarts

ASSUME EventConstants ==
  /\ JobOf \in [Tasks -> Jobs]
  /\ WaitOutlastsLease \in BOOLEAN
  /\ Follows \in [Readers -> Jobs]
  /\ MaxEvents \in Nat
  /\ MaxPublished \in Nat
  /\ MaxCuts \in Nat

VARIABLES
  phase,      \* of a task: off, waiting, running, closing, failing, finished
  events,     \* _events
  dropped,    \* _dropped
  closed,     \* _closed
  conn,       \* a reader's connection: off, open, done
  cursor,     \* the cursor of its event_source
  outgoing,   \* events read and not yet sent, with their ids
  lastId,     \* Last-Event-ID in the browser
  received,   \* history: events a reader got
  published,  \* history: number of events of the job
  trimmed,    \* history: the latest event that was trimmed
  cuts

buffer  == <<events, dropped, closed>>
readers == <<conn, cursor, outgoing, lastId, received>>
vars == <<phase, events, dropped, closed, conn, cursor, outgoing, lastId,
          received, published, trimmed, cuts>>

Init ==
  /\ phase = [t \in Tasks |-> "off"]
  /\ events = [j \in Jobs |-> <<>>]
  /\ dropped = [j \in Jobs |-> 0]
  /\ closed = [j \in Jobs |-> FALSE]
  /\ conn = [r \in Readers |-> "off"]
  /\ cursor = [r \in Readers |-> 0]
  /\ outgoing = [r \in Readers |-> <<>>]
  /\ lastId = [r \in Readers |-> 0]
  /\ received = [r \in Readers |-> <<>>]
  /\ published = [j \in Jobs |-> 0]
  /\ trimmed = [j \in Jobs |-> 0]
  /\ cuts = 0

-----------------------------------------------------------------------------
(* run_job_sync and _run_analysis_job, as far as the buffer sees them.     *)

TasksOf(j) == {t \in Tasks : JobOf[t] = j}

(* The row is QUEUED until a task writes RUNNING or a verdict.             *)
IsQueued(j) == \A t \in TasksOf(j) : phase[t] \in {"off", "waiting"}

(* The job is claimed while it is QUEUED: by the first task, or after the  *)
(* claim of a task that still waits for a slot has run out.                *)
EnterRun(t) ==
  /\ phase[t] = "off"
  /\ IsQueued(JobOf[t])
  /\ \A u \in TasksOf(JobOf[t]) : phase[u] = "waiting" => WaitOutlastsLease
  /\ phase' = [phase EXCEPT ![t] = "waiting"]
  /\ UNCHANGED <<buffer, readers, published, trimmed, cuts>>

(* A slot is free, and RUNNING is written whatever the row says.           *)
StartRun(t) ==
  /\ phase[t] = "waiting"
  /\ phase' = [phase EXCEPT ![t] = "running"]
  /\ UNCHANGED <<buffer, readers, published, trimmed, cuts>>

(* No capacity slot in time: the job fails and its buffer stays open.      *)
GiveUpWaiting(t) ==
  /\ phase[t] = "waiting"
  /\ phase' = [phase EXCEPT ![t] = "finished"]
  /\ UNCHANGED <<buffer, readers, published, trimmed, cuts>>

Overflow(kept) == IF Len(kept) > MaxEvents THEN Len(kept) - MaxEvents ELSE 0

(* publish does not look at _closed.                                       *)
Publish(t) ==
  /\ phase[t] = "running"
  /\ published[JobOf[t]] < MaxPublished
  /\ LET j == JobOf[t]
         kept == Append(events[j], published[j] + 1)
         over == Overflow(kept)
     IN /\ published' = [published EXCEPT ![j] = @ + 1]
        /\ events' = [events EXCEPT ![j] = SubSeq(kept, over + 1, Len(kept))]
        /\ dropped' = [dropped EXCEPT ![j] = dropped[j] + over]
        /\ trimmed' = [trimmed EXCEPT ![j] = IF over > 0 THEN kept[over] ELSE @]
  /\ UNCHANGED <<phase, closed, readers, cuts>>

(* A failed or cancelled run stores its verdict inside the try statement.  *)
FailRun(t) ==
  /\ phase[t] = "running"
  /\ phase' = [phase EXCEPT ![t] = "failing"]
  /\ UNCHANGED <<buffer, readers, published, trimmed, cuts>>

CloseEventsEarly(t) ==
  /\ phase[t] \in {"running", "failing"}
  /\ phase' = [phase EXCEPT ![t] = IF @ = "failing" THEN "finished"
                                   ELSE IF closed[JobOf[t]] THEN "closing" ELSE @]
  /\ closed' = [closed EXCEPT ![JobOf[t]] = TRUE]
  /\ UNCHANGED <<events, dropped, readers, published, trimmed, cuts>>

(* The finally clause closes the stream: after the verdict of a failed run,*)
(* before the result of a successful one.                                  *)
CloseEvents(t) ==
  /\ phase[t] \in {"running", "failing"}
  /\ phase' = [phase EXCEPT ![t] = IF @ = "failing" THEN "finished" ELSE "closing"]
  /\ closed' = [closed EXCEPT ![JobOf[t]] = TRUE]
  /\ UNCHANGED <<events, dropped, readers, published, trimmed, cuts>>

StoreResult(t) ==
  /\ phase[t] = "closing"
  /\ phase' = [phase EXCEPT ![t] = "finished"]
  /\ UNCHANGED <<buffer, readers, published, trimmed, cuts>>

-----------------------------------------------------------------------------
(* stream_analysis_job_events.                                             *)
Connect(r) ==
  /\ conn[r] = "off"
  /\ conn' = [conn EXCEPT ![r] = "open"]
  /\ cursor' = [cursor EXCEPT ![r] = lastId[r]]
  /\ UNCHANGED <<phase, buffer, outgoing, lastId, received, published, trimmed, cuts>>

Total(j) == dropped[j] + Len(events[j])
StartIgnoringTrim(j, from) == from
StartAt(j, from) == IF from > dropped[j] THEN from - dropped[j] ELSE 0

Since(j, from) == SubSeq(events[j], StartAt(j, from) + 1, Len(events[j]))

WithIds(new, total) ==
  [i \in 1 .. Len(new) |-> [id |-> total - Len(new) + i, event |-> new[i]]]

EndsStreamWithNews(j, new) == closed[j] /\ new # <<>>
EndsStreamEarly(j, new) == closed[j]
EndsStream(j, new) == closed[j] /\ new = <<>>

ReadSince(r) ==
  /\ conn[r] = "open"
  /\ outgoing[r] = <<>>
  /\ LET j == Follows[r]
         new == Since(j, cursor[r])
     IN /\ cursor' = [cursor EXCEPT ![r] = Total(j)]
        /\ outgoing' = [outgoing EXCEPT ![r] = WithIds(new, Total(j))]
        /\ conn' = [conn EXCEPT ![r] = IF EndsStream(j, new) THEN "done" ELSE "open"]
  /\ UNCHANGED <<phase, buffer, lastId, received, published, trimmed, cuts>>

SendEvent(r) ==
  /\ conn[r] = "open"
  /\ outgoing[r] # <<>>
  /\ outgoing' = [outgoing EXCEPT ![r] = Tail(@)]
  /\ lastId' = [lastId EXCEPT ![r] = Head(outgoing[r]).id]
  /\ received' = [received EXCEPT ![r] = Append(@, Head(outgoing[r]).event)]
  /\ UNCHANGED <<phase, buffer, conn, cursor, published, trimmed, cuts>>

ConnectionLost(r) ==
  /\ conn[r] = "open"
  /\ cuts < MaxCuts
  /\ cuts' = cuts + 1
  /\ conn' = [conn EXCEPT ![r] = "off"]
  /\ outgoing' = [outgoing EXCEPT ![r] = <<>>]
  /\ UNCHANGED <<phase, buffer, cursor, lastId, received, published, trimmed>>

(* A restart loses every task, buffer and connection; the reaper fails the *)
(* jobs whose run it interrupted, and queued jobs are claimed later.       *)
Restart ==
  /\ cuts < MaxCuts
  /\ cuts' = cuts + 1
  /\ phase' = [t \in Tasks |->
       IF phase[t] \in {"off", "waiting"} THEN "off" ELSE "finished"]
  /\ events' = [j \in Jobs |-> <<>>]
  /\ dropped' = [j \in Jobs |-> 0]
  /\ closed' = [j \in Jobs |-> FALSE]
  /\ conn' = [r \in Readers |-> IF conn[r] = "open" THEN "off" ELSE conn[r]]
  /\ outgoing' = [r \in Readers |-> <<>>]
  /\ UNCHANGED <<cursor, lastId, received, published, trimmed>>

ReaderStep(r) == ReadSince(r) \/ SendEvent(r)
EndRun(t) == FailRun(t) \/ CloseEvents(t) \/ StoreResult(t)

Next ==
  \/ \E t \in Tasks : \/ EnterRun(t) \/ StartRun(t) \/ GiveUpWaiting(t)
                      \/ Publish(t) \/ EndRun(t)
  \/ \E r \in Readers : Connect(r) \/ ReaderStep(r) \/ ConnectionLost(r)
  \/ Restart

Spec == Init /\ [][Next]_vars

(* An open stream keeps polling, and a run ends: it has a deadline.        *)
FairSpec ==
  /\ Spec
  /\ \A r \in Readers : WF_vars(ReaderStep(r))
  /\ \A t \in Tasks : WF_vars(EndRun(t))

-----------------------------------------------------------------------------
TypeOK ==
  /\ phase \in [Tasks -> {"off", "waiting", "running", "closing", "failing", "finished"}]
  /\ events \in [Jobs -> Seq(Nat)]
  /\ \A j \in Jobs : Len(events[j]) <= MaxEvents
  /\ dropped \in [Jobs -> Nat]
  /\ closed \in [Jobs -> BOOLEAN]
  /\ conn \in [Readers -> {"off", "open", "done"}]
  /\ cursor \in [Readers -> Nat]
  /\ outgoing \in [Readers -> Seq([id : Nat, event : Nat])]
  /\ lastId \in [Readers -> Nat]

(* Over dropped connections and trimming, a reader gets events in order,   *)
(* none of them twice, and misses only events that were trimmed: the       *)
(* cursor, which counts publications, and the ids computed from it stay    *)
(* aligned with the shortened list.                                        *)
ReaderMissesOnlyTrimmed ==
  \A r \in Readers :
    /\ \A i \in 1 .. Len(received[r]) - 1 : received[r][i] < received[r][i + 1]
    /\ received[r] # <<>> =>
         \A n \in 1 .. Last(received[r]) :
           n > trimmed[Follows[r]] => Contains(received[r], n)

AllKept(r) ==
  \A n \in 1 .. published[Follows[r]] :
    n > trimmed[Follows[r]] => Contains(received[r], n)

SecondRun(j) ==
  \E t, u \in TasksOf(j) : t # u /\ {phase[t], phase[u]} \cap {"off", "waiting"} = {}

(* "Mark the analysis finished so readers can stop": whoever publishes,    *)
(* closes and restarts, a reader is told "done" only when it has been sent *)
(* all that was kept, and it misses nothing later, as long as one task     *)
(* only has got past the queue.  A second one, which the default wait      *)
(* allows, publishes into the closed buffer; its events are sent as well   *)
(* to a stream that is still open.                                         *)
DoneMeansEverything ==
  [][\A r \in Readers :
       conn'[r] = "done" =>
         AllKept(r)' \/ (conn[r] = "done" /\ SecondRun(Follows[r])')]_vars

Started(j) ==
  closed[j] \/ \E t \in TasksOf(j) : phase[t] \in {"running", "closing", "failing"}

(* Readers are released whether the analysis succeeds or fails: a reader   *)
(* of a run that was started does not hang, whatever is still on its way   *)
(* to it when the run ends and whoever publishes after it.                 *)
ReadersReleased ==
  \A r \in Readers :
    (conn[r] = "open" /\ Started(Follows[r])) ~> (conn[r] # "open")
=============================================================================
