--------------------------- MODULE AnalysisJobsProofs ---------------------------
(***************************************************************************)
(* Proofs about AnalysisJobs for any number of jobs, dispatchers, slots,   *)
(* crashes and store faults.                                               *)
(***************************************************************************)
EXTENDS AnalysisJobs, FiniteSetTheorems, TLAPS

-----------------------------------------------------------------------------
(* The set of slot holders, as one task moves.                             *)

(* A task that moves outside the slot's with-block leaves the holders as   *)
(* they were.                                                              *)
LEMMA HoldersSame ==
  ASSUME pc \in [Workers -> PcValues], NEW w \in Workers, NEW t,
         pc' = [pc EXCEPT ![w] = t],
         (pc[w] \in HoldingSlot) <=> (t \in HoldingSlot)
  PROVE  Holders' = Holders
BY DEF Holders

(* Holders are finitely many.                                              *)
LEMMA HoldersFinite == IsFiniteSet(Holders) /\ Cardinality(Holders) \in Nat
<1>1. Holders \subseteq Workers
  BY DEF Holders
<1>2. IsFiniteSet(Workers)
  BY JobSets
<1> QED
  BY <1>1, <1>2, FS_Subset, FS_CardinalityType

(* Entering slot() adds one holder.                                        *)
LEMMA HoldersEnter ==
  ASSUME pc \in [Workers -> PcValues], NEW w \in Workers, NEW t \in HoldingSlot,
         pc' = [pc EXCEPT ![w] = t], pc[w] \notin HoldingSlot
  PROVE  Cardinality(Holders') = Cardinality(Holders) + 1
<1>1. Holders' = Holders \cup {w}
  BY DEF Holders
<1>2. w \notin Holders
  BY DEF Holders
<1> QED
  BY <1>1, <1>2, HoldersFinite, FS_AddElement

(* Leaving slot() removes one holder.                                      *)
LEMMA HoldersLeave ==
  ASSUME pc \in [Workers -> PcValues], NEW w \in Workers, NEW t,
         t \notin HoldingSlot,
         pc' = [pc EXCEPT ![w] = t], pc[w] \in HoldingSlot
  PROVE  /\ Cardinality(Holders') = Cardinality(Holders) - 1
         /\ Cardinality(Holders) > 0
<1>1. Holders' = Holders \ {w}
  BY DEF Holders
<1>2. w \in Holders
  BY DEF Holders
<1>3. Cardinality(Holders) # 0
  BY <1>2, HoldersFinite, FS_EmptySet
<1>4. Cardinality(Holders \ {w}) = Cardinality(Holders) - 1
  BY <1>2, HoldersFinite, FS_RemoveElement
<1> QED
  BY <1>1, <1>3, <1>4, HoldersFinite


-----------------------------------------------------------------------------
(* The invariant that needs no assumption on the capacity wait.            *)

(* Every step keeps IndInv: one step per action, one leaf per conjunct.    *)
LEMMA IndStep == ASSUME IndInv, [Next]_vars PROVE IndInv'
<1> USE JobSets, Parameters
    DEF IndInv, Jobs, Workers, Statuses, PcValues, HoldingSlot, Active, Terminal
<1>1. ASSUME NEW j \in ParseJobs, NEW d \in Dispatchers, AdmitParseBoundJob(j, d) PROVE IndInv'
  <2>1. Holders' = Holders
    BY <1>1, HoldersSame DEF AdmitParseBoundJob, TypeOK
  <2>2. TypeOK' /\ SlotConservation'
    BY <1>1, <2>1, HoldersFinite DEF AdmitParseBoundJob, TypeOK,
       SlotConservation
  <2>3. WorkOK'
    BY <1>1 DEF AdmitParseBoundJob, TypeOK, WorkOK, Busy,
       DispatcherPoints
  <2>4. StartedOK'
    BY <1>1 DEF AdmitParseBoundJob, TypeOK, WorkOK, Busy, StartedOK,
       Started, PastQueue
  <2>5. RunnerOK'
    BY <1>1 DEF AdmitParseBoundJob, TypeOK, WorkOK, Busy, RunnerOK,
       RunnerPoints
  <2> QED
    BY <2>2, <2>3, <2>4, <2>5
<1>2. ASSUME NEW d \in Dispatchers, ReplayAdmission(d) PROVE IndInv'
  <2>1. Holders' = Holders
    BY <1>2, HoldersSame DEF ReplayAdmission, durable, TypeOK
  <2>2. TypeOK' /\ SlotConservation'
    BY <1>2, <2>1, HoldersFinite DEF ReplayAdmission, durable, TypeOK,
       SlotConservation
  <2>3. WorkOK'
    BY <1>2 DEF ReplayAdmission, durable, TypeOK, WorkOK, Busy,
       DispatcherPoints
  <2>4. StartedOK'
    BY <1>2 DEF ReplayAdmission, durable, TypeOK, WorkOK, Busy,
       StartedOK, Started, PastQueue
  <2>5. RunnerOK'
    BY <1>2 DEF ReplayAdmission, durable, TypeOK, WorkOK, Busy, RunnerOK,
       RunnerPoints
  <2> QED
    BY <2>2, <2>3, <2>4, <2>5
<1>3. ASSUME NEW j \in DirectJobs, CreateDirectJob(j) PROVE IndInv'
  <2>1. Holders' = Holders
    BY <1>3, HoldersSame DEF CreateDirectJob, TypeOK, WorkOK, Busy
  <2>2. TypeOK' /\ SlotConservation'
    BY <1>3, <2>1, HoldersFinite DEF CreateDirectJob, TypeOK,
       SlotConservation
  <2>3. WorkOK'
    BY <1>3 DEF CreateDirectJob, TypeOK, WorkOK, Busy, DispatcherPoints
  <2>4. StartedOK'
    BY <1>3 DEF CreateDirectJob, TypeOK, WorkOK, Busy, StartedOK,
       Started, PastQueue
  <2>5. RunnerOK'
    BY <1>3 DEF CreateDirectJob, TypeOK, WorkOK, Busy, RunnerOK,
       RunnerPoints
  <2> QED
    BY <2>2, <2>3, <2>4, <2>5
<1>4. ASSUME NEW j \in Jobs, CancelAnalysisJob(j) PROVE IndInv'
  <2>1. Holders' = Holders
    BY <1>4 DEF CancelAnalysisJob, durable, Holders
  <2>2. TypeOK' /\ SlotConservation'
    BY <1>4, <2>1, HoldersFinite DEF CancelAnalysisJob, durable, TypeOK,
       SlotConservation
  <2>3. WorkOK'
    BY <1>4 DEF CancelAnalysisJob, durable, TypeOK, WorkOK, Busy,
       DispatcherPoints
  <2>4. StartedOK'
    BY <1>4 DEF CancelAnalysisJob, durable, TypeOK, WorkOK, Busy,
       StartedOK, Started, PastQueue
  <2>5. RunnerOK'
    BY <1>4 DEF CancelAnalysisJob, durable, TypeOK, WorkOK, Busy,
       RunnerOK, RunnerPoints
  <2> QED
    BY <2>2, <2>3, <2>4, <2>5
<1>5. ASSUME NEW d \in Dispatchers, NEW j \in ParseJobs, ClaimAnalysisJobOutbox(d, j) PROVE IndInv'
  <2>1. Holders' = Holders
    BY <1>5, HoldersSame DEF ClaimAnalysisJobOutbox, Claimable, TypeOK
  <2>2. TypeOK' /\ SlotConservation'
    BY <1>5, <2>1, HoldersFinite DEF ClaimAnalysisJobOutbox, Claimable,
       TypeOK, SlotConservation
  <2>3. WorkOK'
    BY <1>5 DEF ClaimAnalysisJobOutbox, Claimable, TypeOK, WorkOK, Busy,
       DispatcherPoints
  <2>4. StartedOK'
    BY <1>5 DEF ClaimAnalysisJobOutbox, Claimable, TypeOK, WorkOK, Busy,
       StartedOK, Started, PastQueue
  <2>5. RunnerOK'
    BY <1>5 DEF ClaimAnalysisJobOutbox, Claimable, TypeOK, WorkOK, Busy,
       RunnerOK, RunnerPoints
  <2> QED
    BY <2>2, <2>3, <2>4, <2>5
<1>6. ASSUME NEW d \in Dispatchers, ClaimNothing(d) PROVE IndInv'
  <2>1. Holders' = Holders
    BY <1>6, HoldersSame DEF ClaimNothing, GoIdle, durable, TypeOK
  <2>2. TypeOK' /\ SlotConservation'
    BY <1>6, <2>1, HoldersFinite DEF ClaimNothing, GoIdle, durable,
       TypeOK, SlotConservation
  <2>3. WorkOK'
    BY <1>6 DEF ClaimNothing, GoIdle, durable, TypeOK, WorkOK, Busy,
       DispatcherPoints
  <2>4. StartedOK'
    BY <1>6 DEF ClaimNothing, GoIdle, durable, TypeOK, WorkOK, Busy,
       StartedOK, Started, PastQueue
  <2>5. RunnerOK'
    BY <1>6 DEF ClaimNothing, GoIdle, durable, TypeOK, WorkOK, Busy,
       RunnerOK, RunnerPoints
  <2> QED
    BY <2>2, <2>3, <2>4, <2>5
<1>7. ASSUME NEW d \in Dispatchers, FetchJob(d) PROVE IndInv'
  <2>1. Holders' = Holders
    BY <1>7, HoldersSame DEF FetchJob, GoTo, durable, TypeOK
  <2>2. TypeOK' /\ SlotConservation'
    BY <1>7, <2>1, HoldersFinite DEF FetchJob, GoTo, durable, TypeOK,
       SlotConservation
  <2>3. WorkOK'
    BY <1>7 DEF FetchJob, GoTo, durable, TypeOK, WorkOK, Busy,
       DispatcherPoints
  <2>4. StartedOK'
    BY <1>7 DEF FetchJob, GoTo, durable, TypeOK, WorkOK, Busy, StartedOK,
       Started, PastQueue
  <2>5. RunnerOK'
    BY <1>7 DEF FetchJob, GoTo, durable, TypeOK, WorkOK, Busy, RunnerOK,
       RunnerPoints
  <2> QED
    BY <2>2, <2>3, <2>4, <2>5
<1>8. ASSUME NEW w \in Workers, AcquireSlot(w) PROVE IndInv'
  <2>1. Cardinality(Holders') = Cardinality(Holders) + 1
    BY <1>8, HoldersEnter DEF AcquireSlot, GoTo, durable, TypeOK
  <2>2. TypeOK' /\ SlotConservation'
    BY <1>8, <2>1, HoldersFinite DEF AcquireSlot, GoTo, durable, TypeOK,
       SlotConservation
  <2>3. WorkOK'
    BY <1>8 DEF AcquireSlot, GoTo, durable, TypeOK, WorkOK, Busy,
       DispatcherPoints
  <2>4. StartedOK'
    BY <1>8 DEF AcquireSlot, GoTo, durable, TypeOK, WorkOK, Busy,
       StartedOK, Started, PastQueue
  <2>5. RunnerOK'
    BY <1>8 DEF AcquireSlot, GoTo, durable, TypeOK, WorkOK, Busy,
       RunnerOK, RunnerPoints
  <2> QED
    BY <2>2, <2>3, <2>4, <2>5
<1>9. ASSUME NEW w \in Workers, SlotTimeout(w) PROVE IndInv'
  <2>1. Holders' = Holders
    BY <1>9, HoldersSame DEF SlotTimeout, GoTo, durable, TypeOK
  <2>2. TypeOK' /\ SlotConservation'
    BY <1>9, <2>1, HoldersFinite DEF SlotTimeout, GoTo, durable, TypeOK,
       SlotConservation
  <2>3. WorkOK'
    BY <1>9 DEF SlotTimeout, GoTo, durable, TypeOK, WorkOK, Busy,
       DispatcherPoints
  <2>4. StartedOK'
    BY <1>9 DEF SlotTimeout, GoTo, durable, TypeOK, WorkOK, Busy,
       StartedOK, Started, PastQueue
  <2>5. RunnerOK'
    BY <1>9 DEF SlotTimeout, GoTo, durable, TypeOK, WorkOK, Busy,
       RunnerOK, RunnerPoints
  <2> QED
    BY <2>2, <2>3, <2>4, <2>5
<1>10. ASSUME NEW w \in Workers, SettleTimeout(w) PROVE IndInv'
  <2>1. Holders' = Holders
    BY <1>10, HoldersSame DEF SettleTimeout, GoTo, CompleteJob, FailJob,
       TypeOK
  <2>2. TypeOK' /\ SlotConservation'
    BY <1>10, <2>1, HoldersFinite DEF SettleTimeout, GoTo, CompleteJob,
       FailJob, TypeOK, SlotConservation
  <2>3. WorkOK'
    BY <1>10 DEF SettleTimeout, GoTo, CompleteJob, FailJob, TypeOK,
       WorkOK, Busy, DispatcherPoints
  <2>4. StartedOK'
    BY <1>10 DEF SettleTimeout, GoTo, CompleteJob, FailJob, TypeOK,
       WorkOK, Busy, StartedOK, Started, PastQueue
  <2>5. RunnerOK'
    BY <1>10 DEF SettleTimeout, GoTo, CompleteJob, FailJob, TypeOK,
       WorkOK, Busy, RunnerOK, RunnerPoints
  <2> QED
    BY <2>2, <2>3, <2>4, <2>5
<1>11. ASSUME NEW w \in Workers, StartRunning(w) PROVE IndInv'
  <2>1. Holders' = Holders
    BY <1>11, HoldersSame DEF StartRunning, GoTo, WriteRunning, TypeOK
  <2>2. TypeOK' /\ SlotConservation'
    <3>0. work[w] \in Jobs /\ starts[work[w]] + 1 \in Nat
      BY <1>11 DEF StartRunning, TypeOK, WorkOK, Busy
    <3>1. starts' \in [Jobs -> Nat]
      BY <1>11, <3>0 DEF StartRunning, TypeOK
    <3>2. status' \in [Jobs -> Statuses] /\ pc' \in [Workers -> PcValues]
      BY <1>11 DEF StartRunning, GoTo, WriteRunning, TypeOK
    <3> QED
      BY <1>11, <2>1, <3>1, <3>2
         DEF StartRunning, GoTo, WriteRunning, TypeOK, SlotConservation
  <2>3. WorkOK'
    BY <1>11 DEF StartRunning, GoTo, WriteRunning, TypeOK, WorkOK, Busy,
       DispatcherPoints
  <2>4. StartedOK'
    BY <1>11 DEF StartRunning, GoTo, WriteRunning, TypeOK, WorkOK, Busy,
       StartedOK, Started, PastQueue
  <2>5. RunnerOK'
    BY <1>11 DEF StartRunning, GoTo, WriteRunning, TypeOK, WorkOK, Busy,
       RunnerOK, RunnerPoints
  <2> QED
    BY <2>2, <2>3, <2>4, <2>5
<1>12. ASSUME NEW w \in Workers, ReportStage(w) PROVE IndInv'
  <2>1. Holders' = Holders
    BY <1>12 DEF ReportStage, WriteRunning, local, Holders
  <2>2. TypeOK' /\ SlotConservation'
    BY <1>12, <2>1, HoldersFinite DEF ReportStage, WriteRunning, local,
       TypeOK, SlotConservation
  <2>3. WorkOK'
    BY <1>12 DEF ReportStage, WriteRunning, local, TypeOK, WorkOK, Busy,
       DispatcherPoints
  <2>4. StartedOK'
    BY <1>12 DEF ReportStage, WriteRunning, local, TypeOK, WorkOK, Busy,
       StartedOK, Started, PastQueue
  <2>5. RunnerOK'
    BY <1>12 DEF ReportStage, WriteRunning, local, TypeOK, WorkOK, Busy,
       RunnerOK, RunnerPoints
  <2> QED
    BY <2>2, <2>3, <2>4, <2>5
<1>13. ASSUME NEW w \in Workers, RunnerReturns(w) PROVE IndInv'
  <2>1. Holders' = Holders
    BY <1>13, HoldersSame DEF RunnerReturns, GoTo, durable, TypeOK
  <2>2. TypeOK' /\ SlotConservation'
    BY <1>13, <2>1, HoldersFinite DEF RunnerReturns, GoTo, durable,
       TypeOK, SlotConservation
  <2>3. WorkOK'
    BY <1>13 DEF RunnerReturns, GoTo, durable, TypeOK, WorkOK, Busy,
       DispatcherPoints
  <2>4. StartedOK'
    BY <1>13 DEF RunnerReturns, GoTo, durable, TypeOK, WorkOK, Busy,
       StartedOK, Started, PastQueue
  <2>5. RunnerOK'
    BY <1>13 DEF RunnerReturns, GoTo, durable, TypeOK, WorkOK, Busy,
       RunnerOK, RunnerPoints
  <2> QED
    BY <2>2, <2>3, <2>4, <2>5
<1>14. ASSUME NEW w \in Workers, RunnerRaises(w) PROVE IndInv'
  <2>1. Holders' = Holders
    BY <1>14, HoldersSame DEF RunnerRaises, GoTo, durable, TypeOK
  <2>2. TypeOK' /\ SlotConservation'
    BY <1>14, <2>1, HoldersFinite DEF RunnerRaises, GoTo, durable,
       TypeOK, SlotConservation
  <2>3. WorkOK'
    BY <1>14 DEF RunnerRaises, GoTo, durable, TypeOK, WorkOK, Busy,
       DispatcherPoints
  <2>4. StartedOK'
    BY <1>14 DEF RunnerRaises, GoTo, durable, TypeOK, WorkOK, Busy,
       StartedOK, Started, PastQueue
  <2>5. RunnerOK'
    BY <1>14 DEF RunnerRaises, GoTo, durable, TypeOK, WorkOK, Busy,
       RunnerOK, RunnerPoints
  <2> QED
    BY <2>2, <2>3, <2>4, <2>5
<1>15. ASSUME NEW w \in Workers, RunnerCancelled(w) PROVE IndInv'
  <2>1. Holders' = Holders
    BY <1>15, HoldersSame DEF RunnerCancelled, GoTo, durable, TypeOK
  <2>2. TypeOK' /\ SlotConservation'
    BY <1>15, <2>1, HoldersFinite DEF RunnerCancelled, GoTo, durable,
       TypeOK, SlotConservation
  <2>3. WorkOK'
    BY <1>15 DEF RunnerCancelled, GoTo, durable, TypeOK, WorkOK, Busy,
       DispatcherPoints
  <2>4. StartedOK'
    BY <1>15 DEF RunnerCancelled, GoTo, durable, TypeOK, WorkOK, Busy,
       StartedOK, Started, PastQueue
  <2>5. RunnerOK'
    BY <1>15 DEF RunnerCancelled, GoTo, durable, TypeOK, WorkOK, Busy,
       RunnerOK, RunnerPoints
  <2> QED
    BY <2>2, <2>3, <2>4, <2>5
<1>16. ASSUME NEW w \in Workers, FinishRun(w) PROVE IndInv'
  <2>1. Cardinality(Holders') = Cardinality(Holders) - 1 /\ Cardinality(Holders) > 0
    BY <1>16, HoldersLeave DEF FinishRun, GoTo, CompleteJob, FailJob,
       TypeOK
  <2>2. TypeOK' /\ SlotConservation'
    BY <1>16, <2>1, HoldersFinite DEF FinishRun, GoTo, CompleteJob,
       FailJob, TypeOK, SlotConservation
  <2>3. WorkOK'
    BY <1>16 DEF FinishRun, GoTo, CompleteJob, FailJob, TypeOK, WorkOK,
       Busy, DispatcherPoints
  <2>4. StartedOK'
    BY <1>16 DEF FinishRun, GoTo, CompleteJob, FailJob, TypeOK, WorkOK,
       Busy, StartedOK, Started, PastQueue
  <2>5. RunnerOK'
    BY <1>16 DEF FinishRun, GoTo, CompleteJob, FailJob, TypeOK, WorkOK,
       Busy, RunnerOK, RunnerPoints
  <2> QED
    BY <2>2, <2>3, <2>4, <2>5
<1>17. ASSUME NEW w \in Workers, DirectTaskEnds(w) PROVE IndInv'
  <2>1. Holders' = Holders
    BY <1>17, HoldersSame DEF DirectTaskEnds, GoIdle, durable, TypeOK
  <2>2. TypeOK' /\ SlotConservation'
    BY <1>17, <2>1, HoldersFinite DEF DirectTaskEnds, GoIdle, durable,
       TypeOK, SlotConservation
  <2>3. WorkOK'
    BY <1>17 DEF DirectTaskEnds, GoIdle, durable, TypeOK, WorkOK, Busy,
       DispatcherPoints
  <2>4. StartedOK'
    BY <1>17 DEF DirectTaskEnds, GoIdle, durable, TypeOK, WorkOK, Busy,
       StartedOK, Started, PastQueue
  <2>5. RunnerOK'
    BY <1>17 DEF DirectTaskEnds, GoIdle, durable, TypeOK, WorkOK, Busy,
       RunnerOK, RunnerPoints
  <2> QED
    BY <2>2, <2>3, <2>4, <2>5
<1>18. ASSUME NEW d \in Dispatchers, RereadJob(d) PROVE IndInv'
  <2>1. Holders' = Holders
    BY <1>18, HoldersSame DEF RereadJob, GoTo, AfterRun, AfterEscape,
       durable, TypeOK
  <2>2. TypeOK' /\ SlotConservation'
    BY <1>18, <2>1, HoldersFinite DEF RereadJob, GoTo, AfterRun,
       AfterEscape, durable, TypeOK, SlotConservation
  <2>3. WorkOK'
    BY <1>18 DEF RereadJob, GoTo, AfterRun, AfterEscape, durable, TypeOK,
       WorkOK, Busy, DispatcherPoints
  <2>4. StartedOK'
    BY <1>18 DEF RereadJob, GoTo, AfterRun, AfterEscape, durable, TypeOK,
       WorkOK, Busy, StartedOK, Started, PastQueue
  <2>5. RunnerOK'
    BY <1>18 DEF RereadJob, GoTo, AfterRun, AfterEscape, durable, TypeOK,
       WorkOK, Busy, RunnerOK, RunnerPoints
  <2> QED
    BY <2>2, <2>3, <2>4, <2>5
<1>19. ASSUME NEW d \in Dispatchers, SettleNonTerminal(d) PROVE IndInv'
  <2>1. Holders' = Holders
    BY <1>19, HoldersSame DEF SettleNonTerminal, GoTo, FailJob, TypeOK
  <2>2. TypeOK' /\ SlotConservation'
    BY <1>19, <2>1, HoldersFinite DEF SettleNonTerminal, GoTo, FailJob,
       TypeOK, SlotConservation
  <2>3. WorkOK'
    BY <1>19 DEF SettleNonTerminal, GoTo, FailJob, TypeOK, WorkOK, Busy,
       DispatcherPoints
  <2>4. StartedOK'
    BY <1>19 DEF SettleNonTerminal, GoTo, FailJob, TypeOK, WorkOK, Busy,
       StartedOK, Started, PastQueue
  <2>5. RunnerOK'
    BY <1>19 DEF SettleNonTerminal, GoTo, FailJob, TypeOK, WorkOK, Busy,
       RunnerOK, RunnerPoints
  <2> QED
    BY <2>2, <2>3, <2>4, <2>5
<1>20. ASSUME NEW d \in Dispatchers, MarkDelivered(d) PROVE IndInv'
  <2>1. Holders' = Holders
    BY <1>20, HoldersSame DEF MarkDelivered, GoIdle, TypeOK
  <2>2. TypeOK' /\ SlotConservation'
    <3>1. outbox' \in [ParseJobs -> {"none", "pending", "claimed", "delivered"}]
      BY <1>20 DEF MarkDelivered, TypeOK
    <3>2. /\ pc' \in [Workers -> PcValues]
          /\ work' \in [Workers -> Jobs \cup {NoJob}]
      BY <1>20 DEF MarkDelivered, GoIdle, TypeOK
    <3>3. handled' \in [Dispatchers -> 0 .. MaxMessages - 1]
      BY <1>20 DEF MarkDelivered, GoIdle, TypeOK
    <3> QED
      BY <1>20, <2>1, <3>1, <3>2, <3>3 DEF MarkDelivered, TypeOK, SlotConservation
  <2>3. WorkOK'
    BY <1>20 DEF MarkDelivered, GoIdle, TypeOK, WorkOK, Busy,
       DispatcherPoints
  <2>4. StartedOK'
    BY <1>20 DEF MarkDelivered, GoIdle, TypeOK, WorkOK, Busy, StartedOK,
       Started, PastQueue
  <2>5. RunnerOK'
    BY <1>20 DEF MarkDelivered, GoIdle, TypeOK, WorkOK, Busy, RunnerOK,
       RunnerPoints
  <2> QED
    BY <2>2, <2>3, <2>4, <2>5
<1>21. ASSUME NEW d \in Dispatchers, ReleaseClaim(d) PROVE IndInv'
  <2>1. Holders' = Holders
    BY <1>21, HoldersSame DEF ReleaseClaim, GoIdle, TypeOK
  <2>2. TypeOK' /\ SlotConservation'
    <3>1. /\ outbox' \in [ParseJobs -> {"none", "pending", "claimed", "delivered"}]
          /\ stale' \in [ParseJobs -> BOOLEAN]
      BY <1>21 DEF ReleaseClaim, TypeOK
    <3>2. /\ pc' \in [Workers -> PcValues]
          /\ work' \in [Workers -> Jobs \cup {NoJob}]
          /\ handled' \in [Dispatchers -> 0 .. MaxMessages - 1]
      BY <1>21 DEF ReleaseClaim, GoIdle, TypeOK
    <3> QED
      BY <1>21, <2>1, <3>1, <3>2 DEF ReleaseClaim, TypeOK, SlotConservation
  <2>3. WorkOK'
    BY <1>21 DEF ReleaseClaim, GoIdle, TypeOK, WorkOK, Busy,
       DispatcherPoints
  <2>4. StartedOK'
    BY <1>21 DEF ReleaseClaim, GoIdle, TypeOK, WorkOK, Busy, StartedOK,
       Started, PastQueue
  <2>5. RunnerOK'
    BY <1>21 DEF ReleaseClaim, GoIdle, TypeOK, WorkOK, Busy, RunnerOK,
       RunnerPoints
  <2> QED
    BY <2>2, <2>3, <2>4, <2>5
<1>22. ASSUME NEW j \in ParseJobs, LeaseExpires(j) PROVE IndInv'
  <2>1. Holders' = Holders
    BY <1>22 DEF LeaseExpires, local, Holders
  <2>2. TypeOK' /\ SlotConservation'
    BY <1>22, <2>1, HoldersFinite DEF LeaseExpires, local, TypeOK,
       SlotConservation
  <2>3. WorkOK'
    BY <1>22 DEF LeaseExpires, local, TypeOK, WorkOK, Busy,
       DispatcherPoints
  <2>4. StartedOK'
    BY <1>22 DEF LeaseExpires, local, TypeOK, WorkOK, Busy, StartedOK,
       Started, PastQueue
  <2>5. RunnerOK'
    BY <1>22 DEF LeaseExpires, local, TypeOK, WorkOK, Busy, RunnerOK,
       RunnerPoints
  <2> QED
    BY <2>2, <2>3, <2>4, <2>5
<1>23. ASSUME NEW j \in Jobs, ReapInterruptedJob(j) PROVE IndInv'
  <2>1. Holders' = Holders
    BY <1>23 DEF ReapInterruptedJob, Reapable, Recoverable, FailJob,
       local, Holders
  <2>2. TypeOK' /\ SlotConservation'
    BY <1>23, <2>1, HoldersFinite DEF ReapInterruptedJob, Reapable,
       Recoverable, FailJob, local, TypeOK, SlotConservation
  <2>3. WorkOK'
    BY <1>23 DEF ReapInterruptedJob, Reapable, Recoverable, FailJob,
       local, TypeOK, WorkOK, Busy, DispatcherPoints
  <2>4. StartedOK'
    BY <1>23 DEF ReapInterruptedJob, Reapable, Recoverable, FailJob,
       local, TypeOK, WorkOK, Busy, StartedOK, Started, PastQueue
  <2>5. RunnerOK'
    BY <1>23 DEF ReapInterruptedJob, Reapable, Recoverable, FailJob,
       local, TypeOK, WorkOK, Busy, RunnerOK, RunnerPoints
  <2> QED
    BY <2>2, <2>3, <2>4, <2>5
<1>24. ASSUME NEW d \in Dispatchers, StartServing(d) PROVE IndInv'
  <2>1. Holders' = Holders
    BY <1>24, HoldersSame DEF StartServing, Reapable, durable, TypeOK,
       WorkOK, Busy
  <2>2. TypeOK' /\ SlotConservation'
    BY <1>24, <2>1, HoldersFinite DEF StartServing, Reapable, durable,
       TypeOK, SlotConservation
  <2>3. WorkOK'
    BY <1>24 DEF StartServing, Reapable, durable, TypeOK, WorkOK, Busy,
       DispatcherPoints
  <2>4. StartedOK'
    BY <1>24 DEF StartServing, Reapable, durable, TypeOK, WorkOK, Busy,
       StartedOK, Started, PastQueue
  <2>5. RunnerOK'
    BY <1>24 DEF StartServing, Reapable, durable, TypeOK, WorkOK, Busy,
       RunnerOK, RunnerPoints
  <2> QED
    BY <2>2, <2>3, <2>4, <2>5
<1>25. ASSUME NEW w \in Workers, StoreFault(w) PROVE IndInv'
  <2>1. CASE GoIdle(w) /\ UNCHANGED free /\ pc[w] \notin HoldingSlot
    <3>1. Holders' = Holders
      BY <2>1, HoldersSame DEF GoIdle, TypeOK
    <3>2. TypeOK' /\ SlotConservation'
      BY <1>25, <2>1, <3>1 DEF StoreFault, GoIdle, durable, TypeOK, SlotConservation
    <3>3. WorkOK'
      BY <1>25, <2>1 DEF StoreFault, GoIdle, durable, TypeOK, WorkOK, Busy, DispatcherPoints
    <3>4. StartedOK'
      BY <1>25, <2>1 DEF StoreFault, GoIdle, durable, TypeOK, StartedOK, Started, PastQueue
    <3> QED
      BY <1>25, <3>2, <3>3, <3>4 DEF StoreFault, TypeOK, RunnerOK
  <2>2. CASE pc[w] \in EscapesByFault /\ GoTo(w, "escaped") /\ free' = SlotsAfterEscape(w)
    <3>1. /\ pc[w] \in HoldingSlot =>
               Cardinality(Holders') = Cardinality(Holders) - 1 /\ Cardinality(Holders) > 0
          /\ pc[w] \notin HoldingSlot => Holders' = Holders
      BY <2>2, HoldersLeave, HoldersSame DEF GoTo, TypeOK
    <3>2. TypeOK' /\ SlotConservation'
      BY <1>25, <2>2, <3>1, HoldersFinite
         DEF StoreFault, GoTo, SlotsAfterEscape, durable, TypeOK, SlotConservation
    <3>3. WorkOK'
      BY <1>25, <2>2 DEF StoreFault, EscapesByFault, GoTo, durable, TypeOK, WorkOK, Busy,
                        DispatcherPoints
    <3>4. StartedOK'
      BY <1>25, <2>2 DEF StoreFault, GoTo, durable, TypeOK, StartedOK, Started, PastQueue
    <3> QED
      BY <1>25, <3>2, <3>3, <3>4 DEF StoreFault, TypeOK, RunnerOK
  <2>3. CASE /\ GoTo(w, "release") /\ UNCHANGED free /\ w \in Dispatchers
             /\ pc[w] \in {"settle", "ackLast", "escaped"}
    <3>1. Holders' = Holders
      BY <2>3, HoldersSame DEF GoTo, TypeOK
    <3>2. TypeOK' /\ SlotConservation'
      BY <1>25, <2>3, <3>1 DEF StoreFault, GoTo, durable, TypeOK, SlotConservation
    <3>3. WorkOK'
      BY <1>25, <2>3 DEF StoreFault, GoTo, durable, TypeOK, WorkOK, Busy, DispatcherPoints
    <3>4. StartedOK'
      BY <1>25, <2>3 DEF StoreFault, GoTo, durable, TypeOK, StartedOK, Started, PastQueue
    <3> QED
      BY <1>25, <3>2, <3>3, <3>4 DEF StoreFault, TypeOK, RunnerOK
  <2> QED
    BY <1>25, <2>1, <2>2, <2>3
       DEF StoreFault, EndedByFault, ReleasesByFault, TypeOK, WorkOK, DispatcherPoints
<1>26. CASE Crash
  <2>1. Holders' = {}
    BY <1>26 DEF Crash, Holders
  <2>2. Cardinality(Holders') = 0
    BY <2>1, FS_EmptySet
  <2>3. TypeOK' /\ SlotConservation'
    BY <1>26, <2>2 DEF Crash, durable, TypeOK, SlotConservation
  <2>4. WorkOK' /\ StartedOK' /\ RunnerOK'
    BY <1>26 DEF Crash, durable, TypeOK, WorkOK, Busy, DispatcherPoints, StartedOK, Started,
       PastQueue, RunnerOK
  <2> QED
    BY <2>3, <2>4
<1>27. CASE UNCHANGED vars
  BY <1>27 DEF vars, TypeOK, SlotConservation, Holders, WorkOK, Busy, StartedOK, RunnerOK
<1> QED
  BY <1>1, <1>2, <1>3, <1>4, <1>5, <1>6, <1>7, <1>8, <1>9, <1>10, <1>11, <1>12, <1>13, <1>14, <1>15, <1>16, <1>17, <1>18, <1>19, <1>20, <1>21, <1>22, <1>23, <1>24, <1>25, <1>26, <1>27
     DEF Next, DispatchStep, RunStep

(* The initial states satisfy IndInv.                                      *)
LEMMA IndInit == ASSUME Init PROVE IndInv
<1>1. Holders = {}
  BY DEF Init, Holders, HoldingSlot
<1>2. Cardinality(Holders) = 0
  BY <1>1, FS_EmptySet
<1>3. TypeOK /\ SlotConservation
  BY <1>2, Parameters DEF Init, TypeOK, SlotConservation, Statuses, PcValues
<1>4. WorkOK /\ StartedOK /\ RunnerOK
  BY DEF Init, WorkOK, Busy, DispatcherPoints, StartedOK, PastQueue, RunnerOK,
     Jobs, Workers
<1> QED
  BY <1>3, <1>4 DEF IndInv

(* IndInv holds in every reachable state of the job runtime.               *)
THEOREM IndInvariant == Spec => []IndInv
<1>1. Init => IndInv
  BY IndInit
<1>2. IndInv /\ [Next]_vars => IndInv'
  BY IndStep
<1> QED
  BY <1>1, <1>2, PTL DEF Spec

(* The rows, the outbox and the process state stay within their types.     *)
THEOREM TypeCorrect == Spec => []TypeOK
<1>1. IndInv => TypeOK
  BY DEF IndInv
<1> QED
  BY <1>1, IndInvariant, PTL

(* The capacity gate's permits are conserved along every path, raised      *)
(* store calls and crashes included (run_job_sync, slot()).                *)
THEOREM SlotsConserved == Spec => []SlotConservation
<1>1. IndInv => SlotConservation
  BY DEF IndInv
<1> QED
  BY <1>1, IndInvariant, PTL

(* A queued parse-bound job never loses its claimable outbox record,       *)
(* whatever the capacity wait.                                             *)
THEOREM QueuedStaysRecoverable == Spec => []QueuedIsRecoverable
<1>1. IndInv => QueuedIsRecoverable
  BY DEF IndInv, TypeOK, StartedOK, Started, QueuedIsRecoverable
<1> QED
  BY <1>1, IndInvariant, PTL

(* Without a raised store call, a serving process has a task behind every  *)
(* running row: the restart sweep leaves none.                             *)
THEOREM NothingStranded == Spec => []NoStrandedRunning
<1>1. IndInv => NoStrandedRunning
  BY DEF IndInv, RunnerOK, RunnerPoints, NoStrandedRunning, Holder, Busy
<1> QED
  BY <1>1, IndInvariant, PTL

-----------------------------------------------------------------------------
(* What holds when the capacity wait ends before the claim's lease.        *)

(* Every step keeps ExclusiveInv.                                          *)
LEMMA ExclusiveStep ==
  ASSUME ~WaitOutlastsLease, IndInv, ExclusiveInv, [Next]_vars
  PROVE  ExclusiveInv'
<1> USE JobSets
    DEF IndInv, ExclusiveInv, TypeOK, Jobs, Workers, Statuses, PcValues,
        HoldingSlot, Active, Terminal, RunnerPoints, Busy
<1>1. ASSUME NEW j \in ParseJobs, NEW d \in Dispatchers, AdmitParseBoundJob(j, d) PROVE ExclusiveInv'
  <2>1. OneHandler'
    BY <1>1 DEF AdmitParseBoundJob, WorkOK, OneHandler, ClaimLive
  <2>2. ClaimLive'
    BY <1>1 DEF AdmitParseBoundJob, WorkOK, OneHandler, ClaimLive,
       PointStatus
  <2>3. PointStatus'
    BY <1>1 DEF AdmitParseBoundJob, WorkOK, OneHandler, ClaimLive,
       PointStatus
  <2>4. StartsOK'
    BY <1>1 DEF AdmitParseBoundJob, WorkOK, PointStatus, StartsOK
  <2>5. DeliveredIsTerminal' /\ ResultMeansFinished'
    BY <1>1 DEF AdmitParseBoundJob, WorkOK, PointStatus,
       DeliveredIsTerminal, ResultMeansFinished
  <2> QED
    BY <2>1, <2>2, <2>3, <2>4, <2>5
<1>2. ASSUME NEW d \in Dispatchers, ReplayAdmission(d) PROVE ExclusiveInv'
  <2>1. OneHandler'
    BY <1>2 DEF ReplayAdmission, durable, WorkOK, OneHandler, ClaimLive
  <2>2. ClaimLive'
    BY <1>2 DEF ReplayAdmission, durable, WorkOK, OneHandler, ClaimLive,
       PointStatus
  <2>3. PointStatus'
    BY <1>2 DEF ReplayAdmission, durable, WorkOK, OneHandler, ClaimLive,
       PointStatus
  <2>4. StartsOK'
    BY <1>2 DEF ReplayAdmission, durable, WorkOK, PointStatus, StartsOK
  <2>5. DeliveredIsTerminal' /\ ResultMeansFinished'
    BY <1>2 DEF ReplayAdmission, durable, WorkOK, PointStatus,
       DeliveredIsTerminal, ResultMeansFinished
  <2> QED
    BY <2>1, <2>2, <2>3, <2>4, <2>5
<1>3. ASSUME NEW j \in DirectJobs, CreateDirectJob(j) PROVE ExclusiveInv'
  <2>1. OneHandler'
    BY <1>3 DEF CreateDirectJob, WorkOK, OneHandler, ClaimLive
  <2>2. ClaimLive'
    BY <1>3 DEF CreateDirectJob, WorkOK, OneHandler, ClaimLive,
       PointStatus
  <2>3. PointStatus'
    BY <1>3 DEF CreateDirectJob, WorkOK, OneHandler, ClaimLive,
       PointStatus
  <2>4. StartsOK'
    BY <1>3 DEF CreateDirectJob, WorkOK, PointStatus, StartsOK
  <2>5. DeliveredIsTerminal' /\ ResultMeansFinished'
    BY <1>3 DEF CreateDirectJob, WorkOK, PointStatus,
       DeliveredIsTerminal, ResultMeansFinished
  <2> QED
    BY <2>1, <2>2, <2>3, <2>4, <2>5
<1>4. ASSUME NEW j \in Jobs, CancelAnalysisJob(j) PROVE ExclusiveInv'
  <2>1. OneHandler'
    BY <1>4 DEF CancelAnalysisJob, durable, WorkOK, OneHandler, ClaimLive
  <2>2. ClaimLive'
    BY <1>4 DEF CancelAnalysisJob, durable, WorkOK, OneHandler,
       ClaimLive, PointStatus
  <2>3. PointStatus'
    BY <1>4 DEF CancelAnalysisJob, durable, WorkOK, OneHandler,
       ClaimLive, PointStatus
  <2>4. StartsOK'
    BY <1>4 DEF CancelAnalysisJob, durable, WorkOK, PointStatus, StartsOK
  <2>5. DeliveredIsTerminal' /\ ResultMeansFinished'
    BY <1>4 DEF CancelAnalysisJob, durable, WorkOK, PointStatus,
       DeliveredIsTerminal, ResultMeansFinished
  <2> QED
    BY <2>1, <2>2, <2>3, <2>4, <2>5
<1>5. ASSUME NEW d \in Dispatchers, NEW j \in ParseJobs, ClaimAnalysisJobOutbox(d, j) PROVE ExclusiveInv'
  <2>1. OneHandler'
    BY <1>5 DEF ClaimAnalysisJobOutbox, Claimable, WorkOK, OneHandler,
       ClaimLive
  <2>2. ClaimLive'
    BY <1>5 DEF ClaimAnalysisJobOutbox, Claimable, WorkOK, OneHandler,
       ClaimLive, PointStatus
  <2>3. PointStatus'
    BY <1>5 DEF ClaimAnalysisJobOutbox, Claimable, WorkOK, OneHandler,
       ClaimLive, PointStatus
  <2>4. StartsOK'
    BY <1>5 DEF ClaimAnalysisJobOutbox, Claimable, WorkOK, PointStatus,
       StartsOK
  <2>5. DeliveredIsTerminal' /\ ResultMeansFinished'
    BY <1>5 DEF ClaimAnalysisJobOutbox, Claimable, WorkOK, PointStatus,
       DeliveredIsTerminal, ResultMeansFinished
  <2> QED
    BY <2>1, <2>2, <2>3, <2>4, <2>5
<1>6. ASSUME NEW d \in Dispatchers, ClaimNothing(d) PROVE ExclusiveInv'
  <2>1. OneHandler'
    BY <1>6 DEF ClaimNothing, GoIdle, durable, WorkOK, OneHandler,
       ClaimLive
  <2>2. ClaimLive'
    BY <1>6 DEF ClaimNothing, GoIdle, durable, WorkOK, OneHandler,
       ClaimLive, PointStatus
  <2>3. PointStatus'
    BY <1>6 DEF ClaimNothing, GoIdle, durable, WorkOK, OneHandler,
       ClaimLive, PointStatus
  <2>4. StartsOK'
    BY <1>6 DEF ClaimNothing, GoIdle, durable, WorkOK, PointStatus,
       StartsOK
  <2>5. DeliveredIsTerminal' /\ ResultMeansFinished'
    BY <1>6 DEF ClaimNothing, GoIdle, durable, WorkOK, PointStatus,
       DeliveredIsTerminal, ResultMeansFinished
  <2> QED
    BY <2>1, <2>2, <2>3, <2>4, <2>5
<1>7. ASSUME NEW d \in Dispatchers, FetchJob(d) PROVE ExclusiveInv'
  <2>1. OneHandler'
    BY <1>7 DEF FetchJob, GoTo, durable, WorkOK, OneHandler, ClaimLive
  <2>2. ClaimLive'
    BY <1>7 DEF FetchJob, GoTo, durable, WorkOK, OneHandler, ClaimLive,
       PointStatus
  <2>3. PointStatus'
    BY <1>7 DEF FetchJob, GoTo, durable, WorkOK, OneHandler, ClaimLive,
       PointStatus
  <2>4. StartsOK'
    BY <1>7 DEF FetchJob, GoTo, durable, WorkOK, PointStatus, StartsOK
  <2>5. DeliveredIsTerminal' /\ ResultMeansFinished'
    BY <1>7 DEF FetchJob, GoTo, durable, WorkOK, PointStatus,
       DeliveredIsTerminal, ResultMeansFinished
  <2> QED
    BY <2>1, <2>2, <2>3, <2>4, <2>5
<1>8. ASSUME NEW w \in Workers, AcquireSlot(w) PROVE ExclusiveInv'
  <2>1. OneHandler'
    BY <1>8 DEF AcquireSlot, GoTo, durable, WorkOK, OneHandler, ClaimLive
  <2>2. ClaimLive'
    BY <1>8 DEF AcquireSlot, GoTo, durable, WorkOK, OneHandler,
       ClaimLive, PointStatus
  <2>3. PointStatus'
    BY <1>8 DEF AcquireSlot, GoTo, durable, WorkOK, OneHandler,
       ClaimLive, PointStatus
  <2>4. StartsOK'
    BY <1>8 DEF AcquireSlot, GoTo, durable, WorkOK, PointStatus, StartsOK
  <2>5. DeliveredIsTerminal' /\ ResultMeansFinished'
    BY <1>8 DEF AcquireSlot, GoTo, durable, WorkOK, PointStatus,
       DeliveredIsTerminal, ResultMeansFinished
  <2> QED
    BY <2>1, <2>2, <2>3, <2>4, <2>5
<1>9. ASSUME NEW w \in Workers, SlotTimeout(w) PROVE ExclusiveInv'
  <2>1. OneHandler'
    BY <1>9 DEF SlotTimeout, GoTo, durable, WorkOK, OneHandler, ClaimLive
  <2>2. ClaimLive'
    BY <1>9 DEF SlotTimeout, GoTo, durable, WorkOK, OneHandler,
       ClaimLive, PointStatus
  <2>3. PointStatus'
    BY <1>9 DEF SlotTimeout, GoTo, durable, WorkOK, OneHandler,
       ClaimLive, PointStatus
  <2>4. StartsOK'
    BY <1>9 DEF SlotTimeout, GoTo, durable, WorkOK, PointStatus, StartsOK
  <2>5. DeliveredIsTerminal' /\ ResultMeansFinished'
    BY <1>9 DEF SlotTimeout, GoTo, durable, WorkOK, PointStatus,
       DeliveredIsTerminal, ResultMeansFinished
  <2> QED
    BY <2>1, <2>2, <2>3, <2>4, <2>5
<1>10. ASSUME NEW w \in Workers, SettleTimeout(w) PROVE ExclusiveInv'
  <2>1. OneHandler'
    BY <1>10 DEF SettleTimeout, GoTo, CompleteJob, FailJob, WorkOK,
       OneHandler, ClaimLive
  <2>2. ClaimLive'
    BY <1>10 DEF SettleTimeout, GoTo, CompleteJob, FailJob, WorkOK,
       OneHandler, ClaimLive, PointStatus
  <2>3. PointStatus'
    BY <1>10 DEF SettleTimeout, GoTo, CompleteJob, FailJob, WorkOK,
       OneHandler, ClaimLive, PointStatus
  <2>4. StartsOK'
    BY <1>10 DEF SettleTimeout, GoTo, CompleteJob, FailJob, WorkOK,
       PointStatus, StartsOK
  <2>5. DeliveredIsTerminal' /\ ResultMeansFinished'
    BY <1>10 DEF SettleTimeout, GoTo, CompleteJob, FailJob, WorkOK,
       PointStatus, DeliveredIsTerminal, ResultMeansFinished
  <2> QED
    BY <2>1, <2>2, <2>3, <2>4, <2>5
<1>11. ASSUME NEW w \in Workers, StartRunning(w) PROVE ExclusiveInv'
  <2>1. OneHandler'
    BY <1>11 DEF StartRunning, GoTo, WriteRunning, WorkOK, OneHandler,
       ClaimLive
  <2>2. ClaimLive'
    BY <1>11 DEF StartRunning, GoTo, WriteRunning, WorkOK, OneHandler,
       ClaimLive, PointStatus
  <2>3. PointStatus'
    BY <1>11 DEF StartRunning, GoTo, WriteRunning, WorkOK, OneHandler,
       ClaimLive, PointStatus
  <2>4. StartsOK'
    BY <1>11 DEF StartRunning, GoTo, WriteRunning, WorkOK, PointStatus,
       StartsOK
  <2>5. DeliveredIsTerminal' /\ ResultMeansFinished'
    BY <1>11 DEF StartRunning, GoTo, WriteRunning, WorkOK, PointStatus,
       DeliveredIsTerminal, ResultMeansFinished
  <2> QED
    BY <2>1, <2>2, <2>3, <2>4, <2>5
<1>12. ASSUME NEW w \in Workers, ReportStage(w) PROVE ExclusiveInv'
  <2>1. OneHandler'
    BY <1>12 DEF ReportStage, WriteRunning, local, WorkOK, OneHandler,
       ClaimLive
  <2>2. ClaimLive'
    BY <1>12 DEF ReportStage, WriteRunning, local, WorkOK, OneHandler,
       ClaimLive, PointStatus
  <2>3. PointStatus'
    BY <1>12 DEF ReportStage, WriteRunning, local, WorkOK, OneHandler,
       ClaimLive, PointStatus
  <2>4. StartsOK'
    BY <1>12 DEF ReportStage, WriteRunning, local, WorkOK, PointStatus,
       StartsOK
  <2>5. DeliveredIsTerminal' /\ ResultMeansFinished'
    BY <1>12 DEF ReportStage, WriteRunning, local, WorkOK, PointStatus,
       DeliveredIsTerminal, ResultMeansFinished
  <2> QED
    BY <2>1, <2>2, <2>3, <2>4, <2>5
<1>13. ASSUME NEW w \in Workers, RunnerReturns(w) PROVE ExclusiveInv'
  <2>1. OneHandler'
    BY <1>13 DEF RunnerReturns, GoTo, durable, WorkOK, OneHandler,
       ClaimLive
  <2>2. ClaimLive'
    BY <1>13 DEF RunnerReturns, GoTo, durable, WorkOK, OneHandler,
       ClaimLive, PointStatus
  <2>3. PointStatus'
    BY <1>13 DEF RunnerReturns, GoTo, durable, WorkOK, OneHandler,
       ClaimLive, PointStatus
  <2>4. StartsOK'
    BY <1>13 DEF RunnerReturns, GoTo, durable, WorkOK, PointStatus,
       StartsOK
  <2>5. DeliveredIsTerminal' /\ ResultMeansFinished'
    BY <1>13 DEF RunnerReturns, GoTo, durable, WorkOK, PointStatus,
       DeliveredIsTerminal, ResultMeansFinished
  <2> QED
    BY <2>1, <2>2, <2>3, <2>4, <2>5
<1>14. ASSUME NEW w \in Workers, RunnerRaises(w) PROVE ExclusiveInv'
  <2>1. OneHandler'
    BY <1>14 DEF RunnerRaises, GoTo, durable, WorkOK, OneHandler,
       ClaimLive
  <2>2. ClaimLive'
    BY <1>14 DEF RunnerRaises, GoTo, durable, WorkOK, OneHandler,
       ClaimLive, PointStatus
  <2>3. PointStatus'
    BY <1>14 DEF RunnerRaises, GoTo, durable, WorkOK, OneHandler,
       ClaimLive, PointStatus
  <2>4. StartsOK'
    BY <1>14 DEF RunnerRaises, GoTo, durable, WorkOK, PointStatus,
       StartsOK
  <2>5. DeliveredIsTerminal' /\ ResultMeansFinished'
    BY <1>14 DEF RunnerRaises, GoTo, durable, WorkOK, PointStatus,
       DeliveredIsTerminal, ResultMeansFinished
  <2> QED
    BY <2>1, <2>2, <2>3, <2>4, <2>5
<1>15. ASSUME NEW w \in Workers, RunnerCancelled(w) PROVE ExclusiveInv'
  <2>1. OneHandler'
    BY <1>15 DEF RunnerCancelled, GoTo, durable, WorkOK, OneHandler,
       ClaimLive
  <2>2. ClaimLive'
    BY <1>15 DEF RunnerCancelled, GoTo, durable, WorkOK, OneHandler,
       ClaimLive, PointStatus
  <2>3. PointStatus'
    BY <1>15 DEF RunnerCancelled, GoTo, durable, WorkOK, OneHandler,
       ClaimLive, PointStatus
  <2>4. StartsOK'
    BY <1>15 DEF RunnerCancelled, GoTo, durable, WorkOK, PointStatus,
       StartsOK
  <2>5. DeliveredIsTerminal' /\ ResultMeansFinished'
    BY <1>15 DEF RunnerCancelled, GoTo, durable, WorkOK, PointStatus,
       DeliveredIsTerminal, ResultMeansFinished
  <2> QED
    BY <2>1, <2>2, <2>3, <2>4, <2>5
<1>16. ASSUME NEW w \in Workers, FinishRun(w) PROVE ExclusiveInv'
  <2>1. OneHandler'
    BY <1>16 DEF FinishRun, GoTo, CompleteJob, FailJob, WorkOK,
       OneHandler, ClaimLive
  <2>2. ClaimLive'
    BY <1>16 DEF FinishRun, GoTo, CompleteJob, FailJob, WorkOK,
       OneHandler, ClaimLive, PointStatus
  <2>3. PointStatus'
    BY <1>16 DEF FinishRun, GoTo, CompleteJob, FailJob, WorkOK,
       OneHandler, ClaimLive, PointStatus
  <2>4. StartsOK'
    BY <1>16 DEF FinishRun, GoTo, CompleteJob, FailJob, WorkOK,
       PointStatus, StartsOK
  <2>5. DeliveredIsTerminal' /\ ResultMeansFinished'
    BY <1>16 DEF FinishRun, GoTo, CompleteJob, FailJob, WorkOK,
       PointStatus, DeliveredIsTerminal, ResultMeansFinished
  <2> QED
    BY <2>1, <2>2, <2>3, <2>4, <2>5
<1>17. ASSUME NEW w \in Workers, DirectTaskEnds(w) PROVE ExclusiveInv'
  <2>1. OneHandler'
    BY <1>17 DEF DirectTaskEnds, GoIdle, durable, WorkOK, OneHandler,
       ClaimLive
  <2>2. ClaimLive'
    BY <1>17 DEF DirectTaskEnds, GoIdle, durable, WorkOK, OneHandler,
       ClaimLive, PointStatus
  <2>3. PointStatus'
    BY <1>17 DEF DirectTaskEnds, GoIdle, durable, WorkOK, OneHandler,
       ClaimLive, PointStatus
  <2>4. StartsOK'
    BY <1>17 DEF DirectTaskEnds, GoIdle, durable, WorkOK, PointStatus,
       StartsOK
  <2>5. DeliveredIsTerminal' /\ ResultMeansFinished'
    BY <1>17 DEF DirectTaskEnds, GoIdle, durable, WorkOK, PointStatus,
       DeliveredIsTerminal, ResultMeansFinished
  <2> QED
    BY <2>1, <2>2, <2>3, <2>4, <2>5
<1>18. ASSUME NEW d \in Dispatchers, RereadJob(d) PROVE ExclusiveInv'
  <2>1. OneHandler'
    BY <1>18 DEF RereadJob, GoTo, AfterRun, AfterEscape, durable, WorkOK,
       OneHandler, ClaimLive
  <2>2. ClaimLive'
    BY <1>18 DEF RereadJob, GoTo, AfterRun, AfterEscape, durable, WorkOK,
       OneHandler, ClaimLive, PointStatus
  <2>3. PointStatus'
    BY <1>18 DEF RereadJob, GoTo, AfterRun, AfterEscape, durable, WorkOK,
       OneHandler, ClaimLive, PointStatus
  <2>4. StartsOK'
    BY <1>18 DEF RereadJob, GoTo, AfterRun, AfterEscape, durable, WorkOK,
       PointStatus, StartsOK
  <2>5. DeliveredIsTerminal' /\ ResultMeansFinished'
    BY <1>18 DEF RereadJob, GoTo, AfterRun, AfterEscape, durable, WorkOK,
       PointStatus, DeliveredIsTerminal, ResultMeansFinished
  <2> QED
    BY <2>1, <2>2, <2>3, <2>4, <2>5
<1>19. ASSUME NEW d \in Dispatchers, SettleNonTerminal(d) PROVE ExclusiveInv'
  <2>1. OneHandler'
    BY <1>19 DEF SettleNonTerminal, GoTo, FailJob, WorkOK, OneHandler,
       ClaimLive
  <2>2. ClaimLive'
    BY <1>19 DEF SettleNonTerminal, GoTo, FailJob, WorkOK, OneHandler,
       ClaimLive, PointStatus
  <2>3. PointStatus'
    BY <1>19 DEF SettleNonTerminal, GoTo, FailJob, WorkOK, OneHandler,
       ClaimLive, PointStatus
  <2>4. StartsOK'
    BY <1>19 DEF SettleNonTerminal, GoTo, FailJob, WorkOK, PointStatus,
       StartsOK
  <2>5. DeliveredIsTerminal' /\ ResultMeansFinished'
    BY <1>19 DEF SettleNonTerminal, GoTo, FailJob, WorkOK, PointStatus,
       DeliveredIsTerminal, ResultMeansFinished
  <2> QED
    BY <2>1, <2>2, <2>3, <2>4, <2>5
<1>20. ASSUME NEW d \in Dispatchers, MarkDelivered(d) PROVE ExclusiveInv'
  <2>1. OneHandler'
    BY <1>20 DEF MarkDelivered, GoIdle, WorkOK, OneHandler, ClaimLive
  <2>2. ClaimLive'
    BY <1>20 DEF MarkDelivered, GoIdle, WorkOK, OneHandler, ClaimLive,
       PointStatus
  <2>3. PointStatus'
    BY <1>20 DEF MarkDelivered, GoIdle, WorkOK, OneHandler, ClaimLive,
       PointStatus
  <2>4. StartsOK'
    BY <1>20 DEF MarkDelivered, GoIdle, WorkOK, PointStatus, StartsOK
  <2>5. DeliveredIsTerminal' /\ ResultMeansFinished'
    BY <1>20 DEF MarkDelivered, GoIdle, WorkOK, PointStatus,
       DeliveredIsTerminal, ResultMeansFinished
  <2> QED
    BY <2>1, <2>2, <2>3, <2>4, <2>5
<1>21. ASSUME NEW d \in Dispatchers, ReleaseClaim(d) PROVE ExclusiveInv'
  <2>1. OneHandler'
    BY <1>21 DEF ReleaseClaim, GoIdle, WorkOK, OneHandler, ClaimLive
  <2>2. ClaimLive'
    BY <1>21 DEF ReleaseClaim, GoIdle, WorkOK, OneHandler, ClaimLive,
       PointStatus
  <2>3. PointStatus'
    BY <1>21 DEF ReleaseClaim, GoIdle, WorkOK, OneHandler, ClaimLive,
       PointStatus
  <2>4. StartsOK'
    BY <1>21 DEF ReleaseClaim, GoIdle, WorkOK, PointStatus, StartsOK
  <2>5. DeliveredIsTerminal' /\ ResultMeansFinished'
    BY <1>21 DEF ReleaseClaim, GoIdle, WorkOK, PointStatus,
       DeliveredIsTerminal, ResultMeansFinished
  <2> QED
    BY <2>1, <2>2, <2>3, <2>4, <2>5
<1>22. ASSUME NEW j \in ParseJobs, LeaseExpires(j) PROVE ExclusiveInv'
  <2>1. OneHandler'
    BY <1>22 DEF LeaseExpires, local, Holder, WorkOK, OneHandler,
       ClaimLive
  <2>2. ClaimLive'
    BY <1>22 DEF LeaseExpires, local, Holder, WorkOK, OneHandler,
       ClaimLive, PointStatus
  <2>3. PointStatus'
    BY <1>22 DEF LeaseExpires, local, Holder, WorkOK, OneHandler,
       ClaimLive, PointStatus
  <2>4. StartsOK'
    BY <1>22 DEF LeaseExpires, local, Holder, WorkOK, PointStatus,
       StartsOK
  <2>5. DeliveredIsTerminal' /\ ResultMeansFinished'
    BY <1>22 DEF LeaseExpires, local, Holder, WorkOK, PointStatus,
       DeliveredIsTerminal, ResultMeansFinished
  <2> QED
    BY <2>1, <2>2, <2>3, <2>4, <2>5
<1>23. ASSUME NEW j \in Jobs, ReapInterruptedJob(j) PROVE ExclusiveInv'
  <2>1. OneHandler'
    BY <1>23 DEF ReapInterruptedJob, Reapable, Recoverable, FailJob,
       local, WorkOK, OneHandler, ClaimLive
  <2>2. ClaimLive'
    BY <1>23 DEF ReapInterruptedJob, Reapable, Recoverable, FailJob,
       local, WorkOK, OneHandler, ClaimLive, PointStatus
  <2>3. PointStatus'
    BY <1>23 DEF ReapInterruptedJob, Reapable, Recoverable, FailJob,
       local, WorkOK, OneHandler, ClaimLive, PointStatus
  <2>4. StartsOK'
    BY <1>23 DEF ReapInterruptedJob, Reapable, Recoverable, FailJob,
       local, WorkOK, PointStatus, StartsOK
  <2>5. DeliveredIsTerminal' /\ ResultMeansFinished'
    BY <1>23 DEF ReapInterruptedJob, Reapable, Recoverable, FailJob,
       local, WorkOK, PointStatus, DeliveredIsTerminal,
       ResultMeansFinished
  <2> QED
    BY <2>1, <2>2, <2>3, <2>4, <2>5
<1>24. ASSUME NEW d \in Dispatchers, StartServing(d) PROVE ExclusiveInv'
  <2>1. OneHandler'
    BY <1>24 DEF StartServing, Reapable, durable, WorkOK, OneHandler,
       ClaimLive
  <2>2. ClaimLive'
    BY <1>24 DEF StartServing, Reapable, durable, WorkOK, OneHandler,
       ClaimLive, PointStatus
  <2>3. PointStatus'
    BY <1>24 DEF StartServing, Reapable, durable, WorkOK, OneHandler,
       ClaimLive, PointStatus
  <2>4. StartsOK'
    BY <1>24 DEF StartServing, Reapable, durable, WorkOK, PointStatus,
       StartsOK
  <2>5. DeliveredIsTerminal' /\ ResultMeansFinished'
    BY <1>24 DEF StartServing, Reapable, durable, WorkOK, PointStatus,
       DeliveredIsTerminal, ResultMeansFinished
  <2> QED
    BY <2>1, <2>2, <2>3, <2>4, <2>5
<1>25. ASSUME NEW w \in Workers, StoreFault(w) PROVE ExclusiveInv'
  <2>1. OneHandler'
    BY <1>25 DEF StoreFault, GoIdle, GoTo, EndedByFault, EscapesByFault,
       ReleasesByFault, durable, WorkOK, OneHandler, ClaimLive
  <2>2. ClaimLive'
    BY <1>25 DEF StoreFault, GoIdle, GoTo, EndedByFault, EscapesByFault,
       ReleasesByFault, durable, WorkOK, OneHandler, ClaimLive,
       PointStatus
  <2>3. PointStatus'
    BY <1>25 DEF StoreFault, GoIdle, GoTo, EndedByFault, EscapesByFault,
       ReleasesByFault, durable, WorkOK, OneHandler, ClaimLive,
       PointStatus
  <2>4. StartsOK'
    BY <1>25 DEF StoreFault, GoIdle, GoTo, EndedByFault, EscapesByFault,
       ReleasesByFault, durable, WorkOK, PointStatus, StartsOK
  <2>5. DeliveredIsTerminal' /\ ResultMeansFinished'
    BY <1>25 DEF StoreFault, GoIdle, GoTo, EndedByFault, EscapesByFault,
       ReleasesByFault, durable, WorkOK, PointStatus,
       DeliveredIsTerminal, ResultMeansFinished
  <2> QED
    BY <2>1, <2>2, <2>3, <2>4, <2>5
<1>26. CASE Crash
  BY <1>26 DEF Crash, durable, OneHandler, ClaimLive, PointStatus, StartsOK,
     DeliveredIsTerminal, ResultMeansFinished
<1>27. CASE UNCHANGED vars
  BY <1>27 DEF vars, OneHandler, ClaimLive, PointStatus, StartsOK,
     DeliveredIsTerminal, ResultMeansFinished
<1> QED
  BY <1>1, <1>2, <1>3, <1>4, <1>5, <1>6, <1>7, <1>8, <1>9, <1>10, <1>11, <1>12, <1>13, <1>14, <1>15, <1>16, <1>17, <1>18, <1>19, <1>20, <1>21, <1>22, <1>23, <1>24, <1>25, <1>26, <1>27
     DEF Next, DispatchStep, RunStep

(* With a capacity wait shorter than the lease, a job has one handler at a *)
(* time and the handler's program point fixes the row's status.            *)
THEOREM ExclusiveInvariant == ASSUME ~WaitOutlastsLease PROVE Spec => []ExclusiveInv
<1>1. Init => ExclusiveInv
  BY JobSets DEF Init, ExclusiveInv, OneHandler, ClaimLive, PointStatus, StartsOK,
     DeliveredIsTerminal, ResultMeansFinished, RunnerPoints, Busy, Jobs, Workers
<1>2. IndInv /\ ExclusiveInv /\ [Next]_vars => ExclusiveInv'
  BY ExclusiveStep
<1> QED
  BY <1>1, <1>2, IndInvariant, PTL DEF Spec

(* ... so no analysis is started twice, over crashes, replays, takeovers   *)
(* of stale claims and raised store calls.                                 *)
THEOREM SingleRun == ASSUME ~WaitOutlastsLease PROVE Spec => []RunAtMostOnce
<1>1. ExclusiveInv => RunAtMostOnce
  BY DEF ExclusiveInv, StartsOK, RunAtMostOnce
<1> QED
  BY <1>1, ExclusiveInvariant, PTL

(* ... an acknowledged outbox record belongs to a finished job ...         *)
THEOREM SettledRecords ==
  ASSUME ~WaitOutlastsLease
  PROVE  Spec => []DeliveredIsTerminal
<1>1. ExclusiveInv => DeliveredIsTerminal
  BY DEF ExclusiveInv
<1> QED
  BY <1>1, ExclusiveInvariant, PTL

(* ... a stored result belongs to a job that is over, whatever was         *)
(* cancelled or reaped between the runner's return and its last write ...  *)
THEOREM ResultsBelongToFinished ==
  ASSUME ~WaitOutlastsLease
  PROVE  Spec => []ResultMeansFinished
<1>1. ExclusiveInv => ResultMeansFinished
  BY DEF ExclusiveInv
<1> QED
  BY <1>1, ExclusiveInvariant, PTL

(* ... and a completed or failed row is never written again.               *)
THEOREM TerminalRowsFinal == ASSUME ~WaitOutlastsLease PROVE Spec => TerminalIsFinal
<1> DEFINE Final == \A j \in Jobs : status[j] \in Terminal => status'[j] = status[j]
<1>1. ASSUME IndInv, ExclusiveInv, [Next]_vars PROVE Final
  <2> USE JobSets, <1>1
      DEF IndInv, ExclusiveInv, TypeOK, WorkOK, PointStatus, Busy, Jobs, Workers,
          Active, Terminal, RunnerPoints
  <2>1. ASSUME NEW w \in Workers, SettleTimeout(w) \/ StartRunning(w) \/ ReportStage(w)
        PROVE  Final
    BY <2>1 DEF SettleTimeout, StartRunning, ReportStage, WriteRunning, CompleteJob, FailJob
  <2>2. ASSUME NEW w \in Workers, FinishRun(w) PROVE Final
    BY <2>2 DEF FinishRun, CompleteJob, FailJob
  <2>3. ASSUME NEW d \in Dispatchers, SettleNonTerminal(d) PROVE Final
    BY <2>3 DEF SettleNonTerminal, FailJob
  <2>4. ASSUME NEW j \in Jobs, ReapInterruptedJob(j) PROVE Final
    BY <2>4 DEF ReapInterruptedJob, Reapable, FailJob
  <2>5. ASSUME NEW j \in ParseJobs, NEW d \in Dispatchers, AdmitParseBoundJob(j, d)
        PROVE  Final
    BY <2>5 DEF AdmitParseBoundJob
  <2>6. ASSUME NEW j \in DirectJobs, CreateDirectJob(j) PROVE Final
    BY <2>6 DEF CreateDirectJob
  <2>7. CASE UNCHANGED status
    BY <2>7
  <2> QED
    BY <2>1, <2>2, <2>3, <2>4, <2>5, <2>6, <2>7
       DEF Next, DispatchStep, RunStep, ReplayAdmission, CancelAnalysisJob,
           ClaimAnalysisJobOutbox, ClaimNothing, FetchJob, AcquireSlot, SlotTimeout,
           RunnerReturns, RunnerRaises, RunnerCancelled, DirectTaskEnds, RereadJob,
           MarkDelivered, ReleaseClaim, StoreFault, LeaseExpires, Crash, StartServing,
           durable, vars
<1>2. IndInv /\ ExclusiveInv /\ [Next]_vars => [Final]_vars
  BY <1>1
<1> QED
  BY <1>2, IndInvariant, ExclusiveInvariant, PTL DEF Spec, TerminalIsFinal
=============================================================================
