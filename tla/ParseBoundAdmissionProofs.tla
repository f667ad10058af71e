----------------------- MODULE ParseBoundAdmissionProofs -----------------------
(***************************************************************************)
(* Proofs about ParseBoundAdmission, for any number of processes,          *)
(* requests, keys and tokens and any number of faults and crashes.         *)
(*                                                                         *)
(* A handler has a dozen actions but touches each part of the state in a   *)
(* few ways only.  StepKinds classifies what a step does to the database,  *)
(* FenceKinds what it does to the process-local registry and AnswerKinds   *)
(* what it tells the client; the conjuncts of AdmissionInv are then shown  *)
(* over the kinds of the part they speak of.                               *)
(***************************************************************************)
EXTENDS ParseBoundAdmission, TLAPS

(* What a request carries.                                                 *)
LEMMA BodyType ==
  ASSUME TypeOK, NEW r \in Requests
  PROVE  /\ body[r].proc \in Procs /\ body[r].key \in Keys
         /\ body[r].token \in Tokens /\ body[r].hash \in Hashes
BY AdmissionConstants DEF TypeOK

-----------------------------------------------------------------------------
(* Kinds of database step.                                                 *)

Writers == {"insert", "commit"}

QuietStep(r) ==
  /\ pc[r] \notin Writers \cup {"done", "gone"}
  /\ \E x \in PcValues \ (Writers \cup {"new"}) : pc' = [pc EXCEPT ![r] = x]
  /\ UNCHANGED <<body, durable>>

TokenStep(r) ==
  /\ pc[r] = "consume" /\ tokenLock[body[r].token] = None
  /\ body[r].token \notin consumed
  /\ tokenLock' = [tokenLock EXCEPT ![body[r].token] = r]
  /\ pc' = [pc EXCEPT ![r] = "insert"]
  /\ UNCHANGED <<body, idem, consumed, rowLock>>

RowStep(r) ==
  /\ pc[r] = "insert" /\ rowLock[body[r].key] = None
  /\ idem[body[r].key] = NoEntry
  /\ rowLock' = [rowLock EXCEPT ![body[r].key] = r]
  /\ pc' = [pc EXCEPT ![r] = "commit"]
  /\ UNCHANGED <<body, idem, consumed, tokenLock>>

RollbackStep(r) ==
  /\ pc[r] \in AtWork
  /\ pc' = [pc EXCEPT ![r] = "done"]
  /\ ReleaseLocks(r)
  /\ UNCHANGED <<body, idem, consumed>>

CommitStep(r) ==
  /\ pc[r] = "commit"
  /\ pc' = [pc EXCEPT ![r] = "done"]
  /\ CommitRows(r)
  /\ UNCHANGED body

(* Every action of the handler is one of the five kinds.                   *)
LEMMA StepKinds ==
  ASSUME TypeOK, NEW r \in Requests, HandlerStep(r)
  PROVE  QuietStep(r) \/ TokenStep(r) \/ RowStep(r) \/ RollbackStep(r) \/ CommitStep(r)
<1> USE DEF InTransaction, AtWork, PcValues, Writers, durable, redis, bounds
<1>1. CASE AnswerFromRegistry(r) \/ ReadRaises(r) \/ RefuseDraft(r) \/ FindRaises(r)
  BY <1>1 DEF AnswerFromRegistry, ReadRaises, RefuseDraft, FindRaises, Answer, Refuse, QuietStep
<1>2. CASE FindParseBoundJob(r)
  BY <1>2 DEF FindParseBoundJob, Answer, Refuse, Proceed, QuietStep
<1>3. CASE ConsumeQuota(r) \/ SkipQuota(r)
  BY <1>3 DEF ConsumeQuota, SkipQuota, Refuse, Proceed, QuietStep
<1>4. CASE LookupIdempotency(r)
  BY <1>4 DEF LookupIdempotency, AnswerExisting, RefuseAdmission, Answer, Refuse, Proceed, QuietStep
<1>5. CASE ConsumeToken(r)
  <2>1. CASE Consumable(body[r].token)
    BY <1>5, <2>1 DEF ConsumeToken, Consumable, Proceed, TokenStep
  <2>2. CASE ~Consumable(body[r].token)
    BY <1>5, <2>2 DEF ConsumeToken, Proceed, QuietStep
  <2> QED
    BY <2>1, <2>2
<1>6. CASE RereadWinner(r)
  BY <1>6 DEF RereadWinner, AnswerExisting, RefuseAdmission, Answer, Refuse, QuietStep
<1>7. CASE InsertRows(r)
  <2>1. CASE Conflict(r)
    BY <1>7, <2>1 DEF InsertRows, Refuse, RollbackStep
  <2>2. CASE ~Conflict(r)
    BY <1>7, <2>2 DEF InsertRows, Conflict, Proceed, RowStep
  <2> QED
    BY <2>1, <2>2
<1>8. CASE CommitAdmission(r)
  BY <1>8 DEF CommitAdmission, Answer, CommitStep
<1>9. CASE TransactionRaises(r)
  BY <1>9 DEF TransactionRaises, Refuse, RollbackStep, CommitStep
<1> QED
  BY <1>1, <1>2, <1>3, <1>4, <1>5, <1>6, <1>7, <1>8, <1>9 DEF HandlerStep

(* What a write transaction has locked and seen stays so until it ends.    *)
LEMMA LockStep ==
  ASSUME TypeOK, LockInv, [Next]_vars
  PROVE  LockInv'
<1> USE AdmissionConstants DEF TypeOK, LockInv, InTransaction, AtWork, PcValues, Writers, durable
<1>1. ASSUME NEW r \in Requests, HandlerStep(r) PROVE LockInv'
  <2>1. CASE QuietStep(r)
    BY <2>1 DEF QuietStep
  <2>2. CASE TokenStep(r)
    BY <2>2 DEF TokenStep
  <2>3. CASE RowStep(r)
    BY <2>3 DEF RowStep
  <2>4. CASE RollbackStep(r)
    BY <2>4 DEF RollbackStep, ReleaseLocks
  <2>5. CASE CommitStep(r)
    BY <2>5 DEF CommitStep, CommitRows, ReleaseLocks
  <2> QED
    BY <1>1, <2>1, <2>2, <2>3, <2>4, <2>5, StepKinds
<1>2. CASE \E t \in Tokens : ExpireToken(t)
  BY <1>2 DEF ExpireToken, client
<1>3. CASE RedisExpiry
  BY <1>3 DEF RedisExpiry, client
<1>4. ASSUME NEW p \in Procs, Crash(p) PROVE LockInv'
  BY <1>4 DEF Crash
<1>5. CASE UNCHANGED vars
  BY <1>5 DEF vars, client
<1> QED
  BY <1>1, <1>2, <1>3, <1>4, <1>5 DEF Next

(* A committed row is never rewritten and names its finished writer.       *)
LEMMA RowsStep ==
  ASSUME TypeOK, LockInv, RowInv, [Next]_vars
  PROVE  RowInv'
<1> USE AdmissionConstants DEF TypeOK, LockInv, RowInv, InTransaction, AtWork, PcValues, Writers, durable,
        Entries, NoEntry
<1>1. ASSUME NEW r \in Requests, HandlerStep(r) PROVE RowInv'
  <2>1. CASE QuietStep(r)
    BY <2>1 DEF QuietStep
  <2>2. CASE TokenStep(r)
    BY <2>2 DEF TokenStep
  <2>3. CASE RowStep(r)
    BY <2>3 DEF RowStep
  <2>4. CASE RollbackStep(r)
    BY <2>4 DEF RollbackStep, ReleaseLocks
  <2>5. CASE CommitStep(r)
    BY <2>5 DEF CommitStep, CommitRows
  <2> QED
    BY <1>1, <2>1, <2>2, <2>3, <2>4, <2>5, StepKinds
<1>2. CASE \E t \in Tokens : ExpireToken(t)
  BY <1>2 DEF ExpireToken, client
<1>3. CASE RedisExpiry
  BY <1>3 DEF RedisExpiry, client
<1>4. ASSUME NEW p \in Procs, Crash(p) PROVE RowInv'
  BY <1>4 DEF Crash
<1>5. CASE UNCHANGED vars
  BY <1>5 DEF vars, client
<1> QED
  BY <1>1, <1>2, <1>3, <1>4, <1>5 DEF Next

-----------------------------------------------------------------------------
(* Kinds of registry step.                                                 *)

KeepsFence(r) ==
  /\ \/ pc[r] = "new" /\ pc'[r] = "done"
     \/ pc[r] \in AtWork /\ pc'[r] \in AtWork
  /\ findFaults' = 0 => findFaults = 0
  /\ UNCHANGED registry

OpensFence(r) ==
  /\ pc[r] = "new" /\ pc'[r] = "quota"
  /\ Entry(r) = NoEntry
  /\ body[r].hash = TokenHash[body[r].token]
  /\ SetEntry(r, Pending(r))
  /\ UNCHANGED findFaults

LeavesFence(r) ==
  /\ pc[r] = "new" /\ pc'[r] = "done"
  /\ Entry(r) = NoEntry
  /\ SetEntry(r, Pending(r))
  /\ findFaults' # 0

RecordsFound(r) ==
  /\ pc[r] = "new" /\ pc'[r] = "done"
  /\ Entry(r) = NoEntry
  /\ idem[body[r].key] # NoEntry
  /\ SetEntry(r, idem[body[r].key])
  /\ UNCHANGED <<idem, findFaults>>

CompletesFence(r) ==
  /\ pc[r] \in AtWork /\ pc'[r] = "done"
  /\ idem'[body[r].key].hash = body[r].hash /\ idem'[body[r].key].job # None
  /\ SetEntry(r, [hash |-> body[r].hash, job |-> idem'[body[r].key].job])
  /\ UNCHANGED findFaults

DiscardsFence(r) ==
  /\ pc[r] \in AtWork /\ pc'[r] = "done"
  /\ SetEntry(r, NoEntry)
  /\ UNCHANGED findFaults

FenceStep(r) ==
  \/ KeepsFence(r) \/ OpensFence(r) \/ LeavesFence(r)
  \/ RecordsFound(r) \/ CompletesFence(r) \/ DiscardsFence(r)

(* Every action of the handler is one of the six kinds and moves no other  *)
(* request.                                                                *)
LEMMA FenceKinds ==
  ASSUME TypeOK, OwnerInv, RowInv, NEW r \in Requests, HandlerStep(r)
  PROVE  FenceStep(r) /\ body' = body /\ \A q \in Requests : q # r => pc'[q] = pc[q]
<1> USE AdmissionConstants
    DEF TypeOK, InTransaction, AtWork, PcValues, durable, redis, bounds, FenceStep
<1>0. pc[r] \in AtWork => Entry(r) = Pending(r)
  <2>1. Entry(r) \in Entries
    BY BodyType DEF Entry
  <2> QED
    BY <2>1 DEF OwnerInv, OwnsFence, Entries, Pending
<1>1. CASE AnswerFromRegistry(r) \/ ReadRaises(r) \/ RefuseDraft(r)
  BY <1>1 DEF AnswerFromRegistry, ReadRaises, RefuseDraft, Answer, Refuse, KeepsFence
<1>2. CASE FindRaises(r)
  BY <1>2 DEF FindRaises, BeginStatus, Refuse, LeavesFence
<1>3. CASE FindParseBoundJob(r)
  BY <1>3 DEF FindParseBoundJob, BeginStatus, DraftValid, Found, Answer, Refuse, Proceed,
              KeepsFence, OpensFence, RecordsFound
<1>4. CASE ConsumeQuota(r) \/ SkipQuota(r)
  BY <1>0, <1>4 DEF ConsumeQuota, SkipQuota, Refuse, Proceed, Discard, KeepsFence, DiscardsFence
<1>5. CASE LookupIdempotency(r)
  BY <1>0, <1>5 DEF LookupIdempotency, AnswerExisting, RefuseAdmission, Answer, Refuse, Proceed,
              Complete, Discard, KeepsFence, CompletesFence, DiscardsFence, RowInv
<1>6. CASE ConsumeToken(r)
  BY <1>6 DEF ConsumeToken, Proceed, KeepsFence
<1>7. CASE RereadWinner(r)
  BY <1>0, <1>7 DEF RereadWinner, AnswerExisting, RefuseAdmission, Answer, Refuse,
              Complete, Discard, CompletesFence, DiscardsFence, RowInv
<1>8. CASE InsertRows(r)
  BY <1>0, <1>8 DEF InsertRows, Refuse, Proceed, Discard, KeepsFence, DiscardsFence
<1>9. CASE CommitAdmission(r)
  BY <1>0, <1>9 DEF CommitAdmission, CommitRows, Answer, Complete, CompletesFence
<1>10. CASE TransactionRaises(r)
  BY <1>0, <1>10 DEF TransactionRaises, Refuse, Discard, DiscardsFence
<1> QED
  BY <1>1, <1>2, <1>3, <1>4, <1>5, <1>6, <1>7, <1>8, <1>9, <1>10 DEF HandlerStep

(* What writing one entry does to the registry.                            *)
LEMMA SetEntryEffect ==
  ASSUME TypeOK, NEW r \in Requests, NEW e \in Entries, SetEntry(r, e)
  PROVE  /\ registry' \in [Procs -> [Keys -> Entries]]
         /\ \A p \in Procs, k \in Keys :
              registry'[p][k] = IF p = body[r].proc /\ k = body[r].key THEN e ELSE registry[p][k]
BY AdmissionConstants DEF TypeOK, SetEntry

(* A committed row is never rewritten.                                     *)
LEMMA RowsGrow ==
  ASSUME TypeOK, LockInv, NEW r \in Requests, HandlerStep(r)
  PROVE  /\ idem' \in [Keys -> Entries]
         /\ \A k \in Keys : idem[k] # NoEntry => idem'[k] = idem[k]
<1>1. CASE CommitStep(r)
  BY <1>1, BodyType DEF CommitStep, CommitRows, LockInv, TypeOK, Entries
<1>2. CASE QuietStep(r) \/ TokenStep(r) \/ RowStep(r) \/ RollbackStep(r)
  BY <1>2 DEF QuietStep, TokenStep, RowStep, RollbackStep, durable, TypeOK
<1> QED
  BY <1>1, <1>2, StepKinds

(* An entry that names a job is the durable row, before and after.         *)
LEMMA RegistryStep ==
  ASSUME TypeOK, LockInv, OwnerInv, RowInv, RegistryAgrees, [Next]_vars
  PROVE  RegistryAgrees'
<1> USE AdmissionConstants DEF TypeOK, RegistryAgrees, Entries, NoEntry, Pending
<1>1. ASSUME NEW r \in Requests, HandlerStep(r) PROVE RegistryAgrees'
  <2>1. \A k \in Keys : idem[k] # NoEntry => idem'[k] = idem[k]
    BY <1>1, RowsGrow
  <2>2. FenceStep(r)
    BY <1>1, FenceKinds
  <2>3. ASSUME NEW e \in Entries, SetEntry(r, e), e.job # None => e = idem'[body[r].key]
        PROVE  RegistryAgrees'
    <3>1. \A p \in Procs, k \in Keys :
            registry'[p][k] = IF p = body[r].proc /\ k = body[r].key THEN e ELSE registry[p][k]
      BY <2>3, SetEntryEffect
    <3>2. SUFFICES ASSUME NEW p \in Procs, NEW k \in Keys, registry'[p][k].job # None
                   PROVE  registry'[p][k] = idem'[k]
      OBVIOUS
    <3>3. CASE p = body[r].proc /\ k = body[r].key
      BY <2>3, <3>1, <3>2, <3>3
    <3>4. CASE ~(p = body[r].proc /\ k = body[r].key)
      BY <2>1, <3>1, <3>2, <3>4
    <3> QED
      BY <3>3, <3>4
  <2>4. idem' \in [Keys -> Entries]
    BY <1>1, RowsGrow
  <2>5. CASE KeepsFence(r)
    BY <2>1, <2>5 DEF KeepsFence
  <2>6. CASE OpensFence(r) \/ LeavesFence(r) \/ DiscardsFence(r)
    BY <2>3, <2>6 DEF OpensFence, LeavesFence, DiscardsFence
  <2>7. CASE RecordsFound(r)
    BY <2>1, <2>3, <2>7 DEF RecordsFound
  <2>8. CASE CompletesFence(r)
    BY <2>3, <2>4, <2>8 DEF CompletesFence
  <2> QED
    BY <2>2, <2>5, <2>6, <2>7, <2>8 DEF FenceStep
<1>2. CASE \E t \in Tokens : ExpireToken(t)
  BY <1>2 DEF ExpireToken, durable
<1>3. CASE RedisExpiry
  BY <1>3 DEF RedisExpiry, durable
<1>4. ASSUME NEW p \in Procs, Crash(p) PROVE RegistryAgrees'
  BY <1>4 DEF Crash
<1>5. CASE UNCHANGED vars
  BY <1>5 DEF vars, durable
<1> QED
  BY <1>1, <1>2, <1>3, <1>4, <1>5 DEF Next

(* A pending fence has one owner, which holds it while it is at work.      *)
LEMMA OwnerStep ==
  ASSUME TypeOK, LockInv, OwnerInv, RowInv, [Next]_vars
  PROVE  OwnerInv'
<1> USE AdmissionConstants DEF TypeOK, Entries, NoEntry, Pending, Entry
<1>0. {"new", "done", "gone"} \cap AtWork = {} /\ "quota" \in AtWork
  BY DEF AtWork, InTransaction
<1>1. ASSUME NEW r \in Requests, HandlerStep(r) PROVE OwnerInv'
  <2>0. FenceStep(r) /\ body' = body /\ \A q \in Requests : q # r => pc'[q] = pc[q]
    BY <1>1, FenceKinds
  <2>1. \A q \in Requests : /\ body[q].proc \in Procs /\ body[q].key \in Keys
                            /\ body[q].token \in Tokens /\ body[q].hash \in Hashes
    BY BodyType
  <2>2. CASE KeepsFence(r)
    <3>1. \A q \in Requests : pc'[q] \in AtWork <=> pc[q] \in AtWork
      BY <1>0, <2>0, <2>2 DEF KeepsFence
    <3>2. registry' = registry /\ (findFaults' = 0 => findFaults = 0)
      BY <2>2 DEF KeepsFence
    <3> QED
      BY <2>0, <3>1, <3>2 DEF OwnerInv, OwnsFence, OneOwner, SameSlot, PendingHasOwner
  <2>3. CASE ~KeepsFence(r)
    <3>1. ASSUME NEW q \in Requests, q # r, pc[q] \in AtWork PROVE ~SameSlot(q, r)
      <4>1. CASE pc[r] \in AtWork
        BY <3>1, <4>1 DEF OwnerInv, OneOwner
      <4>2. CASE Entry(r) = NoEntry
        BY <2>1, <3>1, <4>2 DEF OwnerInv, OwnsFence, SameSlot
      <4> QED
        BY <1>0, <2>0, <2>3, <4>1, <4>2 DEF FenceStep, OpensFence, LeavesFence, RecordsFound,
           CompletesFence, DiscardsFence
    <3>2. PICK e \in Entries :
            /\ SetEntry(r, e)
            /\ \/ pc'[r] = "done" /\ (findFaults' = 0 => e = NoEntry \/ e.job # None)
               \/ pc'[r] = "quota" /\ e = Pending(r) /\ body[r].hash = TokenHash[body[r].token]
            /\ findFaults' = 0 => findFaults = 0
      <4>1. idem' \in [Keys -> Entries]
        BY <1>1, RowsGrow
      <4>2. CASE OpensFence(r) \/ LeavesFence(r)
        BY <2>1, <4>2 DEF OpensFence, LeavesFence
      <4>3. CASE RecordsFound(r)
        BY <2>1, <4>3 DEF RecordsFound, RowInv
      <4>4. CASE CompletesFence(r)
        <5> DEFINE e == [hash |-> body[r].hash, job |-> idem'[body[r].key].job]
        <5>1. e \in Entries /\ e.job # None
          BY <2>1, <4>1, <4>4 DEF CompletesFence
        <5> QED
          BY <4>4, <5>1 DEF CompletesFence
      <4>5. CASE DiscardsFence(r)
        BY <4>5 DEF DiscardsFence
      <4> QED
        BY <2>0, <2>3, <4>2, <4>3, <4>4, <4>5 DEF FenceStep
    <3>3. \A p \in Procs, k \in Keys :
            registry'[p][k] = IF p = body[r].proc /\ k = body[r].key THEN e ELSE registry[p][k]
      BY <3>2, SetEntryEffect
    <3>4. \A q \in Requests : q # r /\ ~SameSlot(q, r) => Entry(q)' = Entry(q)
      BY <2>0, <2>1, <3>3 DEF SameSlot
    <3>5. OwnsFence'
      <4> SUFFICES ASSUME NEW q \in Requests, pc'[q] \in AtWork
                   PROVE  /\ body[q].hash = TokenHash[body[q].token]
                          /\ Entry(q)'.hash = body[q].hash /\ Entry(q)'.job = None
        BY <2>0 DEF OwnsFence
      <4>1. CASE q = r
        BY <1>0, <2>0, <2>1, <3>2, <3>3, <4>1
      <4>2. CASE q # r
        BY <2>0, <3>1, <3>4, <4>2 DEF OwnerInv, OwnsFence
      <4> QED
        BY <4>1, <4>2
    <3>6. OneOwner'
      BY <2>0, <3>1 DEF OwnerInv, OneOwner, SameSlot
    <3>7. PendingHasOwner'
      <4> SUFFICES ASSUME findFaults' = 0, NEW p \in Procs, NEW k \in Keys,
                          registry'[p][k].hash # None, registry'[p][k].job = None
                   PROVE  \E q \in Requests : /\ body'[q].proc = p /\ body'[q].key = k
                                              /\ body'[q].hash = registry'[p][k].hash
                                              /\ pc'[q] \in AtWork
        BY DEF PendingHasOwner
      <4>1. CASE p = body[r].proc /\ k = body[r].key
        BY <1>0, <2>0, <3>2, <3>3, <4>1
      <4>2. CASE ~(p = body[r].proc /\ k = body[r].key)
        <5>1. PICK q \in Requests : /\ body[q].proc = p /\ body[q].key = k
                                   /\ body[q].hash = registry[p][k].hash
                                   /\ pc[q] \in AtWork
          BY <3>2, <3>3, <4>2 DEF OwnerInv, PendingHasOwner
        <5>2. q # r
          BY <4>2, <5>1
        <5> QED
          BY <2>0, <3>3, <4>2, <5>1, <5>2
      <4> QED
        BY <4>1, <4>2
    <3> QED
      BY <3>5, <3>6, <3>7 DEF OwnerInv
  <2> QED
    BY <2>2, <2>3
<1>2. CASE \E t \in Tokens : ExpireToken(t)
  BY <1>2 DEF ExpireToken, client, bounds, OwnerInv, OwnsFence, OneOwner, SameSlot,
     PendingHasOwner
<1>3. CASE RedisExpiry
  BY <1>3 DEF RedisExpiry, client, OwnerInv, OwnsFence, OneOwner, SameSlot,
     PendingHasOwner
<1>4. ASSUME NEW p \in Procs, Crash(p) PROVE OwnerInv'
  BY <1>0, <1>4 DEF Crash, OwnerInv, OwnsFence, OneOwner, SameSlot,
     PendingHasOwner
<1>5. CASE UNCHANGED vars
  BY <1>5 DEF vars, client, bounds, OwnerInv, OwnsFence, OneOwner, SameSlot,
     PendingHasOwner
<1> QED
  BY <1>1, <1>2, <1>3, <1>4, <1>5 DEF Next

-----------------------------------------------------------------------------
(* Kinds of answer.                                                        *)

Silent(r) == pc'[r] \in AtWork /\ UNCHANGED <<reply, job>>

Refuses(r) ==
  /\ pc'[r] = "done"
  /\ \E why \in Replies \ {"none", "job"} : reply' = [reply EXCEPT ![r] = why]
  /\ UNCHANGED job

Answers(r) ==
  /\ pc'[r] = "done"
  /\ idem'[body[r].key].hash = body[r].hash /\ idem'[body[r].key].job \in Requests
  /\ reply' = [reply EXCEPT ![r] = "job"]
  /\ job' = [job EXCEPT ![r] = idem'[body[r].key].job]

(* A handler that has not ended proceeds, refuses, or answers with the job *)
(* of the committed row.                                                   *)
LEMMA AnswerKinds ==
  ASSUME TypeOK, LockInv, RowInv, RegistryAgrees, NEW r \in Requests, HandlerStep(r)
  PROVE  pc[r] \notin {"done", "gone"} /\ (Silent(r) \/ Refuses(r) \/ Answers(r))
<1> USE AdmissionConstants
    DEF TypeOK, InTransaction, AtWork, PcValues, Replies, durable, redis, bounds, Entries, NoEntry
<1>1. CASE AnswerFromRegistry(r)
  BY <1>1 DEF AnswerFromRegistry, BeginStatus, Answer, Refuse, Refuses, Answers, Entry, Pending,
              RegistryAgrees
<1>2. CASE ReadRaises(r) \/ RefuseDraft(r) \/ FindRaises(r)
  BY <1>2 DEF ReadRaises, RefuseDraft, FindRaises, Refuse, Refuses
<1>3. CASE FindParseBoundJob(r)
  BY <1>3 DEF FindParseBoundJob, Found, Answer, Refuse, Proceed, Silent, Refuses, Answers, RowInv
<1>4. CASE ConsumeQuota(r) \/ SkipQuota(r)
  BY <1>4 DEF ConsumeQuota, SkipQuota, Refuse, Proceed, Silent, Refuses
<1>5. CASE LookupIdempotency(r)
  BY <1>5 DEF LookupIdempotency, AnswerExisting, RefuseAdmission, Answer, Refuse, Proceed,
              Silent, Refuses, Answers, RowInv
<1>6. CASE ConsumeToken(r)
  BY <1>6 DEF ConsumeToken, Proceed, Silent
<1>7. CASE RereadWinner(r)
  BY <1>7 DEF RereadWinner, AnswerExisting, RefuseAdmission, Answer, Refuse, Refuses, Answers, RowInv
<1>8. CASE InsertRows(r)
  BY <1>8 DEF InsertRows, Refuse, Proceed, Silent, Refuses
<1>9. CASE CommitAdmission(r)
  <2>1. idem'[body[r].key] = [hash |-> body[r].hash, job |-> r]
    BY <1>9, BodyType DEF CommitAdmission, CommitRows
  <2> QED
    BY <1>9, <2>1 DEF CommitAdmission, Answer, Answers
<1>10. CASE TransactionRaises(r)
  BY <1>10 DEF TransactionRaises, Refuse, Refuses
<1> QED
  BY <1>1, <1>2, <1>3, <1>4, <1>5, <1>6, <1>7, <1>8, <1>9, <1>10 DEF HandlerStep

(* Answers stay in agreement with the committed rows.                      *)
LEMMA AnswerStep ==
  ASSUME TypeOK, LockInv, OwnerInv, RowInv, RegistryAgrees, AnswerInv, [Next]_vars
  PROVE  AnswerInv'
<1> USE AdmissionConstants DEF TypeOK, Entries, NoEntry, AnswerInv, InTransaction, AtWork, PcValues, Replies
<1>1. ASSUME NEW r \in Requests, HandlerStep(r) PROVE AnswerInv'
  <2>1. body' = body /\ \A q \in Requests : q # r => pc'[q] = pc[q]
    BY <1>1, FenceKinds
  <2>2. /\ idem' \in [Keys -> Entries]
        /\ \A k \in Keys : idem[k] # NoEntry => idem'[k] = idem[k]
    BY <1>1, RowsGrow
  <2>3. pc[r] \notin {"done", "gone"} /\ (Silent(r) \/ Refuses(r) \/ Answers(r))
    BY <1>1, AnswerKinds
  <2>4. CASE Silent(r)
    BY <2>1, <2>2, <2>3, <2>4 DEF Silent
  <2>5. CASE Refuses(r)
    BY <2>1, <2>2, <2>3, <2>5 DEF Refuses
  <2>6. CASE Answers(r)
    BY <2>1, <2>2, <2>3, <2>6 DEF Answers
  <2> QED
    BY <2>3, <2>4, <2>5, <2>6
<1>2. CASE \E t \in Tokens : ExpireToken(t)
  BY <1>2 DEF ExpireToken, client, durable
<1>3. CASE RedisExpiry
  BY <1>3 DEF RedisExpiry, client, durable
<1>4. ASSUME NEW p \in Procs, Crash(p) PROVE AnswerInv'
  BY <1>4 DEF Crash
<1>5. CASE UNCHANGED vars
  BY <1>5 DEF vars, client, durable
<1> QED
  BY <1>1, <1>2, <1>3, <1>4, <1>5 DEF Next

-----------------------------------------------------------------------------
(* A commit adds one job and spends the one token it holds.                *)
LEMMA TokenPaysStep ==
  ASSUME TypeOK, LockInv, RowInv, TokenPaysOneJob, [Next]_vars
  PROVE  TokenPaysOneJob'
<1> USE AdmissionConstants DEF TypeOK
<1>1. ASSUME idem' = idem, consumed' = consumed, body' = body PROVE TokenPaysOneJob'
  BY <1>1 DEF TokenPaysOneJob
<1>2. ASSUME NEW r \in Requests, CommitStep(r) PROVE TokenPaysOneJob'
  <2> DEFINE K == body[r].key
             T == body[r].token
  <2>1. K \in Keys /\ T \in Tokens
    BY BodyType
  <2>2. idem[K] = NoEntry /\ T \notin consumed
    BY <1>2 DEF CommitStep, LockInv
  <2>3. /\ idem'[K] # NoEntry /\ body'[idem'[K].job].token = T
        /\ \A k \in Keys : k # K => idem'[k] = idem[k]
        /\ consumed' = consumed \cup {T} /\ body' = body
    BY <1>2, <2>1 DEF CommitStep, CommitRows, NoEntry
  <2>4. \A t : t \in consumed <=>
                 \E k \in Keys : idem[k] # NoEntry /\ body[idem[k].job].token = t
    BY DEF TokenPaysOneJob
  <2> DEFINE Pays(k) == body[idem[k].job].token
             Pays1(k) == body'[idem'[k].job].token
  <2>5. /\ \A k \in Keys : k # K => Pays1(k) = Pays(k)
        /\ Pays1(K) = T
    BY <2>3
  <2>6. \A t : t \in consumed <=> \E k \in Keys : idem[k] # NoEntry /\ Pays(k) = t
    BY <2>4
  <2>7. \A k1, k2 \in Keys :
          idem[k1] # NoEntry /\ idem[k2] # NoEntry /\ Pays(k1) = Pays(k2) => k1 = k2
    BY DEF TokenPaysOneJob
  <2>8. SUFFICES
          /\ consumed' = {Pays1(k) : k \in {q \in Keys : idem'[q] # NoEntry}}
          /\ \A k1, k2 \in Keys :
               idem'[k1] # NoEntry /\ idem'[k2] # NoEntry /\ Pays1(k1) = Pays1(k2) => k1 = k2
    BY DEF TokenPaysOneJob, NoEntry
  <2> HIDE DEF K, T, Pays, Pays1
  <2>9. ASSUME NEW t
         PROVE  t \in consumed' <=> \E k \in Keys : idem'[k] # NoEntry /\ Pays1(k) = t
    <3>1. CASE t = T
      BY <2>1, <2>3, <2>5, <3>1
    <3>2. CASE t # T
      BY <2>1, <2>2, <2>3, <2>5, <2>6, <3>2
    <3> QED
      BY <3>1, <3>2
  <2>10. ASSUME NEW k1 \in Keys, NEW k2 \in Keys, idem'[k1] # NoEntry, idem'[k2] # NoEntry,
                Pays1(k1) = Pays1(k2)
         PROVE  k1 = k2
    BY <2>1, <2>2, <2>3, <2>5, <2>6, <2>7, <2>10
  <2>11. consumed' = {Pays1(k) : k \in {q \in Keys : idem'[q] # NoEntry}}
    BY <2>9
  <2> QED
    BY <2>10, <2>11
<1>3. ASSUME NEW r \in Requests, HandlerStep(r) PROVE TokenPaysOneJob'
  BY <1>1, <1>2, <1>3, StepKinds DEF QuietStep, TokenStep, RowStep, RollbackStep, durable
<1>4. CASE \E t \in Tokens : ExpireToken(t)
  BY <1>1, <1>4 DEF ExpireToken, client, durable
<1>5. CASE RedisExpiry
  BY <1>1, <1>5 DEF RedisExpiry, client, durable
<1>6. CASE \E p \in Procs : Crash(p)
  BY <1>1, <1>6 DEF Crash
<1>7. CASE UNCHANGED vars
  BY <1>1, <1>7 DEF vars, client, durable
<1> QED
  BY <1>3, <1>4, <1>5, <1>6, <1>7 DEF Next

(* Every step keeps every variable in its type.                            *)
LEMMA TypeStep ==
  ASSUME TypeOK, LockInv, OwnerInv, RowInv, RegistryAgrees, [Next]_vars
  PROVE  TypeOK'
<1> USE AdmissionConstants
<1>1. ASSUME NEW r \in Requests, HandlerStep(r) PROVE TypeOK'
  <2>1. body' = body /\ pc' \in [Requests -> PcValues]
    BY <1>1, StepKinds DEF QuietStep, TokenStep, RowStep, RollbackStep, CommitStep, TypeOK,
       PcValues, AtWork, InTransaction
  <2>2. body[r].key \in Keys /\ body[r].token \in Tokens
    BY BodyType
  <2>3. /\ consumed' \subseteq Tokens
        /\ tokenLock' \in [Tokens -> Requests \cup {None}]
        /\ rowLock' \in [Keys -> Requests \cup {None}]
    <3>1. CASE QuietStep(r)
      BY <3>1 DEF QuietStep, durable, TypeOK
    <3>2. CASE TokenStep(r)
      BY <2>2, <3>2 DEF TokenStep, TypeOK
    <3>3. CASE RowStep(r)
      BY <2>2, <3>3 DEF RowStep, TypeOK
    <3>4. CASE RollbackStep(r)
      BY <3>4 DEF RollbackStep, ReleaseLocks, TypeOK
    <3>5. CASE CommitStep(r)
      BY <2>2, <3>5 DEF CommitStep, CommitRows, ReleaseLocks, TypeOK
    <3> QED
      BY <1>1, <3>1, <3>2, <3>3, <3>4, <3>5, StepKinds
  <2>4. idem' \in [Keys -> Entries]
    BY <1>1, RowsGrow
  <2>5. registry' \in [Procs -> [Keys -> Entries]]
    <3>1. CASE KeepsFence(r)
      BY <3>1 DEF KeepsFence, TypeOK
    <3>2. \A e \in Entries : SetEntry(r, e) => registry' \in [Procs -> [Keys -> Entries]]
      BY SetEntryEffect
    <3>3. Pending(r) \in Entries /\ NoEntry \in Entries /\ idem[body[r].key] \in Entries
          /\ [hash |-> body[r].hash, job |-> idem'[body[r].key].job] \in Entries
      BY <2>4, BodyType DEF Pending, NoEntry, Entries, TypeOK
    <3> QED
      BY <1>1, <3>1, <3>2, <3>3, FenceKinds DEF FenceStep, OpensFence, LeavesFence, RecordsFound,
         CompletesFence, DiscardsFence
  <2>6. /\ reply' \in [Requests -> Replies] /\ job' \in [Requests -> Requests \cup {None}]
        /\ \A q \in Requests : reply'[q] = "job" => job'[q] \in Requests
    <3>1. CASE Silent(r)
      BY <3>1 DEF Silent, TypeOK
    <3>2. CASE Refuses(r)
      BY <3>2 DEF Refuses, TypeOK, Replies
    <3>3. CASE Answers(r)
      BY <3>3 DEF Answers, TypeOK, Replies
    <3> QED
      BY <1>1, <3>1, <3>2, <3>3, AnswerKinds
  <2>7. /\ expired' = expired /\ crashes' = crashes /\ windows' = windows
        /\ findFaults' \in {findFaults, findFaults + 1}
        /\ txnFaults' \in {txnFaults, txnFaults + 1}
        /\ used' \in {used, used + 1} /\ reserved' \in {reserved, reserved \cup {body[r].key}}
    BY <1>1 DEF HandlerStep, AnswerFromRegistry, ReadRaises, RefuseDraft, FindParseBoundJob, FindRaises,
       ConsumeQuota, SkipQuota, LookupIdempotency, ConsumeToken, RereadWinner, InsertRows,
       CommitAdmission, TransactionRaises, redis, bounds
  <2> QED
    BY <2>1, <2>2, <2>3, <2>4, <2>5, <2>6, <2>7, BodyType DEF TypeOK
<1>2. CASE \E t \in Tokens : ExpireToken(t)
  BY <1>2 DEF ExpireToken, client, durable, redis, bounds, TypeOK
<1>3. CASE RedisExpiry
  BY <1>3 DEF RedisExpiry, client, durable, TypeOK
<1>4. ASSUME NEW p \in Procs, Crash(p) PROVE TypeOK'
  BY <1>4 DEF Crash, redis, TypeOK, PcValues, Entries, NoEntry
<1>5. CASE UNCHANGED vars
  BY <1>5 DEF vars, client, durable, redis, bounds, TypeOK
<1> QED
  BY <1>1, <1>2, <1>3, <1>4, <1>5 DEF Next

LEMMA AdmissionInit ==
  ASSUME Init
  PROVE  AdmissionInv
<1> USE AdmissionConstants DEF Init
<1>1. TypeOK
  BY DEF TypeOK, PcValues, AtWork, InTransaction, Replies, Entries, NoEntry
<1>2. LockInv /\ RowInv /\ AnswerInv /\ RegistryAgrees /\ TokenPaysOneJob
  BY <1>1, BodyType DEF LockInv, RowInv, AnswerInv, RegistryAgrees, TokenPaysOneJob, NoEntry
<1>3. OwnerInv
  BY DEF OwnerInv, OwnsFence, OneOwner, PendingHasOwner, AtWork, InTransaction, NoEntry
<1> QED
  BY <1>1, <1>2, <1>3 DEF AdmissionInv

(* AdmissionInv is an inductive invariant of the admission protocol.       *)
THEOREM AdmissionInvariant == Spec => []AdmissionInv
<1>1. AdmissionInv /\ [Next]_vars => AdmissionInv'
  BY TypeStep, LockStep, OwnerStep, RowsStep, AnswerStep, TokenPaysStep, RegistryStep DEF AdmissionInv
<1> QED
  BY <1>1, AdmissionInit, PTL DEF Spec

(* Every variable keeps its type, and every answer names a job.            *)
THEOREM AdmissionTypes == Spec => []TypeOK
<1>1. AdmissionInv => TypeOK
  BY DEF AdmissionInv
<1> QED
  BY <1>1, AdmissionInvariant, PTL

(* A consumed token and the job it paid for come and go together, and no   *)
(* token pays for two jobs, over any interleaving of any number of         *)
(* processes.                                                              *)
THEOREM TokensPayOnce == Spec => []TokenPaysOneJob
<1>1. AdmissionInv => TokenPaysOneJob
  BY DEF AdmissionInv
<1> QED
  BY <1>1, AdmissionInvariant, PTL

(* The retry fence of any process agrees with the durable record.          *)
THEOREM FenceAgrees == Spec => []RegistryAgrees
<1>1. AdmissionInv => RegistryAgrees
  BY DEF AdmissionInv
<1> QED
  BY <1>1, AdmissionInvariant, PTL

(* Every pending fence is owned by a handler that will lift it: of all the *)
(* error paths only a raising durable lookup leaves one behind.            *)
THEOREM FenceOwned == Spec => []PendingHasOwner
<1>1. AdmissionInv => PendingHasOwner
  BY DEF AdmissionInv, OwnerInv
<1> QED
  BY <1>1, AdmissionInvariant, PTL

-----------------------------------------------------------------------------
(* The refinement of AdmissionLedger.                                      *)

Told == {<<body[r].key, body[r].hash, job[r]>> : r \in {q \in Requests : reply[q] = "job"}}

(* An answer adds what the client is told of, and nothing else does.       *)
LEMMA ToldStep ==
  ASSUME TypeOK, LockInv, OwnerInv, RowInv, RegistryAgrees, AnswerInv,
         NEW r \in Requests, HandlerStep(r)
  PROVE  /\ Silent(r) \/ Refuses(r) => Told' = Told
         /\ Answers(r) =>
              Told' = Told \cup {<<body[r].key, body[r].hash, idem'[body[r].key].job>>}
<1>1. body' = body
  BY FenceKinds
<1>2. reply[r] # "job"
  BY AnswerKinds DEF AnswerInv
<1>3. ASSUME Silent(r) PROVE Told' = Told
  BY <1>1, <1>3 DEF Silent, Told
<1>4. ASSUME Refuses(r) PROVE Told' = Told
  <2>1. \A q \in Requests : reply'[q] = "job" <=> reply[q] = "job"
    BY <1>2, <1>4 DEF Refuses, TypeOK
  <2>2. {q \in Requests : reply'[q] = "job"} = {q \in Requests : reply[q] = "job"}
    BY <2>1
  <2> QED
    BY <1>1, <1>4, <2>2 DEF Refuses, Told
<1>5. ASSUME Answers(r)
      PROVE  Told' = Told \cup {<<body[r].key, body[r].hash, idem'[body[r].key].job>>}
  <2> DEFINE Was == {q \in Requests : reply[q] = "job"}
             Is == {q \in Requests : reply'[q] = "job"}
             J == idem'[body[r].key].job
  <2>1. Is = Was \cup {r}
    BY <1>5 DEF Answers, TypeOK
  <2>2. job'[r] = J /\ \A q \in Was : job'[q] = job[q]
    BY <1>2, <1>5 DEF Answers, TypeOK
  <2>3. Told' = {<<body[q].key, body[q].hash, job'[q]>> : q \in Is}
    BY <1>1 DEF Told
  <2>4. Told = {<<body[q].key, body[q].hash, job[q]>> : q \in Was}
    BY DEF Told
  <2> HIDE DEF Was, Is, J
  <2>5. {<<body[q].key, body[q].hash, job'[q]>> : q \in Is}
        = {<<body[q].key, body[q].hash, job[q]>> : q \in Was} \cup {<<body[r].key, body[r].hash, J>>}
    BY <2>1, <2>2
  <2> QED
    BY <2>3, <2>4, <2>5 DEF J
<1> QED
  BY <1>3, <1>4, <1>5

(* Every step of the protocol is an admission, an answer or no step of the *)
(* ledger.                                                                 *)
LEMMA LedgerStep ==
  ASSUME AdmissionInv, [Next]_vars
  PROVE  [Ledger!Next]_(Ledger!ledgerVars)
<1> USE AdmissionConstants
<1>0. TypeOK /\ LockInv /\ OwnerInv /\ RowInv /\ RegistryAgrees /\ AnswerInv
  BY DEF AdmissionInv
<1>1. ASSUME NEW r \in Requests, HandlerStep(r)
      PROVE  [Ledger!Next]_(Ledger!ledgerVars)
  <2> DEFINE K == body[r].key
             T == body[r].token
  <2>1. K \in Keys /\ T \in Tokens
    BY <1>0, BodyType
  <2>2. Silent(r) \/ Refuses(r) \/ Answers(r)
    BY <1>0, <1>1, AnswerKinds
  <2>3. CASE CommitStep(r)
    <3>1. /\ idem[K] = NoEntry /\ T \notin consumed
          /\ body[r].hash = TokenHash[T]
      BY <1>0, <2>3 DEF CommitStep, LockInv, OwnerInv, OwnsFence, AtWork, InTransaction
    <3>2. /\ idem' = [idem EXCEPT ![K] = [hash |-> TokenHash[T], job |-> r]]
          /\ consumed' = consumed \cup {T}
      BY <2>3, <3>1 DEF CommitStep, CommitRows
    <3>3. idem'[K].job = r
      BY <1>0, <2>1, <3>2 DEF TypeOK
    <3>4. CASE Answers(r)
      <4>1. Told' = Told \cup {<<K, TokenHash[T], r>>}
        BY <1>0, <1>1, <3>1, <3>3, <3>4, ToldStep
      <4>2. Ledger!AdmitAndTell(K, T, r)
        BY <3>1, <3>2, <4>1 DEF Ledger!AdmitAndTell, Ledger!Admit, Told
      <4> QED
        BY <2>1, <4>2 DEF Ledger!Next
    <3>5. CASE Silent(r) \/ Refuses(r)
      <4>1. Told' = Told
        BY <1>0, <1>1, <3>5, ToldStep
      <4>2. Ledger!AdmitOnly(K, T, r)
        BY <3>1, <3>2, <4>1 DEF Ledger!AdmitOnly, Ledger!Admit, Told
      <4> QED
        BY <2>1, <4>2 DEF Ledger!Next
    <3> QED
      BY <2>2, <3>4, <3>5
  <2>4. CASE ~CommitStep(r)
    <3>1. idem' = idem /\ consumed' = consumed
      BY <1>0, <1>1, <2>4, StepKinds DEF QuietStep, TokenStep, RowStep, RollbackStep, durable
    <3>2. CASE Answers(r)
      <4>1. idem[K].hash = body[r].hash /\ idem[K].job \in Requests
        BY <3>1, <3>2 DEF Answers
      <4>2. Told' = Told \cup {<<K, idem[K].hash, idem[K].job>>}
        BY <1>0, <1>1, <3>1, <3>2, <4>1, ToldStep
      <4>3. idem[K] # NoEntry
        BY <4>1 DEF NoEntry
      <4>4. PICK k \in Keys : k = K
        BY <2>1
      <4>5. Ledger!Tell(k)
        BY <3>1, <4>2, <4>3, <4>4 DEF Ledger!Tell, Told
      <4> QED
        BY <4>5 DEF Ledger!Next
    <3>3. CASE Silent(r) \/ Refuses(r)
      <4>1. Told' = Told
        BY <1>0, <1>1, <3>3, ToldStep
      <4> QED
        BY <3>1, <4>1 DEF Ledger!ledgerVars, Told
    <3> QED
      BY <2>2, <3>2, <3>3
  <2> QED
    BY <2>3, <2>4
<1>2. ASSUME UNCHANGED <<idem, consumed, body, reply, job>>
      PROVE  [Ledger!Next]_(Ledger!ledgerVars)
  BY <1>2 DEF Ledger!ledgerVars
<1>3. CASE \E t \in Tokens : ExpireToken(t)
  BY <1>2, <1>3 DEF ExpireToken, client, durable
<1>4. CASE RedisExpiry
  BY <1>2, <1>4 DEF RedisExpiry, client, durable
<1>5. CASE \E p \in Procs : Crash(p)
  BY <1>2, <1>5 DEF Crash
<1>6. CASE UNCHANGED vars
  BY <1>2, <1>6 DEF vars, client, durable
<1> QED
  BY <1>1, <1>3, <1>4, <1>5, <1>6 DEF Next

(* The statement-by-statement admission of any number of processes, with   *)
(* rollbacks, lost acknowledgements, crashes and lookups that fail,        *)
(* implements the atomic ledger.                                           *)
THEOREM AdmissionImplementsLedger == Spec => ImplementsLedger
<1>1. Init => Ledger!Init
  BY DEF Init, Ledger!Init
<1> QED
  BY <1>1, LedgerStep, AdmissionInvariant, PTL DEF Spec, ImplementsLedger, Ledger!Spec

-----------------------------------------------------------------------------
(* The first step of a repeated request answers it.                        *)
LEMMA RetryStep ==
  ASSUME AdmissionInv, [Next]_vars, NEW r \in Requests,
         pc[r] = "new", pc'[r] # "new",
         idem[body[r].key].hash = body[r].hash,
         Entry(r).hash \in {None, body[r].hash},
         DraftValid(r), findFaults' = findFaults
  PROVE  reply'[r] = "in_progress" \/ (reply'[r] = "job" /\ job'[r] = idem[body[r].key].job)
<1> USE AdmissionConstants
<1>0. TypeOK /\ LockInv /\ OwnerInv /\ RowInv /\ RegistryAgrees
  BY DEF AdmissionInv
<1>1. HandlerStep(r)
  <2>1. ASSUME NEW q \in Requests, HandlerStep(q), q # r PROVE FALSE
    BY <1>0, <2>1, FenceKinds
  <2>2. CASE \E q \in Requests : HandlerStep(q)
    BY <2>1, <2>2
  <2>3. CASE \E p \in Procs : Crash(p)
    BY <2>3 DEF Crash, AtWork, InTransaction
  <2> QED
    BY <2>2, <2>3 DEF Next, vars, client, ExpireToken, RedisExpiry
<1>2. /\ body[r].proc \in Procs /\ body[r].key \in Keys /\ body[r].hash # None
      /\ reply \in [Requests -> Replies] /\ job \in [Requests -> Requests \cup {None}]
  BY <1>0, BodyType DEF TypeOK
<1>3. idem[body[r].key] # NoEntry
  BY <1>2 DEF NoEntry
<1>4. Entry(r) \in Entries /\ (Entry(r).job # None => Entry(r) = idem[body[r].key])
  BY <1>0, <1>2 DEF Entry, RegistryAgrees, TypeOK
<1>5. BeginStatus(r) \in {"new", "pending", "existing"}
  BY <1>2, <1>4 DEF BeginStatus, Entries, NoEntry
<1>6. BeginStatus(r) = "existing" => Entry(r) = idem[body[r].key]
  BY <1>4 DEF BeginStatus, Entries, NoEntry, Pending
<1>7. CASE AnswerFromRegistry(r)
  BY <1>2, <1>5, <1>6, <1>7 DEF AnswerFromRegistry, Answer, Refuse
<1>8. CASE FindParseBoundJob(r)
  BY <1>2, <1>3, <1>8 DEF FindParseBoundJob, Found, Answer, Refuse
<1>9. ~ReadRaises(r) /\ ~RefuseDraft(r) /\ ~FindRaises(r)
  BY <1>0 DEF ReadRaises, RefuseDraft, FindRaises, TypeOK
<1> QED
  BY <1>1, <1>7, <1>8, <1>9 DEF HandlerStep, ConsumeQuota, SkipQuota, LookupIdempotency,
     ConsumeToken, RereadWinner, InsertRows, CommitAdmission, TransactionRaises, InTransaction

(* A repeated request is given its original job without reaching the       *)
(* quota, in every process and after every restart.                        *)
THEOREM RetriesReturnOriginal == Spec => RetryReturnsOriginal
<1> DEFINE Good ==
      \A r \in Requests :
       /\ pc[r] = "new" /\ pc'[r] # "new"
       /\ idem[body[r].key].hash = body[r].hash
       /\ Entry(r).hash \in {None, body[r].hash}
       /\ DraftValid(r)
       /\ findFaults' = findFaults
       => reply'[r] = "in_progress" \/ (reply'[r] = "job" /\ job'[r] = idem[body[r].key].job)
<1>1. AdmissionInv /\ [Next]_vars => [Good]_vars
  BY RetryStep
<1> QED
  BY <1>1, AdmissionInvariant, PTL DEF Spec, RetryReturnsOriginal

=============================================================================
