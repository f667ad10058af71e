-------------------------- MODULE ParseBoundAdmission --------------------------
(***************************************************************************)
(* POST /analysis-jobs with a parse token: the process-local retry fence   *)
(* (api.py: _CoreJobIdempotencyRegistry), the draft check, the durable     *)
(* lookup, the bearer quota in Redis (token_auth.py) and the PostgreSQL    *)
(* transaction that consumes the token and writes the job, its idempotency *)
(* record and its outbox row (job_repository_postgres.py:                  *)
(* admit_parse_bound_job).                                                 *)
(*                                                                         *)
(* The handler is a coroutine: within a process only the quota call        *)
(* awaits, everything else runs on the event loop.  Two processes meet in  *)
(* PostgreSQL and Redis only.  All records are keyed by user, so one user  *)
(* stands for all.  A job is named after the request that creates it.      *)
(***************************************************************************)
EXTENDS Integers, FiniteSets

CONSTANTS
  Procs,          \* API processes (one per host, two while a deploy overlaps)
  Requests, Keys, Tokens, Hashes,
  TokenHash,      \* the rule digest each parse token was issued for
  Bodies,         \* what clients send, and which process it reaches
  None,
  QuotaLimit,     \* quota_limit of the bearer token
  MaxDisturbances \* bound: raised calls, crashes, ended windows and expired tokens

ASSUME AdmissionConstants ==
  /\ TokenHash \in [Tokens -> Hashes]
  /\ None \notin Hashes \cup Requests
  /\ QuotaLimit \in Nat
  /\ Bodies \subseteq [proc : Procs, key : Keys, token : Tokens, hash : Hashes]
  /\ MaxDisturbances \in Nat

VARIABLES
  body,       \* what each request carries and which process it reaches
  pc,         \* where its handler stands
  reply,      \* what the client is told
  job,        \* ... and of which job
  registry,   \* _CoreJobIdempotencyRegistry._requests of each process
  idem,       \* committed app.ai_analysis_job_idempotency rows
  consumed,   \* tokens with consumed_at set
  expired,    \* tokens past expires_at
  tokenLock,  \* uncommitted UPDATE of a token row
  rowLock,    \* uncommitted INSERT of an idempotency row
  used,       \* Redis: the quota counter of the current window
  reserved,   \* Redis: keys whose reservation is alive
  findFaults, \* reads before the quota that raised
  txnFaults,  \* admission transactions that raised
  crashes, windows

client   == <<body, pc, reply, job>>
durable  == <<idem, consumed, tokenLock, rowLock>>
redis    == <<used, reserved>>
bounds   == <<findFaults, txnFaults, crashes, windows>>
vars     == <<client, registry, durable, expired, redis, bounds>>

Entries == [hash : Hashes \cup {None}, job : Requests \cup {None}]
NoEntry == [hash |-> None, job |-> None]

Replies == {"none", "job", "refused", "in_progress", "over_quota", "error"}
InTransaction == {"consume", "reread", "insert", "commit"}
AtWork == {"quota", "lookup"} \cup InTransaction
PcValues == {"new", "done", "gone"} \cup AtWork

Init ==
  /\ body \in [Requests -> Bodies]
  /\ pc = [r \in Requests |-> "new"]
  /\ reply = [r \in Requests |-> "none"]
  /\ job = [r \in Requests |-> None]
  /\ registry = [p \in Procs |-> [k \in Keys |-> NoEntry]]
  /\ idem = [k \in Keys |-> NoEntry]
  /\ consumed = {} /\ expired = {}
  /\ tokenLock = [t \in Tokens |-> None]
  /\ rowLock = [k \in Keys |-> None]
  /\ used = 0 /\ reserved = {}
  /\ findFaults = 0 /\ txnFaults = 0 /\ crashes = 0 /\ windows = 0

MoreDisturbances ==
  findFaults + txnFaults + crashes + windows + Cardinality(expired) < MaxDisturbances

Entry(r) == registry[body[r].proc][body[r].key]

(* The repository calls are synchronous: a handler inside its transaction  *)
(* keeps every other handler of its process off the event loop.            *)
LoopFree(r) ==
  \A q \in Requests : body[q].proc = body[r].proc => pc[q] \notin InTransaction

-----------------------------------------------------------------------------
(* The registry.  complete and discard touch only the caller's own pending *)
(* entry.                                                                  *)

SetEntry(r, e) ==
  registry' = [registry EXCEPT ![body[r].proc] = [@ EXCEPT ![body[r].key] = e]]

Pending(r) == [hash |-> body[r].hash, job |-> None]

Complete(r, j) ==
  IF Entry(r) = Pending(r)
    THEN SetEntry(r, [hash |-> body[r].hash, job |-> j])
    ELSE UNCHANGED registry

(* Mutant: a failed admission keeps its fence.                             *)
DiscardNothing(r) == UNCHANGED registry

Discard(r) ==
  IF Entry(r) = Pending(r) THEN SetEntry(r, NoEntry) ELSE UNCHANGED registry

(* Responses.                                                              *)
Answer(r, j) ==
  /\ pc' = [pc EXCEPT ![r] = "done"]
  /\ reply' = [reply EXCEPT ![r] = "job"]
  /\ job' = [job EXCEPT ![r] = j]
  /\ UNCHANGED body

Refuse(r, why) ==
  /\ pc' = [pc EXCEPT ![r] = "done"]
  /\ reply' = [reply EXCEPT ![r] = why]
  /\ UNCHANGED <<body, job>>

Proceed(r, target) ==
  /\ pc' = [pc EXCEPT ![r] = target]
  /\ UNCHANGED <<body, reply, job>>

-----------------------------------------------------------------------------
(* Up to the quota call.                                                   *)

(* Mutant: an entry whose job is not known yet counts as existing.         *)
BeginStatusUnfenced(r) ==
  IF Entry(r) = NoEntry THEN "new"
  ELSE IF Entry(r).hash # body[r].hash THEN "conflict" ELSE "existing"

BeginStatus(r) ==
  IF Entry(r) = NoEntry THEN "new"
  ELSE IF Entry(r).hash # body[r].hash THEN "conflict"
  ELSE IF Entry(r) = Pending(r) THEN "pending" ELSE "existing"

(* begin() finds an entry.                                                 *)
AnswerFromRegistry(r) ==
  /\ pc[r] = "new" /\ LoopFree(r)
  /\ \/ BeginStatus(r) = "conflict" /\ Refuse(r, "refused")
     \/ BeginStatus(r) = "pending" /\ Refuse(r, "in_progress")
     \/ BeginStatus(r) = "existing" /\ Answer(r, Entry(r).job)
  /\ UNCHANGED <<registry, durable, expired, redis, bounds>>

(* ... and the job it names cannot be read: get_job raises.                *)
ReadRaises(r) ==
  /\ pc[r] = "new" /\ LoopFree(r)
  /\ BeginStatus(r) = "existing"
  /\ MoreDisturbances
  /\ findFaults' = findFaults + 1
  /\ Refuse(r, "error")
  /\ UNCHANGED <<registry, durable, expired, redis, txnFaults, crashes, windows>>

(* begin() makes an entry, and the digest comparison or signer.verify has  *)
(* it discarded again.                                                     *)
DraftValid(r) == body[r].hash = TokenHash[body[r].token] /\ body[r].token \notin expired

RefuseDraft(r) ==
  /\ pc[r] = "new" /\ LoopFree(r)
  /\ BeginStatus(r) = "new"
  /\ ~DraftValid(r)
  /\ Refuse(r, "refused")
  /\ UNCHANGED <<registry, durable, expired, redis, bounds>>

(* Mutant: the durable record is not looked up before the quota.           *)
FoundNever(r) == NoEntry

Found(r) == idem[body[r].key]

FindParseBoundJob(r) ==
  /\ pc[r] = "new" /\ LoopFree(r)
  /\ BeginStatus(r) = "new"
  /\ DraftValid(r)
  /\ \/ /\ Found(r) = NoEntry
        /\ SetEntry(r, Pending(r))
        /\ Proceed(r, "quota")
     \/ /\ Found(r) # NoEntry
        /\ Found(r).hash # body[r].hash
        /\ Refuse(r, "refused")
        /\ UNCHANGED registry
     \/ /\ Found(r) # NoEntry
        /\ Found(r).hash = body[r].hash
        /\ SetEntry(r, Found(r))
        /\ Answer(r, Found(r).job)
  /\ UNCHANGED <<durable, expired, redis, bounds>>

(* The lookup raises a database error.  The handler catches only           *)
(* ParseBoundAdmissionError and JobStoreConfigurationError here.           *)
FindRaises(r) ==
  /\ pc[r] = "new" /\ LoopFree(r)
  /\ BeginStatus(r) = "new"
  /\ DraftValid(r)
  /\ MoreDisturbances
  /\ findFaults' = findFaults + 1
  /\ SetEntry(r, Pending(r))
  /\ Refuse(r, "error")
  /\ UNCHANGED <<durable, expired, redis, txnFaults, crashes, windows>>

(* The Lua script: one unit per key while its reservation lives.           *)
ConsumeQuota(r) ==
  /\ pc[r] = "quota" /\ LoopFree(r)
  /\ IF body[r].key \in reserved
       THEN Proceed(r, "lookup") /\ UNCHANGED <<registry, redis>>
       ELSE /\ used' = used + 1
            /\ IF used + 1 > QuotaLimit
                 THEN /\ Refuse(r, "over_quota")
                      /\ Discard(r)
                      /\ UNCHANGED reserved
                 ELSE /\ Proceed(r, "lookup")
                      /\ reserved' = reserved \cup {body[r].key}
                      /\ UNCHANGED registry
  /\ UNCHANGED <<durable, expired, bounds>>

(* No bearer token (a cookie session), no Redis, or a Redis error: the     *)
(* request is let through, even if the script ran and only its answer,     *)
(* over the limit, was lost.                                               *)
SkipQuota(r) ==
  /\ pc[r] = "quota" /\ LoopFree(r)
  /\ Proceed(r, "lookup")
  /\ \/ UNCHANGED redis
     \/ /\ body[r].key \notin reserved /\ used + 1 > QuotaLimit
        /\ used' = used + 1
        /\ UNCHANGED reserved
  /\ UNCHANGED <<registry, durable, expired, bounds>>

-----------------------------------------------------------------------------
(* The admission transaction (READ COMMITTED), one action per statement.   *)

AnswerExisting(r) ==
  /\ idem[body[r].key].hash = body[r].hash
  /\ Answer(r, idem[body[r].key].job)
  /\ Complete(r, idem[body[r].key].job)

RefuseAdmission(r) == Refuse(r, "refused") /\ Discard(r)

LookupIdempotency(r) ==
  /\ pc[r] = "lookup" /\ LoopFree(r)
  /\ \/ /\ idem[body[r].key] = NoEntry
        /\ Proceed(r, "consume")
        /\ UNCHANGED registry
     \/ idem[body[r].key] # NoEntry /\ AnswerExisting(r)
     \/ /\ idem[body[r].key] # NoEntry
        /\ idem[body[r].key].hash # body[r].hash
        /\ RefuseAdmission(r)
  /\ UNCHANGED <<durable, expired, redis, bounds>>

(* Mutant: the UPDATE does not look at consumed_at.                        *)
ConsumableUnlessExpired(t) == t \notin expired

Consumable(t) == t \notin consumed /\ t \notin expired

(* The UPDATE waits for a transaction that holds the token row.            *)
ConsumeToken(r) ==
  /\ pc[r] = "consume"
  /\ tokenLock[body[r].token] = None
  /\ IF Consumable(body[r].token)
       THEN /\ tokenLock' = [tokenLock EXCEPT ![body[r].token] = r]
            /\ Proceed(r, "insert")
       ELSE /\ UNCHANGED tokenLock
            /\ Proceed(r, "reread")
  /\ UNCHANGED <<registry, idem, consumed, rowLock, expired, redis, bounds>>

(* Nothing consumed: a concurrent identical request may have won.          *)
RereadWinner(r) ==
  /\ pc[r] = "reread"
  /\ \/ idem[body[r].key] # NoEntry /\ AnswerExisting(r)
     \/ /\ \/ idem[body[r].key] = NoEntry
           \/ idem[body[r].key].hash # body[r].hash
        /\ RefuseAdmission(r)
  /\ UNCHANGED <<durable, expired, redis, bounds>>

(* Rollback gives the token row back; so does commit.                      *)
ReleaseLocks(r) ==
  /\ tokenLock' = [t \in Tokens |-> IF tokenLock[t] = r THEN None ELSE tokenLock[t]]
  /\ rowLock' = [k \in Keys |-> IF rowLock[k] = r THEN None ELSE rowLock[k]]

(* Mutant: without the primary key the second row overwrites the first.    *)
NoConflict(r) == FALSE

Conflict(r) == idem[body[r].key] # NoEntry

(* The INSERTs.  The primary key makes one of two writers wait for the     *)
(* other, and fail if the other committed.                                 *)
InsertRows(r) ==
  /\ pc[r] = "insert"
  /\ rowLock[body[r].key] = None
  /\ IF Conflict(r)
       THEN /\ Refuse(r, "error")
            /\ Discard(r)
            /\ ReleaseLocks(r)
       ELSE /\ rowLock' = [rowLock EXCEPT ![body[r].key] = r]
            /\ Proceed(r, "commit")
            /\ UNCHANGED <<registry, tokenLock>>
  /\ UNCHANGED <<idem, consumed, expired, redis, bounds>>

(* Mutant: the token is not marked as consumed.                            *)
CommitRowsUnspent(r) ==
  /\ idem' = [idem EXCEPT ![body[r].key] = [hash |-> body[r].hash, job |-> r]]
  /\ ReleaseLocks(r)
  /\ UNCHANGED consumed

CommitRows(r) ==
  /\ idem' = [idem EXCEPT ![body[r].key] = [hash |-> body[r].hash, job |-> r]]
  /\ consumed' = consumed \cup {body[r].token}
  /\ ReleaseLocks(r)

CommitAdmission(r) ==
  /\ pc[r] = "commit"
  /\ CommitRows(r)
  /\ Complete(r, r)
  /\ Answer(r, r)
  /\ UNCHANGED <<expired, redis, bounds>>

(* A statement, the policy check or the commit raises.  The commit may     *)
(* have been applied although its acknowledgement was lost.                *)
TransactionRaises(r) ==
  /\ (pc[r] = "lookup" /\ LoopFree(r)) \/ pc[r] \in InTransaction
  /\ MoreDisturbances
  /\ txnFaults' = txnFaults + 1
  /\ Refuse(r, "error")
  /\ Discard(r)
  /\ \/ ReleaseLocks(r) /\ UNCHANGED <<idem, consumed>>
     \/ pc[r] = "commit" /\ CommitRows(r)
  /\ UNCHANGED <<expired, redis, findFaults, crashes, windows>>

-----------------------------------------------------------------------------
(* Environment.                                                            *)

ExpireToken(t) ==
  /\ t \notin expired /\ MoreDisturbances
  /\ expired' = expired \cup {t}
  /\ UNCHANGED <<client, registry, durable, redis, bounds>>

(* Counters are per window; a reservation lives for one window's length    *)
(* from its own beginning, so it outlives the counter it was charged to.   *)
RedisExpiry ==
  /\ \/ /\ MoreDisturbances
        /\ windows' = windows + 1
        /\ used' = 0
        /\ UNCHANGED reserved
     \/ /\ windows > 0
        /\ \E k \in reserved : reserved' = reserved \ {k}
        /\ UNCHANGED <<used, windows>>
  /\ UNCHANGED <<client, registry, durable, expired, findFaults, txnFaults, crashes>>

(* The process dies and restarts: its handlers are gone, PostgreSQL rolls  *)
(* their transactions back, the registry is empty.                         *)
Crash(p) ==
  /\ MoreDisturbances
  /\ crashes' = crashes + 1
  /\ LET mine == {r \in Requests : body[r].proc = p /\ pc[r] \in AtWork}
     IN  /\ pc' = [r \in Requests |-> IF r \in mine THEN "gone" ELSE pc[r]]
         /\ tokenLock' = [t \in Tokens |-> IF tokenLock[t] \in mine THEN None ELSE tokenLock[t]]
         /\ rowLock' = [k \in Keys |-> IF rowLock[k] \in mine THEN None ELSE rowLock[k]]
  /\ registry' = [registry EXCEPT ![p] = [k \in Keys |-> NoEntry]]
  /\ UNCHANGED <<body, reply, job, idem, consumed, expired, redis,
                 findFaults, txnFaults, windows>>

HandlerStep(r) ==
  \/ AnswerFromRegistry(r) \/ ReadRaises(r) \/ RefuseDraft(r) \/ FindParseBoundJob(r) \/ FindRaises(r)
  \/ ConsumeQuota(r) \/ SkipQuota(r)
  \/ LookupIdempotency(r) \/ ConsumeToken(r) \/ RereadWinner(r) \/ InsertRows(r)
  \/ CommitAdmission(r) \/ TransactionRaises(r)

Next ==
  \/ \E r \in Requests : HandlerStep(r)
  \/ \E t \in Tokens : ExpireToken(t)
  \/ RedisExpiry
  \/ \E p \in Procs : Crash(p)

Spec == Init /\ [][Next]_vars

-----------------------------------------------------------------------------
(* Properties.                                                             *)

(* Every variable ranges over the values the handler and the tables use,   *)
(* and an answer always names a job.                                       *)
TypeOK ==
  /\ body \in [Requests -> Bodies]
  /\ pc \in [Requests -> PcValues]
  /\ reply \in [Requests -> Replies]
  /\ job \in [Requests -> Requests \cup {None}]
  /\ \A r \in Requests : reply[r] = "job" => job[r] \in Requests
  /\ registry \in [Procs -> [Keys -> Entries]]
  /\ idem \in [Keys -> Entries]
  /\ consumed \subseteq Tokens /\ expired \subseteq Tokens
  /\ tokenLock \in [Tokens -> Requests \cup {None}]
  /\ rowLock \in [Keys -> Requests \cup {None}]
  /\ used \in Nat /\ reserved \subseteq Keys
  /\ {findFaults, txnFaults, crashes, windows} \subseteq Nat

(* Two processes racing on keys and tokens, statement by statement, with   *)
(* crashes and lost acknowledgements, behave like one atomic ledger.       *)
Ledger == INSTANCE AdmissionLedger WITH
  ledger <- idem,
  spent <- consumed,
  told <- {<<body[r].key, body[r].hash, job[r]>> : r \in {q \in Requests : reply[q] = "job"}}

ImplementsLedger == Ledger!Spec

(* Consuming a token and creating its job are one: a token is consumed     *)
(* exactly when a committed job was created by a request carrying it, and  *)
(* no token pays for two jobs.                                             *)
TokenPaysOneJob ==
  LET Created == {k \in Keys : idem[k] # NoEntry}
      Paid(k) == body[idem[k].job].token
  IN  /\ consumed = {Paid(k) : k \in Created}
      /\ \A k1, k2 \in Created : Paid(k1) = Paid(k2) => k1 = k2

(* The retry fence of a process never names a job other than the durable   *)
(* one, whatever another process or a late discard did.                    *)
RegistryAgrees ==
  \A p \in Procs, k \in Keys : registry[p][k].job # None => registry[p][k] = idem[k]

(* Unless a durable lookup raised, a pending fence belongs to a handler    *)
(* that is still at work in that process and will remove or complete it:   *)
(* otherwise every retry of the key is answered idempotency_in_progress    *)
(* until a restart.                                                        *)
PendingHasOwner ==
  findFaults = 0 => \A p \in Procs, k \in Keys :
    registry[p][k].hash # None /\ registry[p][k].job = None =>
      \E r \in Requests : /\ body[r].proc = p /\ body[r].key = k
                          /\ body[r].hash = registry[p][k].hash
                          /\ pc[r] \in AtWork

(* A request repeated after its job was admitted, in any process and after *)
(* any restart, is given the original job at once and never reaches the    *)
(* quota, unless its draft has expired since or the process is busy with   *)
(* another rule under the same key.                                        *)
RetryReturnsOriginal ==
  [][\A r \in Requests :
       /\ pc[r] = "new" /\ pc'[r] # "new"
       /\ idem[body[r].key].hash = body[r].hash
       /\ Entry(r).hash \in {None, body[r].hash}
       /\ DraftValid(r)
       /\ findFaults' = findFaults
       => reply'[r] = "in_progress" \/ (reply'[r] = "job" /\ job'[r] = idem[body[r].key].job)]_vars

(* The answer idempotency_in_progress, whose text says that an identical   *)
(* request is being processed, is given only while one is.                 *)
InProgressIsTrue ==
  [][\A r \in Requests :
       pc[r] = "new" /\ reply'[r] = "in_progress" =>
         \E q \in Requests : /\ body[q].proc = body[r].proc /\ body[q].key = body[r].key
                             /\ body[q].hash = body[r].hash
                             /\ pc[q] \in AtWork]_vars

-----------------------------------------------------------------------------
(* Inductive strengthenings, used by ParseBoundAdmissionProofs.            *)

(* The row locks stand for exactly the transactions that wrote the rows,   *)
(* and what such a transaction has seen stays true until it ends.          *)
LockInv ==
  /\ \A t \in Tokens : tokenLock[t] # None =>
       pc[tokenLock[t]] \in {"insert", "commit"} /\ body[tokenLock[t]].token = t
  /\ \A r \in Requests : pc[r] \in {"insert", "commit"} =>
       tokenLock[body[r].token] = r /\ body[r].token \notin consumed
  /\ \A k \in Keys : rowLock[k] # None =>
       pc[rowLock[k]] = "commit" /\ body[rowLock[k]].key = k
  /\ \A r \in Requests : pc[r] = "commit" =>
       rowLock[body[r].key] = r /\ idem[body[r].key] = NoEntry

(* A handler at work carries a valid draft and owns its pending fence.     *)
OwnsFence ==
  \A r \in Requests : pc[r] \in AtWork =>
    /\ body[r].hash = TokenHash[body[r].token]
    /\ Entry(r).hash = body[r].hash /\ Entry(r).job = None

SameSlot(r, q) == body[r].proc = body[q].proc /\ body[r].key = body[q].key

OneOwner ==
  \A r, q \in Requests :
    pc[r] \in AtWork /\ pc[q] \in AtWork /\ SameSlot(r, q) => r = q

OwnerInv == OwnsFence /\ OneOwner /\ PendingHasOwner

(* A committed row names the finished request that wrote it.               *)
RowInv ==
  \A k \in Keys : idem[k] # NoEntry =>
    /\ idem[k].job \in Requests
    /\ pc[idem[k].job] \in {"done", "gone"}
    /\ body[idem[k].job].key = k
    /\ idem[k].hash = body[idem[k].job].hash

(* Clients were told of committed jobs only.                               *)
AnswerInv ==
  \A r \in Requests :
    /\ reply[r] # "none" => pc[r] = "done"
    /\ reply[r] = "job" => idem[body[r].key] = [hash |-> body[r].hash, job |-> job[r]]

AdmissionInv ==
  TypeOK /\ LockInv /\ OwnerInv /\ RowInv /\ AnswerInv /\ TokenPaysOneJob /\ RegistryAgrees

=============================================================================
