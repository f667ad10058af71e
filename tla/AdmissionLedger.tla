---------------------------- MODULE AdmissionLedger ----------------------------
(***************************************************************************)
(* What the admission of parse-bound analysis jobs promises to clients: an *)
(* idempotency key is bound once, for ever, to one specification and one   *)
(* job; a parse token pays for one job; and a client is only ever told of  *)
(* the job its key is bound to.                                            *)
(***************************************************************************)
CONSTANTS Keys, Tokens, Hashes, Requests, TokenHash, NoEntry

VARIABLES
  ledger,  \* key -> [hash, job], or NoEntry
  spent,   \* tokens that have paid for a job
  told     \* <<key, hash, job>> answers given to clients

ledgerVars == <<ledger, spent, told>>

Init == ledger = [k \in Keys |-> NoEntry] /\ spent = {} /\ told = {}

(* The job is named after the request that creates it.                     *)
Admit(k, t, r) ==
  /\ ledger[k] = NoEntry
  /\ t \notin spent
  /\ ledger' = [ledger EXCEPT ![k] = [hash |-> TokenHash[t], job |-> r]]
  /\ spent' = spent \cup {t}

(* The answer may be lost: the client then learns of the job by a retry.   *)
AdmitOnly(k, t, r) == Admit(k, t, r) /\ UNCHANGED told

AdmitAndTell(k, t, r) ==
  /\ Admit(k, t, r)
  /\ told' = told \cup {<<k, TokenHash[t], r>>}

Tell(k) ==
  /\ ledger[k] # NoEntry
  /\ told' = told \cup {<<k, ledger[k].hash, ledger[k].job>>}
  /\ UNCHANGED <<ledger, spent>>

Next ==
  \/ \E k \in Keys, t \in Tokens, r \in Requests : AdmitOnly(k, t, r) \/ AdmitAndTell(k, t, r)
  \/ \E k \in Keys : Tell(k)

Spec == Init /\ [][Next]_ledgerVars

=============================================================================
