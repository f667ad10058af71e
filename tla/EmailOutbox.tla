------------------------------- MODULE EmailOutbox -------------------------------
(***************************************************************************)
(* Report e-mails: the delivery rows (backend/app/db/email_outbox.py), the *)
(* worker that claims and submits them (workers/email_delivery_worker.py,  *)
(* services/email_provider.py), the completion trigger and the resend      *)
(* button (services/email_delivery.py) and the notification settings with  *)
(* the unsubscribe link (db/user_preferences.py,                           *)
(* services/email_unsubscribe.py, api/routes/email_reports.py).            *)
(*                                                                         *)
(* A delivery is one report of one user.  Time is abstract: a claim lease  *)
(* runs out by ClaimExpires, the resend cooldown by CooldownEnds, and a    *)
(* retry is due at any time.                                               *)
(***************************************************************************)
EXTENDS Integers, Sequences, FiniteSets, SequencesExt

CONSTANTS
  Deliveries,      \* deterministic delivery ids
  Workers,         \* e-mail worker processes
  Addresses,       \* mail addresses a user may have
  NoAddress,
  FirstAddress,    \* the address of a new user
  MaxAttempts,     \* EMAIL_MAX_ATTEMPTS, stored as max_attempts
  BatchSize,       \* EMAIL_WORKER_BATCH_SIZE
  MaxResends,      \* bound: accepted resends
  MaxEdits,        \* bound: PATCH requests for the settings
  MaxDisturbances  \* bound: faults, crashes, stops and overrun leases explored

ASSUME OutboxConstants ==
  /\ FirstAddress \in Addresses
  /\ NoAddress \notin Addresses
  /\ MaxAttempts \in Nat \ {0}
  /\ BatchSize \in Nat \ {0}
  /\ MaxResends \in Nat
  /\ MaxEdits \in Nat
  /\ MaxDisturbances \in Nat

VARIABLES
  row,        \* app.email_delivery_history
  minted,     \* claim tokens made for a row so far
  prefs,      \* app.users: email, daily_report_email, action_emails
  reportOk,   \* the user and the report exist
  resend,     \* address read by a resend between its two transactions
  unsub,      \* settings read by an unsubscribe before it writes them back
  patch,      \* a PATCH of the settings between reading the user and writing
  pc, claims, deadline, stopping, verdict,   \* the workers
  wishSeen,   \* history: the user's wish when the head claim was checked
  wish,       \* history: FALSE once unsubscribed, until action mail is asked for
  posted,     \* history: submissions to the provider
  disturbed,  \* history: deliveries hit by a disturbance since their last resend
  edits, disturbances

requests == <<resend, unsub, patch, edits>>
worker   == <<pc, claims, deadline, stopping, verdict, wishSeen>>
vars == <<row, minted, prefs, reportOk, resend, unsub, patch, pc, claims,
          deadline, stopping, verdict, wishSeen, wish, posted, disturbed,
          edits, disturbances>>

Terminal == {"SENT", "FAILED", "CANCELLED"}
Waiting  == {"PENDING", "RETRY_PENDING"}
NoRow == [status |-> "none", attempts |-> 0, token |-> 0, expired |-> FALSE,
          to |-> NoAddress, recent |-> FALSE, epoch |-> 0]
NoPatch == [on |-> FALSE, email |-> NoAddress, daily |-> "keep", action |-> "keep"]
NoUnsub == [on |-> FALSE, email |-> NoAddress, daily |-> FALSE]

Init ==
  /\ row = [d \in Deliveries |-> NoRow]
  /\ minted = [d \in Deliveries |-> 0]
  /\ prefs = [d \in Deliveries |-> [email |-> FirstAddress, daily |-> TRUE, action |-> TRUE]]
  /\ reportOk = [d \in Deliveries |-> TRUE]
  /\ resend = [d \in Deliveries |-> NoAddress]
  /\ unsub = [d \in Deliveries |-> NoUnsub]
  /\ patch = [d \in Deliveries |-> NoPatch]
  /\ pc = [w \in Workers |-> "poll"]
  /\ claims = [w \in Workers |-> <<>>]
  /\ deadline = [w \in Workers |-> FALSE]
  /\ stopping = [w \in Workers |-> FALSE]
  /\ verdict = [w \in Workers |-> "none"]
  /\ wishSeen = [w \in Workers |-> FALSE]
  /\ wish = [d \in Deliveries |-> TRUE]
  /\ posted = {}
  /\ disturbed = {}
  /\ edits = 0
  /\ disturbances = 0

-----------------------------------------------------------------------------
(* Enqueueing.                                                             *)

(* resolve_report_completed_delivery_eligibility: why not to send, or      *)
(* "eligible".  The switches of the deployment are on.                     *)
Eligibility(d) ==
  IF ~reportOk[d] THEN "missing"
  ELSE IF prefs[d].daily /\ prefs[d].action THEN "eligible" ELSE "optedOut"

(* A row as an enqueue or a requeue writes it.                             *)
Queued(to, epoch) ==
  [status |-> "PENDING", attempts |-> 0, token |-> 0, expired |-> FALSE,
   to |-> to, recent |-> FALSE, epoch |-> epoch]

NewRow(d) == [row EXCEPT ![d] = Queued(prefs[d].email, 0)]

(* The completion of a run enqueues its report, once: the delivery id is   *)
(* derived from user, report, trigger and template.                        *)
CompleteReport(d) ==
  /\ Eligibility(d) = "eligible"
  /\ row[d].status = "none"
  /\ row' = NewRow(d)
  /\ UNCHANGED <<minted, prefs, reportOk, requests, worker, wish, posted,
                 disturbed, disturbances>>

(* Resends accepted or under way, for the bound.                           *)
Resends == MapThenSumSet(LAMBDA d : row[d].epoch, Deliveries)
             + Cardinality({d \in Deliveries : resend[d] # NoAddress})

(* A resend reads the settings and the row; a missing row is created, a    *)
(* terminal one is requeued in a second transaction, anything else is left *)
(* alone.                                                                  *)
ResendRequest(d) ==
  /\ resend[d] = NoAddress
  /\ Resends < MaxResends
  /\ Eligibility(d) = "eligible"
  /\ \/ row[d].status = "none" /\ row' = NewRow(d) /\ UNCHANGED resend
     \/ /\ row[d].status \in Terminal
        /\ resend' = [resend EXCEPT ![d] = prefs[d].email]
        /\ UNCHANGED row
  /\ UNCHANGED <<minted, prefs, reportOk, unsub, patch, edits, worker, wish,
                 posted, disturbed, disturbances>>

Requeueable(d) ==
  /\ row[d].status \in Terminal
  /\ ~row[d].recent

ResendRequeue(d) ==
  /\ resend[d] # NoAddress
  /\ \/ /\ Requeueable(d)
        /\ row' = [row EXCEPT ![d] = Queued(resend[d], row[d].epoch + 1)]
        /\ disturbed' = disturbed \ {d}
     \/ ~Requeueable(d) /\ UNCHANGED <<row, disturbed>>
  /\ resend' = [resend EXCEPT ![d] = NoAddress]
  /\ UNCHANGED <<minted, prefs, reportOk, unsub, patch, edits, worker, wish,
                 posted, disturbances>>

(* A row after time has passed for its lease or its cooldown.              *)
Aged(d, expired, recent) ==
  [status |-> row[d].status, attempts |-> row[d].attempts, token |-> row[d].token,
   expired |-> expired, to |-> row[d].to, recent |-> recent, epoch |-> row[d].epoch]

(* EMAIL_RESEND_COOLDOWN_SECONDS pass since the row's last event.          *)
CooldownEnds(d) ==
  /\ row[d].recent
  /\ row' = [row EXCEPT ![d] = Aged(d, row[d].expired, FALSE)]
  /\ UNCHANGED <<minted, prefs, reportOk, requests, worker, wish, posted,
                 disturbed, disturbances>>

-----------------------------------------------------------------------------
(* Notification settings.  Both writers read the user first and write in a *)
(* second transaction; a value the caller left out is kept.                *)

PatchSettings(d, email, daily, action) ==
  /\ ~patch[d].on
  /\ edits < MaxEdits
  /\ edits' = edits + 1
  /\ patch' = [patch EXCEPT ![d] =
       [on |-> TRUE, daily |-> daily, action |-> action,
        email |-> IF email = NoAddress THEN prefs[d].email ELSE email]]
  /\ UNCHANGED <<row, minted, prefs, reportOk, resend, unsub, worker, wish,
                 posted, disturbed, disturbances>>

Asked(choice, current) == IF choice = "keep" THEN current ELSE choice = "on"
AskedDefaultOn(choice, current) == choice # "off"

ActionAsked(choice, current) == Asked(choice, current)

SavePatch(d) ==
  /\ patch[d].on
  /\ prefs' = [prefs EXCEPT ![d] =
       [email |-> patch[d].email,
        daily |-> Asked(patch[d].daily, @.daily),
        action |-> ActionAsked(patch[d].action, @.action)]]
  /\ wish' = [wish EXCEPT ![d] = Asked(patch[d].action, @)]
  /\ patch' = [patch EXCEPT ![d] = NoPatch]
  /\ UNCHANGED <<row, minted, reportOk, resend, unsub, edits, worker, posted,
                 disturbed, disturbances>>

(* confirm_unsubscribe loads all settings and writes them all back with    *)
(* action_emails off.                                                      *)
Unsubscribe(d) ==
  /\ ~unsub[d].on
  /\ prefs[d].action
  /\ unsub' = [unsub EXCEPT ![d] =
       [on |-> TRUE, email |-> prefs[d].email, daily |-> prefs[d].daily]]
  /\ UNCHANGED <<row, minted, prefs, reportOk, resend, patch, edits, worker,
                 wish, posted, disturbed, disturbances>>

SaveUnsubscribe(d) ==
  /\ unsub[d].on
  /\ prefs' = [prefs EXCEPT ![d] =
       [email |-> unsub[d].email, daily |-> unsub[d].daily, action |-> FALSE]]
  /\ wish' = [wish EXCEPT ![d] = FALSE]
  /\ unsub' = [unsub EXCEPT ![d] = NoUnsub]
  /\ UNCHANGED <<row, minted, reportOk, resend, patch, edits, worker, posted,
                 disturbed, disturbances>>

(* The user or the report is deleted.                                      *)
DeleteReport(d) ==
  /\ reportOk[d]
  /\ reportOk' = [reportOk EXCEPT ![d] = FALSE]
  /\ UNCHANGED <<row, minted, prefs, requests, worker, wish, posted,
                 disturbed, disturbances>>

-----------------------------------------------------------------------------
(* The worker: run_once.                                                   *)

SpentLate(d) == row[d].attempts > MaxAttempts
Spent(d) == row[d].attempts >= MaxAttempts
Settled(d, status) ==
  [status |-> status, attempts |-> row[d].attempts, token |-> 0, expired |-> FALSE,
   to |-> row[d].to, recent |-> TRUE, epoch |-> row[d].epoch]
RetryOrFail(d) == Settled(d, IF Spent(d) THEN "FAILED" ELSE "RETRY_PENDING")

HeldBy(w) == {claims[w][i].d : i \in DOMAIN claims[w]}
Holds(w, d) == \E i \in DOMAIN claims[w] :
                 claims[w][i].d = d /\ claims[w][i].token = row[d].token

(* A lease runs out: freely when its worker is gone, as a disturbance when *)
(* the worker still means to use the claim.                                *)
ClaimExpires(d) ==
  /\ row[d].status = "PROCESSING"
  /\ ~row[d].expired
  /\ row' = [row EXCEPT ![d] = Aged(d, TRUE, row[d].recent)]
  /\ IF \E w \in Workers : Holds(w, d)
     THEN /\ disturbances < MaxDisturbances
          /\ disturbances' = disturbances + 1
          /\ disturbed' = disturbed \cup {d}
     ELSE UNCHANGED <<disturbances, disturbed>>
  /\ UNCHANGED <<minted, prefs, reportOk, requests, worker, wish, posted>>

(* release_expired_claims: one row per transaction.                        *)
ReleaseExpired(w, d) ==
  /\ pc[w] = "poll"
  /\ row[d].status = "PROCESSING"
  /\ row[d].expired
  /\ row' = [row EXCEPT ![d] = RetryOrFail(d)]
  /\ UNCHANGED <<minted, prefs, reportOk, requests, worker, wish, posted,
                 disturbed, disturbances>>

StartClaiming(w) ==
  /\ pc[w] = "poll"
  /\ \A d \in Deliveries : ~row[d].expired
  /\ pc' = [pc EXCEPT ![w] = "claim"]
  /\ UNCHANGED <<row, minted, prefs, reportOk, requests, claims, deadline,
                 stopping, verdict, wishSeen, wish, posted, disturbed,
                 disturbances>>

ClaimableHeld(d) == row[d].status \in Waiting \cup {"PROCESSING"} /\ row[d].attempts < MaxAttempts
Claimable(d) == row[d].status \in Waiting /\ row[d].attempts < MaxAttempts

ClaimedUncounted(d) ==
  [status |-> "PROCESSING", attempts |-> row[d].attempts, token |-> minted[d] + 1,
   expired |-> FALSE, to |-> row[d].to, recent |-> TRUE, epoch |-> row[d].epoch]
Claimed(d) ==
  [status |-> "PROCESSING", attempts |-> row[d].attempts + 1, token |-> minted[d] + 1,
   expired |-> FALSE, to |-> row[d].to, recent |-> TRUE, epoch |-> row[d].epoch]

BatchOpenLate(w) == ~stopping[w] /\ Len(claims[w]) <= BatchSize
BatchOpen(w) == ~stopping[w] /\ Len(claims[w]) < BatchSize

ClaimNext(w, d) ==
  /\ pc[w] = "claim"
  /\ BatchOpen(w)
  /\ Claimable(d)
  /\ minted' = [minted EXCEPT ![d] = @ + 1]
  /\ row' = [row EXCEPT ![d] = Claimed(d)]
  /\ claims' = [claims EXCEPT ![w] = Append(@,
       [d |-> d, token |-> minted[d] + 1, to |-> row[d].to, epoch |-> row[d].epoch])]
  /\ UNCHANGED <<prefs, reportOk, requests, pc, deadline, stopping, verdict,
                 wishSeen, wish, posted, disturbed, disturbances>>

(* After a round without work or a failed one: the next round, or the end  *)
(* of a stopping worker.                                                   *)
AfterRound(w) == IF stopping[w] THEN "stopped" ELSE "poll"

(* The batch is full, or no row is due; a retry may be waiting for its     *)
(* backoff.                                                                *)
StopClaiming(w) ==
  /\ pc[w] = "claim"
  /\ \/ stopping[w]
     \/ Len(claims[w]) = BatchSize
     \/ \A d \in Deliveries : row[d].status # "PENDING"
  /\ pc' = [pc EXCEPT ![w] = IF claims[w] = <<>> THEN AfterRound(w) ELSE "check"]
  /\ deadline' = [deadline EXCEPT ![w] = stopping[w]]
  /\ UNCHANGED <<row, minted, prefs, reportOk, requests, claims, stopping,
                 verdict, wishSeen, wish, posted, disturbed, disturbances>>

Decide(w, v, next) ==
  /\ verdict' = [verdict EXCEPT ![w] = v]
  /\ pc' = [pc EXCEPT ![w] = next]

(* _revalidate_claim against the settings of now, and the checks of        *)
(* message and provider configuration before anything is sent.  A failed   *)
(* load ends in mark_retry_pending.                                        *)
CheckDecision(c) ==
  CASE Eligibility(c.d) = "missing" -> {"fail", "retry"}
    [] Eligibility(c.d) = "optedOut" -> {"cancel", "retry"}
    [] Eligibility(c.d) = "eligible" /\ prefs[c.d].email # c.to -> {"cancel", "retry"}
    [] OTHER -> {"send", "fail", "retry"}

CheckClaim(w) ==
  /\ pc[w] = "check"
  /\ \E v \in CheckDecision(Head(claims[w])) :
       IF v = "send" THEN Decide(w, "none", "send") ELSE Decide(w, v, "settle")
  /\ wishSeen' = [wishSeen EXCEPT ![w] = wish[Head(claims[w]).d]]
  /\ UNCHANGED <<row, minted, prefs, reportOk, requests, claims, deadline,
                 stopping, wish, posted, disturbed, disturbances>>

(* provider.send: refused before the message is posted, or posted and      *)
(* accepted, rejected for now, or rejected for good.                       *)
Post(w, accepted) ==
  posted' = posted \cup
    {[d |-> Head(claims[w]).d, token |-> Head(claims[w]).token,
      to |-> Head(claims[w]).to, epoch |-> Head(claims[w]).epoch,
      accepted |-> accepted, wish |-> wishSeen[w]]}

ProviderSend(w) ==
  /\ pc[w] = "send"
  /\ \/ Post(w, TRUE) /\ Decide(w, "sent", "settle")
     \/ \E v \in {"retry", "fail"} : Post(w, FALSE) /\ Decide(w, v, "settle")
     \/ \E v \in {"retry", "fail"} : UNCHANGED posted /\ Decide(w, v, "settle")
  /\ UNCHANGED <<row, minted, prefs, reportOk, requests, claims, deadline,
                 stopping, wishSeen, wish, disturbed, disturbances>>

Disturbance ==
  /\ disturbances < MaxDisturbances
  /\ disturbances' = disturbances + 1

(* The provider accepts the message and the answer is lost or times out.   *)
SendReplyLost(w) ==
  /\ pc[w] = "send"
  /\ Disturbance
  /\ Post(w, TRUE)
  /\ Decide(w, "retry", "settle")
  /\ disturbed' = disturbed \cup {Head(claims[w]).d}
  /\ UNCHANGED <<row, minted, prefs, reportOk, requests, claims, deadline,
                 stopping, wishSeen, wish>>

(* mark_sent, mark_retry_pending, mark_failed, mark_cancelled.             *)
Outcome(d, v) ==
  CASE v = "sent" -> Settled(d, "SENT")
    [] v = "fail" -> Settled(d, "FAILED")
    [] v = "cancel" -> Settled(d, "CANCELLED")
    [] v = "retry" -> RetryOrFail(d)

OwnsAny(c) == c.d \in Deliveries
OwnsStatus(c) == row[c.d].status = "PROCESSING"
Owns(c) == row[c.d].status = "PROCESSING" /\ row[c.d].token = c.token

(* The next claim of the batch; a worker told to stop starts its grace     *)
(* period here.                                                            *)
NextClaim(w) ==
  /\ claims' = [claims EXCEPT ![w] = Tail(@)]
  /\ verdict' = [verdict EXCEPT ![w] = "none"]
  /\ pc' = [pc EXCEPT ![w] = IF Len(claims[w]) = 1 THEN "poll" ELSE "check"]
  /\ deadline' = [deadline EXCEPT ![w] = stopping[w]]

SettleClaim(w) ==
  /\ pc[w] = "settle"
  /\ LET c == Head(claims[w])
     IN row' = IF Owns(c) THEN [row EXCEPT ![c.d] = Outcome(c.d, verdict[w])] ELSE row
  /\ NextClaim(w)
  /\ UNCHANGED <<minted, prefs, reportOk, requests, stopping, wishSeen, wish,
                 posted, disturbed, disturbances>>

(* The write fails: the claim is given up and its lease has to run out.    *)
SettleFault(w) ==
  /\ pc[w] = "settle"
  /\ Disturbance
  /\ disturbed' = disturbed \cup {Head(claims[w]).d}
  /\ NextClaim(w)
  /\ UNCHANGED <<row, minted, prefs, reportOk, requests, stopping, wishSeen,
                 wish, posted>>

(* A failed claim query loses the batch claimed so far.                    *)
ClaimFault(w) ==
  /\ pc[w] = "claim"
  /\ Disturbance
  /\ disturbed' = disturbed \cup HeldBy(w)
  /\ claims' = [claims EXCEPT ![w] = <<>>]
  /\ pc' = [pc EXCEPT ![w] = AfterRound(w)]
  /\ UNCHANGED <<row, minted, prefs, reportOk, requests, deadline, stopping,
                 verdict, wishSeen, wish, posted>>

Forget(w, next) ==
  /\ disturbed' = disturbed \cup HeldBy(w)
  /\ claims' = [claims EXCEPT ![w] = <<>>]
  /\ pc' = [pc EXCEPT ![w] = next]
  /\ verdict' = [verdict EXCEPT ![w] = "none"]
  /\ deadline' = [deadline EXCEPT ![w] = FALSE]
  /\ UNCHANGED <<row, minted, prefs, reportOk, requests, wishSeen, wish, posted>>

(* The grace period ends: the current claim is cancelled wherever it       *)
(* stands and the rest of the batch is skipped.                            *)
GraceEnds(w) ==
  /\ pc[w] \in {"check", "send", "settle"}
  /\ deadline[w]
  /\ Forget(w, "poll")
  /\ UNCHANGED <<stopping, disturbances>>

CrashWorker(w) ==
  /\ pc[w] # "stopped"
  /\ Disturbance
  /\ Forget(w, "stopped")
  /\ UNCHANGED stopping

(* SIGTERM sets the stop event.                                            *)
StopWorker(w) ==
  /\ pc[w] # "stopped"
  /\ ~stopping[w]
  /\ Disturbance
  /\ stopping' = [stopping EXCEPT ![w] = TRUE]
  /\ UNCHANGED <<row, minted, prefs, reportOk, requests, pc, claims, deadline,
                 verdict, wishSeen, wish, posted, disturbed>>

(* The supervisor starts the worker again.                                 *)
StartWorker(w) ==
  /\ pc[w] = "stopped"
  /\ pc' = [pc EXCEPT ![w] = "poll"]
  /\ stopping' = [stopping EXCEPT ![w] = FALSE]
  /\ UNCHANGED <<row, minted, prefs, reportOk, requests, claims, deadline,
                 verdict, wishSeen, wish, posted, disturbed, disturbances>>

-----------------------------------------------------------------------------
User(d) ==
  \/ CompleteReport(d) \/ ResendRequest(d) \/ ResendRequeue(d)
  \/ \E e \in Addresses \cup {NoAddress}, y, a \in {"keep", "on", "off"} :
       PatchSettings(d, e, y, a)
  \/ SavePatch(d) \/ Unsubscribe(d) \/ SaveUnsubscribe(d) \/ DeleteReport(d)

Clock(d) == ClaimExpires(d) \/ CooldownEnds(d)

RunOnce(w) ==
  \/ \E d \in Deliveries : ReleaseExpired(w, d) \/ ClaimNext(w, d)
  \/ StartClaiming(w) \/ StopClaiming(w) \/ CheckClaim(w) \/ ProviderSend(w)
  \/ SettleClaim(w) \/ StartWorker(w)

Disturb(w) ==
  \/ SendReplyLost(w) \/ SettleFault(w) \/ ClaimFault(w) \/ GraceEnds(w)
  \/ CrashWorker(w) \/ StopWorker(w)

Next ==
  \/ \E d \in Deliveries : User(d) \/ Clock(d)
  \/ \E w \in Workers : RunOnce(w) \/ Disturb(w)

Spec == Init /\ [][Next]_vars

(* A started worker keeps polling and a stopped one is started again; the  *)
(* lease of a claim that nobody settles runs out; a row that stays due is  *)
(* claimed in the end (ORDER BY available_at).                             *)
FairSpec ==
  /\ Spec
  /\ \A w \in Workers : WF_vars(RunOnce(w))
  /\ \A d \in Deliveries :
       /\ WF_vars(ClaimExpires(d))
       /\ SF_vars(\E w \in Workers : ClaimNext(w, d))

-----------------------------------------------------------------------------
Claim == [d : Deliveries, token : Nat, to : Addresses, epoch : Nat]
TypeOK ==
  /\ row \in [Deliveries ->
       [status : {"none", "PROCESSING"} \cup Waiting \cup Terminal,
        attempts : 0 .. MaxAttempts, token : Nat, expired : BOOLEAN,
        to : Addresses \cup {NoAddress}, recent : BOOLEAN, epoch : Nat]]
  /\ minted \in [Deliveries -> Nat]
  /\ prefs \in [Deliveries -> [email : Addresses, daily : BOOLEAN, action : BOOLEAN]]
  /\ pc \in [Workers -> {"poll", "claim", "check", "send", "settle", "stopped"}]
  /\ claims \in [Workers -> Seq(Claim)]
  /\ \A w \in Workers : Len(claims[w]) <= BatchSize
  /\ verdict \in [Workers -> {"none", "sent", "fail", "cancel", "retry"}]
  /\ disturbed \subseteq Deliveries

SubmittedIn(d, e) == {p \in posted : p.d = d /\ p.epoch = e}
AcceptedIn(d, e) == {p \in SubmittedIn(d, e) : p.accepted}

(* However leases overrun, workers die and answers get lost, one request   *)
(* to send a report is submitted to the provider at most max_attempts      *)
(* times.                                                                  *)
SubmissionsBounded ==
  \A d \in Deliveries, e \in 0 .. MaxResends :
    Cardinality(SubmittedIn(d, e)) <= MaxAttempts

(* A row says SENT only when the provider accepted this very request, to   *)
(* the address on the row: a late worker never settles a claim or a resend *)
(* that is not its own.                                                    *)
SentWasAccepted ==
  \A d \in Deliveries : row[d].status = "SENT" =>
    \E p \in AcceptedIn(d, row[d].epoch) : p.to = row[d].to

(* Without a disturbance a report is accepted at most once, and a settled  *)
(* row says SENT exactly when it was.                                      *)
OnceUnlessDisturbed ==
  \A d \in Deliveries \ disturbed :
    /\ Cardinality(AcceptedIn(d, row[d].epoch)) <= 1
    /\ row[d].status \in Terminal =>
         (row[d].status = "SENT" <=> AcceptedIn(d, row[d].epoch) # {})

(* No claim that is checked after the user unsubscribed is submitted, until*)
(* a change of the settings asks for action mail again, whatever other     *)
(* writes of the settings are under way.                                   *)
NoMailAfterUnsubscribe == \A p \in posted : p.wish

(* A terminal row changes only by a resend, which starts a new epoch.      *)
TerminalUntilResend ==
  [][\A d \in Deliveries :
       row[d].status \in Terminal /\ row'[d].status # row[d].status
         => /\ row'[d].status = "PENDING"
            /\ row'[d].epoch = row[d].epoch + 1]_vars

(* An enqueued report reaches a terminal status.                           *)
EveryDeliverySettles ==
  \A d \in Deliveries :
    row[d].status \in Waiting \cup {"PROCESSING"} ~> row[d].status \in Terminal
=============================================================================
