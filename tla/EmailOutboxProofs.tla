---------------------------- MODULE EmailOutboxProofs ----------------------------
(***************************************************************************)
(* Proofs about EmailOutbox, for any number of deliveries, workers, batch  *)
(* sizes, attempts, resends and disturbances: the bound on submissions,    *)
(* that SENT means accepted, that an undisturbed report is accepted once,  *)
(* that unsubscribed users get no mail, and that a terminal row waits for  *)
(* a resend.                                                               *)
(*                                                                         *)
(* The invariant follows the claim tokens.  A token is made once and held  *)
(* by one claim, a claim is submitted once, and the tokens of one request  *)
(* to send lie in one window of MaxAttempts numbers; so a request has at   *)
(* most that many submissions.  A row that still bears a claim's token is  *)
(* the row that was claimed; so what a worker writes is about its request. *)
(*                                                                         *)
(* Steps are sorted by what they do to rows, claims and submissions: a row *)
(* is written within its request (RowStep), a resend starts a new request  *)
(* (RequeueStep), a row is claimed (ClaimStep), a worker moves on without  *)
(* or with a write (DropStep, SettleStep), a claim is submitted            *)
(* (PostStep).  Each kind preserves the invariant; then every action is    *)
(* shown to be of one of them.                                             *)
(***************************************************************************)
EXTENDS EmailOutbox, FiniteSetTheorems, SequenceTheorems, TLAPS

RowType ==
  [status : {"none", "PROCESSING"} \cup Waiting \cup Terminal,
   attempts : 0 .. MaxAttempts, token : Nat, expired : BOOLEAN,
   to : Addresses \cup {NoAddress}, recent : BOOLEAN, epoch : Nat]
PcType == {"poll", "claim", "check", "send", "settle", "stopped"}
VerdictType == {"none", "sent", "fail", "cancel", "retry"}
PostType == [d : Deliveries, token : Nat, to : Addresses, epoch : Nat,
             accepted : BOOLEAN, wish : BOOLEAN]

-----------------------------------------------------------------------------
(* The settings.  Whoever may get action mail has wished for it; a writer  *)
(* holds an address it read.                                               *)
SettingsOK(d) ==
  /\ prefs[d].action => wish[d]
  /\ patch[d].on => patch[d].email \in Addresses
  /\ unsub[d].on => unsub[d].email \in Addresses

Prefs == [email : Addresses, daily : BOOLEAN, action : BOOLEAN]
Switches == {"keep", "on", "off"}
PatchType == [on : BOOLEAN, email : Addresses \cup {NoAddress}, daily : Switches,
              action : Switches]
UnsubType == [on : BOOLEAN, email : Addresses \cup {NoAddress}, daily : BOOLEAN]

SettingsInv ==
  /\ prefs \in [Deliveries -> Prefs]
  /\ patch \in [Deliveries -> PatchType]
  /\ unsub \in [Deliveries -> UnsubType]
  /\ wish \in [Deliveries -> BOOLEAN]
  /\ wishSeen \in [Workers -> BOOLEAN]
  /\ resend \in [Deliveries -> Addresses \cup {NoAddress}]
  /\ \A d \in Deliveries : SettingsOK(d)

(* A row has a claim token exactly while it is being processed.            *)
RowOK(d) ==
  /\ row[d].status = "PROCESSING" <=> row[d].token > 0
  /\ row[d].token <= minted[d]
  /\ row[d].status # "none" => row[d].to \in Addresses
  /\ row[d].status = "none" => row[d].epoch = 0 /\ row[d].attempts = 0 /\ ~row[d].recent

(* A claim carries a token made for its row.  While the row still bears    *)
(* that token, the row is the one that was claimed.                        *)
ClaimOK(c) ==
  /\ c.token \in 1 .. minted[c.d]
  /\ c.epoch <= row[c.d].epoch
  /\ c.token = row[c.d].token => c.epoch = row[c.d].epoch /\ c.to = row[c.d].to

(* A submission for the claim at hand that the provider took.              *)
Took(p, c) ==
  /\ p.accepted
  /\ p.d = c.d /\ p.token = c.token /\ p.to = c.to /\ p.epoch = c.epoch

WorkerOK(w) ==
  /\ pc[w] \in {"check", "send", "settle"} => claims[w] # <<>>
  /\ pc[w] = "send" => wishSeen[w]
  /\ pc[w] = "settle" => verdict[w] # "none"
  /\ pc[w] = "settle" /\ verdict[w] = "sent" =>
       \E p \in posted : Took(p, claims[w][1])

PostOK(p) ==
  /\ p.token \in 1 .. minted[p.d]
  /\ p.epoch <= row[p.d].epoch
  /\ p.wish

SameToken(x, y) == x.d = y.d /\ x.token = y.token

(* No claim is held twice, no claim is submitted twice, and a submitted    *)
(* claim is one about to be settled.                                       *)
ClaimsDistinct ==
  \A w, v \in Workers : \A i \in 1 .. Len(claims[w]), k \in 1 .. Len(claims[v]) :
    SameToken(claims[w][i], claims[v][k]) => w = v /\ i = k
PostsDistinct ==
  \A p, q \in posted : SameToken(p, q) => p = q
SubmittedOnce ==
  \A p \in posted, w \in Workers : \A i \in 1 .. Len(claims[w]) :
    SameToken(p, claims[w][i]) => i = 1 /\ pc[w] = "settle"

(* The claims of one request to send bear consecutive tokens, as many as   *)
(* there were attempts.                                                    *)
InWindow(d, e, lo) ==
  /\ e = row[d].epoch => lo = minted[d] - row[d].attempts
  /\ \A w \in Workers : \A i \in 1 .. Len(claims[w]) :
       claims[w][i].d = d /\ claims[w][i].epoch = e =>
         claims[w][i].token \in (lo + 1) .. (lo + MaxAttempts)
  /\ \A p \in posted :
       p.d = d /\ p.epoch = e => p.token \in (lo + 1) .. (lo + MaxAttempts)
Windows == \A d \in Deliveries, e \in Nat : \E lo \in Int : InWindow(d, e, lo)

(* An undisturbed delivery: whoever holds a claim of the present request   *)
(* owns the row, and what the provider accepted for it is on the row or    *)
(* about to be written there.                                              *)
ClaimOwns(c) ==
  c.epoch = row[c.d].epoch /\ c.d \notin disturbed =>
    row[c.d].status = "PROCESSING" /\ row[c.d].token = c.token /\ ~row[c.d].expired

Recorded(p) ==
  \/ row[p.d].status = "SENT"
  \/ /\ row[p.d].status = "PROCESSING"
     /\ row[p.d].token = p.token
     /\ \E w \in Workers : /\ pc[w] = "settle" /\ verdict[w] = "sent"
                           /\ SameToken(claims[w][1], p)
Present(p) == p.accepted /\ p.epoch = row[p.d].epoch /\ p.d \notin disturbed
AcceptedOnce == \A p, q \in posted : Present(p) /\ Present(q) /\ p.d = q.d => p = q

Types ==
  /\ TypeOK
  /\ SettingsInv
  /\ posted \subseteq PostType

ClaimsOK == \A w \in Workers : \A i \in 1 .. Len(claims[w]) : ClaimOK(claims[w][i])
ClaimsOwn == \A w \in Workers : \A i \in 1 .. Len(claims[w]) : ClaimOwns(claims[w][i])
RowsOK == \A d \in Deliveries : RowOK(d)
WorkersOK == \A w \in Workers : WorkerOK(w)
PostsOK == \A p \in posted : PostOK(p)
PostsRecorded == \A p \in posted : Present(p) => Recorded(p)

Core ==
  /\ RowsOK /\ WorkersOK /\ ClaimsOK /\ PostsOK
  /\ ClaimsDistinct /\ PostsDistinct /\ SubmittedOnce
  /\ Windows
  /\ SentWasAccepted
  /\ ClaimsOwn /\ PostsRecorded /\ AcceptedOnce

OutboxInv == Types /\ Core

-----------------------------------------------------------------------------
(* Types.                                                                  *)

(* One row is replaced.                                                    *)
LEMMA RowUpdate ==
  ASSUME row \in [Deliveries -> RowType], NEW d \in Deliveries, NEW r \in RowType,
         row' = [row EXCEPT ![d] = r]
  PROVE  /\ row' \in [Deliveries -> RowType]
         /\ row'[d] = r
         /\ \A x \in Deliveries \ {d} : row'[x] = row[x]
OBVIOUS

(* What is left of a batch when its head is settled.                       *)
LEMMA Rest ==
  ASSUME NEW s \in Seq(Claim), s # <<>>
  PROVE  /\ Tail(s) \in Seq(Claim)
         /\ Len(s) \in Nat /\ Len(s) > 0
         /\ Len(Tail(s)) = Len(s) - 1
         /\ \A i \in 1 .. Len(Tail(s)) : i + 1 \in 1 .. Len(s) /\ Tail(s)[i] = s[i + 1]
         /\ Head(s) = s[1] /\ s[1] \in Claim
OBVIOUS

(* A batch with one more claim.                                            *)
LEMMA Longer ==
  ASSUME NEW s \in Seq(Claim), NEW c \in Claim
  PROVE  /\ Append(s, c) \in Seq(Claim)
         /\ Len(s) \in Nat
         /\ Len(Append(s, c)) = Len(s) + 1
         /\ \A i \in 1 .. Len(s) : Append(s, c)[i] = s[i]
         /\ Append(s, c)[Len(s) + 1] = c
OBVIOUS

(* Whatever is written to a row is a row.                                  *)
LEMMA RowTypes ==
  ASSUME Types, NEW d \in Deliveries
  PROVE  /\ \A a \in Addresses, e \in Nat : Queued(a, e) \in RowType
         /\ \A x, y \in BOOLEAN : Aged(d, x, y) \in RowType
         /\ \A s \in Terminal \cup Waiting : Settled(d, s) \in RowType
         /\ RetryOrFail(d) \in RowType
         /\ Claimable(d) => Claimed(d) \in RowType
         /\ \A v \in VerdictType \ {"none"} : Outcome(d, v) \in RowType
<1> USE OutboxConstants DEF Types, TypeOK, RowType, Waiting, Terminal
<1>1. \A a \in Addresses, e \in Nat : Queued(a, e) \in RowType
  BY DEF Queued
<1>2. \A x, y \in BOOLEAN : Aged(d, x, y) \in RowType
  BY DEF Aged
<1>3. \A s \in Terminal \cup Waiting : Settled(d, s) \in RowType
  BY DEF Settled
<1>4. RetryOrFail(d) \in RowType
  BY <1>3 DEF RetryOrFail
<1>5. Claimable(d) => Claimed(d) \in RowType
  BY DEF Claimable, Claimed
<1>6. \A v \in VerdictType \ {"none"} : Outcome(d, v) \in RowType
  BY <1>3, <1>4 DEF Outcome, VerdictType
<1> QED BY <1>1, <1>2, <1>3, <1>4, <1>5, <1>6

(* The settings' own steps.                                                *)
LEMMA SettingsStep ==
  ASSUME Types, NEW d \in Deliveries,
         \/ \E e \in Addresses \cup {NoAddress}, y, a \in Switches : PatchSettings(d, e, y, a)
         \/ SavePatch(d) \/ Unsubscribe(d) \/ SaveUnsubscribe(d) \/ DeleteReport(d)
  PROVE  SettingsInv'
<1> USE DEF Types, SettingsInv
<1>t. prefs[d] \in Prefs /\ patch[d] \in PatchType /\ unsub[d] \in UnsubType
      /\ SettingsOK(d)
  OBVIOUS
<1>1. CASE \E e \in Addresses \cup {NoAddress}, y, a \in Switches : PatchSettings(d, e, y, a)
  <2>1. PICK e \in Addresses \cup {NoAddress} : \E y, a \in Switches : PatchSettings(d, e, y, a)
    BY <1>1
  <2>2. PICK y, a \in Switches : PatchSettings(d, e, y, a)
    BY <2>1
  <2>3. UNCHANGED <<prefs, wish, wishSeen, resend, unsub>>
    BY <2>2 DEF PatchSettings, worker
  <2> DEFINE p == [on |-> TRUE, daily |-> y, action |-> a,
                   email |-> IF e = NoAddress THEN prefs[d].email ELSE e]
  <2>4. p \in PatchType /\ patch' = [patch EXCEPT ![d] = p] /\ p.email \in Addresses
    BY <1>t, <2>2 DEF PatchSettings, PatchType, Prefs
  <2> HIDE DEF p
  <2>5. patch' \in [Deliveries -> PatchType]
    BY <2>4
  <2> QED BY <2>3, <2>4, <2>5 DEF SettingsOK
<1>2. CASE SavePatch(d)
  <2>1. \A c, x : x \in BOOLEAN => Asked(c, x) \in BOOLEAN
    BY DEF Asked
  <2>2. patch[d].email \in Addresses /\ wish[d] \in BOOLEAN /\ (prefs[d].action => wish[d])
    BY <1>t, <1>2 DEF SavePatch, SettingsOK
  <2> DEFINE p == [email |-> patch[d].email,
                   daily |-> Asked(patch[d].daily, prefs[d].daily),
                   action |-> ActionAsked(patch[d].action, prefs[d].action)]
  <2>3. /\ p \in Prefs
        /\ prefs' = [prefs EXCEPT ![d] = p]
        /\ p.action = ActionAsked(patch[d].action, prefs[d].action)
    BY <1>t, <1>2, <2>1, <2>2 DEF SavePatch, ActionAsked, Prefs
  <2> HIDE DEF p
  <2>4. wish' = [wish EXCEPT ![d] = Asked(patch[d].action, wish[d])]
        /\ patch' = [patch EXCEPT ![d] = NoPatch]
        /\ UNCHANGED <<wishSeen, resend, unsub>>
    BY <1>2 DEF SavePatch, worker
  <2>5. p.action => Asked(patch[d].action, wish[d])
    BY <2>2, <2>3 DEF ActionAsked, Asked
  <2>6. NoPatch \in PatchType /\ ~NoPatch.on
    BY DEF NoPatch, PatchType, Switches
  <2>7. /\ prefs' \in [Deliveries -> Prefs] /\ wish' \in [Deliveries -> BOOLEAN]
        /\ patch' \in [Deliveries -> PatchType]
    BY <2>1, <2>2, <2>3, <2>4, <2>6
  <2>8. ASSUME NEW x \in Deliveries PROVE SettingsOK(x)'
    BY <2>3, <2>4, <2>5, <2>6 DEF SettingsOK
  <2> QED BY <2>4, <2>7, <2>8
<1>3. CASE Unsubscribe(d)
  <2>1. UNCHANGED <<prefs, wish, wishSeen, resend, patch>>
    BY <1>3 DEF Unsubscribe, worker
  <2> DEFINE u == [on |-> TRUE, email |-> prefs[d].email, daily |-> prefs[d].daily]
  <2>2. u \in UnsubType /\ unsub' = [unsub EXCEPT ![d] = u] /\ u.email \in Addresses
    BY <1>t, <1>3 DEF Unsubscribe, UnsubType, Prefs
  <2> HIDE DEF u
  <2>3. unsub' \in [Deliveries -> UnsubType]
    BY <2>2
  <2> QED BY <2>1, <2>2, <2>3 DEF SettingsOK
<1>4. CASE SaveUnsubscribe(d)
  <2>2. unsub[d].email \in Addresses /\ unsub[d].daily \in BOOLEAN
    BY <1>t, <1>4 DEF SaveUnsubscribe, SettingsOK, UnsubType
  <2> DEFINE p == [email |-> unsub[d].email, daily |-> unsub[d].daily, action |-> FALSE]
  <2>3. p \in Prefs /\ prefs' = [prefs EXCEPT ![d] = p] /\ p.action = FALSE
    BY <1>4, <2>2 DEF SaveUnsubscribe, Prefs
  <2> HIDE DEF p
  <2>4. /\ wish' = [wish EXCEPT ![d] = FALSE]
        /\ unsub' = [unsub EXCEPT ![d] = NoUnsub]
        /\ UNCHANGED <<wishSeen, resend, patch>>
    BY <1>4 DEF SaveUnsubscribe, worker
  <2>5. NoUnsub \in UnsubType /\ ~NoUnsub.on
    BY DEF NoUnsub, UnsubType
  <2>6. /\ prefs' \in [Deliveries -> Prefs] /\ wish' \in [Deliveries -> BOOLEAN]
        /\ unsub' \in [Deliveries -> UnsubType]
    BY <2>3, <2>4, <2>5
  <2>7. ASSUME NEW x \in Deliveries PROVE SettingsOK(x)'
    BY <2>3, <2>4, <2>5 DEF SettingsOK
  <2> QED BY <2>4, <2>6, <2>7
<1>5. CASE DeleteReport(d)
  <2>1. UNCHANGED <<prefs, wish, wishSeen, resend, unsub, patch>>
    BY <1>5 DEF DeleteReport, worker, requests
  <2> QED BY <2>1 DEF SettingsOK
<1> QED BY <1>1, <1>2, <1>3, <1>4, <1>5

-----------------------------------------------------------------------------
(* The kinds of step, by what they do to rows, claims and submissions.     *)

(* The parts of a claim a worker holds.                                    *)
LEMMA ClaimFacts ==
  ASSUME Types, NEW w \in Workers, NEW i \in 1 .. Len(claims[w])
  PROVE  /\ claims[w][i] \in Claim
         /\ claims[w][i].d \in Deliveries
         /\ claims[w][i].token \in Nat /\ claims[w][i].epoch \in Nat
         /\ claims[w][i].to \in Addresses
<1>1. claims[w] \in Seq(Claim)
  BY DEF Types, TypeOK
<1>2. claims[w][i] \in Claim
  BY <1>1
<1> QED BY <1>2 DEF Claim

(* The parts of a row.                                                     *)
LEMMA RowFacts ==
  ASSUME Types, NEW d \in Deliveries
  PROVE  /\ row[d] \in RowType /\ minted[d] \in Nat
         /\ row[d].token \in Nat /\ row[d].epoch \in Nat /\ row[d].attempts \in Nat
         /\ row[d].attempts <= MaxAttempts /\ MaxAttempts \in Nat
BY OutboxConstants DEF Types, TypeOK, RowType

(* The parts of a submission.                                              *)
LEMMA PostFacts ==
  ASSUME Types, NEW p \in posted
  PROVE  /\ p.d \in Deliveries /\ p.token \in Nat /\ p.epoch \in Nat
         /\ p.to \in Addresses /\ p.accepted \in BOOLEAN
BY DEF Types, PostType

(* The head of a batch that is being worked on.                            *)
LEMMA HeadFacts ==
  ASSUME Types, WorkersOK, NEW w \in Workers, pc[w] \in {"check", "send", "settle"}
  PROVE  /\ claims[w] # <<>> /\ claims[w] \in Seq(Claim)
         /\ 1 \in 1 .. Len(claims[w])
         /\ Head(claims[w]) = claims[w][1]
<1>1. claims[w] # <<>> /\ claims[w] \in Seq(Claim)
  BY DEF WorkersOK, WorkerOK, Types, TypeOK
<1> QED BY <1>1, Rest

(* A step that touches no row, worker, claim or submission.                *)
LEMMA CoreSame ==
  ASSUME Types, Core,
         UNCHANGED <<row, minted, claims, pc, verdict, posted, disturbed, wishSeen>>
  PROVE  Core'
<1>1. RowsOK' /\ WorkersOK' /\ ClaimsOK' /\ PostsOK'
  BY DEF Core, RowsOK, RowOK, WorkersOK, WorkerOK, ClaimsOK, ClaimOK, PostsOK, PostOK, Took
<1>2. ClaimsDistinct' /\ PostsDistinct' /\ SubmittedOnce'
  BY DEF Core, ClaimsDistinct, PostsDistinct, SubmittedOnce, SameToken
<1>3. Windows'
  BY DEF Core, Windows, InWindow
<1>4. SentWasAccepted'
  BY DEF Core, SentWasAccepted, AcceptedIn, SubmittedIn
<1>5. ClaimsOwn' /\ PostsRecorded' /\ AcceptedOnce'
  BY DEF Core, ClaimsOwn, ClaimOwns, PostsRecorded, Present, Recorded, AcceptedOnce, SameToken
<1> QED BY <1>1, <1>2, <1>3, <1>4, <1>5 DEF Core

(* Nobody holds a claim of the request a row is at.                        *)
Unclaimed(d) ==
  \A w \in Workers : \A i \in 1 .. Len(claims[w]) :
    claims[w][i].d = d => claims[w][i].epoch # row[d].epoch

(* One row is written, within the same request to send.                    *)
LEMMA RowStep ==
  ASSUME Types, Core, NEW d \in Deliveries, NEW r \in RowType,
         row' = [row EXCEPT ![d] = r],
         UNCHANGED <<minted, claims, pc, verdict, posted, wishSeen>>,
         disturbed \subseteq disturbed',
         r.epoch = row[d].epoch, r.attempts = row[d].attempts,
         r.status # "none", r.to \in Addresses,
         r.status = "PROCESSING" <=> r.token > 0,
         r.token = 0 \/ (r.token = row[d].token /\ r.to = row[d].to),
         r.status = "SENT" <=> row[d].status = "SENT",
         r.status = "SENT" => r.to = row[d].to,
         d \notin disturbed' =>
           \/ Unclaimed(d)
           \/ /\ r.token = row[d].token /\ r.status = row[d].status
              /\ r.expired = row[d].expired
  PROVE  Core'
<1>r. /\ row' \in [Deliveries -> RowType]
      /\ row'[d] = r
      /\ \A x \in Deliveries \ {d} : row'[x] = row[x]
  BY RowUpdate DEF Types, TypeOK, RowType
<1>e. \A x \in Deliveries : row'[x].epoch = row[x].epoch /\ row'[x].attempts = row[x].attempts
  BY <1>r
<1>1. RowsOK'
  BY <1>r, RowFacts DEF RowsOK, RowOK, Core
<1>2. WorkersOK'
  BY DEF WorkersOK, WorkerOK, Core, Took
<1>3. ClaimsOK'
  <2> SUFFICES ASSUME NEW w \in Workers, NEW i \in 1 .. Len(claims[w])
               PROVE  ClaimOK(claims[w][i])'
    BY DEF ClaimsOK
  <2>1. ClaimOK(claims[w][i]) /\ claims[w][i].d \in Deliveries
    BY ClaimFacts DEF ClaimsOK, Core
  <2> QED BY <1>r, <2>1, RowFacts DEF ClaimOK
<1>4. PostsOK'
  BY <1>e, PostFacts DEF PostsOK, PostOK, Core
<1>5. ClaimsDistinct' /\ PostsDistinct' /\ SubmittedOnce'
  BY DEF ClaimsDistinct, PostsDistinct, SubmittedOnce, SameToken, Core
<1>6. Windows'
  <2> SUFFICES ASSUME NEW x \in Deliveries, NEW e \in Nat
               PROVE  \E lo \in Int : InWindow(x, e, lo)'
    BY DEF Windows
  <2>1. PICK lo \in Int : InWindow(x, e, lo)
    BY DEF Windows, Core
  <2>2. InWindow(x, e, lo)'
    BY <1>e, <2>1 DEF InWindow
  <2> QED BY <2>2
<1>7. SentWasAccepted'
  BY <1>r DEF SentWasAccepted, AcceptedIn, SubmittedIn, Core
<1>8. ClaimsOwn'
  <2> SUFFICES ASSUME NEW w \in Workers, NEW i \in 1 .. Len(claims[w])
               PROVE  ClaimOwns(claims[w][i])'
    BY DEF ClaimsOwn
  <2>1. ClaimOwns(claims[w][i]) /\ claims[w][i].d \in Deliveries
    BY ClaimFacts DEF ClaimsOwn, Core
  <2> QED BY <1>r, <2>1 DEF ClaimOwns, Unclaimed
<1>9. PostsRecorded'
  <2> SUFFICES ASSUME NEW p \in posted, Present(p)' PROVE Recorded(p)'
    BY DEF PostsRecorded
  <2>1. p.d \in Deliveries /\ Present(p)
    BY <1>e, PostFacts DEF Present
  <2>2. Recorded(p)
    BY <2>1 DEF PostsRecorded, Core
  <2>3. CASE row[p.d].status = "SENT"
    BY <1>r, <2>1, <2>3 DEF Recorded
  <2>4. CASE /\ row[p.d].status = "PROCESSING" /\ row[p.d].token = p.token
             /\ \E w \in Workers : /\ pc[w] = "settle" /\ verdict[w] = "sent"
                                   /\ SameToken(claims[w][1], p)
    <3>1. PICK w \in Workers : /\ pc[w] = "settle" /\ verdict[w] = "sent"
                               /\ SameToken(claims[w][1], p)
      BY <2>4
    <3>2. 1 \in 1 .. Len(claims[w]) /\ ClaimOK(claims[w][1])
      BY <3>1, HeadFacts DEF Core, ClaimsOK
    <3>3. p.d = d => ~ Unclaimed(d)
      BY <2>4, <3>1, <3>2 DEF Unclaimed, ClaimOK, SameToken
    <3> QED BY <1>r, <2>1, <2>4, <3>1, <3>3 DEF Recorded, Present, SameToken
  <2> QED BY <2>2, <2>3, <2>4 DEF Recorded
<1>10. AcceptedOnce'
  BY <1>e, PostFacts DEF AcceptedOnce, Present, Core
<1> QED BY <1>1, <1>2, <1>3, <1>4, <1>5, <1>6, <1>7, <1>8, <1>9, <1>10 DEF Core

(* A resend starts a new request, which no claim or submission belongs to. *)
LEMMA RequeueStep ==
  ASSUME Types, Core, NEW d \in Deliveries, NEW a \in Addresses,
         row[d].status \in Terminal,
         row' = [row EXCEPT ![d] = Queued(a, row[d].epoch + 1)],
         disturbed' = disturbed \ {d},
         UNCHANGED <<minted, claims, pc, verdict, posted, wishSeen>>
  PROVE  Core'
<1>r. /\ row' \in [Deliveries -> RowType]
      /\ row'[d] = Queued(a, row[d].epoch + 1)
      /\ \A x \in Deliveries \ {d} : row'[x] = row[x]
  <2>1. row \in [Deliveries -> RowType] /\ row[d].epoch + 1 \in Nat
    BY RowFacts DEF Types, TypeOK, RowType
  <2>2. Queued(a, row[d].epoch + 1) \in RowType
    BY <2>1, RowTypes
  <2> HIDE DEF Queued
  <2> QED BY <2>1, <2>2, RowUpdate
<1>q. /\ row'[d].epoch = row[d].epoch + 1 /\ row'[d].attempts = 0
      /\ row'[d].token = 0 /\ row'[d].status = "PENDING" /\ row'[d].to = a
  BY <1>r DEF Queued
<1>1. RowsOK'
  BY <1>r, <1>q, RowFacts DEF RowsOK, RowOK, Core
<1>2. WorkersOK'
  BY DEF WorkersOK, WorkerOK, Core, Took
<1>3. ClaimsOK'
  <2> SUFFICES ASSUME NEW w \in Workers, NEW i \in 1 .. Len(claims[w])
               PROVE  ClaimOK(claims[w][i])'
    BY DEF ClaimsOK
  <2>1. ClaimOK(claims[w][i]) /\ claims[w][i].d \in Deliveries /\ claims[w][i].epoch \in Nat
    BY ClaimFacts DEF ClaimsOK, Core
  <2> QED BY <1>r, <1>q, <2>1, RowFacts DEF ClaimOK
<1>4. PostsOK'
  <2> SUFFICES ASSUME NEW p \in posted PROVE PostOK(p)'
    BY DEF PostsOK
  <2>1. PostOK(p) /\ p.d \in Deliveries /\ p.epoch \in Nat
    BY PostFacts DEF PostsOK, Core
  <2> QED BY <1>r, <1>q, <2>1, RowFacts DEF PostOK
<1>5. ClaimsDistinct' /\ PostsDistinct' /\ SubmittedOnce'
  BY DEF ClaimsDistinct, PostsDistinct, SubmittedOnce, SameToken, Core
<1>c. \A w \in Workers : \A i \in 1 .. Len(claims[w]) :
        claims[w][i].d = d => claims[w][i].epoch # row'[d].epoch
  BY <1>q, ClaimFacts, RowFacts DEF Core, ClaimsOK, ClaimOK
<1>p. \A p \in posted : p.d = d => p.epoch # row'[d].epoch
  BY <1>q, PostFacts, RowFacts DEF Core, PostsOK, PostOK
<1>6. Windows'
  <2> SUFFICES ASSUME NEW x \in Deliveries, NEW e \in Nat
               PROVE  \E lo \in Int : InWindow(x, e, lo)'
    BY DEF Windows
  <2>1. PICK lo \in Int : InWindow(x, e, lo)
    BY DEF Windows, Core
  <2>2. CASE x # d \/ e # row'[d].epoch
    <3>1. InWindow(x, e, lo)'
      BY <1>r, <2>1, <2>2 DEF InWindow
    <3> QED BY <3>1
  <2>3. CASE x = d /\ e = row'[d].epoch
    <3>1. InWindow(x, e, minted[d])'
      BY <1>q, <1>c, <1>p, <2>3, RowFacts DEF InWindow
    <3> QED BY <3>1, RowFacts
  <2> QED BY <2>2, <2>3
<1>7. SentWasAccepted'
  BY <1>r, <1>q DEF SentWasAccepted, AcceptedIn, SubmittedIn, Core
<1>8. ClaimsOwn'
  <2> SUFFICES ASSUME NEW w \in Workers, NEW i \in 1 .. Len(claims[w])
               PROVE  ClaimOwns(claims[w][i])'
    BY DEF ClaimsOwn
  <2>1. ClaimOwns(claims[w][i]) /\ claims[w][i].d \in Deliveries
    BY ClaimFacts DEF ClaimsOwn, Core
  <2> QED BY <1>r, <1>c, <2>1 DEF ClaimOwns
<1>9. PostsRecorded'
  <2> SUFFICES ASSUME NEW p \in posted, Present(p)' PROVE Recorded(p)'
    BY DEF PostsRecorded
  <2>1. p.d \in Deliveries \ {d} /\ Present(p)
    BY <1>r, <1>p, PostFacts DEF Present
  <2>2. Recorded(p)
    BY <2>1 DEF PostsRecorded, Core
  <2> QED BY <1>r, <2>1, <2>2 DEF Recorded, SameToken
<1>10. AcceptedOnce'
  <2> SUFFICES ASSUME NEW p \in posted, NEW q \in posted,
                      Present(p)', Present(q)', p.d = q.d
               PROVE  p = q
    BY DEF AcceptedOnce
  <2>1. p.d \in Deliveries \ {d} /\ q.d \in Deliveries \ {d}
    BY <1>p, PostFacts DEF Present
  <2>2. Present(p) /\ Present(q)
    BY <1>r, <2>1 DEF Present
  <2> QED BY <2>2 DEF AcceptedOnce, Core
<1> QED BY <1>1, <1>2, <1>3, <1>4, <1>5, <1>6, <1>7, <1>8, <1>9, <1>10 DEF Core

(* A claim gives the row a token nobody has seen.                          *)
LEMMA ClaimStep ==
  ASSUME Types, Core, NEW w \in Workers, NEW d \in Deliveries, ClaimNext(w, d)
  PROVE  Core'
<1> DEFINE c == [d |-> d, token |-> minted[d] + 1, to |-> row[d].to, epoch |-> row[d].epoch]
           n == Len(claims[w]) + 1
<1>u. UNCHANGED <<pc, verdict, posted, wishSeen, disturbed>> /\ pc[w] = "claim"
  BY DEF ClaimNext
<1>w. /\ row[d].status \in Waiting /\ row[d].attempts < MaxAttempts
      /\ row[d].to \in Addresses /\ row[d].token = 0
  BY RowFacts DEF ClaimNext, Claimable, Core, RowsOK, RowOK, Waiting
<1>r. /\ \A x \in Deliveries \ {d} : row'[x] = row[x] /\ minted'[x] = minted[x]
      /\ row'[d] = Claimed(d) /\ minted'[d] = minted[d] + 1
  BY DEF ClaimNext, Types, TypeOK
<1>q. /\ row'[d].status = "PROCESSING" /\ row'[d].attempts = row[d].attempts + 1
      /\ row'[d].token = minted[d] + 1 /\ ~ row'[d].expired
      /\ row'[d].to = row[d].to /\ row'[d].epoch = row[d].epoch
  BY <1>r DEF Claimed
<1>e. \A x \in Deliveries : row'[x].epoch = row[x].epoch /\ minted'[x] \in Nat
                            /\ minted[x] <= minted'[x]
  BY <1>r, <1>q, RowFacts
<1>m. minted[d] \in Nat /\ row[d].epoch \in Nat /\ row[d].attempts \in Nat /\ MaxAttempts \in Nat
  BY RowFacts
<1>t. c \in Claim /\ claims[w] \in Seq(Claim) /\ Len(claims[w]) \in Nat
  <2>1. c \in Claim
    BY <1>w, <1>m DEF Claim
  <2>2. claims[w] \in Seq(Claim)
    BY DEF Types, TypeOK
  <2> QED BY <2>1, <2>2
<1> HIDE DEF c
<1>f. c.d = d /\ c.token = minted[d] + 1 /\ c.to = row[d].to /\ c.epoch = row[d].epoch
  BY DEF c
<1>c. /\ \A v \in Workers \ {w} : claims'[v] = claims[v]
      /\ claims'[w] = Append(claims[w], c)
  BY DEF ClaimNext, Types, TypeOK, c
<1>d. /\ Len(claims'[w]) = n
      /\ \A i \in 1 .. Len(claims[w]) : claims'[w][i] = claims[w][i]
      /\ claims'[w][n] = c
  BY <1>c, <1>t, Longer
(* A claim after the step was one before, or is the new one.               *)
<1>o. ASSUME NEW v \in Workers, NEW i \in 1 .. Len(claims'[v])
      PROVE  \/ v = w /\ i = n /\ claims'[v][i] = c
             \/ /\ i \in 1 .. Len(claims[v]) /\ claims'[v][i] = claims[v][i]
                /\ ~(v = w /\ i = n)
  <2>1. CASE v = w
    BY <1>d, <1>t, <2>1
  <2>2. CASE v # w
    BY <1>c, <2>2
  <2> QED BY <2>1, <2>2
<1> HIDE DEF n
<1>k. \A v \in Workers : \A i \in 1 .. Len(claims[v]) :
        /\ claims[v][i].d \in Deliveries /\ claims[v][i].token \in Nat
        /\ claims[v][i].epoch \in Nat
        /\ claims[v][i].token <= minted[claims[v][i].d]
        /\ ClaimOK(claims[v][i])
  BY ClaimFacts, RowFacts DEF Core, ClaimsOK, ClaimOK
<1>h. \A v \in Workers : pc[v] \in {"check", "send", "settle"} =>
        v # w /\ claims'[v] = claims[v]
  BY <1>u, <1>c
<1>1. RowsOK'
  BY <1>r, <1>q, <1>w, RowFacts DEF RowsOK, RowOK, Core, Waiting
<1>2. WorkersOK'
  BY <1>u, <1>h DEF WorkersOK, WorkerOK, Core, Took
<1>3. ClaimsOK'
  <2> SUFFICES ASSUME NEW v \in Workers, NEW i \in 1 .. Len(claims'[v])
               PROVE  ClaimOK(claims[v][i])'
    BY DEF ClaimsOK
  <2>1. CASE claims'[v][i] = c
    BY <2>1, <1>f, <1>q, <1>r, RowFacts DEF ClaimOK
  <2>2. CASE i \in 1 .. Len(claims[v]) /\ claims'[v][i] = claims[v][i]
    <3> DEFINE b == claims[v][i]
    <3>1. /\ b.d \in Deliveries /\ b.token \in Nat /\ b.epoch \in Nat
          /\ b.token <= minted[b.d] /\ ClaimOK(b) /\ claims'[v][i] = b
      BY <2>2, <1>k
    <3> HIDE DEF b
    <3>2. CASE b.d = d
      BY <3>1, <3>2, <1>q, <1>r, <1>m DEF ClaimOK
    <3>3. CASE b.d # d
      BY <3>1, <3>3, <1>r DEF ClaimOK
    <3> QED BY <3>2, <3>3
  <2> QED BY <1>o, <2>1, <2>2
<1>4. PostsOK'
  BY <1>u, <1>e, PostFacts, RowFacts DEF PostsOK, PostOK, Core
<1>5. ClaimsDistinct'
  <2> SUFFICES ASSUME NEW v \in Workers, NEW x \in Workers,
                      NEW i \in 1 .. Len(claims'[v]), NEW k \in 1 .. Len(claims'[x]),
                      SameToken(claims'[v][i], claims'[x][k])
               PROVE  v = x /\ i = k
    BY DEF ClaimsDistinct, SameToken
  <2>1. \A y \in Workers : \A j \in 1 .. Len(claims[y]) : ~ SameToken(claims[y][j], c)
    BY <1>k, <1>f, RowFacts DEF SameToken
  <2>2. CASE claims'[v][i] = c \/ claims'[x][k] = c
    <3>1. ASSUME NEW y \in Workers, NEW j \in 1 .. Len(claims'[y]),
                 SameToken(claims'[y][j], c)
          PROVE  y = w /\ j = n
      BY <1>o, <2>1, <3>1
    <3>2. SameToken(claims'[v][i], c) /\ SameToken(claims'[x][k], c)
      BY <2>2 DEF SameToken
    <3> QED BY <3>1, <3>2
  <2>3. CASE claims'[v][i] # c /\ claims'[x][k] # c
    <3>1. /\ i \in 1 .. Len(claims[v]) /\ claims'[v][i] = claims[v][i]
          /\ k \in 1 .. Len(claims[x]) /\ claims'[x][k] = claims[x][k]
      BY <1>o, <2>3
    <3> QED BY <3>1 DEF ClaimsDistinct, Core
  <2> QED BY <2>2, <2>3
<1>6. PostsDistinct'
  BY <1>u DEF PostsDistinct, SameToken, Core
<1>7. SubmittedOnce'
  <2> SUFFICES ASSUME NEW p \in posted, NEW v \in Workers, NEW i \in 1 .. Len(claims'[v]),
                      SameToken(p, claims'[v][i])
               PROVE  i = 1 /\ pc'[v] = "settle"
    BY <1>u DEF SubmittedOnce, SameToken
  <2>1. ~ SameToken(p, c)
    BY <1>f, PostFacts, RowFacts DEF Core, PostsOK, PostOK, SameToken
  <2>2. i \in 1 .. Len(claims[v]) /\ claims'[v][i] = claims[v][i]
    BY <1>o, <2>1
  <2> QED BY <2>2, <1>u DEF SubmittedOnce, Core
<1>8. Windows'
  <2> SUFFICES ASSUME NEW x \in Deliveries, NEW e \in Nat
               PROVE  \E lo \in Int : InWindow(x, e, lo)'
    BY DEF Windows
  <2>1. PICK lo \in Int : InWindow(x, e, lo)
    BY DEF Windows, Core
  <2>2. e = row'[x].epoch => lo = minted'[x] - row'[x].attempts
    <3>1. CASE x = d
      BY <3>1, <2>1, <1>r, <1>q, <1>m DEF InWindow
    <3>2. CASE x # d
      BY <3>2, <2>1, <1>r DEF InWindow
    <3> QED BY <3>1, <3>2
  <2>3. ASSUME NEW v \in Workers, NEW i \in 1 .. Len(claims'[v]),
               claims'[v][i].d = x, claims'[v][i].epoch = e
        PROVE  claims'[v][i].token \in (lo + 1) .. (lo + MaxAttempts)
    <3>1. CASE claims'[v][i] = c
      <4>1. x = d /\ e = row[d].epoch /\ lo = minted[d] - row[d].attempts
        BY <2>1, <2>3, <3>1, <1>f DEF InWindow
      <4> QED BY <4>1, <3>1, <1>f, <1>w, RowFacts
    <3>2. CASE i \in 1 .. Len(claims[v]) /\ claims'[v][i] = claims[v][i]
      BY <2>1, <2>3, <3>2 DEF InWindow
    <3> QED BY <1>o, <3>1, <3>2
  <2>4. InWindow(x, e, lo)'
    BY <2>1, <2>2, <2>3, <1>u DEF InWindow
  <2> QED BY <2>4
<1>9. SentWasAccepted'
  BY <1>r, <1>q, <1>u DEF SentWasAccepted, AcceptedIn, SubmittedIn, Core
<1>10. ClaimsOwn'
  <2> SUFFICES ASSUME NEW v \in Workers, NEW i \in 1 .. Len(claims'[v])
               PROVE  ClaimOwns(claims[v][i])'
    BY DEF ClaimsOwn
  <2>1. CASE claims'[v][i] = c
    BY <2>1, <1>f, <1>q DEF ClaimOwns
  <2>2. CASE i \in 1 .. Len(claims[v]) /\ claims'[v][i] = claims[v][i]
    <3>1. ClaimOwns(claims[v][i]) /\ claims[v][i].d \in Deliveries
      BY <2>2, <1>k DEF ClaimsOwn, Core
    <3> QED BY <2>2, <3>1, <1>r, <1>e, <1>u, <1>w DEF ClaimOwns, Waiting
  <2> QED BY <1>o, <2>1, <2>2
<1>11. PostsRecorded'
  <2> SUFFICES ASSUME NEW p \in posted, Present(p)' PROVE Recorded(p)'
    BY <1>u DEF PostsRecorded
  <2>1. p.d \in Deliveries /\ Present(p)
    BY <1>e, <1>u, PostFacts DEF Present
  <2>2. Recorded(p)
    BY <2>1 DEF PostsRecorded, Core
  <2>3. p.d # d
    BY <2>2, <1>w DEF Recorded, Waiting
  <2> QED BY <1>r, <1>u, <1>h, <2>1, <2>2, <2>3 DEF Recorded, SameToken
<1>12. AcceptedOnce'
  BY <1>e, <1>u, PostFacts DEF AcceptedOnce, Present, Core
<1> QED BY <1>1, <1>2, <1>3, <1>4, <1>5, <1>6, <1>7, <1>8, <1>9, <1>10, <1>11, <1>12 DEF Core

(* Worker w steps on, and the first k claims of its batch, or all, go.     *)
Drops(w, k) ==
  /\ UNCHANGED <<minted, posted>>
  /\ \A v \in Workers \ {w} :
       claims'[v] = claims[v] /\ pc'[v] = pc[v] /\ verdict'[v] = verdict[v]
         /\ wishSeen'[v] = wishSeen[v]
  /\ \A i \in 1 .. Len(claims'[w]) :
       i + k \in 1 .. Len(claims[w]) /\ claims'[w][i] = claims[w][i + k]
  /\ pc[w] = "settle" /\ claims'[w] # <<>> => k = 1
  /\ claims'[w] \in Seq(Claim)
  /\ WorkerOK(w)'

(* What holds after such a step whether it writes a row or not.            *)
LEMMA DropFrame ==
  ASSUME Types, Core, NEW w \in Workers, NEW k \in {0, 1}, Drops(w, k),
         \A d \in Deliveries :
           row'[d].epoch = row[d].epoch /\ row'[d].attempts = row[d].attempts
  PROVE  /\ WorkersOK' /\ PostsOK' /\ ClaimsDistinct' /\ PostsDistinct' /\ SubmittedOnce'
         /\ Windows'
         /\ \A v \in Workers : \A i \in 1 .. Len(claims'[v]) :
              \E j \in 1 .. Len(claims[v]) : claims'[v][i] = claims[v][j] /\ (v = w => j = i + k)
<1>u. UNCHANGED <<minted, posted>>
  BY DEF Drops
<1>o. ASSUME NEW v \in Workers, NEW i \in 1 .. Len(claims'[v])
      PROVE  \/ v # w /\ i \in 1 .. Len(claims[v]) /\ claims'[v][i] = claims[v][i]
             \/ v = w /\ i + k \in 1 .. Len(claims[v]) /\ claims'[v][i] = claims[v][i + k]
  BY DEF Drops
<1>1. WorkersOK'
  <2> SUFFICES ASSUME NEW v \in Workers PROVE WorkerOK(v)'
    BY DEF WorkersOK
  <2>1. CASE v = w
    BY <2>1 DEF Drops
  <2>2. CASE v # w
    BY <2>2 DEF Drops, WorkersOK, WorkerOK, Core, Took
  <2> QED BY <2>1, <2>2
<1>2. PostsOK'
  BY <1>u, PostFacts DEF PostsOK, PostOK, Core
<1>3. ClaimsDistinct'
  <2> SUFFICES ASSUME NEW v \in Workers, NEW x \in Workers,
                      NEW i \in 1 .. Len(claims'[v]), NEW j \in 1 .. Len(claims'[x]),
                      SameToken(claims'[v][i], claims'[x][j])
               PROVE  v = x /\ i = j
    BY DEF ClaimsDistinct, SameToken
  <2>1. i \in Int /\ j \in Int
    OBVIOUS
  <2>2. PICK m \in 1 .. Len(claims[v]) : claims'[v][i] = claims[v][m]
                                         /\ m = (IF v = w THEN i + k ELSE i)
    BY <1>o
  <2>3. PICK n \in 1 .. Len(claims[x]) : claims'[x][j] = claims[x][n]
                                         /\ n = (IF x = w THEN j + k ELSE j)
    BY <1>o
  <2>4. v = x /\ m = n
    BY <2>2, <2>3 DEF ClaimsDistinct, Core
  <2> QED BY <2>1, <2>2, <2>3, <2>4
<1>4. PostsDistinct'
  BY <1>u DEF PostsDistinct, SameToken, Core
<1>5. SubmittedOnce'
  <2> SUFFICES ASSUME NEW p \in posted, NEW v \in Workers, NEW i \in 1 .. Len(claims'[v]),
                      SameToken(p, claims'[v][i])
               PROVE  i = 1 /\ pc'[v] = "settle"
    BY <1>u DEF SubmittedOnce, SameToken
  <2>1. CASE v # w
    BY <1>o, <2>1 DEF SubmittedOnce, Core, Drops
  <2>2. CASE v = w
    <3>1. i + k = 1 /\ pc[w] = "settle"
      BY <1>o, <2>2 DEF SubmittedOnce, Core
    <3>2. claims'[w] # <<>>
      BY <2>2
    <3> QED BY <3>1, <3>2, <2>2 DEF Drops
  <2> QED BY <2>1, <2>2
<1>6. \A v \in Workers : \A i \in 1 .. Len(claims'[v]) :
        \E j \in 1 .. Len(claims[v]) : claims'[v][i] = claims[v][j] /\ (v = w => j = i + k)
  BY <1>o
<1>7. Windows'
  <2> SUFFICES ASSUME NEW x \in Deliveries, NEW e \in Nat
               PROVE  \E lo \in Int : InWindow(x, e, lo)'
    BY DEF Windows
  <2>1. PICK lo \in Int : InWindow(x, e, lo)
    BY DEF Windows, Core
  <2>2. InWindow(x, e, lo)'
    <3>1. ASSUME NEW v \in Workers, NEW i \in 1 .. Len(claims'[v]),
                 claims'[v][i].d = x, claims'[v][i].epoch = e
          PROVE  claims'[v][i].token \in (lo + 1) .. (lo + MaxAttempts)
      BY <2>1, <3>1, <1>6 DEF InWindow
    <3> QED BY <2>1, <3>1, <1>u DEF InWindow
  <2> QED BY <2>2
<1> QED BY <1>1, <1>2, <1>3, <1>4, <1>5, <1>6, <1>7

(* A step on that writes no row.                                           *)
LEMMA DropStep ==
  ASSUME Types, Core, NEW w \in Workers, NEW k \in {0, 1}, Drops(w, k), UNCHANGED row,
         disturbed \subseteq disturbed',
         pc[w] = "settle" /\ verdict[w] = "sent" =>
           claims[w][1].d \in disturbed' \/ ~ Owns(claims[w][1])
  PROVE  Core'
<1>u. UNCHANGED <<row, minted, posted>>
  BY DEF Drops
<1>f. /\ WorkersOK' /\ PostsOK' /\ ClaimsDistinct' /\ PostsDistinct' /\ SubmittedOnce'
      /\ Windows'
      /\ \A v \in Workers : \A i \in 1 .. Len(claims'[v]) :
           \E j \in 1 .. Len(claims[v]) : claims'[v][i] = claims[v][j]
  BY DropFrame
<1>1. RowsOK'
  BY <1>u DEF RowsOK, RowOK, Core
<1>2. ClaimsOK'
  <2> SUFFICES ASSUME NEW v \in Workers, NEW i \in 1 .. Len(claims'[v])
               PROVE  ClaimOK(claims[v][i])'
    BY DEF ClaimsOK
  <2>1. PICK j \in 1 .. Len(claims[v]) : claims'[v][i] = claims[v][j]
    BY <1>f
  <2>2. ClaimOK(claims[v][j])
    BY DEF ClaimsOK, Core
  <2> QED BY <1>u, <2>1, <2>2 DEF ClaimOK
<1>3. SentWasAccepted'
  BY <1>u DEF SentWasAccepted, AcceptedIn, SubmittedIn, Core
<1>4. ClaimsOwn'
  <2> SUFFICES ASSUME NEW v \in Workers, NEW i \in 1 .. Len(claims'[v])
               PROVE  ClaimOwns(claims[v][i])'
    BY DEF ClaimsOwn
  <2>1. PICK j \in 1 .. Len(claims[v]) : claims'[v][i] = claims[v][j]
    BY <1>f
  <2>2. ClaimOwns(claims[v][j])
    BY DEF ClaimsOwn, Core
  <2> QED BY <1>u, <2>1, <2>2 DEF ClaimOwns
<1>5. PostsRecorded'
  <2> SUFFICES ASSUME NEW p \in posted, Present(p)' PROVE Recorded(p)'
    BY <1>u DEF PostsRecorded
  <2>1. Present(p) /\ p.d \notin disturbed'
    BY <1>u DEF Present
  <2>2. Recorded(p)
    BY <2>1 DEF PostsRecorded, Core
  <2>3. CASE row[p.d].status = "SENT"
    BY <1>u, <2>3 DEF Recorded
  <2>4. CASE /\ row[p.d].status = "PROCESSING" /\ row[p.d].token = p.token
             /\ \E v \in Workers : /\ pc[v] = "settle" /\ verdict[v] = "sent"
                                   /\ SameToken(claims[v][1], p)
    <3>1. PICK v \in Workers : /\ pc[v] = "settle" /\ verdict[v] = "sent"
                               /\ SameToken(claims[v][1], p)
      BY <2>4
    <3>2. v # w
      BY <2>1, <2>4, <3>1 DEF Owns, SameToken
    <3> QED BY <1>u, <2>4, <3>1, <3>2 DEF Recorded, Drops, SameToken
  <2> QED BY <2>2, <2>3, <2>4 DEF Recorded
<1>6. AcceptedOnce'
  BY <1>u DEF AcceptedOnce, Present, Core
<1> QED BY <1>1, <1>2, <1>3, <1>4, <1>5, <1>6, <1>f DEF Core

(* The owner of a row settles it.                                          *)
LEMMA SettleStep ==
  ASSUME Types, Core, NEW w \in Workers, pc[w] = "settle", Drops(w, 1),
         NEW d \in Deliveries, claims[w][1].d = d, Owns(claims[w][1]),
         NEW r \in RowType, row' = [row EXCEPT ![d] = r],
         r.epoch = row[d].epoch, r.attempts = row[d].attempts, r.to = row[d].to,
         r.token = 0, r.status \in Terminal \cup Waiting,
         r.status = "SENT" <=> verdict[w] = "sent",
         UNCHANGED disturbed
  PROVE  Core'
<1>r. /\ row'[d] = r
      /\ \A x \in Deliveries \ {d} : row'[x] = row[x]
  BY RowUpdate DEF Types, TypeOK, RowType
<1>e. \A x \in Deliveries : row'[x].epoch = row[x].epoch /\ row'[x].attempts = row[x].attempts
                            /\ row'[x].to = row[x].to
  BY <1>r
<1>u. UNCHANGED <<minted, posted>>
  BY DEF Drops
<1>f. /\ WorkersOK' /\ PostsOK' /\ ClaimsDistinct' /\ PostsDistinct' /\ SubmittedOnce'
      /\ Windows'
      /\ \A v \in Workers : \A i \in 1 .. Len(claims'[v]) :
           \E j \in 1 .. Len(claims[v]) : claims'[v][i] = claims[v][j] /\ (v = w => j = i + 1)
  <2>1. 1 \in {0, 1}
    OBVIOUS
  <2> QED BY <1>e, <2>1, DropFrame
<1>h. /\ 1 \in 1 .. Len(claims[w])
      /\ row[d].status = "PROCESSING" /\ row[d].token = claims[w][1].token
      /\ claims[w][1].epoch = row[d].epoch /\ claims[w][1].to = row[d].to
  <2>1. 1 \in 1 .. Len(claims[w])
    BY HeadFacts DEF Core
  <2>2. ClaimOK(claims[w][1])
    BY <2>1 DEF ClaimsOK, Core
  <2> QED BY <2>1, <2>2 DEF Owns, ClaimOK
(* The claims that are left are none of the row's token.                   *)
<1>o. ASSUME NEW v \in Workers, NEW i \in 1 .. Len(claims'[v])
      PROVE  \E j \in 1 .. Len(claims[v]) :
               /\ claims'[v][i] = claims[v][j]
               /\ ClaimOK(claims[v][j]) /\ ClaimOwns(claims[v][j])
               /\ claims[v][j].d \in Deliveries
               /\ ~ SameToken(claims[v][j], claims[w][1])
  <2>1. PICK j \in 1 .. Len(claims[v]) : claims'[v][i] = claims[v][j] /\ (v = w => j = i + 1)
    BY <1>f
  <2>2. ~(v = w /\ j = 1)
    BY <2>1
  <2>3. ~ SameToken(claims[v][j], claims[w][1])
    BY <2>2, <1>h DEF ClaimsDistinct, Core
  <2> QED BY <2>1, <2>3, ClaimFacts DEF ClaimsOK, ClaimsOwn, Core
<1>1. RowsOK'
  <2> SUFFICES ASSUME NEW x \in Deliveries PROVE RowOK(x)'
    BY DEF RowsOK
  <2>1. RowOK(x) /\ minted[x] \in Nat
    BY RowFacts DEF RowsOK, Core
  <2>2. CASE x = d
    BY <1>r, <1>h, <1>u, <2>1, <2>2 DEF RowOK, Terminal, Waiting
  <2>3. CASE x # d
    BY <1>r, <1>u, <2>1, <2>3 DEF RowOK
  <2> QED BY <2>2, <2>3
<1>2. ClaimsOK'
  <2> SUFFICES ASSUME NEW v \in Workers, NEW i \in 1 .. Len(claims'[v])
               PROVE  ClaimOK(claims[v][i])'
    BY DEF ClaimsOK
  <2>1. PICK j \in 1 .. Len(claims[v]) :
               claims'[v][i] = claims[v][j] /\ ClaimOK(claims[v][j])
               /\ claims[v][j].d \in Deliveries
    BY <1>o
  <2>2. minted[claims[v][j].d] \in Nat
    BY <2>1, RowFacts
  <2> QED BY <1>u, <1>r, <2>1, <2>2 DEF ClaimOK
<1>3. SentWasAccepted'
  <2> SUFFICES ASSUME NEW x \in Deliveries, row'[x].status = "SENT"
               PROVE  \E p \in posted : p.d = x /\ p.epoch = row'[x].epoch /\ p.accepted
                                        /\ p.to = row'[x].to
    BY <1>u DEF SentWasAccepted, AcceptedIn, SubmittedIn
  <2>1. CASE x = d
    <3>1. PICK p \in posted : Took(p, claims[w][1])
      BY <1>r, <2>1 DEF WorkersOK, WorkerOK, Core
    <3> QED BY <3>1, <1>h, <1>r, <2>1 DEF Took
  <2>2. CASE x # d
    BY <1>r, <2>2 DEF SentWasAccepted, AcceptedIn, SubmittedIn, Core
  <2> QED BY <2>1, <2>2
<1>4. ClaimsOwn'
  <2> SUFFICES ASSUME NEW v \in Workers, NEW i \in 1 .. Len(claims'[v])
               PROVE  ClaimOwns(claims[v][i])'
    BY DEF ClaimsOwn
  <2>1. PICK j \in 1 .. Len(claims[v]) :
               /\ claims'[v][i] = claims[v][j] /\ ClaimOwns(claims[v][j])
               /\ claims[v][j].d \in Deliveries
               /\ ~ SameToken(claims[v][j], claims[w][1])
    BY <1>o
  <2> QED BY <1>r, <1>h, <2>1 DEF ClaimOwns, SameToken
<1>5. PostsRecorded'
  <2> SUFFICES ASSUME NEW p \in posted, Present(p)' PROVE Recorded(p)'
    BY <1>u DEF PostsRecorded
  <2>1. p.d \in Deliveries /\ Present(p)
    BY <1>e, PostFacts DEF Present
  <2>2. Recorded(p)
    BY <2>1 DEF PostsRecorded, Core
  <2>3. CASE row[p.d].status = "SENT"
    BY <1>r, <1>h, <2>1, <2>3 DEF Recorded
  <2>4. CASE /\ row[p.d].status = "PROCESSING" /\ row[p.d].token = p.token
             /\ \E v \in Workers : /\ pc[v] = "settle" /\ verdict[v] = "sent"
                                   /\ SameToken(claims[v][1], p)
    <3>1. PICK v \in Workers : /\ pc[v] = "settle" /\ verdict[v] = "sent"
                               /\ SameToken(claims[v][1], p)
      BY <2>4
    <3>2. 1 \in 1 .. Len(claims[v])
      BY <3>1, HeadFacts DEF Core
    <3>3. CASE p.d = d
      <4>1. SameToken(claims[v][1], claims[w][1])
        BY <1>h, <2>4, <3>1, <3>3 DEF SameToken
      <4>2. v = w
        BY <1>h, <3>2, <4>1 DEF ClaimsDistinct, Core
      <4> QED BY <1>r, <3>1, <3>3, <4>2 DEF Recorded
    <3>4. CASE p.d # d
      <4>1. v # w
        BY <3>1, <3>4 DEF SameToken
      <4> QED BY <1>r, <2>1, <2>4, <3>1, <3>4, <4>1 DEF Recorded, Drops, SameToken
    <3> QED BY <3>3, <3>4
  <2> QED BY <2>2, <2>3, <2>4 DEF Recorded
<1>6. AcceptedOnce'
  BY <1>u, <1>e, PostFacts DEF AcceptedOnce, Present, Core
<1> QED BY <1>1, <1>2, <1>3, <1>4, <1>5, <1>6, <1>f DEF Core

(* A claim is submitted.                                                   *)
LEMMA PostStep ==
  ASSUME Types, Core, NEW w \in Workers, pc[w] = "send", NEW accepted \in BOOLEAN,
         NEW v \in VerdictType \ {"none"}, Post(w, accepted), Decide(w, v, "settle"),
         UNCHANGED <<row, minted, claims, wishSeen>>,
         disturbed \subseteq disturbed',
         v = "sent" => accepted,
         accepted => v = "sent" \/ Head(claims[w]).d \in disturbed'
  PROVE  Core' /\ posted' \subseteq PostType
<1> DEFINE c == claims[w][1]
           q == [d |-> c.d, token |-> c.token, to |-> c.to, epoch |-> c.epoch,
                 accepted |-> accepted, wish |-> wishSeen[w]]
<1>h. /\ 1 \in 1 .. Len(claims[w]) /\ Head(claims[w]) = c
      /\ ClaimOK(c) /\ ClaimOwns(c) /\ wishSeen[w]
  <2>1. 1 \in 1 .. Len(claims[w]) /\ Head(claims[w]) = c
    BY HeadFacts DEF Core
  <2> QED BY <2>1 DEF Core, ClaimsOK, ClaimsOwn, WorkersOK, WorkerOK
<1>t. /\ c.d \in Deliveries /\ c.token \in Nat /\ c.epoch \in Nat /\ c.to \in Addresses
  BY <1>h, ClaimFacts
<1>q. posted' = posted \cup {q}
  BY <1>h DEF Post
<1>v. /\ pc'[w] = "settle" /\ verdict'[w] = v
      /\ \A x \in Workers \ {w} : pc'[x] = pc[x] /\ verdict'[x] = verdict[x]
  BY DEF Decide, Types, TypeOK
<1>y. q \in PostType
  BY <1>t, <1>h DEF PostType, Types, SettingsInv
<1> HIDE DEF q
<1>f. /\ q.d = c.d /\ q.token = c.token /\ q.to = c.to /\ q.epoch = c.epoch
      /\ q.accepted = accepted /\ q.wish = wishSeen[w]
  BY DEF q
<1> HIDE DEF c
(* It was not submitted before.                                            *)
<1>n. \A p \in posted : ~ SameToken(p, q)
  BY <1>f, <1>h DEF SubmittedOnce, Core, SameToken, c
<1>p. posted' \subseteq PostType
  BY <1>q, <1>y DEF Types
<1>1. RowsOK' /\ ClaimsOK' /\ ClaimsDistinct'
  BY DEF RowsOK, RowOK, ClaimsOK, ClaimOK, ClaimsDistinct, SameToken, Core
<1>2. WorkersOK'
  <2> SUFFICES ASSUME NEW x \in Workers PROVE WorkerOK(x)'
    BY DEF WorkersOK
  <2>0. WorkerOK(x)
    BY DEF WorkersOK, Core
  <2>1. CASE x = w
    <3>1. v = "sent" => Took(q, c)
      BY <1>f DEF Took
    <3>2. claims[w] # <<>>
      BY <2>0, <2>1 DEF WorkerOK
    <3> QED BY <2>1, <3>1, <3>2, <1>q, <1>v DEF WorkerOK, c, Took
  <2>2. CASE x # w
    BY <2>0, <2>2, <1>q, <1>v DEF WorkerOK, Took
  <2> QED BY <2>1, <2>2
<1>3. PostsOK'
  <2>1. PostOK(q)
    BY <1>f, <1>h DEF PostOK, ClaimOK
  <2>2. \A p \in posted' : PostOK(p)
    BY <2>1, <1>q DEF PostsOK, Core
  <2> QED BY <2>2 DEF PostsOK, PostOK
<1>4. PostsDistinct'
  BY <1>n, <1>q DEF PostsDistinct, SameToken, Core
<1>5. SubmittedOnce'
  <2> SUFFICES ASSUME NEW p \in posted', NEW x \in Workers, NEW i \in 1 .. Len(claims[x]),
                      SameToken(p, claims[x][i])
               PROVE  i = 1 /\ pc'[x] = "settle"
    BY DEF SubmittedOnce, SameToken
  <2>1. CASE p = q
    <3>1. SameToken(claims[x][i], claims[w][1])
      BY <2>1, <1>f DEF SameToken, c
    <3> QED BY <3>1, <1>h, <1>v DEF ClaimsDistinct, Core
  <2>2. CASE p # q
    BY <2>2, <1>q, <1>v DEF SubmittedOnce, Core
  <2> QED BY <2>1, <2>2
<1>6. Windows'
  <2> SUFFICES ASSUME NEW x \in Deliveries, NEW e \in Nat
               PROVE  \E lo \in Int : InWindow(x, e, lo)'
    BY DEF Windows
  <2>1. PICK lo \in Int : InWindow(x, e, lo)
    BY DEF Windows, Core
  <2>2. q.d = x /\ q.epoch = e => q.token \in (lo + 1) .. (lo + MaxAttempts)
    BY <2>1, <1>f, <1>h DEF InWindow, c
  <2>3. InWindow(x, e, lo)'
    BY <2>1, <2>2, <1>q DEF InWindow
  <2> QED BY <2>3
<1>7. SentWasAccepted'
  BY <1>q DEF SentWasAccepted, AcceptedIn, SubmittedIn, Core
<1>8. ClaimsOwn'
  BY DEF ClaimsOwn, ClaimOwns, Core
<1>9. PostsRecorded'
  <2> SUFFICES ASSUME NEW p \in posted', Present(p)' PROVE Recorded(p)'
    BY DEF PostsRecorded
  <2>1. Present(p)
    BY DEF Present
  <2>2. CASE p = q
    <3>1. v = "sent" /\ row[c.d].status = "PROCESSING" /\ row[c.d].token = c.token
      BY <2>1, <2>2, <1>f, <1>h DEF Present, ClaimOwns
    <3> QED BY <2>2, <3>1, <1>f, <1>v DEF Recorded, SameToken, c
  <2>3. CASE p # q
    <3>1. Recorded(p)
      BY <2>1, <2>3, <1>q DEF PostsRecorded, Core
    <3> QED BY <3>1, <1>v DEF Recorded, SameToken
  <2> QED BY <2>2, <2>3
<1>10. AcceptedOnce'
  <2>1. ASSUME NEW p \in posted, Present(p), Present(q), p.d = q.d PROVE FALSE
    <3>1. row[c.d].status = "PROCESSING" /\ row[c.d].token = c.token
      BY <2>1, <1>f, <1>h DEF Present, ClaimOwns
    <3>2. Recorded(p)
      BY <2>1 DEF PostsRecorded, Core
    <3>3. p.token = c.token
      BY <2>1, <3>1, <3>2, <1>f DEF Recorded
    <3> QED BY <2>1, <3>3, <1>n, <1>f DEF SameToken
  <2> QED BY <2>1, <1>q DEF AcceptedOnce, Present, Core
<1> QED BY <1>1, <1>2, <1>3, <1>4, <1>5, <1>6, <1>7, <1>8, <1>9, <1>10, <1>p DEF Core

-----------------------------------------------------------------------------
(* Every step of the outbox is of one of these kinds.                      *)

TypeFacts ==
  /\ row \in [Deliveries -> RowType]
  /\ minted \in [Deliveries -> Nat]
  /\ pc \in [Workers -> PcType]
  /\ claims \in [Workers -> Seq(Claim)]
  /\ \A w \in Workers : Len(claims[w]) <= BatchSize
  /\ verdict \in [Workers -> VerdictType]
  /\ disturbed \subseteq Deliveries
  /\ SettingsInv
  /\ posted \subseteq PostType

(* The types, with their sets named.                                       *)
LEMMA TypesAre == Types <=> TypeFacts
BY DEF Types, TypeFacts, TypeOK, SettingsInv, RowType, PcType, VerdictType, Prefs

(* The same after a step.                                                  *)
LEMMA TypesAreNext == Types' <=> TypeFacts'
BY DEF Types, TypeFacts, TypeOK, SettingsInv, RowType, PcType, VerdictType, Prefs

(* Nothing a row, a worker or a submission depends on changes.             *)
LEMMA SettingsSame ==
  ASSUME SettingsInv, UNCHANGED <<prefs, patch, unsub, wish, wishSeen, resend>>
  PROVE  SettingsInv'
BY DEF SettingsInv, SettingsOK

(* A row that is replaced by a row keeps the types.                        *)
LEMMA RowTyped ==
  ASSUME Types, NEW d \in Deliveries, NEW r \in RowType, row' = [row EXCEPT ![d] = r],
         disturbed' \subseteq Deliveries, SettingsInv',
         UNCHANGED <<minted, claims, pc, verdict, posted>>
  PROVE  Types'
<1>1. TypeFacts
  BY TypesAre
<1>2. row' \in [Deliveries -> RowType]
  BY <1>1, RowUpdate DEF TypeFacts
<1> QED BY <1>1, <1>2, TypesAreNext DEF TypeFacts

(* Completions, resends and the settings.                                  *)
LEMMA UserStep ==
  ASSUME Types, Core, NEW d \in Deliveries, User(d)
  PROVE  Types' /\ Core'
<1>t. TypeFacts
  BY TypesAre
<1>p. prefs[d].email \in Addresses
  BY DEF Types, SettingsInv, Prefs
<1>1. CASE CompleteReport(d) \/ (ResendRequest(d) /\ row[d].status = "none")
  <2>1. /\ row[d].status = "none" /\ row' = [row EXCEPT ![d] = Queued(prefs[d].email, 0)]
        /\ UNCHANGED <<minted, claims, pc, verdict, posted, wishSeen, disturbed>>
        /\ UNCHANGED <<prefs, patch, unsub, wish, resend>>
    BY <1>1 DEF CompleteReport, ResendRequest, NewRow, worker, requests, Terminal
  <2> DEFINE r == Queued(prefs[d].email, 0)
  <2>2. r \in RowType
    BY <1>p, RowTypes
  <2>3. /\ r.status = "PENDING" /\ r.epoch = 0 /\ r.attempts = 0 /\ r.token = 0
        /\ r.to \in Addresses
    BY <1>p DEF Queued
  <2> HIDE DEF r
  <2>4. RowOK(d) /\ row[d].token \in Nat
    BY RowFacts DEF RowsOK, Core
  <2>5. d \notin disturbed => Unclaimed(d)
    BY <2>1 DEF Unclaimed, ClaimsOwn, ClaimOwns, Core
  <2>6. SettingsInv'
    BY <2>1, <1>t, SettingsSame DEF TypeFacts
  <2>7. row' = [row EXCEPT ![d] = r]
    BY <2>1 DEF r
  <2>8. Core'
    <3>1. /\ r.epoch = row[d].epoch /\ r.attempts = row[d].attempts
          /\ r.status # "none" /\ (r.status = "PROCESSING" <=> r.token > 0)
          /\ (r.status = "SENT" <=> row[d].status = "SENT")
          /\ (r.status = "SENT" => r.to = row[d].to)
          /\ disturbed \subseteq disturbed' /\ (d \notin disturbed' => Unclaimed(d))
      BY <2>1, <2>3, <2>4, <2>5 DEF RowOK
    <3> QED BY <2>1, <2>2, <2>3, <2>7, <3>1, RowStep
  <2>9. disturbed' \subseteq Deliveries
    BY <2>1, <1>t DEF TypeFacts
  <2> QED BY <2>1, <2>2, <2>6, <2>7, <2>8, <2>9, RowTyped
<1>2. CASE ResendRequest(d) /\ row[d].status # "none"
  <2>1. /\ resend' = [resend EXCEPT ![d] = prefs[d].email]
        /\ UNCHANGED <<row, minted, claims, pc, verdict, posted, disturbed, wishSeen>>
        /\ UNCHANGED <<prefs, patch, unsub, wish>>
    BY <1>2 DEF ResendRequest, worker
  <2>2. SettingsInv'
    BY <2>1, <1>p, <1>t DEF TypeFacts, SettingsInv, SettingsOK
  <2>3. Types'
    BY <2>1, <2>2, <1>t, TypesAreNext DEF TypeFacts
  <2> QED BY <2>1, <2>3, CoreSame
<1>3. CASE ResendRequeue(d)
  <2>1. /\ resend[d] # NoAddress /\ resend' = [resend EXCEPT ![d] = NoAddress]
        /\ UNCHANGED <<minted, claims, pc, verdict, posted, wishSeen>>
        /\ UNCHANGED <<prefs, patch, unsub, wish>>
    BY <1>3 DEF ResendRequeue, worker
  <2>2. SettingsInv' /\ resend[d] \in Addresses
    BY <2>1, <1>t DEF TypeFacts, SettingsInv, SettingsOK
  <2>3. CASE Requeueable(d)
    <3>1. /\ row' = [row EXCEPT ![d] = Queued(resend[d], row[d].epoch + 1)]
          /\ disturbed' = disturbed \ {d} /\ row[d].status \in Terminal
      BY <1>3, <2>3 DEF ResendRequeue, Requeueable
    <3>2. Core'
      BY <2>1, <2>2, <3>1, RequeueStep
    <3>3. row[d].epoch + 1 \in Nat
      BY RowFacts
    <3>4. Queued(resend[d], row[d].epoch + 1) \in RowType
      BY <2>2, <3>3, RowTypes
    <3>5. disturbed' \subseteq Deliveries
      BY <3>1, <1>t DEF TypeFacts
    <3> QED BY <2>1, <2>2, <3>1, <3>2, <3>4, <3>5, RowTyped
  <2>4. CASE ~ Requeueable(d)
    <3>1. UNCHANGED <<row, disturbed>>
      BY <1>3, <2>4 DEF ResendRequeue
    <3>2. Types'
      BY <2>1, <2>2, <3>1, <1>t, TypesAreNext DEF TypeFacts
    <3> QED BY <2>1, <3>1, <3>2, CoreSame
  <2> QED BY <2>3, <2>4
<1>4. CASE \/ \E e \in Addresses \cup {NoAddress}, y, a \in Switches : PatchSettings(d, e, y, a)
           \/ SavePatch(d) \/ Unsubscribe(d) \/ SaveUnsubscribe(d) \/ DeleteReport(d)
  <2>1. SettingsInv'
    BY <1>4, SettingsStep
  <2>2. UNCHANGED <<row, minted, claims, pc, verdict, posted, disturbed, wishSeen>>
    BY <1>4 DEF PatchSettings, SavePatch, Unsubscribe, SaveUnsubscribe, DeleteReport, worker
  <2>3. Types'
    BY <2>1, <2>2, <1>t, TypesAreNext DEF TypeFacts
  <2> QED BY <2>2, <2>3, CoreSame
<1> QED BY <1>1, <1>2, <1>3, <1>4 DEF User, Switches

(* Leases and cooldowns that run out, and the release of expired claims.   *)
LEMMA ClockStep ==
  ASSUME Types, Core, NEW d \in Deliveries,
         Clock(d) \/ \E w \in Workers : ReleaseExpired(w, d)
  PROVE  Types' /\ Core'
<1>t. TypeFacts /\ row[d] \in RowType /\ row[d].token \in Nat /\ RowOK(d)
  BY TypesAre, RowFacts DEF Core, RowsOK
<1>u. /\ UNCHANGED <<minted, claims, pc, verdict, posted, wishSeen>>
      /\ UNCHANGED <<prefs, patch, unsub, wish, resend>>
  BY DEF Clock, ClaimExpires, CooldownEnds, ReleaseExpired, worker, requests
<1>s. SettingsInv'
  BY <1>u, <1>t, SettingsSame DEF TypeFacts
<1>1. CASE CooldownEnds(d)
  <2> DEFINE r == Aged(d, row[d].expired, FALSE)
  <2>1. r \in RowType /\ row' = [row EXCEPT ![d] = r] /\ UNCHANGED disturbed
    BY <1>1, <1>t, RowTypes DEF CooldownEnds, RowType
  <2>2. /\ r.status = row[d].status /\ r.epoch = row[d].epoch /\ r.attempts = row[d].attempts
        /\ r.token = row[d].token /\ r.to = row[d].to /\ r.expired = row[d].expired
    BY DEF Aged
  <2> HIDE DEF r
  <2>3. row[d].status # "none"
    BY <1>1, <1>t DEF CooldownEnds, RowOK
  <2>4. Core'
    BY <2>1, <2>2, <2>3, <1>t, <1>u, RowStep DEF RowOK
  <2> QED BY <2>1, <2>4, <1>t, <1>u, <1>s, RowTyped DEF TypeFacts
<1>2. CASE ClaimExpires(d)
  <2> DEFINE r == Aged(d, TRUE, row[d].recent)
  <2>1. r \in RowType /\ row' = [row EXCEPT ![d] = r] /\ row[d].status = "PROCESSING"
    BY <1>2, <1>t, RowTypes DEF ClaimExpires, RowType
  <2>2. /\ r.status = row[d].status /\ r.epoch = row[d].epoch /\ r.attempts = row[d].attempts
        /\ r.token = row[d].token /\ r.to = row[d].to
    BY DEF Aged
  <2> HIDE DEF r
  <2>3. disturbed \subseteq disturbed' /\ disturbed' \subseteq Deliveries
    BY <1>2, <1>t DEF ClaimExpires, TypeFacts
  <2>4. d \notin disturbed' => Unclaimed(d)
    <3> SUFFICES ASSUME d \notin disturbed', NEW w \in Workers, NEW i \in 1 .. Len(claims[w]),
                        claims[w][i].d = d, claims[w][i].epoch = row[d].epoch
                 PROVE  FALSE
      BY DEF Unclaimed
    <3>1. claims[w][i].token = row[d].token
      BY <2>3 DEF Core, ClaimsOwn, ClaimOwns
    <3>2. Holds(w, d)
      <4>1. i \in DOMAIN claims[w]
        BY <1>t DEF TypeFacts
      <4> QED BY <4>1, <3>1 DEF Holds
    <3> QED BY <1>2, <3>2 DEF ClaimExpires
  <2>5. Core'
    BY <2>1, <2>2, <2>3, <2>4, <1>t, <1>u, RowStep DEF RowOK
  <2> QED BY <2>1, <2>3, <2>5, <1>u, <1>s, RowTyped
<1>3. CASE \E w \in Workers : ReleaseExpired(w, d)
  <2> DEFINE r == RetryOrFail(d)
  <2>1. /\ r \in RowType /\ row' = [row EXCEPT ![d] = r] /\ UNCHANGED disturbed
        /\ row[d].status = "PROCESSING" /\ row[d].expired
    BY <1>3, RowTypes DEF ReleaseExpired
  <2>2. /\ r.status \in {"FAILED", "RETRY_PENDING"} /\ r.epoch = row[d].epoch
        /\ r.attempts = row[d].attempts /\ r.token = 0 /\ r.to = row[d].to
    BY DEF RetryOrFail, Settled
  <2> HIDE DEF r
  <2>3. d \notin disturbed => Unclaimed(d)
    BY <2>1 DEF Unclaimed, ClaimsOwn, ClaimOwns, Core
  <2>4. Core'
    <3>1. /\ r.status # "none" /\ (r.status = "PROCESSING" <=> r.token > 0)
          /\ r.to \in Addresses
          /\ (r.status = "SENT" <=> row[d].status = "SENT")
          /\ (r.status = "SENT" => r.to = row[d].to)
          /\ disturbed \subseteq disturbed' /\ (d \notin disturbed' => Unclaimed(d))
      BY <2>1, <2>2, <2>3, <1>t DEF RowOK
    <3> QED BY <2>1, <2>2, <3>1, <1>u, RowStep
  <2> QED BY <2>1, <2>4, <1>t, <1>u, <1>s, RowTyped DEF TypeFacts
<1> QED BY <1>1, <1>2, <1>3 DEF Clock

(* A step of one worker keeps the types.                                   *)
LEMMA WorkerTyped ==
  ASSUME Types, NEW w \in Workers, NEW s \in Seq(Claim), Len(s) <= BatchSize,
         claims' = [claims EXCEPT ![w] = s],
         row' \in [Deliveries -> RowType], minted' \in [Deliveries -> Nat],
         NEW t \in PcType, pc' = [pc EXCEPT ![w] = t],
         NEW v \in VerdictType, verdict' = [verdict EXCEPT ![w] = v],
         disturbed' \subseteq Deliveries, posted' \subseteq PostType, SettingsInv'
  PROVE  Types'
<1>1. TypeFacts
  BY TypesAre
<1>2. claims' \in [Workers -> Seq(Claim)] /\ \A x \in Workers : Len(claims'[x]) <= BatchSize
  BY <1>1 DEF TypeFacts
<1>3. pc' \in [Workers -> PcType] /\ verdict' \in [Workers -> VerdictType]
  BY <1>1 DEF TypeFacts
<1> QED BY <1>1, <1>2, <1>3, TypesAreNext DEF TypeFacts

(* What a worker's own variables are, and that a step may leave them.      *)
LEMMA WorkerFacts ==
  ASSUME Types, NEW w \in Workers
  PROVE  /\ claims[w] \in Seq(Claim) /\ Len(claims[w]) \in Nat /\ Len(claims[w]) <= BatchSize
         /\ claims = [claims EXCEPT ![w] = claims[w]]
         /\ pc[w] \in PcType /\ pc = [pc EXCEPT ![w] = pc[w]]
         /\ verdict[w] \in VerdictType /\ verdict = [verdict EXCEPT ![w] = verdict[w]]
         /\ row \in [Deliveries -> RowType] /\ minted \in [Deliveries -> Nat]
         /\ disturbed \subseteq Deliveries /\ posted \subseteq PostType /\ SettingsInv
         /\ BatchSize \in Nat \ {0}
<1>1. TypeFacts
  BY TypesAre
<1>2. claims[w] \in Seq(Claim) /\ Len(claims[w]) <= BatchSize
  BY <1>1 DEF TypeFacts
<1>3. Len(claims[w]) \in Nat
  BY <1>2
<1>4. claims = [claims EXCEPT ![w] = claims[w]]
  BY <1>1 DEF TypeFacts
<1>5. pc[w] \in PcType /\ pc = [pc EXCEPT ![w] = pc[w]]
  BY <1>1 DEF TypeFacts
<1>6. verdict[w] \in VerdictType /\ verdict = [verdict EXCEPT ![w] = verdict[w]]
  BY <1>1 DEF TypeFacts
<1> QED BY <1>1, <1>2, <1>3, <1>4, <1>5, <1>6, OutboxConstants DEF TypeFacts

(* A step that leaves the batch as it is.                                  *)
LEMMA Stays ==
  ASSUME Types, NEW w \in Workers, pc[w] # "settle",
         UNCHANGED <<minted, posted, claims>>,
         NEW t, pc' = [pc EXCEPT ![w] = t],
         NEW v, verdict' = [verdict EXCEPT ![w] = v],
         \A x \in Workers \ {w} : wishSeen'[x] = wishSeen[x],
         WorkerOK(w)'
  PROVE  Drops(w, 0)
<1>1. claims[w] \in Seq(Claim) /\ Len(claims[w]) \in Nat
  BY WorkerFacts
<1>2. \A x \in Workers \ {w} : pc'[x] = pc[x] /\ verdict'[x] = verdict[x]
  BY DEF Types, TypeOK
<1> QED BY <1>1, <1>2 DEF Drops

(* A worker starts, or moves between polling and claiming.                 *)
LEMMA IdleStep ==
  ASSUME Types, Core, NEW w \in Workers,
         StartClaiming(w) \/ StopClaiming(w) \/ StartWorker(w)
  PROVE  Types' /\ Core'
<1>f. /\ claims[w] \in Seq(Claim) /\ Len(claims[w]) <= BatchSize
      /\ claims = [claims EXCEPT ![w] = claims[w]]
      /\ verdict[w] \in VerdictType /\ verdict = [verdict EXCEPT ![w] = verdict[w]]
      /\ row \in [Deliveries -> RowType] /\ minted \in [Deliveries -> Nat]
      /\ disturbed \subseteq Deliveries /\ posted \subseteq PostType /\ SettingsInv
  BY WorkerFacts
<1>u. /\ UNCHANGED <<row, minted, claims, verdict, posted, disturbed, wishSeen>>
      /\ UNCHANGED <<prefs, patch, unsub, wish, resend>>
      /\ pc[w] # "settle"
  BY DEF StartClaiming, StopClaiming, StartWorker, requests
<1>1. PICK t \in {"claim", "poll", "stopped", "check"} :
        pc' = [pc EXCEPT ![w] = t] /\ (t = "check" => claims[w] # <<>>)
  BY DEF StartClaiming, StopClaiming, StartWorker, AfterRound
<1>2. pc'[w] = t
  BY <1>1 DEF Types, TypeOK
<1>3. WorkerOK(w)'
  BY <1>1, <1>2, <1>u DEF WorkerOK
<1>4. SettingsInv' /\ t \in PcType
  BY <1>u, <1>f, SettingsSame DEF PcType
<1>5. Types'
  BY <1>1, <1>4, <1>f, <1>u, WorkerTyped
<1>6. Drops(w, 0)
  BY <1>1, <1>3, <1>f, <1>u, Stays
<1> QED BY <1>5, <1>6, <1>u, DropStep

(* A claim goes out only when the user's settings allow action mail.       *)
LEMMA Decision ==
  ASSUME NEW c, NEW v \in CheckDecision(c)
  PROVE  /\ v \in {"send", "fail", "retry", "cancel"}
         /\ v = "send" => prefs[c.d].action
BY DEF CheckDecision, Eligibility

(* The head claim is checked.                                              *)
LEMMA CheckStep ==
  ASSUME Types, Core, NEW w \in Workers, CheckClaim(w)
  PROVE  Types' /\ Core'
<1>f. /\ claims[w] \in Seq(Claim) /\ Len(claims[w]) <= BatchSize
      /\ claims = [claims EXCEPT ![w] = claims[w]]
      /\ row \in [Deliveries -> RowType] /\ minted \in [Deliveries -> Nat]
      /\ disturbed \subseteq Deliveries /\ posted \subseteq PostType /\ SettingsInv
  BY WorkerFacts
<1> DEFINE c == claims[w][1]
<1>h. /\ pc[w] = "check" /\ claims[w] # <<>> /\ Head(claims[w]) = c
      /\ c.d \in Deliveries
  <2>1. pc[w] = "check"
    BY DEF CheckClaim
  <2>2. claims[w] # <<>> /\ Head(claims[w]) = c /\ 1 \in 1 .. Len(claims[w])
    BY <2>1, HeadFacts DEF Core
  <2> QED BY <2>1, <2>2, ClaimFacts
<1> HIDE DEF c
<1>u. /\ UNCHANGED <<row, minted, claims, posted, disturbed>>
      /\ UNCHANGED <<prefs, patch, unsub, wish, resend>>
      /\ wishSeen' = [wishSeen EXCEPT ![w] = wish[c.d]]
  BY <1>h DEF CheckClaim, requests
<1>1. PICK v \in CheckDecision(c) :
        IF v = "send" THEN Decide(w, "none", "send") ELSE Decide(w, v, "settle")
  BY <1>h DEF CheckClaim
<1>2. v \in {"send", "fail", "retry", "cancel"} /\ (v = "send" => prefs[c.d].action)
  BY Decision
<1>3. wish[c.d] \in BOOLEAN /\ wishSeen \in [Workers -> BOOLEAN]
      /\ (prefs[c.d].action => wish[c.d])
  BY <1>h, <1>f DEF SettingsInv, SettingsOK
<1>4. wishSeen' \in [Workers -> BOOLEAN] /\ wishSeen'[w] = wish[c.d]
      /\ \A x \in Workers \ {w} : wishSeen'[x] = wishSeen[x]
  BY <1>u, <1>3
<1>5. SettingsInv'
  BY <1>u, <1>4, <1>f DEF SettingsInv, SettingsOK
<1> DEFINE t == IF v = "send" THEN "send" ELSE "settle"
           o == IF v = "send" THEN "none" ELSE v
<1>6. /\ pc' = [pc EXCEPT ![w] = t] /\ verdict' = [verdict EXCEPT ![w] = o]
      /\ t \in PcType /\ o \in VerdictType /\ o # "sent"
      /\ (t = "send" => prefs[c.d].action) /\ (t = "settle" => o # "none")
      /\ t \in {"send", "settle"}
  BY <1>1, <1>2 DEF Decide, PcType, VerdictType
<1> HIDE DEF t, o
<1>7. pc'[w] = t /\ verdict'[w] = o
  BY <1>6 DEF Types, TypeOK
<1>8. WorkerOK(w)'
  BY <1>h, <1>u, <1>3, <1>4, <1>6, <1>7 DEF WorkerOK
<1>9. Types'
  BY <1>f, <1>u, <1>5, <1>6, WorkerTyped
<1>10. Drops(w, 0)
  BY <1>h, <1>u, <1>4, <1>6, <1>8, Stays
<1> QED BY <1>h, <1>9, <1>10, <1>u, DropStep

(* The provider is called, whatever comes back.                            *)
LEMMA SendStep ==
  ASSUME Types, Core, NEW w \in Workers, ProviderSend(w) \/ SendReplyLost(w)
  PROVE  Types' /\ Core'
<1>f. /\ claims[w] \in Seq(Claim) /\ Len(claims[w]) <= BatchSize
      /\ claims = [claims EXCEPT ![w] = claims[w]]
      /\ row \in [Deliveries -> RowType] /\ minted \in [Deliveries -> Nat]
      /\ disturbed \subseteq Deliveries /\ posted \subseteq PostType /\ SettingsInv
  BY WorkerFacts
<1>u. /\ UNCHANGED <<row, minted, claims, wishSeen>>
      /\ UNCHANGED <<prefs, patch, unsub, wish, resend>>
      /\ pc[w] = "send"
  BY DEF ProviderSend, SendReplyLost, requests
<1>h. claims[w] # <<>> /\ Head(claims[w]).d \in Deliveries
  <2>1. claims[w] # <<>> /\ Head(claims[w]) = claims[w][1] /\ 1 \in 1 .. Len(claims[w])
    BY <1>u, HeadFacts DEF Core
  <2> QED BY <2>1, ClaimFacts
<1>s. SettingsInv' /\ "settle" \in PcType
  BY <1>u, <1>f, SettingsSame DEF PcType
<1>1. ASSUME NEW accepted \in BOOLEAN, NEW v \in VerdictType \ {"none"}, Post(w, accepted),
             Decide(w, v, "settle"), disturbed \subseteq disturbed',
             disturbed' \subseteq Deliveries,
             v = "sent" => accepted,
             accepted => v = "sent" \/ Head(claims[w]).d \in disturbed'
      PROVE  Types' /\ Core'
  <2>1. Core' /\ posted' \subseteq PostType
    BY <1>1, <1>u, PostStep
  <2> QED BY <2>1, <1>1, <1>f, <1>s, <1>u, WorkerTyped DEF Decide
<1>2. CASE SendReplyLost(w)
  <2>1. /\ Post(w, TRUE) /\ Decide(w, "retry", "settle") /\ "retry" \in VerdictType \ {"none"}
        /\ disturbed' = disturbed \cup {Head(claims[w]).d}
    BY <1>2 DEF SendReplyLost, VerdictType
  <2>2. disturbed \subseteq disturbed' /\ disturbed' \subseteq Deliveries
        /\ Head(claims[w]).d \in disturbed'
    BY <2>1, <1>h, <1>f
  <2> QED BY <1>1, <2>1, <2>2
<1>3. CASE ProviderSend(w) /\ Post(w, TRUE) /\ Decide(w, "sent", "settle")
  <2>1. "sent" \in VerdictType \ {"none"} /\ UNCHANGED disturbed
    BY <1>3 DEF ProviderSend, VerdictType
  <2> QED BY <1>1, <1>3, <1>f, <2>1
<1>4. CASE /\ ProviderSend(w)
           /\ \E v \in {"retry", "fail"} : Post(w, FALSE) /\ Decide(w, v, "settle")
  <2>1. PICK v \in {"retry", "fail"} : Post(w, FALSE) /\ Decide(w, v, "settle")
    BY <1>4
  <2>2. v \in VerdictType \ {"none"} /\ v # "sent" /\ UNCHANGED disturbed
    BY <1>4 DEF ProviderSend, VerdictType
  <2> QED BY <1>1, <1>f, <2>1, <2>2
<1>5. CASE /\ ProviderSend(w)
           /\ \E v \in {"retry", "fail"} : UNCHANGED posted /\ Decide(w, v, "settle")
  <2>1. PICK v \in {"retry", "fail"} : UNCHANGED posted /\ Decide(w, v, "settle")
    BY <1>5
  <2>2. v \in VerdictType /\ v \notin {"none", "sent"} /\ UNCHANGED disturbed
        /\ pc' = [pc EXCEPT ![w] = "settle"] /\ verdict' = [verdict EXCEPT ![w] = v]
    BY <1>5, <2>1 DEF ProviderSend, VerdictType, Decide
  <2>3. pc'[w] = "settle" /\ verdict'[w] = v
    BY <2>2 DEF Types, TypeOK
  <2>4. WorkerOK(w)'
    BY <1>h, <1>u, <2>2, <2>3 DEF WorkerOK
  <2>5. Types'
    BY <1>f, <1>s, <1>u, <2>1, <2>2, WorkerTyped
  <2>6. Drops(w, 0)
    BY <1>u, <2>1, <2>2, <2>4, Stays
  <2> QED BY <1>u, <2>2, <2>5, <2>6, DropStep
<1> QED BY <1>2, <1>3, <1>4, <1>5 DEF ProviderSend

(* The head of the batch goes.                                             *)
LEMMA Advances ==
  ASSUME Types, Core, NEW w \in Workers, pc[w] = "settle", NextClaim(w),
         UNCHANGED <<minted, posted, wishSeen>>, row' \in [Deliveries -> RowType],
         disturbed' \subseteq Deliveries, SettingsInv'
  PROVE  Types' /\ Drops(w, 1)
<1>f. /\ claims[w] \in Seq(Claim) /\ Len(claims[w]) \in Nat /\ Len(claims[w]) <= BatchSize
      /\ minted \in [Deliveries -> Nat] /\ posted \subseteq PostType
      /\ BatchSize \in Nat
  BY WorkerFacts
<1>h. claims[w] # <<>>
  BY HeadFacts DEF Core
<1>t. /\ Tail(claims[w]) \in Seq(Claim) /\ Len(claims[w]) > 0
      /\ Len(Tail(claims[w])) = Len(claims[w]) - 1
      /\ \A i \in 1 .. Len(Tail(claims[w])) :
           i + 1 \in 1 .. Len(claims[w]) /\ Tail(claims[w])[i] = claims[w][i + 1]
  BY <1>f, <1>h, Rest
<1> DEFINE t == IF Len(claims[w]) = 1 THEN "poll" ELSE "check"
<1>1. /\ claims' = [claims EXCEPT ![w] = Tail(claims[w])]
      /\ verdict' = [verdict EXCEPT ![w] = "none"]
      /\ pc' = [pc EXCEPT ![w] = t]
      /\ t \in PcType /\ "none" \in VerdictType /\ t \in {"poll", "check"}
      /\ (t = "check" => Len(claims[w]) # 1)
  BY DEF NextClaim, PcType, VerdictType
<1> HIDE DEF t
<1>2. Types'
  <2>1. Len(Tail(claims[w])) <= BatchSize
    BY <1>f, <1>t
  <2>2. minted' \in [Deliveries -> Nat] /\ posted' \subseteq PostType
    BY <1>f
  <2> QED BY <1>1, <1>t, <2>1, <2>2, WorkerTyped
<1>3. /\ claims'[w] = Tail(claims[w]) /\ pc'[w] = t /\ verdict'[w] = "none"
      /\ \A x \in Workers \ {w} : claims'[x] = claims[x] /\ pc'[x] = pc[x]
                                  /\ verdict'[x] = verdict[x]
  BY <1>1 DEF Types, TypeOK
<1>4. WorkerOK(w)'
  <2>1. Len(<<>>) = 0
    OBVIOUS
  <2>2. t = "check" => Len(Tail(claims[w])) # 0
    BY <1>1, <1>t, <1>f
  <2> QED BY <1>1, <1>3, <2>1, <2>2 DEF WorkerOK
<1>5. Drops(w, 1)
  BY <1>3, <1>4, <1>t DEF Drops
<1> QED BY <1>2, <1>5

(* What mark_sent, mark_retry_pending, mark_failed and mark_cancelled      *)
(* leave alone.                                                            *)
LEMMA OutcomeFacts ==
  ASSUME NEW d, NEW v \in VerdictType \ {"none"}
  PROVE  /\ Outcome(d, v).epoch = row[d].epoch /\ Outcome(d, v).attempts = row[d].attempts
         /\ Outcome(d, v).to = row[d].to /\ Outcome(d, v).token = 0
         /\ Outcome(d, v).status \in Terminal \cup Waiting
         /\ Outcome(d, v).status = "SENT" <=> v = "sent"
BY DEF Outcome, RetryOrFail, Settled, VerdictType, Terminal, Waiting

(* The head claim is settled, given up, or lost to another worker.         *)
LEMMA SettleClaimStep ==
  ASSUME Types, Core, NEW w \in Workers, SettleClaim(w) \/ SettleFault(w)
  PROVE  Types' /\ Core'
<1>f. /\ row \in [Deliveries -> RowType] /\ disturbed \subseteq Deliveries /\ SettingsInv
      /\ verdict[w] \in VerdictType
  BY WorkerFacts
<1>u. /\ UNCHANGED <<minted, posted, wishSeen>>
      /\ UNCHANGED <<prefs, patch, unsub, wish, resend>>
      /\ pc[w] = "settle" /\ NextClaim(w)
  BY DEF SettleClaim, SettleFault, requests
<1> DEFINE c == claims[w][1]
<1>h. Head(claims[w]) = c /\ c.d \in Deliveries /\ verdict[w] # "none"
  <2>1. Head(claims[w]) = c /\ 1 \in 1 .. Len(claims[w])
    BY <1>u, HeadFacts DEF Core
  <2> QED BY <1>u, <2>1, ClaimFacts DEF Core, WorkersOK, WorkerOK
<1>s. SettingsInv'
  BY <1>u, <1>f, SettingsSame
<1>1. CASE SettleFault(w)
  <2>1. UNCHANGED row /\ disturbed' = disturbed \cup {c.d}
    BY <1>1, <1>h DEF SettleFault
  <2>2. disturbed \subseteq disturbed' /\ disturbed' \subseteq Deliveries
    BY <2>1, <1>h, <1>f
  <2>3. Types' /\ Drops(w, 1)
    BY <1>u, <1>f, <1>s, <2>1, <2>2, Advances
  <2> QED BY <2>1, <2>2, <2>3, DropStep
<1>2. CASE SettleClaim(w) /\ ~ Owns(c)
  <2>1. UNCHANGED <<row, disturbed>>
    BY <1>2, <1>h DEF SettleClaim
  <2>3. Types' /\ Drops(w, 1)
    BY <1>u, <1>f, <1>s, <2>1, Advances
  <2> QED BY <1>2, <2>1, <2>3, DropStep
<1>3. CASE SettleClaim(w) /\ Owns(c)
  <2> DEFINE r == Outcome(c.d, verdict[w])
  <2>1. row' = [row EXCEPT ![c.d] = r] /\ UNCHANGED disturbed
    BY <1>3, <1>h DEF SettleClaim
  <2>2. r \in RowType
    BY <1>h, <1>f, RowTypes
  <2>3. /\ r.epoch = row[c.d].epoch /\ r.attempts = row[c.d].attempts /\ r.to = row[c.d].to
        /\ r.token = 0 /\ r.status \in Terminal \cup Waiting
        /\ (r.status = "SENT" <=> verdict[w] = "sent")
    BY <1>h, <1>f, OutcomeFacts
  <2> HIDE DEF r
  <2>4. row' \in [Deliveries -> RowType]
    BY <1>h, <1>f, <2>1, <2>2, RowUpdate
  <2>5. Types' /\ Drops(w, 1)
    BY <1>u, <1>f, <1>s, <2>1, <2>4, Advances
  <2> QED BY <1>3, <1>h, <1>u, <2>1, <2>2, <2>3, <2>5, SettleStep
<1> QED BY <1>1, <1>2, <1>3

(* A worker loses its batch.                                               *)
LEMMA LoseStep ==
  ASSUME Types, Core, NEW w \in Workers, ClaimFault(w) \/ GraceEnds(w) \/ CrashWorker(w)
  PROVE  Types' /\ Core'
<1>f. /\ row \in [Deliveries -> RowType] /\ minted \in [Deliveries -> Nat]
      /\ disturbed \subseteq Deliveries /\ posted \subseteq PostType /\ SettingsInv
      /\ verdict[w] \in VerdictType /\ verdict = [verdict EXCEPT ![w] = verdict[w]]
      /\ claims[w] \in Seq(Claim)
  BY WorkerFacts
<1>u. /\ UNCHANGED <<row, minted, posted, wishSeen>>
      /\ UNCHANGED <<prefs, patch, unsub, wish, resend>>
      /\ claims' = [claims EXCEPT ![w] = <<>>]
      /\ disturbed' = disturbed \cup HeldBy(w)
  BY DEF ClaimFault, GraceEnds, CrashWorker, Forget, requests
<1>1. PICK t \in {"poll", "stopped"} : pc' = [pc EXCEPT ![w] = t]
  BY DEF ClaimFault, GraceEnds, CrashWorker, Forget, AfterRound
<1>2. PICK v \in VerdictType : verdict' = [verdict EXCEPT ![w] = v]
  BY <1>f DEF ClaimFault, GraceEnds, CrashWorker, Forget, VerdictType
<1>3. HeldBy(w) \subseteq Deliveries
  BY <1>f, ClaimFacts DEF HeldBy
<1>4. SettingsInv' /\ t \in PcType /\ disturbed' \subseteq Deliveries
      /\ disturbed \subseteq disturbed'
  BY <1>u, <1>f, <1>3, SettingsSame DEF PcType
<1>5. <<>> \in Seq(Claim) /\ Len(<<>>) = 0 /\ BatchSize \in Nat
  BY OutboxConstants
<1>6. Types'
  <2>1. /\ Len(<<>>) <= BatchSize /\ row' \in [Deliveries -> RowType]
        /\ minted' \in [Deliveries -> Nat] /\ posted' \subseteq PostType
    BY <1>5, <1>f, <1>u
  <2> QED BY <1>1, <1>2, <1>4, <1>5, <1>u, <2>1, WorkerTyped
<1>7. /\ claims'[w] = <<>> /\ pc'[w] = t
      /\ \A x \in Workers \ {w} : claims'[x] = claims[x] /\ pc'[x] = pc[x]
                                  /\ verdict'[x] = verdict[x]
  BY <1>1, <1>2, <1>u DEF Types, TypeOK
<1>8. WorkerOK(w)'
  BY <1>7 DEF WorkerOK
<1>9. Drops(w, 0)
  BY <1>5, <1>7, <1>8, <1>u DEF Drops
<1>10. pc[w] = "settle" => claims[w][1].d \in disturbed'
  <2> SUFFICES ASSUME pc[w] = "settle" PROVE claims[w][1].d \in HeldBy(w)
    BY <1>u
  <2>1. 1 \in 1 .. Len(claims[w])
    BY HeadFacts DEF Core
  <2>2. DOMAIN claims[w] = 1 .. Len(claims[w])
    BY <1>f
  <2> QED BY <2>1, <2>2 DEF HeldBy
<1> QED BY <1>4, <1>6, <1>9, <1>10, <1>u, DropStep

(* The next claim of a batch.                                              *)
LEMMA ClaimNextStep ==
  ASSUME Types, Core, NEW w \in Workers, NEW d \in Deliveries, ClaimNext(w, d)
  PROVE  Types' /\ Core'
<1>f. /\ claims[w] \in Seq(Claim) /\ Len(claims[w]) \in Nat /\ BatchSize \in Nat
      /\ pc[w] \in PcType /\ pc = [pc EXCEPT ![w] = pc[w]]
      /\ verdict[w] \in VerdictType /\ verdict = [verdict EXCEPT ![w] = verdict[w]]
      /\ row \in [Deliveries -> RowType] /\ minted \in [Deliveries -> Nat]
      /\ disturbed \subseteq Deliveries /\ posted \subseteq PostType /\ SettingsInv
  BY WorkerFacts
<1> DEFINE c == [d |-> d, token |-> minted[d] + 1, to |-> row[d].to, epoch |-> row[d].epoch]
<1>1. /\ UNCHANGED <<pc, verdict, posted, disturbed, wishSeen>>
      /\ UNCHANGED <<prefs, patch, unsub, wish, resend>>
      /\ claims' = [claims EXCEPT ![w] = Append(claims[w], c)]
      /\ row' = [row EXCEPT ![d] = Claimed(d)]
      /\ minted' = [minted EXCEPT ![d] = minted[d] + 1]
      /\ Claimable(d) /\ Len(claims[w]) < BatchSize
  BY DEF ClaimNext, requests, BatchOpen
<1>2. c \in Claim
  <2>1. minted[d] + 1 \in Nat /\ row[d].epoch \in Nat
    BY RowFacts
  <2>2. row[d].to \in Addresses
    BY <1>1 DEF Core, RowsOK, RowOK, Claimable, Waiting
  <2> QED BY <2>1, <2>2 DEF Claim
<1> HIDE DEF c
<1>3. Append(claims[w], c) \in Seq(Claim) /\ Len(Append(claims[w], c)) <= BatchSize
  BY <1>f, <1>1, <1>2, Longer
<1>4. row' \in [Deliveries -> RowType] /\ minted' \in [Deliveries -> Nat]
  <2>1. Claimed(d) \in RowType
    BY <1>1, RowTypes
  <2> QED BY <1>1, <1>f, <2>1
<1>5. SettingsInv' /\ disturbed' \subseteq Deliveries /\ posted' \subseteq PostType
      /\ pc' = [pc EXCEPT ![w] = pc[w]] /\ verdict' = [verdict EXCEPT ![w] = verdict[w]]
  BY <1>f, <1>1, SettingsSame
<1>6. Types'
  BY <1>1, <1>3, <1>4, <1>5, <1>f, WorkerTyped
<1> QED BY <1>6, ClaimStep

(* Every step preserves the invariant.                                     *)
LEMMA OutboxStep ==
  ASSUME OutboxInv, [Next]_vars
  PROVE  OutboxInv'
<1>i. Types /\ Core /\ TypeFacts
  BY TypesAre DEF OutboxInv
<1>1. ASSUME UNCHANGED <<row, minted, claims, pc, verdict, posted, disturbed, wishSeen>>,
             UNCHANGED <<prefs, patch, unsub, wish, resend>>
      PROVE  OutboxInv'
  <2>1. SettingsInv'
    BY <1>i, <1>1, SettingsSame DEF TypeFacts
  <2>2. Types'
    BY <1>i, <1>1, <2>1, TypesAreNext DEF TypeFacts
  <2> QED BY <1>i, <1>1, <2>2, CoreSame DEF OutboxInv
<1>2. CASE UNCHANGED vars
  BY <1>1, <1>2 DEF vars
<1>3. CASE \E d \in Deliveries : User(d) \/ Clock(d)
  BY <1>i, <1>3, UserStep, ClockStep DEF OutboxInv
<1>4. ASSUME NEW w \in Workers, RunOnce(w) PROVE OutboxInv'
  BY <1>i, <1>4, ClockStep, ClaimNextStep, IdleStep, CheckStep, SendStep, SettleClaimStep
     DEF OutboxInv, RunOnce
<1>5. ASSUME NEW w \in Workers, Disturb(w) PROVE OutboxInv'
  <2>1. CASE StopWorker(w)
    BY <1>1, <2>1 DEF StopWorker, requests
  <2>2. CASE SendReplyLost(w) \/ SettleFault(w) \/ ClaimFault(w) \/ GraceEnds(w) \/ CrashWorker(w)
    BY <1>i, <2>2, SendStep, SettleClaimStep, LoseStep DEF OutboxInv
  <2> QED BY <1>5, <2>1, <2>2 DEF Disturb
<1> QED BY <1>2, <1>3, <1>4, <1>5 DEF Next

(* The invariant holds at the start.                                       *)
LEMMA OutboxInit == Init => OutboxInv
<1> SUFFICES ASSUME Init PROVE OutboxInv
  OBVIOUS
<1>1. \A w \in Workers : claims[w] = <<>> /\ Len(claims[w]) = 0 /\ pc[w] = "poll"
  BY DEF Init
<1>2. posted = {} /\ row = [d \in Deliveries |-> NoRow] /\ minted = [d \in Deliveries |-> 0]
  BY DEF Init
<1>3. Types
  <2>1. NoRow \in RowType /\ FirstAddress \in Addresses /\ BatchSize \in Nat
    BY OutboxConstants DEF NoRow, RowType
  <2>2. NoPatch \in PatchType /\ NoUnsub \in UnsubType /\ ~NoPatch.on /\ ~NoUnsub.on
    BY DEF NoPatch, PatchType, NoUnsub, UnsubType, Switches
  <2>3. [email |-> FirstAddress, daily |-> TRUE, action |-> TRUE] \in Prefs
    BY <2>1 DEF Prefs
  <2>4. SettingsInv
    BY <2>2, <2>3 DEF Init, SettingsInv, SettingsOK
  <2>5. claims \in [Workers -> Seq(Claim)] /\ \A w \in Workers : Len(claims[w]) <= BatchSize
    BY <1>1, <2>1 DEF Init
  <2>6. pc \in [Workers -> PcType] /\ verdict \in [Workers -> VerdictType]
    BY DEF Init, PcType, VerdictType
  <2>7. TypeFacts
    BY <2>1, <2>4, <2>5, <2>6 DEF TypeFacts, Init
  <2> QED BY <2>7, TypesAre
<1>4. RowsOK /\ SentWasAccepted
  BY <1>2 DEF RowsOK, RowOK, NoRow, SentWasAccepted
<1>5. WorkersOK /\ ClaimsOK /\ ClaimsOwn /\ ClaimsDistinct
  BY <1>1 DEF WorkersOK, WorkerOK, ClaimsOK, ClaimsOwn, ClaimsDistinct
<1>6. PostsOK /\ PostsDistinct /\ SubmittedOnce /\ PostsRecorded /\ AcceptedOnce
  BY <1>2 DEF PostsOK, PostsDistinct, SubmittedOnce, PostsRecorded, AcceptedOnce
<1>7. Windows
  <2> SUFFICES ASSUME NEW d \in Deliveries, NEW e \in Nat PROVE InWindow(d, e, 0)
    BY DEF Windows
  <2> QED BY <1>1, <1>2 DEF InWindow, NoRow
<1> QED BY <1>3, <1>4, <1>5, <1>6, <1>7 DEF OutboxInv, Core

-----------------------------------------------------------------------------
(* OutboxInv is inductive, so it holds in every state of the outbox.       *)
THEOREM OutboxInvariant == Spec => []OutboxInv
<1>1. OutboxInv /\ [Next]_vars => OutboxInv'
  BY OutboxStep
<1> QED BY <1>1, OutboxInit, PTL DEF Spec

(* The rows, the workers' batches and the addresses they mail to are well  *)
(* formed: no row counts more than MaxAttempts attempts and no batch holds *)
(* more than BatchSize claims.                                             *)
THEOREM OutboxTypes == Spec => []TypeOK
<1>1. OutboxInv => TypeOK
  BY DEF OutboxInv, Types
<1> QED BY <1>1, OutboxInvariant, PTL

(* One request to send a report is submitted at most MaxAttempts times,    *)
(* however many workers, crashes, overrun leases and lost answers there    *)
(* are: its submissions have different tokens from one window.             *)
THEOREM SubmissionsAreBounded == Spec => []SubmissionsBounded
<1>1. OutboxInv => SubmissionsBounded
  <2> SUFFICES ASSUME OutboxInv, NEW d \in Deliveries, NEW e \in 0 .. MaxResends
               PROVE  Cardinality(SubmittedIn(d, e)) <= MaxAttempts
    BY DEF SubmissionsBounded
  <2>0. MaxAttempts \in Nat /\ e \in Nat
    BY OutboxConstants
  <2>1. PICK lo \in Int : InWindow(d, e, lo)
    BY <2>0 DEF OutboxInv, Core, Windows
  <2> DEFINE S == SubmittedIn(d, e)
             T == (lo + 1) .. (lo + MaxAttempts)
             f == [p \in S |-> p.token]
  <2>2. IsFiniteSet(T) /\ Cardinality(T) = MaxAttempts
    BY <2>0, FS_Interval
  <2>3. f \in [S -> T]
    BY <2>1 DEF InWindow, SubmittedIn
  <2>4. \A p, q \in S : f[p] = f[q] => p = q
    BY DEF SubmittedIn, OutboxInv, Core, PostsDistinct, SameToken
  <2>5. f \in Injection(S, T)
    BY <2>3, <2>4 DEF Injection, IsInjective
  <2> HIDE DEF S, T, f
  <2>6. Cardinality(S) <= Cardinality(T)
    BY <2>2, <2>5, FS_Injection DEF ExistsInjection
  <2> QED BY <2>2, <2>6 DEF S
<1> QED BY <1>1, OutboxInvariant, PTL

(* A row says SENT only when the provider accepted this very request, to   *)
(* the address on the row.                                                 *)
THEOREM SentIsAccepted == Spec => []SentWasAccepted
<1>1. OutboxInv => SentWasAccepted
  BY DEF OutboxInv, Core
<1> QED BY <1>1, OutboxInvariant, PTL

(* Without a disturbance a report is accepted at most once, and a settled  *)
(* row says SENT exactly when it was.                                      *)
THEOREM AcceptedAtMostOnce == Spec => []OnceUnlessDisturbed
<1>1. OutboxInv => OnceUnlessDisturbed
  <2> SUFFICES ASSUME OutboxInv, NEW d \in Deliveries \ disturbed
               PROVE  /\ Cardinality(AcceptedIn(d, row[d].epoch)) <= 1
                      /\ row[d].status \in Terminal =>
                           (row[d].status = "SENT" <=> AcceptedIn(d, row[d].epoch) # {})
    BY DEF OnceUnlessDisturbed
  <2> DEFINE A == AcceptedIn(d, row[d].epoch)
  <2>1. \A p \in A : p \in posted /\ p.d = d /\ Present(p)
    BY DEF AcceptedIn, SubmittedIn, Present
  <2>2. \A p, q \in A : p = q
    BY <2>1 DEF OutboxInv, Core, AcceptedOnce
  <2>3. Cardinality(A) <= 1
    <3>1. CASE A = {}
      BY <3>1, FS_EmptySet
    <3>2. CASE A # {}
      <4>1. PICK p \in A : A = {p}
        BY <2>2, <3>2
      <4>2. Cardinality({p}) = 1
        BY FS_Singleton
      <4> HIDE DEF A
      <4> QED BY <4>1, <4>2
    <3> QED BY <3>1, <3>2
  <2>4. row[d].status = "SENT" => A # {}
    BY DEF OutboxInv, Core, SentWasAccepted
  <2>5. ASSUME row[d].status \in Terminal, NEW p \in A PROVE row[d].status = "SENT"
    BY <2>1, <2>5 DEF OutboxInv, Core, PostsRecorded, Recorded, Terminal
  <2> QED BY <2>3, <2>4, <2>5
<1> QED BY <1>1, OutboxInvariant, PTL

(* No claim checked after the user unsubscribed is submitted until a       *)
(* change of the settings asks for action mail again.                      *)
THEOREM UnsubscribedGetNoMail == Spec => []NoMailAfterUnsubscribe
<1>1. OutboxInv => NoMailAfterUnsubscribe
  BY DEF OutboxInv, Core, PostsOK, PostOK, NoMailAfterUnsubscribe
<1> QED BY <1>1, OutboxInvariant, PTL

(* A terminal row changes its status only by a resend, which starts a new  *)
(* request: late workers and released leases leave it alone.               *)
THEOREM TerminalStays == Spec => TerminalUntilResend
<1> DEFINE Keeps(d) == row[d].status \in Terminal /\ row'[d].status # row[d].status
                          => /\ row'[d].status = "PENDING"
                             /\ row'[d].epoch = row[d].epoch + 1
<1>1. ASSUME OutboxInv, [Next]_vars, NEW x \in Deliveries PROVE Keeps(x)
  <2>t. row \in [Deliveries -> RowType] /\ Types /\ Core
    BY <1>1, TypesAre DEF OutboxInv, TypeFacts
  <2>1. CASE UNCHANGED row
    BY <2>1
  <2>2. CASE \E d \in Deliveries : CompleteReport(d) \/ ResendRequest(d)
    BY <2>t, <2>2 DEF CompleteReport, ResendRequest, NewRow, Terminal
  <2>3. CASE \E d \in Deliveries : ResendRequeue(d)
    BY <2>t, <2>3 DEF ResendRequeue, Queued
  <2>4. CASE \E d \in Deliveries : CooldownEnds(d) \/ ClaimExpires(d)
    BY <2>t, <2>4 DEF CooldownEnds, ClaimExpires, Aged
  <2>5. CASE \E w \in Workers, d \in Deliveries : ReleaseExpired(w, d) \/ ClaimNext(w, d)
    BY <2>t, <2>5 DEF ReleaseExpired, ClaimNext, Claimable, Waiting, Terminal
  <2>6. CASE \E w \in Workers : SettleClaim(w)
    <3>1. PICK w \in Workers : SettleClaim(w)
      BY <2>6
    <3> DEFINE c == Head(claims[w])
    <3>2. CASE Owns(c)
      BY <2>t, <3>1, <3>2 DEF SettleClaim, Owns, Terminal
    <3>3. CASE ~ Owns(c)
      BY <3>1, <3>3 DEF SettleClaim
    <3> QED BY <3>2, <3>3
  <2>7. ASSUME NEW d \in Deliveries, User(d) PROVE Keeps(x)
    <3>1. CASE \/ \E e \in Addresses \cup {NoAddress}, y, a \in {"keep", "on", "off"} :
                    PatchSettings(d, e, y, a)
               \/ SavePatch(d) \/ Unsubscribe(d) \/ SaveUnsubscribe(d) \/ DeleteReport(d)
      BY <2>1, <3>1 DEF PatchSettings, SavePatch, Unsubscribe, SaveUnsubscribe, DeleteReport
    <3> QED BY <2>2, <2>3, <2>7, <3>1 DEF User
  <2>8. ASSUME NEW w \in Workers, RunOnce(w) PROVE Keeps(x)
    <3>1. CASE StartClaiming(w) \/ StopClaiming(w) \/ CheckClaim(w) \/ ProviderSend(w)
               \/ StartWorker(w)
      BY <2>1, <3>1 DEF StartClaiming, StopClaiming, CheckClaim, ProviderSend, StartWorker
    <3> QED BY <2>5, <2>6, <2>8, <3>1 DEF RunOnce
  <2>9. ASSUME NEW w \in Workers, Disturb(w) PROVE Keeps(x)
    <3>1. UNCHANGED row
      BY <2>9 DEF Disturb, SendReplyLost, SettleFault, ClaimFault, GraceEnds, CrashWorker,
                  StopWorker, Forget
    <3> QED BY <2>1, <3>1
  <2> QED BY <1>1, <2>1, <2>4, <2>7, <2>8, <2>9 DEF Next, Clock, vars
<1>2. OutboxInv /\ [Next]_vars => \A d \in Deliveries : Keeps(d)
  BY <1>1
<1> QED BY <1>2, OutboxInvariant, PTL DEF Spec, TerminalUntilResend
=============================================================================
