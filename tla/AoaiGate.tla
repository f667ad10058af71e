-------------------------------- MODULE AoaiGate --------------------------------
(***************************************************************************)
(* Calls to Azure OpenAI: the process-wide concurrency gate                *)
(* (llm/concurrency_gate.py) and the client's loop of posts, retries and   *)
(* compatibility adjustments (llm/aoai.py).                                *)
(*                                                                         *)
(* A caller is a thread with one call at a time.  The gate's lock makes    *)
(* each of its sections one step; a wait is a place in the condition's     *)
(* FIFO list, and a waiter that has been notified or has timed out is      *)
(* awake but not back in the lock yet.  The deployment is consistent: it   *)
(* rejects a capability only in a request that carries it, and never       *)
(* serves one that carries a capability it lacks.                          *)
(***************************************************************************)
EXTENDS Integers, Sequences, FiniteSets, SequencesExt

CONSTANTS
  Callers,          \* threads that call the provider
  Streaming,        \* the callers whose requests are streamed
  MinCapacity, InitialCapacity, MaxCapacity,
  HealthyToGrow,    \* healthy_observations_to_grow
  MaxRetries,       \* max_retries
  MaxAdjustments,   \* MAX_COMPATIBILITY_ADJUSTMENTS
  Features,         \* optional capabilities of a request body
  Lacking,          \* the ones the deployment rejects
  MaxCalls,         \* bound: calls of one caller
  MaxTrouble        \* bound: failed, limited or nearly limited answers

ASSUME GateConstants ==
  /\ IsFiniteSet(Callers)
  /\ Streaming \subseteq Callers
  /\ Lacking \subseteq Features
  /\ IsFiniteSet(Features)
  /\ MinCapacity \in Nat \ {0}
  /\ MaxCapacity \in Nat
  /\ MinCapacity <= MaxCapacity
  /\ InitialCapacity \in Nat
  /\ HealthyToGrow \in Nat \ {0}
  /\ MaxRetries \in Nat
  /\ MaxAdjustments \in Nat
  /\ Cardinality(Features) <= MaxAdjustments
  /\ MaxCalls \in Nat
  /\ MaxTrouble \in Nat

VARIABLES
  capacity, in_flight, healthy_streak,  \* the gate
  waiters,      \* the condition's list of waiters, oldest first
  at,           \* where each caller is
  awake,        \* a waiter that was notified or timed out
  expired,      \* a waiter whose wait budget is spent
  body,         \* capabilities in the request body
  unsupported,  \* _compatibility_cache
  retry_count, attempt, reply, calls,
  trouble,
  sinceLimit    \* history: healthy answers counted since the last shrink signal

gate == <<capacity, in_flight, healthy_streak, waiters, awake, expired>>
call == <<body, unsupported, retry_count, attempt, calls>>
vars == <<capacity, in_flight, healthy_streak, waiters, at, awake, expired, body,
          unsupported, retry_count, attempt, reply, calls, trouble, sinceLimit>>

Places == {"idle", "enter", "waiting", "posting", "observing", "held", "answered",
           "succeeded", "failed", "exhausted"}
Ended == {"succeeded", "failed", "exhausted"}
Replies == {"none", "ok", "garbled", "rejected", "limited", "retryable", "fatal", "lost"}

(* A streamed exchange is observed inside its slot, an ordinary one after  *)
(* its slot was given back ("answered").                                   *)
HoldingSlot(c) == at[c] \in {"posting", "observing", "held"}

Clamp(n, low, high) == IF n > high THEN high ELSE IF n < low THEN low ELSE n

Init ==
  /\ capacity = Clamp(InitialCapacity, MinCapacity, MaxCapacity)
  /\ in_flight = 0
  /\ healthy_streak = 0
  /\ waiters = <<>>
  /\ at = [c \in Callers |-> "idle"]
  /\ awake = [c \in Callers |-> FALSE]
  /\ expired = [c \in Callers |-> FALSE]
  /\ body = [c \in Callers |-> {}]
  /\ unsupported = {}
  /\ retry_count = [c \in Callers |-> 0]
  /\ attempt = [c \in Callers |-> 0]
  /\ reply = [c \in Callers |-> "none"]
  /\ calls = [c \in Callers |-> 0]
  /\ trouble = 0
  /\ sinceLimit = 0

-----------------------------------------------------------------------------
(* generate_json: a new client takes what the process knows about the      *)
(* deployment and builds the body.                                         *)
BeginCall(c) ==
  /\ at[c] \in {"idle"} \cup Ended
  /\ calls[c] < MaxCalls
  /\ calls' = [calls EXCEPT ![c] = @ + 1]
  /\ body' = [body EXCEPT ![c] = Features \ unsupported]
  /\ retry_count' = [retry_count EXCEPT ![c] = 0]
  /\ attempt' = [attempt EXCEPT ![c] = 1]
  /\ reply' = [reply EXCEPT ![c] = "none"]
  /\ at' = [at EXCEPT ![c] = "enter"]
  /\ UNCHANGED <<gate, unsupported, trouble, sinceLimit>>

(* acquire_slot: a slot, or a place in the list of waiters.                *)
TakeSlot(c) ==
  /\ in_flight' = in_flight + 1
  /\ at' = [at EXCEPT ![c] = "posting"]

EnterGate(c) ==
  /\ at[c] = "enter"
  /\ \/ in_flight < capacity /\ TakeSlot(c) /\ UNCHANGED waiters
     \/ /\ in_flight >= capacity
        /\ waiters' = Append(waiters, c)
        /\ at' = [at EXCEPT ![c] = "waiting"]
        /\ UNCHANGED in_flight
  /\ awake' = [awake EXCEPT ![c] = FALSE]
  /\ expired' = [expired EXCEPT ![c] = FALSE]
  /\ UNCHANGED <<capacity, healthy_streak, call, reply, trouble, sinceLimit>>

(* The wait budget ends; the waiter stays listed until it has the lock.    *)
WaitTimesOut(c) ==
  /\ at[c] = "waiting"
  /\ ~expired[c]
  /\ expired' = [expired EXCEPT ![c] = TRUE]
  /\ awake' = [awake EXCEPT ![c] = TRUE]
  /\ UNCHANGED <<capacity, in_flight, healthy_streak, waiters, at, call, reply,
                 trouble, sinceLimit>>

(* Condition.wait takes a waiter that timed out off the list, if it is     *)
(* still there.                                                            *)
Unlist(c) ==
  \/ ~Contains(waiters, c) /\ UNCHANGED waiters
  \/ \E i \in 1 .. Len(waiters) :
       waiters[i] = c /\ waiters' = RemoveAt(waiters, i)

(* Back in the lock: a free slot, AOAIGateBusyError, or another wait.      *)
RecheckGate(c) ==
  /\ at[c] = "waiting"
  /\ awake[c]
  /\ \/ in_flight < capacity /\ TakeSlot(c) /\ Unlist(c)
     \/ /\ in_flight >= capacity
        /\ expired[c]
        /\ at' = [at EXCEPT ![c] = "failed"]
        /\ Unlist(c)
        /\ UNCHANGED in_flight
     \/ /\ in_flight >= capacity
        /\ ~expired[c]
        /\ waiters' = Append(waiters, c)
        /\ UNCHANGED <<in_flight, at>>
  /\ awake' = [awake EXCEPT ![c] = FALSE]
  /\ UNCHANGED <<capacity, healthy_streak, expired, call, reply, trouble, sinceLimit>>

-----------------------------------------------------------------------------
(* The answers a post can get.                                             *)
Troubles == {"garbled", "limited", "retryable", "fatal", "lost"}
CanAnswer(c, r) ==
  \/ r = "ok" /\ body[c] \cap Lacking = {}
  \/ r = "rejected" /\ body[c] \cap Lacking # {}
  \/ r = "garbled" /\ body[c] \cap Lacking = {} /\ trouble < MaxTrouble
  \/ r \in Troubles \ {"garbled"} /\ trouble < MaxTrouble

ProviderAnswers(c, r) ==
  /\ at[c] = "posting"
  /\ CanAnswer(c, r)
  /\ reply' = [reply EXCEPT ![c] = r]
  /\ at' = [at EXCEPT ![c] = IF c \in Streaming /\ r # "lost" THEN "observing" ELSE "held"]
  /\ trouble' = IF r \in Troubles THEN trouble + 1 ELSE trouble
  /\ UNCHANGED <<gate, call, sinceLimit>>

(* _shrink and _record_healthy.                                            *)
ShrinkEarlyReturn ==
  /\ IF capacity <= MinCapacity
     THEN UNCHANGED <<healthy_streak, capacity>>
     ELSE healthy_streak' = 0 /\ capacity' = capacity - 1
  /\ sinceLimit' = 0
  /\ UNCHANGED <<waiters, awake>>

ShrinkPastFloor ==
  /\ healthy_streak' = 0
  /\ capacity' = capacity - 1
  /\ sinceLimit' = 0
  /\ UNCHANGED <<waiters, awake>>

Shrink ==
  /\ healthy_streak' = 0
  /\ capacity' = IF capacity <= MinCapacity THEN capacity ELSE capacity - 1
  /\ sinceLimit' = 0
  /\ UNCHANGED <<waiters, awake>>

NotifyAll ==
  /\ waiters' = <<>>
  /\ awake' = [c \in Callers |-> awake[c] \/ Contains(waiters, c)]

(* A release wakes the oldest waiter.                                      *)
Notify ==
  \/ waiters = <<>> /\ UNCHANGED <<waiters, awake>>
  \/ /\ waiters # <<>>
     /\ waiters' = Tail(waiters)
     /\ awake' = [awake EXCEPT ![Head(waiters)] = TRUE]

GrowSilently == capacity' = capacity + 1 /\ UNCHANGED <<waiters, awake>>
Grow == capacity' = capacity + 1 /\ NotifyAll

RecordHealthy ==
  /\ sinceLimit' = IF capacity >= MaxCapacity \/ sinceLimit = HealthyToGrow
                   THEN sinceLimit ELSE sinceLimit + 1
  /\ \/ capacity >= MaxCapacity /\ UNCHANGED <<healthy_streak, capacity, waiters, awake>>
     \/ /\ capacity < MaxCapacity
        /\ healthy_streak + 1 < HealthyToGrow
        /\ healthy_streak' = healthy_streak + 1
        /\ UNCHANGED <<capacity, waiters, awake>>
     \/ /\ capacity < MaxCapacity
        /\ healthy_streak + 1 >= HealthyToGrow
        /\ healthy_streak' = 0
        /\ Grow

(* _observe_provider_capacity: a 429 always shrinks, any other answer by   *)
(* its remaining-quota headers.                                            *)
ObserveCapacity(c) ==
  \/ reply[c] = "limited" /\ Shrink /\ UNCHANGED trouble
  \/ /\ reply[c] # "limited"
     /\ trouble < MaxTrouble
     /\ trouble' = trouble + 1
     /\ Shrink
  \/ reply[c] # "limited" /\ RecordHealthy /\ UNCHANGED trouble

-----------------------------------------------------------------------------
(* What the loop does with an answer.                                      *)
PostsWithoutAdjustments == MaxRetries + 1
MaxPosts == MaxRetries + MaxAdjustments + 1

NextPost(c) ==
  IF attempt[c] < MaxPosts
  THEN /\ attempt' = [attempt EXCEPT ![c] = @ + 1]
       /\ at' = [at EXCEPT ![c] = "enter"]
  ELSE at' = [at EXCEPT ![c] = "exhausted"] /\ UNCHANGED attempt

EndCall(c, how) == at' = [at EXCEPT ![c] = how] /\ UNCHANGED attempt

Decide(c) ==
  /\ \/ /\ reply[c] = "ok"
        /\ EndCall(c, "succeeded")
        /\ UNCHANGED <<body, unsupported, retry_count>>
     \/ /\ reply[c] = "rejected"
        /\ \E f \in body[c] \cap Lacking :
             /\ body' = [body EXCEPT ![c] = @ \ {f}]
             /\ unsupported' = unsupported \cup {f}
        /\ NextPost(c)
        /\ UNCHANGED retry_count
     \/ /\ reply[c] \in Troubles \ {"fatal"}
        /\ retry_count[c] < MaxRetries
        /\ retry_count' = [retry_count EXCEPT ![c] = @ + 1]
        /\ NextPost(c)
        /\ UNCHANGED <<body, unsupported>>
     \/ /\ \/ reply[c] = "fatal"
           \/ reply[c] \in Troubles \ {"fatal"} /\ retry_count[c] >= MaxRetries
        /\ EndCall(c, "failed")
        /\ UNCHANGED <<body, unsupported, retry_count>>
  /\ UNCHANGED calls

(* The answer to a streamed request is observed in its slot.               *)
ObserveStream(c) ==
  /\ at[c] = "observing"
  /\ ObserveCapacity(c)
  /\ at' = [at EXCEPT ![c] = "held"]
  /\ UNCHANGED <<in_flight, expired, call, reply>>

(* Leaving acquire_slot.  A streamed or failed exchange is settled here, an*)
(* ordinary answer is looked at afterwards.                                *)
ReleaseSlot(c) ==
  /\ at[c] = "held"
  /\ in_flight' = in_flight - 1
  /\ Notify
  /\ IF c \in Streaming \/ reply[c] = "lost"
     THEN Decide(c)
     ELSE at' = [at EXCEPT ![c] = "answered"] /\ UNCHANGED call
  /\ UNCHANGED <<capacity, healthy_streak, expired, reply, trouble, sinceLimit>>

ObserveAnswer(c) ==
  /\ at[c] = "answered"
  /\ ObserveCapacity(c)
  /\ Decide(c)
  /\ UNCHANGED <<in_flight, expired, reply>>

CallStep(c) ==
  \/ EnterGate(c) \/ WaitTimesOut(c) \/ RecheckGate(c)
  \/ \E r \in Replies : ProviderAnswers(c, r)
  \/ ObserveStream(c) \/ ReleaseSlot(c) \/ ObserveAnswer(c)

Next == \E c \in Callers : BeginCall(c) \/ CallStep(c)

Spec == Init /\ [][Next]_vars

-----------------------------------------------------------------------------
TypeOK ==
  /\ capacity \in MinCapacity .. MaxCapacity
  /\ in_flight \in Nat
  /\ healthy_streak \in 0 .. HealthyToGrow - 1
  /\ waiters \in Seq(Callers)
  /\ at \in [Callers -> Places]
  /\ awake \in [Callers -> BOOLEAN]
  /\ expired \in [Callers -> BOOLEAN]
  /\ body \in [Callers -> SUBSET Features]
  /\ unsupported \subseteq Lacking
  /\ retry_count \in [Callers -> 0 .. MaxRetries]
  /\ attempt \in [Callers -> 0 .. MaxPosts]
  /\ reply \in [Callers -> Replies]
  /\ calls \in [Callers -> Nat]
  /\ trouble \in Nat

Asleep == {c \in Callers : at[c] = "waiting" /\ ~awake[c]}
Roused == {c \in Callers : at[c] = "waiting" /\ awake[c]}

(* While a caller sleeps at the gate, every free slot has a roused waiter  *)
(* on its way to it: no mix of releases, time-outs, newcomers and changes  *)
(* of the capacity loses a wake-up.  The counter is exactly the number of  *)
(* exchanges in progress, also while the capacity is below it.             *)
NoSleeperBesideFreeSlot ==
  /\ in_flight = Cardinality({c \in Callers : HoldingSlot(c)})
  /\ Asleep # {} => Cardinality(Roused) >= capacity - in_flight

(* max_posts is enough: however transient failures and rejected            *)
(* capabilities mix, a call ends with an answer, with its own error or     *)
(* with its retries used up, never because the loop ran out.               *)
LoopNeverRunsOut == \A c \in Callers : at[c] # "exhausted"

(* Capacity rises only after healthy_observations_to_grow healthy answers  *)
(* in a row since the last sign of a limit, also when that sign came at the*)
(* floor.                                                                  *)
GrowthIsEarned ==
  [][capacity' > capacity => sinceLimit' = HealthyToGrow]_vars
=============================================================================
