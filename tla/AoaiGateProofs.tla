----------------------------- MODULE AoaiGateProofs -----------------------------
(***************************************************************************)
(* Proofs about AoaiGate, for any finite number of threads, any capacity   *)
(* range and any number of calls, retries and rejected capabilities.       *)
(*                                                                         *)
(* The wake-up property needs to tell two kinds of roused waiters apart: a *)
(* notified one has left the condition's list, one that timed out may      *)
(* still be on it, and a later notify can be spent on it.  Only the former *)
(* are counted against free slots.                                         *)
(***************************************************************************)
EXTENDS AoaiGate, FiniteSetTheorems, SequenceTheorems, TLAPS

Distinct(s) == \A i, k \in 1 .. Len(s) : s[i] = s[k] => i = k

Holding == {c \in Callers : HoldingSlot(c)}
Listed == {c \in Callers : Contains(waiters, c)}
Notified == {c \in Callers : at[c] = "waiting" /\ awake[c] /\ c \notin Listed}

ListOK ==
  /\ Distinct(waiters)
  /\ \A c \in Listed : at[c] = "waiting" /\ (awake[c] => expired[c])
  /\ Asleep \subseteq Listed

SlotsOK ==
  /\ in_flight = Cardinality(Holding)
  /\ Asleep # {} => capacity - in_flight <= Cardinality(Notified)

(* Every post is paid by a retry or by a capability that left the body.    *)
LoopOK ==
  \A c \in Callers :
    /\ at[c] # "exhausted"
    /\ attempt[c] + Cardinality(body[c]) <= retry_count[c] + 1 + Cardinality(Features)

StreakOK == sinceLimit \in 0 .. HealthyToGrow /\ healthy_streak <= sinceLimit

GateInv == TypeOK /\ ListOK /\ SlotsOK /\ LoopOK /\ StreakOK

-----------------------------------------------------------------------------
(* The three things that happen to the list of waiters.                    *)
LEMMA Enlisted ==
  ASSUME NEW s \in Seq(Callers), NEW c \in Callers, Distinct(s), ~ Contains(s, c)
  PROVE  /\ Append(s, c) \in Seq(Callers)
         /\ Distinct(Append(s, c))
         /\ \A d : Contains(Append(s, c), d) <=> Contains(s, d) \/ d = c
<1> DEFINE t == Append(s, c)
<1>1. /\ t \in Seq(Callers) /\ Len(s) \in Nat /\ Len(t) = Len(s) + 1
      /\ \A i \in 1 .. Len(s) : t[i] = s[i]
      /\ t[Len(s) + 1] = c
  BY AppendProperties, LenProperties
<1> HIDE DEF t
<1>2. \A i \in 1 .. Len(t) : i \in 1 .. Len(s) \/ i = Len(s) + 1
  BY <1>1
<1>3. \A i \in 1 .. Len(s) : i \in 1 .. Len(t)
  BY <1>1
<1>4. Len(s) + 1 \in 1 .. Len(t)
  BY <1>1
<1>5. Distinct(t)
  BY <1>1, <1>2 DEF Distinct, Contains
<1>6. \A d : Contains(t, d) <=> Contains(s, d) \/ d = c
  BY <1>1, <1>2, <1>3, <1>4 DEF Contains
<1> QED BY <1>1, <1>5, <1>6 DEF t

LEMMA HeadTaken ==
  ASSUME NEW s \in Seq(Callers), s # <<>>, Distinct(s)
  PROVE  /\ Tail(s) \in Seq(Callers)
         /\ Distinct(Tail(s))
         /\ Contains(s, Head(s)) /\ Head(s) \in Callers
         /\ \A d : Contains(Tail(s), d) <=> Contains(s, d) /\ d # Head(s)
<1> DEFINE t == Tail(s)
           h == Head(s)
<1>1. /\ t \in Seq(Callers) /\ h \in Callers /\ Len(t) = Len(s) - 1
      /\ \A i \in 1 .. Len(t) : t[i] = s[i + 1]
      /\ Len(s) \in Nat \ {0} /\ h = s[1]
  BY HeadTailProperties, EmptySeq
<1> HIDE DEF t, h
<1>2. \A i \in 1 .. Len(t) : i + 1 \in 1 .. Len(s) /\ i + 1 # 1
  BY <1>1
<1>3. 1 \in 1 .. Len(s)
  BY <1>1
<1>4. ASSUME NEW i \in 1 .. Len(s), i # 1 PROVE i - 1 \in 1 .. Len(t) /\ t[i - 1] = s[i]
  <2>1. i - 1 \in 1 .. Len(t) /\ (i - 1) + 1 = i
    BY <1>1, <1>4
  <2> QED BY <2>1, <1>1
<1>5. ASSUME NEW i \in 1 .. Len(t), NEW k \in 1 .. Len(t), t[i] = t[k] PROVE i = k
  <2>1. i + 1 = k + 1
    BY <1>1, <1>2, <1>5 DEF Distinct
  <2> QED BY <2>1
<1>6. Distinct(t)
  BY <1>5 DEF Distinct
<1>7. \A d : Contains(t, d) <=> Contains(s, d) /\ d # h
  BY <1>1, <1>2, <1>3, <1>4 DEF Contains, Distinct
<1> QED BY <1>1, <1>3, <1>6, <1>7 DEF Contains, t, h

LEMMA Unlisted ==
  ASSUME NEW s \in Seq(Callers), NEW n \in 1 .. Len(s), Distinct(s)
  PROVE  /\ RemoveAt(s, n) \in Seq(Callers)
         /\ Distinct(RemoveAt(s, n))
         /\ \A d : Contains(RemoveAt(s, n), d) <=> Contains(s, d) /\ d # s[n]
<1> DEFINE a == SubSeq(s, 1, n - 1)
           b == SubSeq(s, n + 1, Len(s))
           t == RemoveAt(s, n)
           old(i) == IF i < n THEN i ELSE i + 1
<1>1. Len(s) \in Nat /\ \A i \in 1 .. Len(s) : s[i] \in Callers
  BY LenProperties, ElementOfSeq
<1>2. (\A i \in 1 .. n - 1 : s[i] \in Callers) /\ n - 1 \in Int /\ n + 1 \in Int
  BY <1>1
<1>3. /\ a \in Seq(Callers) /\ Len(a) = n - 1
      /\ \A i \in 1 .. n - 1 : a[i] = s[i]
  <2>1. /\ a \in Seq(Callers)
        /\ Len(a) = IF 1 <= n - 1 THEN n - 1 - 1 + 1 ELSE 0
        /\ \A i \in 1 .. n - 1 - 1 + 1 : a[i] = s[1 + i - 1]
    BY <1>2, SubSeqProperties
  <2> HIDE DEF a
  <2>2. Len(a) = n - 1
    BY <1>1, <2>1
  <2>3. ASSUME NEW i \in 1 .. n - 1 PROVE a[i] = s[i]
    <3>1. i \in 1 .. n - 1 - 1 + 1 /\ 1 + i - 1 = i
      BY <1>1
    <3> QED BY <2>1, <3>1
  <2> QED BY <2>1, <2>2, <2>3
<1>4. \A i \in n + 1 .. Len(s) : s[i] \in Callers
  BY <1>1
<1>5. /\ b \in Seq(Callers) /\ Len(b) = Len(s) - n
      /\ \A i \in 1 .. Len(s) - n : b[i] = s[n + i]
  <2>1. /\ b \in Seq(Callers)
        /\ Len(b) = IF n + 1 <= Len(s) THEN Len(s) - (n + 1) + 1 ELSE 0
        /\ \A i \in 1 .. Len(s) - (n + 1) + 1 : b[i] = s[n + 1 + i - 1]
    BY <1>1, <1>2, <1>4, SubSeqProperties
  <2> HIDE DEF b
  <2>2. Len(b) = Len(s) - n
    BY <1>1, <2>1
  <2>3. ASSUME NEW i \in 1 .. Len(s) - n PROVE b[i] = s[n + i]
    <3>1. i \in 1 .. Len(s) - (n + 1) + 1 /\ n + 1 + i - 1 = n + i
      BY <1>1
    <3> QED BY <2>1, <3>1
  <2> QED BY <2>1, <2>2, <2>3
<1>6. t = a \o b
  BY DEF RemoveAt
<1> HIDE DEF a, b, t
<1>7. /\ t \in Seq(Callers) /\ Len(t) = Len(a) + Len(b)
      /\ \A i \in 1 .. Len(a) + Len(b) : t[i] = IF i <= Len(a) THEN a[i] ELSE b[i - Len(a)]
  BY <1>3, <1>5, <1>6, ConcatProperties
<1>8. Len(t) = Len(s) - 1
  BY <1>1, <1>3, <1>5, <1>7
<1>9. ASSUME NEW i \in 1 .. Len(t)
      PROVE  old(i) \in 1 .. Len(s) /\ old(i) # n /\ t[i] = s[old(i)]
  <2>1. CASE i < n
    <3>1. i \in 1 .. n - 1 /\ i <= Len(a) /\ i \in 1 .. Len(a) + Len(b)
      BY <1>1, <1>3, <1>7, <2>1
    <3>2. t[i] = s[i]
      BY <1>3, <1>7, <3>1
    <3> QED BY <1>1, <2>1, <3>1, <3>2
  <2>2. CASE ~ (i < n)
    <3>1. /\ ~ (i <= Len(a)) /\ i \in 1 .. Len(a) + Len(b)
          /\ i - Len(a) \in 1 .. Len(s) - n /\ n + (i - Len(a)) = i + 1
      BY <1>1, <1>3, <1>7, <1>8, <2>2
    <3>2. t[i] = s[i + 1]
      BY <1>5, <1>7, <3>1
    <3> QED BY <1>1, <1>8, <2>2, <3>2
  <2> QED BY <2>1, <2>2
<1>10. Distinct(t)
  <2>1. SUFFICES ASSUME NEW i \in 1 .. Len(t), NEW k \in 1 .. Len(t), t[i] = t[k]
                 PROVE  i = k
    BY DEF Distinct
  <2>2. old(i) = old(k)
    BY <1>9, <2>1 DEF Distinct
  <2> QED BY <1>1, <2>2
<1>11. ASSUME NEW i \in 1 .. Len(s), i # n
       PROVE  \E k \in 1 .. Len(t) : t[k] = s[i]
  <2>1. CASE i < n
    <3>1. i \in 1 .. Len(t) /\ old(i) = i
      BY <1>1, <1>8, <2>1
    <3> QED BY <1>9, <3>1
  <2>2. CASE ~ (i < n)
    <3>1. i - 1 \in 1 .. Len(t) /\ old(i - 1) = i
      BY <1>1, <1>8, <1>11, <2>2
    <3> QED BY <1>9, <3>1
  <2> QED BY <2>1, <2>2
<1> HIDE DEF old
<1>12. ASSUME NEW d PROVE Contains(t, d) <=> Contains(s, d) /\ d # s[n]
  <2>1. ASSUME Contains(t, d) PROVE Contains(s, d) /\ d # s[n]
    <3>1. PICK i \in 1 .. Len(t) : t[i] = d
      BY <2>1 DEF Contains
    <3>2. old(i) \in 1 .. Len(s) /\ old(i) # n /\ d = s[old(i)]
      BY <1>9, <3>1
    <3> QED BY <3>2 DEF Contains, Distinct
  <2>2. ASSUME Contains(s, d), d # s[n] PROVE Contains(t, d)
    <3>1. PICK i \in 1 .. Len(s) : s[i] = d
      BY <2>2 DEF Contains
    <3>2. i # n
      BY <2>2, <3>1
    <3> QED BY <1>11, <3>1, <3>2 DEF Contains
  <2> QED BY <2>1, <2>2
<1> QED BY <1>7, <1>10, <1>12 DEF t

-----------------------------------------------------------------------------
(* The kinds of change of the gate.  A step that moves a caller between    *)
(* two places outside the gate that agree on holding a slot ...            *)
SlotPlaces == {"posting", "observing", "held"}

LEMMA QuietGate ==
  ASSUME TypeOK, ListOK, SlotsOK, NEW c \in Callers, NEW x,
         at' = [at EXCEPT ![c] = x], at[c] # "waiting", x # "waiting",
         at[c] \in SlotPlaces <=> x \in SlotPlaces,
         UNCHANGED <<in_flight, waiters, awake, expired>>,
         capacity' \in Nat, capacity' <= capacity
  PROVE  ListOK' /\ SlotsOK'
<1>1. \A d \in Callers : at'[d] = IF d = c THEN x ELSE at[d]
  BY DEF TypeOK
<1>2. Holding' = Holding
  BY <1>1 DEF Holding, HoldingSlot, SlotPlaces
<1>3. Asleep' = Asleep
  BY <1>1 DEF Asleep
<1>4. Listed' = Listed
  BY DEF Listed
<1>5. Notified' = Notified
  BY <1>1, <1>4 DEF Notified
<1>6. ListOK'
  BY <1>1, <1>3, <1>4 DEF ListOK
<1>7. Cardinality(Notified) \in Nat /\ capacity \in Nat /\ in_flight \in Nat
  <2>1. IsFiniteSet(Notified)
    BY GateConstants, FS_Subset DEF Notified
  <2> QED BY <2>1, FS_CardinalityType, GateConstants DEF TypeOK
<1>8. SlotsOK'
  BY <1>2, <1>3, <1>5, <1>7 DEF SlotsOK
<1> QED BY <1>6, <1>8

(* ... or also wakes everybody ...                                         *)
LEMMA NotifyAllGate ==
  ASSUME TypeOK, ListOK, SlotsOK, NEW c \in Callers, NEW x,
         at' = [at EXCEPT ![c] = x], at[c] # "waiting", x # "waiting",
         at[c] \in SlotPlaces <=> x \in SlotPlaces,
         UNCHANGED <<in_flight, expired>>, NotifyAll
  PROVE  ListOK' /\ SlotsOK'
<1>1. \A d \in Callers : at'[d] = IF d = c THEN x ELSE at[d]
  BY DEF TypeOK
<1>2. Holding' = Holding
  BY <1>1 DEF Holding, HoldingSlot, SlotPlaces
<1>3. waiters' = <<>> /\ Len(waiters') = 0
  BY DEF NotifyAll
<1>4. Listed' = {} /\ Distinct(waiters')
  BY <1>3 DEF Listed, Contains, Distinct
<1>5. ASSUME NEW d \in Asleep' PROVE FALSE
  <2>1. d \in Callers /\ at'[d] = "waiting" /\ ~ awake'[d]
    BY DEF Asleep
  <2>2. ~ awake[d] /\ ~ Contains(waiters, d)
    BY <2>1 DEF NotifyAll
  <2>3. at[d] = "waiting"
    BY <1>1, <2>1
  <2> QED BY <2>1, <2>2, <2>3 DEF ListOK, Asleep, Listed
<1>6. Asleep' = {}
  BY <1>5
<1> QED BY <1>2, <1>4, <1>6 DEF ListOK, SlotsOK

(* ... or takes a slot ...                                                 *)
LEMMA SlotTaken ==
  ASSUME TypeOK, ListOK, SlotsOK, NEW c \in Callers, TakeSlot(c),
         at[c] \in {"enter", "waiting"}, in_flight < capacity,
         waiters' \in Seq(Callers), Distinct(waiters'),
         \A d : Contains(waiters', d) <=> Contains(waiters, d) /\ d # c,
         awake' = [awake EXCEPT ![c] = FALSE],
         \A d \in Callers \ {c} : expired'[d] = expired[d],
         UNCHANGED capacity
  PROVE  ListOK' /\ SlotsOK'
<1>1. \A d \in Callers : /\ at'[d] = IF d = c THEN "posting" ELSE at[d]
                         /\ awake'[d] <=> awake[d] /\ d # c
  BY DEF TypeOK, TakeSlot
<1>2. Holding' = Holding \cup {c} /\ c \notin Holding
  BY <1>1 DEF Holding, HoldingSlot
<1>3. Listed' = Listed \ {c}
  BY DEF Listed
<1>4. Asleep' = Asleep \ {c} /\ Notified' = Notified \ {c}
  BY <1>1, <1>3 DEF Asleep, Notified
<1>5. /\ IsFiniteSet(Holding) /\ IsFiniteSet(Notified)
      /\ capacity \in Nat /\ in_flight \in Nat
  BY GateConstants, FS_Subset DEF Holding, Notified, TypeOK
<1>6. ListOK'
  <2>1. \A d \in Listed' : /\ d \in Listed /\ d # c /\ d \in Callers
                           /\ at'[d] = at[d] /\ (awake'[d] <=> awake[d])
                           /\ expired'[d] = expired[d]
    BY <1>1, <1>3 DEF Listed
  <2>2. \A d \in Listed' : at'[d] = "waiting" /\ (awake'[d] => expired'[d])
    BY <2>1 DEF ListOK
  <2>3. Asleep' \subseteq Listed'
    BY <1>3, <1>4 DEF ListOK
  <2> QED BY <2>2, <2>3 DEF ListOK
<1>7. in_flight' = Cardinality(Holding')
  BY <1>2, <1>5, FS_AddElement DEF SlotsOK, TakeSlot
<1>8. Cardinality(Notified') >= Cardinality(Notified) - 1 /\ Cardinality(Notified') \in Nat
  <2>1. Cardinality(Notified) \in Nat /\ IsFiniteSet(Notified \ {c})
    BY <1>5, FS_CardinalityType, FS_RemoveElement
  <2>2. Cardinality(Notified \ {c}) =
          IF c \in Notified THEN Cardinality(Notified) - 1 ELSE Cardinality(Notified)
    BY <1>5, FS_RemoveElement
  <2>3. Cardinality(Notified \ {c}) \in Nat
    BY <2>1, FS_CardinalityType
  <2> QED BY <1>4, <2>1, <2>2, <2>3
<1>9. Cardinality(Notified) \in Nat
  BY <1>5, FS_CardinalityType
<1>10. Asleep' # {} => capacity' - in_flight' <= Cardinality(Notified')
  BY <1>4, <1>5, <1>8, <1>9 DEF SlotsOK, TakeSlot
<1> QED BY <1>6, <1>7, <1>10 DEF SlotsOK

(* ... or finds the gate full, where the bound on notified waiters is      *)
(* trivial ...                                                             *)
LEMMA FullGate ==
  ASSUME TypeOK, SlotsOK, NEW c \in Callers, NEW x, at' = [at EXCEPT ![c] = x],
         at[c] \notin SlotPlaces, x \notin SlotPlaces,
         in_flight >= capacity, UNCHANGED <<capacity, in_flight>>
  PROVE  SlotsOK'
<1>1. \A d \in Callers : at'[d] = IF d = c THEN x ELSE at[d]
  BY DEF TypeOK
<1>2. Holding' = Holding
  BY <1>1 DEF Holding, HoldingSlot, SlotPlaces
<1>3. Cardinality(Notified') \in Nat /\ capacity \in Nat /\ in_flight \in Nat
  <2>1. IsFiniteSet(Notified')
    BY GateConstants, FS_Subset DEF Notified
  <2> QED BY <2>1, FS_CardinalityType, GateConstants DEF TypeOK
<1> QED BY <1>2, <1>3 DEF SlotsOK

(* ... or gives a slot back and passes it on.                              *)
LEMMA SlotReleased ==
  ASSUME TypeOK, ListOK, SlotsOK, NEW c \in Callers, NEW x,
         at' = [at EXCEPT ![c] = x], at[c] = "held",
         x \notin SlotPlaces \cup {"waiting"},
         in_flight' = in_flight - 1, Notify, UNCHANGED <<capacity, expired>>
  PROVE  ListOK' /\ SlotsOK' /\ in_flight' \in Nat
<1>1. \A d \in Callers : at'[d] = IF d = c THEN x ELSE at[d]
  BY DEF TypeOK
<1>2. Holding' = Holding \ {c} /\ c \in Holding
  BY <1>1 DEF Holding, HoldingSlot, SlotPlaces
<1>3. /\ IsFiniteSet(Holding) /\ IsFiniteSet(Notified) /\ IsFiniteSet(Holding \ {c})
      /\ capacity \in Nat /\ in_flight \in Nat
  BY GateConstants, FS_Subset DEF Holding, Notified, TypeOK
<1>4. in_flight' = Cardinality(Holding') /\ in_flight' \in Nat
  <2>1. Cardinality(Holding \ {c}) = Cardinality(Holding) - 1
    BY <1>2, <1>3, FS_RemoveElement
  <2>2. Cardinality(Holding \ {c}) \in Nat
    BY <1>3, FS_CardinalityType
  <2> QED BY <1>2, <2>1, <2>2 DEF SlotsOK
<1>5. CASE waiters = <<>>
  <2>1. UNCHANGED <<waiters, awake>> /\ Len(waiters) = 0
    BY <1>5 DEF Notify
  <2>2. Listed = {} /\ Listed' = {}
    BY <2>1 DEF Listed, Contains
  <2>3. Asleep' = Asleep /\ Asleep = {}
    BY <1>1, <2>1, <2>2 DEF Asleep, ListOK
  <2> QED BY <1>4, <2>1, <2>2, <2>3 DEF ListOK, SlotsOK
<1>6. CASE waiters # <<>>
  <2> DEFINE h == Head(waiters)
  <2>1. waiters' = Tail(waiters) /\ awake' = [awake EXCEPT ![h] = TRUE]
    BY <1>6 DEF Notify
  <2>2. /\ Distinct(waiters') /\ Contains(waiters, h) /\ h \in Callers
        /\ \A d : Contains(waiters', d) <=> Contains(waiters, d) /\ d # h
    BY <1>6, <2>1, HeadTaken DEF TypeOK, ListOK
  <2> HIDE DEF h
  <2>3. Listed' = Listed \ {h} /\ h \in Listed /\ at[h] = "waiting" /\ h # c
    BY <2>2 DEF Listed, ListOK
  <2>4. \A d \in Callers : awake'[d] <=> d = h \/ awake[d]
    BY <2>1, <2>2 DEF TypeOK
  <2>5. Asleep' = Asleep \ {h}
    BY <1>1, <2>3, <2>4 DEF Asleep
  <2>6. Notified' = Notified \cup {h} /\ h \notin Notified
    BY <1>1, <2>2, <2>3, <2>4 DEF Notified
  <2>7. Cardinality(Notified') = Cardinality(Notified) + 1 /\ Cardinality(Notified) \in Nat
    BY <1>3, <2>6, FS_AddElement, FS_CardinalityType
  <2>8. Asleep' # {} => capacity' - in_flight' <= Cardinality(Notified')
    BY <1>3, <2>5, <2>7 DEF SlotsOK
  <2>9. ListOK'
    <3>1. \A d \in Listed' : /\ d \in Listed /\ d # h /\ d \in Callers
                             /\ awake'[d] <=> awake[d]
      BY <2>3, <2>4 DEF Listed
    <3>2. \A d \in Listed' : at'[d] = "waiting" /\ (awake'[d] => expired'[d])
      BY <1>1, <3>1 DEF ListOK
    <3>3. Asleep' \subseteq Listed'
      BY <2>3, <2>5 DEF ListOK
    <3> QED BY <2>2, <3>2, <3>3 DEF ListOK
  <2> QED BY <1>4, <2>8, <2>9 DEF SlotsOK
<1> QED BY <1>5, <1>6

-----------------------------------------------------------------------------
(* What an observation of the provider does to the capacity.               *)
CapacityTypes ==
  /\ capacity \in MinCapacity .. MaxCapacity
  /\ healthy_streak \in 0 .. HealthyToGrow - 1
  /\ trouble \in Nat
  /\ StreakOK

LEMMA ObserveKinds ==
  ASSUME TypeOK, StreakOK, NEW c \in Callers, ObserveCapacity(c)
  PROVE  /\ CapacityTypes'
         /\ \/ capacity' <= capacity /\ UNCHANGED <<waiters, awake>>
            \/ NotifyAll
         /\ capacity' > capacity => sinceLimit' = HealthyToGrow
<1> USE GateConstants DEF CapacityTypes
<1>1. /\ capacity \in Nat /\ MinCapacity <= capacity /\ capacity <= MaxCapacity
      /\ healthy_streak \in Nat /\ healthy_streak <= HealthyToGrow - 1
      /\ sinceLimit \in Nat /\ sinceLimit <= HealthyToGrow
      /\ healthy_streak <= sinceLimit /\ trouble \in Nat
  BY DEF TypeOK, StreakOK
<1>2. CASE Shrink
  <2>1. trouble' \in Nat
    BY <1>1 DEF ObserveCapacity
  <2>2. /\ capacity' \in MinCapacity .. MaxCapacity /\ capacity' <= capacity
        /\ healthy_streak' = 0 /\ sinceLimit' = 0 /\ UNCHANGED <<waiters, awake>>
    BY <1>1, <1>2 DEF Shrink
  <2>3. ~ (capacity' > capacity)
    BY <1>1, <2>2
  <2> QED BY <2>1, <2>2, <2>3 DEF StreakOK
<1>3. CASE RecordHealthy /\ UNCHANGED trouble
  <2>1. sinceLimit' \in Nat /\ sinceLimit <= sinceLimit' /\ sinceLimit' <= HealthyToGrow
    BY <1>1, <1>3 DEF RecordHealthy
  <2>2. CASE UNCHANGED <<healthy_streak, capacity, waiters, awake>>
    BY <1>1, <1>3, <2>1, <2>2 DEF StreakOK
  <2>3. CASE /\ capacity < MaxCapacity /\ healthy_streak + 1 < HealthyToGrow
             /\ healthy_streak' = healthy_streak + 1
             /\ UNCHANGED <<capacity, waiters, awake>>
    <3>1. sinceLimit' = IF sinceLimit = HealthyToGrow THEN sinceLimit ELSE sinceLimit + 1
      BY <1>1, <1>3, <2>3 DEF RecordHealthy
    <3> QED BY <1>1, <1>3, <2>1, <2>3, <3>1 DEF StreakOK
  <2>4. CASE /\ capacity < MaxCapacity /\ healthy_streak + 1 >= HealthyToGrow
             /\ healthy_streak' = 0 /\ Grow
    <3>1. sinceLimit' = HealthyToGrow
      BY <1>1, <1>3, <2>4 DEF RecordHealthy
    <3> QED BY <1>1, <1>3, <2>1, <2>4, <3>1 DEF StreakOK, Grow
  <2> QED BY <1>3, <2>2, <2>3, <2>4 DEF RecordHealthy
<1> QED BY <1>2, <1>3 DEF ObserveCapacity

(* What the loop does with an answer: the next post, or the end of the     *)
(* call.  A post is always left for the next try.                          *)
CallTypes ==
  /\ body \in [Callers -> SUBSET Features]
  /\ unsupported \subseteq Lacking
  /\ retry_count \in [Callers -> 0 .. MaxRetries]
  /\ attempt \in [Callers -> 0 .. MaxPosts]
  /\ calls \in [Callers -> Nat]

LEMMA DecideKinds ==
  ASSUME TypeOK, LoopOK, NEW c \in Callers, Decide(c)
  PROVE  /\ \E x \in {"enter", "succeeded", "failed"} : at' = [at EXCEPT ![c] = x]
         /\ CallTypes'
         /\ LoopOK'
<1> USE GateConstants
<1> DEFINE F == Cardinality(Features)
           B == Cardinality(body[c])
<1>1. /\ IsFiniteSet(body[c]) /\ B \in Nat /\ F \in Nat /\ F <= MaxAdjustments
      /\ retry_count[c] \in Nat /\ retry_count[c] <= MaxRetries
      /\ attempt[c] \in Nat /\ attempt[c] <= MaxPosts
      /\ attempt[c] + B <= retry_count[c] + 1 + F
      /\ MaxPosts = MaxRetries + MaxAdjustments + 1 /\ MaxPosts \in Nat
      /\ calls' = calls
  <2>1. IsFiniteSet(body[c])
    BY FS_Subset DEF TypeOK
  <2>2. B \in Nat /\ F \in Nat
    BY <2>1, FS_CardinalityType
  <2>3. MaxPosts = MaxRetries + MaxAdjustments + 1 /\ MaxPosts \in Nat
    BY DEF MaxPosts
  <2> QED BY <2>1, <2>2, <2>3 DEF TypeOK, LoopOK, Decide
<1>2. CASE \/ EndCall(c, "succeeded") /\ UNCHANGED <<body, unsupported, retry_count>>
           \/ EndCall(c, "failed") /\ UNCHANGED <<body, unsupported, retry_count>>
  <2>1. PICK x \in {"succeeded", "failed"} : at' = [at EXCEPT ![c] = x]
    BY <1>2 DEF EndCall
  <2>2. UNCHANGED <<body, unsupported, retry_count, attempt, calls>>
    BY <1>1, <1>2 DEF EndCall
  <2>3. CallTypes'
    BY <2>2 DEF CallTypes, TypeOK
  <2>4. LoopOK'
    BY <2>1, <2>2 DEF LoopOK, TypeOK
  <2> QED BY <2>1, <2>3, <2>4
<1>3. CASE /\ \E f \in body[c] \cap Lacking :
                /\ body' = [body EXCEPT ![c] = @ \ {f}]
                /\ unsupported' = unsupported \cup {f}
           /\ NextPost(c) /\ UNCHANGED retry_count
  <2>1. PICK f \in body[c] \cap Lacking :
               /\ body' = [body EXCEPT ![c] = @ \ {f}]
               /\ unsupported' = unsupported \cup {f}
    BY <1>3
  <2>2. /\ Cardinality(body[c] \ {f}) = B - 1
        /\ Cardinality(body[c] \ {f}) \in Nat
    <3>1. IsFiniteSet(body[c] \ {f}) /\ Cardinality(body[c] \ {f}) = B - 1
      BY <1>1, <2>1, FS_RemoveElement
    <3> QED BY <3>1, FS_CardinalityType
  <2>3. attempt[c] < MaxPosts
    BY <1>1, <2>2
  <2>4. /\ attempt' = [attempt EXCEPT ![c] = @ + 1]
        /\ at' = [at EXCEPT ![c] = "enter"]
    BY <1>3, <2>3 DEF NextPost
  <2>5. CallTypes'
    BY <1>1, <1>3, <2>1, <2>3, <2>4 DEF CallTypes, TypeOK
  <2>6. ASSUME NEW d \in Callers
        PROVE  /\ at'[d] # "exhausted"
               /\ attempt'[d] + Cardinality(body'[d]) <= retry_count'[d] + 1 + F
    <3>1. CASE d = c
      <4>1. /\ attempt'[c] = attempt[c] + 1 /\ body'[c] = body[c] \ {f}
            /\ at'[c] = "enter" /\ retry_count'[c] = retry_count[c]
        BY <1>3, <2>1, <2>4 DEF TypeOK
      <4>2. attempt[c] + 1 + (B - 1) <= retry_count[c] + 1 + F
        BY <1>1
      <4> QED BY <2>2, <3>1, <4>1, <4>2
    <3>2. CASE d # c
      BY <1>3, <2>1, <2>4, <3>2 DEF TypeOK, LoopOK
    <3> QED BY <3>1, <3>2
  <2> QED BY <2>4, <2>5, <2>6 DEF LoopOK
<1>4. CASE /\ retry_count[c] < MaxRetries
           /\ retry_count' = [retry_count EXCEPT ![c] = @ + 1]
           /\ NextPost(c) /\ UNCHANGED <<body, unsupported>>
  <2>1. attempt[c] < MaxPosts
    BY <1>1, <1>4
  <2>2. /\ attempt' = [attempt EXCEPT ![c] = @ + 1]
        /\ at' = [at EXCEPT ![c] = "enter"]
    BY <1>4, <2>1 DEF NextPost
  <2>3. CallTypes'
    BY <1>1, <1>4, <2>1, <2>2 DEF CallTypes, TypeOK
  <2>4. ASSUME NEW d \in Callers
        PROVE  /\ at'[d] # "exhausted"
               /\ attempt'[d] + Cardinality(body'[d]) <= retry_count'[d] + 1 + F
    <3>1. CASE d = c
      <4>1. /\ attempt'[c] = attempt[c] + 1 /\ body'[c] = body[c]
            /\ at'[c] = "enter" /\ retry_count'[c] = retry_count[c] + 1
        BY <1>4, <2>2 DEF TypeOK
      <4>2. attempt[c] + 1 + B <= retry_count[c] + 1 + 1 + F
        BY <1>1
      <4> QED BY <3>1, <4>1, <4>2
    <3>2. CASE d # c
      BY <1>4, <2>2, <3>2 DEF TypeOK, LoopOK
    <3> QED BY <3>1, <3>2
  <2> QED BY <2>2, <2>3, <2>4 DEF LoopOK
<1> QED BY <1>2, <1>3, <1>4 DEF Decide

-----------------------------------------------------------------------------
(* One lemma per action.  The parts of the invariant that an action leaves *)
(* alone:                                                                  *)
LEMMA LoopUnmoved ==
  ASSUME TypeOK, LoopOK, NEW c \in Callers, NEW x, x # "exhausted",
         at' = [at EXCEPT ![c] = x], UNCHANGED <<body, attempt, retry_count>>
  PROVE  LoopOK'
BY DEF LoopOK, TypeOK

LEMMA BeginStep ==
  ASSUME GateInv, NEW c \in Callers, BeginCall(c)
  PROVE  GateInv'
<1> USE GateConstants DEF GateInv
<1>1. /\ at' = [at EXCEPT ![c] = "enter"] /\ at[c] \in {"idle"} \cup Ended
      /\ UNCHANGED <<gate, unsupported, trouble, sinceLimit>>
  BY DEF BeginCall
<1>2. TypeOK'
  <2>1. MaxPosts \in Nat /\ 1 \in 0 .. MaxPosts
    BY DEF MaxPosts
  <2> QED BY <1>1, <2>1 DEF BeginCall, TypeOK, Places, Replies, gate
<1>3. ListOK' /\ SlotsOK'
  <2>1. /\ at[c] # "waiting" /\ at[c] \notin SlotPlaces
        /\ "enter" \notin SlotPlaces
        /\ UNCHANGED <<in_flight, waiters, awake, expired>>
        /\ capacity' \in Nat /\ capacity' <= capacity
    BY <1>1 DEF SlotPlaces, Ended, gate, TypeOK
  <2> QED BY <1>1, <2>1, QuietGate
<1>4. LoopOK'
  <2>1. /\ Cardinality(Features \ unsupported) \in Nat /\ Cardinality(Features) \in Nat
        /\ Cardinality(Features \ unsupported) <= Cardinality(Features)
    <3>1. IsFiniteSet(Features \ unsupported)
      BY FS_Subset
    <3> QED BY <3>1, FS_Subset, FS_CardinalityType
  <2>2. ASSUME NEW d \in Callers
        PROVE  /\ at'[d] # "exhausted"
               /\ attempt'[d] + Cardinality(body'[d])
                    <= retry_count'[d] + 1 + Cardinality(Features)
    <3>1. CASE d = c
      <4>1. /\ at'[c] = "enter" /\ attempt'[c] = 1 /\ retry_count'[c] = 0
            /\ body'[c] = Features \ unsupported
        BY DEF BeginCall, TypeOK
      <4> QED BY <2>1, <3>1, <4>1
    <3>2. CASE d # c
      BY <3>2 DEF BeginCall, TypeOK, LoopOK
    <3> QED BY <3>1, <3>2
  <2> QED BY <2>2 DEF LoopOK
<1>5. StreakOK'
  BY <1>1 DEF StreakOK, gate
<1> QED BY <1>2, <1>3, <1>4, <1>5

LEMMA EnterStep ==
  ASSUME GateInv, NEW c \in Callers, EnterGate(c)
  PROVE  GateInv'
<1> USE GateConstants DEF GateInv
<1>1. /\ at[c] = "enter" /\ ~ Contains(waiters, c)
      /\ waiters \in Seq(Callers) /\ Distinct(waiters)
      /\ awake' = [awake EXCEPT ![c] = FALSE]
      /\ expired' = [expired EXCEPT ![c] = FALSE]
      /\ UNCHANGED <<capacity, healthy_streak, call, reply, trouble, sinceLimit>>
  BY DEF EnterGate, ListOK, Listed, TypeOK
<1>2. LoopOK' /\ StreakOK'
  BY <1>1, LoopUnmoved DEF EnterGate, TakeSlot, StreakOK, call
<1>3. CASE in_flight < capacity /\ TakeSlot(c) /\ UNCHANGED waiters
  <2>1. ListOK' /\ SlotsOK'
    <3>1. \A d : Contains(waiters', d) <=> Contains(waiters, d) /\ d # c
      BY <1>1, <1>3
    <3>2. \A d \in Callers \ {c} : expired'[d] = expired[d]
      BY <1>1 DEF TypeOK
    <3> QED BY <1>1, <1>3, <3>1, <3>2, SlotTaken DEF TypeOK
  <2>2. TypeOK'
    BY <1>1, <1>3 DEF TypeOK, TakeSlot, Places, call
  <2> QED BY <1>2, <2>1, <2>2
<1>4. CASE /\ in_flight >= capacity /\ waiters' = Append(waiters, c)
           /\ at' = [at EXCEPT ![c] = "waiting"] /\ UNCHANGED in_flight
  <2>1. /\ waiters' \in Seq(Callers) /\ Distinct(waiters')
        /\ \A d : Contains(waiters', d) <=> Contains(waiters, d) \/ d = c
    BY <1>1, <1>4, Enlisted
  <2>2. TypeOK'
    BY <1>1, <1>4, <2>1 DEF TypeOK, Places, call
  <2>3. SlotsOK'
    BY <1>1, <1>4, FullGate DEF SlotPlaces
  <2>4. Listed' = Listed \cup {c}
    BY <2>1 DEF Listed
  <2>5. \A d \in Callers : /\ at'[d] = IF d = c THEN "waiting" ELSE at[d]
                           /\ awake'[d] <=> awake[d] /\ d # c
                           /\ expired'[d] <=> expired[d] /\ d # c
    BY <1>1, <1>4 DEF TypeOK
  <2>6. \A d \in Listed' : at'[d] = "waiting" /\ (awake'[d] => expired'[d])
    BY <2>4, <2>5 DEF ListOK, Listed
  <2>7. Asleep' \subseteq Listed'
    BY <2>4, <2>5 DEF ListOK, Asleep
  <2> QED BY <1>2, <2>1, <2>2, <2>3, <2>6, <2>7 DEF ListOK
<1> QED BY <1>3, <1>4 DEF EnterGate

LEMMA TimeoutStep ==
  ASSUME GateInv, NEW c \in Callers, WaitTimesOut(c)
  PROVE  GateInv'
<1> USE GateConstants DEF GateInv
<1>1. /\ at[c] = "waiting"
      /\ expired' = [expired EXCEPT ![c] = TRUE]
      /\ awake' = [awake EXCEPT ![c] = TRUE]
      /\ UNCHANGED <<capacity, in_flight, healthy_streak, waiters, at, call, reply,
                     trouble, sinceLimit>>
  BY DEF WaitTimesOut
<1>2. TypeOK' /\ LoopOK' /\ StreakOK'
  BY <1>1 DEF TypeOK, LoopOK, StreakOK, call
<1>3. \A d \in Callers : /\ awake'[d] <=> awake[d] \/ d = c
                         /\ expired'[d] <=> expired[d] \/ d = c
  BY <1>1 DEF TypeOK
<1>4. Listed' = Listed /\ Holding' = Holding
  BY <1>1 DEF Listed, Holding, HoldingSlot
<1>5. Asleep' = Asleep \ {c}
  BY <1>1, <1>3 DEF Asleep
<1>6. \A d \in Listed' : at'[d] = "waiting" /\ (awake'[d] => expired'[d])
  BY <1>1, <1>3, <1>4 DEF ListOK, Listed
<1>7. ListOK'
  BY <1>1, <1>4, <1>5, <1>6 DEF ListOK
<1>8. Notified \subseteq Notified'
  BY <1>1, <1>3, <1>4 DEF Notified
<1>9. Cardinality(Notified) <= Cardinality(Notified')
  <2>1. IsFiniteSet(Notified')
    BY FS_Subset DEF Notified
  <2> QED BY <1>8, <2>1, FS_Subset
<1>10. /\ Cardinality(Notified) \in Nat /\ Cardinality(Notified') \in Nat
       /\ capacity \in Nat /\ in_flight \in Nat
  <2>1. IsFiniteSet(Notified) /\ IsFiniteSet(Notified')
    BY FS_Subset DEF Notified
  <2> QED BY <2>1, FS_CardinalityType DEF TypeOK
<1>11. SlotsOK'
  BY <1>1, <1>4, <1>5, <1>9, <1>10 DEF SlotsOK
<1> QED BY <1>2, <1>7, <1>11

LEMMA RecheckStep ==
  ASSUME GateInv, NEW c \in Callers, RecheckGate(c)
  PROVE  GateInv'
<1> USE GateConstants DEF GateInv
<1>1. /\ at[c] = "waiting" /\ awake[c]
      /\ waiters \in Seq(Callers) /\ Distinct(waiters)
      /\ awake' = [awake EXCEPT ![c] = FALSE]
      /\ UNCHANGED <<capacity, healthy_streak, expired, call, reply, trouble, sinceLimit>>
  BY DEF RecheckGate, ListOK, TypeOK
<1>2. StreakOK'
  BY <1>1 DEF StreakOK
<1>3. \A d \in Callers : awake'[d] <=> awake[d] /\ d # c
  BY <1>1 DEF TypeOK
<1>4. ASSUME Unlist(c)
      PROVE  /\ waiters' \in Seq(Callers) /\ Distinct(waiters')
             /\ \A d : Contains(waiters', d) <=> Contains(waiters, d) /\ d # c
  <2>1. CASE ~ Contains(waiters, c) /\ UNCHANGED waiters
    BY <1>1, <2>1
  <2>2. CASE \E i \in 1 .. Len(waiters) : waiters[i] = c /\ waiters' = RemoveAt(waiters, i)
    BY <1>1, <2>2, Unlisted
  <2> QED BY <1>4, <2>1, <2>2 DEF Unlist
<1>5. CASE in_flight < capacity /\ TakeSlot(c) /\ Unlist(c)
  <2>1. ListOK' /\ SlotsOK'
    BY <1>1, <1>4, <1>5, SlotTaken
  <2>2. TypeOK'
    BY <1>1, <1>4, <1>5 DEF TypeOK, TakeSlot, Places, call
  <2>3. LoopOK'
    BY <1>1, <1>5, LoopUnmoved DEF TakeSlot, call
  <2> QED BY <1>2, <2>1, <2>2, <2>3
<1>6. CASE /\ in_flight >= capacity /\ at' = [at EXCEPT ![c] = "failed"]
           /\ Unlist(c) /\ UNCHANGED in_flight
  <2>1. TypeOK'
    BY <1>1, <1>4, <1>6 DEF TypeOK, Places, call
  <2>2. SlotsOK'
    BY <1>1, <1>6, FullGate DEF SlotPlaces
  <2>3. LoopOK'
    BY <1>1, <1>6, LoopUnmoved DEF call
  <2>4. Listed' = Listed \ {c}
    BY <1>4, <1>6 DEF Listed
  <2>5. \A d \in Callers : at'[d] = IF d = c THEN "failed" ELSE at[d]
    BY <1>6 DEF TypeOK
  <2>6. \A d \in Listed' : at'[d] = "waiting" /\ (awake'[d] => expired'[d])
    BY <1>1, <1>3, <2>4, <2>5 DEF ListOK, Listed
  <2>7. Asleep' \subseteq Listed'
    BY <1>3, <2>4, <2>5 DEF ListOK, Asleep
  <2> QED BY <1>2, <1>4, <1>6, <2>1, <2>2, <2>3, <2>6, <2>7 DEF ListOK
<1>7. CASE /\ in_flight >= capacity /\ ~ expired[c]
           /\ waiters' = Append(waiters, c) /\ UNCHANGED <<in_flight, at>>
  <2>1. ~ Contains(waiters, c)
    BY <1>1, <1>7 DEF ListOK, Listed
  <2>2. /\ waiters' \in Seq(Callers) /\ Distinct(waiters')
        /\ \A d : Contains(waiters', d) <=> Contains(waiters, d) \/ d = c
    BY <1>1, <1>7, <2>1, Enlisted
  <2>3. TypeOK' /\ LoopOK'
    BY <1>1, <1>7, <2>2 DEF TypeOK, LoopOK, call
  <2>4. at' = [at EXCEPT ![c] = "waiting"]
    BY <1>1, <1>7 DEF TypeOK
  <2>5. SlotsOK'
    BY <1>1, <1>7, <2>4, FullGate DEF SlotPlaces
  <2>6. Listed' = Listed \cup {c}
    BY <2>2 DEF Listed
  <2>7. \A d \in Listed' : at'[d] = "waiting" /\ (awake'[d] => expired'[d])
    BY <1>1, <1>3, <1>7, <2>6 DEF ListOK, Listed
  <2>8. Asleep' \subseteq Listed'
    BY <1>3, <1>7, <2>6 DEF ListOK, Asleep
  <2> QED BY <1>2, <2>2, <2>3, <2>5, <2>7, <2>8 DEF ListOK
<1> QED BY <1>5, <1>6, <1>7 DEF RecheckGate

LEMMA AnswerStep ==
  ASSUME GateInv, NEW c \in Callers, NEW r \in Replies, ProviderAnswers(c, r)
  PROVE  GateInv'
<1> USE GateConstants DEF GateInv
<1>1. PICK x \in {"observing", "held"} : at' = [at EXCEPT ![c] = x]
  BY DEF ProviderAnswers
<1>2. /\ at[c] = "posting" /\ reply' = [reply EXCEPT ![c] = r]
      /\ trouble' = IF r \in Troubles THEN trouble + 1 ELSE trouble
      /\ UNCHANGED <<gate, call, sinceLimit>>
  BY DEF ProviderAnswers
<1>3. TypeOK'
  BY <1>1, <1>2 DEF TypeOK, Places, gate, call
<1>4. /\ at[c] # "waiting" /\ x # "waiting" /\ at[c] \in SlotPlaces /\ x \in SlotPlaces
      /\ UNCHANGED <<in_flight, waiters, awake, expired>>
      /\ capacity' \in Nat /\ capacity' <= capacity
  BY <1>1, <1>2 DEF SlotPlaces, gate, TypeOK
<1>5. ListOK' /\ SlotsOK'
  BY <1>1, <1>4, QuietGate
<1>6. LoopOK'
  BY <1>1, <1>2, LoopUnmoved DEF call
<1>7. StreakOK'
  BY <1>2 DEF StreakOK, gate
<1> QED BY <1>3, <1>5, <1>6, <1>7

(* A step of a caller that observes the capacity and moves outside the     *)
(* gate.                                                                   *)
LEMMA ObservedGate ==
  ASSUME GateInv, NEW c \in Callers, NEW x, at' = [at EXCEPT ![c] = x],
         at[c] # "waiting", x # "waiting", at[c] \in SlotPlaces <=> x \in SlotPlaces,
         UNCHANGED <<in_flight, expired>>, ObserveCapacity(c)
  PROVE  /\ ListOK' /\ SlotsOK' /\ CapacityTypes'
         /\ waiters' \in Seq(Callers) /\ awake' \in [Callers -> BOOLEAN]
<1> USE GateConstants DEF GateInv
<1>1. /\ CapacityTypes'
      /\ (capacity' <= capacity /\ UNCHANGED <<waiters, awake>>) \/ NotifyAll
  BY ObserveKinds
<1>2. CASE capacity' <= capacity /\ UNCHANGED <<waiters, awake>>
  <2>1. capacity' \in Nat
    BY <1>1 DEF CapacityTypes
  <2>2. ListOK' /\ SlotsOK'
    BY <1>2, <2>1, QuietGate
  <2> QED BY <1>1, <1>2, <2>2 DEF TypeOK
<1>3. CASE NotifyAll
  <2>1. ListOK' /\ SlotsOK'
    BY <1>3, NotifyAllGate
  <2> QED BY <1>1, <1>3, <2>1 DEF NotifyAll, TypeOK
<1> QED BY <1>1, <1>2, <1>3

LEMMA ObserveStreamStep ==
  ASSUME GateInv, NEW c \in Callers, ObserveStream(c)
  PROVE  GateInv'
<1> USE DEF GateInv
<1>1. /\ at[c] = "observing" /\ at' = [at EXCEPT ![c] = "held"]
      /\ ObserveCapacity(c) /\ UNCHANGED <<in_flight, expired, call, reply>>
  BY DEF ObserveStream
<1>2. /\ ListOK' /\ SlotsOK' /\ CapacityTypes'
      /\ waiters' \in Seq(Callers) /\ awake' \in [Callers -> BOOLEAN]
  BY <1>1, ObservedGate DEF SlotPlaces
<1>3. TypeOK'
  BY <1>1, <1>2 DEF TypeOK, CapacityTypes, Places, call
<1>4. LoopOK'
  BY <1>1, LoopUnmoved DEF call
<1> QED BY <1>2, <1>3, <1>4 DEF CapacityTypes

LEMMA ReleaseStep ==
  ASSUME GateInv, NEW c \in Callers, ReleaseSlot(c)
  PROVE  GateInv'
<1> USE DEF GateInv
<1>1. /\ at[c] = "held" /\ in_flight' = in_flight - 1 /\ Notify
      /\ UNCHANGED <<capacity, healthy_streak, expired, reply, trouble, sinceLimit>>
  BY DEF ReleaseSlot
<1>2. /\ \E x \in {"enter", "succeeded", "failed", "answered"} :
           at' = [at EXCEPT ![c] = x]
      /\ CallTypes' /\ LoopOK'
  <2>1. CASE Decide(c)
    BY <2>1, DecideKinds
  <2>2. CASE at' = [at EXCEPT ![c] = "answered"] /\ UNCHANGED call
    <3>1. LoopOK'
      BY <2>2, LoopUnmoved DEF call
    <3> QED BY <2>2, <3>1 DEF CallTypes, TypeOK, call
  <2> QED BY <2>1, <2>2 DEF ReleaseSlot
<1>3. PICK x \in {"enter", "succeeded", "failed", "answered"} :
             at' = [at EXCEPT ![c] = x]
  BY <1>2
<1>4. x \notin SlotPlaces \cup {"waiting"}
  BY DEF SlotPlaces
<1>5. ListOK' /\ SlotsOK' /\ in_flight' \in Nat
  BY <1>1, <1>3, <1>4, SlotReleased
<1>6. waiters' \in Seq(Callers) /\ awake' \in [Callers -> BOOLEAN]
  <2>1. CASE UNCHANGED <<waiters, awake>>
    BY <2>1 DEF TypeOK
  <2>2. CASE /\ waiters # <<>> /\ waiters' = Tail(waiters)
             /\ awake' = [awake EXCEPT ![Head(waiters)] = TRUE]
    BY <2>2, HeadTailProperties DEF TypeOK
  <2> QED BY <1>1, <2>1, <2>2 DEF Notify
<1>7. TypeOK'
  BY <1>1, <1>2, <1>3, <1>5, <1>6 DEF TypeOK, CallTypes, Places
<1>8. StreakOK'
  BY <1>1 DEF StreakOK
<1> QED BY <1>2, <1>5, <1>7, <1>8

LEMMA ObserveAnswerStep ==
  ASSUME GateInv, NEW c \in Callers, ObserveAnswer(c)
  PROVE  GateInv'
<1> USE DEF GateInv
<1>1. /\ at[c] = "answered" /\ ObserveCapacity(c) /\ Decide(c)
      /\ UNCHANGED <<in_flight, expired, reply>>
  BY DEF ObserveAnswer
<1>2. PICK x \in {"enter", "succeeded", "failed"} : at' = [at EXCEPT ![c] = x]
  BY <1>1, DecideKinds
<1>3. CallTypes' /\ LoopOK'
  BY <1>1, DecideKinds
<1>4. /\ at[c] # "waiting" /\ x # "waiting"
      /\ at[c] \in SlotPlaces <=> x \in SlotPlaces
  BY <1>1 DEF SlotPlaces
<1>5. /\ ListOK' /\ SlotsOK' /\ CapacityTypes'
      /\ waiters' \in Seq(Callers) /\ awake' \in [Callers -> BOOLEAN]
  BY <1>1, <1>2, <1>4, ObservedGate
<1>6. TypeOK'
  BY <1>1, <1>2, <1>3, <1>5 DEF TypeOK, CallTypes, CapacityTypes, Places
<1> QED BY <1>3, <1>5, <1>6 DEF CapacityTypes

-----------------------------------------------------------------------------
LEMMA GateInvInit == Init => GateInv
<1> SUFFICES ASSUME Init PROVE GateInv
  OBVIOUS
<1> USE GateConstants DEF Init
<1>1. TypeOK
  <2>1. MaxPosts \in Nat
    BY DEF MaxPosts
  <2>2. capacity \in MinCapacity .. MaxCapacity
    BY DEF Clamp
  <2> QED BY <2>1, <2>2 DEF TypeOK, Places, Replies
<1>2. Holding = {} /\ Asleep = {} /\ Listed = {}
  BY DEF Holding, HoldingSlot, Asleep, Listed, Contains
<1>3. ListOK
  BY <1>2 DEF ListOK, Distinct
<1>4. SlotsOK
  BY <1>2, FS_EmptySet DEF SlotsOK
<1>5. LoopOK
  <2>1. Cardinality(Features) \in Nat /\ Cardinality({}) = 0
    BY FS_CardinalityType, FS_EmptySet
  <2> QED BY <2>1 DEF LoopOK
<1>6. StreakOK
  BY DEF StreakOK
<1> QED BY <1>1, <1>3, <1>4, <1>5, <1>6 DEF GateInv

LEMMA GateInvStep == GateInv /\ [Next]_vars => GateInv'
<1> SUFFICES ASSUME GateInv, [Next]_vars PROVE GateInv'
  OBVIOUS
<1>1. CASE UNCHANGED vars
  <2>1. TypeOK' /\ LoopOK' /\ StreakOK'
    BY <1>1 DEF GateInv, vars, TypeOK, LoopOK, StreakOK
  <2>2. /\ Listed' = Listed /\ Asleep' = Asleep /\ Holding' = Holding
    BY <1>1 DEF vars, Listed, Asleep, Holding, HoldingSlot
  <2>3. Notified' = Notified
    BY <1>1, <2>2 DEF vars, Notified
  <2> QED BY <1>1, <2>1, <2>2, <2>3 DEF GateInv, vars, ListOK, SlotsOK
<1>2. CASE Next
  BY <1>2, BeginStep, EnterStep, TimeoutStep, RecheckStep, AnswerStep,
     ObserveStreamStep, ReleaseStep, ObserveAnswerStep DEF Next, CallStep
<1> QED BY <1>1, <1>2

(* The inductive invariant of the gate and the client's loop.              *)
THEOREM GateInvariant == Spec => []GateInv
BY GateInvInit, GateInvStep, PTL DEF Spec

(* Every variable keeps its type: the capacity stays within its limits and *)
(* a call within its posts and retries.                                    *)
THEOREM GateTypes == Spec => []TypeOK
<1>1. GateInv => TypeOK
  BY DEF GateInv
<1> QED BY <1>1, GateInvariant, PTL

(* acquire_slot never loses a wake-up, and in_flight counts the exchanges  *)
(* in progress, for any number of threads and any moves of the capacity.   *)
THEOREM NoLostWakeUp == Spec => []NoSleeperBesideFreeSlot
<1>1. GateInv => NoSleeperBesideFreeSlot
  <2> SUFFICES ASSUME GateInv PROVE NoSleeperBesideFreeSlot
    OBVIOUS
  <2>1. in_flight = Cardinality({c \in Callers : HoldingSlot(c)})
    BY DEF GateInv, SlotsOK, Holding
  <2>2. Notified \subseteq Roused /\ IsFiniteSet(Roused)
    BY GateConstants, FS_Subset DEF Notified, Roused
  <2>3. IsFiniteSet(Notified) /\ Cardinality(Notified) <= Cardinality(Roused)
    BY <2>2, FS_Subset
  <2>4. Cardinality(Notified) \in Nat /\ Cardinality(Roused) \in Nat
    BY <2>2, <2>3, FS_CardinalityType
  <2>5. capacity \in Nat /\ in_flight \in Nat
    BY GateConstants DEF GateInv, TypeOK
  <2>6. Asleep # {} => Cardinality(Roused) >= capacity - in_flight
    BY <2>3, <2>4, <2>5 DEF GateInv, SlotsOK
  <2> QED BY <2>1, <2>6 DEF NoSleeperBesideFreeSlot
<1> QED BY <1>1, GateInvariant, PTL

(* max_posts is enough for every mix of retries and rejected capabilities  *)
(* as long as MAX_COMPATIBILITY_ADJUSTMENTS covers the capabilities.       *)
THEOREM PostsSuffice == Spec => []LoopNeverRunsOut
<1>1. GateInv => LoopNeverRunsOut
  BY DEF GateInv, LoopOK, LoopNeverRunsOut
<1> QED BY <1>1, GateInvariant, PTL

(* _record_healthy raises the capacity only after enough healthy answers   *)
(* since the last _shrink.                                                 *)
THEOREM GrowthEarned == Spec => GrowthIsEarned
<1>1. ASSUME GateInv, [Next]_vars
      PROVE  [capacity' > capacity => sinceLimit' = HealthyToGrow]_vars
  <2>1. capacity \in Nat
    BY <1>1, GateConstants DEF GateInv, TypeOK
  <2>2. CASE \E c \in Callers : ObserveCapacity(c)
    BY <1>1, <2>2, ObserveKinds DEF GateInv
  <2>3. CASE UNCHANGED capacity
    BY <2>1, <2>3
  <2> QED BY <1>1, <2>2, <2>3 DEF Next, CallStep, BeginCall, EnterGate,
             WaitTimesOut, RecheckGate, ProviderAnswers, ObserveStream, ReleaseSlot,
             ObserveAnswer, gate, vars
<1> QED BY <1>1, GateInvariant, PTL DEF Spec, GrowthIsEarned
=============================================================================
