---------------------------- MODULE JobEventsProofs ----------------------------
(***************************************************************************)
(* Proofs about JobEvents, for any number of jobs, tasks and readers, any  *)
(* buffer size, zero included, and any number of events, cuts and          *)
(* restarts.                                                               *)
(*                                                                         *)
(* The buffer is either intact, and then its i-th entry is publication     *)
(* dropped + i, or was lost in a restart, and then its job is over and its *)
(* stream never ends.  A reader's ids are publications, and between the    *)
(* last id it got and the next one to be sent lies nothing but trimmed     *)
(* events.  With a short capacity wait a job has one task, and a closed    *)
(* stream stays as it is.                                                  *)
(***************************************************************************)
EXTENDS JobEvents, SequenceTheorems, TLAPS

History ==
  /\ received \in [Readers -> Seq(Nat)]
  /\ published \in [Jobs -> Nat]
  /\ trimmed \in [Jobs -> Nat]
  /\ cuts \in Nat

Intact(j) ==
  /\ \A i \in 1 .. Len(events[j]) : events[j][i] = dropped[j] + i
  /\ published[j] = dropped[j] + Len(events[j])
  /\ trimmed[j] = dropped[j]

(* No task of the job does anything any more.                              *)
Over(j) ==
  /\ \A t \in TasksOf(j) : phase[t] \in {"off", "finished"}
  /\ \E t \in TasksOf(j) : phase[t] = "finished"

Lost(j) ==
  /\ Over(j)
  /\ events[j] = <<>>
  /\ dropped[j] = 0
  /\ ~closed[j]

BufferOK(j) ==
  /\ Intact(j) \/ Lost(j)
  /\ \A t \in TasksOf(j) : phase[t] = "closing" => closed[j]
  /\ IsQueued(j) => published[j] = 0 /\ ~closed[j]

Got(r, n) == \E i \in 1 .. Len(received[r]) : received[r][i] = n

ReceivedOK(r) ==
  /\ lastId[r] <= published[Follows[r]]
  /\ \A i \in 1 .. Len(received[r]) : received[r][i] <= lastId[r]
  /\ \A i \in 1 .. Len(received[r]) - 1 : received[r][i] < received[r][i + 1]
  /\ \A n \in 1 .. lastId[r] : n > trimmed[Follows[r]] => Got(r, n)

(* The id before the next one to be sent.                                  *)
Sent(r) == cursor[r] - Len(outgoing[r])

StreamOK(r) ==
  /\ conn[r] # "open" => outgoing[r] = <<>>
  /\ outgoing[r] # <<>> => ~ Lost(Follows[r])
  /\ conn[r] = "open" /\ ~ Lost(Follows[r]) =>
       /\ cursor[r] <= published[Follows[r]]
       /\ lastId[r] <= Sent(r)
       /\ \A i \in 1 .. Len(outgoing[r]) :
            /\ outgoing[r][i].id = Sent(r) + i
            /\ outgoing[r][i].event = Sent(r) + i
       /\ \A n \in lastId[r] + 1 .. Sent(r) : n <= trimmed[Follows[r]]

Typed == TypeOK /\ History

ReaderOK(r) == ReceivedOK(r) /\ StreamOK(r)

EventsInv ==
  /\ Typed
  /\ \A j \in Jobs : BufferOK(j)
  /\ \A r \in Readers : ReaderOK(r)

-----------------------------------------------------------------------------
(* What publish leaves in the buffer.                                      *)
LEMMA TrimFacts ==
  ASSUME NEW s \in Seq(Nat), NEW e \in Nat, MaxEvents \in Nat,
         Len(s) <= MaxEvents
  PROVE  LET kept == Append(s, e)
             over == Overflow(kept)
             rest == SubSeq(kept, over + 1, Len(kept))
         IN /\ kept \in Seq(Nat) /\ Len(kept) = Len(s) + 1
            /\ over \in Nat /\ over <= Len(kept)
            /\ over > 0 => kept[over] \in Nat
            /\ rest \in Seq(Nat)
            /\ Len(rest) = Len(kept) - over
            /\ Len(rest) <= MaxEvents
            /\ \A i \in 1 .. Len(rest) : rest[i] = kept[over + i]
<1> DEFINE kept == Append(s, e)
           over == Overflow(kept)
           rest == SubSeq(kept, over + 1, Len(kept))
<1>1. /\ kept \in Seq(Nat) /\ Len(kept) = Len(s) + 1
      /\ Len(s) \in Nat
  BY AppendProperties, LenProperties
<1>2. over \in Nat /\ over <= Len(kept) /\ Len(kept) - over <= MaxEvents
  BY <1>1 DEF Overflow
<1>3. \A i \in 1 .. Len(kept) : kept[i] \in Nat
  BY <1>1, ElementOfSeq
<1>4. over > 0 => kept[over] \in Nat
  BY <1>1, <1>2, <1>3
<1> HIDE DEF kept, over
<1>5. \A i \in over + 1 .. Len(kept) : kept[i] \in Nat
  BY <1>1, <1>2, <1>3
<1>6. /\ rest \in Seq(Nat)
      /\ Len(rest) = IF over + 1 <= Len(kept) THEN Len(kept) - (over + 1) + 1 ELSE 0
      /\ \A i \in 1 .. Len(kept) - (over + 1) + 1 : rest[i] = kept[over + 1 + i - 1]
  BY <1>1, <1>2, <1>5, SubSeqProperties
<1>7. Len(rest) = Len(kept) - over
  BY <1>1, <1>2, <1>6
<1> HIDE DEF rest
<1>8. ASSUME NEW i \in 1 .. Len(rest) PROVE rest[i] = kept[over + i]
  <2>1. i \in 1 .. Len(kept) - (over + 1) + 1
    BY <1>1, <1>2, <1>7
  <2>2. over + 1 + i - 1 = over + i
    BY <1>2
  <2> QED BY <2>1, <2>2, <1>6
<1> QED BY <1>1, <1>2, <1>4, <1>6, <1>7, <1>8 DEF kept, over, rest

(* What read_since returns.                                                *)
LEMMA SinceFacts ==
  ASSUME TypeOK, NEW j \in Jobs, NEW from \in Nat
  PROVE  /\ Since(j, from) \in Seq(Nat)
         /\ Len(events[j]) \in Nat
         /\ Total(j) \in Nat
         /\ Len(Since(j, from)) \in Nat
         /\ Len(Since(j, from)) =
              IF StartAt(j, from) <= Len(events[j])
              THEN Len(events[j]) - StartAt(j, from) ELSE 0
         /\ \A i \in 1 .. Len(Since(j, from)) :
              Since(j, from)[i] = events[j][StartAt(j, from) + i]
<1> DEFINE a == StartAt(j, from)
           l == Len(events[j])
<1>1. /\ a \in Nat /\ l \in Nat /\ dropped[j] \in Nat
      /\ events[j] \in Seq(Nat)
  BY LenProperties DEF TypeOK, StartAt
<1>2. \A i \in a + 1 .. l : events[j][i] \in Nat
  BY <1>1, ElementOfSeq
<1> HIDE DEF a, l
<1>3. /\ SubSeq(events[j], a + 1, l) \in Seq(Nat)
      /\ Len(SubSeq(events[j], a + 1, l)) = IF a + 1 <= l THEN l - (a + 1) + 1 ELSE 0
      /\ \A i \in 1 .. l - (a + 1) + 1 :
           SubSeq(events[j], a + 1, l)[i] = events[j][a + 1 + i - 1]
  BY <1>1, <1>2, SubSeqProperties
<1>4. Since(j, from) = SubSeq(events[j], a + 1, l)
  BY DEF Since, a, l
<1>5. Len(Since(j, from)) = IF a <= l THEN l - a ELSE 0
  BY <1>1, <1>3, <1>4
<1>6. ASSUME NEW i \in 1 .. Len(Since(j, from))
      PROVE  Since(j, from)[i] = events[j][a + i]
  <2>1. i \in 1 .. l - (a + 1) + 1 /\ a + 1 + i - 1 = a + i
    BY <1>1, <1>5
  <2> QED BY <2>1, <1>3, <1>4
<1>7. Len(Since(j, from)) \in Nat
  BY <1>1, <1>5
<1>8. Total(j) \in Nat
  BY <1>1 DEF Total, l
<1>9. Since(j, from) \in Seq(Nat)
  BY <1>3, <1>4
<1> QED BY <1>1, <1>5, <1>6, <1>7, <1>8, <1>9 DEF a, l

(* The ids put on what was read.                                           *)
LEMMA IdFacts ==
  ASSUME NEW s \in Seq(Nat), NEW t \in Nat, Len(s) <= t
  PROVE  /\ WithIds(s, t) \in Seq([id : Nat, event : Nat])
         /\ Len(WithIds(s, t)) = Len(s)
         /\ \A i \in 1 .. Len(s) : /\ WithIds(s, t)[i].id = t - Len(s) + i
                                   /\ WithIds(s, t)[i].event = s[i]
<1>1. Len(s) \in Nat /\ \A i \in 1 .. Len(s) : s[i] \in Nat
  BY LenProperties, ElementOfSeq
<1>2. \A i \in 1 .. Len(s) :
        [id |-> t - Len(s) + i, event |-> s[i]] \in [id : Nat, event : Nat]
  BY <1>1
<1> QED BY <1>1, <1>2 DEF WithIds

-----------------------------------------------------------------------------
(* A read leaves at most Total(j) events to send.                          *)
LEMMA ReadType ==
  ASSUME TypeOK, NEW r \in Readers
  PROVE  LET j == Follows[r]
             new == Since(j, cursor[r])
         IN /\ j \in Jobs
            /\ Len(new) <= Total(j)
            /\ WithIds(new, Total(j)) \in Seq([id : Nat, event : Nat])
<1>1. Follows[r] \in Jobs /\ cursor[r] \in Nat
  BY EventConstants DEF TypeOK
<1> DEFINE j == Follows[r]
           new == Since(j, cursor[r])
<1>2. /\ new \in Seq(Nat) /\ Len(events[j]) \in Nat /\ Total(j) \in Nat
      /\ Len(new) = IF StartAt(j, cursor[r]) <= Len(events[j])
                    THEN Len(events[j]) - StartAt(j, cursor[r]) ELSE 0
  BY <1>1, SinceFacts
<1>3. dropped[j] \in Nat /\ StartAt(j, cursor[r]) \in Nat
  BY <1>1 DEF TypeOK, StartAt
<1>4. Len(new) <= Total(j)
  BY <1>2, <1>3 DEF Total
<1> HIDE DEF j, new
<1>5. WithIds(new, Total(j)) \in Seq([id : Nat, event : Nat])
  BY <1>2, <1>4, IdFacts
<1> QED BY <1>1, <1>4, <1>5 DEF j, new

(* What a step of the run may do.                                          *)
RunStep(t) == EnterRun(t) \/ StartRun(t) \/ GiveUpWaiting(t) \/ EndRun(t)

LEMMA RunFacts ==
  ASSUME Typed, NEW t \in Tasks, RunStep(t)
  PROVE  /\ JobOf[t] \in Jobs /\ t \in TasksOf(JobOf[t])
         /\ UNCHANGED <<events, dropped, readers, published, trimmed>>
         /\ \A u \in Tasks \ {t} : phase'[u] = phase[u]
         /\ \A k \in Jobs \ {JobOf[t]} : closed'[k] = closed[k]
         /\ phase[t] # "finished" /\ phase'[t] # "off"
         /\ phase[t] = "off" \/ phase'[t] = "waiting" =>
              /\ phase[t] = "off" /\ phase'[t] = "waiting"
              /\ IsQueued(JobOf[t]) /\ closed' = closed
              /\ \A u \in TasksOf(JobOf[t]) : phase[u] = "waiting" => WaitOutlastsLease
         /\ phase'[t] = "finished" =>
              phase[t] \in {"waiting", "closing"} \/ closed'[JobOf[t]]
         /\ phase[t] = "closing" => phase'[t] = "finished"
         /\ phase'[t] = "closing" => closed'[JobOf[t]]
         /\ closed[JobOf[t]] => closed'[JobOf[t]]
         /\ closed'[JobOf[t]] => closed[JobOf[t]] \/ phase'[t] \in {"closing", "finished"}
<1>1. JobOf[t] \in Jobs /\ t \in TasksOf(JobOf[t])
  BY EventConstants DEF TasksOf
<1>2. CASE EnterRun(t)
  BY <1>1, <1>2 DEF EnterRun, buffer, Typed, TypeOK
<1>3. CASE StartRun(t) \/ GiveUpWaiting(t)
  BY <1>1, <1>3 DEF StartRun, GiveUpWaiting, buffer, Typed, TypeOK
<1>4. CASE FailRun(t) \/ StoreResult(t)
  BY <1>1, <1>4 DEF FailRun, StoreResult, buffer, Typed, TypeOK
<1>5. CASE CloseEvents(t)
  BY <1>1, <1>5 DEF CloseEvents, Typed, TypeOK
<1> QED BY <1>2, <1>3, <1>4, <1>5 DEF RunStep, EndRun

LEMMA TypeStep ==
  ASSUME Typed, [Next]_vars
  PROVE  Typed'
<1> USE DEF Typed, TypeOK, History
<1>1. ASSUME NEW t \in Tasks, RunStep(t) PROVE Typed'
  BY <1>1 DEF RunStep, EnterRun, StartRun, GiveUpWaiting, EndRun, FailRun,
     CloseEvents, StoreResult, buffer, readers
<1>2. ASSUME NEW t \in Tasks, Publish(t) PROVE Typed'
  <2> DEFINE j == JobOf[t]
             kept == Append(events[j], published[j] + 1)
             over == Overflow(kept)
             rest == SubSeq(kept, over + 1, Len(kept))
  <2>1. /\ j \in Jobs
        /\ events[j] \in Seq(Nat) /\ Len(events[j]) <= MaxEvents
        /\ published[j] + 1 \in Nat /\ dropped[j] \in Nat
    BY EventConstants
  <2>2. /\ over \in Nat /\ rest \in Seq(Nat) /\ Len(rest) <= MaxEvents
        /\ over > 0 => kept[over] \in Nat
    BY <2>1, TrimFacts, EventConstants
  <2> HIDE DEF j, kept, over, rest
  <2>3. /\ events' = [events EXCEPT ![j] = rest]
        /\ dropped' = [dropped EXCEPT ![j] = dropped[j] + over]
        /\ trimmed' = [trimmed EXCEPT ![j] = IF over > 0 THEN kept[over] ELSE @]
        /\ published' = [published EXCEPT ![j] = @ + 1]
        /\ UNCHANGED <<phase, closed, readers, cuts>>
    BY <1>2 DEF Publish, j, kept, over, rest
  <2> QED BY <2>1, <2>2, <2>3 DEF readers
<1>3. ASSUME NEW r \in Readers, Connect(r) PROVE Typed'
  BY <1>3 DEF Connect, buffer
<1>4. ASSUME NEW r \in Readers, ReadSince(r) PROVE Typed'
  <2> DEFINE j == Follows[r]
             new == Since(j, cursor[r])
             out == WithIds(new, Total(j))
  <2>1. j \in Jobs /\ out \in Seq([id : Nat, event : Nat]) /\ Total(j) \in Nat
    BY ReadType, SinceFacts
  <2> HIDE DEF j, new, out
  <2>2. /\ cursor' = [cursor EXCEPT ![r] = Total(j)]
        /\ outgoing' = [outgoing EXCEPT ![r] = out]
        /\ conn' = [conn EXCEPT ![r] = IF EndsStream(j, new) THEN "done" ELSE "open"]
        /\ UNCHANGED <<phase, buffer, lastId, received, published, trimmed, cuts>>
    BY <1>4 DEF ReadSince, j, new, out
  <2> QED BY <2>1, <2>2 DEF buffer
<1>5. ASSUME NEW r \in Readers, SendEvent(r) PROVE Typed'
  <2>1. outgoing[r] \in Seq([id : Nat, event : Nat]) /\ outgoing[r] # <<>>
    BY <1>5 DEF SendEvent
  <2>2. /\ Head(outgoing[r]) \in [id : Nat, event : Nat]
        /\ Tail(outgoing[r]) \in Seq([id : Nat, event : Nat])
    BY <2>1, HeadTailProperties
  <2>3. Append(received[r], Head(outgoing[r]).event) \in Seq(Nat)
    BY <2>2, AppendProperties
  <2> QED BY <1>5, <2>2, <2>3 DEF SendEvent, buffer
<1>6. ASSUME NEW r \in Readers, ConnectionLost(r) PROVE Typed'
  BY <1>6 DEF ConnectionLost, buffer
<1>7. CASE Restart
  <2>1. Len(<<>>) = 0 /\ <<>> \in Seq(Nat)
    OBVIOUS
  <2> QED BY <1>7, <2>1, EventConstants DEF Restart
<1>8. CASE UNCHANGED vars
  BY <1>8 DEF vars
<1> QED BY <1>1, <1>2, <1>3, <1>4, <1>5, <1>6, <1>7, <1>8
        DEF Next, RunStep, ReaderStep

-----------------------------------------------------------------------------
(* The part of a publication that the invariant needs: the buffer moves up *)
(* by what was trimmed, and the run goes on.                               *)
LEMMA PublishFacts ==
  ASSUME Typed, NEW t \in Tasks, BufferOK(JobOf[t]), Publish(t)
  PROVE  LET j == JobOf[t] IN
         /\ j \in Jobs /\ t \in TasksOf(j) /\ phase[t] = "running"
         /\ Intact(j) /\ Intact(j)'
         /\ published'[j] = published[j] + 1
         /\ trimmed[j] <= trimmed'[j]
         /\ \A k \in Jobs \ {j} : /\ events'[k] = events[k]
                                  /\ dropped'[k] = dropped[k]
                                  /\ published'[k] = published[k]
                                  /\ trimmed'[k] = trimmed[k]
         /\ UNCHANGED <<phase, closed, readers, cuts>>
<1> DEFINE j == JobOf[t]
           kept == Append(events[j], published[j] + 1)
           over == Overflow(kept)
           rest == SubSeq(kept, over + 1, Len(kept))
<1>1. /\ j \in Jobs /\ t \in TasksOf(j)
      /\ events[j] \in Seq(Nat) /\ Len(events[j]) <= MaxEvents
      /\ published[j] \in Nat /\ dropped[j] \in Nat /\ trimmed[j] \in Nat
      /\ Len(events[j]) \in Nat /\ published[j] + 1 \in Nat
  BY EventConstants, LenProperties DEF Typed, TypeOK, History, TasksOf
<1>2. /\ Len(kept) = Len(events[j]) + 1 /\ over \in Nat /\ over <= Len(kept)
      /\ Len(rest) = Len(kept) - over
      /\ \A i \in 1 .. Len(rest) : rest[i] = kept[over + i]
  BY <1>1, TrimFacts, EventConstants
<1>3. /\ \A i \in 1 .. Len(events[j]) : kept[i] = events[j][i]
      /\ kept[Len(events[j]) + 1] = published[j] + 1
  BY <1>1, AppendProperties
<1>4. Intact(j) /\ phase[t] = "running"
  BY <1>1 DEF BufferOK, Publish, Lost, Over
<1> HIDE DEF j, kept, over, rest
<1>5. ASSUME NEW i \in 1 .. Len(kept) PROVE kept[i] = dropped[j] + i
  <2>1. CASE i \in 1 .. Len(events[j])
    BY <2>1, <1>3, <1>4 DEF Intact
  <2>2. CASE i = Len(events[j]) + 1
    <3>1. kept[i] = published[j] + 1 /\ published[j] = dropped[j] + Len(events[j])
      BY <2>2, <1>3, <1>4 DEF Intact
    <3> QED BY <2>2, <3>1, <1>1
  <2> QED BY <2>1, <2>2, <1>1, <1>2
<1>6. /\ events' = [events EXCEPT ![j] = rest]
      /\ dropped' = [dropped EXCEPT ![j] = dropped[j] + over]
      /\ trimmed' = [trimmed EXCEPT ![j] = IF over > 0 THEN kept[over] ELSE @]
      /\ published' = [published EXCEPT ![j] = @ + 1]
      /\ UNCHANGED <<phase, closed, readers, cuts>>
  BY DEF Publish, j, kept, over, rest
<1>7. /\ events'[j] = rest /\ dropped'[j] = dropped[j] + over
      /\ published'[j] = published[j] + 1
      /\ trimmed'[j] = IF over > 0 THEN kept[over] ELSE trimmed[j]
      /\ \A k \in Jobs \ {j} : /\ events'[k] = events[k]
                               /\ dropped'[k] = dropped[k]
                               /\ published'[k] = published[k]
                               /\ trimmed'[k] = trimmed[k]
  BY <1>1, <1>6 DEF Typed, TypeOK, History
<1>8. trimmed'[j] = dropped[j] + over
  BY <1>1, <1>2, <1>4, <1>5, <1>7 DEF Intact
<1>9. ASSUME NEW i \in 1 .. Len(rest) PROVE rest[i] = dropped[j] + over + i
  <2>1. over + i \in 1 .. Len(kept)
    BY <1>1, <1>2
  <2>2. rest[i] = kept[over + i] /\ kept[over + i] = dropped[j] + (over + i)
    BY <2>1, <1>2, <1>5
  <2> QED BY <2>2, <1>1, <1>2
<1>10. published[j] + 1 = dropped[j] + over + Len(rest)
  BY <1>1, <1>2, <1>4 DEF Intact
<1>11. Intact(j)'
  BY <1>7, <1>8, <1>9, <1>10 DEF Intact
<1>12. trimmed[j] <= trimmed'[j]
  BY <1>1, <1>2, <1>4, <1>8 DEF Intact
<1> QED BY <1>1, <1>4, <1>6, <1>7, <1>11, <1>12 DEF j

LEMMA TaskType ==
  ASSUME Typed, NEW t \in Tasks
  PROVE  phase[t] \in {"off", "waiting", "running", "closing", "failing", "finished"}
BY DEF Typed, TypeOK

LEMMA BufferStep ==
  ASSUME Typed, \A j \in Jobs : BufferOK(j), [Next]_vars
  PROVE  \A j \in Jobs : BufferOK(j)'
<1>1. ASSUME NEW t \in Tasks, RunStep(t), NEW k \in Jobs PROVE BufferOK(k)'
  <2>1. BufferOK(k) /\ UNCHANGED <<events, dropped, published, trimmed>>
    BY <1>1, RunFacts
  <2>2. Intact(k)' <=> Intact(k)
    BY <2>1 DEF Intact
  <2>3. CASE k # JobOf[t]
    <3>1. /\ \A u \in TasksOf(k) : phase'[u] = phase[u]
          /\ closed'[k] = closed[k] /\ TasksOf(k)' = TasksOf(k)
      BY <1>1, <2>3, RunFacts DEF TasksOf
    <3>2. (Over(k)' <=> Over(k)) /\ (IsQueued(k)' <=> IsQueued(k))
      BY <3>1 DEF Over, IsQueued
    <3> QED BY <2>1, <2>2, <3>1, <3>2 DEF BufferOK, Lost
  <2>4. CASE k = JobOf[t]
    <3>1. /\ t \in TasksOf(k) /\ TasksOf(k)' = TasksOf(k)
          /\ \A u \in TasksOf(k) \ {t} : phase'[u] = phase[u]
      BY <1>1, <2>4, RunFacts DEF TasksOf
    <3>2. Intact(k)
      <4>1. ~ Over(k)
        BY <1>1, <2>4, <3>1, RunFacts DEF Over, IsQueued
      <4> QED BY <2>1, <4>1 DEF BufferOK, Lost
    <3>3. \A u \in TasksOf(k) : phase'[u] = "closing" => closed'[k]
      BY <1>1, <2>1, <2>4, <3>1, RunFacts DEF BufferOK
    <3>4. IsQueued(k)' => IsQueued(k) /\ closed' = closed
      BY <1>1, <2>4, <3>1, RunFacts, TaskType DEF IsQueued
    <3> QED BY <2>1, <2>2, <3>1, <3>2, <3>3, <3>4 DEF BufferOK
  <2> QED BY <2>3, <2>4
<1>2. ASSUME NEW t \in Tasks, Publish(t), NEW k \in Jobs PROVE BufferOK(k)'
  <2>1. BufferOK(JobOf[t])
    BY EventConstants
  <2>2. /\ phase' = phase /\ closed' = closed /\ TasksOf(k)' = TasksOf(k)
        /\ IsQueued(k)' <=> IsQueued(k)
    BY <1>2, <2>1, PublishFacts DEF TasksOf, IsQueued
  <2>3. CASE k = JobOf[t]
    <3>1. Intact(k)' /\ ~ IsQueued(k)
      BY <1>2, <2>1, <2>3, PublishFacts DEF IsQueued
    <3> QED BY <2>2, <2>3, <3>1 DEF BufferOK
  <2>4. CASE k # JobOf[t]
    <3>1. /\ events'[k] = events[k] /\ dropped'[k] = dropped[k]
          /\ published'[k] = published[k] /\ trimmed'[k] = trimmed[k]
      BY <1>2, <2>1, <2>4, PublishFacts
    <3> QED BY <2>2, <3>1 DEF BufferOK, Intact, Lost, Over
  <2> QED BY <2>3, <2>4
<1>3. ASSUME UNCHANGED <<phase, buffer, published, trimmed>>, NEW k \in Jobs
      PROVE  BufferOK(k)'
  BY <1>3 DEF BufferOK, Intact, Lost, Over, IsQueued, TasksOf, buffer
<1>4. ASSUME NEW r \in Readers, Connect(r) \/ ReaderStep(r) \/ ConnectionLost(r)
      PROVE  UNCHANGED <<phase, buffer, published, trimmed>>
  BY <1>4 DEF Connect, ReaderStep, ReadSince, SendEvent, ConnectionLost
<1>5. ASSUME Restart, NEW k \in Jobs PROVE BufferOK(k)'
  <2>1. /\ events'[k] = <<>> /\ dropped'[k] = 0 /\ closed'[k] = FALSE
        /\ published'[k] = published[k] /\ trimmed'[k] = trimmed[k]
        /\ TasksOf(k)' = TasksOf(k)
        /\ \A t \in TasksOf(k) : phase'[t] =
             IF phase[t] \in {"off", "waiting"} THEN "off" ELSE "finished"
    BY <1>5 DEF Restart, TasksOf
  <2>2. \A t \in TasksOf(k) : phase'[t] # "closing"
    BY <2>1
  <2>3. CASE IsQueued(k)
    <3>1. Intact(k) /\ published[k] = 0
      BY <2>3 DEF BufferOK, Lost, Over, IsQueued
    <3>2. /\ Len(events[k]) \in Nat /\ dropped[k] \in Nat
      BY LenProperties DEF Typed, TypeOK
    <3>3. trimmed[k] = 0
      BY <3>1, <3>2 DEF Intact
    <3>4. Intact(k)'
      BY <2>1, <3>1, <3>3 DEF Intact
    <3> QED BY <2>1, <2>2, <3>1, <3>4 DEF BufferOK
  <2>4. CASE ~ IsQueued(k)
    <3>1. Over(k)' /\ ~ IsQueued(k)'
      BY <2>1, <2>4 DEF Over, IsQueued
    <3> QED BY <2>1, <2>2, <3>1 DEF BufferOK, Lost
  <2> QED BY <2>3, <2>4
<1>6. ASSUME UNCHANGED vars PROVE UNCHANGED <<phase, buffer, published, trimmed>>
  BY <1>6 DEF vars, buffer
<1> QED BY <1>1, <1>2, <1>3, <1>4, <1>5, <1>6 DEF Next, RunStep

-----------------------------------------------------------------------------
(* The values a reader's facts are about.                                  *)
LEMMA ReaderType ==
  ASSUME Typed, NEW r \in Readers
  PROVE  /\ Follows[r] \in Jobs
         /\ cursor[r] \in Nat /\ lastId[r] \in Nat
         /\ received[r] \in Seq(Nat) /\ Len(received[r]) \in Nat
         /\ outgoing[r] \in Seq([id : Nat, event : Nat])
         /\ Len(outgoing[r]) \in Nat
         /\ outgoing[r] # <<>> => Len(outgoing[r]) >= 1
         /\ published[Follows[r]] \in Nat /\ trimmed[Follows[r]] \in Nat
         /\ dropped[Follows[r]] \in Nat
<1>1. Follows[r] \in Jobs
  BY EventConstants
<1>2. outgoing[r] \in Seq([id : Nat, event : Nat]) /\ received[r] \in Seq(Nat)
  BY DEF Typed, TypeOK, History
<1>3. Len(outgoing[r]) \in Nat /\ (outgoing[r] # <<>> => Len(outgoing[r]) >= 1)
  BY <1>2, EmptySeq, LenProperties
<1> QED BY <1>1, <1>2, <1>3, LenProperties DEF Typed, TypeOK, History

(* A reader that a step leaves alone.                                      *)
LEMMA OtherReader ==
  ASSUME NEW q \in Readers, ReaderOK(q),
         UNCHANGED <<phase, buffer, published, trimmed>>,
         conn'[q] = conn[q], cursor'[q] = cursor[q], outgoing'[q] = outgoing[q],
         lastId'[q] = lastId[q], received'[q] = received[q]
  PROVE  ReaderOK(q)'
<1>1. ReceivedOK(q)'
  BY DEF ReaderOK, ReceivedOK, Got
<1>2. Lost(Follows[q])' <=> Lost(Follows[q])
  BY DEF Lost, Over, TasksOf, buffer
<1>3. StreamOK(q)'
  BY <1>2 DEF ReaderOK, StreamOK, Sent
<1> QED BY <1>1, <1>3 DEF ReaderOK

LEMMA RunKeepsReaders ==
  ASSUME EventsInv, NEW t \in Tasks, RunStep(t), NEW q \in Readers
  PROVE  ReaderOK(q)'
<1> DEFINE f == Follows[q]
<1>1. /\ f \in Jobs /\ ReaderOK(q) /\ BufferOK(f) /\ Typed
      /\ UNCHANGED <<events, dropped, readers, published, trimmed>>
      /\ TasksOf(f)' = TasksOf(f)
  BY ReaderType, RunFacts DEF EventsInv, TasksOf
<1>2. ReceivedOK(q)'
  BY <1>1 DEF ReaderOK, ReceivedOK, Got, readers
<1>3. ASSUME f # JobOf[t] PROVE Lost(f)' <=> Lost(f)
  <2>1. /\ \A u \in TasksOf(f) : phase'[u] = phase[u]
        /\ closed'[f] = closed[f]
    BY <1>1, <1>3, RunFacts DEF TasksOf
  <2>2. Over(f)' <=> Over(f)
    BY <1>1, <2>1 DEF Over
  <2> QED BY <1>1, <2>1, <2>2 DEF Lost
<1>4. ASSUME f = JobOf[t] PROVE ~ Lost(f)
  BY <1>1, <1>4, RunFacts DEF Lost, Over, IsQueued
<1>5. ASSUME Lost(f)', ~ Lost(f) PROVE outgoing[q] = <<>>
  <2>1. Intact(f) /\ events[f] = <<>> /\ dropped[f] = 0
    BY <1>1, <1>5 DEF Lost, BufferOK
  <2>2. published[f] = 0
    BY <2>1 DEF Intact
  <2>3. CASE conn[q] = "open"
    <3>1. cursor[q] <= 0 /\ lastId[q] <= cursor[q] - Len(outgoing[q])
      BY <1>1, <1>5, <2>2, <2>3 DEF ReaderOK, StreamOK, Sent
    <3> QED BY <1>1, <3>1, ReaderType
  <2>4. CASE conn[q] # "open"
    BY <1>1, <2>4 DEF ReaderOK, StreamOK
  <2> QED BY <2>3, <2>4
<1>6. StreamOK(q)'
  BY <1>1, <1>3, <1>4, <1>5 DEF ReaderOK, StreamOK, Sent, readers
<1> QED BY <1>2, <1>6 DEF ReaderOK

LEMMA PublishKeepsReaders ==
  ASSUME EventsInv, NEW t \in Tasks, Publish(t), NEW q \in Readers
  PROVE  ReaderOK(q)'
<1> DEFINE f == Follows[q]
           j == JobOf[t]
<1>1. /\ f \in Jobs /\ ReaderOK(q) /\ BufferOK(j) /\ Typed
  BY ReaderType, EventConstants DEF EventsInv
<1>2. /\ j \in Jobs /\ t \in TasksOf(j) /\ phase[t] = "running"
      /\ published'[j] = published[j] + 1
      /\ trimmed[j] <= trimmed'[j]
      /\ \A k \in Jobs \ {j} : /\ events'[k] = events[k]
                               /\ dropped'[k] = dropped[k]
                               /\ published'[k] = published[k]
                               /\ trimmed'[k] = trimmed[k]
      /\ UNCHANGED <<phase, closed, readers, cuts>>
      /\ \A k : TasksOf(k)' = TasksOf(k)
  BY <1>1, PublishFacts DEF TasksOf
<1> HIDE DEF j
<1>3. CASE f # j
  <2>1. /\ events'[f] = events[f] /\ dropped'[f] = dropped[f]
        /\ published'[f] = published[f] /\ trimmed'[f] = trimmed[f]
    BY <1>1, <1>2, <1>3
  <2>2. ReceivedOK(q)'
    BY <1>1, <1>2, <2>1 DEF ReaderOK, ReceivedOK, Got, readers
  <2>3. Lost(f)' <=> Lost(f)
    BY <1>2, <2>1 DEF Lost, Over
  <2>4. StreamOK(q)'
    BY <1>1, <1>2, <2>1, <2>3 DEF ReaderOK, StreamOK, Sent, readers
  <2> QED BY <2>2, <2>4 DEF ReaderOK
<1>4. CASE f = j
  <2>1. /\ published[f] \in Nat /\ trimmed[f] \in Nat /\ trimmed'[f] \in Nat
        /\ lastId[q] \in Nat /\ cursor[q] \in Nat /\ Len(outgoing[q]) \in Nat
    <3>1. Typed'
      BY <1>1, TypeStep DEF Next
    <3> QED BY <1>1, <3>1, ReaderType DEF Typed, History
  <2>2. ReceivedOK(q)'
    BY <1>1, <1>2, <1>4, <2>1 DEF ReaderOK, ReceivedOK, Got, readers
  <2>3. ~ Lost(f) /\ ~ Lost(f)'
    BY <1>2, <1>4 DEF Lost, Over
  <2>4. StreamOK(q)'
    BY <1>1, <1>2, <1>4, <2>1, <2>3 DEF ReaderOK, StreamOK, Sent, readers
  <2> QED BY <2>2, <2>4 DEF ReaderOK
<1> QED BY <1>3, <1>4

LEMMA ConnectOK ==
  ASSUME EventsInv, NEW r \in Readers, Connect(r)
  PROVE  ReaderOK(r)'
<1>1. ReaderOK(r) /\ Typed
  BY DEF EventsInv
<1>2. /\ conn[r] = "off" /\ conn'[r] = "open" /\ cursor'[r] = lastId[r]
      /\ UNCHANGED <<phase, buffer, outgoing, lastId, received, published, trimmed>>
  BY <1>1 DEF Connect, Typed, TypeOK
<1>3. outgoing[r] = <<>> /\ outgoing'[r] = <<>> /\ Len(<<>>) = 0
  BY <1>1, <1>2 DEF ReaderOK, StreamOK
<1>4. Sent(r)' = lastId[r] /\ lastId[r] \in Nat
  BY <1>1, <1>2, <1>3, ReaderType DEF Sent
<1>5. ReceivedOK(r)'
  BY <1>1, <1>2 DEF ReaderOK, ReceivedOK, Got
<1>6. StreamOK(r)'
  BY <1>1, <1>2, <1>3, <1>4, <1>5 DEF StreamOK, ReceivedOK
<1> QED BY <1>5, <1>6 DEF ReaderOK

(* A read of an intact buffer continues where the reader stands, or at the *)
(* first event that is left.                                               *)
LEMMA IntactRead ==
  ASSUME EventsInv, NEW r \in Readers, Intact(Follows[r]),
         cursor[r] <= published[Follows[r]]
  PROVE  LET j == Follows[r]
             new == Since(j, cursor[r])
         IN /\ Total(j) = published[j]
            /\ \A i \in 1 .. Len(new) : new[i] = Total(j) - Len(new) + i
            /\ cursor[r] <= Total(j) - Len(new)
            /\ \A n \in cursor[r] + 1 .. Total(j) - Len(new) : n <= trimmed[j]
<1> DEFINE j == Follows[r]
           new == Since(j, cursor[r])
           a == StartAt(j, cursor[r])
<1>1. /\ Typed /\ TypeOK /\ j \in Jobs /\ cursor[r] \in Nat
      /\ dropped[j] \in Nat /\ trimmed[j] = dropped[j]
      /\ published[j] = dropped[j] + Len(events[j])
      /\ \A i \in 1 .. Len(events[j]) : events[j][i] = dropped[j] + i
  BY ReaderType DEF EventsInv, Typed, Intact
<1>2. /\ Len(events[j]) \in Nat /\ Len(new) \in Nat
      /\ Len(new) = IF a <= Len(events[j]) THEN Len(events[j]) - a ELSE 0
      /\ \A i \in 1 .. Len(new) : new[i] = events[j][a + i]
  BY <1>1, SinceFacts
<1>3. a = IF cursor[r] > dropped[j] THEN cursor[r] - dropped[j] ELSE 0
  BY DEF StartAt
<1>4. Total(j) = dropped[j] + Len(events[j])
  BY DEF Total
<1> HIDE DEF a, new, j
<1>5. a \in Nat /\ a <= Len(events[j])
  BY <1>1, <1>2, <1>3 DEF j
<1>6. Total(j) - Len(new) = dropped[j] + a
  <2>1. Len(new) = Len(events[j]) - a
    BY <1>2, <1>5
  <2>2. /\ dropped[j] \in Nat /\ Len(events[j]) \in Nat /\ a \in Nat
        /\ Len(new) \in Nat
    BY <1>1, <1>2, <1>5
  <2> QED BY <2>1, <2>2, <1>4
<1>7. ASSUME NEW i \in 1 .. Len(new) PROVE new[i] = Total(j) - Len(new) + i
  <2>1. a + i \in 1 .. Len(events[j])
    BY <1>2, <1>5
  <2>2. new[i] = dropped[j] + (a + i)
    BY <1>1, <1>2, <2>1
  <2> QED BY <2>2, <1>1, <1>5, <1>6
<1>8. cursor[r] <= Total(j) - Len(new)
  BY <1>1, <1>3, <1>6
<1>9. \A n \in cursor[r] + 1 .. Total(j) - Len(new) : n <= trimmed[j]
  BY <1>1, <1>3, <1>6
<1> QED BY <1>1, <1>4, <1>7, <1>8, <1>9 DEF j, new

LEMMA ReadOK ==
  ASSUME EventsInv, NEW r \in Readers, ReadSince(r)
  PROVE  /\ ReaderOK(r)'
         /\ conn'[r] = "done" => AllKept(r) /\ closed[Follows[r]]
<1> DEFINE j == Follows[r]
           new == Since(j, cursor[r])
           out == WithIds(new, Total(j))
<1>1. /\ ReaderOK(r) /\ Typed /\ TypeOK /\ j \in Jobs /\ BufferOK(j)
      /\ cursor[r] \in Nat /\ lastId[r] \in Nat
      /\ published[j] \in Nat /\ trimmed[j] \in Nat
  BY ReaderType DEF EventsInv, Typed
<1>2. /\ new \in Seq(Nat) /\ Total(j) \in Nat /\ Len(new) \in Nat
      /\ Len(new) <= Total(j)
  BY <1>1, SinceFacts, ReadType
<1>3. /\ Len(out) = Len(new)
      /\ \A i \in 1 .. Len(new) : /\ out[i].id = Total(j) - Len(new) + i
                                  /\ out[i].event = new[i]
      /\ out \in Seq([id : Nat, event : Nat])
  BY <1>2, IdFacts
<1>4. /\ conn[r] = "open" /\ outgoing[r] = <<>>
      /\ cursor'[r] = Total(j) /\ outgoing'[r] = out
      /\ conn'[r] = IF EndsStream(j, new) THEN "done" ELSE "open"
      /\ UNCHANGED <<phase, buffer, lastId, received, published, trimmed>>
  BY <1>1 DEF ReadSince, Typed, TypeOK
<1>5. Lost(j)' <=> Lost(j)
  BY <1>4 DEF Lost, Over, TasksOf, buffer
<1>6. ReceivedOK(r)'
  BY <1>1, <1>4 DEF ReaderOK, ReceivedOK, Got
<1>7. CASE Lost(j)
  <2>1. events[j] = <<>> /\ ~ closed[j] /\ Len(events[j]) = 0
    BY <1>7 DEF Lost
  <2>2. StartAt(j, cursor[r]) \in Nat
    BY <1>1 DEF StartAt, TypeOK
  <2>3. Len(new) = IF StartAt(j, cursor[r]) <= Len(events[j])
                   THEN Len(events[j]) - StartAt(j, cursor[r]) ELSE 0
    BY <1>1, SinceFacts
  <2>4. Len(new) = 0
    BY <2>1, <2>2, <2>3
  <2>5. out = <<>>
    BY <1>3, <2>4, EmptySeq
  <2>6. conn'[r] = "open"
    BY <1>4, <2>1 DEF EndsStream
  <2>7. StreamOK(r)'
    BY <1>4, <1>5, <1>7, <2>5, <2>6 DEF StreamOK
  <2> QED BY <1>6, <2>6, <2>7 DEF ReaderOK
<1>8. CASE ~ Lost(j)
  <2>1. /\ Intact(j) /\ cursor[r] <= published[j] /\ lastId[r] <= Sent(r)
        /\ \A n \in lastId[r] + 1 .. Sent(r) : n <= trimmed[j]
    BY <1>1, <1>4, <1>8 DEF BufferOK, ReaderOK, StreamOK
  <2>2. Sent(r) = cursor[r]
    BY <1>1, <1>4 DEF Sent
  <2>3. /\ Total(j) = published[j]
        /\ \A i \in 1 .. Len(new) : new[i] = Total(j) - Len(new) + i
        /\ cursor[r] <= Total(j) - Len(new)
        /\ \A n \in cursor[r] + 1 .. Total(j) - Len(new) : n <= trimmed[j]
    BY <2>1, IntactRead
  <2> HIDE DEF new, out, j
  <2>4. Sent(r)' = Total(j) - Len(new)
    BY <1>3, <1>4 DEF Sent
  <2>5. lastId[r] <= Total(j) - Len(new)
    BY <1>1, <1>2, <2>1, <2>2, <2>3
  <2>6. \A n \in lastId[r] + 1 .. Total(j) - Len(new) : n <= trimmed[j]
    BY <1>1, <1>2, <2>1, <2>2, <2>3
  <2>7. ASSUME conn'[r] = "done" PROVE new = <<>> /\ closed[j]
    BY <1>4, <2>7 DEF EndsStream
  <2>8. ASSUME conn'[r] # "open" PROVE outgoing'[r] = <<>>
    <3>1. Len(out) = 0
      BY <1>3, <1>4, <2>7, <2>8
    <3> QED BY <1>3, <1>4, <3>1, EmptySeq
  <2>9. \A i \in 1 .. Len(out) : /\ out[i].id = Total(j) - Len(new) + i
                                 /\ out[i].event = Total(j) - Len(new) + i
    BY <1>3, <2>3
  <2>10. StreamOK(r)'
    BY <1>2, <1>4, <1>5, <1>8, <2>3, <2>4, <2>5, <2>6, <2>8, <2>9 DEF StreamOK, j
  <2>11. ASSUME conn'[r] = "done" PROVE AllKept(r) /\ closed[j]
    <3>1. Len(new) = 0 /\ closed[j]
      BY <2>7, <2>11
    <3>2. ASSUME NEW n \in 1 .. published[j], n > trimmed[j] PROVE Got(r, n)
      <4>1. n \in 1 .. lastId[r]
        BY <1>1, <1>2, <2>3, <2>6, <3>1, <3>2
      <4> QED BY <1>1, <3>2, <4>1 DEF ReaderOK, ReceivedOK, j
    <3> QED BY <3>1, <3>2 DEF AllKept, Got, Contains, j
  <2> QED BY <1>6, <2>10, <2>11 DEF ReaderOK, j
<1> QED BY <1>7, <1>8

LEMMA SendOK ==
  ASSUME EventsInv, NEW r \in Readers, SendEvent(r)
  PROVE  ReaderOK(r)'
<1> DEFINE j == Follows[r]
           h == Head(outgoing[r])
           e == Sent(r) + 1
<1>1. /\ ReaderOK(r) /\ Typed /\ j \in Jobs
      /\ cursor[r] \in Nat /\ lastId[r] \in Nat
      /\ received[r] \in Seq(Nat) /\ Len(received[r]) \in Nat
      /\ outgoing[r] \in Seq([id : Nat, event : Nat]) /\ Len(outgoing[r]) \in Nat
      /\ outgoing[r] # <<>> /\ Len(outgoing[r]) >= 1
      /\ published[j] \in Nat /\ trimmed[j] \in Nat
  BY ReaderType DEF EventsInv, SendEvent
<1>2. /\ conn[r] = "open" /\ conn'[r] = "open"
      /\ outgoing'[r] = Tail(outgoing[r]) /\ lastId'[r] = h.id
      /\ received'[r] = Append(received[r], h.event)
      /\ UNCHANGED <<phase, buffer, conn, cursor, published, trimmed>>
  BY <1>1 DEF SendEvent, Typed, TypeOK, History
<1>3. ~ Lost(j) /\ ~ Lost(j)'
  BY <1>1, <1>2 DEF ReaderOK, StreamOK, Lost, Over, TasksOf, buffer
<1>4. /\ cursor[r] <= published[j] /\ lastId[r] <= Sent(r)
      /\ \A i \in 1 .. Len(outgoing[r]) : /\ outgoing[r][i].id = Sent(r) + i
                                          /\ outgoing[r][i].event = Sent(r) + i
      /\ \A n \in lastId[r] + 1 .. Sent(r) : n <= trimmed[j]
  BY <1>1, <1>2, <1>3 DEF ReaderOK, StreamOK
<1>5. /\ Tail(outgoing[r]) \in Seq([id : Nat, event : Nat])
      /\ Len(Tail(outgoing[r])) = Len(outgoing[r]) - 1
      /\ \A i \in 1 .. Len(Tail(outgoing[r])) : Tail(outgoing[r])[i] = outgoing[r][i + 1]
  BY <1>1, HeadTailProperties
<1>6. Sent(r) = cursor[r] - Len(outgoing[r]) /\ Sent(r) \in Nat /\ e \in Nat
  <2>1. Sent(r) = cursor[r] - Len(outgoing[r])
    BY DEF Sent
  <2>2. lastId[r] <= Sent(r) /\ lastId[r] \in Nat
    BY <1>1, <1>4
  <2>3. cursor[r] - Len(outgoing[r]) \in Int
    BY <1>1
  <2>4. Sent(r) \in Nat
    BY <2>1, <2>2, <2>3
  <2> QED BY <2>1, <2>4
<1>7. h.id = e /\ h.event = e
  <2>1. h = outgoing[r][1]
    BY <1>1
  <2> QED BY <1>1, <1>4, <2>1
<1>8. /\ Append(received[r], e) \in Seq(Nat)
      /\ Len(Append(received[r], e)) = Len(received[r]) + 1
      /\ \A i \in 1 .. Len(received[r]) : Append(received[r], e)[i] = received[r][i]
      /\ Append(received[r], e)[Len(received[r]) + 1] = e
  BY <1>1, <1>6, AppendProperties
<1> HIDE DEF h, e
<1>9. /\ received'[r] = Append(received[r], e) /\ lastId'[r] = e
      /\ e = Sent(r) + 1
  BY <1>2, <1>7 DEF e
<1>10. Sent(r)' = e
  BY <1>1, <1>2, <1>5, <1>6, <1>9 DEF Sent
<1>11. StreamOK(r)'
  <2>1. ASSUME NEW i \in 1 .. Len(Tail(outgoing[r]))
        PROVE  /\ Tail(outgoing[r])[i].id = e + i
               /\ Tail(outgoing[r])[i].event = e + i
    <3>1. i + 1 \in 1 .. Len(outgoing[r])
      BY <1>1, <1>5
    <3>2. Sent(r) + (i + 1) = e + i
      BY <1>6, <1>9
    <3> QED BY <1>4, <1>5, <3>1, <3>2
  <2>2. \A n \in e + 1 .. e : n <= trimmed[j]
    BY <1>6
  <2> QED BY <1>2, <1>3, <1>4, <1>6, <1>9, <1>10, <2>1, <2>2 DEF StreamOK, j
<1>12. ReceivedOK(r)'
  <2>1. e <= published[j]
    BY <1>1, <1>4, <1>6, <1>9
  <2>2. \A i \in 1 .. Len(received[r]) : received[r][i] <= lastId[r]
    BY <1>1 DEF ReaderOK, ReceivedOK
  <2>3. ASSUME NEW i \in 1 .. Len(received[r])
        PROVE  received[r][i] \in Nat /\ received[r][i] < e
    <3>1. received[r][i] \in Nat
      BY <1>1, ElementOfSeq
    <3>2. received[r][i] <= lastId[r] /\ lastId[r] <= Sent(r)
      BY <1>4, <2>2
    <3>3. lastId[r] \in Nat /\ Sent(r) \in Nat /\ e = Sent(r) + 1
      BY <1>1, <1>6, <1>9
    <3>4. received[r][i] < e
      BY <3>1, <3>2, <3>3
    <3> QED BY <3>1, <3>4
  <2>4. ASSUME NEW i \in 1 .. Len(received[r]) + 1
        PROVE  Append(received[r], e)[i] <= e
    <3>1. CASE i \in 1 .. Len(received[r])
      <4>1. Append(received[r], e)[i] = received[r][i]
        BY <1>8, <3>1
      <4>2. received[r][i] \in Nat /\ received[r][i] < e
        BY <2>3, <3>1
      <4> QED BY <1>6, <4>1, <4>2
    <3>2. CASE i = Len(received[r]) + 1
      BY <1>6, <1>8, <3>2
    <3> QED BY <1>1, <3>1, <3>2
  <2>5. ASSUME NEW i \in 1 .. Len(received[r])
        PROVE  Append(received[r], e)[i] < Append(received[r], e)[i + 1]
    <3>1. CASE i = Len(received[r])
      BY <3>1, <1>8, <2>3
    <3>2. CASE i # Len(received[r])
      <4>1. i \in 1 .. Len(received[r]) - 1 /\ i + 1 \in 1 .. Len(received[r])
        BY <1>1, <3>2
      <4> QED BY <1>1, <1>8, <4>1 DEF ReaderOK, ReceivedOK
    <3> QED BY <3>1, <3>2
  <2>6. ASSUME NEW n \in 1 .. e, n > trimmed[j] PROVE Got(r, n)'
    <3>1. CASE n \in 1 .. lastId[r]
      <4>1. PICK i \in 1 .. Len(received[r]) : received[r][i] = n
        BY <1>1, <2>6, <3>1 DEF ReaderOK, ReceivedOK, Got, j
      <4>2. i \in 1 .. Len(received[r]) + 1 /\ Append(received[r], e)[i] = n
        BY <1>1, <1>8, <4>1
      <4> QED BY <1>8, <1>9, <4>2 DEF Got
    <3>2. CASE n = e
      <4>1. Len(received[r]) + 1 \in 1 .. Len(received[r]) + 1
        BY <1>1
      <4> QED BY <1>8, <1>9, <3>2, <4>1 DEF Got
    <3>3. ~ (n \in lastId[r] + 1 .. Sent(r))
      BY <1>1, <1>4, <2>6
    <3>4. n \in 1 .. lastId[r] \/ n = e
      BY <1>1, <1>6, <1>9, <3>3
    <3> QED BY <3>1, <3>2, <3>4
  <2>7. /\ Len(received'[r]) = Len(received[r]) + 1
        /\ Len(received'[r]) - 1 = Len(received[r])
    BY <1>1, <1>8, <1>9
  <2>8. /\ \A i \in 1 .. Len(received'[r]) : received'[r][i] <= lastId'[r]
        /\ \A i \in 1 .. Len(received'[r]) - 1 : received'[r][i] < received'[r][i + 1]
    BY <1>9, <2>4, <2>5, <2>7
  <2>9. /\ lastId'[r] <= published'[Follows[r]]
        /\ \A n \in 1 .. lastId'[r] : n > trimmed'[Follows[r]] => Got(r, n)'
    BY <1>2, <1>9, <2>1, <2>6 DEF j
  <2> QED BY <2>8, <2>9 DEF ReceivedOK
<1> QED BY <1>11, <1>12 DEF ReaderOK

LEMMA CutOK ==
  ASSUME EventsInv, NEW r \in Readers, ConnectionLost(r)
  PROVE  ReaderOK(r)'
<1>1. ReaderOK(r) /\ Typed
  BY DEF EventsInv
<1>2. /\ conn'[r] = "off" /\ outgoing'[r] = <<>>
      /\ UNCHANGED <<phase, buffer, cursor, lastId, received, published, trimmed>>
  BY <1>1 DEF ConnectionLost, Typed, TypeOK
<1> QED BY <1>1, <1>2 DEF ReaderOK, ReceivedOK, StreamOK, Got

LEMMA RestartOK ==
  ASSUME EventsInv, Restart, NEW q \in Readers
  PROVE  ReaderOK(q)'
<1>1. ReaderOK(q) /\ Typed /\ Follows[q] \in Jobs
  BY ReaderType DEF EventsInv
<1>2. /\ conn'[q] # "open" /\ outgoing'[q] = <<>>
      /\ UNCHANGED <<cursor, lastId, received, published, trimmed>>
  BY <1>1 DEF Restart
<1> QED BY <1>1, <1>2 DEF ReaderOK, ReceivedOK, StreamOK, Got

LEMMA ReadersStep ==
  ASSUME EventsInv, [Next]_vars, NEW q \in Readers
  PROVE  ReaderOK(q)'
<1>1. ReaderOK(q) /\ Typed
  BY DEF EventsInv
<1>2. ASSUME NEW r \in Readers, Connect(r) \/ ReaderStep(r) \/ ConnectionLost(r)
      PROVE  ReaderOK(q)'
  <2>1. CASE q = r
    BY <1>2, <2>1, ConnectOK, ReadOK, SendOK, CutOK DEF ReaderStep
  <2>2. CASE q # r
    <3>1. /\ UNCHANGED <<phase, buffer, published, trimmed>>
          /\ conn'[q] = conn[q] /\ cursor'[q] = cursor[q]
          /\ outgoing'[q] = outgoing[q] /\ lastId'[q] = lastId[q]
          /\ received'[q] = received[q]
      BY <1>1, <1>2, <2>2 DEF Connect, ReaderStep, ReadSince, SendEvent,
         ConnectionLost, Typed, TypeOK, History
    <3> QED BY <1>1, <3>1, OtherReader
  <2> QED BY <2>1, <2>2
<1>3. CASE UNCHANGED vars
  BY <1>1, <1>3, OtherReader DEF vars, buffer
<1> QED BY <1>2, <1>3, RunKeepsReaders, PublishKeepsReaders, RestartOK
        DEF Next, RunStep

(* The step at which a reader is told "done".                              *)
LEMMA DoneStep ==
  ASSUME EventsInv, [Next]_vars
  PROVE  [\A r \in Readers : conn[r] # "done" /\ conn'[r] = "done" => AllKept(r)']_vars
<1> SUFFICES ASSUME NEW r \in Readers, conn[r] # "done", conn'[r] = "done", Next
             PROVE  AllKept(r)'
  BY DEF vars
<1>1. Typed
  BY DEF EventsInv
<1>2. ASSUME NEW t \in Tasks, RunStep(t) \/ Publish(t) PROVE FALSE
  BY <1>2 DEF RunStep, EnterRun, StartRun, GiveUpWaiting, EndRun, FailRun,
     CloseEvents, StoreResult, Publish, readers
<1>3. ASSUME NEW q \in Readers, Connect(q) \/ SendEvent(q) \/ ConnectionLost(q)
      PROVE  FALSE
  BY <1>1, <1>3 DEF Connect, SendEvent, ConnectionLost, Typed, TypeOK
<1>4. ASSUME NEW q \in Readers, ReadSince(q) PROVE AllKept(r)'
  <2>1. q = r
    BY <1>1, <1>4 DEF ReadSince, Typed, TypeOK
  <2>2. AllKept(r) /\ UNCHANGED <<received, published, trimmed>>
    BY <1>4, <2>1, ReadOK DEF ReadSince
  <2> QED BY <2>2 DEF AllKept
<1>5. ~ Restart
  BY DEF Restart
<1> QED BY <1>2, <1>3, <1>4, <1>5 DEF Next, RunStep, ReaderStep

-----------------------------------------------------------------------------
LEMMA EventsInvInit == Init => EventsInv
<1> SUFFICES ASSUME Init PROVE EventsInv
  OBVIOUS
<1>1. Typed
  BY EventConstants DEF Init, Typed, TypeOK, History
<1>2. ASSUME NEW j \in Jobs PROVE BufferOK(j)
  BY DEF Init, BufferOK, Intact, TasksOf
<1>3. ASSUME NEW r \in Readers PROVE ReaderOK(r)
  <2>1. Follows[r] \in Jobs
    BY EventConstants
  <2> QED BY <2>1 DEF Init, ReaderOK, ReceivedOK, StreamOK, Got
<1> QED BY <1>1, <1>2, <1>3 DEF EventsInv

(* The buffer and every reader stay aligned: the inductive invariant of    *)
(* JobEventBuffer and event_source.                                        *)
THEOREM EventsInvariant == Spec => []EventsInv
<1>1. Init => EventsInv
  BY EventsInvInit
<1>2. EventsInv /\ [Next]_vars => EventsInv'
  BY TypeStep, BufferStep, ReadersStep DEF EventsInv
<1> QED BY <1>1, <1>2, PTL DEF Spec

(* The state has its types, and publish never keeps more than max_events.  *)
THEOREM BufferBounded == Spec => []TypeOK
<1>1. EventsInv => TypeOK
  BY DEF EventsInv, Typed
<1> QED BY <1>1, EventsInvariant, PTL

(* Whatever is trimmed and however often a reader is cut off and resumes   *)
(* with Last-Event-ID, it gets events in order, once, and misses trimmed   *)
(* ones only.                                                              *)
THEOREM ReadersMissOnlyTrimmed == Spec => []ReaderMissesOnlyTrimmed
<1>1. EventsInv => ReaderMissesOnlyTrimmed
  <2> SUFFICES ASSUME EventsInv, NEW r \in Readers
               PROVE  /\ \A i \in 1 .. Len(received[r]) - 1 :
                           received[r][i] < received[r][i + 1]
                      /\ received[r] # <<>> =>
                           \A n \in 1 .. Last(received[r]) :
                             n > trimmed[Follows[r]] => Contains(received[r], n)
    BY DEF ReaderMissesOnlyTrimmed
  <2>1. ReceivedOK(r) /\ Typed
    BY DEF EventsInv, ReaderOK
  <2>2. ASSUME received[r] # <<>>, NEW n \in 1 .. Last(received[r]),
               n > trimmed[Follows[r]]
        PROVE  Contains(received[r], n)
    <3>1. /\ Len(received[r]) \in 1 .. Len(received[r])
          /\ Last(received[r]) \in Nat /\ lastId[r] \in Nat
      <4>1. received[r] \in Seq(Nat) /\ lastId[r] \in Nat
        BY <2>1, ReaderType
      <4>2. Len(received[r]) \in Nat \ {0}
        BY <4>1, <2>2, EmptySeq
      <4> QED BY <4>1, <4>2, ElementOfSeq DEF Last
    <3>2. Last(received[r]) <= lastId[r]
      BY <2>1, <3>1 DEF ReceivedOK, Last
    <3>3. n \in 1 .. lastId[r]
      BY <3>1, <3>2
    <3> QED BY <2>1, <2>2, <3>3 DEF ReceivedOK, Got, Contains
  <2> QED BY <2>1, <2>2 DEF ReceivedOK
<1> QED BY <1>1, EventsInvariant, PTL

-----------------------------------------------------------------------------
(* Behind a close nothing is published but by a second run: the task that  *)
(* closed the buffer is past its last event.                               *)
EndsReached(j) == \E t \in TasksOf(j) : phase[t] \in {"closing", "finished"}

DoneOK(r) ==
  conn[r] = "done" =>
    EndsReached(Follows[r]) /\ (AllKept(r) \/ SecondRun(Follows[r]))

ClosedLast ==
  /\ \A j \in Jobs : closed[j] => EndsReached(j)
  /\ \A r \in Readers : DoneOK(r)

LEMMA ClosedLastStep ==
  ASSUME EventsInv, ClosedLast, [Next]_vars
  PROVE  ClosedLast'
<1> USE DEF ClosedLast
<1>1. Typed /\ \A r \in Readers : Follows[r] \in Jobs
  BY EventConstants DEF EventsInv
<1>2. ASSUME NEW t \in Tasks, RunStep(t) PROVE ClosedLast'
  <2>1. ASSUME NEW j \in Jobs, EndsReached(j) PROVE EndsReached(j)'
    BY <1>1, <1>2, <2>1, RunFacts DEF EndsReached, TasksOf
  <2>2. ASSUME NEW j \in Jobs, SecondRun(j) PROVE SecondRun(j)'
    <3>1. PICK u, v \in TasksOf(j) :
            u # v /\ {phase[u], phase[v]} \cap {"off", "waiting"} = {}
      BY <2>2 DEF SecondRun
    <3>2. phase[t] \notin {"off", "waiting"} => phase'[t] \notin {"off", "waiting"}
      BY <1>1, <1>2, RunFacts
    <3>3. {phase'[u], phase'[v]} \cap {"off", "waiting"} = {}
      BY <1>1, <1>2, <3>1, <3>2, RunFacts DEF TasksOf
    <3> QED BY <3>1, <3>3 DEF SecondRun, TasksOf
  <2>3. ASSUME NEW j \in Jobs, closed'[j] PROVE EndsReached(j)'
    <3>1. CASE closed[j]
      BY <2>1, <3>1
    <3>2. CASE ~ closed[j]
      <4>1. j = JobOf[t] /\ phase'[t] \in {"closing", "finished"}
        BY <1>1, <1>2, <2>3, <3>2, RunFacts
      <4> QED BY <4>1 DEF EndsReached, TasksOf
    <3> QED BY <3>1, <3>2
  <2>4. ASSUME NEW r \in Readers PROVE DoneOK(r)'
    <3>1. UNCHANGED <<published, trimmed, readers>>
      BY <1>1, <1>2, RunFacts
    <3>2. AllKept(r)' <=> AllKept(r)
      BY <3>1 DEF AllKept, readers
    <3> QED BY <1>1, <2>1, <2>2, <3>1, <3>2 DEF DoneOK, readers
  <2> QED BY <2>3, <2>4
<1>3. ASSUME NEW t \in Tasks, Publish(t) PROVE ClosedLast'
  <2> DEFINE j == JobOf[t]
  <2>1. BufferOK(j)
    BY EventConstants DEF EventsInv
  <2>2. /\ j \in Jobs /\ t \in TasksOf(j) /\ phase[t] = "running"
        /\ \A k \in Jobs \ {j} : /\ published'[k] = published[k]
                                 /\ trimmed'[k] = trimmed[k]
        /\ UNCHANGED <<phase, closed, readers>>
    BY <1>1, <1>3, <2>1, PublishFacts
  <2>3. EndsReached(j) => SecondRun(j)
    BY <2>2 DEF EndsReached, SecondRun
  <2>4. ASSUME NEW k \in Jobs
        PROVE  (EndsReached(k)' <=> EndsReached(k)) /\ (SecondRun(k)' <=> SecondRun(k))
    BY <2>2 DEF EndsReached, SecondRun, TasksOf
  <2>5. ASSUME NEW r \in Readers PROVE DoneOK(r)'
    <3>1. CASE Follows[r] = j
      BY <2>2, <2>3, <2>4, <3>1 DEF DoneOK, readers
    <3>2. CASE Follows[r] # j
      BY <1>1, <2>2, <2>4, <3>2 DEF DoneOK, AllKept, readers
    <3> QED BY <3>1, <3>2
  <2> QED BY <2>2, <2>4, <2>5
<1>4. ASSUME UNCHANGED <<phase, buffer, published, trimmed>>
      PROVE  /\ \A j \in Jobs : closed'[j] => EndsReached(j)'
             /\ \A j \in Jobs : /\ EndsReached(j)' <=> EndsReached(j)
                                /\ SecondRun(j)' <=> SecondRun(j)
  BY <1>4 DEF EndsReached, SecondRun, TasksOf, buffer
<1>5. ASSUME NEW r \in Readers, Connect(r) \/ ReaderStep(r) \/ ConnectionLost(r)
      PROVE  ClosedLast'
  <2>1. UNCHANGED <<phase, buffer, published, trimmed>>
    BY <1>5 DEF Connect, ReaderStep, ReadSince, SendEvent, ConnectionLost
  <2>2. ASSUME NEW q \in Readers, conn'[q] = "done" PROVE DoneOK(q)'
    <3>1. CASE conn[q] = "done"
      <4>1. received'[q] = received[q]
        BY <1>1, <1>5, <3>1 DEF Connect, ReaderStep, ReadSince, SendEvent,
           ConnectionLost, Typed, History
      <4>2. AllKept(q)' <=> AllKept(q)
        BY <2>1, <4>1 DEF AllKept
      <4> QED BY <1>1, <1>4, <2>1, <3>1, <4>2 DEF DoneOK
    <3>2. CASE conn[q] # "done"
      <4>1. q = r /\ ReadSince(r)
        BY <1>1, <1>5, <2>2, <3>2 DEF Connect, ReaderStep, ReadSince, SendEvent,
           ConnectionLost, Typed, TypeOK
      <4>2. AllKept(q) /\ closed[Follows[q]] /\ received' = received
        BY <2>2, <4>1, ReadOK DEF ReadSince
      <4>3. AllKept(q)'
        BY <2>1, <4>2 DEF AllKept
      <4> QED BY <1>1, <1>4, <2>1, <4>2, <4>3 DEF DoneOK
    <3> QED BY <3>1, <3>2
  <2> QED BY <1>4, <2>1, <2>2 DEF DoneOK
<1>6. ASSUME Restart PROVE ClosedLast'
  <2>1. /\ \A t \in Tasks : phase'[t] =
             IF phase[t] \in {"off", "waiting"} THEN "off" ELSE "finished"
        /\ \A j \in Jobs : ~ closed'[j]
        /\ \A r \in Readers : conn'[r] = "done" => conn[r] = "done"
        /\ UNCHANGED <<received, published, trimmed>>
    BY <1>6 DEF Restart
  <2>2. ASSUME NEW j \in Jobs
        PROVE  (EndsReached(j) => EndsReached(j)') /\ (SecondRun(j) => SecondRun(j)')
    BY <2>1 DEF EndsReached, SecondRun, TasksOf
  <2>3. ASSUME NEW r \in Readers PROVE AllKept(r)' <=> AllKept(r)
    BY <2>1 DEF AllKept
  <2> QED BY <1>1, <2>1, <2>2, <2>3 DEF DoneOK
<1>7. ASSUME UNCHANGED vars PROVE ClosedLast'
  <2>1. ASSUME NEW r \in Readers PROVE AllKept(r)' <=> AllKept(r)
    BY <1>7 DEF vars, AllKept
  <2> QED BY <1>1, <1>4, <1>7, <2>1 DEF vars, buffer, DoneOK
<1> QED BY <1>2, <1>3, <1>5, <1>6, <1>7 DEF Next, RunStep

(* The strengthening is an invariant.                                      *)
THEOREM ClosedLastInvariant == Spec => []ClosedLast
<1>1. Init => ClosedLast
  BY DEF Init, ClosedLast, DoneOK
<1>2. EventsInv /\ ClosedLast /\ [Next]_vars => ClosedLast'
  BY ClosedLastStep
<1> QED BY <1>1, <1>2, EventsInvariant, PTL DEF Spec

(* event_source says "done" only to a reader that has been sent everything *)
(* the buffer keeps, and nothing is published behind the close until a     *)
(* second run of the job gets past the queue.                              *)
THEOREM DoneReadersHaveEverything == Spec => DoneMeansEverything
<1> DEFINE Truthful ==
      \A r \in Readers :
        conn'[r] = "done" =>
          AllKept(r)' \/ (conn[r] = "done" /\ SecondRun(Follows[r])')
<1>1. ASSUME EventsInv, ClosedLast', [Next]_vars PROVE [Truthful]_vars
  <2> SUFFICES ASSUME vars' # vars, NEW r \in Readers, conn'[r] = "done"
               PROVE  AllKept(r)' \/ (conn[r] = "done" /\ SecondRun(Follows[r])')
    OBVIOUS
  <2>1. CASE conn[r] # "done"
    BY <1>1, <2>1, DoneStep
  <2>2. CASE conn[r] = "done"
    BY <1>1, <2>2 DEF ClosedLast, DoneOK
  <2> QED BY <2>1, <2>2
<1>2. EventsInv /\ ClosedLast' /\ [Next]_vars => [Truthful]_vars
  BY <1>1
<1> QED BY <1>2, EventsInvariant, ClosedLastInvariant, PTL DEF Spec, DoneMeansEverything

(* With a capacity wait shorter than the lease, a job has one task at most.*)
Alone ==
  \A t, u \in Tasks :
    t # u /\ JobOf[t] = JobOf[u] => phase[t] = "off" \/ phase[u] = "off"

LEMMA AloneStep ==
  ASSUME EventsInv, Alone, [Next]_vars, ~ WaitOutlastsLease
  PROVE  Alone'
<1>1. Typed
  BY DEF EventsInv
<1>2. ASSUME NEW t \in Tasks, RunStep(t) PROVE Alone'
  BY <1>1, <1>2, RunFacts DEF Alone, IsQueued, TasksOf
<1>3. ASSUME UNCHANGED phase PROVE Alone'
  BY <1>3 DEF Alone
<1>4. ASSUME NEW t \in Tasks, Publish(t) PROVE Alone'
  BY <1>3, <1>4 DEF Publish
<1>5. ASSUME NEW r \in Readers, Connect(r) \/ ReaderStep(r) \/ ConnectionLost(r)
      PROVE  Alone'
  BY <1>3, <1>5 DEF Connect, ReaderStep, ReadSince, SendEvent, ConnectionLost
<1>6. ASSUME Restart PROVE Alone'
  <2>1. \A t \in Tasks : phase'[t] =
          IF phase[t] \in {"off", "waiting"} THEN "off" ELSE "finished"
    BY <1>6 DEF Restart
  <2> QED BY <2>1 DEF Alone
<1>7. ASSUME UNCHANGED vars PROVE Alone'
  BY <1>3, <1>7 DEF vars
<1> QED BY <1>2, <1>4, <1>5, <1>6, <1>7 DEF Next, RunStep

(* When a waiting task cannot outlive its claim, a reader that was told    *)
(* "done" has missed nothing, then or later, without exception.            *)
THEOREM ShortWaitDoneIsFinal ==
  ~ WaitOutlastsLease =>
    (Spec => [](\A r \in Readers : conn[r] = "done" => AllKept(r)))
<1> SUFFICES ASSUME ~ WaitOutlastsLease
             PROVE  Spec => [](\A r \in Readers : conn[r] = "done" => AllKept(r))
  OBVIOUS
<1>1. Init => Alone
  BY DEF Init, Alone
<1>2. EventsInv /\ Alone /\ [Next]_vars => Alone'
  BY AloneStep
<1>3. Alone /\ ClosedLast =>
        \A r \in Readers : conn[r] = "done" => AllKept(r)
  BY DEF Alone, ClosedLast, DoneOK, SecondRun, TasksOf
<1> QED BY <1>1, <1>2, <1>3, EventsInvariant, ClosedLastInvariant, PTL DEF Spec
=============================================================================
