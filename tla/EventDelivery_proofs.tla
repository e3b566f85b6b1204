----------------------- MODULE EventDelivery_proofs -----------------------
(***************************************************************************)
(* What is proved of the delivery of events, for any number of owners,     *)
(* events and sends, whatever the network loses, delays and reorders.      *)
(***************************************************************************)
EXTENDS EventDelivery, SequenceTheorems, TLAPS

----------------------------------------------------------------------------
(* Numbers                                                                 *)

\* The smaller and the larger of two numbers.
LEMMA MinMax ==
    ASSUME NEW a \in Nat, NEW b \in Nat
    PROVE  /\ Min({a, b}) = IF a <= b THEN a ELSE b
           /\ Max({a, b}) = IF a >= b THEN a ELSE b
  <1>1. \E x \in {a, b} : \A y \in {a, b} : x <= y
    OBVIOUS
  <1>2. Min({a, b}) \in {a, b} /\ \A y \in {a, b} : Min({a, b}) <= y
    BY <1>1 DEF Min
  <1>3. \E x \in {a, b} : \A y \in {a, b} : x >= y
    OBVIOUS
  <1>4. Max({a, b}) \in {a, b} /\ \A y \in {a, b} : Max({a, b}) >= y
    BY <1>3 DEF Max
  <1> QED BY <1>2, <1>4

----------------------------------------------------------------------------
(* The inductive invariant                                                 *)

\* The first k events of a lease are stored, as that lease produced them.
Stored(l, k) == \A n \in 1 .. k : n <= Durable /\ events[n] = Event(l, n)

\* A batch is of events that the spool has had, and what comes before it is stored.
Sound(l, b) == b.first <= b.last /\ b.last <= spooled[l] /\ Stored(l, b.first - 1)

\* Every event is stored under its own number.
Numbered == \A n \in 1 .. Durable : events[n] = Event(events[n].lease, n)

AgentInv(l) ==
    /\ Stored(l, acked[l])
    /\ finished[l] => Stored(l, spooled[l])
    /\ call[l] # None => Sound(l, call[l])

\* A message on the network is good, however late it arrives.
RequestsInv == \A r \in requests : Sound(r.lease, r)
PreparedInv == \A p \in prepared : Sound(p.lease, p)
AnswersInv ==
    \A a \in answers :
        a.result = "Accepted" => Stored(a.lease, a.through) /\ a.through <= spooled[a.lease]

\* A mutation record vouches for its whole range.
RecordsInv ==
    \A rec \in records : Stored(rec.lease, rec.last) /\ rec.last <= rec.acknowledged

CompletionInv ==
    completion # None =>
        /\ owner = None /\ Durable = completion.final
        /\ \A n \in 1 .. Durable : events[n] = Event(completion.lease, n)

DeliveryInv ==
    /\ TypeOK /\ Numbered /\ \A l \in Leases : AgentInv(l)
    /\ RequestsInv /\ PreparedInv /\ AnswersInv /\ RecordsInv /\ CompletionInv

----------------------------------------------------------------------------
(* What only grows                                                         *)

Grows ==
    /\ Durable' \in Nat /\ Durable <= Durable' /\ \A n \in 1 .. Durable : events'[n] = events[n]
    /\ \A l \in Leases : spooled'[l] \in Nat /\ spooled[l] <= spooled'[l]

\* What the assumption says of the bounds.
LEMMA Constants ==
    /\ MaxLeases \in Nat /\ MaxEvents \in Nat /\ MaxSends \in Nat /\ BatchRecords \in Nat \ {0}
    /\ Output \subseteq 1 .. MaxEvents /\ None \notin Leases
  BY DeliveryAssumption DEF Leases

\* Cursors are natural numbers, and every stored event names a lease.
LEMMA Basics ==
    ASSUME TypeOK
    PROVE  /\ Durable \in Nat /\ Durable <= MaxEvents
           /\ \A l \in Leases : spooled[l] \in Nat /\ acked[l] \in Nat
           /\ \A n \in 1 .. Durable : events[n].lease \in Leases
  <1> DEFINE E == [lease : Leases, number : 1 .. MaxEvents]
  <1>1. events \in Seq(E)
    BY DEF TypeOK
  <1> HIDE DEF E
  <1>2. Durable \in Nat /\ \A n \in 1 .. Durable : events[n] \in E
    BY <1>1 DEF Durable
  <1>3. \A n \in 1 .. Durable : events[n].lease \in Leases
    BY <1>2 DEF E
  <1> QED BY <1>2, <1>3, Constants DEF TypeOK, Numbers

\* What is stored stays stored.
LEMMA StoredStays ==
    ASSUME TypeOK, Grows, NEW l, NEW k, Stored(l, k)
    PROVE  Stored(l, k)'
  <1>1. Durable \in Nat
    BY Basics
  <1>2. SUFFICES ASSUME NEW n \in 1 .. k
                 PROVE  n <= Durable' /\ events'[n] = Event(l, n)
    BY DEF Stored, Event
  <1>3. n \in Int /\ n >= 1 /\ n <= Durable /\ events[n] = Event(l, n)
    BY DEF Stored
  <1> QED BY <1>1, <1>3 DEF Grows

\* A sound batch stays sound.
LEMMA SoundStays ==
    ASSUME TypeOK, Grows, NEW l \in Leases, NEW b, b.last \in Nat, Sound(l, b)
    PROVE  Sound(l, b)'
  <1>1. Stored(l, b.first - 1)'
    BY StoredStays DEF Sound
  <1>2. spooled[l] \in Nat /\ spooled'[l] \in Nat /\ b.last <= spooled[l] /\ spooled[l] <= spooled'[l]
    BY Basics DEF Sound, Grows
  <1> QED BY <1>1, <1>2 DEF Sound

\* What was good stays good.
LEMMA OldStaysGood ==
    ASSUME DeliveryInv, Grows
    PROVE  /\ \A r \in requests : Sound(r.lease, r)'
           /\ \A p \in prepared : Sound(p.lease, p)'
           /\ \A a \in answers : a.result = "Accepted" =>
                 Stored(a.lease, a.through)' /\ a.through <= spooled'[a.lease]
           /\ \A rec \in records : Stored(rec.lease, rec.last)' /\ rec.last <= rec.acknowledged
           /\ \A l \in Leases :
                 /\ acked' = acked => Stored(l, acked[l])'
                 /\ finished[l] /\ spooled' = spooled => Stored(l, spooled[l])'
                 /\ call' = call /\ call[l] # None => Sound(l, call[l])'
  <1>0. TypeOK
    BY DEF DeliveryInv
  <1>1. ASSUME NEW r \in requests
        PROVE  Sound(r.lease, r)'
    <2>1. r.lease \in Leases /\ r.last \in Nat
      BY <1>0, Constants DEF TypeOK, Requests
    <2> QED BY <1>0, <2>1, SoundStays DEF DeliveryInv, RequestsInv
  <1>2. ASSUME NEW p \in prepared
        PROVE  Sound(p.lease, p)'
    <2>1. p.lease \in Leases /\ p.last \in Nat
      BY <1>0, Constants DEF TypeOK, Preparations
    <2> QED BY <1>0, <2>1, SoundStays DEF DeliveryInv, PreparedInv
  <1>3. ASSUME NEW a \in answers, a.result = "Accepted"
        PROVE  Stored(a.lease, a.through)' /\ a.through <= spooled'[a.lease]
    <2>1. a.lease \in Leases /\ a.through \in Nat
      BY <1>0, Constants DEF TypeOK, Answers, Numbers
    <2>2. Stored(a.lease, a.through) /\ a.through <= spooled[a.lease]
      BY <1>3 DEF DeliveryInv, AnswersInv
    <2>3. spooled[a.lease] \in Nat /\ spooled'[a.lease] \in Nat /\ spooled[a.lease] <= spooled'[a.lease]
      BY <1>0, <2>1, Basics DEF Grows
    <2> QED BY <1>0, <2>1, <2>2, <2>3, StoredStays
  <1>4. ASSUME NEW rec \in records
        PROVE  Stored(rec.lease, rec.last)' /\ rec.last <= rec.acknowledged
    BY <1>0, StoredStays DEF DeliveryInv, RecordsInv
  <1>5. ASSUME NEW l \in Leases
        PROVE  /\ acked' = acked => Stored(l, acked[l])'
               /\ finished[l] /\ spooled' = spooled => Stored(l, spooled[l])'
               /\ call' = call /\ call[l] # None => Sound(l, call[l])'
    <2>0. PICK k, m, b : k = acked[l] /\ m = spooled[l] /\ b = call[l]
      OBVIOUS
    <2>1. Stored(l, k) /\ (finished[l] => Stored(l, m)) /\ (b # None => Sound(l, b))
      BY <2>0 DEF DeliveryInv, AgentInv
    <2>2. b # None => b.last \in Nat
      BY <1>0, <2>0, Constants DEF TypeOK, Batches
    <2>3. Stored(l, k)' /\ (finished[l] => Stored(l, m)') /\ (b # None => Sound(l, b)')
      BY <1>0, <2>1, <2>2, StoredStays, SoundStays
    <2> QED BY <2>0, <2>3
  <1> QED BY <1>1, <1>2, <1>3, <1>4, <1>5

----------------------------------------------------------------------------
(* The steps of the Agents                                                 *)

\* A step that writes no event and spools none is trivially a growing one.
LEMMA EventsStay ==
    ASSUME TypeOK, UNCHANGED <<spooled, events>>
    PROVE  Grows
  BY Basics DEF Grows, Durable

\* Claims and requeues leave the stream alone.
LEMMA OwnershipKeeps ==
    ASSUME DeliveryInv, Claim \/ Requeue
    PROVE  DeliveryInv'
  <1>0. TypeOK
    BY DEF DeliveryInv
  <1>1. UNCHANGED <<spooled, acked, call, sends, finished, networkVars, events, records, completion>>
    BY DEF Claim, Requeue, agentVars
  <1>2. Grows
    BY <1>0, <1>1, EventsStay
  <1>3. TypeOK'
    <2>1. CASE Claim
      <3>1. issued' \in 0 .. MaxLeases /\ owner' \in Leases /\ issued' \in Leases
        BY <1>0, <2>1, Constants DEF Claim, TypeOK, Leases
      <3>2. delivery' \in [Leases -> {"off", "on"} \cup Rejections]
        BY <1>0, <2>1 DEF Claim, TypeOK
      <3> QED BY <1>0, <1>1, <3>1, <3>2 DEF TypeOK, networkVars, Durable
    <2>2. CASE Requeue
      BY <1>0, <1>1, <2>2 DEF Requeue, TypeOK, agentVars, networkVars, Durable
    <2> QED BY <2>1, <2>2
  <1>4. Numbered'
    BY <1>1 DEF DeliveryInv, Numbered, Durable
  <1>5. \A l \in Leases : AgentInv(l)'
    BY <1>1, <1>2, OldStaysGood DEF AgentInv
  <1>6. RequestsInv' /\ PreparedInv' /\ AnswersInv' /\ RecordsInv'
    BY <1>1, <1>2, OldStaysGood DEF RequestsInv, PreparedInv, AnswersInv, RecordsInv, networkVars
  <1>7. CompletionInv'
    BY <1>1 DEF DeliveryInv, CompletionInv, Durable, Claim, Requeue
  <1> QED BY <1>3, <1>4, <1>5, <1>6, <1>7 DEF DeliveryInv

\* A new event goes to the end of the spool, which no message refers to yet.
LEMMA SpoolKeeps ==
    ASSUME DeliveryInv, NEW l \in Leases, SpoolEvent(l)
    PROVE  DeliveryInv'
  <1>0. TypeOK
    BY DEF DeliveryInv
  <1>1. UNCHANGED <<acked, call, sends, delivery, finished, networkVars, serverVars>>
    BY DEF SpoolEvent
  <1>2. /\ spooled' \in [Leases -> Numbers] /\ ~ finished[l]
        /\ \A k \in Leases : spooled[k] <= spooled'[k] /\ (k # l => spooled'[k] = spooled[k])
    BY <1>0, Constants, Basics DEF SpoolEvent, TypeOK, Numbers
  <1>3. Grows
    <2>1. \A k \in Leases : spooled'[k] \in Nat
      BY <1>2, Constants DEF Numbers
    <2> QED BY <1>0, <1>1, <1>2, <2>1, Basics DEF Grows, Durable, serverVars
  <1>4. \A k \in Leases : acked[k] <= spooled'[k]
    BY <1>0, <1>2, <1>3, Basics DEF TypeOK, Grows
  <1>5. TypeOK'
    BY <1>0, <1>1, <1>2, <1>4 DEF TypeOK, networkVars, serverVars, Durable
  <1>6. \A k \in Leases : AgentInv(k)'
    <2> TAKE k \in Leases
    <2>1. Stored(k, acked[k])' /\ (call[k] # None => Sound(k, call[k])')
      BY <1>1, <1>3, OldStaysGood
    <2>2. finished'[k] => Stored(k, spooled[k])'
      <3>1. CASE k = l
        BY <1>1, <1>2, <3>1
      <3>2. CASE k # l
        <4>1. PICK m : m = spooled[k]
          OBVIOUS
        <4>2. spooled'[k] = m /\ (finished[k] => Stored(k, m))
          BY <1>2, <3>2, <4>1 DEF DeliveryInv, AgentInv
        <4>3. finished[k] => Stored(k, m)'
          BY <1>0, <1>3, <4>2, StoredStays
        <4> QED BY <1>1, <4>2, <4>3
      <3> QED BY <3>1, <3>2
    <2> QED BY <1>1, <2>1, <2>2 DEF AgentInv
  <1>7. RequestsInv' /\ PreparedInv' /\ AnswersInv' /\ RecordsInv'
    BY <1>1, <1>3, OldStaysGood
       DEF RequestsInv, PreparedInv, AnswersInv, RecordsInv, networkVars, serverVars
  <1>8. Numbered' /\ CompletionInv'
    BY <1>1 DEF DeliveryInv, Numbered, CompletionInv, Durable, serverVars
  <1> QED BY <1>5, <1>6, <1>7, <1>8 DEF DeliveryInv

\* A sound batch is sent, for the first time or again.
LEMMA SendKeeps ==
    ASSUME DeliveryInv, NEW l \in Leases, NEW b \in Batches, Sound(l, b), Send(l, b),
           UNCHANGED <<spooled, acked, delivery, finished, prepared, answers, serverVars>>
    PROVE  DeliveryInv'
  <1>0. TypeOK /\ Grows
    BY EventsStay DEF DeliveryInv, serverVars
  <1>1. sends' \in [Leases -> 0 .. MaxSends] /\ sends'[l] \in 1 .. MaxSends
    BY <1>0, Constants DEF Send, TypeOK
  <1>2. call' \in [Leases -> Batches \cup {None}] /\ call'[l] = b
        /\ \A k \in Leases : k # l => call'[k] = call[k]
    BY <1>0 DEF Send, TypeOK
  <1>3. PICK q : /\ q = [lease |-> l, send |-> sends'[l], first |-> b.first, last |-> b.last]
                 /\ requests' = requests \cup {q}
    BY DEF Send
  <1>4. q \in Requests /\ q.lease = l /\ q.first = b.first /\ q.last = b.last
    BY <1>1, <1>3 DEF Requests, Batches
  <1>5. TypeOK'
    BY <1>0, <1>1, <1>2, <1>3, <1>4 DEF TypeOK, serverVars, Durable
  <1>6. b.last \in Nat /\ Sound(l, b)'
    BY <1>0, Constants, SoundStays DEF Batches
  <1>7. Sound(q.lease, q)'
    BY <1>4, <1>6 DEF Sound
  <1>8. RequestsInv' /\ PreparedInv' /\ AnswersInv' /\ RecordsInv'
    BY <1>0, <1>3, <1>7, OldStaysGood DEF RequestsInv, PreparedInv, AnswersInv, RecordsInv, serverVars
  <1>9. \A k \in Leases : AgentInv(k)'
    <2> TAKE k \in Leases
    <2>1. Stored(k, acked[k])' /\ (finished'[k] => Stored(k, spooled[k])')
      BY <1>0, OldStaysGood
    <2>2. call'[k] # None => Sound(k, call[k])'
      <3>1. CASE k = l
        BY <1>2, <1>6, <3>1
      <3>2. CASE k # l
        <4>1. PICK c : c = call[k]
          OBVIOUS
        <4>2. call'[k] = c /\ (c # None => Sound(k, c) /\ c.last \in Nat)
          BY <1>0, <1>2, <3>2, <4>1, Constants DEF DeliveryInv, AgentInv, TypeOK, Batches
        <4> QED BY <1>0, <4>2, SoundStays
      <3> QED BY <3>1, <3>2
    <2> QED BY <2>1, <2>2 DEF AgentInv
  <1>10. Numbered' /\ CompletionInv'
    BY DEF DeliveryInv, Numbered, CompletionInv, Durable, serverVars
  <1> QED BY <1>5, <1>8, <1>9, <1>10 DEF DeliveryInv

\* The oldest records that are not acknowledged make a sound batch.
LEMMA PendingIsSound ==
    ASSUME DeliveryInv, NEW l \in Leases, acked[l] < spooled[l]
    PROVE  PendingBatch(l) \in Batches /\ Sound(l, PendingBatch(l))
  <1>0. TypeOK /\ Stored(l, acked[l])
    BY DEF DeliveryInv, AgentInv
  <1>1. acked[l] \in Nat /\ spooled[l] \in Nat /\ spooled[l] <= MaxEvents /\ MaxEvents \in Nat
    BY <1>0, Constants DEF TypeOK, Numbers
  <1>2. PICK m : m = Min({acked[l] + BatchRecords, spooled[l]})
    OBVIOUS
  <1>3. m = IF acked[l] + BatchRecords <= spooled[l] THEN acked[l] + BatchRecords ELSE spooled[l]
    BY <1>1, <1>2, MinMax, Constants
  <1>4. m \in 1 .. MaxEvents /\ acked[l] + 1 \in 1 .. MaxEvents /\ acked[l] + 1 <= m /\ m <= spooled[l]
    BY <1>1, <1>3, Constants
  <1>5. PendingBatch(l).first = acked[l] + 1 /\ PendingBatch(l).last = m
        /\ PendingBatch(l) \in Batches
    BY <1>2, <1>4 DEF PendingBatch, Batches
  <1>6. PendingBatch(l).first - 1 = acked[l]
    BY <1>1, <1>5
  <1> QED BY <1>0, <1>4, <1>5, <1>6 DEF Sound

\* A first send takes the pending batch, a later one the batch of the call.
LEMMA SendBatchKeeps ==
    ASSUME DeliveryInv, NEW l \in Leases, SendBatch(l) \/ SendAgain(l)
    PROVE  DeliveryInv'
  <1>1. CASE SendBatch(l)
    <2>1. PICK b : b = PendingBatch(l)
      OBVIOUS
    <2>2. b \in Batches /\ Sound(l, b) /\ Send(l, b)
      BY <1>1, <2>1, PendingIsSound DEF SendBatch
    <2> QED BY <1>1, <2>2, SendKeeps DEF SendBatch
  <1>2. CASE SendAgain(l)
    <2>1. PICK b : b = call[l]
      OBVIOUS
    <2>2. b \in Batches /\ Sound(l, b) /\ Send(l, b)
      BY <1>2, <2>1 DEF SendAgain, DeliveryInv, TypeOK, AgentInv
    <2> QED BY <1>2, <2>2, SendKeeps DEF SendAgain
  <1> QED BY <1>1, <1>2

\* The task stops waiting: it gives up, or it reads an answer. What an accepting
\* answer acknowledges is stored.
LEMMA CallEndsKeeps ==
    ASSUME DeliveryInv, NEW l \in Leases, GiveUp(l) \/ Receive(l)
    PROVE  DeliveryInv'
  <1>0. UNCHANGED <<spooled, sends, finished, networkVars, serverVars>>
        /\ call' = [call EXCEPT ![l] = None]
    BY DEF GiveUp, Receive
  <1>1. TypeOK /\ Grows
    BY <1>0, EventsStay DEF DeliveryInv, serverVars
  <1>2. /\ call' \in [Leases -> Batches \cup {None}] /\ call'[l] = None
        /\ \A k \in Leases : k # l => call'[k] = call[k]
    BY <1>0, <1>1 DEF TypeOK
  <1>3. /\ acked' \in [Leases -> Numbers] /\ \A k \in Leases : acked'[k] <= spooled[k]
        /\ delivery' \in [Leases -> {"off", "on"} \cup Rejections]
        /\ \A k \in Leases : Stored(k, acked[k])'
    <2>1. ASSUME UNCHANGED acked
          PROVE  /\ acked' \in [Leases -> Numbers] /\ \A k \in Leases : acked'[k] <= spooled[k]
                 /\ \A k \in Leases : Stored(k, acked[k])'
      BY <1>1, <2>1, OldStaysGood DEF TypeOK
    <2>2. CASE GiveUp(l)
      BY <1>1, <2>1, <2>2 DEF GiveUp, TypeOK
    <2>3. CASE Receive(l)
      <3>1. PICK a \in answers :
               /\ a.lease = l /\ a.send = sends[l]
               /\ IF a.result = "Accepted"
                  THEN acked' = [acked EXCEPT ![l] = a.through] /\ UNCHANGED delivery
                  ELSE delivery' = [delivery EXCEPT ![l] = a.result] /\ UNCHANGED acked
        BY <2>3 DEF Receive
      <3>2. a.through \in Numbers /\ a.result \in {"Accepted"} \cup Rejections
        BY <1>1 DEF TypeOK, Answers
      <3>3. CASE a.result = "Accepted"
        <4>1. Stored(l, a.through) /\ a.through <= spooled[l]
          BY <3>1, <3>3 DEF DeliveryInv, AnswersInv
        <4>2. Stored(l, a.through)'
          BY <1>1, <4>1, StoredStays
        <4>3. /\ acked' \in [Leases -> Numbers] /\ acked'[l] = a.through
              /\ \A k \in Leases : k # l => acked'[k] = acked[k]
          BY <1>1, <3>1, <3>2, <3>3 DEF TypeOK
        <4>4. ASSUME NEW k \in Leases
              PROVE  Stored(k, acked[k])' /\ acked'[k] <= spooled[k]
          <5>1. CASE k = l
            BY <4>1, <4>2, <4>3, <5>1
          <5>2. CASE k # l
            <6>1. PICK m : m = acked[k]
              OBVIOUS
            <6>2. acked'[k] = m /\ Stored(k, m) /\ m <= spooled[k]
              BY <1>1, <4>3, <5>2, <6>1 DEF DeliveryInv, AgentInv, TypeOK
            <6> QED BY <1>1, <6>2, StoredStays
          <5> QED BY <5>1, <5>2
        <4> QED BY <1>1, <3>1, <3>3, <4>3, <4>4 DEF TypeOK
      <3>4. CASE a.result # "Accepted"
        <4>1. delivery' \in [Leases -> {"off", "on"} \cup Rejections]
          BY <1>1, <3>1, <3>2, <3>4 DEF TypeOK
        <4> QED BY <2>1, <3>1, <3>4, <4>1
      <3> QED BY <3>3, <3>4
    <2> QED BY <2>2, <2>3
  <1>4. TypeOK'
    BY <1>0, <1>1, <1>2, <1>3 DEF TypeOK, networkVars, serverVars, Durable
  <1>5. \A k \in Leases : AgentInv(k)'
    <2> TAKE k \in Leases
    <2>1. finished'[k] => Stored(k, spooled[k])'
      BY <1>0, <1>1, OldStaysGood
    <2>2. call'[k] # None => Sound(k, call[k])'
      <3>1. PICK c : c = call[k]
        OBVIOUS
      <3>2. call'[k] # None => call'[k] = c /\ Sound(k, c) /\ c.last \in Nat
        BY <1>1, <1>2, <3>1, Constants DEF DeliveryInv, AgentInv, TypeOK, Batches
      <3> QED BY <1>1, <3>2, SoundStays
    <2> QED BY <1>3, <2>1, <2>2 DEF AgentInv
  <1>6. RequestsInv' /\ PreparedInv' /\ AnswersInv' /\ RecordsInv'
    BY <1>0, <1>1, OldStaysGood
       DEF RequestsInv, PreparedInv, AnswersInv, RecordsInv, networkVars, serverVars
  <1>7. Numbered' /\ CompletionInv'
    BY <1>0 DEF DeliveryInv, Numbered, CompletionInv, Durable, serverVars
  <1> QED BY <1>4, <1>5, <1>6, <1>7 DEF DeliveryInv

\* The attempt finishes with the whole spool acknowledged, so stored.
LEMMA FinishKeeps ==
    ASSUME DeliveryInv, NEW l \in Leases, FinishAttempt(l)
    PROVE  DeliveryInv'
  <1>0. UNCHANGED <<spooled, acked, call, sends, delivery, networkVars, serverVars>>
    BY DEF FinishAttempt
  <1>1. TypeOK /\ Grows
    BY <1>0, EventsStay DEF DeliveryInv, serverVars
  <1>2. finished' \in [Leases -> BOOLEAN] /\ \A k \in Leases : k # l => finished'[k] = finished[k]
    BY <1>1 DEF FinishAttempt, TypeOK
  <1>3. TypeOK'
    BY <1>0, <1>1, <1>2 DEF TypeOK, networkVars, serverVars, Durable
  <1>4. \A k \in Leases : AgentInv(k)'
    <2> TAKE k \in Leases
    <2>1. Stored(k, acked[k])' /\ (call'[k] # None => Sound(k, call[k])')
      BY <1>0, <1>1, OldStaysGood
    <2>2. finished'[k] => Stored(k, spooled[k])'
      <3>1. CASE k = l
        BY <1>0, <2>1, <3>1 DEF FinishAttempt
      <3>2. CASE k # l
        BY <1>0, <1>1, <1>2, <3>2, OldStaysGood
      <3> QED BY <3>1, <3>2
    <2> QED BY <2>1, <2>2 DEF AgentInv
  <1>5. RequestsInv' /\ PreparedInv' /\ AnswersInv' /\ RecordsInv'
    BY <1>0, <1>1, OldStaysGood
       DEF RequestsInv, PreparedInv, AnswersInv, RecordsInv, networkVars, serverVars
  <1>6. Numbered' /\ CompletionInv'
    BY <1>0 DEF DeliveryInv, Numbered, CompletionInv, Durable, serverVars
  <1> QED BY <1>3, <1>4, <1>5, <1>6 DEF DeliveryInv

----------------------------------------------------------------------------
(* The steps of the server                                                 *)

\* An answer is sent: an acceptance only for what is stored.
LEMMA AnswerKeeps ==
    ASSUME DeliveryInv, Grows, UNCHANGED spooled, NEW a \in Answers, answers' = answers \cup {a},
           a.result = "Accepted" => Stored(a.lease, a.through)' /\ a.through <= spooled[a.lease]
    PROVE  answers' \subseteq Answers /\ AnswersInv'
  BY OldStaysGood DEF DeliveryInv, TypeOK, AnswersInv

\* The agents see nothing of what the server does.
LEMMA AgentsStay ==
    ASSUME DeliveryInv, Grows, UNCHANGED agentVars
    PROVE  \A l \in Leases : AgentInv(l)'
  BY OldStaysGood DEF AgentInv, agentVars

\* A preparation asks for the same events as its request.
LEMMA PrepareKeeps ==
    ASSUME DeliveryInv, PrepareAppend
    PROVE  DeliveryInv'
  <1>0. UNCHANGED <<agentVars, serverVars>>
    BY DEF PrepareAppend
  <1>1. TypeOK /\ Grows
    BY <1>0, EventsStay DEF DeliveryInv, agentVars, serverVars
  <1>2. PICK r \in requests : Prepare(r) /\ requests' = requests \ {r}
    BY DEF PrepareAppend
  <1>3. r \in Requests /\ Sound(r.lease, r)'
    BY <1>1, OldStaysGood DEF TypeOK
  <1>4. /\ prepared' \subseteq Preparations /\ PreparedInv'
        /\ answers' \subseteq Answers /\ AnswersInv'
    <2>1. CASE Batch(r.first, r.last) \cap Output = {} \/ r.lease = owner
      <3>1. PICK d : d = Chunks(r.first, r.last,
                                IF Batch(r.first, r.last) \cap Output = {} THEN 0 ELSE Durable)
        OBVIOUS
      <3>2. d \in SUBSET Output
        BY <3>1 DEF Chunks
      <3>3. PICK p : /\ p = [lease |-> r.lease, send |-> r.send, first |-> r.first,
                             last |-> r.last, chunks |-> d]
                     /\ prepared' = prepared \cup {p}
        BY <1>2, <2>1, <3>1 DEF Prepare
      <3>4. p \in Preparations /\ p.lease = r.lease /\ p.first = r.first /\ p.last = r.last
        BY <1>3, <3>2, <3>3 DEF Requests, Preparations
      <3>5. Sound(p.lease, p)'
        BY <1>3, <3>4 DEF Sound
      <3>6. UNCHANGED answers
        BY <1>2, <2>1 DEF Prepare
      <3>7. AnswersInv'
        BY <1>0, <1>1, <3>6, OldStaysGood DEF AnswersInv, agentVars
      <3> QED BY <1>1, <3>3, <3>4, <3>5, <3>6, <3>7, OldStaysGood DEF TypeOK, PreparedInv
    <2>2. CASE ~ (Batch(r.first, r.last) \cap Output = {} \/ r.lease = owner)
      <3>1. UNCHANGED prepared /\ Answer(r, "LeaseLost", 0)
        BY <1>2, <2>2 DEF Prepare
      <3>2. PICK a : /\ a = [lease |-> r.lease, send |-> r.send, result |-> "LeaseLost", through |-> 0]
                     /\ answers' = answers \cup {a}
        BY <3>1 DEF Answer
      <3>3. a \in Answers /\ a.result # "Accepted"
        BY <1>3, <3>2, Constants DEF Requests, Answers, Rejections, Numbers
      <3>4. answers' \subseteq Answers /\ AnswersInv'
        BY <1>0, <1>1, <3>2, <3>3, AnswerKeeps DEF agentVars
      <3> QED BY <1>1, <3>1, <3>4, OldStaysGood DEF TypeOK, PreparedInv
    <2> QED BY <2>1, <2>2
  <1>5. TypeOK'
    BY <1>0, <1>1, <1>2, <1>4 DEF TypeOK, agentVars, serverVars, Durable
  <1>6. RequestsInv' /\ RecordsInv'
    BY <1>0, <1>1, <1>2, OldStaysGood DEF RequestsInv, RecordsInv, serverVars
  <1>7. Numbered' /\ CompletionInv'
    BY <1>0 DEF DeliveryInv, Numbered, CompletionInv, Durable, serverVars
  <1> QED BY <1>0, <1>1, <1>4, <1>5, <1>6, <1>7, AgentsStay DEF DeliveryInv

\* A table of n rows is a sequence of length n.
LEMMA FunctionIsSequence ==
    ASSUME NEW S, NEW n \in Nat, NEW f \in [1 .. n -> S]
    PROVE  f \in Seq(S) /\ Len(f) = n
  OBVIOUS

\* What an accepted append stores: the events that were there, and those of the batch,
\* without a gap. The part of the batch that was there already is the lease's own, and
\* so is what comes before the batch.
LEMMA AcceptedAppend ==
    ASSUME DeliveryInv, NEW p \in prepared, ReplayedPrefix(p), p.first <= Durable + 1,
           NEW through, through = Max({Durable, p.last}), UNCHANGED spooled,
           events' = [n \in 1 .. through |-> IF n <= Durable THEN events[n] ELSE Event(p.lease, n)]
    PROVE  /\ Grows /\ through \in Numbers /\ p.last <= through /\ Durable' = through
           /\ events' \in Seq([lease : Leases, number : 1 .. MaxEvents])
           /\ Numbered' /\ Stored(p.lease, p.last)'
  <1> DEFINE E == [lease : Leases, number : 1 .. MaxEvents]
  <1>0. TypeOK /\ Sound(p.lease, p)
    BY DEF DeliveryInv, PreparedInv
  <1>1. /\ p.lease \in Leases /\ p.first \in 1 .. MaxEvents /\ p.last \in 1 .. MaxEvents
        /\ MaxEvents \in Nat
    BY <1>0, Constants DEF TypeOK, Preparations
  <1>2. Durable \in Nat /\ Durable <= MaxEvents
    BY <1>0, Basics
  <1>3. through \in Nat /\ through <= MaxEvents /\ p.last <= through /\ Durable <= through
        /\ (through = Durable \/ through = p.last)
    <2>1. p.last \in Nat /\ p.last <= MaxEvents
      BY <1>1
    <2>2. Max({Durable, p.last}) = IF Durable >= p.last THEN Durable ELSE p.last
      BY <1>2, <2>1, MinMax
    <2> QED BY <1>1, <1>2, <2>1, <2>2
  <1>4. \A n \in 1 .. Durable : events[n] \in E
    <2>1. events \in Seq(E)
      BY <1>0 DEF TypeOK
    <2> HIDE DEF E
    <2> QED BY <2>1 DEF Durable
  <1>5. ASSUME NEW n \in 1 .. through
        PROVE  /\ events'[n] \in E
               /\ n <= Durable => events'[n] = events[n]
               /\ n > Durable => events'[n] = Event(p.lease, n)
    <2>1. n <= Durable => events'[n] = events[n]
      OBVIOUS
    <2>2. n > Durable => events'[n] = Event(p.lease, n)
      BY <1>2, <1>3
    <2>3. Event(p.lease, n) \in E
      BY <1>1, <1>3 DEF Event
    <2>4. CASE n <= Durable
      BY <1>2, <1>4, <2>1, <2>4
    <2>5. CASE n > Durable
      BY <1>2, <2>2, <2>3, <2>5
    <2> QED BY <1>2, <1>3, <2>1, <2>2, <2>4, <2>5
  <1>6. events' \in Seq(E) /\ Len(events') = through
    <2> HIDE DEF E
    <2>1. PICK f : f = events'
      OBVIOUS
    <2>2. f \in [1 .. through -> E]
      BY <1>5, <2>1
    <2>3. f \in Seq(E) /\ Len(f) = through
      <3>1. through \in Nat
        BY <1>3
      <3> QED BY ONLY <2>2, <3>1, FunctionIsSequence
    <2> QED BY <2>1, <2>3
  <1>7. Durable' = through
    BY <1>6 DEF Durable
  <1>8. Grows
    <2>1. \A n \in 1 .. Durable : events'[n] = events[n]
      BY <1>2, <1>3, <1>5
    <2>2. \A l \in Leases : spooled'[l] = spooled[l] /\ spooled[l] \in Nat
      BY ONLY <1>0, UNCHANGED spooled, Basics
    <2>3. \A l \in Leases : spooled'[l] \in Nat /\ spooled[l] <= spooled'[l]
      BY ONLY <2>2
    <2>4. Durable' \in Nat /\ Durable <= Durable'
      BY ONLY <1>2, <1>3, <1>7
    <2> QED BY ONLY <2>1, <2>3, <2>4 DEF Grows
  <1>9. Numbered'
    <2>1. SUFFICES ASSUME NEW n \in 1 .. through
                   PROVE  events'[n] = Event(events'[n].lease, n)
      BY <1>7 DEF Numbered, Event
    <2>2. CASE n <= Durable
      BY <1>2, <1>3, <1>5, <2>2 DEF DeliveryInv, Numbered
    <2>3. CASE n > Durable
      <3>1. events'[n] = Event(p.lease, n)
        BY <1>5, <2>3
      <3> QED BY <3>1 DEF Event
    <2> QED BY <1>2, <1>3, <2>2, <2>3
  <1>10. Stored(p.lease, p.last)'
    <2>1. SUFFICES ASSUME NEW n \in 1 .. p.last
                   PROVE  n <= through /\ events'[n] = Event(p.lease, n)
      BY <1>7 DEF Stored, Event
    <2>2. n \in 1 .. through /\ n \in Nat
      BY <1>1, <1>3
    <2>3. CASE n > Durable
      <3>1. n <= through
        BY <1>3, <2>2
      <3> QED BY <1>5, <2>2, <2>3, <3>1
    <2>4. CASE n <= Durable /\ n < p.first
      <3>1. events[n] = Event(p.lease, n)
        BY <1>0, <1>1, <2>2, <2>4 DEF Sound, Stored
      <3> QED BY <1>3, <1>5, <2>2, <2>4, <3>1
    <2>5. CASE n <= Durable /\ n >= p.first
      <3>1. events[n] = Event(p.lease, n)
        BY <1>1, <2>2, <2>5 DEF ReplayedPrefix, Batch
      <3> QED BY <1>3, <1>5, <2>2, <2>5, <3>1
    <2> QED BY <1>1, <1>2, <2>2, <2>3, <2>4, <2>5
  <1> QED BY <1>3, <1>6, <1>7, <1>8, <1>9, <1>10, Constants DEF Numbers

\* Answers that find fault with the batch itself.
Refusals == {"EventGap", "Conflict", "InvalidRequest"}

\* An event of another lease is stored.
Foreign(l) == \E n \in 1 .. Durable : events[n].lease # l

\* The chunks of a preparation are not those of the record or of the cursor, which the
\* transaction compares them with.
ChunksDiffer(p) ==
    \/ \E rec \in RecordOf(p) : rec.chunks # p.chunks
    \/ ReplayedPrefix(p) /\ p.chunks # Chunks(p.first, p.last, Durable)

\* A record that is added has the chunks that the cursor asks for.
RecordAdded ==
    \A rec \in records' \ records : rec.chunks = Chunks(rec.first, rec.last, Durable)

\* What the append transaction may do to a preparation.
Outcome(p) ==
    /\ Grows /\ Numbered' /\ events' \in Seq([lease : Leases, number : 1 .. MaxEvents])
    /\ Durable' <= MaxEvents
    /\ p.lease = owner \/ UNCHANGED events
    /\ records' \subseteq Records /\ RecordsInv' /\ RecordAdded
    /\ \E a \in Answers :
          /\ a.lease = p.lease /\ a.send = p.send /\ answers' = answers \cup {a}
          /\ a.result = "Accepted" => Stored(a.lease, a.through)' /\ a.through <= spooled[a.lease]
          /\ a.result \in Refusals => Foreign(p.lease) \/ ChunksDiffer(p)

\* A replay answers from the record, which vouches for the same range.
LEMMA ReplayOutcome ==
    ASSUME DeliveryInv, NEW p \in prepared, NEW rec \in RecordOf(p), ReplayAppend(p, rec),
           UNCHANGED spooled
    PROVE  Outcome(p)
  <1>0. TypeOK /\ UNCHANGED <<events, records>>
    BY DEF DeliveryInv, ReplayAppend
  <1>1. Grows
    BY <1>0, EventsStay
  <1>2. p \in Preparations /\ p.lease \in Leases /\ p.last \in 1 .. MaxEvents /\ p.chunks \in SUBSET Output
    BY <1>0 DEF TypeOK, Preparations
  <1>3. /\ rec \in records /\ rec.lease = p.lease /\ rec.last = p.last
        /\ rec.chunks \in SUBSET Output /\ rec.acknowledged \in Numbers
    BY <1>0 DEF RecordOf, TypeOK, Records
  <1>4. Stored(p.lease, p.last)' /\ p.last <= rec.acknowledged
    BY <1>1, <1>3, OldStaysGood
  <1>5. p.last <= spooled[p.lease]
    BY DEF DeliveryInv, PreparedInv, Sound
  <1>6. Min({rec.acknowledged, p.last}) = p.last
    <2>1. p.last \in Nat /\ rec.acknowledged \in Nat
      BY <1>2, <1>3, Constants DEF Numbers
    <2>2. Min({rec.acknowledged, p.last}) = IF rec.acknowledged <= p.last THEN rec.acknowledged ELSE p.last
      BY <2>1, MinMax
    <2> QED BY <1>4, <2>1, <2>2
  <1>7. \E a \in Answers :
          /\ a.lease = p.lease /\ a.send = p.send /\ answers' = answers \cup {a}
          /\ a.result = "Accepted" => Stored(a.lease, a.through)' /\ a.through <= spooled[a.lease]
          /\ a.result \in Refusals => Foreign(p.lease) \/ ChunksDiffer(p)
    <2>1. CASE rec.chunks = p.chunks
      <3>1. PICK a : /\ a = [lease |-> p.lease, send |-> p.send, result |-> "Accepted", through |-> p.last]
                     /\ answers' = answers \cup {a}
        BY <1>6, <2>1 DEF ReplayAppend, Answer
      <3>2. /\ a \in Answers /\ a.lease = p.lease /\ a.send = p.send /\ a.through = p.last
            /\ a.result \notin Refusals
        BY <1>2, <3>1, Constants DEF Preparations, Answers, Numbers, Refusals
      <3> QED BY <1>4, <1>5, <3>1, <3>2
    <2>2. CASE rec.chunks # p.chunks
      <3>1. PICK a : /\ a = [lease |-> p.lease, send |-> p.send, result |-> "Conflict", through |-> 0]
                     /\ answers' = answers \cup {a}
        BY <2>2 DEF ReplayAppend, Answer
      <3>2. a \in Answers /\ a.lease = p.lease /\ a.send = p.send /\ a.result # "Accepted"
        BY <1>2, <3>1, Constants DEF Preparations, Answers, Numbers, Rejections
      <3>3. ChunksDiffer(p)
        BY <2>2 DEF ChunksDiffer
      <3> QED BY <3>1, <3>2, <3>3
    <2> QED BY <2>1, <2>2
  <1>8. Numbered' /\ Durable' <= MaxEvents /\ events' \in Seq([lease : Leases, number : 1 .. MaxEvents])
    BY <1>0 DEF DeliveryInv, Numbered, Durable, TypeOK
  <1>9. records' \subseteq Records /\ RecordsInv' /\ RecordAdded
    BY <1>0, <1>1, OldStaysGood DEF TypeOK, RecordsInv, RecordAdded
  <1> QED BY <1>0, <1>1, <1>7, <1>8, <1>9 DEF Outcome

\* A batch that the store already contradicts holds an event of another lease.
LEMMA ContradictionIsForeign ==
    ASSUME DeliveryInv, NEW p \in prepared, ~ ReplayedPrefix(p)
    PROVE  Foreign(p.lease)
  <1>0. TypeOK /\ p.first \in 1 .. MaxEvents
    BY DEF DeliveryInv, TypeOK, Preparations
  <1>1. PICK n \in Batch(p.first, p.last) : n <= Durable /\ events[n] # Event(p.lease, n)
    BY DEF ReplayedPrefix
  <1>2. n \in 1 .. Durable
    BY <1>0, <1>1, Basics, Constants DEF Batch
  <1>3. events[n] = Event(events[n].lease, n)
    BY <1>2 DEF DeliveryInv, Numbered
  <1> QED BY <1>1, <1>2, <1>3 DEF Foreign

\* What comes before a batch is stored, so the batch leaves no gap.
LEMMA NoGap ==
    ASSUME DeliveryInv, NEW p \in prepared
    PROVE  p.first <= Durable + 1
  <1>0. TypeOK /\ Sound(p.lease, p)
    BY DEF DeliveryInv, PreparedInv
  <1>1. p.first \in 1 .. MaxEvents /\ Durable \in Nat
    BY <1>0, Basics DEF TypeOK, Preparations
  <1>2. CASE p.first = 1
    BY <1>1, <1>2
  <1>3. CASE p.first # 1
    <2>1. p.first - 1 \in 1 .. (p.first - 1)
      BY <1>1, <1>3, Constants
    <2>2. p.first - 1 <= Durable
      BY <1>0, <2>1 DEF Sound, Stored
    <2> QED BY <1>1, <2>2, Constants
  <1> QED BY <1>2, <1>3

\* A first append extends the store, or is refused and leaves it alone.
LEMMA FreshOutcome ==
    ASSUME DeliveryInv, NEW p \in prepared, FreshAppend(p), UNCHANGED spooled
    PROVE  Outcome(p)
  <1>0. TypeOK /\ p \in Preparations /\ p.last <= spooled[p.lease]
    BY DEF DeliveryInv, TypeOK, PreparedInv, Sound
  <1>1. p.lease \in Leases /\ p.last \in 1 .. MaxEvents /\ p.chunks \in SUBSET Output
    BY <1>0 DEF Preparations
  <1>2. PICK through : through = Max({Durable, p.last})
    OBVIOUS
  <1>3. PICK result : result = IF p.lease # owner            THEN "LeaseLost"
                               ELSE IF ~ ReplayedPrefix(p)   THEN "Conflict"
                               ELSE IF p.first > Durable + 1 THEN "EventGap"
                               ELSE IF p.chunks # Chunks(p.first, p.last, Durable) THEN "InvalidRequest"
                               ELSE "Accepted"
    OBVIOUS
  <1>4. IF result = "Accepted"
        THEN /\ events' = [n \in 1 .. through |-> IF n <= Durable THEN events[n] ELSE Event(p.lease, n)]
             /\ records' = records \cup {[lease |-> p.lease, first |-> p.first, last |-> p.last,
                                          chunks |-> p.chunks, acknowledged |-> through]}
             /\ Answer(p, result, Min({through, p.last}))
        ELSE Answer(p, result, 0) /\ UNCHANGED <<events, records>>
    BY <1>2, <1>3 DEF FreshAppend
  <1>5. CASE result = "Accepted"
    <2>1. p.lease = owner /\ ReplayedPrefix(p) /\ p.chunks = Chunks(p.first, p.last, Durable)
      BY <1>3, <1>5
    <2>2. p.first <= Durable + 1
      BY NoGap
    <2>3. /\ Grows /\ through \in Numbers /\ p.last <= through /\ Durable' = through
          /\ events' \in Seq([lease : Leases, number : 1 .. MaxEvents])
          /\ Numbered' /\ Stored(p.lease, p.last)'
      BY <1>2, <1>4, <1>5, <2>1, <2>2, AcceptedAppend
    <2>4. Min({through, p.last}) = p.last
      <3>1. p.last \in Nat /\ through \in Nat
        BY <1>1, <2>3, Constants DEF Numbers
      <3>2. Min({through, p.last}) = IF through <= p.last THEN through ELSE p.last
        BY <3>1, MinMax
      <3> QED BY <2>3, <3>1, <3>2
    <2>5. PICK rec : /\ rec = [lease |-> p.lease, first |-> p.first, last |-> p.last,
                               chunks |-> p.chunks, acknowledged |-> through]
                     /\ records' = records \cup {rec}
      BY <1>4, <1>5
    <2>6. rec \in Records /\ rec.lease = p.lease /\ rec.last = p.last /\ rec.acknowledged = through
      BY <1>0, <2>3, <2>5 DEF Preparations, Records
    <2>7. records' \subseteq Records /\ RecordsInv'
      BY <1>0, <2>3, <2>5, <2>6, OldStaysGood DEF TypeOK, RecordsInv
    <2>11. RecordAdded
      <3>1. rec.first = p.first /\ rec.last = p.last /\ rec.chunks = p.chunks
        BY <2>5
      <3> QED BY <2>1, <2>5, <3>1 DEF RecordAdded
    <2>8. PICK a : /\ a = [lease |-> p.lease, send |-> p.send, result |-> "Accepted", through |-> p.last]
                   /\ answers' = answers \cup {a}
      BY <1>4, <1>5, <2>4 DEF Answer
    <2>9. /\ a \in Answers /\ a.lease = p.lease /\ a.send = p.send /\ a.through = p.last
          /\ a.result \notin Refusals
      BY <1>0, <2>8, Constants DEF Preparations, Answers, Numbers, Refusals
    <2>10. Durable' <= MaxEvents
      BY <2>3, Constants DEF Numbers
    <2> QED BY <1>0, <2>1, <2>3, <2>7, <2>8, <2>9, <2>10, <2>11 DEF Outcome
  <1>6. CASE result # "Accepted"
    <2>1. Answer(p, result, 0) /\ UNCHANGED <<events, records>>
      BY <1>4, <1>6
    <2>2. Grows
      BY <1>0, <2>1, EventsStay
    <2>3. result \in Rejections
      BY <1>3, <1>6 DEF Rejections
    <2>4. result \in Refusals => Foreign(p.lease) \/ ChunksDiffer(p)
      <3>1. ~ (p.first > Durable + 1)
        <4>1. p.first \in Nat /\ Durable \in Nat /\ p.first <= Durable + 1
          BY <1>0, Basics, NoGap, Constants DEF Preparations
        <4> QED BY <4>1
      <3>2. CASE p.lease # owner
        BY <1>3, <3>2 DEF Refusals
      <3>3. CASE p.lease = owner /\ ~ ReplayedPrefix(p)
        BY <3>3, ContradictionIsForeign
      <3>4. CASE p.lease = owner /\ ReplayedPrefix(p) /\ p.chunks # Chunks(p.first, p.last, Durable)
        BY <3>4 DEF ChunksDiffer
      <3>5. CASE p.lease = owner /\ ReplayedPrefix(p) /\ p.chunks = Chunks(p.first, p.last, Durable)
        BY <1>3, <1>6, <3>1, <3>5
      <3> QED BY <3>2, <3>3, <3>4, <3>5
    <2>5. PICK a : /\ a = [lease |-> p.lease, send |-> p.send, result |-> result, through |-> 0]
                   /\ answers' = answers \cup {a}
      BY <2>1 DEF Answer
    <2>6. a \in Answers /\ a.lease = p.lease /\ a.send = p.send /\ a.result = result
      BY <1>0, <2>3, <2>5, Constants DEF Preparations, Answers, Numbers
    <2>7. Numbered' /\ Durable' <= MaxEvents /\ events' \in Seq([lease : Leases, number : 1 .. MaxEvents])
      BY <1>0, <2>1 DEF DeliveryInv, Numbered, Durable, TypeOK
    <2>8. records' \subseteq Records /\ RecordsInv' /\ RecordAdded
      BY <1>0, <2>1, <2>2, OldStaysGood DEF TypeOK, RecordsInv, RecordAdded
    <2> QED BY <1>6, <2>1, <2>2, <2>4, <2>5, <2>6, <2>7, <2>8 DEF Outcome
  <1> QED BY <1>5, <1>6

\* An append is a replay or a first append.
LEMMA AppendOutcome ==
    ASSUME DeliveryInv, AppendJobEvents
    PROVE  \E p \in prepared : prepared' = prepared \ {p} /\ Outcome(p)
  <1>0. UNCHANGED spooled
    BY DEF AppendJobEvents, agentVars
  <1>1. PICK p \in prepared :
           /\ prepared' = prepared \ {p}
           /\ IF RecordOf(p) = {} THEN FreshAppend(p) ELSE \E rec \in RecordOf(p) : ReplayAppend(p, rec)
    BY DEF AppendJobEvents
  <1>2. Outcome(p)
    BY <1>0, <1>1, FreshOutcome, ReplayOutcome
  <1> QED BY <1>1, <1>2

\* An append keeps the invariant. No event is added to a completed Job: it has no owner.
LEMMA AppendKeeps ==
    ASSUME DeliveryInv, AppendJobEvents
    PROVE  DeliveryInv'
  <1>0. TypeOK /\ UNCHANGED <<agentVars, requests, issued, owner, completion>>
    BY DEF DeliveryInv, AppendJobEvents
  <1>1. PICK p \in prepared : prepared' = prepared \ {p} /\ Outcome(p)
    BY AppendOutcome
  <1>2. Grows /\ Numbered' /\ RecordsInv'
    BY <1>1 DEF Outcome
  <1>3. answers' \subseteq Answers /\ AnswersInv'
    <2>1. PICK a \in Answers :
            /\ answers' = answers \cup {a}
            /\ a.result = "Accepted" => Stored(a.lease, a.through)' /\ a.through <= spooled[a.lease]
      BY <1>1 DEF Outcome
    <2> QED BY <1>0, <1>2, <2>1, AnswerKeeps DEF agentVars
  <1>4. TypeOK'
    <2>1. /\ events' \in Seq([lease : Leases, number : 1 .. MaxEvents]) /\ Durable' <= MaxEvents
          /\ records' \subseteq Records /\ prepared' \subseteq prepared
      BY <1>1 DEF Outcome
    <2> QED BY <1>0, <1>3, <2>1 DEF TypeOK, agentVars
  <1>5. RequestsInv' /\ PreparedInv'
    BY <1>0, <1>1, <1>2, OldStaysGood DEF RequestsInv, PreparedInv
  <1>6. CompletionInv'
    <2>1. SUFFICES ASSUME completion # None
                   PROVE  CompletionInv'
      BY <1>0 DEF CompletionInv
    <2>2. p.lease \in Leases /\ owner = None
      BY <1>0, <2>1 DEF TypeOK, Preparations, DeliveryInv, CompletionInv
    <2>3. UNCHANGED events
      BY <1>1, <2>2, Constants DEF Outcome
    <2> QED BY <1>0, <2>3 DEF DeliveryInv, CompletionInv, Durable
  <1> QED BY <1>0, <1>2, <1>3, <1>4, <1>5, <1>6, AgentsStay DEF DeliveryInv

\* The Job completes with the stream of the owner that finished it.
LEMMA CompleteKeeps ==
    ASSUME DeliveryInv, NEW l \in Leases, CompleteJob(l)
    PROVE  DeliveryInv'
  <1>0. UNCHANGED <<agentVars, networkVars, issued, events, records>>
    BY DEF CompleteJob
  <1>1. TypeOK /\ Grows
    BY <1>0, EventsStay DEF DeliveryInv, agentVars
  <1>2. PICK m : m = spooled[l]
    OBVIOUS
  <1>3. m \in Numbers /\ m = Durable /\ Stored(l, m) /\ owner' = None
        /\ completion' = [lease |-> l, final |-> m]
    BY <1>1, <1>2 DEF CompleteJob, TypeOK, DeliveryInv, AgentInv
  <1>4. completion' \in [lease : Leases, final : Numbers] /\ completion'.lease = l /\ completion'.final = m
    BY <1>3
  <1>5. TypeOK'
    BY <1>0, <1>1, <1>3, <1>4 DEF TypeOK, agentVars, networkVars, Durable
  <1>6. CompletionInv'
    BY <1>0, <1>3, <1>4 DEF CompletionInv, Stored, Durable
  <1>7. RequestsInv' /\ PreparedInv' /\ AnswersInv' /\ RecordsInv'
    BY <1>0, <1>1, OldStaysGood DEF RequestsInv, PreparedInv, AnswersInv, RecordsInv, networkVars
  <1>8. Numbered'
    BY <1>0 DEF DeliveryInv, Numbered, Durable
  <1> QED BY <1>0, <1>1, <1>5, <1>6, <1>7, <1>8, AgentsStay DEF DeliveryInv

----------------------------------------------------------------------------
(* The theorems                                                            *)

\* The invariant holds initially.
LEMMA DeliveryInvInit == Init => DeliveryInv
  <1> SUFFICES ASSUME Init PROVE DeliveryInv
    OBVIOUS
  <1>1. Durable = 0 /\ events \in Seq([lease : Leases, number : 1 .. MaxEvents])
    BY DEF Init, Durable
  <1>2. TypeOK
    BY <1>1, Constants DEF Init, TypeOK, Numbers
  <1>3. \A l \in Leases : AgentInv(l)
    BY DEF Init, AgentInv, Stored
  <1>4. Numbered /\ RequestsInv /\ PreparedInv /\ AnswersInv /\ RecordsInv /\ CompletionInv
    BY <1>1 DEF Init, Numbered, RequestsInv, PreparedInv, AnswersInv, RecordsInv, CompletionInv
  <1> QED BY <1>2, <1>3, <1>4 DEF DeliveryInv

\* Every step keeps the invariant.
LEMMA DeliveryInvStep == DeliveryInv /\ [Next]_vars => DeliveryInv'
  <1> SUFFICES ASSUME DeliveryInv, [Next]_vars
               PROVE  DeliveryInv'
    OBVIOUS
  <1>1. CASE Claim \/ Requeue
    BY <1>1, OwnershipKeeps
  <1>2. CASE PrepareAppend
    BY <1>2, PrepareKeeps
  <1>3. CASE AppendJobEvents
    BY <1>3, AppendKeeps
  <1>4. ASSUME NEW l \in Leases, AgentNext(l)
        PROVE  DeliveryInv'
    BY <1>4, SpoolKeeps, SendBatchKeeps, CallEndsKeeps, FinishKeeps DEF AgentNext
  <1>5. ASSUME NEW l \in Leases, CompleteJob(l)
        PROVE  DeliveryInv'
    BY <1>5, CompleteKeeps
  <1>6. CASE UNCHANGED vars
    <2>1. TypeOK' /\ Numbered'
      BY <1>6 DEF DeliveryInv, TypeOK, Numbered, Durable, vars, agentVars, networkVars, serverVars
    <2>2. \A l \in Leases : AgentInv(l)'
      BY <1>6 DEF DeliveryInv, AgentInv, Stored, Sound, Durable, vars, agentVars, serverVars
    <2>3. RequestsInv' /\ PreparedInv' /\ AnswersInv' /\ RecordsInv' /\ CompletionInv'
      BY <1>6 DEF DeliveryInv, RequestsInv, PreparedInv, AnswersInv, RecordsInv, CompletionInv,
                  Stored, Sound, Durable, vars, agentVars, networkVars, serverVars
    <2> QED BY <2>1, <2>2, <2>3 DEF DeliveryInv
  <1> QED BY <1>1, <1>2, <1>3, <1>4, <1>5, <1>6 DEF Next

\* It holds in every reachable state.
LEMMA DeliveryInvHolds == Spec => []DeliveryInv
  <1>1. Init => DeliveryInv
    BY DeliveryInvInit
  <1>2. DeliveryInv /\ [Next]_vars => DeliveryInv'
    BY DeliveryInvStep
  <1> QED BY <1>1, <1>2, PTL DEF Spec

\* Every variable keeps its type: spools, calls, messages, rows and cursors of
\* octacity-lifecycle and of the append handler stay within their ranges.
THEOREM TypeCorrect == Spec => []TypeOK
  <1>1. DeliveryInv => TypeOK
    BY DEF DeliveryInv
  <1> QED BY <1>1, DeliveryInvHolds, PTL

\* What an Agent has deleted from its spool is stored as that Agent produced it, and a
\* completed Job holds the whole stream of its last owner, for any number of owners,
\* events, sends, losses and regroupings (spool.rs acknowledge; job_events.rs append).
THEOREM AcknowledgedStored == Spec => []AcknowledgedIsStored
  <1>1. DeliveryInv => AcknowledgedIsStored
    BY DEF DeliveryInv, AgentInv, Stored, CompletionInv, AcknowledgedIsStored
  <1> QED BY <1>1, DeliveryInvHolds, PTL

----------------------------------------------------------------------------
(* Refusals                                                                *)

\* Log output numbered k or more is stored, as the lease produced it.
OutputStored(l, k) == \E n \in Output : n >= k /\ n <= Durable /\ events[n] = Event(l, n)

\* What a refusal of a batch that starts at k goes back to.
Cause(l, k) == Foreign(l) \/ OutputStored(l, k)

\* The chunks of a preparation or of a record are those of a cursor of some moment.
Chunked(q) == \E d \in 0 .. Durable : q.chunks = Chunks(q.first, q.last, d)

ChunksInv == (\A p \in prepared : Chunked(p)) /\ (\A rec \in records : Chunked(rec))

\* A message of the latest send belongs to the call that waits, if one does.
Current(m) ==
    /\ m.send <= sends[m.lease]
    /\ m.send = sends[m.lease] /\ call[m.lease] # None => m.first = call[m.lease].first

SendsInv == (\A r \in requests : Current(r)) /\ (\A p \in prepared : Current(p))

\* A refusal that a waiting call would read has a cause.
Explained(a) ==
    /\ a.send <= sends[a.lease]
    /\ a.result \in Refusals /\ a.send = sends[a.lease] /\ call[a.lease] # None =>
          Cause(a.lease, call[a.lease].first)

\* A call asks for what follows the acknowledged events, which a refusal freezes.
Waits(l) ==
    /\ call[l] # None => call[l].first = acked[l] + 1 /\ delivery[l] = "on"
    /\ delivery[l] \in Refusals => Cause(l, acked[l] + 1)

OwnInv ==
    /\ ChunksInv /\ SendsInv
    /\ \A a \in answers : Explained(a)
    /\ \A l \in Leases : Waits(l)

\* An event of another owner stays.
LEMMA ForeignStays ==
    ASSUME TypeOK, Grows, NEW l, Foreign(l)
    PROVE  Foreign(l)'
  <1>1. PICK n \in 1 .. Durable : events[n].lease # l
    BY DEF Foreign
  <1>2. n \in 1 .. Durable' /\ events'[n] = events[n]
    BY <1>1, Basics DEF Grows
  <1> QED BY <1>1, <1>2 DEF Foreign

\* Events are only added to, and spools only extended.
LEMMA StepGrows ==
    ASSUME DeliveryInv, [Next]_vars
    PROVE  Grows
  <1>0. TypeOK
    BY DEF DeliveryInv
  <1>1. ASSUME UNCHANGED <<spooled, events>>
        PROVE  Grows
    BY <1>0, <1>1, EventsStay
  <1>2. CASE AppendJobEvents
    BY <1>2, AppendOutcome DEF Outcome
  <1>3. ASSUME NEW l \in Leases, SpoolEvent(l)
        PROVE  Grows
    <2>1. spooled' = [spooled EXCEPT ![l] = @ + 1] /\ UNCHANGED events
      BY <1>3 DEF SpoolEvent, serverVars
    <2>2. \A k \in Leases : spooled[k] \in Nat
      BY <1>0, Basics
    <2>3. \A k \in Leases : spooled'[k] = IF k = l THEN spooled[k] + 1 ELSE spooled[k]
      BY <1>0, <2>1 DEF TypeOK
    <2>4. \A k \in Leases : spooled'[k] \in Nat /\ spooled[k] <= spooled'[k]
      BY <2>2, <2>3
    <2> QED BY <1>0, <2>1, <2>4, Basics DEF Grows, Durable
  <1>4. ASSUME NEW l \in Leases,
               SendBatch(l) \/ SendAgain(l) \/ GiveUp(l) \/ Receive(l) \/ FinishAttempt(l)
        PROVE  UNCHANGED <<spooled, events>>
    BY <1>4 DEF SendBatch, SendAgain, GiveUp, Receive, FinishAttempt, serverVars
  <1>5. ASSUME Claim \/ Requeue \/ PrepareAppend \/ (\E l \in Leases : CompleteJob(l)) \/ UNCHANGED vars
        PROVE  UNCHANGED <<spooled, events>>
    BY <1>5 DEF Claim, Requeue, PrepareAppend, CompleteJob, vars, agentVars, serverVars
  <1> QED BY <1>1, <1>2, <1>3, <1>4, <1>5 DEF Next, AgentNext

\* A cause stays.
LEMMA CauseStays ==
    ASSUME TypeOK, Grows, NEW l, NEW k, Cause(l, k)
    PROVE  Cause(l, k)'
  <1>1. CASE Foreign(l)
    BY <1>1, ForeignStays DEF Cause
  <1>2. CASE OutputStored(l, k)
    <2>1. PICK n \in Output : n >= k /\ n <= Durable /\ events[n] = Event(l, n)
      BY <1>2 DEF OutputStored
    <2>2. n \in 1 .. Durable /\ Durable \in Nat
      BY <2>1, Basics, Constants
    <2>3. n <= Durable' /\ events'[n] = Event(l, n)
      BY <2>1, <2>2 DEF Grows
    <2> QED BY <2>1, <2>3 DEF Cause, OutputStored, Event
  <1> QED BY <1>1, <1>2 DEF Cause

\* A cursor that chunks were cut at is never ahead of the current one.
LEMMA ChunkedStays ==
    ASSUME TypeOK, Grows, NEW q, Chunked(q)
    PROVE  Chunked(q)'
  <1>1. PICK d \in 0 .. Durable : q.chunks = Chunks(q.first, q.last, d)
    BY DEF Chunked
  <1>2. d \in 0 .. Durable'
    BY Basics DEF Grows
  <1> QED BY <1>1, <1>2 DEF Chunked, Chunks, Batch

\* Chunks cut at two cursors differ by log output that is stored by now.
LEMMA DifferenceIsStored ==
    ASSUME TypeOK, NEW f, NEW t, NEW d \in 0 .. Durable, NEW e \in 0 .. Durable,
           Chunks(f, t, d) # Chunks(f, t, e)
    PROVE  \E n \in Output : n \in Batch(f, t) /\ n <= Durable
  <1>1. PICK n \in Output : n \in Batch(f, t) /\ ~ (n > d <=> n > e)
    BY DEF Chunks
  <1>2. n \in Int /\ d \in Int /\ e \in Int /\ Durable \in Nat
    BY Basics, Constants
  <1>3. n <= Durable
    BY <1>1, <1>2
  <1> QED BY <1>1, <1>3

\* Chunks that the append refuses repeat log output which the lease has stored.
LEMMA RefusedChunks ==
    ASSUME DeliveryInv, ChunksInv, NEW p \in prepared, ChunksDiffer(p)
    PROVE  OutputStored(p.lease, p.first)
  <1>0. TypeOK /\ p.first \in 1 .. MaxEvents /\ p.last \in 1 .. MaxEvents /\ Durable \in Nat
    BY Basics DEF DeliveryInv, TypeOK, Preparations
  <1>1. PICK d \in 0 .. Durable : p.chunks = Chunks(p.first, p.last, d)
    BY DEF ChunksInv, Chunked
  <1>2. ASSUME NEW n \in Output, n \in Batch(p.first, p.last), n <= Durable,
               events[n] = Event(p.lease, n)
        PROVE  OutputStored(p.lease, p.first)
    BY <1>0, <1>2, Constants DEF OutputStored, Batch
  <1>3. CASE \E rec \in RecordOf(p) : rec.chunks # p.chunks
    <2>1. PICK rec \in records : /\ rec.chunks # p.chunks /\ rec.lease = p.lease
                                 /\ rec.first = p.first /\ rec.last = p.last
      BY <1>3 DEF RecordOf
    <2>2. PICK e \in 0 .. Durable : rec.chunks = Chunks(p.first, p.last, e)
      BY <2>1 DEF ChunksInv, Chunked
    <2>3. PICK n \in Output : n \in Batch(p.first, p.last) /\ n <= Durable
      BY <1>0, <1>1, <2>1, <2>2, DifferenceIsStored
    <2>4. n \in 1 .. p.last
      BY <1>0, <2>3, Constants DEF Batch
    <2>5. events[n] = Event(p.lease, n)
      BY <2>1, <2>4 DEF DeliveryInv, RecordsInv, Stored
    <2> QED BY <1>2, <2>3, <2>5
  <1>4. CASE ReplayedPrefix(p) /\ p.chunks # Chunks(p.first, p.last, Durable)
    <2>1. Durable \in 0 .. Durable
      BY <1>0
    <2>2. PICK n \in Output : n \in Batch(p.first, p.last) /\ n <= Durable
      BY <1>0, <1>1, <1>4, <2>1, DifferenceIsStored
    <2>3. events[n] = Event(p.lease, n)
      BY <1>4, <2>2 DEF ReplayedPrefix
    <2> QED BY <1>2, <2>2, <2>3
  <1> QED BY <1>3, <1>4 DEF ChunksDiffer

\* Messages and calls that a step leaves alone keep their part of the invariant.
LEMMA MessagesStay ==
    ASSUME DeliveryInv, OwnInv, Grows, NEW l \in Leases,
           sends'[l] = sends[l], call'[l] = call[l] \/ call'[l] = None
    PROVE  /\ \A r \in requests : r.lease = l => Current(r)'
           /\ \A p \in prepared : p.lease = l => Current(p)'
           /\ \A a \in answers : a.lease = l => Explained(a)'
  <1>0. TypeOK
    BY DEF DeliveryInv
  <1>1. \A r \in requests \cup prepared : r.lease = l => Current(r)'
    BY DEF OwnInv, SendsInv, Current
  <1>2. ASSUME NEW a \in answers, a.lease = l
        PROVE  Explained(a)'
    <2>1. PICK k : k = call[l].first
      OBVIOUS
    <2>2. a.result \in Refusals /\ a.send = sends[l] /\ call[l] # None => Cause(l, k)'
      BY <1>0, <1>2, <2>1, CauseStays DEF OwnInv, Explained
    <2>3. a.send <= sends'[l]
      BY <1>2 DEF OwnInv, Explained
    <2>4. CASE call'[l] = None
      BY <1>2, <2>3, <2>4 DEF Explained
    <2>5. CASE call'[l] = call[l]
      <3>1. call'[l].first = k
        BY <2>1, <2>5
      <3> QED BY <1>2, <2>2, <2>3, <2>5, <3>1 DEF Explained
    <2> QED BY <2>4, <2>5
  <1> QED BY <1>1, <1>2

\* A step that leaves the acknowledgements and the refusals of a lease alone keeps
\* what its task knows.
LEMMA WaitsStays ==
    ASSUME DeliveryInv, OwnInv, Grows, NEW l \in Leases,
           acked'[l] = acked[l], call'[l] = call[l] \/ call'[l] = None,
           delivery'[l] = delivery[l] \/ delivery'[l] = "on"
    PROVE  Waits(l)'
  <1>1. PICK k : k = acked[l] + 1
    OBVIOUS
  <1>2. delivery[l] \in Refusals => Cause(l, k)'
    BY <1>1, CauseStays DEF DeliveryInv, OwnInv, Waits
  <1>3. acked'[l] + 1 = k
    BY <1>1
  <1>4. "on" \notin Refusals
    BY DEF Refusals
  <1>5. call'[l] # None => call'[l].first = k /\ delivery'[l] = "on"
    BY <1>1 DEF OwnInv, Waits
  <1>6. delivery'[l] \in Refusals => Cause(l, k)'
    BY <1>2, <1>4
  <1> QED BY <1>3, <1>5, <1>6 DEF Waits

\* A step that adds no message and no record.
LEMMA QuietKeeps ==
    ASSUME DeliveryInv, OwnInv, Grows, requests' \subseteq requests, prepared' \subseteq prepared,
           answers' \subseteq answers, records' \subseteq records, UNCHANGED sends,
           \A l \in Leases : /\ acked'[l] = acked[l]
                             /\ call'[l] = call[l] \/ call'[l] = None
                             /\ delivery'[l] = delivery[l] \/ delivery'[l] = "on"
    PROVE  OwnInv'
  <1>0. TypeOK
    BY DEF DeliveryInv
  <1>1. ChunksInv'
    BY <1>0, ChunkedStays DEF OwnInv, ChunksInv
  <1>2. /\ \A r \in requests : r.lease \in Leases
        /\ \A p \in prepared : p.lease \in Leases
        /\ \A a \in answers : a.lease \in Leases
    BY <1>0 DEF TypeOK, Requests, Preparations, Answers
  <1>3. /\ \A r \in requests : Current(r)'
        /\ \A p \in prepared : Current(p)'
        /\ \A a \in answers : Explained(a)'
    BY <1>2, MessagesStay
  <1>4. \A l \in Leases : Waits(l)'
    BY WaitsStays
  <1> QED BY <1>1, <1>3, <1>4 DEF OwnInv, SendsInv

\* A send makes every earlier message an old one.
LEMMA SendOwn ==
    ASSUME DeliveryInv, OwnInv, NEW l \in Leases, NEW b, b.first = acked[l] + 1,
           delivery[l] = "on", Send(l, b),
           UNCHANGED <<spooled, acked, delivery, finished, prepared, answers, serverVars>>
    PROVE  OwnInv'
  <1>0. TypeOK /\ Grows /\ UNCHANGED records
    BY EventsStay DEF DeliveryInv, serverVars
  <1>1. /\ sends'[l] = sends[l] + 1 /\ sends[l] \in Nat /\ call'[l] = b
        /\ \A k \in Leases : k # l => sends'[k] = sends[k] /\ call'[k] = call[k]
    BY <1>0, Constants DEF Send, TypeOK
  <1>2. PICK q : /\ q = [lease |-> l, send |-> sends'[l], first |-> b.first, last |-> b.last]
                 /\ requests' = requests \cup {q}
    BY DEF Send
  <1>3. q.lease = l /\ q.send = sends'[l] /\ q.first = b.first
    BY <1>2
  <1>4. ChunksInv'
    BY <1>0, ChunkedStays DEF OwnInv, ChunksInv
  <1>5. /\ \A r \in requests : r.lease \in Leases /\ r.send \in Nat /\ r.send <= sends[r.lease]
        /\ \A p \in prepared : p.lease \in Leases /\ p.send \in Nat /\ p.send <= sends[p.lease]
        /\ \A a \in answers : a.lease \in Leases /\ a.send \in Nat /\ a.send <= sends[a.lease]
    BY <1>0, Constants
       DEF TypeOK, Requests, Preparations, Answers, OwnInv, SendsInv, Current, Explained
  <1>6. /\ \A r \in requests : Current(r)'
        /\ \A p \in prepared : Current(p)'
        /\ \A a \in answers : Explained(a)'
    <2>1. ASSUME NEW k \in Leases, k # l
          PROVE  /\ \A r \in requests : r.lease = k => Current(r)'
                 /\ \A p \in prepared : p.lease = k => Current(p)'
                 /\ \A a \in answers : a.lease = k => Explained(a)'
      BY <1>0, <1>1, <2>1, MessagesStay
    <2>2. /\ \A r \in requests : r.lease = l => Current(r)'
          /\ \A p \in prepared : p.lease = l => Current(p)'
          /\ \A a \in answers : a.lease = l => Explained(a)'
      BY <1>1, <1>5 DEF Current, Explained
    <2> QED BY <1>5, <2>1, <2>2
  <1>7. Current(q)'
    BY <1>1, <1>3 DEF Current
  <1>8. ASSUME NEW k \in Leases
        PROVE  Waits(k)'
    <2>1. CASE k # l
      BY <1>0, <1>1, <2>1, WaitsStays
    <2>2. CASE k = l
      BY <1>1, <2>2 DEF Waits, Refusals
    <2> QED BY <2>1, <2>2
  <1> QED BY <1>2, <1>4, <1>6, <1>7, <1>8 DEF OwnInv, SendsInv

\* A preparation belongs to the call of its request, and its chunks are cut at the
\* cursor of this moment. A lost lease is no refusal of the batch.
LEMMA PrepareOwn ==
    ASSUME DeliveryInv, OwnInv, PrepareAppend
    PROVE  OwnInv'
  <1>0. UNCHANGED <<agentVars, serverVars>>
    BY DEF PrepareAppend
  <1>1. TypeOK /\ Grows /\ Durable \in Nat
    BY <1>0, EventsStay, Basics DEF DeliveryInv, agentVars, serverVars
  <1>2. PICK r \in requests : Prepare(r) /\ requests' = requests \ {r}
    BY DEF PrepareAppend
  <1>3. r \in Requests /\ r.lease \in Leases /\ Current(r)'
    BY <1>0, <1>1 DEF TypeOK, Requests, OwnInv, SendsInv, Current, agentVars
  <1>4. /\ \A q \in requests : Current(q)'
        /\ \A p \in prepared : Current(p)' /\ Chunked(p)'
        /\ \A a \in answers : Explained(a)'
        /\ \A rec \in records : Chunked(rec)'
        /\ \A l \in Leases : Waits(l)'
    <2>1. /\ \A q \in requests : q.lease \in Leases
          /\ \A p \in prepared : p.lease \in Leases
          /\ \A a \in answers : a.lease \in Leases
      BY <1>1 DEF TypeOK, Requests, Preparations, Answers
    <2> QED BY <1>0, <1>1, <2>1, MessagesStay, WaitsStays, ChunkedStays
            DEF OwnInv, ChunksInv, agentVars
  <1>5. CASE Batch(r.first, r.last) \cap Output = {} \/ r.lease = owner
    <2>1. PICK d : d = IF Batch(r.first, r.last) \cap Output = {} THEN 0 ELSE Durable
      OBVIOUS
    <2>2. d \in 0 .. Durable
      BY <1>1, <2>1
    <2>3. PICK p : /\ p = [lease |-> r.lease, send |-> r.send, first |-> r.first, last |-> r.last,
                           chunks |-> Chunks(r.first, r.last, d)]
                   /\ prepared' = prepared \cup {p} /\ UNCHANGED answers
      BY <1>2, <1>5, <2>1 DEF Prepare
    <2>4. /\ p.lease = r.lease /\ p.send = r.send /\ p.first = r.first
          /\ p.chunks = Chunks(p.first, p.last, d)
      BY <2>3
    <2>5. Current(p)'
      BY <1>3, <2>4 DEF Current
    <2>6. Chunked(p)
      BY <2>2, <2>4 DEF Chunked
    <2>7. Chunked(p)'
      BY <1>1, <2>6, ChunkedStays
    <2> QED BY <1>0, <1>2, <1>4, <2>3, <2>5, <2>7 DEF OwnInv, ChunksInv, SendsInv, serverVars
  <1>6. CASE ~ (Batch(r.first, r.last) \cap Output = {} \/ r.lease = owner)
    <2>1. PICK a : /\ a = [lease |-> r.lease, send |-> r.send, result |-> "LeaseLost", through |-> 0]
                   /\ answers' = answers \cup {a} /\ UNCHANGED prepared
      BY <1>2, <1>6 DEF Prepare, Answer
    <2>2. a.lease = r.lease /\ a.send = r.send /\ a.result \notin Refusals
      BY <2>1 DEF Refusals
    <2>3. Explained(a)'
      BY <1>3, <2>2 DEF Explained, Current
    <2> QED BY <1>0, <1>2, <1>4, <2>1, <2>3 DEF OwnInv, ChunksInv, SendsInv, serverVars
  <1> QED BY <1>5, <1>6

\* An append refuses a batch for an event of another lease, or for log output of the
\* batch that is stored already.
LEMMA AppendOwn ==
    ASSUME DeliveryInv, OwnInv, AppendJobEvents
    PROVE  OwnInv'
  <1>0. UNCHANGED agentVars /\ UNCHANGED requests
    BY DEF AppendJobEvents
  <1>1. PICK p \in prepared : prepared' = prepared \ {p} /\ Outcome(p)
    BY AppendOutcome
  <1>2. TypeOK /\ Grows /\ RecordAdded /\ Durable \in Nat
    BY <1>1, Basics DEF DeliveryInv, Outcome
  <1>3. PICK a \in Answers :
          /\ a.lease = p.lease /\ a.send = p.send /\ answers' = answers \cup {a}
          /\ a.result \in Refusals => Foreign(p.lease) \/ ChunksDiffer(p)
    BY <1>1 DEF Outcome
  <1>4. /\ \A q \in requests : Current(q)'
        /\ \A q \in prepared : Current(q)' /\ Chunked(q)'
        /\ \A b \in answers : Explained(b)'
        /\ \A rec \in records : Chunked(rec)'
        /\ \A l \in Leases : Waits(l)'
    <2>1. /\ \A q \in requests : q.lease \in Leases
          /\ \A q \in prepared : q.lease \in Leases
          /\ \A b \in answers : b.lease \in Leases
      BY <1>2 DEF TypeOK, Requests, Preparations, Answers
    <2> QED BY <1>0, <1>2, <2>1, MessagesStay, WaitsStays, ChunkedStays
            DEF OwnInv, ChunksInv, agentVars
  <1>5. Explained(a)'
    <2>1. Current(p)
      BY DEF OwnInv, SendsInv
    <2>2. a.result \in Refusals => Cause(p.lease, p.first)
      BY <1>3, RefusedChunks DEF Cause, OwnInv
    <2>3. a.result \in Refusals => Cause(p.lease, p.first)'
      BY <1>2, <2>2, CauseStays
    <2>4. UNCHANGED <<sends, call>>
      BY <1>0 DEF agentVars
    <2>5. a.send <= sends'[a.lease]
      BY <1>3, <2>1, <2>4 DEF Current
    <2>6. a.send = sends'[a.lease] /\ call'[a.lease] # None => call'[a.lease].first = p.first
      BY <1>3, <2>1, <2>4 DEF Current
    <2> QED BY <1>3, <2>3, <2>5, <2>6 DEF Explained
  <1>6. \A rec \in records' : Chunked(rec)'
    <2>1. ASSUME NEW rec \in records' \ records
          PROVE  Chunked(rec)'
      <3>1. Chunked(rec)
        BY <1>2 DEF RecordAdded, Chunked
      <3> QED BY <1>2, <3>1, ChunkedStays
    <2> QED BY <1>4, <2>1
  <1> QED BY <1>0, <1>1, <1>3, <1>4, <1>5, <1>6 DEF OwnInv, ChunksInv, SendsInv

\* The task reads an answer to its latest send.
LEMMA ReceiveOwn ==
    ASSUME DeliveryInv, OwnInv, NEW l \in Leases, Receive(l)
    PROVE  OwnInv'
  <1>0. UNCHANGED <<spooled, sends, networkVars, serverVars>> /\ call[l] # None
    BY DEF Receive
  <1>1. TypeOK /\ Grows
    BY <1>0, EventsStay DEF DeliveryInv, serverVars
  <1>2. call'[l] = None /\ \A k \in Leases : k # l => call'[k] = call[k]
    BY <1>1 DEF Receive, TypeOK
  <1>3. PICK a \in answers :
           /\ a.lease = l /\ a.send = sends[l]
           /\ IF a.result = "Accepted"
              THEN acked' = [acked EXCEPT ![l] = a.through] /\ UNCHANGED delivery
              ELSE delivery' = [delivery EXCEPT ![l] = a.result] /\ UNCHANGED acked
    BY DEF Receive
  <1>4. \A k \in Leases : k # l => acked'[k] = acked[k] /\ delivery'[k] = delivery[k]
    BY <1>1, <1>3 DEF TypeOK
  <1>5. delivery[l] = "on" /\ call[l].first = acked[l] + 1
    BY <1>0 DEF OwnInv, Waits
  <1>6. Waits(l)'
    <2>1. CASE a.result = "Accepted"
      BY <1>2, <1>3, <1>5, <2>1 DEF Waits, Refusals
    <2>2. CASE a.result # "Accepted"
      <3>1. delivery'[l] = a.result /\ UNCHANGED acked
        BY <1>1, <1>3, <2>2 DEF TypeOK
      <3>2. PICK k : k = acked[l] + 1
        OBVIOUS
      <3>3. a.result \in Refusals => Cause(l, k)
        BY <1>0, <1>3, <1>5, <3>2 DEF OwnInv, Explained
      <3>4. a.result \in Refusals => Cause(l, k)'
        BY <1>1, <3>3, CauseStays
      <3>5. acked'[l] + 1 = k
        BY <3>1, <3>2
      <3> QED BY <1>2, <3>1, <3>4, <3>5 DEF Waits
    <2> QED BY <2>1, <2>2
  <1>7. \A k \in Leases : Waits(k)'
    BY <1>1, <1>2, <1>4, <1>6, WaitsStays
  <1>8. /\ \A r \in requests : Current(r)'
        /\ \A p \in prepared : Current(p)'
        /\ \A b \in answers : Explained(b)'
    <2>1. /\ \A r \in requests : r.lease \in Leases
          /\ \A p \in prepared : p.lease \in Leases
          /\ \A b \in answers : b.lease \in Leases
      BY <1>1 DEF TypeOK, Requests, Preparations, Answers
    <2> QED BY <1>0, <1>1, <1>2, <2>1, MessagesStay
  <1>9. ChunksInv'
    BY <1>0, <1>1, ChunkedStays DEF OwnInv, ChunksInv, networkVars, serverVars
  <1> QED BY <1>0, <1>7, <1>8, <1>9 DEF OwnInv, SendsInv, networkVars

\* Every step keeps the invariant of refusals.
LEMMA OwnInvStep ==
    ASSUME DeliveryInv, OwnInv, [Next]_vars
    PROVE  OwnInv'
  <1>0. TypeOK /\ Grows
    BY StepGrows DEF DeliveryInv
  <1>1. CASE Claim
    <2>1. /\ UNCHANGED <<acked, call, sends, requests, prepared, answers, records>>
          /\ \A l \in Leases : delivery'[l] = delivery[l] \/ delivery'[l] = "on"
      BY <1>0, <1>1 DEF Claim, TypeOK, networkVars
    <2> QED BY <1>0, <2>1, QuietKeeps
  <1>2. CASE PrepareAppend
    BY <1>2, PrepareOwn
  <1>3. CASE AppendJobEvents
    BY <1>3, AppendOwn
  <1>4. ASSUME NEW l \in Leases, Receive(l)
        PROVE  OwnInv'
    BY <1>4, ReceiveOwn
  <1>5. ASSUME NEW l \in Leases, SendBatch(l)
        PROVE  OwnInv'
    <2>1. PICK b : b = PendingBatch(l)
      OBVIOUS
    <2>2. delivery[l] = "on" /\ Send(l, b) /\ b.first = acked[l] + 1
      BY <1>5, <2>1 DEF SendBatch, PendingBatch
    <2> QED BY <1>5, <2>2, SendOwn DEF SendBatch
  <1>6. ASSUME NEW l \in Leases, SendAgain(l)
        PROVE  OwnInv'
    <2>1. PICK b : b = call[l]
      OBVIOUS
    <2>2. delivery[l] = "on" /\ Send(l, b) /\ b.first = acked[l] + 1
      BY <1>6, <2>1 DEF SendAgain, OwnInv, Waits
    <2> QED BY <1>6, <2>2, SendOwn DEF SendAgain
  <1>7. ASSUME NEW l \in Leases, SpoolEvent(l) \/ FinishAttempt(l) \/ CompleteJob(l)
        PROVE  UNCHANGED <<acked, call, sends, delivery, requests, prepared, answers, records>>
    BY <1>7 DEF SpoolEvent, FinishAttempt, CompleteJob, agentVars, networkVars, serverVars
  <1>8. ASSUME Requeue \/ UNCHANGED vars
        PROVE  UNCHANGED <<acked, call, sends, delivery, requests, prepared, answers, records>>
    BY <1>8 DEF Requeue, vars, agentVars, networkVars, serverVars
  <1>9. ASSUME NEW l \in Leases, GiveUp(l)
        PROVE  OwnInv'
    <2>1. /\ UNCHANGED <<acked, sends, delivery, requests, prepared, answers, records>>
          /\ \A k \in Leases : call'[k] = call[k] \/ call'[k] = None
      BY <1>0, <1>9 DEF GiveUp, TypeOK, networkVars, serverVars
    <2> QED BY <1>0, <2>1, QuietKeeps
  <1>10. ASSUME UNCHANGED <<acked, call, sends, delivery, requests, prepared, answers, records>>
         PROVE  OwnInv'
    BY <1>0, <1>10, QuietKeeps
  <1> QED BY <1>1, <1>2, <1>3, <1>4, <1>5, <1>6, <1>7, <1>8, <1>9, <1>10 DEF Next, AgentNext

\* A batch is refused for good only where another owner's events are stored, or where
\* it repeats log output that is stored and was never acknowledged: no other retry,
\* regrouping or delay of an Agent's sends makes job_events.rs find a gap, a conflict or
\* a wrong chunk in its stream, whatever happens between the preparation of an append
\* (agent_execution.rs append_events) and its transaction.
THEOREM OwnStreamAccepted == Spec => []OwnStreamIsAccepted
  <1>1. Init => OwnInv
    BY DEF Init, OwnInv, ChunksInv, SendsInv, Waits, Refusals
  <1>2. DeliveryInv /\ OwnInv /\ [Next]_vars => OwnInv'
    BY OwnInvStep
  <1>3. DeliveryInv /\ OwnInv => OwnStreamIsAccepted
    <2> SUFFICES ASSUME DeliveryInv, OwnInv, NEW l \in Leases, delivery[l] \in Refusals
                 PROVE  \/ \E n \in 1 .. Durable : events[n].lease # l
                        \/ \E n \in Output : n > acked[l] /\ n <= Durable /\ events[n] = Event(l, n)
      BY DEF OwnStreamIsAccepted, Refusals
    <2>1. CASE Foreign(l)
      BY <2>1 DEF Foreign
    <2>2. CASE OutputStored(l, acked[l] + 1)
      <3>1. PICK n \in Output : n >= acked[l] + 1 /\ n <= Durable /\ events[n] = Event(l, n)
        BY <2>2 DEF OutputStored
      <3>2. n \in Int /\ acked[l] \in Nat
        BY Basics, Constants DEF DeliveryInv
      <3> QED BY <3>1, <3>2
    <2> QED BY <2>1, <2>2 DEF OwnInv, Waits, Cause
  <1> QED BY <1>1, <1>2, <1>3, DeliveryInvHolds, PTL DEF Spec
=============================================================================
