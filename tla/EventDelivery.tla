--------------------------- MODULE EventDelivery ---------------------------
(***************************************************************************)
(* The event stream of one Job, from the spool of each of its successive   *)
(* owners to the job_events table: the delivery task of octacity-lifecycle,*)
(* the retries of the HTTP client, a network and servers that lose and     *)
(* delay, and the two transactions of the append handler with the mutation *)
(* record in front of the second.                                          *)
(*                                                                         *)
(* Sent requests are in a set: each is handled late or never, in any order,*)
(* and a client listens only to its latest send. An event is represented   *)
(* by the lease that produced it and its number; a digest of events is the *)
(* events. Chunks are the numbers of archived output events.               *)
(***************************************************************************)
EXTENDS Naturals, Sequences, FiniteSetsExt

CONSTANTS
    None,
    MaxLeases,      \* owners of the Job, one after the other
    MaxEvents,      \* events of one owner
    MaxSends,       \* HTTP sends of one owner
    BatchRecords,   \* SpoolLimits::batch_records
    Output          \* numbers of the events that carry stdout or stderr bytes

ASSUME DeliveryAssumption ==
    /\ MaxLeases \in Nat \ {0} /\ MaxEvents \in Nat \ {0} /\ MaxSends \in Nat \ {0}
    /\ BatchRecords \in Nat \ {0}
    /\ Output \subseteq 1 .. MaxEvents
    /\ None \notin 1 .. MaxLeases

Leases == 1 .. MaxLeases

\* Answers that end the delivery: CoordinatorError::is_retryable is false.
Rejections == {"LeaseLost", "EventGap", "Conflict", "InvalidRequest"}

VARIABLES
    spooled,      \* lease -> EventSpool::last_sequence
    acked,        \* lease -> EventSpool::acknowledged_sequence
    call,         \* lease -> the request its delivery task is waiting for, or None
    sends,        \* lease -> number of HTTP sends
    delivery,     \* lease -> "off", "on", or the rejection that ended it
    finished,     \* lease -> whether the completion document is persisted
    requests,     \* append requests on the network
    prepared,     \* append requests past prepare_job_event_append
    answers,      \* answers on the network
    issued,       \* leases granted so far
    owner,        \* the current lease of the Job, or None
    events,       \* job_events of the Job, in the order of their sequence
    records,      \* idempotency_records of kind AppendJobEvents
    completion    \* job_completions row: the lease and its final sequence

agentVars   == <<spooled, acked, call, sends, delivery, finished>>
networkVars == <<requests, prepared, answers>>
serverVars  == <<issued, owner, events, records, completion>>
vars == <<agentVars, networkVars, serverVars>>

Batch(first, last) == first .. last

\* The events of a batch, as the digests of the server see them.
Event(l, n) == [lease |-> l, number |-> n]

Init ==
    /\ spooled = [l \in Leases |-> 0] /\ acked = [l \in Leases |-> 0]
    /\ call = [l \in Leases |-> None] /\ sends = [l \in Leases |-> 0]
    /\ delivery = [l \in Leases |-> "off"] /\ finished = [l \in Leases |-> FALSE]
    /\ requests = {} /\ prepared = {} /\ answers = {}
    /\ issued = 0 /\ owner = None /\ events = <<>> /\ records = {} /\ completion = None

-----------------------------------------------------------------------------
(* Ownership: what the other transactions do to the lease                  *)

\* claim_ready_job grants the Job, and the Agent opens an empty spool.
Claim ==
    /\ owner = None /\ completion = None
    /\ issued < MaxLeases
    /\ issued' = issued + 1
    /\ owner' = issued'
    /\ delivery' = [delivery EXCEPT ![issued'] = "on"]
    /\ UNCHANGED <<spooled, acked, call, sends, finished, networkVars, events, records, completion>>

\* The deadline passes and recovery requeues the Job. The events stay, and the
\* former owner is not told.
Requeue ==
    /\ owner # None
    /\ owner' = None
    /\ UNCHANGED <<agentVars, networkVars, issued, events, records, completion>>

-----------------------------------------------------------------------------
(* The Agent                                                               *)

\* EventSpool::append.
SpoolEvent(l) ==
    /\ delivery[l] = "on" /\ ~ finished[l]
    /\ spooled[l] < MaxEvents
    /\ spooled' = [spooled EXCEPT ![l] = @ + 1]
    /\ UNCHANGED <<acked, call, sends, delivery, finished, networkVars, serverVars>>

\* EventSpool::pending_batch: the oldest records that are not acknowledged.
PendingBatch(l) == [first |-> acked[l] + 1, last |-> Min({acked[l] + BatchRecords, spooled[l]})]

Send(l, batch) ==
    /\ sends[l] < MaxSends
    /\ sends' = [sends EXCEPT ![l] = @ + 1]
    /\ call' = [call EXCEPT ![l] = batch]
    /\ requests' = requests \cup {[lease |-> l, send |-> sends'[l], first |-> batch.first, last |-> batch.last]}

\* The delivery task takes the oldest batch and sends it.
SendBatch(l) ==
    /\ delivery[l] = "on"
    /\ call[l] = None
    /\ acked[l] < spooled[l]
    /\ Send(l, PendingBatch(l))
    /\ UNCHANGED <<spooled, acked, delivery, finished, prepared, answers, serverVars>>

\* The operation timeout, a transport error or a retryable answer: the client
\* sends the same body again.
SendAgain(l) ==
    /\ call[l] # None
    /\ Send(l, call[l])
    /\ UNCHANGED <<spooled, acked, delivery, finished, prepared, answers, serverVars>>

\* RetriesExhausted: the delivery task keeps the records and starts over, with
\* what the spool holds by then.
GiveUp(l) ==
    /\ call[l] # None
    /\ call' = [call EXCEPT ![l] = None]
    /\ UNCHANGED <<spooled, acked, sends, delivery, finished, networkVars, serverVars>>

\* The answer to the latest send arrives: EventSpool::acknowledge, or the end of
\* the delivery.
Receive(l) ==
    /\ call[l] # None
    /\ \E a \in answers :
          /\ a.lease = l /\ a.send = sends[l]
          /\ IF a.result = "Accepted"
             THEN acked' = [acked EXCEPT ![l] = a.through] /\ UNCHANGED delivery
             ELSE delivery' = [delivery EXCEPT ![l] = a.result] /\ UNCHANGED acked
    /\ call' = [call EXCEPT ![l] = None]
    /\ UNCHANGED <<spooled, sends, finished, networkVars, serverVars>>

\* The spool is flushed and the completion document written; it is sent until it
\* is answered.
FinishAttempt(l) ==
    /\ delivery[l] = "on" /\ ~ finished[l]
    /\ spooled[l] > 0 /\ acked[l] = spooled[l]
    /\ finished' = [finished EXCEPT ![l] = TRUE]
    /\ UNCHANGED <<spooled, acked, call, sends, delivery, networkVars, serverVars>>

-----------------------------------------------------------------------------
(* The append handler                                                      *)

Durable == Len(events)

\* prepare_log_archive: the output that is not durable yet.
Chunks(first, last, durable) == {n \in Batch(first, last) \cap Output : n > durable}

Answer(r, result, through) ==
    answers' = answers \cup {[lease |-> r.lease, send |-> r.send, result |-> result, through |-> through]}

\* append_events up to append_job_events: a batch with output first reads the
\* cursor under the fence, and the chunks beyond it are written to the object store.
Prepare(r) ==
    IF Batch(r.first, r.last) \cap Output = {} \/ r.lease = owner
    THEN /\ prepared' = prepared \cup
              {[lease |-> r.lease, send |-> r.send, first |-> r.first, last |-> r.last,
                chunks |-> Chunks(r.first, r.last,
                                  IF Batch(r.first, r.last) \cap Output = {} THEN 0 ELSE Durable)]}
         /\ UNCHANGED answers
    ELSE Answer(r, "LeaseLost", 0) /\ UNCHANGED prepared

PrepareAppend ==
    /\ \E r \in requests : Prepare(r) /\ requests' = requests \ {r}
    /\ UNCHANGED <<agentVars, serverVars>>

\* Mutant: the idempotency key is the range of sequences, without the lease.
RecordOfRange(p) == {rec \in records : rec.first = p.first /\ rec.last = p.last}

\* The mutation record of this lease and range.
RecordOf(p) == {rec \in records : rec.lease = p.lease /\ rec.first = p.first /\ rec.last = p.last}

\* Mutant: an event at or below the cursor is refused instead of compared.
NothingReplayed(p) == \A n \in Batch(p.first, p.last) : n > Durable

\* Events at or below the cursor must be the ones stored.
ReplayedPrefix(p) == \A n \in Batch(p.first, p.last) : n <= Durable => events[n] = Event(p.lease, n)

\* job_events::execute. The record is looked up before the lease.
ReplayAppend(p, rec) ==
    /\ IF rec.chunks = p.chunks THEN Answer(p, "Accepted", Min({rec.acknowledged, p.last}))
                               ELSE Answer(p, "Conflict", 0)
    /\ UNCHANGED <<events, records>>

FreshAppend(p) ==
    LET result == IF p.lease # owner            THEN "LeaseLost"
                  ELSE IF ~ ReplayedPrefix(p)   THEN "Conflict"
                  ELSE IF p.first > Durable + 1 THEN "EventGap"
                  ELSE IF p.chunks # Chunks(p.first, p.last, Durable) THEN "InvalidRequest"
                  ELSE "Accepted"
        through == Max({Durable, p.last})
    IN  IF result = "Accepted"
        THEN /\ events' = [n \in 1 .. through |-> IF n <= Durable THEN events[n] ELSE Event(p.lease, n)]
             /\ records' = records \cup {[lease |-> p.lease, first |-> p.first, last |-> p.last,
                                          chunks |-> p.chunks, acknowledged |-> through]}
             /\ Answer(p, result, Min({through, p.last}))
        ELSE Answer(p, result, 0) /\ UNCHANGED <<events, records>>

AppendJobEvents ==
    /\ \E p \in prepared :
          /\ prepared' = prepared \ {p}
          /\ IF RecordOf(p) = {} THEN FreshAppend(p) ELSE \E rec \in RecordOf(p) : ReplayAppend(p, rec)
    /\ UNCHANGED <<agentVars, requests, issued, owner, completion>>

\* job_completion::execute_with_origin: only the current lease, and only with
\* the durable cursor as its final sequence.
CompleteJob(l) ==
    /\ finished[l]
    /\ completion = None
    /\ owner = l
    /\ spooled[l] = Durable
    /\ completion' = [lease |-> l, final |-> spooled[l]]
    /\ owner' = None
    /\ UNCHANGED <<agentVars, networkVars, issued, events, records>>

-----------------------------------------------------------------------------
AgentNext(l) ==
    \/ SpoolEvent(l) \/ SendBatch(l) \/ SendAgain(l) \/ GiveUp(l) \/ Receive(l) \/ FinishAttempt(l)

Next ==
    \/ Claim \/ Requeue
    \/ PrepareAppend \/ AppendJobEvents
    \/ \E l \in Leases : AgentNext(l) \/ CompleteJob(l)

Spec == Init /\ [][Next]_vars

-----------------------------------------------------------------------------
(* Safety                                                                  *)

Numbers == 0 .. MaxEvents

Batches      == [first : 1 .. MaxEvents, last : 1 .. MaxEvents]
Requests     == [lease : Leases, send : 1 .. MaxSends, first : 1 .. MaxEvents, last : 1 .. MaxEvents]
Preparations == [lease : Leases, send : 1 .. MaxSends, first : 1 .. MaxEvents, last : 1 .. MaxEvents,
                 chunks : SUBSET Output]
Answers      == [lease : Leases, send : 1 .. MaxSends, result : {"Accepted"} \cup Rejections,
                 through : Numbers]
Records      == [lease : Leases, first : 1 .. MaxEvents, last : 1 .. MaxEvents,
                 chunks : SUBSET Output, acknowledged : Numbers]

TypeOK ==
    /\ spooled \in [Leases -> Numbers]
    /\ acked \in [Leases -> Numbers] /\ \A l \in Leases : acked[l] <= spooled[l]
    /\ call \in [Leases -> Batches \cup {None}]
    /\ sends \in [Leases -> 0 .. MaxSends]
    /\ delivery \in [Leases -> {"off", "on"} \cup Rejections]
    /\ finished \in [Leases -> BOOLEAN]
    /\ requests \subseteq Requests /\ prepared \subseteq Preparations /\ answers \subseteq Answers
    /\ issued \in 0 .. MaxLeases /\ owner \in Leases \cup {None}
    /\ events \in Seq([lease : Leases, number : 1 .. MaxEvents]) /\ Durable <= MaxEvents
    /\ records \subseteq Records
    /\ completion \in [lease : Leases, final : Numbers] \cup {None}

\* Nothing is lost between spool and store. An event that an Agent has deleted from its
\* spool is stored, as that Agent produced it: spool.rs reclaims records only after the
\* server's answer, and the answer may come from a replay, from a late duplicate, or
\* after the Job has changed hands. The events of a completed Job are the whole stream
\* of the owner that completed it, with nothing of an earlier owner.
AcknowledgedIsStored ==
    /\ \A l \in Leases : \A n \in 1 .. acked[l] : n <= Durable /\ events[n] = Event(l, n)
    /\ completion # None =>
          /\ Durable = completion.final
          /\ \A n \in 1 .. Durable : events[n] = Event(completion.lease, n)

\* However sends are lost, repeated, delayed and regrouped, and whenever the cursor that
\* prepare_job_event_append read has moved on before the append commits, a batch is
\* refused for good only where another owner's events are stored, or where it repeats
\* log output that is stored and was never acknowledged (RepeatedBatchIsAcknowledged
\* is about those). Repeating, regrouping or delaying other events is never refused,
\* and an owner leaves no gap in its own stream.
OwnStreamIsAccepted ==
    \A l \in Leases :
        delivery[l] \in {"EventGap", "Conflict", "InvalidRequest"} =>
            \/ \E n \in 1 .. Durable : events[n].lease # l
            \/ \E n \in Output : n > acked[l] /\ n <= Durable /\ events[n] = Event(l, n)

\* agent-scheduling specification, lines 89-90: "WHEN the agent repeats events whose
\* chunk manifest and cursor already committed after losing an acknowledgement THEN the
\* server returns the same acknowledgement". So a batch is refused for good only where
\* another owner's events are stored, log output or not.
RepeatedBatchIsAcknowledged ==
    \A l \in Leases :
        delivery[l] \in {"EventGap", "Conflict", "InvalidRequest"} => \E n \in 1 .. Durable : events[n].lease # l

\* The same, for the check of log chunks alone: what prepare_job_event_append read
\* is still good when the append commits.
PreparationStaysValid == \A l \in Leases : delivery[l] # "InvalidRequest"

-----------------------------------------------------------------------------
(* What the requeue of a Job means for its next owner                      *)

\* store/src/cicd/builds/lease_recovery.rs:101: "The Job was returned to the ready
\* queue within its retry policy." The Agent that takes it from there is not
\* refused for good while it owns the Job.
RequeuedJobCanBeReported == owner # None => delivery[owner] # "Conflict"
=============================================================================
