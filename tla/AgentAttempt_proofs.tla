----------------------- MODULE AgentAttempt_proofs -----------------------
(***************************************************************************)
(* What is proved of the Agent's attempt, for spools, batches and channels *)
(* of any size and any number of runner items: a completion is the last    *)
(* word of an attempt, and the events it reports follow its journal.       *)
(***************************************************************************)
EXTENDS AgentAttempt, FiniteSetTheorems, TLAPS

-----------------------------------------------------------------------------
(* The inductive invariant                                                 *)

\* Where the lifecycle is once the cache session has been dealt with.
AfterRevoke == {"drain", "started", "freeze", "freezing", "upload", "uploading", "clean", "cleanup",
                "settle", "terminal", "complete", "stop"}

\* A process that runs no attempt is inside no append and has no delivery task, and
\* only some steps of the lifecycle append.
TasksInv ==
    /\ worker = "attempt" <=> pc # "off"
    /\ pc = "off" => delivery = "off"
    /\ pc \in {"create", "cache"} => delivery = "off"
    /\ pc = "create" => journal = <<>> /\ stream = <<>>
    /\ pc \notin {"off", "create"} => journal # <<>>
    /\ pending # None => pc \in {"drive", "drain", "panicCleanup", "freeze", "freezing", "uploading",
                                 "cleanup", "terminal"}
    /\ completed # None => pc \in {"stop", "fail", "off"}

\* The lifecycle leaves the drive loop only after the Job has ended, and a Job that
\* panicked leaves an error behind.
PanicInv ==
    LET ended == AfterRevoke \cup {"panic", "panicCleanup", "revoke"}
    IN  /\ pc \in {"panic", "panicCleanup"} => job = "panicked"
        /\ pc \in ended => job \in {"ok", "failed", "panicked"}
        /\ pc \in ended /\ job = "panicked" => error # None

\* Each step on the way to a completion without an error leaves behind what the
\* completion needs: the cache session, the workspace, the journal and the lease.
SoundInv ==
    /\ pc \in AfterRevoke /\ error = None => session # "granted"
    /\ pc = "cleanup" => JournalState = "Cleaning"
    /\ pc = "settle" /\ error = None => workspace = "none" /\ JournalState = "Cleaning"
    /\ pc \in {"terminal", "complete", "stop"} => error = None /\ workspace = "none"
    /\ pc = "terminal" => JournalState \in {"Cleaning", "Completing"}
    /\ pc = "terminal" /\ JournalState = "Completing" => lost = None
    /\ pc \in {"complete", "stop"} => JournalState = "Completing" /\ lost = None

\* What is acknowledged is stored, and the batch in flight starts where the
\* acknowledged events end.
SpoolInv ==
    /\ acked <= stored
    /\ delivery = "sending" => acked <= batch
    /\ pc \in {"complete", "stop"} => acked = Len(stream)
    /\ completed # None => completed = Len(stream) /\ acked = Len(stream)

\* The events of a sound attempt report its states in order; the state of the append
\* under way is the latest of the journal and not yet reported.
ReportInv ==
    error = None =>
        /\ InOrder(stream, journal)
        /\ Reports(stream, Len(stream)) \in {Len(journal), Len(journal) - 1}
        /\ worker = "attempt" =>
              IF pending = None \/ pending.kind = "Item"
              THEN Reports(stream, Len(stream)) = Len(journal)
              ELSE /\ Reports(stream, Len(stream)) = Len(journal) - 1
                   /\ pending.kind = JournalState

AttemptInv == TypeOK /\ TasksInv /\ PanicInv /\ SoundInv /\ SpoolInv /\ ReportInv
-----------------------------------------------------------------------------
(* Types                                                                   *)

\* A transition appends one state to the journal and begins one append.
LEMMA TransitionType ==
    ASSUME TypeOK, NEW state \in JournalStates, NEW token \in {"job", "delivery"}, Transition(state, token)
    PROVE  journal' \in Seq(JournalStates) /\ pending' \in Appendable
  BY DEF TypeOK, Transition, Appendable

\* Every step of the process, its tasks and the server keeps the types.
LEMMA NextType ==
    ASSUME AttemptInv, [Next]_vars
    PROVE  TypeOK'
  <1> USE LimitsAssumption DEF AttemptInv, TasksInv, SpoolInv, TypeOK, Appendable, JournalStates, Codes,
                               LeaseLosses, Errors, At, workerVars, eventVars, jobVars,
                               monitorVars, deliveryVars, serverVars
  <1>1. CASE AcquireLease
    <2>1. UNCHANGED <<shutdown, pending, monitor, delivery, workspace>>
      BY <1>1 DEF AcquireLease
    <2>2. running' \in BOOLEAN /\ cancelled' \in BOOLEAN /\ drain' \in BOOLEAN /\ stop' \in BOOLEAN
      BY <1>1, Zenon DEF AcquireLease
    <2>3. /\ worker' = "attempt" /\ pc' = "create" /\ dir' = "bare" /\ job' = "none" /\ session' = "none"
          /\ journal' = <<>> /\ stream' = <<>> /\ acked' = 0 /\ batch' = 0 /\ stored' = 0
          /\ channel' = 0 /\ items' = 0
          /\ lost' = None /\ failure' = None /\ error' = None /\ completed' = None
      BY <1>1 DEF AcquireLease
    <2> QED BY <2>1, <2>2, <2>3
  <1>2. CASE CreateEvents
    <2>1. journal' = <<"Preparing">> /\ stream' = <<"Preparing">> /\ stream = <<>> /\ Len(stream') = 1
      BY <1>2 DEF CreateEvents
    <2>2. completed = None
      BY <1>2 DEF CreateEvents
    <2> QED BY <1>2, <2>1, <2>2 DEF CreateEvents
  <1>3. CASE StartJob
    BY <1>3 DEF StartJob
  <1>4. CASE CacheGrantFails
    BY <1>4 DEF CacheGrantFails
  <1>5. CASE AppendEvent
    <2>1. pending \in Appendable /\ stream' = Append(stream, pending.kind)
      BY <1>5 DEF AppendEvent
    <2>2. stream' \in Seq(JournalStates \cup {"Item"}) /\ Len(stream') = Len(stream) + 1
      BY <2>1
    <2>3. pending' \in Appendable \cup {None}
      BY <1>5 DEF AppendEvent
    <2>4. running' \in BOOLEAN
      BY <1>5, Zenon DEF AppendEvent
    <2> QED BY <1>5, <2>2, <2>3, <2>4 DEF AppendEvent
  <1>6. CASE AppendCancelled
    BY <1>6 DEF AppendCancelled, AppendFails, OrInsert
  <1>7. CASE AppendIoFails
    BY <1>7 DEF AppendIoFails, AppendFails, OrInsert
  <1>8. CASE DriveItem
    <2>1. journal' \in Seq(JournalStates) /\ pending' \in Appendable \cup {None}
      BY <1>8, TransitionType DEF DriveItem, RecordItem
    <2> QED BY <1>8, <2>1 DEF DriveItem, RecordItem
  <1>9. CASE DriveMonitor
    BY <1>9 DEF DriveMonitor
  <1>10. CASE DriveDelivery
    BY <1>10 DEF DriveDelivery
  <1>11. CASE DriveJob
    BY <1>11 DEF DriveJob, OrInsert
  <1>12. CASE StartCleaning
    BY <1>12, TransitionType DEF StartCleaning
  <1>13. CASE CleanUp
    BY <1>13 DEF CleanUp
  <1>14. CASE RevokeCache
    BY <1>14 DEF RevokeCache, OrInsert
  <1>15. CASE DrainItem
    <2>1. journal' \in Seq(JournalStates) /\ pending' \in Appendable \cup {None}
      BY <1>15, TransitionType DEF DrainItem, RecordItem
    <2> QED BY <1>15, <2>1 DEF DrainItem, RecordItem
  <1>16. CASE Drained
    BY <1>16 DEF Drained
  <1>17. CASE FinishRunning
    <2>1. journal' \in Seq(JournalStates) /\ pending' \in Appendable \cup {None}
      BY <1>17, TransitionType DEF FinishRunning
    <2>3. error' \in Errors \cup {None} /\ pc' = "freeze"
      BY <1>17 DEF FinishRunning, OrInsert
    <2>2. UNCHANGED <<workerVars, dir, stream, acked, running, jobVars, cancelled, monitorVars, lost,
                      deliveryVars, stop, failure, workspace, session, serverVars>>
      BY <1>17 DEF FinishRunning
    <2> QED BY <2>1, <2>2, <2>3
  <1>18. CASE StartFreezing
    <2>1. journal' \in Seq(JournalStates) /\ pending' \in Appendable \cup {None}
      BY <1>18, TransitionType DEF StartFreezing
    <2> QED BY <1>18, <2>1 DEF StartFreezing
  <1>19. CASE StartUploading
    BY <1>19, TransitionType DEF StartUploading
  <1>20. CASE OutputPhase
    BY <1>20 DEF OutputPhase, Lost
  <1>21. CASE Settle
    BY <1>21 DEF Settle
  <1>22. CASE StartCompleting
    <2>1. UNCHANGED <<workerVars, dir, stream, acked, running, jobVars, cancelled, monitorVars,
                      deliveryVars, stop, workspace, session, serverVars>>
      BY <1>22 DEF StartCompleting
    <2>2. lost' \in LeaseLosses \cup {None}
      BY <1>22 DEF StartCompleting
    <2>3. pc' \in {"fail", "terminal"} /\ error' \in Errors \cup {None} /\ failure' \in Codes \cup {"Spool", None}
      BY <1>22, <2>2 DEF StartCompleting, Lost
    <2>4. journal' \in Seq(JournalStates) /\ pending' \in Appendable \cup {None}
      BY <1>22, TransitionType DEF StartCompleting
    <2> QED BY <2>1, <2>2, <2>3, <2>4
  <1>23. CASE Flush
    BY <1>23 DEF Flush, Lost
  <1>24. CASE CompletionAccepted
    BY <1>24 DEF CompletionAccepted
  <1>25. CASE CompletionFails
    BY <1>25 DEF CompletionFails, Lost
  <1>26. CASE StopDelivery
    BY <1>26 DEF StopDelivery
  <1>27. CASE AttemptFails
    BY <1>27 DEF AttemptFails, CleanupIncompleteAttempt
  <1>28. CASE AttemptCompletes
    BY <1>28 DEF AttemptCompletes
  <1>29. CASE DeliverySends
    BY <1>29 DEF DeliverySends, PendingBatch, SpoolEmpty
  <1>30. CASE DeliveryAcknowledged
    BY <1>30 DEF DeliveryAcknowledged
  <1>31. CASE DeliveryRetries
    BY <1>31 DEF DeliveryRetries
  <1>32. CASE DeliveryResumes
    BY <1>32 DEF DeliveryResumes
  <1>33. CASE DeliveryRejected
    BY <1>33 DEF DeliveryRejected
  <1>33a. CASE AcknowledgeFails
    BY <1>33a DEF AcknowledgeFails
  <1>34. CASE DeliveryStops
    BY <1>34 DEF DeliveryStops
  <1>35. CASE JobEmits
    BY <1>35 DEF JobEmits
  <1>36. CASE JobEnds
    BY <1>36 DEF JobEnds
  <1>37. CASE HeartbeatDirective
    <2>1. drain' \in BOOLEAN /\ cancelled' \in BOOLEAN
      BY <1>37, Zenon DEF HeartbeatDirective
    <2> QED BY <1>37, <2>1 DEF HeartbeatDirective
  <1>38. CASE HeartbeatFenced
    BY <1>38 DEF HeartbeatFenced, MonitorEnds
  <1>39. CASE DeadlinePasses
    BY <1>39 DEF DeadlinePasses, MonitorEnds
  <1>40. CASE MonitorShutdown
    BY <1>40 DEF MonitorShutdown, MonitorEnds
  <1>41. CASE Shutdown
    BY <1>41 DEF Shutdown
  <1>42. CASE Crash
    BY <1>42 DEF Crash
  <1>43. CASE Restart
    <2>1. shutdown' \in BOOLEAN
      BY <1>43, Zenon DEF Restart
    <2>2. dir' \in {"absent", "bare", "owned"}
      BY <1>43 DEF Restart, CleanupIncompleteAttempt
    <2> QED BY <1>43, <2>1, <2>2 DEF Restart
  <1>44. CASE UNCHANGED vars
    BY <1>44 DEF vars
    <1> QED BY <1>1, <1>2, <1>3, <1>4, <1>5, <1>6, <1>7, <1>8, <1>9, <1>10, <1>11, <1>12, <1>13,
             <1>14, <1>15, <1>16, <1>17, <1>18, <1>19, <1>20, <1>21, <1>22, <1>23, <1>24, <1>25,
             <1>26, <1>27, <1>28, <1>29, <1>30, <1>31, <1>32, <1>33, <1>33a, <1>34, <1>35, <1>36, <1>37,
             <1>38, <1>39, <1>40, <1>41, <1>42, <1>43, <1>44 DEF Next, LifecycleNext,
             DeliveryNext

-----------------------------------------------------------------------------
(* The order of the lifecycle                                              *)

\* Every step keeps what the lifecycle has established so far: the steps of the other
\* tasks do not disturb it, and each way to fail leaves an error or leads to "fail".
LEMMA NextControl ==
    ASSUME AttemptInv, [Next]_vars
    PROVE  TasksInv' /\ PanicInv' /\ SoundInv' /\ SpoolInv'
  <1> USE LimitsAssumption DEF AttemptInv, TypeOK, TasksInv, PanicInv, SoundInv, SpoolInv, AfterRevoke,
                               Appendable, JournalStates, Codes, LeaseLosses, Errors, JournalState,
                               ValidTransition, SpoolEmpty, At, workerVars, eventVars, jobVars,
                               monitorVars, deliveryVars, serverVars
  <1>1. CASE AcquireLease
    BY <1>1 DEF AcquireLease
  <1>2. CASE CreateEvents
    BY <1>2 DEF CreateEvents
  <1>3. CASE StartJob
    BY <1>3 DEF StartJob
  <1>4. CASE CacheGrantFails
    BY <1>4 DEF CacheGrantFails
  <1>5. CASE AppendEvent
    BY <1>5 DEF AppendEvent
  <1>6. CASE AppendCancelled
    BY <1>6 DEF AppendCancelled, AppendFails, OrInsert
  <1>7. CASE AppendIoFails
    BY <1>7 DEF AppendIoFails, AppendFails, OrInsert
  <1>8. CASE DriveItem
    BY <1>8 DEF DriveItem, RecordItem, Transition
  <1>9. CASE DriveMonitor
    BY <1>9 DEF DriveMonitor
  <1>10. CASE DriveDelivery
    BY <1>10 DEF DriveDelivery
  <1>11. CASE DriveJob
    BY <1>11 DEF DriveJob, OrInsert
  <1>12. CASE StartCleaning
    BY <1>12 DEF StartCleaning, Transition
  <1>13. CASE CleanUp
    BY <1>13 DEF CleanUp
  <1>14. CASE RevokeCache
    BY <1>14 DEF RevokeCache, OrInsert
  <1>15. CASE DrainItem
    BY <1>15 DEF DrainItem, RecordItem, Transition
  <1>16. CASE Drained
    BY <1>16 DEF Drained
  <1>17. CASE FinishRunning
    BY <1>17 DEF FinishRunning, Transition, OrInsert
  <1>18. CASE StartFreezing
    BY <1>18 DEF StartFreezing, Transition
  <1>19. CASE StartUploading
    BY <1>19 DEF StartUploading, Transition
  <1>20. CASE OutputPhase
    BY <1>20 DEF OutputPhase, Lost
  <1>21. CASE Settle
    BY <1>21 DEF Settle
  <1>22. CASE StartCompleting
    BY <1>22 DEF StartCompleting, Transition, Lost
  <1>23. CASE Flush
    BY <1>23 DEF Flush, Lost
  <1>24. CASE CompletionAccepted
    BY <1>24 DEF CompletionAccepted
  <1>25. CASE CompletionFails
    BY <1>25 DEF CompletionFails, Lost
  <1>26. CASE StopDelivery
    BY <1>26 DEF StopDelivery
  <1>27. CASE AttemptFails
    BY <1>27 DEF AttemptFails, CleanupIncompleteAttempt
  <1>28. CASE AttemptCompletes
    BY <1>28 DEF AttemptCompletes
  <1>29. CASE DeliverySends
    BY <1>29 DEF DeliverySends, PendingBatch, SpoolEmpty
  <1>30. CASE DeliveryAcknowledged
    BY <1>30 DEF DeliveryAcknowledged
  <1>31. CASE DeliveryRetries
    BY <1>31 DEF DeliveryRetries
  <1>32. CASE DeliveryResumes
    BY <1>32 DEF DeliveryResumes
  <1>33. CASE DeliveryRejected
    BY <1>33 DEF DeliveryRejected
  <1>33a. CASE AcknowledgeFails
    BY <1>33a DEF AcknowledgeFails
  <1>34. CASE DeliveryStops
    BY <1>34 DEF DeliveryStops
  <1>35. CASE JobEmits
    BY <1>35 DEF JobEmits
  <1>36. CASE JobEnds
    BY <1>36 DEF JobEnds
  <1>37. CASE HeartbeatDirective
    BY <1>37 DEF HeartbeatDirective
  <1>38. CASE HeartbeatFenced
    BY <1>38 DEF HeartbeatFenced, MonitorEnds
  <1>39. CASE DeadlinePasses
    BY <1>39 DEF DeadlinePasses, MonitorEnds
  <1>40. CASE MonitorShutdown
    BY <1>40 DEF MonitorShutdown, MonitorEnds
  <1>41. CASE Shutdown
    BY <1>41 DEF Shutdown
  <1>42. CASE Crash
    BY <1>42 DEF Crash
  <1>43. CASE Restart
    BY <1>43 DEF Restart, CleanupIncompleteAttempt
  <1>44. CASE UNCHANGED vars
    BY <1>44 DEF vars
    <1> QED BY <1>1, <1>2, <1>3, <1>4, <1>5, <1>6, <1>7, <1>8, <1>9, <1>10, <1>11, <1>12, <1>13,
             <1>14, <1>15, <1>16, <1>17, <1>18, <1>19, <1>20, <1>21, <1>22, <1>23, <1>24, <1>25,
             <1>26, <1>27, <1>28, <1>29, <1>30, <1>31, <1>32, <1>33, <1>33a, <1>34, <1>35, <1>36, <1>37,
             <1>38, <1>39, <1>40, <1>41, <1>42, <1>43, <1>44 DEF Next, LifecycleNext,
             DeliveryNext

-----------------------------------------------------------------------------
(* Events and journal                                                      *)

\* An event appended to the stream counts as a report unless it is a runner item, and
\* the counts of the earlier events stay.
LEMMA ReportsOfAppend ==
    ASSUME NEW K, NEW events \in Seq(K), NEW k \in K
    PROVE  /\ \A n \in 0 .. Len(events) : Reports(Append(events, k), n) = Reports(events, n)
           /\ Reports(events, Len(events)) \in Nat
           /\ Reports(Append(events, k), Len(events) + 1) =
                 Reports(events, Len(events)) + (IF k = "Item" THEN 0 ELSE 1)
  <1> DEFINE more == Append(events, k)
             R(n) == {i \in 1 .. n : events[i] # "Item"}
             M(n) == {i \in 1 .. n : more[i] # "Item"}
  <1>1. more \in Seq(K) /\ Len(more) = Len(events) + 1 /\ more[Len(events) + 1] = k
    OBVIOUS
  <1>2. \A i \in 1 .. Len(events) : more[i] = events[i]
    OBVIOUS
  <1>3. \A n \in 0 .. Len(events) : M(n) = R(n)
    BY <1>2
  <1>4. IsFiniteSet(R(Len(events)))
    <2>1. IsFiniteSet(1 .. Len(events))
      BY FS_Interval
    <2> QED BY <2>1, FS_Subset
  <1>5. M(Len(events) + 1) = IF k = "Item" THEN R(Len(events)) ELSE R(Len(events)) \cup {Len(events) + 1}
    <2> HIDE DEF more
    <2> QED BY <1>1, <1>2
  <1>6. Cardinality(R(Len(events))) \in Nat
    BY <1>4, FS_CardinalityType
  <1>7. Cardinality(R(Len(events)) \cup {Len(events) + 1}) = Cardinality(R(Len(events))) + 1
    <2>1. Len(events) + 1 \notin R(Len(events))
      OBVIOUS
    <2> QED BY <1>4, <2>1, FS_AddElement
  <1>8. \A n \in Nat : Reports(events, n) = Cardinality(R(n)) /\ Reports(more, n) = Cardinality(M(n))
    BY DEF Reports
  <1> HIDE DEF R, M, more
  <1>9. SUFFICES /\ \A n \in 0 .. Len(events) : Reports(more, n) = Reports(events, n)
                 /\ Reports(events, Len(events)) \in Nat
                 /\ Reports(more, Len(events) + 1) =
                       Reports(events, Len(events)) + (IF k = "Item" THEN 0 ELSE 1)
    BY DEF more
  <1>10. Len(events) \in Nat /\ Len(events) + 1 \in Nat
    OBVIOUS
  <1> QED BY <1>3, <1>5, <1>6, <1>7, <1>8, <1>10

\* A report appended to the stream keeps the order when it is of the next state.
LEMMA OrderOfAppend ==
    ASSUME NEW K, NEW events \in Seq(K), NEW k \in K, NEW L, NEW states \in Seq(L),
           InOrder(events, states),
           k = "Item" \/ (/\ Reports(events, Len(events)) = Len(states) - 1
                         /\ k = states[Len(states)])
    PROVE  InOrder(Append(events, k), states)
  <1> DEFINE more == Append(events, k)
  <1>1. more \in Seq(K) /\ Len(more) = Len(events) + 1 /\ more[Len(events) + 1] = k
    OBVIOUS
  <1>2. \A i \in 1 .. Len(events) : more[i] = events[i] /\ Reports(more, i) = Reports(events, i)
    BY ReportsOfAppend
  <1>3. k # "Item" => Reports(more, Len(events) + 1) = Len(states) /\ Len(states) \in 1 .. Len(states)
    BY ReportsOfAppend
  <1> HIDE DEF more
  <1>4. SUFFICES InOrder(more, states)
    BY DEF more
  <1> QED BY <1>1, <1>2, <1>3 DEF InOrder

\* A state appended to the journal leaves the order of the earlier ones as it was.
LEMMA OrderOfTransition ==
    ASSUME NEW K, NEW events \in Seq(K), NEW L, NEW states \in Seq(L), NEW next \in L,
           InOrder(events, states)
    PROVE  InOrder(events, Append(states, next))
  BY DEF InOrder

\* A transition of the journal, with its event still to be appended, keeps the reports.
LEMMA TransitionReports ==
    ASSUME AttemptInv, NEW state \in JournalStates, NEW token \in {"job", "delivery"},
           Transition(state, token), pending = None, worker = "attempt", UNCHANGED <<worker, stream, error>>
    PROVE  ReportInv'
  <1>1. journal \in Seq(JournalStates) /\ stream \in Seq(JournalStates \cup {"Item"})
    BY DEF AttemptInv, TypeOK
  <1>2. SUFFICES ASSUME error = None PROVE ReportInv'
    BY DEF ReportInv
  <1>3. InOrder(stream, journal) /\ Reports(stream, Len(stream)) = Len(journal)
    BY <1>2 DEF AttemptInv, ReportInv
  <1>4. InOrder(stream, journal')
    BY <1>1, <1>3, OrderOfTransition DEF Transition
  <1>5. Len(journal') = Len(journal) + 1 /\ journal'[Len(journal')] = state
    BY <1>1 DEF Transition
  <1>6. pending' # None /\ pending'.kind = state /\ state # "Item"
    BY LimitsAssumption DEF Transition, Appendable, JournalStates
  <1> QED BY <1>1, <1>3, <1>4, <1>5, <1>6 DEF ReportInv, JournalState

\* Recording a runner item keeps the reports: it is a transition to Running or an item.
LEMMA RecordItemReports ==
    ASSUME AttemptInv, RecordItem, pending = None, worker = "attempt", UNCHANGED <<worker, stream, error>>
    PROVE  ReportInv'
  <1>1. CASE running
    BY <1>1, LimitsAssumption DEF RecordItem, AttemptInv, ReportInv, JournalState
  <1>2. CASE ~ running
    BY <1>2, TransitionReports DEF RecordItem, JournalStates
  <1> QED BY <1>1, <1>2

\* A step that leaves journal and events alone and repairs no error keeps the reports,
\* unless it begins or ends an append of a sound attempt.
LEMMA QuietReports ==
    ASSUME AttemptInv, UNCHANGED <<journal, stream>>,
           error' = None => /\ error = None
                            /\ worker' = "attempt" => worker = "attempt" /\ pending' = pending
    PROVE  ReportInv'
  BY DEF AttemptInv, ReportInv, JournalState

\* Every step keeps the reports in step with the journal.
LEMMA NextReport ==
    ASSUME AttemptInv, [Next]_vars
    PROVE  ReportInv'
  <1> USE LimitsAssumption DEF At, workerVars, eventVars, jobVars,
                               monitorVars, deliveryVars, serverVars
  <1>1. CASE AcquireLease
    <2>1. stream' = <<>> /\ journal' = <<>> /\ pending' = None
      BY <1>1 DEF AcquireLease, AttemptInv, TasksInv
    <2>2. Reports(<<>>, 0) = 0 /\ InOrder(<<>>, <<>>)
      BY FS_EmptySet DEF Reports, InOrder
    <2> QED BY <2>1, <2>2 DEF ReportInv
  <1>2. CASE CreateEvents
    <2>1. stream' = <<"Preparing">> /\ journal' = <<"Preparing">> /\ pending' = None
      BY <1>2 DEF CreateEvents
    <2>2. {i \in 1 .. 1 : <<"Preparing">>[i] # "Item"} = {1}
      OBVIOUS
    <2>3. Reports(<<"Preparing">>, 1) = 1
      BY <2>2, FS_Singleton DEF Reports
    <2>4. InOrder(<<"Preparing">>, <<"Preparing">>)
      BY <2>3 DEF InOrder
    <2> QED BY <2>1, <2>3, <2>4 DEF ReportInv
  <1>3. CASE AppendEvent
    <2> SUFFICES ASSUME error = None PROVE ReportInv'
      BY <1>3 DEF AppendEvent, ReportInv
    <2> DEFINE K == JournalStates \cup {"Item"}
    <2>1. stream \in Seq(K) /\ journal \in Seq(JournalStates) /\ pending \in Appendable /\ pending.kind \in K
      BY <1>3 DEF AppendEvent, AttemptInv, TypeOK, Appendable
    <2>2. stream' = Append(stream, pending.kind) /\ UNCHANGED <<journal, worker, error>> /\ worker = "attempt"
      BY <1>3 DEF AppendEvent
    <2>3. Len(stream') = Len(stream) + 1
      BY <2>1, <2>2
    <2>4. /\ InOrder(stream, journal)
          /\ pending.kind = "Item" => Reports(stream, Len(stream)) = Len(journal)
          /\ pending.kind # "Item" => /\ Reports(stream, Len(stream)) = Len(journal) - 1
                                     /\ pending.kind = journal[Len(journal)]
      BY <1>3, <2>1, <2>2 DEF AppendEvent, AttemptInv, ReportInv, JournalState
    <2> HIDE DEF K
    <2>5. InOrder(stream', journal)
      BY <2>1, <2>2, <2>4, OrderOfAppend
    <2>6. Reports(stream', Len(stream')) = Len(journal)
      BY <2>1, <2>2, <2>3, <2>4, ReportsOfAppend
    <2>7. pending' = None \/ pending'.kind = "Item"
      BY <1>3 DEF AppendEvent
    <2> QED BY <2>2, <2>5, <2>6, <2>7 DEF ReportInv
  <1>4. CASE DriveItem
    BY <1>4, RecordItemReports DEF DriveItem, AttemptInv, ReportInv, JournalState
  <1>5. CASE StartCleaning
    BY <1>5, TransitionReports DEF StartCleaning, JournalStates
  <1>6. CASE DrainItem
    BY <1>6, RecordItemReports DEF DrainItem, AttemptInv
  <1>7. CASE FinishRunning
    <2>1. CASE ~ running /\ ValidTransition(JournalState, "Running")
      BY <1>7, <2>1, TransitionReports DEF FinishRunning, JournalStates
    <2>2. CASE running \/ ~ ValidTransition(JournalState, "Running")
      BY <1>7, <2>2 DEF FinishRunning, OrInsert, AttemptInv, ReportInv, JournalState, Errors
    <2> QED BY <2>1, <2>2
  <1>8. CASE StartFreezing
    BY <1>8, TransitionReports DEF StartFreezing, AttemptInv, ReportInv, JournalState, JournalStates
  <1>9. CASE StartUploading
    BY <1>9, TransitionReports DEF StartUploading, JournalStates
  <1>10. CASE StartCompleting
    <2>1. CASE Transition("Completing", "delivery") /\ UNCHANGED <<pc, error, failure>>
      BY <1>10, <2>1, TransitionReports DEF StartCompleting, JournalStates
    <2>2. CASE pc' = "fail" /\ error' # None
      BY <2>2 DEF ReportInv
    <2>3. \A outcome \in LeaseLosses : Lost(outcome) # None
      BY DEF Lost, LeaseLosses, Errors
    <2>4. lost \in LeaseLosses \cup {None} /\ failure \in Codes \cup {"Spool", None}
      BY DEF AttemptInv, TypeOK
    <2> QED BY <1>10, <2>1, <2>2, <2>3, <2>4 DEF StartCompleting
  <1>11. CASE StartJob \/ DriveMonitor \/ Drained \/ Settle \/ CompletionAccepted \/ StopDelivery
              \/ AttemptFails \/ AttemptCompletes
    BY <1>11, QuietReports DEF StartJob, DriveMonitor, Drained, Settle, CompletionAccepted,
                               StopDelivery, AttemptFails, AttemptCompletes
  <1>12. CASE JobEmits \/ JobEnds \/ HeartbeatDirective \/ HeartbeatFenced \/ DeadlinePasses \/
              MonitorShutdown \/ Shutdown \/ Crash \/ Restart
    BY <1>12, QuietReports DEF JobEmits, JobEnds, HeartbeatDirective, HeartbeatFenced,
                               MonitorEnds, DeadlinePasses, MonitorShutdown, Shutdown, Crash,
                               Restart
  <1>13. CASE DeliveryNext
    BY <1>13, QuietReports DEF DeliveryNext, DeliverySends, DeliveryAcknowledged, DeliveryRetries,
                               DeliveryResumes, DeliveryRejected, AcknowledgeFails, DeliveryStops
  <1>14. CASE CacheGrantFails \/ AppendCancelled \/ AppendIoFails \/ DriveDelivery \/ DriveJob \/
              CleanUp \/ RevokeCache \/ OutputPhase \/ Flush \/ CompletionFails
    BY <1>14, QuietReports DEF CacheGrantFails, AppendCancelled, AppendFails, OrInsert,
                               AppendIoFails, DriveDelivery, DriveJob, CleanUp, RevokeCache,
                               OutputPhase, Lost, Flush, CompletionFails, AttemptInv, TypeOK,
                               LeaseLosses, Codes, Errors
  <1>15. CASE UNCHANGED vars
    BY <1>15, QuietReports DEF vars
    <1> QED BY <1>1, <1>2, <1>3, <1>4, <1>5, <1>6, <1>7, <1>8, <1>9, <1>10, <1>11, <1>12, <1>13,
             <1>14, <1>15 DEF Next, LifecycleNext, DeliveryNext

-----------------------------------------------------------------------------
(* The theorems                                                            *)

\* The idle process of the first start satisfies the invariant.
LEMMA InitAttempt == Init => AttemptInv
  <1> SUFFICES ASSUME Init PROVE AttemptInv
    OBVIOUS
  <1>1. /\ shutdown \in BOOLEAN /\ running \in BOOLEAN /\ cancelled \in BOOLEAN
        /\ drain \in BOOLEAN /\ stop \in BOOLEAN
    BY Zenon DEF Init
  <1>2. TypeOK
    BY <1>1, LimitsAssumption DEF Init, TypeOK
  <1>3. Reports(<<>>, 0) = 0 /\ InOrder(<<>>, <<>>)
    BY FS_EmptySet DEF Reports, InOrder
  <1> QED BY <1>2, <1>3 DEF Init, AttemptInv, TasksInv, PanicInv, SoundInv, SpoolInv, ReportInv, AfterRevoke

\* The invariant is inductive.
LEMMA NextAttempt == AttemptInv /\ [Next]_vars => AttemptInv'
  BY NextType, NextControl, NextReport DEF AttemptInv

\* It holds in every reachable state, crashes and restarts included.
LEMMA Attempt == Spec => []AttemptInv
  BY InitAttempt, NextAttempt, PTL DEF Spec

\* The state of the process, its tasks and the server keeps its types.
THEOREM TypeCorrect == Spec => []TypeOK
  <1>1. AttemptInv => TypeOK
    BY DEF AttemptInv
  <1> QED BY <1>1, Attempt, PTL

\* A completion is requested only when every event is acknowledged, the workspace is gone
\* and the cache session given back; its sequence is the end of the stream for good; and
\* an attempt that has seen its lease lost never gets there.
THEOREM CompletionFinal == Spec => []CompletionIsFinal
  <1>1. AttemptInv => CompletionIsFinal
    BY DEF AttemptInv, TypeOK, TasksInv, SoundInv, SpoolInv, AfterRevoke, CompletionIsFinal,
           CompletionComesLast, CompletionSealsStream, LostLeaseNeverCompletes, SpoolEmpty
  <1> QED BY <1>1, Attempt, PTL

\* The events of an attempt without an error report the states of its journal in order,
\* all but the latest at least, and those of a completed attempt all of them.
THEOREM EventsReported == Spec => []EventsFollowJournal
  <1>1. AttemptInv => EventsFollowJournal
    BY DEF AttemptInv, TasksInv, SoundInv, ReportInv, EventsFollowJournal
  <1> QED BY <1>1, Attempt, PTL
=============================================================================
