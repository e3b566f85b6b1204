---------------------------- MODULE AgentAttempt ----------------------------
(***************************************************************************)
(* One Agent process and the leased attempt it runs: the worker loop of    *)
(* octacity-agent, the attempt state machine of octacity-lifecycle with    *)
(* its journal and bounded event spool, the delivery task that replays the *)
(* spool, and the lease monitor of octacity-coordinator.                   *)
(*                                                                         *)
(* Four tasks run concurrently: the lifecycle (program counter pc), the    *)
(* Job (job), the delivery (delivery) and the monitor (monitor). An action *)
(* is the code between two awaits of one of them. Answers of the server    *)
(* are nondeterministic; what it stored is kept in stored and completed.   *)
(***************************************************************************)
EXTENDS Naturals, Sequences, FiniteSets

CONSTANTS
    None,
    MaxRecords,       \* SpoolLimits::max_records
    BatchRecords,     \* SpoolLimits::batch_records
    ChannelCapacity,  \* event_channel_capacity
    MaxItems          \* runner items of one attempt (bound of the instance)

JournalStates == {"Preparing", "Running", "Freezing", "Uploading", "Cleaning", "Completing"}

\* The lease codes of the coordinator protocol and the other permanent rejections.
Codes == {"Fenced", "Expired", "Rejected"}

LeaseLosses == {"Fenced", "Expired", "Shutdown"}

\* JobLifecycleError: LeaseLost(outcome) and the kinds the worker does not tell apart.
Lost(outcome) == CASE outcome = "Fenced" -> "LostFenced"
                   [] outcome = "Expired" -> "LostExpired"
                   [] outcome = "Shutdown" -> "LostShutdown"

Errors == Codes \cup {"Cancelled", "Transport", "Spool", "Join", "Cleanup", "InvalidTransition",
                      "LostFenced", "LostExpired", "LostShutdown"}

\* What the lifecycle appends: an event and the token that gives the append up.
Appendable == [kind : JournalStates \cup {"Item"}, token : {"job", "delivery"}]

ASSUME LimitsAssumption ==
    /\ MaxRecords \in Nat \ {0}
    /\ BatchRecords \in 1 .. MaxRecords
    /\ ChannelCapacity \in Nat \ {0}
    /\ MaxItems \in Nat
    /\ None \notin Errors \cup LeaseLosses \cup Appendable

VARIABLES
    worker,      \* the process: "idle", "attempt", "stopped", "failed" or "crashed"
    shutdown,    \* the shutdown token
    pc,          \* where the lifecycle is
    dir,         \* attempt directory: "absent", "bare" or "owned" (valid journal)
    journal,     \* states synced to journal.jsonl
    stream,      \* kinds of the events given a sequence number by the spool
    acked,       \* EventSpool::acknowledged_sequence
    pending,     \* event the lifecycle is appending, with its cancellation token
    running,     \* AttemptEventState::running
    channel,     \* runner items in the mpsc channel
    items,       \* runner items produced so far
    job,         \* the Job task: "none", "running", "ok", "failed" or "panicked"
    cancelled,   \* job_cancellation token
    monitor,     \* lease monitor: "off", "active" or how it ended
    lost,        \* lease_outcome, once the lifecycle has seen it
    drain,       \* sticky drain flag
    delivery,    \* delivery task: "off", "idle", "sending", "backoff" or "ended"
    batch,       \* last sequence of the batch in flight
    stop,        \* delivery_stop token
    failure,     \* how the delivery task ended, until the lifecycle has seen it
    error,       \* ActiveExecution::error
    workspace,   \* execution resources: "none" or "present"
    session,     \* cache session: "none", "granted" or "revoked"
    stored,      \* server: greatest stored sequence of this attempt
    completed    \* server: final sequence of the recorded completion

workerVars   == <<worker, shutdown>>
eventVars    == <<journal, stream, pending, running>>
jobVars      == <<channel, items, job>>
monitorVars  == <<monitor, drain>>
deliveryVars == <<delivery, batch>>
serverVars   == <<stored, completed>>
vars == <<workerVars, pc, dir, eventVars, acked, jobVars, cancelled, monitorVars, lost,
          deliveryVars, stop, failure, error, workspace, session, serverVars>>

-----------------------------------------------------------------------------
(* Journal and spool                                                       *)

\* journal::valid_transition.
ValidTransition(from, to) ==
    \/ from = "Preparing" /\ to \in {"Running", "Cleaning"}
    \/ from = "Running"   /\ to \in {"Freezing", "Cleaning"}
    \/ from = "Freezing"  /\ to \in {"Uploading", "Cleaning"}
    \/ from = "Uploading" /\ to = "Cleaning"
    \/ from = "Cleaning"  /\ to = "Completing"

JournalState == journal[Len(journal)]

\* EventSpool::append refuses a record beyond max_records.
SpoolFull == Len(stream) - acked >= MaxRecords

SpoolEmpty == acked = Len(stream)

\* EventSpool::pending_batch.
PendingBatch == IF Len(stream) - acked > BatchRecords THEN acked + BatchRecords ELSE Len(stream)

\* Mutant: the transition is journalled and its event forgotten.
TransitionWithoutEvent(state, token) ==
    /\ ValidTransition(JournalState, state)
    /\ journal' = Append(journal, state)
    /\ pending' = IF token = "job" THEN [kind |-> state, token |-> token] ELSE None

\* delivery::transition: the journal is synced, then the event is appended.
Transition(state, token) ==
    /\ ValidTransition(JournalState, state)
    /\ journal' = Append(journal, state)
    /\ pending' = [kind |-> state, token |-> token]

\* The lifecycle task is at step p and not inside an append.
At(p) == worker = "attempt" /\ pc = p /\ pending = None

\* get_or_insert on ActiveExecution::error.
OrInsert(e) == IF error = None THEN e ELSE error

-----------------------------------------------------------------------------
Init ==
    /\ worker = "idle" /\ shutdown = FALSE
    /\ pc = "off" /\ dir = "absent"
    /\ journal = <<>> /\ stream = <<>> /\ acked = 0 /\ pending = None /\ running = FALSE
    /\ channel = 0 /\ items = 0 /\ job = "none" /\ cancelled = FALSE
    /\ monitor = "off" /\ lost = None /\ drain = FALSE
    /\ delivery = "off" /\ batch = 0 /\ stop = FALSE /\ failure = None
    /\ error = None /\ workspace = "none" /\ session = "none"
    /\ stored = 0 /\ completed = None

-----------------------------------------------------------------------------
(* Starting an attempt                                                     *)

\* run_loaded received a lease: create_attempt_root.
AcquireLease ==
    /\ worker = "idle"
    /\ ~ shutdown
    /\ worker' = "attempt" /\ pc' = "create" /\ dir' = "bare"
    /\ journal' = <<>> /\ stream' = <<>> /\ acked' = 0 /\ running' = FALSE
    /\ channel' = 0 /\ items' = 0 /\ job' = "none" /\ cancelled' = FALSE
    /\ lost' = None /\ drain' = FALSE /\ batch' = 0 /\ stop' = FALSE /\ failure' = None
    /\ error' = None /\ session' = "none" /\ stored' = 0 /\ completed' = None
    /\ UNCHANGED <<shutdown, pending, monitor, delivery, workspace>>

\* AttemptEventState::create, then LeaseMonitor::start.
CreateEvents ==
    /\ At("create")
    /\ journal' = <<"Preparing">>
    /\ dir' = "owned"
    /\ stream' = <<"Preparing">>
    /\ monitor' = "active"
    /\ pc' = "cache"
    /\ UNCHANGED <<workerVars, acked, pending, running, jobVars, cancelled, drain, lost, deliveryVars,
                   stop, failure, error, workspace, session, serverVars>>

\* The cache session, when the Job asks for one, is granted; the delivery task
\* and the Job start.
StartJob ==
    /\ At("cache")
    /\ session' \in {"none", "granted"}
    /\ delivery' = "idle"
    /\ job' = "running"
    /\ workspace' = "present"
    /\ pc' = "drive"
    /\ UNCHANGED <<workerVars, dir, eventVars, acked, channel, items, cancelled, monitorVars, lost, batch,
                   stop, failure, error, serverVars>>

\* begin_cache_session failed: remove_unstarted_attempt, and the process ends.
CacheGrantFails ==
    /\ At("cache")
    /\ cancelled' = TRUE
    /\ monitor' = "off"
    /\ dir' = "absent"
    /\ error' = "Transport"
    /\ worker' = "failed"
    /\ pc' = "off"
    /\ UNCHANGED <<shutdown, eventVars, acked, jobVars, drain, lost, deliveryVars, stop, failure,
                   workspace, session, serverVars>>

-----------------------------------------------------------------------------
(* The Job task                                                            *)

JobEmits ==
    /\ worker = "attempt" /\ job = "running"
    /\ items < MaxItems /\ channel < ChannelCapacity
    /\ items' = items + 1
    /\ channel' = channel + 1
    /\ UNCHANGED <<workerVars, pc, dir, eventVars, acked, job, cancelled, monitorVars, lost, deliveryVars,
                   stop, failure, error, workspace, session, serverVars>>

JobEnds ==
    /\ worker = "attempt" /\ job = "running"
    /\ job' \in {"ok", "failed", "panicked"}
    /\ UNCHANGED <<workerVars, pc, dir, eventVars, acked, channel, items, cancelled, monitorVars, lost,
                   deliveryVars, stop, failure, error, workspace, session, serverVars>>

-----------------------------------------------------------------------------
(* Appending one event                                                     *)

\* record_runner_item: the first item moves the attempt to Running.
RecordItem ==
    /\ channel' = channel - 1
    /\ IF running THEN /\ pending' = [kind |-> "Item", token |-> "job"]
                       /\ UNCHANGED journal
                  ELSE Transition("Running", "job")

\* delivery::append succeeds.
AppendEvent ==
    /\ worker = "attempt" /\ pending # None
    /\ ~ SpoolFull
    /\ stream' = Append(stream, pending.kind)
    /\ IF pending.kind = "Running" /\ pending.token = "job"
       THEN running' = TRUE /\ pending' = [kind |-> "Item", token |-> "job"]
       ELSE pending' = None /\ UNCHANGED running
    /\ UNCHANGED <<workerVars, pc, dir, journal, acked, jobVars, cancelled, monitorVars, lost, deliveryVars,
                   stop, failure, error, workspace, session, serverVars>>

\* The token that append waits on besides the progress of the delivery.
TokenCancelled(token) == IF token = "job" THEN cancelled ELSE stop

\* What the caller of a failed append does with the error.
AppendFails(e) ==
    /\ pending' = None
    /\ cancelled' = (cancelled \/ pc = "drive")
    /\ error' = CASE pc \in {"drive", "drain"} -> e
                  [] pc = "terminal" -> IF failure # None THEN failure ELSE e
                  [] OTHER -> OrInsert(e)
    /\ pc' = CASE pc = "cleanup" -> "settle"
               [] pc = "panicCleanup" -> "revoke"
               [] pc = "terminal" -> "fail"
               [] OTHER -> pc
    /\ UNCHANGED <<workerVars, dir, journal, stream, acked, running, jobVars, monitorVars, lost, deliveryVars,
                   stop, failure, workspace, session, serverVars>>

\* Mutant: the end of the delivery task does not wake a blocked append.
AppendCancelledByToken ==
    /\ worker = "attempt" /\ pending # None
    /\ SpoolFull
    /\ TokenCancelled(pending.token)
    /\ AppendFails("Cancelled")

\* delivery::append gives up on a full spool: its token is cancelled, or the
\* delivery task has ended and dropped the progress channel.
AppendCancelled ==
    /\ worker = "attempt" /\ pending # None
    /\ SpoolFull
    /\ TokenCancelled(pending.token) \/ delivery = "ended"
    /\ AppendFails("Cancelled")

AppendIoFails ==
    /\ worker = "attempt" /\ pending # None
    /\ AppendFails("Spool")

-----------------------------------------------------------------------------
(* ActiveExecution::drive                                                  *)

DriveItem ==
    /\ At("drive")
    /\ channel > 0
    /\ IF error = None THEN RecordItem
                       ELSE channel' = channel - 1 /\ UNCHANGED <<journal, pending>>
    /\ UNCHANGED <<workerVars, pc, dir, stream, acked, running, items, job, cancelled, monitorVars, lost,
                   deliveryVars, stop, failure, error, workspace, session, serverVars>>

DriveMonitor ==
    /\ At("drive")
    /\ lost = None
    /\ monitor \in LeaseLosses
    /\ lost' = monitor
    /\ UNCHANGED <<workerVars, pc, dir, eventVars, acked, jobVars, cancelled, monitorVars, deliveryVars, stop,
                   failure, error, workspace, session, serverVars>>

DriveDelivery ==
    /\ At("drive")
    /\ failure # None
    /\ error' = failure
    /\ failure' = None
    /\ cancelled' = TRUE
    /\ UNCHANGED <<workerVars, pc, dir, eventVars, acked, jobVars, monitorVars, lost, deliveryVars, stop,
                   workspace, session, serverVars>>

\* The Job task has ended; the delivery handle is looked at once more.
DriveJob ==
    /\ At("drive")
    /\ job \in {"ok", "failed", "panicked"}
    /\ error' = CASE job = "panicked" -> "Join"
                  [] job # "panicked" /\ failure # None -> OrInsert(failure)
                  [] OTHER -> error
    /\ failure' = None
    /\ pc' = IF job = "panicked" THEN "panic" ELSE "revoke"
    /\ UNCHANGED <<workerVars, dir, eventVars, acked, jobVars, cancelled, monitorVars, lost, deliveryVars,
                   stop, workspace, session, serverVars>>

-----------------------------------------------------------------------------
(* After the Job: cache revocation, remaining items, outputs, cleanup      *)

\* record_cleaning on the panic path and at the end of finish.
StartCleaning ==
    /\ At("panic") \/ At("clean")
    /\ Transition("Cleaning", "delivery")
    /\ pc' = IF pc = "panic" THEN "panicCleanup" ELSE "cleanup"
    /\ UNCHANGED <<workerVars, dir, stream, acked, running, jobVars, cancelled, monitorVars, lost,
                   deliveryVars, stop, failure, error, workspace, session, serverVars>>

\* Cleaning is recorded: the workspace and backend resources are removed, or
\* their removal cannot be confirmed.
CleanUp ==
    /\ At("panicCleanup") \/ At("cleanup")
    /\ \/ workspace' = "none" /\ UNCHANGED error
       \/ error' = "Cleanup" /\ UNCHANGED workspace
    /\ pc' = IF pc = "panicCleanup" THEN "revoke" ELSE "settle"
    /\ UNCHANGED <<workerVars, dir, eventVars, acked, jobVars, cancelled, monitorVars, lost, deliveryVars,
                   stop, failure, session, serverVars>>

RevokeCache ==
    /\ At("revoke")
    /\ \/ session' = (IF session = "granted" THEN "revoked" ELSE session) /\ UNCHANGED error
       \/ session = "granted" /\ error' = OrInsert("Transport") /\ UNCHANGED session
    /\ pc' = "drain"
    /\ UNCHANGED <<workerVars, dir, eventVars, acked, jobVars, cancelled, monitorVars, lost, deliveryVars,
                   stop, failure, workspace, serverVars>>

\* drain_events: what the Job left in the channel.
DrainItem ==
    /\ At("drain")
    /\ error = None /\ channel > 0
    /\ RecordItem
    /\ UNCHANGED <<workerVars, pc, dir, stream, acked, running, items, job, cancelled, monitorVars, lost,
                   deliveryVars, stop, failure, error, workspace, session, serverVars>>

Drained ==
    /\ At("drain")
    /\ error # None \/ channel = 0
    /\ pc' = CASE job = "ok" -> "started" [] job = "failed" -> "clean" [] OTHER -> "settle"
    /\ UNCHANGED <<workerVars, dir, eventVars, acked, jobVars, cancelled, monitorVars, lost, deliveryVars,
                   stop, failure, error, workspace, session, serverVars>>

\* finish_success: an attempt that produced no item still passes through Running.
FinishRunning ==
    /\ At("started")
    /\ pc' = "freeze"
    /\ IF running THEN UNCHANGED <<journal, pending, error>>
       ELSE IF ValidTransition(JournalState, "Running")
            THEN Transition("Running", "delivery") /\ UNCHANGED error
            ELSE error' = OrInsert("InvalidTransition") /\ UNCHANGED <<journal, pending>>
    /\ UNCHANGED <<workerVars, dir, stream, acked, running, jobVars, cancelled, monitorVars, lost,
                   deliveryVars, stop, failure, workspace, session, serverVars>>

StartFreezing ==
    /\ At("freeze")
    /\ IF error = None THEN Transition("Freezing", "delivery") /\ pc' = "freezing"
                       ELSE UNCHANGED <<journal, pending>> /\ pc' = "clean"
    /\ UNCHANGED <<workerVars, dir, stream, acked, running, jobVars, cancelled, monitorVars, lost,
                   deliveryVars, stop, failure, error, workspace, session, serverVars>>

StartUploading ==
    /\ At("upload")
    /\ Transition("Uploading", "delivery")
    /\ pc' = "uploading"
    /\ UNCHANGED <<workerVars, dir, stream, acked, running, jobVars, cancelled, monitorVars, lost,
                   deliveryVars, stop, failure, error, workspace, session, serverVars>>

\* run_output_while_owned with accept_output_result: a lost lease ends the phase,
\* a failure of the outputs only changes the status, a lease code in the answer
\* of the coordinator is a lost lease, and unconfirmed staging cleanup an error.
OutputPhase ==
    /\ At("freezing") \/ At("uploading")
    /\ \/ error # None /\ pc' = "clean" /\ UNCHANGED <<lost, error>>
       \/ /\ error = None
          /\ monitor \in LeaseLosses
          /\ lost' = monitor
          /\ error' = Lost(monitor)
          /\ pc' = "clean"
       \/ /\ error = None
          /\ monitor = "active"
          /\ \/ pc' = (IF pc = "freezing" THEN "upload" ELSE "clean") /\ UNCHANGED error
             \/ pc' = "clean" /\ error' \in {None, "Cleanup"}
             \/ pc = "uploading" /\ pc' = "clean" /\ error' \in {"LostFenced", "LostExpired"}
          /\ UNCHANGED lost
    /\ UNCHANGED <<workerVars, dir, eventVars, acked, jobVars, cancelled, monitorVars, deliveryVars, stop,
                   failure, workspace, session, serverVars>>

\* run, after finish: an error ends the attempt, otherwise it is terminalized.
Settle ==
    /\ At("settle")
    /\ pc' = IF error = None THEN "terminal" ELSE "fail"
    /\ UNCHANGED <<workerVars, dir, eventVars, acked, jobVars, cancelled, monitorVars, lost, deliveryVars,
                   stop, failure, error, workspace, session, serverVars>>

-----------------------------------------------------------------------------
(* TerminalAttempt::complete                                               *)

\* Mutant: the outcome of the monitor is not looked at again.
StartCompletingUnchecked ==
    /\ At("terminal")
    /\ JournalState = "Cleaning"
    /\ Transition("Completing", "delivery")
    /\ UNCHANGED <<workerVars, pc, dir, stream, acked, running, jobVars, cancelled, monitorVars, lost,
                   deliveryVars, stop, failure, error, workspace, session, serverVars>>

\* A lease that is lost, or a delivery that has failed, ends the attempt before
\* Completing is recorded.
StartCompleting ==
    /\ At("terminal")
    /\ JournalState = "Cleaning"
    /\ LET outcome == IF lost = None /\ monitor \in LeaseLosses THEN monitor ELSE lost
       IN  /\ lost' = outcome
           /\ CASE outcome # None ->
                     pc' = "fail" /\ error' = Lost(outcome) /\ UNCHANGED <<journal, pending, failure>>
                [] outcome = None /\ failure # None ->
                     pc' = "fail" /\ error' = failure /\ failure' = None /\ UNCHANGED <<journal, pending>>
                [] OTHER ->
                     Transition("Completing", "delivery") /\ UNCHANGED <<pc, error, failure>>
    /\ UNCHANGED <<workerVars, dir, stream, acked, running, jobVars, cancelled, monitorVars, deliveryVars,
                   stop, workspace, session, serverVars>>

\* flush_while_owned, then persist_completion.
Flush ==
    /\ At("terminal")
    /\ JournalState = "Completing"
    /\ \/ SpoolEmpty /\ pc' = "complete" /\ UNCHANGED <<failure, error>>
       \/ /\ ~ SpoolEmpty
          /\ stop \/ delivery = "ended"
          /\ pc' = "fail"
          /\ error' = IF failure # None THEN failure ELSE "Cancelled"
          /\ failure' = None
       \/ /\ monitor \in LeaseLosses
          /\ pc' = "fail"
          /\ error' = IF failure # None THEN failure ELSE Lost(monitor)
          /\ failure' = None
    /\ UNCHANGED <<workerVars, dir, eventVars, acked, jobVars, cancelled, monitorVars, lost, deliveryVars,
                   stop, workspace, session, serverVars>>

\* complete_lease is acknowledged. The server accepts the declared sequence only
\* when it is the last one it has stored.
CompletionAccepted ==
    /\ At("complete")
    /\ Len(stream) = stored
    /\ completed' = Len(stream)
    /\ pc' = "stop"
    /\ UNCHANGED <<workerVars, dir, eventVars, acked, jobVars, cancelled, monitorVars, lost, deliveryVars,
                   stop, failure, error, workspace, session, stored>>

\* The completion is not persisted or is rejected; or the answer is not waited for,
\* whether or not the request was committed, because the bounded retries are exhausted,
\* the lease is lost first or the delivery has stopped.
CompletionFails ==
    /\ At("complete")
    /\ \/ error' \in Codes \cup {"Spool"} /\ UNCHANGED completed
       \/ /\ \/ error' = "Transport"
             \/ monitor \in LeaseLosses /\ error' = Lost(monitor)
             \/ stop /\ error' = "Cancelled"
          /\ completed' \in {completed, IF Len(stream) = stored THEN stored ELSE completed}
    /\ pc' = "fail"
    /\ UNCHANGED <<workerVars, dir, eventVars, acked, jobVars, cancelled, monitorVars, lost, deliveryVars,
                   stop, failure, workspace, session, stored>>

\* stop_delivery: cancel the token and wait for the delivery task.
StopDelivery ==
    /\ At("fail") \/ At("stop")
    /\ ~ stop
    /\ stop' = TRUE
    /\ UNCHANGED <<workerVars, pc, dir, eventVars, acked, jobVars, cancelled, monitorVars, lost, deliveryVars,
                   failure, error, workspace, session, serverVars>>

\* recovery::cleanup_incomplete_attempts: only a directory whose journal is valid
\* is removed.
CleanupIncompleteAttempt(d) == IF d = "owned" THEN "absent" ELSE d

\* The attempt returns its error and handle_lifecycle_result decides: a lost
\* lease is scoped to the attempt, everything else ends the process.
AttemptFails ==
    /\ At("fail")
    /\ stop /\ delivery = "ended"
    /\ monitor' = "off" /\ delivery' = "off" /\ pc' = "off"
    /\ CASE error = "LostShutdown" -> worker' = "stopped" /\ UNCHANGED dir
         [] error \in {"LostFenced", "LostExpired"} ->
              worker' = "idle" /\ dir' = CleanupIncompleteAttempt(dir)
         [] OTHER -> worker' = "failed" /\ UNCHANGED dir
    /\ UNCHANGED <<shutdown, eventVars, acked, jobVars, cancelled, drain, lost, batch, stop, failure,
                   error, workspace, session, serverVars>>

\* The completed attempt is removed; a draining worker stops. When the delivery has
\* failed after its last batch or the removal fails, the process ends.
AttemptCompletes ==
    /\ At("stop")
    /\ stop /\ delivery = "ended"
    /\ monitor' = "off" /\ delivery' = "off" /\ pc' = "off"
    /\ \/ failure = None /\ dir' = "absent" /\ worker' = IF drain THEN "stopped" ELSE "idle"
       \/ failure = None /\ dir' \in {"bare", "owned"} /\ worker' = "failed"
       \/ failure # None /\ worker' = "failed" /\ UNCHANGED dir
    /\ UNCHANGED <<shutdown, eventVars, acked, jobVars, cancelled, drain, lost, batch, stop, failure,
                   error, workspace, session, serverVars>>

-----------------------------------------------------------------------------
(* DeliveryTask                                                            *)

DeliverySends ==
    /\ worker = "attempt" /\ delivery = "idle"
    /\ ~ SpoolEmpty
    /\ batch' = PendingBatch
    /\ delivery' = "sending"
    /\ UNCHANGED <<workerVars, pc, dir, eventVars, acked, jobVars, cancelled, monitorVars, lost, stop, failure,
                   error, workspace, session, serverVars>>

\* The server stored the batch and its answer arrives: EventSpool::acknowledge.
DeliveryAcknowledged ==
    /\ worker = "attempt" /\ delivery = "sending"
    /\ stored' = batch
    /\ acked' = batch
    /\ delivery' = "idle"
    /\ UNCHANGED <<workerVars, pc, dir, eventVars, jobVars, cancelled, monitorVars, lost, batch, stop, failure,
                   error, workspace, session, completed>>

\* No answer within the retries of the client: the server may have stored the
\* batch, and the batch is kept.
DeliveryRetries ==
    /\ worker = "attempt" /\ delivery = "sending"
    /\ stored' \in {stored, batch}
    /\ delivery' = "backoff"
    /\ UNCHANGED <<workerVars, pc, dir, eventVars, acked, jobVars, cancelled, monitorVars, lost, batch, stop,
                   failure, error, workspace, session, completed>>

DeliveryResumes ==
    /\ worker = "attempt" /\ delivery = "backoff"
    /\ ~ stop
    /\ delivery' = "idle"
    /\ UNCHANGED <<workerVars, pc, dir, eventVars, acked, jobVars, cancelled, monitorVars, lost, batch, stop,
                   failure, error, workspace, session, serverVars>>

\* A permanent rejection stops the delivery and wakes blocked appends.
DeliveryRejected ==
    /\ worker = "attempt" /\ delivery = "sending"
    /\ ~ stop
    /\ failure' \in Codes
    /\ stop' = TRUE
    /\ delivery' = "ended"
    /\ UNCHANGED <<workerVars, pc, dir, eventVars, acked, jobVars, cancelled, monitorVars, lost, batch, error,
                   workspace, session, serverVars>>

\* The batch is stored, and noting that fails before or after some of its records
\* are gone from the spool.
AcknowledgeFails ==
    /\ worker = "attempt" /\ delivery = "sending"
    /\ stored' = batch
    /\ acked' \in acked .. batch
    /\ failure' = "Spool"
    /\ stop' = TRUE
    /\ delivery' = "ended"
    /\ UNCHANGED <<workerVars, pc, dir, eventVars, jobVars, cancelled, monitorVars, lost, batch, error,
                   workspace, session, completed>>

DeliveryStops ==
    /\ worker = "attempt" /\ delivery \in {"idle", "sending", "backoff"}
    /\ stop
    /\ delivery' = "ended"
    /\ UNCHANGED <<workerVars, pc, dir, eventVars, acked, jobVars, cancelled, monitorVars, lost, batch, stop,
                   failure, error, workspace, session, serverVars>>

-----------------------------------------------------------------------------
(* LeaseMonitor                                                            *)

\* A heartbeat is answered with Drain or Cancel (Continue changes nothing here).
HeartbeatDirective ==
    /\ monitor = "active"
    /\ \/ drain' = TRUE /\ UNCHANGED cancelled
       \/ cancelled' = TRUE /\ UNCHANGED drain
    /\ UNCHANGED <<workerVars, pc, dir, eventVars, acked, jobVars, monitor, lost, deliveryVars, stop, failure,
                   error, workspace, session, serverVars>>

MonitorEnds(outcome) ==
    /\ monitor = "active"
    /\ monitor' = outcome
    /\ cancelled' = TRUE
    /\ UNCHANGED <<workerVars, pc, dir, eventVars, acked, jobVars, drain, lost, deliveryVars, stop, failure,
                   error, workspace, session, serverVars>>

HeartbeatFenced  == MonitorEnds("Fenced")
DeadlinePasses   == MonitorEnds("Expired")
MonitorShutdown  == shutdown /\ MonitorEnds("Shutdown")

-----------------------------------------------------------------------------
(* The process and its surroundings                                        *)

Shutdown ==
    /\ worker \in {"idle", "attempt"}
    /\ ~ shutdown
    /\ shutdown' = TRUE
    /\ worker' = IF worker = "idle" THEN "stopped" ELSE worker
    /\ UNCHANGED <<pc, dir, eventVars, acked, jobVars, cancelled, monitorVars, lost, deliveryVars,
                   stop, failure, error, workspace, session, serverVars>>

\* The process dies; what is on disk stays.
Crash ==
    /\ worker = "attempt"
    /\ worker' = "crashed"
    /\ pc' = "off" /\ pending' = None /\ job' = "none" /\ monitor' = "off" /\ delivery' = "off"
    /\ UNCHANGED <<shutdown, dir, journal, stream, running, acked, channel, items, cancelled, drain,
                   lost, batch, stop, failure, error, workspace, session, serverVars>>

\* run_loaded: cleanup_orphans, cleanup_incomplete_attempts, registration.
Restart ==
    /\ worker \in {"stopped", "failed", "crashed"}
    /\ worker' = "idle"
    /\ shutdown' = FALSE
    /\ workspace' = "none"
    /\ dir' = CleanupIncompleteAttempt(dir)
    /\ UNCHANGED <<pc, eventVars, acked, jobVars, cancelled, monitorVars, lost, deliveryVars, stop,
                   failure, error, session, serverVars>>

-----------------------------------------------------------------------------
LifecycleNext ==
    \/ CreateEvents \/ StartJob \/ CacheGrantFails
    \/ AppendEvent \/ AppendCancelled
    \/ DriveItem \/ DriveMonitor \/ DriveDelivery \/ DriveJob
    \/ StartCleaning \/ CleanUp \/ RevokeCache \/ DrainItem \/ Drained
    \/ FinishRunning \/ StartFreezing \/ StartUploading \/ OutputPhase \/ Settle
    \/ StartCompleting \/ Flush \/ CompletionAccepted \/ CompletionFails
    \/ StopDelivery \/ AttemptFails \/ AttemptCompletes

DeliveryNext ==
    \/ DeliverySends \/ DeliveryAcknowledged \/ DeliveryRetries \/ DeliveryResumes
    \/ DeliveryRejected \/ AcknowledgeFails \/ DeliveryStops

Next ==
    \/ AcquireLease \/ LifecycleNext \/ AppendIoFails \/ DeliveryNext
    \/ JobEmits \/ JobEnds
    \/ HeartbeatDirective \/ HeartbeatFenced \/ DeadlinePasses \/ MonitorShutdown
    \/ Shutdown \/ Crash \/ Restart

Spec == Init /\ [][Next]_vars

\* The tasks of the process are scheduled, a Job ends within its wall-clock limit.
TaskFairness ==
    /\ WF_vars(LifecycleNext)
    /\ WF_vars(AppendEvent) /\ WF_vars(AppendCancelled) /\ WF_vars(DriveJob)
    /\ WF_vars(JobEnds)
    /\ WF_vars(DeliveryNext)

\* A reachable coordinator answers a batch that is sent again and again.
Fairness == TaskFairness /\ SF_vars(DeliveryAcknowledged)

FairSpec == Spec /\ Fairness

\* The coordinator need not answer; then the safety deadline of the lease passes.
LossSpec == Spec /\ TaskFairness /\ WF_vars(DeadlinePasses)

-----------------------------------------------------------------------------
(* Safety                                                                  *)

TypeOK ==
    /\ worker \in {"idle", "attempt", "stopped", "failed", "crashed"}
    /\ shutdown \in BOOLEAN
    /\ pc \in {"off", "create", "cache", "drive", "panic", "panicCleanup", "revoke", "drain", "started",
               "freeze", "freezing", "upload", "uploading", "clean", "cleanup", "settle", "terminal",
               "complete", "fail", "stop"}
    /\ dir \in {"absent", "bare", "owned"}
    /\ journal \in Seq(JournalStates)
    /\ stream \in Seq(JournalStates \cup {"Item"})
    /\ acked \in 0 .. Len(stream)
    /\ pending \in Appendable \cup {None}
    /\ running \in BOOLEAN
    /\ channel \in 0 .. ChannelCapacity
    /\ items \in 0 .. MaxItems
    /\ job \in {"none", "running", "ok", "failed", "panicked"}
    /\ cancelled \in BOOLEAN
    /\ monitor \in LeaseLosses \cup {"off", "active"}
    /\ lost \in LeaseLosses \cup {None}
    /\ drain \in BOOLEAN
    /\ delivery \in {"off", "idle", "sending", "backoff", "ended"}
    /\ batch \in 0 .. Len(stream)
    /\ stop \in BOOLEAN
    /\ failure \in Codes \cup {"Spool", None}
    /\ error \in Errors \cup {None}
    /\ workspace \in {"none", "present"}
    /\ session \in {"none", "granted", "revoked"}
    /\ stored \in 0 .. Len(stream)
    /\ completed \in (0 .. Len(stream)) \cup {None}

\* docs/reference/protocols/server-agent-v1.md: "The operation starts only after
\* every event is acknowledged and local cleanup has succeeded", and the cache
\* session is revoked. The conditions are set up in five earlier steps, each of
\* which has its own way of failing.
CompletionComesLast ==
    pc \in {"complete", "stop"} =>
        /\ SpoolEmpty /\ stored = Len(stream)
        /\ workspace = "none"
        /\ session # "granted"
        /\ JournalState = "Completing"

\* What the server recorded as the final sequence is the whole stream: no event
\* is produced, sent or lost after a completion, also when its answer was lost.
CompletionSealsStream == completed # None => completed = Len(stream) /\ acked = Len(stream)

\* A lease loss that the lifecycle has seen is final: whatever else fails on the
\* way through outputs and cleanup, the attempt is never reported as complete.
LostLeaseNeverCompletes == lost # None => pc \notin {"complete", "stop"}

\* A completion is the last word of an attempt that still owns its Job.
CompletionIsFinal == CompletionComesLast /\ CompletionSealsStream /\ LostLeaseNeverCompletes

\* How many of the first n events of a stream report a state of the journal.
Reports(events, n) == Cardinality({i \in 1 .. n : events[i] # "Item"})

\* The states that the events report are those of the journal, in its order.
InOrder(events, states) ==
    \A i \in 1 .. Len(events) : events[i] # "Item" =>
        /\ Reports(events, i) \in 1 .. Len(states)
        /\ events[i] = states[Reports(events, i)]

\* While an attempt is sound, its events report the states of the journal in order
\* and at most the latest is still to be reported; and an attempt that completes
\* has reported them all, whatever failed on the way (attempt_events.rs:3: "A
\* lifecycle transition and its corresponding agent event must never drift apart").
EventsFollowJournal ==
    LET reported == Reports(stream, Len(stream))
    IN  /\ error = None => /\ reported \in {Len(journal), Len(journal) - 1}
                           /\ InOrder(stream, journal)
        /\ pc \in {"complete", "stop"} => reported = Len(journal) /\ InOrder(stream, journal)

-----------------------------------------------------------------------------
(* What comments and documents say and the code does not do                *)

\* attempt_events.rs:3, also for an attempt that fails.
EventsNeverDrift == InOrder(stream, journal)

\* app.rs:180: when a lease is lost, "the lifecycle has already cancelled and
\* cleaned execution resources", so the worker takes the next lease.
IdleWorkerIsClean == worker = "idle" => workspace = "none"

\* server-agent-v1.md:290-291: lease_fenced and lease_expired are authoritative;
\* "the agent preserves them as lease-loss outcomes even when the rejection
\* arrives before the next heartbeat".
LeaseCodesAreLeaseLoss == error \notin {"Fenced", "Expired"}

\* terminal.rs:130: "Cancellation still permits already-produced events and the
\* cancelled completion status to be flushed under the current fence." An append
\* is given up only when the lease or the delivery is gone.
CancellationStillFlushes ==
    worker = "attempt" /\ error = "Cancelled" => monitor \in LeaseLosses \/ delivery = "ended"

-----------------------------------------------------------------------------
(* Liveness                                                                *)

\* Every attempt ends while the coordinator can be reached: the bounded channel,
\* the bounded spool, the delivery and the tokens never wait on each other. A worker
\* that goes on to its next lease has left nothing of the attempt in its directory.
AttemptEnds ==
    worker = "attempt" ~> \/ worker = "idle" /\ dir # "owned"
                          \/ worker \in {"stopped", "failed", "crashed"}

\* docs/planning/agent/operations.md:115-116: "Prolonged coordinator loss expires the
\* lease and cancels the selected backend, bounding disk and process lifetime."
CoordinatorLossEndsAttempt == (worker = "attempt" /\ monitor = "Expired") ~> worker # "attempt"
=============================================================================
