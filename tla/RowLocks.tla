------------------------------ MODULE RowLocks ------------------------------
(***************************************************************************)
(* The transactions over the rows of one Attempt, statement by statement   *)
(* and row lock by row lock, under READ COMMITTED. BuildCoordination takes *)
(* each of them as one atomic step; here they overlap.                     *)
(*                                                                         *)
(* A statement reads the rows committed when it starts. For each row it    *)
(* selects FOR UPDATE or updates it waits for the lock and then uses the   *)
(* row's newest version, but what it read from other tables stays as old   *)
(* as its start. Every row a transaction writes is locked until its end,   *)
(* so the writes are applied here at the commit. Two transactions that     *)
(* wait for each other are found by the database, which aborts one.        *)
(*                                                                         *)
(* At the start one Job is owned under the lease First and the other Jobs  *)
(* are ready. A claim creates a lease named by its transaction.            *)
(***************************************************************************)
EXTENDS Null, Naturals, Sequences, FiniteSets, FiniteSetsExt

CONSTANTS
    JobOrder,      \* the Jobs of the Attempt, in the order of their identities
    LeaseOrder,    \* the leases that are or come to be, in the order of their identities
    Owned,         \* the Job owned at the start
    First,         \* its lease
    Tx,            \* transactions
    Together,      \* the sets of transactions that are requested together
    KindOf,        \* transaction -> its operation
    MaxRequeues    \* max_attempts - 1

Jobs == {JobOrder[i] : i \in DOMAIN JobOrder}
Claims == {t \in Tx : KindOf[t] = "claim"}
Leases == {First} \cup Claims

Current == {"active", "cancellation_requested", "drain_requested"}
Terminal == {"succeeded", "failed", "cancelled"}
LeaseRecords == [job : Jobs, state : Current \cup {"completed", "expired"}, lapsed : BOOLEAN]

\* How a transaction ends.
Results == {"not requested", "committed", "refused", "aborted",
            "already", "requeued", "cancelled", "failed"}

ASSUME RowLocksAssumption ==
    /\ MaxRequeues \in Nat
    /\ JobOrder \in Seq(Jobs) /\ Owned \in Jobs
    /\ LeaseOrder \in Seq(Leases) /\ \A l \in Leases : \E i \in DOMAIN LeaseOrder : LeaseOrder[i] = l
    /\ First \notin Tx
    /\ \A S \in Together : S \subseteq Tx
    /\ None \notin Jobs \cup Leases \cup Tx \cup LeaseRecords \cup Results
    /\ \A t \in Tx : KindOf[t] \in
          {"claim", "heartbeat", "append", "complete", "cancel", "recover", "drain"}

VARIABLES
    job,         \* Job -> its state
    queue,       \* Jobs with a ready queue entry
    lease,       \* lease -> its row, or None
    cancelled,   \* a build_cancellations row exists
    requeues,    \* Job -> its infrastructure requeues
    lock,        \* row -> the transaction that has it locked, or None
    stage,       \* transaction -> number of statements it has started
    todo,        \* transaction -> positions of the rows its current statement has still to lock
    seen,        \* transaction -> what it remembers: the Job picked, the cancellation read
    result       \* transaction -> how it ended, or None

db == <<job, queue, lease, cancelled, requeues>>
vars == <<db, lock, stage, todo, seen, result>>

Build == <<"build", None>>
Attempt == <<"attempt", None>>
Agent == <<"agent", None>>       \* of the lease First
Row(table, id) == <<table, id>>

Rows == {Build, Attempt, Agent} \cup ({"queue", "job"} \X Jobs) \cup ({"lease"} \X Leases)

Exists(l) == lease[l] # None
IsCurrent(l) == Exists(l) /\ lease[l].state \in Current
CurrentLeases == {l \in Leases : IsCurrent(l)}
NewLease(j) == [job |-> j, state |-> "active", lapsed |-> FALSE]

Init ==
    /\ job = [j \in Jobs |-> IF j = Owned THEN "leased" ELSE "ready"]
    /\ queue = Jobs \ {Owned}
    /\ lease = [l \in Leases |-> IF l = First THEN NewLease(Owned) ELSE None]
    /\ cancelled = FALSE
    /\ requeues = [j \in Jobs |-> 0]
    /\ lock = [r \in Rows |-> None]
    /\ stage = [t \in Tx |-> 0]
    /\ todo = [t \in Tx |-> {}]
    /\ seen = [t \in Tx |-> [job |-> None, cancelled |-> FALSE, lapsed |-> FALSE]]
    /\ \E S \in Together : result = [t \in Tx |-> IF t \in S THEN None ELSE "not requested"]

----------------------------------------------------------------------------
(* The statements of each operation: the rows each one passes over, in     *)
(* order.                                                                  *)

RowsOf(table, ids) == [i \in DOMAIN ids |-> Row(table, ids[i])]
AllQueued == RowsOf("queue", JobOrder)
AllLeases == RowsOf("lease", LeaseOrder)
AllJobs == RowsOf("job", JobOrder)

\* lease::load of the lease First.
Load == <<Row("lease", First), Row("job", Owned)>>

ClaimRows(t, n) == <<Row("job", seen[t].job)>>

HeartbeatRows(n) == IF n = 1 THEN Load ELSE <<Agent>>

AppendRows(n) == IF n = 1 THEN Load ELSE <<Build>>

CompleteRows(n) ==
    CASE n = 1 -> <<Build, Attempt>>
      [] n = 2 -> Load
      [] n = 3 -> AllJobs

\* Mutant: the Jobs are locked before their queue entries.
CancelRowsJobsFirst(n) ==
    CASE n = 1 -> <<Build, Attempt>>
      [] n = 2 -> AllJobs
      [] n = 3 -> AllLeases
      [] n = 4 -> AllQueued

\* Mutant: the states of the Jobs are read without locking them.
CancelRowsUnlocked(n) ==
    CASE n = 1 -> <<Build, Attempt>>
      [] OTHER -> <<>>

CancelRows(n) ==
    CASE n = 1 -> <<Build, Attempt>>
      [] n = 2 -> AllQueued
      [] n = 3 -> AllLeases
      [] n = 4 -> AllJobs

RecoverRows(n) ==
    IF n = 2 THEN Load \o <<Attempt, Build>> ELSE AllJobs

DrainRows(n) == IF n = 1 THEN <<Agent>> ELSE <<Row("lease", First)>>

StatementRows(t, n) ==
    CASE KindOf[t] = "claim"     -> ClaimRows(t, n)
      [] KindOf[t] = "heartbeat" -> HeartbeatRows(n)
      [] KindOf[t] = "append"    -> AppendRows(n)
      [] KindOf[t] = "complete"  -> CompleteRows(n)
      [] KindOf[t] = "cancel"    -> CancelRows(n)
      [] KindOf[t] = "recover"   -> RecoverRows(n)
      [] KindOf[t] = "drain"     -> DrainRows(n)

\* Which of these rows a statement locks, as they are when it starts: cancellation the
\* queue entries there are and the current leases, a drain the lease it will change.
Selects(t, r) ==
    CASE KindOf[t] = "cancel" /\ r[1] = "queue" -> r[2] \in queue
      [] KindOf[t] = "cancel" /\ r[1] = "lease" -> IsCurrent(r[2])
      [] KindOf[t] = "drain" /\ r[1] = "lease" ->
            IsCurrent(First) /\ lease[First].state # "cancellation_requested"
      [] OTHER -> TRUE

Selected(t, n) == {i \in DOMAIN StatementRows(t, n) : Selects(t, StatementRows(t, n)[i])}

\* The row recovery read decides whether it goes on to reconcile the graph.
AlreadyRecovered == ~ IsCurrent(First)
MayRequeue(t) ==
    /\ job[Owned] \in {"leased", "running"}
    /\ ~ seen[t].cancelled
    /\ requeues[Owned] < MaxRequeues

LastStatement(t) ==
    CASE KindOf[t] \in {"claim", "heartbeat", "append", "drain"} -> 2
      [] KindOf[t] = "complete" -> 3
      [] KindOf[t] = "cancel" -> 4
      [] KindOf[t] = "recover" -> IF stage[t] = 2 /\ (AlreadyRecovered \/ MayRequeue(t)) THEN 2 ELSE 3

\* require_current, with now() frozen at the start of the transaction.
Owns(t) == IsCurrent(First) /\ ~ (seen[t].lapsed /\ lease[First].lapsed)

\* What makes an operation give up after its current statement. A cancellation that is
\* already recorded is answered as it was.
Refused(t) ==
    CASE KindOf[t] \in {"heartbeat", "append"} -> stage[t] = 1 /\ ~ Owns(t)
      [] KindOf[t] = "complete" -> stage[t] = 2 /\ ~ Owns(t)
      [] KindOf[t] = "cancel" ->
            \/ stage[t] = 1 /\ cancelled
            \/ stage[t] = 4 /\ \A j \in Jobs : job[j] \in Terminal
            \/ stage[t] = 4 /\ \E j \in Jobs : /\ job[j] \in {"leased", "running"}
                                             /\ ~ \E l \in CurrentLeases :
                                                   /\ lease[l].job = j
                                                   /\ lease[l].state # "cancellation_requested"
      [] OTHER -> FALSE

----------------------------------------------------------------------------
(* The steps of a transaction.                                             *)

Open(t) == stage[t] > 0 /\ result[t] = None
Idle(t) == todo[t] = {}
NextRow(t) == StatementRows(t, stage[t])[Min(todo[t])]
Free(r, t) == lock[r] \in {None, t}

Release(t) == lock' = [r \in Rows |-> IF lock[r] = t THEN None ELSE lock[r]]

End(t, how) ==
    /\ result' = [result EXCEPT ![t] = how]
    /\ todo' = [todo EXCEPT ![t] = {}]

\* A statement starts. Recovery's reads the cancellation of the Build along with the rows.
Statement(t) ==
    /\ result[t] = None /\ Idle(t)
    /\ IF stage[t] = 0 THEN KindOf[t] \notin {"claim", "recover"} ELSE TRUE
    /\ stage[t] < LastStatement(t) /\ ~ Refused(t)
    /\ stage' = [stage EXCEPT ![t] = @ + 1]
    /\ todo' = [todo EXCEPT ![t] = Selected(t, stage[t] + 1)]
    /\ seen' = IF stage[t] = 0 THEN [seen EXCEPT ![t].lapsed = lease[First].lapsed]
               ELSE IF KindOf[t] = "recover" /\ stage[t] = 1 THEN [seen EXCEPT ![t].cancelled = cancelled]
               ELSE seen
    /\ UNCHANGED <<db, lock, result>>

LockRow(t) ==
    /\ ~ Idle(t) /\ Free(NextRow(t), t)
    /\ lock' = [lock EXCEPT ![NextRow(t)] = t]
    /\ todo' = [todo EXCEPT ![t] = @ \ {Min(@)}]
    /\ UNCHANGED <<db, stage, seen, result>>

\* select_candidate: the first ready Job whose queue entry is there and not locked.
PickJob(t) ==
    /\ KindOf[t] = "claim" /\ stage[t] = 0 /\ result[t] = None
    /\ \E j \in queue :
          /\ lock[Row("queue", j)] = None
          /\ lock' = [lock EXCEPT ![Row("queue", j)] = t]
          /\ seen' = [seen EXCEPT ![t].job = j]
    /\ stage' = [stage EXCEPT ![t] = 1]
    /\ UNCHANGED <<db, todo, result>>

\* The expiry worker claims the lease in a transaction of its own, past locked rows.
ClaimExpired(t) ==
    /\ KindOf[t] = "recover" /\ stage[t] = 0 /\ result[t] = None
    /\ IsCurrent(First) /\ lease[First].lapsed
    /\ lock[Row("lease", First)] = None
    /\ stage' = [stage EXCEPT ![t] = 1]
    /\ UNCHANGED <<db, lock, todo, seen, result>>

\* Mutant: the connection goes back to the pool with its transaction open.
RefuseKeepsLocks(t) ==
    /\ Open(t) /\ Idle(t) /\ Refused(t)
    /\ End(t, "refused")
    /\ UNCHANGED <<db, lock, stage, seen>>

Refuse(t) ==
    /\ Open(t) /\ Idle(t) /\ Refused(t)
    /\ Release(t)
    /\ End(t, "refused")
    /\ UNCHANGED <<db, stage, seen>>

\* The step every commit has in common.
CommitAs(t, kind, how) ==
    /\ Open(t) /\ Idle(t) /\ KindOf[t] = kind
    /\ stage[t] = LastStatement(t) /\ ~ Refused(t)
    /\ Release(t)
    /\ End(t, how)
    /\ UNCHANGED <<stage, seen>>

CommitClaim(t) ==
    /\ CommitAs(t, "claim", "committed")
    /\ queue' = queue \ {seen[t].job}
    /\ lease' = [lease EXCEPT ![t] = NewLease(seen[t].job)]
    /\ job' = [job EXCEPT ![seen[t].job] = "leased"]
    /\ UNCHANGED <<cancelled, requeues>>

\* renew_deadline, unless the owner is told to cancel.
CommitHeartbeat(t) ==
    /\ CommitAs(t, "heartbeat", "committed")
    /\ lease' = IF lease[First].state = "cancellation_requested" THEN lease
                ELSE [lease EXCEPT ![First].lapsed = FALSE]
    /\ UNCHANGED <<job, queue, cancelled, requeues>>

CommitAppend(t) ==
    /\ CommitAs(t, "append", "committed")
    /\ job' = IF job[Owned] = "leased" THEN [job EXCEPT ![Owned] = "running"] ELSE job
    /\ UNCHANGED <<queue, lease, cancelled, requeues>>

CommitComplete(t) ==
    /\ CommitAs(t, "complete", "committed")
    /\ job' = [job EXCEPT ![Owned] = "succeeded"]
    /\ lease' = [lease EXCEPT ![First].state = "completed"]
    /\ UNCHANGED <<queue, cancelled, requeues>>

CommitCancel(t) ==
    /\ CommitAs(t, "cancel", "committed")
    /\ cancelled' = TRUE
    /\ job' = [j \in Jobs |-> CASE job[j] = "ready" -> "cancelled"
                                [] job[j] \in {"leased", "running"} -> "cancelling"
                                [] OTHER -> job[j]]
    /\ queue' = {j \in queue : job[j] # "ready"}
    /\ lease' = [l \in Leases |->
          IF l \in CurrentLeases /\ job[lease[l].job] \in {"leased", "running"}
          THEN [lease[l] EXCEPT !.state = "cancellation_requested"] ELSE lease[l]]
    /\ UNCHANGED requeues

CommitDrain(t) ==
    /\ CommitAs(t, "drain", "committed")
    /\ \E s \in {"drain_requested", "cancellation_requested"} :
          lease' = IF lease[First].state \in {"active", "drain_requested"}
                   THEN [lease EXCEPT ![First].state = s] ELSE lease
    /\ UNCHANGED <<job, queue, cancelled, requeues>>

\* Another transaction has ended the lease since it was claimed.
RecoverAlready(t) ==
    /\ AlreadyRecovered
    /\ CommitAs(t, "recover", "already")
    /\ UNCHANGED db

RecoverRequeue(t) ==
    /\ ~ AlreadyRecovered /\ MayRequeue(t)
    /\ CommitAs(t, "recover", "requeued")
    /\ lease' = [lease EXCEPT ![First].state = "expired"]
    /\ job' = [job EXCEPT ![Owned] = "ready"]
    /\ queue' = queue \cup {Owned}
    /\ requeues' = [requeues EXCEPT ![Owned] = @ + 1]
    /\ UNCHANGED cancelled

RecoverTerminal(t) ==
    /\ ~ AlreadyRecovered /\ ~ MayRequeue(t)
    /\ CommitAs(t, "recover", IF seen[t].cancelled THEN "cancelled" ELSE "failed")
    /\ lease' = [lease EXCEPT ![First].state = "expired"]
    /\ job' = [job EXCEPT ![Owned] = IF seen[t].cancelled THEN "cancelled" ELSE "failed"]
    /\ UNCHANGED <<queue, cancelled, requeues>>

----------------------------------------------------------------------------
(* Time and the database's deadlock detector.                              *)

\* The deadline of the lease passes.
Lapse ==
    /\ IsCurrent(First) /\ ~ lease[First].lapsed
    /\ lease' = [lease EXCEPT ![First].lapsed = TRUE]
    /\ UNCHANGED <<job, queue, cancelled, requeues, lock, stage, todo, seen, result>>

\* The transaction t waits for, or t itself.
Blocker(t) == IF Idle(t) \/ Free(NextRow(t), t) THEN t ELSE lock[NextRow(t)]

\* Transactions that wait for each other in a circle, or in several.
Waiting == {u \in Tx : Blocker(u) # u}
Circle(S) == S # {} /\ {Blocker(u) : u \in S} = S

Deadlocked(t) == t \in Waiting /\ \E S \in SUBSET Waiting : t \in S /\ Circle(S)

\* One of the transactions of a cycle is aborted; the others go on.
AbortDeadlocked(t) ==
    /\ Deadlocked(t)
    /\ Release(t)
    /\ End(t, "aborted")
    /\ UNCHANGED <<db, stage, seen>>

Commit(t) ==
    \/ CommitClaim(t) \/ CommitHeartbeat(t) \/ CommitAppend(t) \/ CommitComplete(t)
    \/ CommitCancel(t) \/ CommitDrain(t)
    \/ RecoverAlready(t) \/ RecoverRequeue(t) \/ RecoverTerminal(t)

TxStep(t) ==
    \/ PickJob(t) \/ ClaimExpired(t) \/ Statement(t) \/ LockRow(t)
    \/ Refuse(t) \/ Commit(t) \/ AbortDeadlocked(t)

Next == Lapse \/ \E t \in Tx : TxStep(t)

Spec == Init /\ [][Next]_vars

\* Transactions that have begun are driven by their requests or workers, and the
\* deadlock detector runs; whether an operation is requested at all is up to its caller.
FairSpec == Spec /\ WF_vars(\E t \in Tx : Open(t) /\ TxStep(t))

----------------------------------------------------------------------------
(* Properties.                                                             *)

\* Rows, locks and statements are of their types, and a transaction that has ended
\* holds no lock.
TypeOK ==
    /\ job \in [Jobs -> Terminal \cup {"ready", "leased", "running", "cancelling"}]
    /\ queue \subseteq Jobs
    /\ lease \in [Leases -> LeaseRecords \cup {None}]
    /\ cancelled \in BOOLEAN
    /\ requeues \in [Jobs -> 0 .. MaxRequeues]
    /\ lock \in [Rows -> Tx \cup {None}]
    /\ stage \in [Tx -> 0 .. 4]
    /\ todo \in [Tx -> SUBSET Nat]
    /\ seen \in [Tx -> [job : Jobs \cup {None}, cancelled : BOOLEAN, lapsed : BOOLEAN]]
    /\ result \in [Tx -> Results \cup {None}]
    /\ \A t \in Tx : result[t] # None => \A r \in Rows : lock[r] # t

\* A committed cancellation has reached every Job, although claims, completions and
\* recoveries of the Attempt were under way: nothing is queued, each Job has ended or
\* is being cancelled, and its owner is told so.
CancellationReachesEveryJob ==
    cancelled => /\ queue = {}
                 /\ \A j \in Jobs : job[j] \in Terminal \cup {"cancelling"}
                 /\ \A l \in CurrentLeases : lease[l].state = "cancellation_requested"

\* A Job is with exactly one owner while it is leased, running or cancelling, and is
\* queued exactly while it is ready, whatever transactions overlapped.
OneOwnerPerJob ==
    \A j \in Jobs :
        /\ Cardinality({l \in CurrentLeases : lease[l].job = j}) =
              (IF job[j] \in {"leased", "running", "cancelling"} THEN 1 ELSE 0)
        /\ j \in queue <=> job[j] = "ready"

\* Overlapping statements do no harm that whole transactions would not do: a
\* committed cancellation leaves no Job to run, and owners and queue match the Jobs.
OverlapIsHarmless == CancellationReachesEveryJob /\ OneOwnerPerJob

\* Transactions that take the rows in the order Build, Attempt, queue entries, leases,
\* Jobs never wait for each other in a circle. Every circle goes through a transaction
\* that takes a row out of this order: recovery and event append lock the Build after the
\* lease, a heartbeat the Agent after the lease.
OutOfOrder == {"recover", "append", "heartbeat"}
CycleLeavesLockOrder ==
    \A S \in SUBSET Waiting : Circle(S) => \E u \in S : KindOf[u] \in OutOfOrder

\* Transactions that have begun end, by commit, refusal or abort: nobody waits for ever
\* on a row that another holds, and no refusal or abort leaves a row locked.
TransactionsEnd == []<>(\A t \in Tx : ~ Open(t))

\* Recovery reports a Job as failed only when its requeues are used up: a Job of a Build
\* whose cancellation is committed is cancelled instead.
FailedMeansExhausted ==
    \A t \in Tx : result[t] = "failed" => requeues[Owned] = MaxRequeues
============================================================================
