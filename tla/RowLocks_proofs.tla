-------------------------- MODULE RowLocks_proofs --------------------------
(***************************************************************************)
(* What is proved of the store's transactions: of those of one Attempt     *)
(* when they overlap, for any number of Jobs, leases and transactions of   *)
(* each kind (RowLocks), and of the idempotency record in front of every   *)
(* mutation (MutationRecord).                                              *)
(***************************************************************************)
EXTENDS RowLocks, MutationRecord, FiniteSetTheorems, WellFoundedInduction, TLAPS

----------------------------------------------------------------------------
(* The inductive invariant                                                 *)

Active == {"leased", "running", "cancelling"}
FirstRow == Row("lease", First)
QueueRow(j) == Row("queue", j)

\* The rows the current statement of t has still to lock, and those it has or will have.
Wanted(t) == {StatementRows(t, stage[t])[i] : i \in todo[t]}
Covered(t, r) == lock[r] = t \/ r \in Wanted(t)

\* The statements an operation has.
Statements(kind) ==
    CASE kind \in {"claim", "heartbeat", "append", "drain"} -> 2
      [] kind \in {"complete", "recover"} -> 3
      [] OTHER -> 4

\* Owners, queue and cancellation of the committed rows agree.
OwnerInv ==
    /\ lease[First] # None /\ lease[First].job = Owned
    /\ \A j \in Jobs : j \in queue <=> job[j] = "ready"
    /\ \A l \in CurrentLeases : job[lease[l].job] \in Active
    /\ \A l, m \in CurrentLeases : lease[l].job = lease[m].job => l = m
    /\ \A j \in Jobs : job[j] \in Active => \E l \in CurrentLeases : lease[l].job = j
    /\ \A j \in Jobs : job[j] = "cancelling" => cancelled
    /\ CancellationReachesEveryJob

\* Statements follow each other, and one that is under way locks rows it passes over.
StageInv(t) ==
    /\ stage[t] <= Statements(KindOf[t])
    /\ stage[t] = 0 => todo[t] = {} /\ \A r \in Rows : lock[r] # t
    /\ result[t] # None => todo[t] = {}
    /\ KindOf[t] \in {"claim", "recover"} /\ stage[t] = 1 => todo[t] = {}
    /\ stage[t] # 0 => todo[t] \subseteq DOMAIN StatementRows(t, stage[t])
    /\ KindOf[t] = "claim" /\ stage[t] # 0 => seen[t].job \in Jobs

\* A claim has the queue entry of its Job locked until it ends, and the entry stays.
ClaimInv(t) ==
    KindOf[t] = "claim" =>
        /\ lease[t] = None
        /\ stage[t] # 0 => seen[t].job \in queue /\ lock[QueueRow(seen[t].job)] = t

\* A cancellation has the Build locked, then every queue entry there is.
CancelInv(t) ==
    KindOf[t] = "cancel" =>
        /\ stage[t] = 1 => Covered(t, Build)
        /\ stage[t] >= 2 => lock[Build] = t
        /\ stage[t] = 2 => \A j \in queue : Covered(t, QueueRow(j))
        /\ stage[t] >= 3 => \A j \in queue : lock[QueueRow(j)] = t

\* A recovery has lease and Build locked before it changes anything.
RecoverInv(t) ==
    KindOf[t] = "recover" =>
        /\ stage[t] = 2 => Covered(t, FirstRow) /\ Covered(t, Build)
        /\ stage[t] = 3 => lock[FirstRow] = t /\ lock[Build] = t

\* A completion has Build and lease locked, and the lease stays current.
CompleteInv(t) ==
    KindOf[t] = "complete" =>
        /\ stage[t] = 1 => Covered(t, Build)
        /\ stage[t] >= 2 => lock[Build] = t
        /\ stage[t] = 2 => Covered(t, FirstRow)
        /\ stage[t] = 3 => lock[FirstRow] = t /\ IsCurrent(First)

\* The order in which the tables are locked, and how far each statement is in it.
Rank(r) ==
    CASE r[1] = "build" -> 0
      [] r[1] = "attempt" -> 1
      [] r[1] = "agent" -> 2
      [] r[1] = "queue" -> 3
      [] r[1] = "lease" -> 4
      [] OTHER -> 5

Reach(kind, n) ==
    CASE kind = "claim" -> IF n = 1 THEN 3 ELSE 5
      [] kind = "complete" -> IF n = 1 THEN 1 ELSE 5
      [] kind = "cancel" -> IF n = 1 THEN 1 ELSE n + 1
      [] OTHER -> IF n = 1 THEN 2 ELSE 4

\* What a transaction in lock order waits for comes after what it has, in the order of
\* the tables; within a table only if it has the Build.
OrderInv(t) ==
    KindOf[t] \notin OutOfOrder =>
        \A r \in Rows : lock[r] = t =>
            /\ Rank(r) <= Reach(KindOf[t], stage[t])
            /\ \A q \in Wanted(t) : Rank(r) < Rank(q) \/ (Rank(r) = Rank(q) /\ lock[Build] = t)

TxInv(t) ==
    result[t] = None =>
        ClaimInv(t) /\ CancelInv(t) /\ RecoverInv(t) /\ CompleteInv(t) /\ OrderInv(t)

LockInv == TypeOK /\ OwnerInv /\ \A t \in Tx : StageInv(t) /\ TxInv(t)

----------------------------------------------------------------------------
(* Rows and statements                                                     *)

\* A set of numbers that is not empty has a least one.
LEMMA LeastPosition ==
    ASSUME NEW S \in SUBSET Nat, S # {}
    PROVE  Min(S) \in S /\ \A x \in S : Min(S) <= x
  <1> DEFINE R == OpToRel(<, Nat)
  <1>1. \A k, m \in Nat : k < m => <<k, m>> \in R
    BY DEF OpToRel
  <1>2. IsWellFoundedOn(R, Nat)
    BY NatLessThanWellFounded
  <1> HIDE DEF R
  <1>3. PICK i \in S : \A k \in S : ~ (<<k, i>> \in R)
    BY <1>2, WFMin
  <1>4. \A k \in S : i <= k
    <2> TAKE k \in S
    <2>1. k \in Nat /\ i \in Nat /\ ~ (k < i)
      BY <1>1, <1>3
    <2> QED BY <2>1
  <1>5. \E m \in S : \A x \in S : m <= x
    BY <1>4
  <1> QED BY <1>5 DEF Min

\* The order of the Jobs names each of them, the order of the leases each lease.
LEMMA Orders ==
    /\ DOMAIN JobOrder = 1 .. Len(JobOrder) /\ \A i \in DOMAIN JobOrder : JobOrder[i] \in Jobs
    /\ \A j \in Jobs : \E i \in DOMAIN JobOrder : JobOrder[i] = j
    /\ DOMAIN LeaseOrder = 1 .. Len(LeaseOrder) /\ \A i \in DOMAIN LeaseOrder : LeaseOrder[i] \in Leases
  <1>1. JobOrder \in Seq(Jobs) /\ LeaseOrder \in Seq(Leases)
    BY RowLocksAssumption
  <1>2. DOMAIN JobOrder = 1 .. Len(JobOrder) /\ \A i \in DOMAIN JobOrder : JobOrder[i] \in Jobs
    BY <1>1
  <1>3. DOMAIN LeaseOrder = 1 .. Len(LeaseOrder) /\ \A i \in DOMAIN LeaseOrder : LeaseOrder[i] \in Leases
    BY <1>1
  <1>4. \A j \in Jobs : \E i \in DOMAIN JobOrder : JobOrder[i] = j
    BY DEF Jobs
  <1> QED BY <1>2, <1>3, <1>4

\* The rows are what their tables and identities make them.
LEMMA RowTypes ==
    /\ Build \in Rows /\ Attempt \in Rows /\ Agent \in Rows /\ FirstRow \in Rows
    /\ Row("job", Owned) \in Rows
    /\ \A j \in Jobs : QueueRow(j) \in Rows /\ Row("job", j) \in Rows
    /\ \A l \in Leases : Row("lease", l) \in Rows
  BY RowLocksAssumption DEF Rows, Row, FirstRow, QueueRow, Build, Attempt, Agent, Leases

\* Every statement passes over rows of the Attempt, by positions.
LEMMA ScanType ==
    ASSUME NEW t \in Tx, NEW n \in 1 .. Statements(KindOf[t]),
           KindOf[t] = "claim" => seen[t].job \in Jobs,
           KindOf[t] \in {"claim", "recover"} => n # 1
    PROVE  /\ DOMAIN StatementRows(t, n) \subseteq Nat
           /\ \A i \in DOMAIN StatementRows(t, n) : StatementRows(t, n)[i] \in Rows
  <1> USE RowTypes, Orders
  <1> DEFINE Good(rows) == DOMAIN rows \subseteq Nat /\ \A i \in DOMAIN rows : rows[i] \in Rows
  <1>1. Good(AllQueued) /\ Good(AllLeases) /\ Good(AllJobs)
    BY DEF AllQueued, AllLeases, AllJobs, RowsOf, QueueRow
  <1>2. \A q, r \in Rows : Good(<<q>>) /\ Good(<<q, r>>)
    OBVIOUS
  <1>3. \A p, q, r, s \in Rows : Good(<<p, q>> \o <<r, s>>)
    OBVIOUS
  <1>4. Good(Load) /\ Good(Load \o <<Attempt, Build>>) /\ Good(<<Build, Attempt>>)
    BY <1>2, <1>3 DEF Load, FirstRow
  <1>5. Good(<<Agent>>) /\ Good(<<Build>>) /\ Good(<<Row("lease", First)>>)
    BY <1>2 DEF FirstRow
  <1>6. KindOf[t] = "claim" => Good(<<Row("job", seen[t].job)>>)
    BY <1>2
  <1> HIDE DEF Good
  <1>7. Good(StatementRows(t, n))
    BY <1>1, <1>4, <1>5, <1>6, RowLocksAssumption
    DEF StatementRows, Statements, ClaimRows, HeartbeatRows, AppendRows, CompleteRows, CancelRows,
        RecoverRows, DrainRows
  <1> QED BY <1>7 DEF Good

\* What a transaction remembers decides what its statements pass over.
LEMMA ScanKept ==
    ASSUME NEW t \in Tx, seen'[t].job = seen[t].job, NEW n
    PROVE  StatementRows(t, n)' = StatementRows(t, n)
  BY DEF StatementRows, ClaimRows, HeartbeatRows, AppendRows, CompleteRows, CancelRows, RecoverRows, DrainRows

\* The next row is one of those the statement has still to lock.
LEMMA NextIsWanted ==
    ASSUME TypeOK, NEW t \in Tx, StageInv(t), ~ Idle(t)
    PROVE  /\ NextRow(t) \in Wanted(t) /\ NextRow(t) \in Rows
           /\ Wanted(t) \subseteq Rows
           /\ stage[t] \in 1 .. Statements(KindOf[t]) /\ result[t] = None
           /\ Min(todo[t]) \in todo[t] /\ \A i \in todo[t] : Min(todo[t]) <= i
  <1>1. todo[t] \in SUBSET Nat /\ todo[t] # {} /\ stage[t] \in 0 .. 4
    BY DEF TypeOK, Idle
  <1>2. Min(todo[t]) \in todo[t] /\ \A i \in todo[t] : Min(todo[t]) <= i
    BY <1>1, LeastPosition
  <1>3. stage[t] \in 1 .. Statements(KindOf[t]) /\ result[t] = None
    BY <1>1, RowLocksAssumption DEF StageInv, Statements
  <1>4. todo[t] \subseteq DOMAIN StatementRows(t, stage[t])
    BY <1>3 DEF StageInv
  <1>5. \A i \in DOMAIN StatementRows(t, stage[t]) : StatementRows(t, stage[t])[i] \in Rows
    BY <1>1, <1>3, ScanType DEF StageInv
  <1> QED BY <1>2, <1>3, <1>4, <1>5 DEF Wanted, NextRow

----------------------------------------------------------------------------
(* What a step of one transaction leaves to the others                     *)

Keeps(u) ==
    /\ stage'[u] = stage[u] /\ todo'[u] = todo[u] /\ seen'[u] = seen[u] /\ result'[u] = result[u]
    /\ \A r \in Rows : lock'[r] = u <=> lock[r] = u

\* A transaction that ends lets go of its own rows only.
LEMMA EndKeeps ==
    ASSUME TypeOK, NEW t \in Tx, Release(t), NEW how \in Results, End(t, how),
           stage' = stage, seen' = seen, StageInv(t)
    PROVE  /\ \A u \in Tx \ {t} : Keeps(u)
           /\ lock' \in [Rows -> Tx \cup {None}] /\ todo' \in [Tx -> SUBSET Nat]
           /\ result' \in [Tx -> Results \cup {None}]
           /\ \A u \in Tx : result'[u] # None => \A r \in Rows : lock'[r] # u
           /\ StageInv(t)' /\ TxInv(t)'
  <1> USE RowLocksAssumption DEF TypeOK, Release, End
  <1>1. \A u \in Tx \ {t} : Keeps(u)
    BY DEF Keeps
  <1>2. lock' \in [Rows -> Tx \cup {None}] /\ todo' \in [Tx -> SUBSET Nat]
    OBVIOUS
  <1>3. result' \in [Tx -> Results \cup {None}] /\ result'[t] = how /\ how # None
    OBVIOUS
  <1>4. \A r \in Rows : lock'[r] # t
    OBVIOUS
  <1>5. \A u \in Tx : result'[u] # None => \A r \in Rows : lock'[r] # u
    BY <1>1, <1>4 DEF Keeps
  <1>6. StageInv(t)'
    BY <1>4 DEF StageInv
  <1>7. TxInv(t)'
    BY <1>3 DEF TxInv
  <1> QED BY <1>1, <1>2, <1>3, <1>5, <1>6, <1>7

\* What another transaction needs of the committed rows.
Undisturbed(u) ==
    result[u] = None =>
        /\ KindOf[u] = "claim" => lease'[u] = lease[u] /\ (stage[u] # 0 => seen[u].job \in queue')
        /\ KindOf[u] = "cancel" /\ stage[u] >= 2 => queue' \subseteq queue
        /\ KindOf[u] = "complete" /\ stage[u] = 3 => IsCurrent(First)'

\* A transaction whose own state and locks are kept, and whose rows are left as it needs
\* them, is as far as it was.
LEMMA OtherKept ==
    ASSUME TypeOK, NEW u \in Tx, StageInv(u), TxInv(u), Keeps(u), Undisturbed(u)
    PROVE  StageInv(u)' /\ TxInv(u)'
  <1> USE DEF Keeps
  <1>1. StatementRows(u, stage[u])' = StatementRows(u, stage[u])
    <2>1. PICK n : n = stage[u]
      OBVIOUS
    <2>2. StatementRows(u, n)' = StatementRows(u, n)
      BY ScanKept
    <2> QED BY <2>1, <2>2
  <1>2. Wanted(u)' = Wanted(u)
    BY <1>1 DEF Wanted
  <1>3. StageInv(u)'
    BY <1>1 DEF StageInv
  <1>4. \A r \in Rows : Covered(u, r)' <=> Covered(u, r)
    BY <1>2 DEF Covered
  <1>5. Covered(u, Build)' <=> Covered(u, Build)
    BY <1>2, RowTypes DEF Covered, Build
  <1>6. Covered(u, FirstRow)' <=> Covered(u, FirstRow)
    BY <1>2, RowTypes DEF Covered, FirstRow, Row
  <1>7. \A j \in Jobs : /\ Covered(u, QueueRow(j))' <=> Covered(u, QueueRow(j))
                        /\ lock'[QueueRow(j)] = u <=> lock[QueueRow(j)] = u
    BY <1>2, RowTypes DEF Covered, QueueRow, Row
  <1>8. ASSUME result[u] = None PROVE TxInv(u)'
    <2> USE <1>8 DEF Undisturbed
    <2>1. ClaimInv(u)'
      BY <1>7 DEF ClaimInv, TxInv, StageInv, QueueRow, Row
    <2>2. CancelInv(u)'
      BY <1>5, <1>7, RowTypes DEF CancelInv, TxInv, Build, TypeOK
    <2>3. RecoverInv(u)'
      BY <1>5, <1>6, RowTypes DEF RecoverInv, TxInv
    <2>4. CompleteInv(u)'
      BY <1>5, <1>6, RowTypes DEF CompleteInv, TxInv
    <2>5. OrderInv(u)'
      BY <1>2, RowTypes DEF OrderInv, TxInv
    <2> QED BY <2>1, <2>2, <2>3, <2>4, <2>5 DEF TxInv
  <1>9. CASE result[u] # None
    BY <1>3, <1>9 DEF TxInv
  <1> QED BY <1>3, <1>8, <1>9

----------------------------------------------------------------------------
(* The order in which a statement locks its rows                           *)

\* The rows of a statement come after those of the statements before it, in the order
\* of the tables, and after each other unless they are of one table.
LEMMA ScanRanks ==
    ASSUME NEW t \in Tx, KindOf[t] \notin OutOfOrder, NEW n \in 1 .. Statements(KindOf[t]),
           KindOf[t] = "claim" => n # 1,
           NEW i \in DOMAIN StatementRows(t, n)
    PROVE  /\ Rank(StatementRows(t, n)[i]) \in Nat
           /\ Rank(StatementRows(t, n)[i]) <= Reach(KindOf[t], n)
           /\ n > 1 => \/ Reach(KindOf[t], n - 1) < Rank(StatementRows(t, n)[i])
                       \/ /\ Reach(KindOf[t], n - 1) = Rank(StatementRows(t, n)[i])
                          /\ KindOf[t] = "complete" /\ n = 3
           /\ \A k \in DOMAIN StatementRows(t, n) : i < k =>
                 \/ Rank(StatementRows(t, n)[i]) < Rank(StatementRows(t, n)[k])
                 \/ /\ Rank(StatementRows(t, n)[i]) = Rank(StatementRows(t, n)[k])
                    /\ KindOf[t] \in {"complete", "cancel"} /\ n >= 2
  <1>1. /\ Rank(Build) = 0 /\ Rank(Attempt) = 1 /\ Rank(Agent) = 2
        /\ \A x : Rank(Row("queue", x)) = 3 /\ Rank(Row("lease", x)) = 4 /\ Rank(Row("job", x)) = 5
    BY DEF Rank, Build, Attempt, Agent, Row
  <1>2. /\ \A k \in DOMAIN AllQueued : Rank(AllQueued[k]) = 3
        /\ \A k \in DOMAIN AllLeases : Rank(AllLeases[k]) = 4
        /\ \A k \in DOMAIN AllJobs : Rank(AllJobs[k]) = 5
    BY <1>1 DEF AllQueued, AllLeases, AllJobs, RowsOf
  <1>3. CASE KindOf[t] = "claim"
    <2>1. n = 2 /\ StatementRows(t, n) = <<Row("job", seen[t].job)>>
      BY <1>3 DEF StatementRows, ClaimRows, Statements
    <2> QED BY <1>1, <1>3, <2>1 DEF Reach
  <1>4. CASE KindOf[t] = "complete"
    <2>1. /\ n = 1 => StatementRows(t, n) = <<Build, Attempt>>
          /\ n = 2 => StatementRows(t, n) = <<Row("lease", First), Row("job", Owned)>>
          /\ n = 3 => StatementRows(t, n) = AllJobs
          /\ n \in {1, 2, 3}
      BY <1>4 DEF StatementRows, CompleteRows, Statements, Load
    <2>2. CASE n = 1
      BY <1>1, <1>4, <2>1, <2>2 DEF Reach
    <2>3. CASE n = 2
      BY <1>1, <1>4, <2>1, <2>3 DEF Reach
    <2>4. CASE n = 3
      BY <1>2, <1>4, <2>1, <2>4 DEF Reach
    <2> QED BY <2>1, <2>2, <2>3, <2>4
  <1>5. CASE KindOf[t] = "cancel"
    <2>1. /\ n = 1 => StatementRows(t, n) = <<Build, Attempt>>
          /\ n = 2 => StatementRows(t, n) = AllQueued
          /\ n = 3 => StatementRows(t, n) = AllLeases
          /\ n = 4 => StatementRows(t, n) = AllJobs
          /\ n \in {1, 2, 3, 4}
      BY <1>5 DEF StatementRows, CancelRows, Statements
    <2>2. CASE n = 1
      BY <1>1, <1>5, <2>1, <2>2 DEF Reach
    <2>3. CASE n = 2
      BY <1>2, <1>5, <2>1, <2>3 DEF Reach
    <2>4. CASE n = 3
      BY <1>2, <1>5, <2>1, <2>4 DEF Reach
    <2>5. CASE n = 4
      BY <1>2, <1>5, <2>1, <2>5 DEF Reach
    <2> QED BY <2>1, <2>2, <2>3, <2>4, <2>5
  <1>6. CASE KindOf[t] = "drain"
    <2>1. /\ n = 1 => StatementRows(t, n) = <<Agent>>
          /\ n = 2 => StatementRows(t, n) = <<Row("lease", First)>>
          /\ n \in {1, 2}
      BY <1>6 DEF StatementRows, DrainRows, Statements
    <2>2. CASE n = 1
      BY <1>1, <1>6, <2>1, <2>2 DEF Reach
    <2>3. CASE n = 2
      BY <1>1, <1>6, <2>1, <2>3 DEF Reach
    <2> QED BY <2>1, <2>2, <2>3
  <1> QED BY <1>3, <1>4, <1>5, <1>6, RowLocksAssumption DEF OutOfOrder

\* A row has its table's place in the order.
LEMMA RankType == \A r \in Rows : Rank(r) \in 0 .. 5
  BY DEF Rank

----------------------------------------------------------------------------
(* The steps of a transaction inside it                                    *)

\* A row is locked: the transaction has what it wanted, and the others have what they had.
LEMMA LockRowStep ==
    ASSUME TypeOK, NEW t \in Tx, StageInv(t), TxInv(t), LockRow(t)
    PROVE  /\ \A u \in Tx \ {t} : Keeps(u)
           /\ TypeOK'
           /\ StageInv(t)' /\ TxInv(t)'
  <1> DEFINE rows == StatementRows(t, stage[t])
             m == Min(todo[t])
  <1>1. /\ NextRow(t) \in Rows /\ NextRow(t) = rows[m] /\ result[t] = None
        /\ stage[t] \in 1 .. Statements(KindOf[t])
        /\ m \in todo[t] /\ \A i \in todo[t] : m <= i
        /\ Wanted(t) \subseteq Rows
    BY NextIsWanted DEF LockRow, NextRow
  <1>2. /\ lock' = [lock EXCEPT ![NextRow(t)] = t] /\ lock[NextRow(t)] \in {None, t}
        /\ todo' = [todo EXCEPT ![t] = @ \ {m}]
        /\ stage' = stage /\ seen' = seen /\ result' = result
        /\ job' = job /\ queue' = queue /\ lease' = lease /\ cancelled' = cancelled /\ requeues' = requeues
    BY DEF LockRow, Free, db
  <1>3. TypeOK'
    BY <1>1, <1>2 DEF TypeOK
  <1>4. \A u \in Tx \ {t} : Keeps(u)
    BY <1>1, <1>2, RowLocksAssumption DEF Keeps, TypeOK
  <1>5. rows' = rows
    <2>1. PICK n : n = stage[t]
      OBVIOUS
    <2>2. StatementRows(t, n)' = StatementRows(t, n)
      BY <1>2, ScanKept
    <2> QED BY <1>2, <2>1, <2>2
  <1>6. todo'[t] = todo[t] \ {m} /\ todo[t] \subseteq Nat /\ todo[t] \subseteq DOMAIN rows
    BY <1>1, <1>2 DEF TypeOK, StageInv
  <1> HIDE DEF rows, m
  <1>7. /\ Wanted(t)' = {rows[i] : i \in todo[t] \ {m}}
        /\ Wanted(t) = {rows[i] : i \in todo[t]}
    BY <1>5, <1>6 DEF Wanted, rows
  <1>8. StageInv(t)'
    <2>1. stage'[t] # 0 => todo'[t] \subseteq DOMAIN StatementRows(t, stage[t])'
      BY <1>5, <1>6 DEF rows
    <2> QED BY <1>1, <1>2, <1>6, <2>1 DEF StageInv
  <1>9. \A r \in Rows : /\ lock[r] = t => lock'[r] = t
                        /\ lock'[r] = t => lock[r] = t \/ r = NextRow(t)
                        /\ r = NextRow(t) => lock'[r] = t
    BY <1>1, <1>2 DEF TypeOK
  <1>10. \A r \in Rows : (lock[r] = t \/ r \in Wanted(t)) => (lock'[r] = t \/ r \in Wanted(t)')
    BY <1>1, <1>7, <1>9
  <1>11. \A r \in Rows : Covered(t, r) => lock'[r] = t \/ r \in Wanted(t)'
    BY <1>10 DEF Covered
  <1>12. /\ Covered(t, Build) => Covered(t, Build)'
         /\ Covered(t, FirstRow) => Covered(t, FirstRow)'
         /\ \A j \in Jobs : Covered(t, QueueRow(j)) => Covered(t, QueueRow(j))'
    BY <1>11, RowTypes DEF Covered, Build, FirstRow, QueueRow, Row
  <1>13. ClaimInv(t)' /\ CancelInv(t)' /\ RecoverInv(t)' /\ CompleteInv(t)'
    <2> USE <1>1, <1>2, RowTypes DEF TxInv
    <2>1. ClaimInv(t)'
      BY <1>9 DEF ClaimInv, StageInv
    <2>2. CancelInv(t)'
      BY <1>9, <1>12 DEF CancelInv, TypeOK
    <2>3. RecoverInv(t)'
      BY <1>9, <1>12 DEF RecoverInv
    <2>4. CompleteInv(t)'
      BY <1>9, <1>12 DEF CompleteInv, IsCurrent, Exists
    <2> QED BY <2>1, <2>2, <2>3, <2>4
  <1>14. OrderInv(t)'
    <2> SUFFICES ASSUME KindOf[t] \notin OutOfOrder, NEW r \in Rows, lock'[r] = t
                 PROVE  /\ Rank(r) <= Reach(KindOf[t], stage[t])
                        /\ \A q \in Wanted(t)' : \/ Rank(r) < Rank(q)
                                                 \/ Rank(r) = Rank(q) /\ lock'[Build] = t
      BY <1>2 DEF OrderInv
    <2>1. Wanted(t)' \subseteq Wanted(t)
      BY <1>7
    <2>2. CASE lock[r] = t
      <3>1. lock[Build] = t => lock'[Build] = t
        BY <1>9, RowTypes
      <3> QED BY <1>1, <2>1, <2>2, <3>1 DEF OrderInv, TxInv
    <2>3. CASE r = NextRow(t)
      <3>1. KindOf[t] = "claim" => stage[t] # 1
        BY <1>1 DEF StageInv
      <3>2. m \in DOMAIN rows
        BY <1>1, <1>6
      <3>3. /\ Rank(rows[m]) <= Reach(KindOf[t], stage[t])
            /\ \A k \in DOMAIN rows : m < k =>
                 \/ Rank(rows[m]) < Rank(rows[k])
                 \/ /\ Rank(rows[m]) = Rank(rows[k])
                    /\ KindOf[t] \in {"complete", "cancel"} /\ stage[t] >= 2
        BY <1>1, <3>1, <3>2, ScanRanks DEF rows
      <3>4. KindOf[t] \in {"complete", "cancel"} /\ stage[t] >= 2 => lock'[Build] = t
        BY <1>1, <1>9, RowTypes DEF TxInv, CancelInv, CompleteInv
      <3>5. ASSUME NEW q \in Wanted(t)'
            PROVE  Rank(r) < Rank(q) \/ (Rank(r) = Rank(q) /\ lock'[Build] = t)
        <4>1. PICK k \in todo[t] \ {m} : q = rows[k]
          BY <1>7
        <4>2. m < k /\ k \in DOMAIN rows
          BY <1>1, <1>6, <4>1
        <4> QED BY <1>1, <2>3, <3>3, <3>4, <4>1, <4>2
      <3> QED BY <1>1, <2>3, <3>3, <3>5
    <2> QED BY <1>9, <2>2, <2>3
  <1> QED BY <1>3, <1>4, <1>8, <1>13, <1>14 DEF TxInv

\* A statement starts: what it will lock is in order after what the transaction has, and
\* covers the rows the operation relies on.
LEMMA StatementStep ==
    ASSUME TypeOK, OwnerInv, NEW t \in Tx, StageInv(t), TxInv(t), Statement(t)
    PROVE  /\ \A u \in Tx \ {t} : Keeps(u)
           /\ TypeOK'
           /\ StageInv(t)' /\ TxInv(t)'
  <1>1. PICK n : n = stage[t] + 1
    OBVIOUS
  <1> DEFINE rows == StatementRows(t, n)
  <1>2. /\ result[t] = None /\ todo[t] = {} /\ ~ Refused(t)
        /\ stage[t] = 0 => KindOf[t] \notin {"claim", "recover"}
        /\ stage' = [stage EXCEPT ![t] = @ + 1]
        /\ todo' = [todo EXCEPT ![t] = Selected(t, n)]
        /\ lock' = lock /\ result' = result
        /\ job' = job /\ queue' = queue /\ lease' = lease /\ cancelled' = cancelled /\ requeues' = requeues
    BY <1>1 DEF Statement, Idle, db
  <1>3. stage[t] \in 0 .. 4 /\ stage[t] < Statements(KindOf[t]) /\ Statements(KindOf[t]) \in 2 .. 4
    BY RowLocksAssumption DEF Statement, LastStatement, Statements, TypeOK
  <1>4. /\ n \in 1 .. Statements(KindOf[t]) /\ n \in 1 .. 4 /\ stage'[t] = n /\ stage[t] = n - 1
        /\ KindOf[t] \in {"claim", "recover"} => n # 1
    BY <1>1, <1>2, <1>3 DEF TypeOK
  <1>5. /\ seen' \in [Tx -> [job : Jobs \cup {None}, cancelled : BOOLEAN, lapsed : BOOLEAN]]
        /\ seen'[t].job = seen[t].job
        /\ \A u \in Tx \ {t} : seen'[u] = seen[u]
    <2>1. lease[First] # None /\ First \in Leases
      BY DEF OwnerInv, Leases
    <2>2. lease[First].lapsed \in BOOLEAN
      BY <2>1 DEF TypeOK, LeaseRecords
    <2>3. cancelled \in BOOLEAN
      BY DEF TypeOK
    <2>4. PICK a \in BOOLEAN, b \in BOOLEAN : a = lease[First].lapsed /\ b = cancelled
      BY <2>2, <2>3
    <2>5. \/ seen' = [seen EXCEPT ![t].lapsed = a]
          \/ seen' = [seen EXCEPT ![t].cancelled = b]
          \/ seen' = seen
      BY <2>4 DEF Statement
    <2> QED BY <2>5 DEF TypeOK
  <1>6. KindOf[t] = "claim" => seen[t].job \in Jobs
    BY <1>1, <1>3, <1>4 DEF StageInv
  <1>7. DOMAIN rows \subseteq Nat /\ \A i \in DOMAIN rows : rows[i] \in Rows
    BY <1>4, <1>6, ScanType
  <1>8. Selected(t, n) \subseteq DOMAIN rows
    BY DEF Selected
  <1>9. TypeOK'
    <2>1. stage' \in [Tx -> 0 .. 4] /\ todo' \in [Tx -> SUBSET Nat]
      BY <1>2, <1>4, <1>7, <1>8 DEF TypeOK
    <2> QED BY <1>2, <1>5, <2>1 DEF TypeOK
  <1>10. \A u \in Tx \ {t} : Keeps(u)
    BY <1>2, <1>5 DEF Keeps, TypeOK
  <1>11. StatementRows(t, n)' = rows
    BY <1>5, ScanKept
  <1>12. todo'[t] = Selected(t, n)
    BY <1>2 DEF TypeOK
  <1>13. Wanted(t)' = {rows[i] : i \in Selected(t, n)}
    BY <1>4, <1>11, <1>12 DEF Wanted
  <1>14. StageInv(t)'
    BY <1>2, <1>4, <1>5, <1>6, <1>8, <1>11, <1>12 DEF StageInv
  <1>15. \A r : Covered(t, r) => lock[r] = t
    BY <1>2 DEF Covered, Wanted
  <1>16. \A r : (\E i \in DOMAIN rows : rows[i] = r /\ Selects(t, r)) => r \in Wanted(t)'
    BY <1>13 DEF Selected
  <1> HIDE DEF rows
  <1>17. /\ Build[1] = "build" /\ FirstRow[1] = "lease"
         /\ \A j : QueueRow(j)[1] = "queue" /\ QueueRow(j)[2] = j
    BY DEF Build, FirstRow, QueueRow, Row
  <1>18. ClaimInv(t)'
    BY <1>2, <1>3, <1>4, <1>5 DEF ClaimInv, TxInv, StageInv
  <1>19. CancelInv(t)'
    <2> SUFFICES ASSUME KindOf[t] = "cancel" PROVE CancelInv(t)'
      BY DEF CancelInv
    <2>1. n = 1 => Covered(t, Build)'
      <3> SUFFICES ASSUME n = 1 PROVE Covered(t, Build)'
        OBVIOUS
      <3>1. rows = <<Build, Attempt>>
        BY DEF rows, StatementRows, CancelRows
      <3>2. 1 \in DOMAIN rows /\ rows[1] = Build /\ Selects(t, Build)
        BY <1>17, <3>1 DEF Selects
      <3> QED BY <1>16, <3>2 DEF Covered, Build
    <2>2. n >= 2 => lock'[Build] = t
      BY <1>2, <1>4, <1>15 DEF CancelInv, TxInv
    <2>3. n = 2 => \A j \in queue : Covered(t, QueueRow(j))'
      <3> SUFFICES ASSUME n = 2, NEW j \in queue PROVE Covered(t, QueueRow(j))'
        OBVIOUS
      <3>1. rows = AllQueued
        BY DEF rows, StatementRows, CancelRows
      <3>2. PICK i \in DOMAIN JobOrder : JobOrder[i] = j
        BY Orders DEF TypeOK
      <3>3. i \in DOMAIN rows /\ rows[i] = QueueRow(j)
        BY <3>1, <3>2 DEF AllQueued, RowsOf, QueueRow
      <3>4. Selects(t, QueueRow(j))
        BY <1>17 DEF Selects
      <3> QED BY <1>16, <3>3, <3>4 DEF Covered, QueueRow, Row
    <2>4. n >= 3 => \A j \in queue : lock'[QueueRow(j)] = t
      BY <1>2, <1>4, <1>15 DEF CancelInv, TxInv
    <2> QED BY <1>2, <1>4, <2>1, <2>2, <2>3, <2>4 DEF CancelInv
  <1>20. RecoverInv(t)'
    <2> SUFFICES ASSUME KindOf[t] = "recover" PROVE RecoverInv(t)'
      BY DEF RecoverInv
    <2>1. n = 2 => Covered(t, FirstRow)' /\ Covered(t, Build)'
      <3> SUFFICES ASSUME n = 2 PROVE Covered(t, FirstRow)' /\ Covered(t, Build)'
        OBVIOUS
      <3>1. rows = Load \o <<Attempt, Build>>
        BY DEF rows, StatementRows, RecoverRows
      <3>2. \A p, q, r, s : /\ DOMAIN (<<p, q>> \o <<r, s>>) = 1 .. 4
                            /\ (<<p, q>> \o <<r, s>>)[1] = p /\ (<<p, q>> \o <<r, s>>)[4] = s
        OBVIOUS
      <3>3. 1 \in DOMAIN rows /\ rows[1] = FirstRow /\ 4 \in DOMAIN rows /\ rows[4] = Build
        BY <3>1, <3>2 DEF Load, FirstRow
      <3>4. Selects(t, Build) /\ Selects(t, FirstRow)
        BY DEF Selects
      <3>5. Build \in Wanted(t)' /\ FirstRow \in Wanted(t)'
        BY <1>16, <3>3, <3>4
      <3> QED BY <3>5 DEF Covered, Build, FirstRow, Row
    <2>2. n = 3 => lock'[FirstRow] = t /\ lock'[Build] = t
      BY <1>2, <1>4, <1>15 DEF RecoverInv, TxInv
    <2> QED BY <1>4, <2>1, <2>2 DEF RecoverInv
  <1>21. CompleteInv(t)'
    <2> SUFFICES ASSUME KindOf[t] = "complete" PROVE CompleteInv(t)'
      BY DEF CompleteInv
    <2>1. n = 1 => Covered(t, Build)'
      <3> SUFFICES ASSUME n = 1 PROVE Covered(t, Build)'
        OBVIOUS
      <3>1. rows = <<Build, Attempt>>
        BY DEF rows, StatementRows, CompleteRows
      <3>2. 1 \in DOMAIN rows /\ rows[1] = Build /\ Selects(t, Build)
        BY <3>1 DEF Selects
      <3> QED BY <1>16, <3>2 DEF Covered, Build
    <2>2. n >= 2 => lock'[Build] = t
      BY <1>2, <1>4, <1>15 DEF CompleteInv, TxInv
    <2>3. n = 2 => Covered(t, FirstRow)'
      <3> SUFFICES ASSUME n = 2 PROVE Covered(t, FirstRow)'
        OBVIOUS
      <3>1. rows = <<FirstRow, Row("job", Owned)>>
        BY DEF rows, StatementRows, CompleteRows, Load, FirstRow
      <3>2. 1 \in DOMAIN rows /\ rows[1] = FirstRow /\ Selects(t, FirstRow)
        BY <3>1 DEF Selects
      <3> QED BY <1>16, <3>2 DEF Covered, FirstRow, Row
    <2>4. n = 3 => lock'[FirstRow] = t
      BY <1>2, <1>4, <1>15 DEF CompleteInv, TxInv
    <2>5. n = 3 => IsCurrent(First)'
      BY <1>2, <1>4 DEF Refused, Owns, IsCurrent, Exists
    <2> QED BY <1>4, <2>1, <2>2, <2>3, <2>4, <2>5 DEF CompleteInv
  <1>22. OrderInv(t)'
    <2> SUFFICES ASSUME KindOf[t] \notin OutOfOrder, NEW r \in Rows, lock'[r] = t
                 PROVE  /\ Rank(r) <= Reach(KindOf[t], n)
                        /\ \A q \in Wanted(t)' : \/ Rank(r) < Rank(q)
                                                 \/ Rank(r) = Rank(q) /\ lock'[Build] = t
      BY <1>4 DEF OrderInv
    <2>1. n > 1 /\ lock[r] = t
      BY <1>2, <1>3, <1>4 DEF StageInv
    <2>2. Rank(r) <= Reach(KindOf[t], n - 1) /\ Rank(r) \in 0 .. 5
      BY <1>2, <1>4, RankType DEF OrderInv, TxInv
    <2>3. /\ Reach(KindOf[t], n - 1) <= Reach(KindOf[t], n)
          /\ Reach(KindOf[t], n) \in Nat /\ Reach(KindOf[t], n - 1) \in Nat
      BY <1>4, <2>1 DEF Reach
    <2>4. KindOf[t] = "complete" /\ n = 3 => lock'[Build] = t
      BY <1>21, <1>4 DEF CompleteInv
    <2>5. ASSUME NEW q \in Wanted(t)'
          PROVE  Rank(r) < Rank(q) \/ (Rank(r) = Rank(q) /\ lock'[Build] = t)
      <3>1. PICK i \in DOMAIN rows : q = rows[i]
        BY <1>8, <1>13
      <3>2. Rank(q) \in Nat /\
            (\/ Reach(KindOf[t], n - 1) < Rank(q)
             \/ /\ Reach(KindOf[t], n - 1) = Rank(q)
                /\ KindOf[t] = "complete" /\ n = 3)
        BY <1>4, <2>1, <3>1, ScanRanks DEF rows
      <3> QED BY <2>2, <2>3, <2>4, <3>2
    <2> QED BY <2>2, <2>3, <2>5
  <1> QED BY <1>9, <1>10, <1>14, <1>18, <1>19, <1>20, <1>21, <1>22 DEF TxInv

\* A claim picks a Job: it has the queue entry of one that is queued.
LEMMA PickJobStep ==
    ASSUME TypeOK, NEW t \in Tx, StageInv(t), TxInv(t), PickJob(t)
    PROVE  /\ \A u \in Tx \ {t} : Keeps(u)
           /\ TypeOK'
           /\ StageInv(t)' /\ TxInv(t)'
  <1>1. /\ KindOf[t] = "claim" /\ stage[t] = 0 /\ result[t] = None /\ todo[t] = {}
        /\ \A r \in Rows : lock[r] # t
        /\ stage' = [stage EXCEPT ![t] = 1] /\ todo' = todo /\ result' = result
        /\ job' = job /\ queue' = queue /\ lease' = lease /\ cancelled' = cancelled /\ requeues' = requeues
    BY DEF PickJob, StageInv, db
  <1>2. PICK j \in queue : /\ lock[QueueRow(j)] = None
                           /\ lock' = [lock EXCEPT ![QueueRow(j)] = t]
                           /\ seen' = [seen EXCEPT ![t].job = j]
    BY DEF PickJob, QueueRow
  <1>3. j \in Jobs /\ QueueRow(j) \in Rows
    BY <1>2, RowTypes DEF TypeOK
  <1>4. TypeOK'
    BY <1>1, <1>2, <1>3 DEF TypeOK
  <1>5. \A u \in Tx \ {t} : Keeps(u)
    BY <1>1, <1>2, <1>3, RowLocksAssumption DEF Keeps, TypeOK
  <1>6. stage'[t] = 1 /\ seen'[t].job = j /\ todo'[t] = {} /\ lock'[QueueRow(j)] = t
    BY <1>1, <1>2, <1>3 DEF TypeOK
  <1>7. StageInv(t)'
    BY <1>1, <1>3, <1>6 DEF StageInv, Statements
  <1>8. ClaimInv(t)'
    BY <1>1, <1>2, <1>6 DEF ClaimInv, TxInv, QueueRow, Row
  <1>9. CancelInv(t)' /\ RecoverInv(t)' /\ CompleteInv(t)'
    BY <1>1 DEF CancelInv, RecoverInv, CompleteInv
  <1>10. Rank(QueueRow(j)) = 3 /\ \A r \in Rows : lock'[r] = t => r = QueueRow(j)
    BY <1>1, <1>2, <1>3 DEF Rank, QueueRow, Row, TypeOK
  <1>11. Wanted(t)' = {}
    BY <1>6 DEF Wanted
  <1>12. OrderInv(t)'
    BY <1>1, <1>6, <1>10, <1>11 DEF OrderInv, Reach
  <1> QED BY <1>4, <1>5, <1>7, <1>8, <1>9, <1>12 DEF TxInv

\* The expiry worker claims the lease without keeping a row.
LEMMA ClaimExpiredStep ==
    ASSUME TypeOK, NEW t \in Tx, StageInv(t), TxInv(t), ClaimExpired(t)
    PROVE  /\ \A u \in Tx \ {t} : Keeps(u)
           /\ TypeOK'
           /\ StageInv(t)' /\ TxInv(t)'
  <1>1. /\ KindOf[t] = "recover" /\ stage[t] = 0 /\ result[t] = None /\ todo[t] = {}
        /\ stage' = [stage EXCEPT ![t] = 1] /\ todo' = todo /\ result' = result
        /\ lock' = lock /\ seen' = seen
        /\ job' = job /\ queue' = queue /\ lease' = lease /\ cancelled' = cancelled /\ requeues' = requeues
    BY DEF ClaimExpired, StageInv, db
  <1>2. TypeOK'
    BY <1>1 DEF TypeOK
  <1>3. \A u \in Tx \ {t} : Keeps(u)
    BY <1>1 DEF Keeps, TypeOK
  <1>4. stage'[t] = 1 /\ todo'[t] = {}
    BY <1>1 DEF TypeOK
  <1>5. StageInv(t)'
    BY <1>1, <1>4 DEF StageInv, Statements
  <1>6. TxInv(t)'
    BY <1>1, <1>4 DEF TxInv, ClaimInv, CancelInv, RecoverInv, CompleteInv, OrderInv, OutOfOrder
  <1> QED BY <1>2, <1>3, <1>5, <1>6

----------------------------------------------------------------------------
(* The commits                                                             *)

\* The committed rows have their types.
DbTypeOK ==
    /\ job \in [Jobs -> Terminal \cup {"ready", "leased", "running", "cancelling"}]
    /\ queue \subseteq Jobs
    /\ lease \in [Leases -> LeaseRecords \cup {None}]
    /\ cancelled \in BOOLEAN
    /\ requeues \in [Jobs -> 0 .. MaxRequeues]

\* What a commit does to the committed rows is right for owners, queue and cancellation
\* and leaves every other transaction what it relies on.
CommitsWell(t) == DbTypeOK' /\ OwnerInv' /\ \A u \in Tx \ {t} : Undisturbed(u)

\* What a transaction knows when it commits.
LEMMA AtCommit ==
    ASSUME LockInv, NEW t \in Tx, NEW kind, NEW how, CommitAs(t, kind, how)
    PROVE  /\ KindOf[t] = kind /\ result[t] = None /\ stage[t] \in 1 .. 4
           /\ stage[t] = LastStatement(t) /\ ~ Refused(t)
           /\ ClaimInv(t) /\ CancelInv(t) /\ RecoverInv(t) /\ CompleteInv(t)
           /\ kind = "recover" => stage[t] \in {2, 3} /\ lock[FirstRow] = t /\ lock[Build] = t
  <1>1. /\ KindOf[t] = kind /\ result[t] = None /\ todo[t] = {} /\ stage[t] > 0
        /\ stage[t] = LastStatement(t) /\ ~ Refused(t)
    BY DEF CommitAs, Open, Idle
  <1>2. stage[t] \in 1 .. 4 /\ TxInv(t)
    BY <1>1 DEF LockInv, TypeOK
  <1>3. \A r : Covered(t, r) => lock[r] = t
    BY <1>1 DEF Covered, Wanted
  <1>4. kind = "recover" => stage[t] \in {2, 3}
    BY <1>1 DEF LastStatement
  <1> QED BY <1>1, <1>2, <1>3, <1>4 DEF TxInv, RecoverInv

\* The lease First is there, and its Job is the one it was given for.
LEMMA FirstLease ==
    ASSUME TypeOK, OwnerInv
    PROVE  /\ First \in Leases /\ lease[First] \in LeaseRecords /\ lease[First].job = Owned
           /\ Owned \in Jobs /\ \A t \in Tx : t # First
  BY RowLocksAssumption DEF TypeOK, OwnerInv, Leases

\* A claim takes a queued Job, which nobody owns and no cancellation has reached.
LEMMA ClaimCommits ==
    ASSUME LockInv, NEW t \in Tx, CommitClaim(t)
    PROVE  CommitsWell(t)
  <1>1. PICK j : j = seen[t].job
    OBVIOUS
  <1>2. /\ KindOf[t] = "claim" /\ stage[t] # 0 /\ j \in queue /\ lock[QueueRow(j)] = t /\ lease[t] = None
        /\ t \in Leases /\ t # First
    BY <1>1, AtCommit, FirstLease DEF CommitClaim, ClaimInv, LockInv, Leases, Claims
  <1>3. /\ queue' = queue \ {j} /\ lease' = [lease EXCEPT ![t] = NewLease(j)]
        /\ job' = [job EXCEPT ![j] = "leased"] /\ cancelled' = cancelled /\ requeues' = requeues
    BY <1>1 DEF CommitClaim
  <1>4. TypeOK /\ OwnerInv
    BY DEF LockInv
  <1>5. j \in Jobs /\ job[j] = "ready" /\ NewLease(j) \in LeaseRecords /\ NewLease(j) # None
    <2>1. j \in Jobs /\ job[j] = "ready"
      BY <1>2, <1>4 DEF TypeOK, OwnerInv
    <2>2. NewLease(j) \in LeaseRecords
      BY <2>1 DEF NewLease, LeaseRecords, Current
    <2> QED BY <2>1, <2>2, RowLocksAssumption
  <1>6. ~ cancelled
    BY <1>2, <1>4 DEF OwnerInv, CancellationReachesEveryJob
  <1>7. DbTypeOK'
    BY <1>2, <1>3, <1>4, <1>5 DEF DbTypeOK, TypeOK
  <1>8. /\ \A l \in Leases \ {t} : lease'[l] = lease[l]
        /\ lease'[t] = NewLease(j)
        /\ CurrentLeases' = CurrentLeases \cup {t}
        /\ t \notin CurrentLeases
    BY <1>2, <1>3, <1>4, <1>5 DEF CurrentLeases, IsCurrent, Exists, TypeOK, NewLease, Current
  <1>9. OwnerInv'
    <2>1. \A l \in CurrentLeases : lease[l].job # j
      BY <1>4, <1>5 DEF OwnerInv, Active
    <2>2. \A i \in Jobs \ {j} : job'[i] = job[i]
      BY <1>3, <1>4 DEF TypeOK
    <2>3. job'[j] = "leased"
      BY <1>3, <1>4, <1>5 DEF TypeOK
    <2>4. \A l \in CurrentLeases : lease[l].job \in Jobs
      BY <1>4 DEF TypeOK, CurrentLeases, IsCurrent, Exists, LeaseRecords
    <2>5. lease'[t].job = j /\ lease'[First] = lease[First] /\ \A l \in CurrentLeases : lease'[l] = lease[l]
      BY <1>2, <1>4, <1>8, FirstLease DEF NewLease, CurrentLeases
    <2>6. lease'[First] # None /\ lease'[First].job = Owned
      BY <1>4, <2>5 DEF OwnerInv
    <2>7. \A i \in Jobs : i \in queue' <=> job'[i] = "ready"
      BY <1>3, <1>4, <2>2, <2>3 DEF OwnerInv
    <2>8. \A l \in CurrentLeases' : job'[lease'[l].job] \in Active
      BY <1>4, <1>5, <1>8, <2>1, <2>2, <2>3, <2>4, <2>5 DEF OwnerInv, Active
    <2>9. \A l, m \in CurrentLeases' : lease'[l].job = lease'[m].job => l = m
      BY <1>4, <1>8, <2>1, <2>5 DEF OwnerInv
    <2>10. \A i \in Jobs : job'[i] \in Active => \E l \in CurrentLeases' : lease'[l].job = i
      BY <1>4, <1>8, <2>2, <2>5 DEF OwnerInv
    <2>11. \A i \in Jobs : job'[i] = "cancelling" => cancelled'
      BY <1>3, <1>4, <2>2, <2>3 DEF OwnerInv
    <2>12. CancellationReachesEveryJob'
      BY <1>3, <1>6 DEF CancellationReachesEveryJob
    <2> QED BY <2>6, <2>7, <2>8, <2>9, <2>10, <2>11, <2>12 DEF OwnerInv
  <1>10. ASSUME NEW u \in Tx \ {t} PROVE Undisturbed(u)
    <2>1. KindOf[u] = "claim" /\ result[u] = None /\ stage[u] # 0 => seen[u].job \in queue'
      BY <1>2, <1>3 DEF LockInv, TxInv, ClaimInv
    <2>2. KindOf[u] = "claim" => lease'[u] = lease[u]
      BY <1>8 DEF Leases, Claims
    <2>3. KindOf[u] = "complete" /\ stage[u] = 3 /\ result[u] = None => IsCurrent(First)'
      BY <1>2, <1>4, <1>8, FirstLease DEF LockInv, TxInv, CompleteInv, IsCurrent, Exists
    <2> QED BY <1>3, <2>1, <2>2, <2>3 DEF Undisturbed
  <1> QED BY <1>7, <1>9, <1>10 DEF CommitsWell

\* The owner of the lease First stays, and its Job goes on.
LEMMA OwnerStays ==
    ASSUME TypeOK, OwnerInv, NEW x \in LeaseRecords, lease' = [lease EXCEPT ![First] = x],
           x.job = Owned, x.state \in Current <=> lease[First].state \in Current,
           lease[First].state = "cancellation_requested" => x.state = lease[First].state,
           NEW s, s = job[Owned] \/ (job[Owned] = "leased" /\ s = "running"),
           job' = [job EXCEPT ![Owned] = s],
           UNCHANGED <<queue, cancelled, requeues>>
    PROVE  DbTypeOK' /\ OwnerInv' /\ (IsCurrent(First) => IsCurrent(First)')
  <1>1. /\ First \in Leases /\ lease[First] \in LeaseRecords /\ lease[First].job = Owned
        /\ Owned \in Jobs /\ lease[First] # None /\ x # None
    BY FirstLease, RowLocksAssumption
  <1>2. /\ lease'[First] = x /\ \A l \in Leases \ {First} : lease'[l] = lease[l]
        /\ job'[Owned] = s /\ \A j \in Jobs \ {Owned} : job'[j] = job[j]
    BY <1>1 DEF TypeOK
  <1>3. DbTypeOK'
    <2>1. lease' \in [Leases -> LeaseRecords \cup {None}]
      BY <1>1 DEF TypeOK
    <2>2. job' \in [Jobs -> Terminal \cup {"ready", "leased", "running", "cancelling"}]
      BY <1>1 DEF TypeOK
    <2> QED BY <2>1, <2>2 DEF DbTypeOK, TypeOK
  <1>4. CurrentLeases' = CurrentLeases /\ (IsCurrent(First)' <=> IsCurrent(First))
    BY <1>1, <1>2 DEF CurrentLeases, IsCurrent, Exists
  <1>5. \A l \in CurrentLeases : lease'[l].job = lease[l].job /\ lease[l].job \in Jobs
    BY <1>1, <1>2 DEF CurrentLeases, IsCurrent, Exists, TypeOK, LeaseRecords
  <1>6. \A j \in Jobs : /\ job'[j] = "ready" <=> job[j] = "ready"
                        /\ job'[j] \in Active <=> job[j] \in Active
                        /\ job'[j] = "cancelling" <=> job[j] = "cancelling"
    BY <1>1, <1>2 DEF Active
  <1>7. OwnerInv'
    <2>1. lease'[First] # None /\ lease'[First].job = Owned
      BY <1>1, <1>2
    <2>2. \A j \in Jobs : j \in queue' <=> job'[j] = "ready"
      BY <1>6 DEF OwnerInv
    <2>3. \A l \in CurrentLeases' : job'[lease'[l].job] \in Active
      BY <1>4, <1>5, <1>6 DEF OwnerInv
    <2>4. \A l, m \in CurrentLeases' : lease'[l].job = lease'[m].job => l = m
      BY <1>4, <1>5 DEF OwnerInv
    <2>5. \A j \in Jobs : job'[j] \in Active => \E l \in CurrentLeases' : lease'[l].job = j
      BY <1>4, <1>5, <1>6 DEF OwnerInv
    <2>6. \A j \in Jobs : job'[j] = "cancelling" => cancelled'
      BY <1>6 DEF OwnerInv
    <2>7. CancellationReachesEveryJob'
      <3> SUFFICES ASSUME cancelled
                   PROVE  /\ queue' = {}
                          /\ \A j \in Jobs : job'[j] \in Terminal \cup {"cancelling"}
                          /\ \A l \in CurrentLeases' : lease'[l].state = "cancellation_requested"
        BY DEF CancellationReachesEveryJob
      <3>1. /\ queue = {} /\ \A j \in Jobs : job[j] \in Terminal \cup {"cancelling"}
            /\ \A l \in CurrentLeases : lease[l].state = "cancellation_requested"
        BY DEF OwnerInv, CancellationReachesEveryJob
      <3>2. job[Owned] # "leased"
        BY <1>1, <3>1 DEF Terminal
      <3>3. \A l \in CurrentLeases : lease'[l].state = "cancellation_requested"
        BY <1>2, <3>1 DEF CurrentLeases
      <3> QED BY <1>1, <1>2, <1>4, <3>1, <3>2, <3>3
    <2> QED BY <2>1, <2>2, <2>3, <2>4, <2>5, <2>6, <2>7 DEF OwnerInv
  <1> QED BY <1>3, <1>4, <1>7

\* The owner of the lease First is gone, and its Job has ended or is queued again.
LEMMA OwnerEnds ==
    ASSUME TypeOK, OwnerInv, IsCurrent(First), NEW x \in LeaseRecords,
           lease' = [lease EXCEPT ![First] = x], x.job = Owned, x.state \notin Current,
           NEW s \in Terminal \cup {"ready"}, job' = [job EXCEPT ![Owned] = s],
           queue' = (IF s = "ready" THEN queue \cup {Owned} ELSE queue),
           s = "ready" => ~ cancelled,
           cancelled' = cancelled
    PROVE  /\ job' \in [Jobs -> Terminal \cup {"ready", "leased", "running", "cancelling"}]
           /\ queue' \subseteq Jobs
           /\ lease' \in [Leases -> LeaseRecords \cup {None}]
           /\ OwnerInv'
  <1>1. /\ First \in Leases /\ lease[First] \in LeaseRecords /\ lease[First].job = Owned
        /\ Owned \in Jobs /\ lease[First] # None /\ x # None
    BY FirstLease, RowLocksAssumption
  <1>2. /\ lease'[First] = x /\ \A l \in Leases \ {First} : lease'[l] = lease[l]
        /\ job'[Owned] = s /\ \A j \in Jobs \ {Owned} : job'[j] = job[j]
    BY <1>1 DEF TypeOK
  <1>3. lease' \in [Leases -> LeaseRecords \cup {None}]
    BY <1>1 DEF TypeOK
  <1>4. job' \in [Jobs -> Terminal \cup {"ready", "leased", "running", "cancelling"}] /\ queue' \subseteq Jobs
    BY <1>1 DEF TypeOK
  <1>5. CurrentLeases' = CurrentLeases \ {First} /\ First \in CurrentLeases
    BY <1>1, <1>2 DEF CurrentLeases, IsCurrent, Exists
  <1>6. \A l \in CurrentLeases \ {First} : /\ lease'[l] = lease[l] /\ lease[l].job \in Jobs
                                           /\ lease[l].job # Owned
    BY <1>1, <1>2, <1>5 DEF CurrentLeases, IsCurrent, Exists, TypeOK, LeaseRecords, OwnerInv
  <1>7. /\ s \notin Active /\ s # "cancelling"
        /\ job[Owned] \in Active /\ job[Owned] # "ready" /\ Owned \notin queue
    BY <1>1, <1>5 DEF Active, Terminal, OwnerInv
  <1>8. OwnerInv'
    <2>1. lease'[First] # None /\ lease'[First].job = Owned
      BY <1>1, <1>2
    <2>2. \A j \in Jobs : j \in queue' <=> job'[j] = "ready"
      BY <1>1, <1>2, <1>7 DEF OwnerInv
    <2>3. \A l \in CurrentLeases' : job'[lease'[l].job] \in Active
      BY <1>2, <1>5, <1>6 DEF OwnerInv
    <2>4. \A l, m \in CurrentLeases' : lease'[l].job = lease'[m].job => l = m
      BY <1>5, <1>6 DEF OwnerInv
    <2>5. \A j \in Jobs : job'[j] \in Active => \E l \in CurrentLeases' : lease'[l].job = j
      BY <1>1, <1>2, <1>5, <1>6, <1>7 DEF OwnerInv
    <2>6. \A j \in Jobs : job'[j] = "cancelling" => cancelled'
      BY <1>1, <1>2, <1>7 DEF OwnerInv
    <2>7. CancellationReachesEveryJob'
      BY <1>1, <1>2, <1>5, <1>6 DEF OwnerInv, CancellationReachesEveryJob
    <2> QED BY <2>1, <2>2, <2>3, <2>4, <2>5, <2>6, <2>7 DEF OwnerInv
  <1> QED BY <1>3, <1>4, <1>8

\* A lease row stays one when its deadline or its state is written.
LEMMA LeaseWrites ==
    ASSUME NEW r \in LeaseRecords
    PROVE  /\ \A b \in BOOLEAN : /\ [r EXCEPT !.lapsed = b] \in LeaseRecords
                                 /\ [r EXCEPT !.lapsed = b].job = r.job
                                 /\ [r EXCEPT !.lapsed = b].state = r.state
           /\ \A s \in Current \cup {"completed", "expired"} :
                 /\ [r EXCEPT !.state = s] \in LeaseRecords
                 /\ [r EXCEPT !.state = s].job = r.job
                 /\ [r EXCEPT !.state = s].state = s
  BY DEF LeaseRecords

\* A transaction in which the lease First keeps its owner disturbs no other.
LEMMA StaysUndisturbed ==
    ASSUME LockInv, queue' = queue, \A l \in Leases \ {First} : lease'[l] = lease[l],
           IsCurrent(First) => IsCurrent(First)', NEW u \in Tx
    PROVE  Undisturbed(u)
  <1>1. KindOf[u] = "claim" => u \in Leases \ {First}
    BY RowLocksAssumption DEF Leases, Claims
  <1>2. KindOf[u] = "complete" /\ stage[u] = 3 /\ result[u] = None => IsCurrent(First)
    BY DEF LockInv, TxInv, CompleteInv
  <1>3. KindOf[u] = "claim" /\ stage[u] # 0 /\ result[u] = None => seen[u].job \in queue
    BY DEF LockInv, TxInv, ClaimInv
  <1> QED BY <1>1, <1>2, <1>3 DEF Undisturbed

\* A heartbeat renews the deadline only.
LEMMA HeartbeatCommits ==
    ASSUME LockInv, NEW t \in Tx, CommitHeartbeat(t)
    PROVE  CommitsWell(t)
  <1>1. /\ TypeOK /\ OwnerInv /\ First \in Leases /\ lease[First] \in LeaseRecords
        /\ lease[First].job = Owned /\ Owned \in Jobs
    BY FirstLease DEF LockInv
  <1>2. PICK x \in LeaseRecords : /\ lease' = [lease EXCEPT ![First] = x] /\ x.job = Owned
                                  /\ x.state = lease[First].state
    <2>1. CASE lease' = lease
      <3>1. lease' = [lease EXCEPT ![First] = lease[First]]
        BY <1>1, <2>1 DEF TypeOK
      <3> QED BY <1>1, <3>1
    <2>2. CASE lease' = [lease EXCEPT ![First].lapsed = FALSE]
      <3>1. PICK x : x = [lease[First] EXCEPT !.lapsed = FALSE]
        OBVIOUS
      <3>2. lease' = [lease EXCEPT ![First] = x]
        BY <2>2, <3>1
      <3>3. x \in LeaseRecords /\ x.job = Owned /\ x.state = lease[First].state
        BY <1>1, <3>1, LeaseWrites
      <3> QED BY <3>2, <3>3
    <2> QED BY <2>1, <2>2 DEF CommitHeartbeat
  <1>3. job' = [job EXCEPT ![Owned] = job[Owned]] /\ UNCHANGED <<queue, cancelled, requeues>>
    BY <1>1 DEF CommitHeartbeat, TypeOK
  <1>4. DbTypeOK' /\ OwnerInv' /\ (IsCurrent(First) => IsCurrent(First)')
    BY <1>1, <1>2, <1>3, OwnerStays
  <1>5. \A l \in Leases \ {First} : lease'[l] = lease[l]
    BY <1>1, <1>2 DEF TypeOK
  <1> QED BY <1>3, <1>4, <1>5, StaysUndisturbed DEF CommitsWell

\* The first events of a Job move it to running.
LEMMA AppendCommits ==
    ASSUME LockInv, NEW t \in Tx, CommitAppend(t)
    PROVE  CommitsWell(t)
  <1>1. /\ TypeOK /\ OwnerInv /\ First \in Leases /\ lease[First] \in LeaseRecords
        /\ lease[First].job = Owned /\ Owned \in Jobs
    BY FirstLease DEF LockInv
  <1>2. lease' = [lease EXCEPT ![First] = lease[First]] /\ UNCHANGED <<queue, cancelled, requeues>>
    BY <1>1 DEF CommitAppend, TypeOK
  <1>3. PICK s : /\ s = job[Owned] \/ (job[Owned] = "leased" /\ s = "running")
                 /\ job' = [job EXCEPT ![Owned] = s]
    <2>1. CASE job[Owned] = "leased"
      BY <2>1 DEF CommitAppend
    <2>2. CASE job[Owned] # "leased"
      <3>1. job' = [job EXCEPT ![Owned] = job[Owned]]
        BY <1>1, <2>2 DEF CommitAppend, TypeOK
      <3> QED BY <3>1
    <2> QED BY <2>1, <2>2
  <1>4. PICK x \in LeaseRecords : x = lease[First]
    BY <1>1
  <1>5. DbTypeOK' /\ OwnerInv' /\ (IsCurrent(First) => IsCurrent(First)')
    BY <1>1, <1>2, <1>3, <1>4, OwnerStays
  <1>6. \A l \in Leases \ {First} : lease'[l] = lease[l]
    BY <1>1, <1>2 DEF TypeOK
  <1> QED BY <1>2, <1>5, <1>6, StaysUndisturbed DEF CommitsWell

\* A drain tells the owner to stop, and never takes back that it is to cancel.
LEMMA DrainCommits ==
    ASSUME LockInv, NEW t \in Tx, CommitDrain(t)
    PROVE  CommitsWell(t)
  <1>1. /\ TypeOK /\ OwnerInv /\ First \in Leases /\ lease[First] \in LeaseRecords
        /\ lease[First].job = Owned /\ Owned \in Jobs
    BY FirstLease DEF LockInv
  <1>2. PICK x \in LeaseRecords : /\ lease' = [lease EXCEPT ![First] = x] /\ x.job = Owned
                                  /\ x.state \in Current <=> lease[First].state \in Current
                                  /\ lease[First].state = "cancellation_requested" =>
                                        x.state = lease[First].state
    <2>1. CASE lease[First].state \notin {"active", "drain_requested"}
      <3>1. lease' = [lease EXCEPT ![First] = lease[First]]
        BY <1>1, <2>1 DEF CommitDrain, TypeOK
      <3> QED BY <1>1, <3>1
    <2>2. CASE lease[First].state \in {"active", "drain_requested"}
      <3>1. PICK s \in {"drain_requested", "cancellation_requested"} :
               lease' = [lease EXCEPT ![First].state = s]
        BY <2>2 DEF CommitDrain
      <3>2. PICK x : x = [lease[First] EXCEPT !.state = s]
        OBVIOUS
      <3>3. lease' = [lease EXCEPT ![First] = x]
        BY <3>1, <3>2
      <3>4. s \in Current /\ lease[First].state \in Current
        BY <2>2 DEF Current
      <3>5. x \in LeaseRecords /\ x.job = Owned /\ x.state = s
        BY <1>1, <3>2, <3>4, LeaseWrites
      <3> QED BY <2>2, <3>3, <3>4, <3>5
    <2> QED BY <2>1, <2>2
  <1>3. job' = [job EXCEPT ![Owned] = job[Owned]] /\ UNCHANGED <<queue, cancelled, requeues>>
    BY <1>1 DEF CommitDrain, TypeOK
  <1>4. DbTypeOK' /\ OwnerInv' /\ (IsCurrent(First) => IsCurrent(First)')
    BY <1>1, <1>2, <1>3, OwnerStays
  <1>5. \A l \in Leases \ {First} : lease'[l] = lease[l]
    BY <1>1, <1>2 DEF TypeOK
  <1> QED BY <1>3, <1>4, <1>5, StaysUndisturbed DEF CommitsWell

\* A transaction that ends the lease First has it locked, so no completion relies on it.
LEMMA EndsUndisturbed ==
    ASSUME LockInv, NEW t \in Tx, lock[FirstRow] = t, \A l \in Leases \ {First} : lease'[l] = lease[l],
           queue \subseteq queue', queue' # queue => lock[Build] = t, NEW u \in Tx \ {t}
    PROVE  Undisturbed(u)
  <1>1. KindOf[u] = "claim" => u \in Leases \ {First}
    BY RowLocksAssumption DEF Leases, Claims
  <1>2. ~ (KindOf[u] = "complete" /\ stage[u] = 3 /\ result[u] = None)
    BY DEF LockInv, TxInv, CompleteInv
  <1>3. KindOf[u] = "claim" /\ stage[u] # 0 /\ result[u] = None => seen[u].job \in queue
    BY DEF LockInv, TxInv, ClaimInv
  <1>4. KindOf[u] = "cancel" /\ stage[u] >= 2 /\ result[u] = None => lock[Build] = u
    BY DEF LockInv, TxInv, CancelInv
  <1> QED BY <1>1, <1>2, <1>3, <1>4 DEF Undisturbed

\* A completion ends the Job with its owner.
LEMMA CompleteCommits ==
    ASSUME LockInv, NEW t \in Tx, CommitComplete(t)
    PROVE  CommitsWell(t)
  <1>1. /\ TypeOK /\ OwnerInv /\ First \in Leases /\ lease[First] \in LeaseRecords
        /\ lease[First].job = Owned /\ Owned \in Jobs
    BY FirstLease DEF LockInv
  <1>2. lock[FirstRow] = t /\ IsCurrent(First)
    <2>1. CommitAs(t, "complete", "committed")
      BY DEF CommitComplete
    <2>2. KindOf[t] = "complete" /\ stage[t] = LastStatement(t) /\ CompleteInv(t)
      BY <2>1, AtCommit
    <2> QED BY <2>2 DEF LastStatement, CompleteInv
  <1>3. PICK x \in LeaseRecords : /\ lease' = [lease EXCEPT ![First] = x] /\ x.job = Owned
                                  /\ x.state = "completed"
    <2>1. PICK x : x = [lease[First] EXCEPT !.state = "completed"]
      OBVIOUS
    <2>2. lease' = [lease EXCEPT ![First] = x]
      BY <2>1 DEF CommitComplete
    <2>3. x \in LeaseRecords /\ x.job = Owned /\ x.state = "completed"
      BY <1>1, <2>1, LeaseWrites
    <2> QED BY <2>2, <2>3
  <1>4. job' = [job EXCEPT ![Owned] = "succeeded"] /\ UNCHANGED <<queue, cancelled, requeues>>
    BY DEF CommitComplete
  <1>5. x.state \notin Current /\ "succeeded" \in Terminal \cup {"ready"}
    BY <1>3 DEF Current, Terminal
  <1>6. /\ job' \in [Jobs -> Terminal \cup {"ready", "leased", "running", "cancelling"}]
        /\ queue' \subseteq Jobs
        /\ lease' \in [Leases -> LeaseRecords \cup {None}]
        /\ OwnerInv'
    BY <1>1, <1>2, <1>3, <1>4, <1>5, OwnerEnds
  <1>7. DbTypeOK'
    BY <1>1, <1>4, <1>6 DEF DbTypeOK, TypeOK
  <1>8. \A l \in Leases \ {First} : lease'[l] = lease[l]
    BY <1>1, <1>3 DEF TypeOK
  <1>9. \A u \in Tx \ {t} : Undisturbed(u)
    BY <1>2, <1>4, <1>8, EndsUndisturbed
  <1> QED BY <1>6, <1>7, <1>9 DEF CommitsWell

\* A recovery that queues the Job again does so before any cancellation it could miss.
LEMMA RequeueCommits ==
    ASSUME LockInv, NEW t \in Tx, RecoverRequeue(t)
    PROVE  CommitsWell(t)
  <1>1. /\ TypeOK /\ OwnerInv /\ First \in Leases /\ lease[First] \in LeaseRecords
        /\ lease[First].job = Owned /\ Owned \in Jobs
    BY FirstLease DEF LockInv
  <1>2. lock[FirstRow] = t /\ lock[Build] = t /\ IsCurrent(First)
    BY AtCommit DEF RecoverRequeue, AlreadyRecovered
  <1>3. PICK x \in LeaseRecords : /\ lease' = [lease EXCEPT ![First] = x] /\ x.job = Owned
                                  /\ x.state = "expired"
    <2>1. PICK x : x = [lease[First] EXCEPT !.state = "expired"]
      OBVIOUS
    <2>2. lease' = [lease EXCEPT ![First] = x]
      BY <2>1 DEF RecoverRequeue
    <2>3. x \in LeaseRecords /\ x.job = Owned /\ x.state = "expired"
      BY <1>1, <2>1, LeaseWrites
    <2> QED BY <2>2, <2>3
  <1>4. /\ job' = [job EXCEPT ![Owned] = "ready"] /\ cancelled' = cancelled /\ queue' = queue \cup {Owned}
        /\ requeues' = [requeues EXCEPT ![Owned] = @ + 1] /\ requeues[Owned] < MaxRequeues
        /\ job[Owned] \in {"leased", "running"}
    BY DEF RecoverRequeue, MayRequeue
  <1>5. ~ cancelled
    BY <1>1, <1>4 DEF OwnerInv, CancellationReachesEveryJob, Terminal
  <1>6. x.state \notin Current /\ "ready" \in Terminal \cup {"ready"}
    BY <1>3 DEF Current
  <1>7. /\ job' \in [Jobs -> Terminal \cup {"ready", "leased", "running", "cancelling"}]
        /\ queue' \subseteq Jobs
        /\ lease' \in [Leases -> LeaseRecords \cup {None}]
        /\ OwnerInv'
    BY <1>1, <1>2, <1>3, <1>4, <1>5, <1>6, OwnerEnds
  <1>8. requeues' \in [Jobs -> 0 .. MaxRequeues]
    BY <1>1, <1>4, RowLocksAssumption DEF TypeOK
  <1>9. DbTypeOK'
    BY <1>1, <1>4, <1>7, <1>8 DEF DbTypeOK, TypeOK
  <1>10. \A l \in Leases \ {First} : lease'[l] = lease[l]
    BY <1>1, <1>3 DEF TypeOK
  <1>11. \A u \in Tx \ {t} : Undisturbed(u)
    BY <1>2, <1>4, <1>10, EndsUndisturbed
  <1> QED BY <1>7, <1>9, <1>11 DEF CommitsWell

\* A recovery that ends the Job does so with its owner.
LEMMA TerminalCommits ==
    ASSUME LockInv, NEW t \in Tx, RecoverTerminal(t)
    PROVE  CommitsWell(t)
  <1>1. /\ TypeOK /\ OwnerInv /\ First \in Leases /\ lease[First] \in LeaseRecords
        /\ lease[First].job = Owned /\ Owned \in Jobs
    BY FirstLease DEF LockInv
  <1>2. lock[FirstRow] = t /\ IsCurrent(First)
    BY AtCommit DEF RecoverTerminal, AlreadyRecovered
  <1>3. PICK x \in LeaseRecords : /\ lease' = [lease EXCEPT ![First] = x] /\ x.job = Owned
                                  /\ x.state = "expired"
    <2>1. PICK x : x = [lease[First] EXCEPT !.state = "expired"]
      OBVIOUS
    <2>2. lease' = [lease EXCEPT ![First] = x]
      BY <2>1 DEF RecoverTerminal
    <2>3. x \in LeaseRecords /\ x.job = Owned /\ x.state = "expired"
      BY <1>1, <2>1, LeaseWrites
    <2> QED BY <2>2, <2>3
  <1>4. PICK s \in {"cancelled", "failed"} : job' = [job EXCEPT ![Owned] = s]
    BY DEF RecoverTerminal
  <1>5. UNCHANGED <<queue, cancelled, requeues>>
    BY DEF RecoverTerminal
  <1>6. x.state \notin Current /\ s \in Terminal \cup {"ready"} /\ s # "ready"
    BY <1>3 DEF Current, Terminal
  <1>7. /\ job' \in [Jobs -> Terminal \cup {"ready", "leased", "running", "cancelling"}]
        /\ queue' \subseteq Jobs
        /\ lease' \in [Leases -> LeaseRecords \cup {None}]
        /\ OwnerInv'
    BY <1>1, <1>2, <1>3, <1>4, <1>5, <1>6, OwnerEnds
  <1>8. DbTypeOK'
    BY <1>1, <1>5, <1>7 DEF DbTypeOK, TypeOK
  <1>9. \A l \in Leases \ {First} : lease'[l] = lease[l]
    BY <1>1, <1>3 DEF TypeOK
  <1>10. \A u \in Tx \ {t} : Undisturbed(u)
    BY <1>2, <1>5, <1>9, EndsUndisturbed
  <1> QED BY <1>7, <1>8, <1>10 DEF CommitsWell

\* A cancellation reaches every Job there is: none is claimed meanwhile, and each owner
\* is told.
LEMMA CancelCommits ==
    ASSUME LockInv, NEW t \in Tx, CommitCancel(t)
    PROVE  CommitsWell(t)
  <1>1. TypeOK /\ OwnerInv
    BY DEF LockInv
  <1>2. \A j \in queue : lock[QueueRow(j)] = t
    <2>1. CommitAs(t, "cancel", "committed")
      BY DEF CommitCancel
    <2>2. KindOf[t] = "cancel" /\ stage[t] = LastStatement(t) /\ CancelInv(t)
      BY <2>1, AtCommit
    <2> QED BY <2>2 DEF LastStatement, CancelInv
  <1>3. /\ cancelled' = TRUE /\ requeues' = requeues
        /\ job' = [j \in Jobs |-> CASE job[j] = "ready" -> "cancelled"
                                    [] job[j] \in {"leased", "running"} -> "cancelling"
                                    [] OTHER -> job[j]]
        /\ queue' = {j \in queue : job[j] # "ready"}
        /\ lease' = [l \in Leases |->
              IF l \in CurrentLeases /\ job[lease[l].job] \in {"leased", "running"}
              THEN [lease[l] EXCEPT !.state = "cancellation_requested"] ELSE lease[l]]
    BY DEF CommitCancel
  <1>4. queue' = {}
    BY <1>1, <1>3 DEF OwnerInv, TypeOK
  <1>5. \A j \in Jobs : /\ job[j] = "ready" => job'[j] = "cancelled"
                        /\ job[j] \in {"leased", "running"} => job'[j] = "cancelling"
                        /\ job[j] \in Terminal \cup {"cancelling"} => job'[j] = job[j]
                        /\ job[j] \in Terminal \cup {"ready", "leased", "running", "cancelling"}
    BY <1>1, <1>3 DEF TypeOK, Terminal
  <1>6. \A j \in Jobs : /\ job'[j] \in Terminal \cup {"cancelling"}
                        /\ job'[j] \in Active <=> job[j] \in Active
    BY <1>5 DEF Terminal, Active
  <1>7. \A l \in CurrentLeases : /\ l \in Leases /\ lease[l] \in LeaseRecords /\ lease[l].job \in Jobs
                                 /\ job[lease[l].job] \in Active
    BY <1>1 DEF CurrentLeases, IsCurrent, Exists, TypeOK, LeaseRecords, OwnerInv
  <1>8. \A l \in CurrentLeases : /\ lease'[l] \in LeaseRecords /\ lease'[l].job = lease[l].job
                                 /\ lease'[l].state = "cancellation_requested"
    <2> TAKE l \in CurrentLeases
    <2>1. CASE job[lease[l].job] \in {"leased", "running"}
      <3>1. lease'[l] = [lease[l] EXCEPT !.state = "cancellation_requested"]
        BY <1>3, <1>7, <2>1
      <3>2. "cancellation_requested" \in Current
        BY DEF Current
      <3> QED BY <1>7, <3>1, <3>2, LeaseWrites
    <2>2. CASE job[lease[l].job] \notin {"leased", "running"}
      <3>1. lease'[l] = lease[l] /\ job[lease[l].job] = "cancelling"
        BY <1>3, <1>7, <2>2 DEF Active
      <3>2. lease[l].state = "cancellation_requested"
        BY <1>1, <1>7, <3>1 DEF OwnerInv, CancellationReachesEveryJob
      <3> QED BY <1>7, <3>1, <3>2
    <2> QED BY <2>1, <2>2
  <1>9. \A l \in Leases \ CurrentLeases : lease'[l] = lease[l]
    BY <1>3
  <1>10. \A l \in CurrentLeases : lease'[l] # None
    BY <1>8, RowLocksAssumption
  <1>11. CurrentLeases' = CurrentLeases
    BY <1>7, <1>8, <1>9, <1>10 DEF CurrentLeases, IsCurrent, Exists, Current
  <1>12. DbTypeOK'
    <2>1. lease' \in [Leases -> LeaseRecords \cup {None}]
      BY <1>1, <1>3, <1>8, <1>9 DEF TypeOK
    <2>2. job' \in [Jobs -> Terminal \cup {"ready", "leased", "running", "cancelling"}]
      BY <1>3, <1>6
    <2>3. cancelled' \in BOOLEAN
      BY <1>3
    <2> QED BY <1>1, <1>3, <1>4, <2>1, <2>2, <2>3 DEF DbTypeOK, TypeOK
  <1>13. OwnerInv'
    <2>1. lease'[First] # None /\ lease'[First].job = Owned
      BY <1>1, <1>8, <1>9, <1>10, FirstLease DEF OwnerInv
    <2>2. \A j \in Jobs : j \in queue' <=> job'[j] = "ready"
      BY <1>4, <1>6 DEF Terminal
    <2>3. \A l \in CurrentLeases' : job'[lease'[l].job] \in Active
      BY <1>6, <1>7, <1>8, <1>11
    <2>4. \A l, m \in CurrentLeases' : lease'[l].job = lease'[m].job => l = m
      BY <1>1, <1>8, <1>11 DEF OwnerInv
    <2>5. \A j \in Jobs : job'[j] \in Active => \E l \in CurrentLeases' : lease'[l].job = j
      BY <1>1, <1>6, <1>8, <1>11 DEF OwnerInv
    <2>6. \A j \in Jobs : job'[j] = "cancelling" => cancelled'
      BY <1>3
    <2>7. CancellationReachesEveryJob'
      BY <1>4, <1>6, <1>8, <1>11 DEF CancellationReachesEveryJob
    <2> QED BY <2>1, <2>2, <2>3, <2>4, <2>5, <2>6, <2>7 DEF OwnerInv
  <1>14. ASSUME NEW u \in Tx \ {t} PROVE Undisturbed(u)
    <2>1. ~ (KindOf[u] = "claim" /\ stage[u] # 0 /\ result[u] = None)
      BY <1>2 DEF LockInv, TxInv, ClaimInv
    <2>2. KindOf[u] = "claim" /\ result[u] = None => lease'[u] = lease[u]
      <3> SUFFICES ASSUME KindOf[u] = "claim", result[u] = None PROVE lease'[u] = lease[u]
        OBVIOUS
      <3>1. lease[u] = None /\ u \in Leases
        BY DEF LockInv, TxInv, ClaimInv, Leases, Claims
      <3> QED BY <1>9, <3>1 DEF CurrentLeases, IsCurrent, Exists
    <2>3. KindOf[u] = "complete" /\ stage[u] = 3 /\ result[u] = None => IsCurrent(First)'
      <3> SUFFICES ASSUME KindOf[u] = "complete", stage[u] = 3, result[u] = None PROVE IsCurrent(First)'
        OBVIOUS
      <3>1. First \in CurrentLeases
        BY <1>1, FirstLease DEF LockInv, TxInv, CompleteInv, CurrentLeases
      <3> QED BY <1>11, <3>1 DEF CurrentLeases
    <2> QED BY <1>4, <2>1, <2>2, <2>3 DEF Undisturbed
  <1> QED BY <1>12, <1>13, <1>14 DEF CommitsWell

----------------------------------------------------------------------------
(* The invariant is kept                                                   *)

\* At the start nobody has a row.
LEMMA LockInit == Init => LockInv
  <1> SUFFICES ASSUME Init PROVE LockInv
    OBVIOUS
  <1>1. /\ lease = [l \in Leases |-> IF l = First THEN NewLease(Owned) ELSE None]
        /\ job = [j \in Jobs |-> IF j = Owned THEN "leased" ELSE "ready"] /\ queue = Jobs \ {Owned}
        /\ cancelled = FALSE /\ requeues = [j \in Jobs |-> 0] /\ lock = [r \in Rows |-> None]
        /\ stage = [t \in Tx |-> 0] /\ todo = [t \in Tx |-> {}]
        /\ seen = [t \in Tx |-> [job |-> None, cancelled |-> FALSE, lapsed |-> FALSE]]
        /\ First \in Leases /\ Owned \in Jobs
    BY RowLocksAssumption DEF Init, Leases
  <1>2. NewLease(Owned) \in LeaseRecords
    BY <1>1 DEF NewLease, LeaseRecords, Current
  <1>3. /\ NewLease(Owned) # None /\ lease[First] = NewLease(Owned) /\ lease[First].job = Owned
        /\ lease[First].state \in Current /\ \A l \in Leases \ {First} : lease[l] = None
    <2>1. NewLease(Owned) # None
      BY <1>2, RowLocksAssumption
    <2> QED BY <1>1, <2>1 DEF NewLease, Current
  <1>4. \A t \in Tx : stage[t] = 0 /\ todo[t] = {} /\ \A r \in Rows : lock[r] # t
    BY <1>1, RowLocksAssumption
  <1>5. TypeOK
    <2>1. lease \in [Leases -> LeaseRecords \cup {None}]
      BY <1>1, <1>2
    <2>2. job \in [Jobs -> Terminal \cup {"ready", "leased", "running", "cancelling"}] /\ queue \subseteq Jobs
      BY <1>1
    <2>3. /\ seen \in [Tx -> [job : Jobs \cup {None}, cancelled : BOOLEAN, lapsed : BOOLEAN]]
          /\ cancelled \in BOOLEAN
      BY <1>1
    <2>4. requeues \in [Jobs -> 0 .. MaxRequeues]
      BY <1>1, RowLocksAssumption
    <2>5. stage \in [Tx -> 0 .. 4] /\ todo \in [Tx -> SUBSET Nat] /\ lock \in [Rows -> Tx \cup {None}]
      BY <1>1
    <2>6. result \in [Tx -> Results \cup {None}]
      BY DEF Init, Results
    <2> QED BY <1>4, <2>1, <2>2, <2>3, <2>4, <2>5, <2>6 DEF TypeOK
  <1>6. CurrentLeases = {First}
    BY <1>1, <1>3 DEF CurrentLeases, IsCurrent, Exists
  <1>7. OwnerInv
    BY <1>1, <1>3, <1>6 DEF OwnerInv, CancellationReachesEveryJob, Active
  <1>8. ASSUME NEW t \in Tx PROVE StageInv(t) /\ TxInv(t)
    <2>1. stage[t] = 0 /\ todo[t] = {} /\ \A r \in Rows : lock[r] # t
      BY <1>4
    <2>2. 0 <= Statements(KindOf[t])
      BY DEF Statements
    <2>3. StageInv(t)
      BY <2>1, <2>2 DEF StageInv
    <2>4. KindOf[t] = "claim" => lease[t] = None
      BY <1>3, RowLocksAssumption DEF Leases, Claims
    <2>5. ClaimInv(t) /\ CancelInv(t) /\ RecoverInv(t) /\ CompleteInv(t)
      BY <2>1, <2>4 DEF ClaimInv, CancelInv, RecoverInv, CompleteInv
    <2>6. OrderInv(t)
      BY <2>1 DEF OrderInv
    <2> QED BY <2>3, <2>5, <2>6 DEF TxInv
  <1> QED BY <1>5, <1>7, <1>8 DEF LockInv

\* A step inside a transaction keeps the committed rows.
LEMMA InsideKeeps ==
    ASSUME LockInv, NEW t \in Tx, TypeOK', StageInv(t)', TxInv(t)',
           \A u \in Tx \ {t} : Keeps(u), UNCHANGED db
    PROVE  LockInv'
  <1>1. OwnerInv'
    BY DEF LockInv, OwnerInv, db, CurrentLeases, IsCurrent, Exists, CancellationReachesEveryJob
  <1>2. ASSUME NEW u \in Tx \ {t} PROVE StageInv(u)' /\ TxInv(u)'
    <2>1. TypeOK /\ StageInv(u) /\ TxInv(u) /\ Keeps(u)
      BY DEF LockInv
    <2>2. Undisturbed(u)
      BY <2>1 DEF Undisturbed, TxInv, ClaimInv, CompleteInv, IsCurrent, Exists, db
    <2> QED BY <2>1, <2>2, OtherKept
  <1> QED BY <1>1, <1>2 DEF LockInv

\* The end of a transaction that has done well keeps the invariant.
LEMMA EndsWell ==
    ASSUME LockInv, NEW t \in Tx, Release(t), NEW how \in Results, End(t, how),
           stage' = stage, seen' = seen, CommitsWell(t)
    PROVE  LockInv'
  <1>1. TypeOK /\ StageInv(t)
    BY DEF LockInv
  <1>2. /\ \A u \in Tx \ {t} : Keeps(u)
        /\ lock' \in [Rows -> Tx \cup {None}] /\ todo' \in [Tx -> SUBSET Nat]
        /\ result' \in [Tx -> Results \cup {None}]
        /\ \A u \in Tx : result'[u] # None => \A r \in Rows : lock'[r] # u
        /\ StageInv(t)' /\ TxInv(t)'
    BY <1>1, EndKeeps
  <1>3. TypeOK'
    BY <1>1, <1>2 DEF TypeOK, CommitsWell, DbTypeOK
  <1>4. ASSUME NEW u \in Tx \ {t} PROVE StageInv(u)' /\ TxInv(u)'
    BY <1>1, <1>2, OtherKept DEF LockInv, CommitsWell
  <1> QED BY <1>2, <1>3, <1>4 DEF LockInv, CommitsWell

\* A transaction that ends without a change leaves the committed rows as they were.
LEMMA NoChange ==
    ASSUME LockInv, NEW t \in Tx, UNCHANGED db
    PROVE  CommitsWell(t)
  <1>1. DbTypeOK' /\ OwnerInv'
    BY DEF LockInv, TypeOK, DbTypeOK, OwnerInv, db, CurrentLeases, IsCurrent, Exists,
           CancellationReachesEveryJob
  <1>2. ASSUME NEW u \in Tx \ {t} PROVE Undisturbed(u)
    BY DEF LockInv, Undisturbed, TxInv, ClaimInv, CompleteInv, IsCurrent, Exists, db
  <1> QED BY <1>1, <1>2 DEF CommitsWell

\* The deadline of the lease First passes: nobody relies on it but its owner.
LEMMA LapseKeeps ==
    ASSUME LockInv, Lapse
    PROVE  LockInv'
  <1>1. /\ TypeOK /\ OwnerInv /\ First \in Leases /\ lease[First] \in LeaseRecords
        /\ lease[First].job = Owned /\ Owned \in Jobs
    BY FirstLease DEF LockInv
  <1>2. PICK x \in LeaseRecords : /\ lease' = [lease EXCEPT ![First] = x] /\ x.job = Owned
                                  /\ x.state = lease[First].state
    <2>1. PICK x : x = [lease[First] EXCEPT !.lapsed = TRUE]
      OBVIOUS
    <2>2. lease' = [lease EXCEPT ![First] = x]
      BY <2>1 DEF Lapse
    <2>3. x \in LeaseRecords /\ x.job = Owned /\ x.state = lease[First].state
      BY <1>1, <2>1, LeaseWrites
    <2> QED BY <2>2, <2>3
  <1>3. job' = [job EXCEPT ![Owned] = job[Owned]] /\ UNCHANGED <<queue, cancelled, requeues>>
    BY <1>1 DEF Lapse, TypeOK
  <1>4. DbTypeOK' /\ OwnerInv' /\ (IsCurrent(First) => IsCurrent(First)')
    BY <1>1, <1>2, <1>3, OwnerStays
  <1>5. \A l \in Leases \ {First} : lease'[l] = lease[l]
    BY <1>1, <1>2 DEF TypeOK
  <1>6. UNCHANGED <<lock, stage, todo, seen, result>>
    BY DEF Lapse
  <1>7. TypeOK'
    BY <1>1, <1>4, <1>6 DEF TypeOK, DbTypeOK
  <1>8. ASSUME NEW u \in Tx PROVE StageInv(u)' /\ TxInv(u)'
    <2>1. Undisturbed(u)
      BY <1>3, <1>4, <1>5, StaysUndisturbed
    <2>2. Keeps(u)
      BY <1>6 DEF Keeps
    <2> QED BY <1>1, <2>1, <2>2, OtherKept DEF LockInv
  <1> QED BY <1>4, <1>7, <1>8 DEF LockInv

\* Every step keeps the invariant.
LEMMA LockNext == LockInv /\ [Next]_vars => LockInv'
  <1> SUFFICES ASSUME LockInv, [Next]_vars PROVE LockInv'
    OBVIOUS
  <1>1. TypeOK /\ OwnerInv /\ \A u \in Tx : StageInv(u) /\ TxInv(u)
    BY DEF LockInv
  <1>2. CASE Lapse
    BY <1>2, LapseKeeps
  <1>3. ASSUME NEW t \in Tx, TxStep(t) PROVE LockInv'
    <2>1. CASE PickJob(t)
      BY <1>1, <2>1, PickJobStep, InsideKeeps DEF PickJob
    <2>2. CASE ClaimExpired(t)
      BY <1>1, <2>2, ClaimExpiredStep, InsideKeeps DEF ClaimExpired
    <2>3. CASE Statement(t)
      BY <1>1, <2>3, StatementStep, InsideKeeps DEF Statement
    <2>4. CASE LockRow(t)
      BY <1>1, <2>4, LockRowStep, InsideKeeps DEF LockRow
    <2>5. CASE Refuse(t)
      <3>1. /\ Release(t) /\ End(t, "refused") /\ stage' = stage /\ seen' = seen /\ UNCHANGED db
            /\ "refused" \in Results
        BY <2>5 DEF Refuse, Results
      <3>2. CommitsWell(t)
        BY <3>1, NoChange
      <3> QED BY <3>1, <3>2, EndsWell
    <2>6. CASE AbortDeadlocked(t)
      <3>1. /\ Release(t) /\ End(t, "aborted") /\ stage' = stage /\ seen' = seen /\ UNCHANGED db
            /\ "aborted" \in Results
        BY <2>6 DEF AbortDeadlocked, Results
      <3>2. CommitsWell(t)
        BY <3>1, NoChange
      <3> QED BY <3>1, <3>2, EndsWell
    <2>7. CASE Commit(t)
      <3>1. CommitsWell(t)
        <4>1. CASE CommitClaim(t)
          BY <4>1, ClaimCommits
        <4>2. CASE CommitHeartbeat(t)
          BY <4>2, HeartbeatCommits
        <4>3. CASE CommitAppend(t)
          BY <4>3, AppendCommits
        <4>4. CASE CommitComplete(t)
          BY <4>4, CompleteCommits
        <4>5. CASE CommitCancel(t)
          BY <4>5, CancelCommits
        <4>6. CASE CommitDrain(t)
          BY <4>6, DrainCommits
        <4>7. CASE RecoverAlready(t)
          BY <4>7, NoChange DEF RecoverAlready
        <4>8. CASE RecoverRequeue(t)
          BY <4>8, RequeueCommits
        <4>9. CASE RecoverTerminal(t)
          BY <4>9, TerminalCommits
        <4> QED BY <2>7, <4>1, <4>2, <4>3, <4>4, <4>5, <4>6, <4>7, <4>8, <4>9 DEF Commit
      <3>2. \E how \in Results,
               kind \in {"claim", "heartbeat", "append", "complete", "cancel", "drain", "recover"} :
               CommitAs(t, kind, how)
        BY <2>7 DEF Commit, CommitClaim, CommitHeartbeat, CommitAppend, CommitComplete, CommitCancel,
                    CommitDrain, RecoverAlready, RecoverRequeue, RecoverTerminal, Results
      <3>3. PICK how \in Results : Release(t) /\ End(t, how) /\ stage' = stage /\ seen' = seen
        BY <3>2 DEF CommitAs
      <3> QED BY <3>1, <3>3, EndsWell
    <2> QED BY <1>3, <2>1, <2>2, <2>3, <2>4, <2>5, <2>6, <2>7 DEF TxStep
  <1>4. CASE UNCHANGED vars
    <2>1. UNCHANGED db /\ UNCHANGED <<lock, stage, todo, seen, result>>
      BY <1>4 DEF vars
    <2>2. TypeOK'
      BY <1>1, <2>1 DEF TypeOK, db
    <2>3. OwnerInv'
      BY <1>1, <2>1 DEF OwnerInv, db, CurrentLeases, IsCurrent, Exists, CancellationReachesEveryJob
    <2>4. ASSUME NEW u \in Tx PROVE StageInv(u)' /\ TxInv(u)'
      <3>1. Keeps(u)
        BY <2>1 DEF Keeps
      <3>2. Undisturbed(u)
        BY <1>1, <2>1 DEF Undisturbed, TxInv, ClaimInv, CompleteInv, IsCurrent, Exists, db
      <3> QED BY <1>1, <3>1, <3>2, OtherKept
    <2> QED BY <2>2, <2>3, <2>4 DEF LockInv
  <1> QED BY <1>2, <1>3, <1>4 DEF Next

----------------------------------------------------------------------------
(* Theorems                                                                *)

\* In every state the transactions can reach, the invariant holds.
THEOREM LocksInvariant == Spec => []LockInv
  BY LockInit, LockNext, PTL DEF Spec

\* Rows, locks and statements are of their types, and a transaction that has ended holds
\* no lock, for any number of Jobs, leases and transactions.
THEOREM TypeCorrect == Spec => []TypeOK
  <1>1. LockInv => TypeOK
    BY DEF LockInv
  <1> QED BY <1>1, LocksInvariant, PTL

\* However claims, heartbeats, event appends, completions, cancellations, recoveries and
\* drains overlap, a committed cancellation has reached every Job, each Job that is leased,
\* running or cancelling has exactly one owner, and the ready ones are those queued.
THEOREM OverlapHarmless == Spec => []OverlapIsHarmless
  <1>1. ASSUME LockInv PROVE OverlapIsHarmless
    <2>1. OwnerInv /\ CancellationReachesEveryJob
      BY <1>1 DEF LockInv, OwnerInv
    <2>2. ASSUME NEW j \in Jobs
          PROVE  Cardinality({l \in CurrentLeases : lease[l].job = j}) =
                    (IF job[j] \in {"leased", "running", "cancelling"} THEN 1 ELSE 0)
      <3> DEFINE owners == {l \in CurrentLeases : lease[l].job = j}
      <3>1. CASE job[j] \in {"leased", "running", "cancelling"}
        <4>1. PICK l \in CurrentLeases : lease[l].job = j
          BY <2>1, <3>1 DEF OwnerInv, Active
        <4>2. owners = {l}
          BY <2>1, <4>1 DEF OwnerInv
        <4>3. Cardinality({l}) = 1
          BY FS_Singleton
        <4> QED BY <3>1, <4>2, <4>3
      <3>2. CASE job[j] \notin {"leased", "running", "cancelling"}
        <4>1. owners = {}
          BY <2>1, <3>2 DEF OwnerInv, Active
        <4>2. Cardinality({}) = 0
          BY FS_EmptySet
        <4> QED BY <3>2, <4>1, <4>2
      <3> QED BY <3>1, <3>2
    <2> QED BY <2>1, <2>2 DEF OverlapIsHarmless, OneOwnerPerJob, OwnerInv
  <1> QED BY <1>1, LocksInvariant, PTL

\* A transaction that waits holds no row that comes after the one it waits for, if it
\* takes its rows in order.
LEMMA WaitsInOrder ==
    ASSUME LockInv, NEW u \in Waiting, NEW v \in Waiting, v = Blocker(u), KindOf[v] \notin OutOfOrder
    PROVE  /\ Rank(NextRow(u)) \in 0 .. 5 /\ Rank(NextRow(v)) \in 0 .. 5
           /\ \/ Rank(NextRow(u)) < Rank(NextRow(v))
              \/ Rank(NextRow(u)) = Rank(NextRow(v)) /\ lock[Build] = v
  <1>1. u \in Tx /\ v \in Tx /\ ~ Idle(u) /\ ~ Idle(v) /\ lock[NextRow(u)] = v
    BY DEF Waiting, Blocker
  <1>2. /\ NextRow(u) \in Rows /\ NextRow(v) \in Rows /\ NextRow(v) \in Wanted(v) /\ result[v] = None
    BY <1>1, NextIsWanted DEF LockInv
  <1>3. OrderInv(v)
    BY <1>1, <1>2 DEF LockInv, TxInv
  <1> QED BY <1>1, <1>2, <1>3, RankType DEF OrderInv

\* Transactions that take the rows in the order Build, Attempt, Agent, queue entries, leases,
\* Jobs never wait for each other in a circle, however many there are: every deadlock the
\* database has to break goes through a recovery, an event append or a heartbeat.
THEOREM CyclesLeaveOrder == Spec => []CycleLeavesLockOrder
  <1>1. ASSUME LockInv, NEW S \in SUBSET Waiting, Circle(S), \A u \in S : KindOf[u] \notin OutOfOrder
        PROVE  FALSE
    <2>1. \A u \in S : u \in Waiting /\ Blocker(u) \in S /\ Blocker(u) # u
      BY <1>1 DEF Circle, Waiting
    <2>2. \A u \in S : /\ Rank(NextRow(u)) \in 0 .. 5 /\ Rank(NextRow(Blocker(u))) \in 0 .. 5
                       /\ \/ Rank(NextRow(u)) < Rank(NextRow(Blocker(u)))
                          \/ /\ Rank(NextRow(u)) = Rank(NextRow(Blocker(u)))
                             /\ lock[Build] = Blocker(u)
      BY <1>1, <2>1, WaitsInOrder
    <2> DEFINE D == {5 - Rank(NextRow(u)) : u \in S}
    <2>3. D \in SUBSET Nat /\ D # {}
      BY <1>1, <2>2 DEF Circle
    <2>4. Min(D) \in D /\ \A d \in D : Min(D) <= d
      BY <2>3, LeastPosition
    <2>5. PICK u \in S : Min(D) = 5 - Rank(NextRow(u))
      BY <2>4
    <2>6. \A v \in S : Rank(NextRow(v)) <= Rank(NextRow(u))
      <3> TAKE v \in S
      <3>1. 5 - Rank(NextRow(v)) \in D
        OBVIOUS
      <3>2. 5 - Rank(NextRow(u)) <= 5 - Rank(NextRow(v))
        BY <2>4, <2>5, <3>1
      <3> QED BY <2>2, <3>2
    <2>7. PICK v \in S : v = Blocker(u) /\ Rank(NextRow(v)) = Rank(NextRow(u)) /\ lock[Build] = v
      BY <2>1, <2>2, <2>6
    <2>8. PICK z \in S : z = Blocker(v) /\ lock[Build] = z
      BY <2>1, <2>2, <2>6, <2>7
    <2> QED BY <2>1, <2>7, <2>8
  <1>2. LockInv => CycleLeavesLockOrder
    BY <1>1 DEF CycleLeavesLockOrder
  <1> QED BY <1>2, LocksInvariant, PTL

----------------------------------------------------------------------------
(* The idempotency record                                                  *)
(*                                                                         *)
(* It keeps the promise of OnceOnly for any number of calls and requests   *)
(* under its key and for any history of the aggregate.                     *)

\* The committed record carries the request of its command and the outcome of that
\* command; only a sealed one is ever committed undecided.
RowInv ==
    row # None =>
        /\ row.request = RequestOf[row.command]
        /\ row.outcome = None => row.request \in Sealed
        /\ row.outcome # None => row.outcome.command = row.command

\* The transaction that has the record locked works for its own request, on a new record
\* or on the committed undecided one, and decides the command that record has.
TransactionInv ==
    \A c \in Calls : holder = c =>
        /\ draft.request = RequestOf[c] /\ draft.request = RequestOf[draft.command]
        /\ row = None => draft.command = c
        /\ row # None => /\ row.outcome = None
                         /\ row.request = draft.request /\ row.command = draft.command
        /\ pc[c] = "seal" => IsSealed(c)
        /\ pc[c] \in {"seal", "execute"} => draft.outcome = None
        /\ pc[c] = "commit" => draft.outcome \in Outcomes /\ draft.outcome.command = draft.command

\* A call has no answer before it is done, and one that has committed finds the record
\* decided for its request.
CallInv ==
    \A c \in Calls :
        /\ pc[c] # "done" => answer[c] = None
        /\ pc[c] = "reply" => row # None /\ row.request = RequestOf[c] /\ row.outcome # None

RecordInv == MutationTypeOK /\ RowInv /\ TransactionInv /\ CallInv

----------------------------------------------------------------------------
(* Records                                                                 *)

\* A record is determined by its three fields.
LEMMA RecordsByField ==
    ASSUME NEW r \in Records, NEW s \in Records,
           r.request = s.request, r.command = s.command, r.outcome = s.outcome
    PROVE  r = s
  BY DEF Records

\* What begin_operation hands to the transaction.
LEMMA RecordBegun ==
    ASSUME RecordInv, NEW c \in Calls, Lookup(c) \in {"fresh", "resume"}
    PROVE  /\ RecordFor(c) \in Records
           /\ RecordFor(c).request = RequestOf[c]
           /\ RecordFor(c).request = RequestOf[RecordFor(c).command]
           /\ RecordFor(c).outcome = None
           /\ row = None => RecordFor(c).command = c
           /\ row # None => RecordFor(c) = row
  <1>1. NewRecord(c) \in Records
    BY DEF NewRecord, Records
  <1>2. CASE row = None
    BY <1>1, <1>2 DEF Lookup, RecordFor, NewRecord
  <1>3. CASE row # None
    <2>1. Lookup(c) = "resume" /\ row.request = RequestOf[c] /\ row.outcome = None
      BY <1>3 DEF Lookup
    <2> QED BY <1>3, <2>1 DEF RecordFor, RecordInv, MutationTypeOK, RowInv
  <1> QED BY <1>2, <1>3

\* The two fields a decision leaves alone, and the outcome it writes.
LEMMA RecordDecided ==
    ASSUME NEW r \in Records, NEW o \in Outcomes
    PROVE  LET d == [r EXCEPT !.outcome = o]
           IN  d \in Records /\ d.request = r.request /\ d.command = r.command /\ d.outcome = o
  BY DEF Records

----------------------------------------------------------------------------
(* The steps                                                               *)

\* Exactly the steps between begin and commit hold the lock.
LEMMA Holding ==
    ASSUME MutationTypeOK, NEW c \in Calls, pc[c] \in {"seal", "execute", "commit"}
    PROVE  /\ holder = c /\ draft \in Records
           /\ \A d \in Calls : d # c => pc[d] \notin {"seal", "execute", "commit"}
  BY OutcomeAssumption DEF MutationTypeOK

\* Begin locks the record for one call.
LEMMA BeginKeeps ==
    ASSUME RecordInv, NEW c \in Calls, Begin(c)
    PROVE  RecordInv'
  <1>1. /\ RecordFor(c) \in Records
        /\ RecordFor(c).request = RequestOf[c]
        /\ RecordFor(c).request = RequestOf[RecordFor(c).command]
        /\ RecordFor(c).outcome = None
        /\ row = None => RecordFor(c).command = c
        /\ row # None => RecordFor(c) = row
    BY RecordBegun DEF Begin
  <1>2. /\ holder = None /\ holder' = c /\ draft' = RecordFor(c)
        /\ UNCHANGED <<row, version, effects, answer>>
        /\ pc'[c] \in {"seal", "execute"} /\ (pc'[c] = "seal" => IsSealed(c))
        /\ pc[c] # "done"
        /\ \A d \in Calls : d # c => pc'[d] = pc[d]
    BY DEF Begin, RecordInv, MutationTypeOK
  <1> HIDE DEF RecordFor
  <1>3. MutationTypeOK'
    <2>1. pc' \in [Calls -> {"new", "seal", "sealed", "execute", "commit", "reply", "done"}]
      BY DEF Begin, RecordInv, MutationTypeOK
    <2>2. \A d \in Calls : pc'[d] \in {"seal", "execute", "commit"} <=> holder' = d
      BY <1>2, OutcomeAssumption DEF RecordInv, MutationTypeOK
    <2>3. draft' # None /\ holder' # None
      BY <1>1, <1>2, OutcomeAssumption
    <2> QED BY <1>1, <1>2, <2>1, <2>2, <2>3 DEF RecordInv, MutationTypeOK
  <1>4. RowInv' /\ TransactionInv'
    BY <1>1, <1>2 DEF RecordInv, RowInv, TransactionInv, IsSealed
  <1>5. CallInv'
    BY <1>2 DEF RecordInv, CallInv
  <1> QED BY <1>3, <1>4, <1>5 DEF RecordInv

\* A call that only ends, without a change of the record.
LEMMA CallEndKeeps ==
    ASSUME RecordInv, NEW c \in Calls, NEW a \in Outcomes \cup {Declined},
           answer' = [answer EXCEPT ![c] = a],
           pc' = [pc EXCEPT ![c] = "done"],
           UNCHANGED <<row, version, effects>>,
           \/ holder # c /\ UNCHANGED <<holder, draft>>
           \/ holder = c /\ ReleaseRecord
    PROVE  RecordInv'
  <1>1. /\ pc'[c] = "done" /\ \A d \in Calls : d # c => pc'[d] = pc[d] /\ answer'[d] = answer[d]
        /\ pc' \in [Calls -> {"new", "seal", "sealed", "execute", "commit", "reply", "done"}]
        /\ answer' \in [Calls -> Outcomes \cup {None, Declined}]
    BY DEF RecordInv, MutationTypeOK
  <1>2. \/ holder # c /\ UNCHANGED <<holder, draft>>
        \/ holder = c /\ holder' = None /\ draft' = None
    BY DEF ReleaseRecord
  <1>3. MutationTypeOK'
    BY <1>1, <1>2, OutcomeAssumption DEF RecordInv, MutationTypeOK
  <1>4. RowInv' /\ TransactionInv'
    BY <1>1, <1>2, OutcomeAssumption DEF RecordInv, RowInv, TransactionInv, IsSealed
  <1>5. CallInv'
    BY <1>1 DEF RecordInv, CallInv
  <1> QED BY <1>3, <1>4, <1>5 DEF RecordInv

\* A transaction that writes a decision into its draft.
LEMMA DecisionKeeps ==
    ASSUME RecordInv, NEW c \in Calls, pc[c] = "execute", NEW o \in Outcomes,
           o.command = draft.command,
           draft' = [draft EXCEPT !.outcome = o],
           pc' = [pc EXCEPT ![c] = "commit"],
           UNCHANGED <<row, holder, version, effects, answer>>
    PROVE  RecordInv'
  <1>1. holder = c /\ draft \in Records
    BY Holding DEF RecordInv
  <1>2. /\ draft' \in Records /\ draft'.request = draft.request
        /\ draft'.command = draft.command /\ draft'.outcome = o
    BY <1>1, RecordDecided
  <1>3. /\ pc'[c] = "commit" /\ \A d \in Calls : d # c => pc'[d] = pc[d]
        /\ pc' \in [Calls -> {"new", "seal", "sealed", "execute", "commit", "reply", "done"}]
    BY DEF RecordInv, MutationTypeOK
  <1>4. draft' # None /\ draft # None
    BY <1>1, <1>2, OutcomeAssumption
  <1>5. MutationTypeOK'
    BY <1>1, <1>2, <1>3, <1>4 DEF RecordInv, MutationTypeOK
  <1>6. RowInv' /\ TransactionInv'
    BY <1>1, <1>2, <1>3 DEF RecordInv, RowInv, TransactionInv, IsSealed
  <1>7. CallInv'
    BY <1>3 DEF RecordInv, CallInv
  <1> QED BY <1>5, <1>6, <1>7 DEF RecordInv

\* A transaction that commits its draft: the pending record, or the decided one.
LEMMA CommitKeeps ==
    ASSUME RecordInv, NEW c \in Calls, CommitSeal(c) \/ CommitMutation(c)
    PROVE  RecordInv'
  <1>1. /\ holder = c /\ draft \in Records /\ draft # None
        /\ \A d \in Calls : d # c => pc[d] \notin {"seal", "execute", "commit"}
    BY Holding, OutcomeAssumption DEF CommitSeal, CommitMutation, RecordInv
  <1>2. /\ draft.request = RequestOf[c] /\ draft.request = RequestOf[draft.command]
        /\ row # None => row.outcome = None /\ row.request = draft.request
    BY <1>1 DEF RecordInv, TransactionInv
  <1>3. row' = draft /\ holder' = None /\ draft' = None /\ answer' = answer
    BY DEF CommitSeal, CommitMutation, ReleaseRecord
  <1>4. /\ pc' \in [Calls -> {"new", "seal", "sealed", "execute", "commit", "reply", "done"}]
        /\ pc[c] # "done" /\ pc'[c] \in {"sealed", "reply"}
        /\ \A d \in Calls : d # c => pc'[d] = pc[d]
    BY DEF CommitSeal, CommitMutation, RecordInv, MutationTypeOK
  <1>5. CASE CommitSeal(c)
    <2>1. /\ UNCHANGED <<version, effects>> /\ pc'[c] = "sealed"
          /\ draft.outcome = None /\ draft.request \in Sealed
      BY <1>1, <1>2, <1>5 DEF CommitSeal, RecordInv, MutationTypeOK, TransactionInv, IsSealed
    <2>2. MutationTypeOK'
      BY <1>1, <1>3, <1>4, <2>1, OutcomeAssumption DEF RecordInv, MutationTypeOK
    <2>3. RowInv' /\ TransactionInv'
      BY <1>2, <1>3, <2>1, OutcomeAssumption DEF RowInv, TransactionInv
    <2>4. CallInv'
      BY <1>2, <1>3, <1>4, <2>1 DEF RecordInv, CallInv
    <2> QED BY <2>2, <2>3, <2>4 DEF RecordInv
  <1>6. CASE CommitMutation(c)
    <2>1. draft.outcome \in Outcomes /\ draft.outcome.command = draft.command
      BY <1>1, <1>6 DEF CommitMutation, RecordInv, TransactionInv
    <2>2. draft.outcome # None /\ draft.outcome.version \in 0 .. MaxVersion
      BY <2>1, OutcomeAssumption DEF Outcomes
    <2>3. version' \in 0 .. MaxVersion /\ effects' \in Nat
      BY <1>6, <2>2 DEF CommitMutation, RecordInv, MutationTypeOK
    <2>4. pc'[c] = "reply"
      BY <1>6 DEF CommitMutation, RecordInv, MutationTypeOK
    <2>5. MutationTypeOK'
      BY <1>1, <1>3, <1>4, <2>3, OutcomeAssumption DEF RecordInv, MutationTypeOK
    <2>6. RowInv' /\ TransactionInv'
      BY <1>2, <1>3, <2>1, <2>2, OutcomeAssumption DEF RowInv, TransactionInv
    <2>7. CallInv'
      BY <1>1, <1>2, <1>3, <1>4, <2>2, <2>4 DEF RecordInv, CallInv
    <2> QED BY <2>5, <2>6, <2>7 DEF RecordInv
  <1> QED BY <1>5, <1>6

\* The outcomes a transaction decides on.
LEMMA OutcomeTypes ==
    ASSUME RecordInv, NEW c \in Calls, pc[c] = "execute"
    PROVE  /\ version < MaxVersion =>
                [result |-> "applied", version |-> version + 1, command |-> draft.command] \in Outcomes
           /\ [result |-> "rejected", version |-> version, command |-> draft.command] \in Outcomes
  <1>1. draft \in Records
    BY Holding DEF RecordInv
  <1>2. draft.command \in Calls
    BY <1>1 DEF Records
  <1> QED BY <1>2, MutationAssumption DEF RecordInv, MutationTypeOK, Outcomes

\* A finished lookup or reply answers with what is recorded.
LEMMA RecordedOutcome ==
    ASSUME RecordInv, row # None, row.outcome # None
    PROVE  row.outcome \in Outcomes
  BY DEF RecordInv, MutationTypeOK, Records

\* A lookup that ends the call finds it undecided for others, or decided for this request.
LEMMA ReplayFinds ==
    ASSUME NEW c \in Calls, Lookup(c) = "replay"
    PROVE  row # None /\ row.request = RequestOf[c] /\ row.outcome # None
  BY DEF Lookup

\* The invariant is inductive.
LEMMA NextRecord == RecordInv /\ [MutationNext]_mutationVars => RecordInv'
  <1> SUFFICES ASSUME RecordInv, [MutationNext]_mutationVars PROVE RecordInv'
    OBVIOUS
  <1>1. ASSUME NEW c \in Calls, CallStep(c) PROVE RecordInv'
    <2>1. CASE Begin(c)
      BY <2>1, BeginKeeps
    <2>2. CASE Replay(c)
      <3> DEFINE a == IF Lookup(c) = "replay" THEN row.outcome ELSE Declined
      <3>1. a \in Outcomes \cup {Declined}
        BY ReplayFinds, RecordedOutcome
      <3>2. answer' = [answer EXCEPT ![c] = a] /\ pc' = [pc EXCEPT ![c] = "done"]
        BY <2>2 DEF Replay
      <3>3. holder # c /\ UNCHANGED <<row, version, effects, holder, draft>>
        BY <2>2, OutcomeAssumption DEF Replay
      <3> HIDE DEF a
      <3> QED BY <3>1, <3>2, <3>3, CallEndKeeps
    <2>3. CASE CommitSeal(c) \/ CommitMutation(c)
      BY <2>3, CommitKeeps
    <2>4. CASE Execute(c)
      <3> DEFINE o == [result |-> "applied", version |-> version + 1, command |-> draft.command]
      <3>1. o \in Outcomes /\ o.command = draft.command
        BY <2>4, OutcomeTypes DEF Execute
      <3>2. /\ pc[c] = "execute" /\ draft' = [draft EXCEPT !.outcome = o]
            /\ pc' = [pc EXCEPT ![c] = "commit"] /\ UNCHANGED <<row, holder, version, effects, answer>>
        BY <2>4 DEF Execute
      <3> HIDE DEF o
      <3> QED BY <3>1, <3>2, DecisionKeeps
    <2>5. CASE Reject(c) /\ IsSealed(c)
      <3> DEFINE o == [result |-> "rejected", version |-> version, command |-> draft.command]
      <3>1. o \in Outcomes /\ o.command = draft.command
        BY <2>5, OutcomeTypes DEF Reject
      <3>2. /\ pc[c] = "execute" /\ draft' = [draft EXCEPT !.outcome = o]
            /\ pc' = [pc EXCEPT ![c] = "commit"] /\ UNCHANGED <<row, holder, version, effects, answer>>
        BY <2>5 DEF Reject
      <3> HIDE DEF o
      <3> QED BY <3>1, <3>2, DecisionKeeps
    <2>6. CASE (Reject(c) /\ ~ IsSealed(c)) \/ Rollback(c)
      <3>1. holder = c
        BY <2>6, Holding DEF Reject, Rollback, RecordInv
      <3>2. /\ answer' = [answer EXCEPT ![c] = Declined] /\ pc' = [pc EXCEPT ![c] = "done"]
            /\ ReleaseRecord /\ UNCHANGED <<row, version, effects>>
        BY <2>6 DEF Reject, Rollback
      <3> QED BY <3>1, <3>2, CallEndKeeps
    <2>7. CASE Reply(c)
      <3>1. PICK a \in {row.outcome, Declined} : answer' = [answer EXCEPT ![c] = a]
        BY <2>7 DEF Reply
      <3>2. a \in Outcomes \cup {Declined}
        BY <2>7, RecordedOutcome DEF Reply, RecordInv, CallInv
      <3>3. holder # c
        BY <2>7 DEF Reply, RecordInv, MutationTypeOK
      <3>4. pc' = [pc EXCEPT ![c] = "done"] /\ UNCHANGED <<row, version, effects, holder, draft>>
        BY <2>7 DEF Reply
      <3> QED BY <3>1, <3>2, <3>3, <3>4, CallEndKeeps
    <2> QED BY <1>1, <2>1, <2>2, <2>3, <2>4, <2>5, <2>6, <2>7 DEF CallStep
  <1>2. CASE OtherMutation
    <2>1. version' \in 0 .. MaxVersion /\ UNCHANGED <<row, holder, draft, pc, effects, answer>>
      BY <1>2, MutationAssumption DEF OtherMutation, RecordInv, MutationTypeOK
    <2> QED BY <2>1 DEF RecordInv, MutationTypeOK, RowInv, TransactionInv, CallInv, IsSealed
  <1>3. CASE UNCHANGED mutationVars
    BY <1>3 DEF mutationVars, RecordInv, MutationTypeOK, RowInv, TransactionInv, CallInv, IsSealed
  <1> QED BY <1>1, <1>2, <1>3 DEF MutationNext

\* Before the first call there is no record.
LEMMA InitRecord == MutationInit => RecordInv
  <1> SUFFICES ASSUME MutationInit PROVE RecordInv
    OBVIOUS
  <1>1. /\ row = None /\ holder = None /\ draft = None /\ version = 0 /\ effects = 0
        /\ \A c \in Calls : pc[c] = "new" /\ answer[c] = None /\ c # None
    BY OutcomeAssumption DEF MutationInit
  <1>2. /\ pc \in [Calls -> {"new", "seal", "sealed", "execute", "commit", "reply", "done"}]
        /\ answer \in [Calls -> Outcomes \cup {None, Declined}]
    BY DEF MutationInit
  <1>3. 0 \in 0 .. MaxVersion
    BY MutationAssumption
  <1>4. MutationTypeOK
    BY <1>1, <1>2, <1>3 DEF MutationTypeOK
  <1>5. RowInv /\ TransactionInv /\ CallInv
    BY <1>1 DEF RowInv, TransactionInv, CallInv
  <1> QED BY <1>4, <1>5 DEF RecordInv

\* It holds in every reachable state.
LEMMA Recorded == MutationSpec => []RecordInv
  BY InitRecord, NextRecord, PTL DEF MutationSpec

\* The record, the lock, the answers and the versions keep their types, and the record
\* is locked exactly while a transaction is open.
THEOREM MutationTypeCorrect == MutationSpec => []MutationTypeOK
  <1>1. RecordInv => MutationTypeOK
    BY DEF RecordInv
  <1> QED BY <1>1, Recorded, PTL

----------------------------------------------------------------------------
(* Refinement                                                              *)

\* Every step of a call is a step that OnceOnly allows, or changes none of what it sees.
LEMMA OnceStep == RecordInv /\ [MutationNext]_mutationVars => [Once!Next]_<<row, effects, answer>>
  <1> SUFFICES ASSUME RecordInv, [MutationNext]_mutationVars PROVE [Once!Next]_<<row, effects, answer>>
    OBVIOUS
  <1>1. ASSUME NEW c \in Calls, CallStep(c) PROVE [Once!Next]_<<row, effects, answer>>
    <2>1. CASE Begin(c) \/ Execute(c) \/ (Reject(c) /\ IsSealed(c))
      BY <2>1 DEF Begin, Execute, Reject
    <2>2. ASSUME pc[c] # "done", answer' = [answer EXCEPT ![c] = Declined], UNCHANGED <<row, effects>>
          PROVE  Once!Next
      <3>1. Once!Decline(c)
        BY <2>2 DEF Once!Decline, RecordInv, CallInv
      <3> QED BY <3>1 DEF Once!Next
    <2>3. ASSUME pc[c] # "done", row # None, row.request = RequestOf[c], row.outcome # None,
                 answer' = [answer EXCEPT ![c] = row.outcome], UNCHANGED <<row, effects>>
          PROVE  Once!Next
      <3>1. Once!Answer(c)
        BY <2>3 DEF Once!Answer, RecordInv, CallInv
      <3> QED BY <3>1 DEF Once!Next
    <2>4. CASE Replay(c)
      <3>1. CASE Lookup(c) = "replay"
        BY <2>3, <2>4, <3>1, ReplayFinds DEF Replay
      <3>2. CASE Lookup(c) # "replay"
        BY <2>2, <2>4, <3>2 DEF Replay
      <3> QED BY <3>1, <3>2
    <2>5. CASE Reply(c)
      <3>1. row # None /\ row.request = RequestOf[c] /\ row.outcome # None
        BY <2>5 DEF Reply, RecordInv, CallInv
      <3> QED BY <2>2, <2>3, <2>5, <3>1 DEF Reply
    <2>6. CASE (Reject(c) /\ ~ IsSealed(c)) \/ Rollback(c)
      BY <2>2, <2>6 DEF Reject, Rollback
    <2>7. ASSUME pc[c] \in {"seal", "execute", "commit"}
          PROVE  /\ holder = c /\ draft \in Records
                 /\ draft.request = RequestOf[c] /\ draft.request = RequestOf[draft.command]
                 /\ row = None => draft.command = c
                 /\ row # None => /\ row.outcome = None /\ row \in Records
                                  /\ row.request = draft.request /\ row.command = draft.command
      BY <2>7, Holding DEF RecordInv, MutationTypeOK, TransactionInv
    <2>8. CASE CommitSeal(c)
      <3>1. /\ pc[c] = "seal" /\ draft.outcome = None /\ IsSealed(c)
            /\ row' = draft /\ UNCHANGED <<effects, answer>>
        BY <2>7, <2>8 DEF CommitSeal, RecordInv, TransactionInv
      <3>2. CASE row = None
        <4>1. Once!Record(c, None) \in Records
          BY DEF Once!Record, Records
        <4>2. draft = Once!Record(c, None)
          BY <2>7, <3>1, <3>2, <4>1, RecordsByField DEF Once!Record
        <4>3. Once!Accept(c)
          BY <3>1, <3>2, <4>2 DEF Once!Accept, IsSealed
        <4> QED BY <4>3 DEF Once!Next
      <3>3. CASE row # None
        <4>1. row = draft
          BY <2>7, <3>1, <3>3, RecordsByField
        <4> QED BY <3>1, <4>1
      <3> QED BY <3>2, <3>3
    <2>9. CASE CommitMutation(c)
      <3> DEFINE d == draft.command
                 o == draft.outcome
      <3>1. pc[c] = "commit" /\ o \in Outcomes /\ o.command = d
        BY <2>7, <2>9 DEF CommitMutation, RecordInv, TransactionInv
      <3>2. d \in Calls
        BY <2>7, <3>1 DEF Records
      <3>3. Once!Record(d, o) \in Records /\ Once!Record(d, None) \in Records
        BY <3>1, <3>2 DEF Once!Record, Records
      <3>4. row \in {None, Once!Record(d, None)}
        BY <2>7, <3>1, <3>3, RecordsByField DEF Once!Record
      <3>5. row' = Once!Record(d, o)
        <4>1. draft = Once!Record(d, o)
          BY <2>7, <3>1, <3>3, RecordsByField DEF Once!Record
        <4> QED BY <2>9, <4>1 DEF CommitMutation
      <3>6. effects' = (IF o.result = "applied" THEN effects + 1 ELSE effects) /\ answer' = answer
        BY <2>9 DEF CommitMutation
      <3> HIDE DEF d, o
      <3>7. Once!Decide(d, o)
        BY <3>1, <3>4, <3>5, <3>6 DEF Once!Decide
      <3> QED BY <3>1, <3>2, <3>7 DEF Once!Next
    <2> QED BY <1>1, <2>1, <2>4, <2>5, <2>6, <2>8, <2>9 DEF CallStep
  <1>2. CASE OtherMutation \/ UNCHANGED mutationVars
    BY <1>2 DEF OtherMutation, mutationVars
  <1> QED BY <1>1, <1>2 DEF MutationNext

\* The record implements the promise: one command per key, one decision, one effect, and
\* no answer but that decision, for any number of concurrent and repeated calls, with
\* transactions that fail and answers that are lost anywhere.
THEOREM ImplementsOnce == MutationSpec => ImplementsOnceOnly
  <1>1. MutationInit => Once!Init
    BY DEF MutationInit, Once!Init
  <1> QED BY <1>1, OnceStep, Recorded, PTL DEF MutationSpec, ImplementsOnceOnly, Once!Spec
============================================================================
