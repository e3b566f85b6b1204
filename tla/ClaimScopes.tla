---------------------------- MODULE ClaimScopes ----------------------------
(***************************************************************************)
(* How concurrent claims keep the concurrency limits of Pools, Projects    *)
(* and Build Configurations. A claim serialises with the claims of its     *)
(* Pool, reads a page of candidates, and for each locks the queue entry    *)
(* and tries the advisory locks of its two scopes before it counts leases  *)
(* again. Locks are kept until the transaction ends, those of candidates   *)
(* it has given up included. Claims of different Pools overlap; a Build    *)
(* carries the Project limit it was accepted with, so two Jobs of one      *)
(* Project may have different limits.                                      *)
(***************************************************************************)
EXTENDS Naturals, Sequences, FiniteSets

CONSTANTS
    None,
    JobOrder,             \* Jobs in queue order
    Claims,
    PoolOf,               \* claim -> Pool
    ProjectOf,            \* Job -> Project
    ConfigurationOf,      \* Job -> Build Configuration version
    PoolLimit,            \* Pool -> limit
    ProjectLimit,         \* Job -> limit of the Project recorded with its Build
    ConfigurationLimit    \* Job -> limit of its Build Configuration version

Jobs == {JobOrder[i] : i \in DOMAIN JobOrder}
Pools == {PoolOf[c] : c \in Claims}
Scopes == {ProjectOf[j] : j \in Jobs} \cup {ConfigurationOf[j] : j \in Jobs}

ASSUME ClaimScopesAssumption ==
    /\ JobOrder \in Seq(Jobs)
    /\ \A j \in Jobs : ProjectLimit[j] \in Nat \ {0} /\ ConfigurationLimit[j] \in Nat \ {0}
    /\ \A p \in Pools : PoolLimit[p] \in Nat
    /\ None \notin Jobs \cup Claims

VARIABLES
    leases,     \* current leases, in the order in which they were granted
    queue,      \* Jobs with a ready queue entry
    entryLock,  \* Job -> claim that has its queue entry locked, or None
    poolLock,   \* Pool -> claim that holds its advisory lock, or None
    scopeLock,  \* Project or Build Configuration -> claim that holds its lock, or None
    pc,         \* claim -> its step
    page        \* claim -> candidates still to be tried, in queue order

vars == <<leases, queue, entryLock, poolLock, scopeLock, pc, page>>

Init ==
    /\ leases = <<>>
    /\ queue = Jobs
    /\ entryLock = [j \in Jobs |-> None]
    /\ poolLock = [p \in Pools |-> None]
    /\ scopeLock = [s \in Scopes |-> None]
    /\ pc = [c \in Claims |-> "idle"]
    /\ page = [c \in Claims |-> {}]

----------------------------------------------------------------------------
(* Counting current leases.                                                *)

InPool(p) == {i \in DOMAIN leases : leases[i].pool = p}
InProject(j) == {i \in DOMAIN leases : ProjectOf[leases[i].job] = ProjectOf[j]}
InConfiguration(j) == {i \in DOMAIN leases : ConfigurationOf[leases[i].job] = ConfigurationOf[j]}

WithinLimits(j) ==
    /\ Cardinality(InProject(j)) < ProjectLimit[j]
    /\ Cardinality(InConfiguration(j)) < ConfigurationLimit[j]

----------------------------------------------------------------------------
(* A claim.                                                                *)

At(c, step) == pc[c] = step
Goto(c, step) == pc' = [pc EXCEPT ![c] = step]

\* The first of some Jobs in queue order.
FirstOf(jobs) ==
    JobOrder[CHOOSE i \in DOMAIN JobOrder :
               /\ JobOrder[i] \in jobs
               /\ \A k \in DOMAIN JobOrder : JobOrder[k] \in jobs => i <= k]

Candidate(c) == FirstOf(page[c])

\* The loop goes on with the next candidate.
PassOver(c) == page' = [page EXCEPT ![c] = @ \ {Candidate(c)}]

\* The transaction ends and drops every lock it took.
ReleaseAll(c) ==
    /\ entryLock' = [j \in Jobs |-> IF entryLock[j] = c THEN None ELSE entryLock[j]]
    /\ poolLock' = [p \in Pools |-> IF poolLock[p] = c THEN None ELSE poolLock[p]]
    /\ scopeLock' = [s \in Scopes |-> IF scopeLock[s] = c THEN None ELSE scopeLock[s]]
    /\ page' = [page EXCEPT ![c] = {}]
    /\ Goto(c, "idle")

LockPool(c) ==
    /\ At(c, "idle")
    /\ poolLock[PoolOf[c]] = None
    /\ poolLock' = [poolLock EXCEPT ![PoolOf[c]] = c]
    /\ Goto(c, "pool")
    /\ UNCHANGED <<leases, queue, entryLock, scopeLock, page>>

CheckPool(c) ==
    /\ At(c, "pool")
    /\ Cardinality(InPool(PoolOf[c])) < PoolLimit[PoolOf[c]]
    /\ Goto(c, "select")
    /\ UNCHANGED <<leases, queue, entryLock, poolLock, scopeLock, page>>

PoolIsFull(c) ==
    /\ At(c, "pool")
    /\ Cardinality(InPool(PoolOf[c])) >= PoolLimit[PoolOf[c]]
    /\ ReleaseAll(c)
    /\ UNCHANGED <<leases, queue>>

\* One statement reads the ready Jobs that are within their limits at that moment.
ReadPage(c) ==
    /\ At(c, "select")
    /\ page' = [page EXCEPT ![c] = {j \in queue : WithinLimits(j)}]
    /\ Goto(c, "entry")
    /\ UNCHANGED <<leases, queue, entryLock, poolLock, scopeLock>>

\* No candidate is left.
Empty(c) ==
    /\ At(c, "entry") /\ page[c] = {}
    /\ ReleaseAll(c)
    /\ UNCHANGED <<leases, queue>>

\* SKIP LOCKED: an entry that is gone or locked by another claim is passed over.
LockEntry(c) ==
    /\ At(c, "entry") /\ page[c] # {}
    /\ IF Candidate(c) \in queue /\ entryLock[Candidate(c)] \in {None, c}
       THEN /\ entryLock' = [entryLock EXCEPT ![Candidate(c)] = c]
            /\ Goto(c, "project")
            /\ UNCHANGED page
       ELSE /\ PassOver(c)
            /\ UNCHANGED <<entryLock, pc>>
    /\ UNCHANGED <<leases, queue, poolLock, scopeLock>>

\* The scope's lock if it is free or ours, the next candidate otherwise.
TryScope(c, scope, next) ==
    /\ IF scopeLock[scope] \in {None, c}
       THEN /\ scopeLock' = [scopeLock EXCEPT ![scope] = c]
            /\ Goto(c, next)
            /\ UNCHANGED page
       ELSE /\ PassOver(c)
            /\ Goto(c, "entry")
            /\ UNCHANGED scopeLock
    /\ UNCHANGED <<leases, queue, entryLock, poolLock>>

\* Mutant: a claim waits for a busy Project.
WaitForProject(c) ==
    /\ At(c, "project")
    /\ scopeLock[ProjectOf[Candidate(c)]] \in {None, c}
    /\ TryScope(c, ProjectOf[Candidate(c)], "configuration")

TryProject(c) == At(c, "project") /\ TryScope(c, ProjectOf[Candidate(c)], "configuration")

TryConfiguration(c) ==
    At(c, "configuration") /\ TryScope(c, ConfigurationOf[Candidate(c)], "recheck")

\* Mutant: the counts of the page are trusted.
NoRecheck(c) ==
    /\ At(c, "recheck")
    /\ Goto(c, "place")
    /\ UNCHANGED <<leases, queue, entryLock, poolLock, scopeLock, page>>

\* within_concurrency_limits, after the scopes are serialised.
Recheck(c) ==
    /\ At(c, "recheck")
    /\ IF WithinLimits(Candidate(c))
       THEN Goto(c, "place") /\ UNCHANGED page
       ELSE Goto(c, "entry") /\ PassOver(c)
    /\ UNCHANGED <<leases, queue, entryLock, poolLock, scopeLock>>

\* The queue entry goes, the lease is inserted, and both become visible.
Place(c) ==
    /\ At(c, "place")
    /\ leases' = Append(leases, [job |-> Candidate(c), pool |-> PoolOf[c]])
    /\ queue' = queue \ {Candidate(c)}
    /\ ReleaseAll(c)

\* A statement fails, or the request is dropped: the transaction rolls back.
RollBack(c) ==
    /\ pc[c] # "idle"
    /\ ReleaseAll(c)
    /\ UNCHANGED <<leases, queue>>

----------------------------------------------------------------------------
(* What happens to a lease afterwards (BuildCoordination).                 *)

LeaseEnds(i, requeue) ==
    /\ i \in DOMAIN leases
    /\ leases' = SubSeq(leases, 1, i - 1) \o SubSeq(leases, i + 1, Len(leases))
    /\ queue' = IF requeue THEN queue \cup {leases[i].job} ELSE queue
    /\ UNCHANGED <<entryLock, poolLock, scopeLock, pc, page>>

ClaimStep(c) ==
    \/ LockPool(c) \/ CheckPool(c) \/ PoolIsFull(c) \/ ReadPage(c) \/ Empty(c) \/ LockEntry(c)
    \/ TryProject(c) \/ TryConfiguration(c) \/ Recheck(c) \/ Place(c)

Next ==
    \/ \E c \in Claims : ClaimStep(c) \/ RollBack(c)
    \/ \E i \in DOMAIN leases : \E requeue \in BOOLEAN : LeaseEnds(i, requeue)

Spec == Init /\ [][Next]_vars

\* Every claim is driven by its request; leases need not end.
FairSpec == Spec /\ \A c \in Claims : WF_vars(ClaimStep(c))

----------------------------------------------------------------------------
(* Properties.                                                             *)

\* The claims, locks and leases are of their types.
TypeOK ==
    /\ leases \in Seq([job : Jobs, pool : Pools])
    /\ queue \subseteq Jobs
    /\ entryLock \in [Jobs -> Claims \cup {None}]
    /\ poolLock \in [Pools -> Claims \cup {None}]
    /\ scopeLock \in [Scopes -> Claims \cup {None}]
    /\ pc \in [Claims -> {"idle", "pool", "select", "entry", "project", "configuration",
                          "recheck", "place"}]
    /\ page \in [Claims -> SUBSET Jobs]
    /\ \A c \in Claims : pc[c] # "idle" <=> poolLock[PoolOf[c]] = c

UpTo(i, S) == Cardinality({k \in S : k <= i})

\* No lease is beyond a limit of its Project or Build Configuration, counting the current
\* leases granted before it, although the claims of other Pools ran at the same time.
ScopeLimitsHold ==
    \A i \in DOMAIN leases :
        /\ UpTo(i, InProject(leases[i].job)) <= ProjectLimit[leases[i].job]
        /\ UpTo(i, InConfiguration(leases[i].job)) <= ConfigurationLimit[leases[i].job]

\* A Pool never has more current leases than it may.
PoolLimitHolds == \A p \in Pools : Cardinality(InPool(p)) <= PoolLimit[p]

\* A Job is with at most one owner, and not queued while it has one.
PlacedOnce ==
    \A j \in Jobs : LET own == {i \in DOMAIN leases : leases[i].job = j}
                    IN  Cardinality(own) <= 1 /\ (own # {} => j \notin queue)

\* Claims that run at the same time place Jobs as claims one after the other would.
PlacementsAreAllowed == ScopeLimitsHold /\ PoolLimitHolds /\ PlacedOnce

\* A claim is answered: try-locks and skipped entries leave it nothing to wait for but
\* the Pool, and the claims of a Pool get their turn.
ClaimIsAnswered == \A c \in Claims : (pc[c] # "idle") ~> (pc[c] = "idle")
============================================================================
