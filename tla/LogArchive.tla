----------------------------- MODULE LogArchive -----------------------------
(***************************************************************************)
(* One log chunk between the append handler that archives it and the       *)
(* cleanup of objects no transaction came to own. A handler announces the  *)
(* object as an orphan, writes and verifies it, and then commits manifest  *)
(* and events, which withdraws the announcement. A cleanup worker takes an *)
(* announcement whose grace is over, looks whether a manifest owns the     *)
(* object and deletes it if none does. The identity of the chunk is the    *)
(* same for every request that carries it, so a repeated request meets the *)
(* announcement, the object or the manifest of an earlier one.             *)
(***************************************************************************)
EXTENDS Null, Naturals, FiniteSets

CONSTANTS
    Appends,        \* append requests that carry the chunk, one handler each
    Cleaners,       \* replicas of BuildRetentionWorker
    OrphanAttempts, \* DurableRetryPolicy::max_attempts
    MaxFaults       \* failed deletes, expired claims and dead cleaners

ASSUME LogArchiveAssumption ==
    /\ OrphanAttempts \in Nat \ {0} /\ MaxFaults \in Nat
    /\ None \notin Cleaners

VARIABLES
    handler,        \* append -> its step
    orphan,         \* orphan_log_chunk_work row of the chunk: its state, or "none"
    owner,          \* its claim_owner
    orphanAttempt,  \* its attempt_count, up to OrphanAttempts
    due,            \* whether available_at has passed
    object,         \* whether the object exists
    committed,      \* whether the manifest is committed and visible
    orphanCleaner,  \* cleaner -> its step
    orphanFaults

rowVars == <<orphan, owner, orphanAttempt, due>>
archiveVars == <<handler, rowVars, object, committed, orphanCleaner, orphanFaults>>

Running == {h \in Appends : handler[h] \in {"staged", "written", "verified"}}

ArchiveInit ==
    /\ handler = [h \in Appends |-> "new"]
    /\ orphan = "none" /\ owner = None /\ orphanAttempt = 0 /\ due = FALSE
    /\ object = FALSE
    /\ committed = FALSE
    /\ orphanCleaner = [k \in Cleaners |-> "idle"]
    /\ orphanFaults = 0

----------------------------------------------------------------------------
(* append_events                                                           *)

\* INSERT ... ON CONFLICT DO NOTHING: an earlier row keeps its state and its time.
Stage(h) ==
    /\ handler[h] = "new"
    /\ IF orphan = "none"
       THEN orphan' = "pending" /\ owner' = None /\ orphanAttempt' = 0 /\ due' = FALSE
       ELSE UNCHANGED rowVars
    /\ handler' = [handler EXCEPT ![h] = "staged"]
    /\ UNCHANGED <<object, committed, orphanCleaner, orphanFaults>>

\* put_verified writes if-none-match and then reads back what is there.
PutObject(h) ==
    /\ handler[h] = "staged"
    /\ object' = TRUE
    /\ handler' = [handler EXCEPT ![h] = "written"]
    /\ UNCHANGED <<rowVars, committed, orphanCleaner, orphanFaults>>

VerifyObject(h) ==
    /\ handler[h] = "written"
    /\ handler' = [handler EXCEPT ![h] = IF object THEN "verified" ELSE "failed"]
    /\ UNCHANGED <<rowVars, object, committed, orphanCleaner, orphanFaults>>

\* The append transaction; the one that finds the manifest commits nothing.
CommitAppend(h) ==
    /\ handler[h] = "verified"
    /\ IF committed THEN UNCHANGED <<rowVars, committed>>
       ELSE /\ committed' = TRUE
            /\ orphan' = "none" /\ owner' = None /\ orphanAttempt' = 0 /\ due' = FALSE
    /\ handler' = [handler EXCEPT ![h] = "done"]
    /\ UNCHANGED <<object, orphanCleaner, orphanFaults>>

\* The store or the object store is unavailable, the transaction is refused, or the
\* server dies: what is staged and written stays.
AppendFails(h) ==
    /\ h \in Running
    /\ handler' = [handler EXCEPT ![h] = "failed"]
    /\ UNCHANGED <<rowVars, object, committed, orphanCleaner, orphanFaults>>

\* The grace counts from the first announcement. Validation only asks that it exceeds
\* one call of the object store: an append with several chunks, or a retry, may still
\* be running.
GracePasses ==
    /\ orphan = "pending" /\ ~due
    /\ due' = TRUE
    /\ UNCHANGED <<handler, orphan, owner, orphanAttempt, object, committed, orphanCleaner, orphanFaults>>

----------------------------------------------------------------------------
(* cleanup_orphans                                                         *)

Claim(k) ==
    /\ orphanCleaner[k] = "idle"
    /\ orphan \in {"pending", "retry_scheduled"} /\ due
    /\ orphan' = "claimed" /\ owner' = k
    /\ orphanAttempt' = IF orphanAttempt < OrphanAttempts THEN orphanAttempt + 1 ELSE orphanAttempt
    /\ orphanCleaner' = [orphanCleaner EXCEPT ![k] = "claimed"]
    /\ UNCHANGED <<handler, due, object, committed, orphanFaults>>

\* Mutant: the manifest is not looked at.
CheckNothing(k) ==
    /\ orphanCleaner[k] = "claimed"
    /\ orphanCleaner' = [orphanCleaner EXCEPT ![k] = "delete"]
    /\ UNCHANGED <<handler, rowVars, object, committed, orphanFaults>>

CheckCommitted(k) ==
    /\ orphanCleaner[k] = "claimed"
    /\ orphanCleaner' = [orphanCleaner EXCEPT ![k] = IF committed THEN "settle" ELSE "delete"]
    /\ UNCHANGED <<handler, rowVars, object, committed, orphanFaults>>

DeleteChunk(k) ==
    /\ orphanCleaner[k] = "delete"
    /\ object' = FALSE
    /\ orphanCleaner' = [orphanCleaner EXCEPT ![k] = "settle"]
    /\ UNCHANGED <<handler, rowVars, committed, orphanFaults>>

\* Mutant: the row is completed whoever holds it by now.
CompleteAnyOrphan(k) ==
    /\ orphanCleaner[k] = "settle"
    /\ orphan' = (IF orphan = "none" THEN "none" ELSE "completed") /\ owner' = None
    /\ orphanCleaner' = [orphanCleaner EXCEPT ![k] = "idle"]
    /\ UNCHANGED <<handler, orphanAttempt, due, object, committed, orphanFaults>>

\* A claim that is gone settles nothing and ends the pass.
CompleteOrphan(k) ==
    /\ orphanCleaner[k] = "settle"
    /\ IF orphan = "claimed" /\ owner = k
       THEN orphan' = "completed" /\ owner' = None
       ELSE UNCHANGED <<orphan, owner>>
    /\ orphanCleaner' = [orphanCleaner EXCEPT ![k] = "idle"]
    /\ UNCHANGED <<handler, orphanAttempt, due, object, committed, orphanFaults>>

\* The object store fails: fail_orphan_log_chunk schedules a retry or gives up.
DeleteFails(k) ==
    /\ orphanCleaner[k] = "delete"
    /\ orphanFaults < MaxFaults
    /\ orphanFaults' = orphanFaults + 1
    /\ IF orphan = "claimed" /\ owner = k
       THEN /\ orphan' = IF orphanAttempt < OrphanAttempts THEN "retry_scheduled" ELSE "dead_letter"
            /\ owner' = None
       ELSE UNCHANGED <<orphan, owner>>
    /\ orphanCleaner' = [orphanCleaner EXCEPT ![k] = "idle"]
    /\ UNCHANGED <<handler, orphanAttempt, due, object, committed>>

\* The claim expires under a slow cleaner, or with a dead one.
ClaimExpires ==
    /\ orphan = "claimed"
    /\ orphanFaults < MaxFaults
    /\ orphanFaults' = orphanFaults + 1
    /\ orphan' = "pending" /\ owner' = None
    /\ \/ UNCHANGED orphanCleaner
       \/ orphanCleaner' = [orphanCleaner EXCEPT ![owner] = "idle"]
    /\ UNCHANGED <<handler, orphanAttempt, due, object, committed>>

----------------------------------------------------------------------------
AppendStep(h) == Stage(h) \/ PutObject(h) \/ VerifyObject(h) \/ CommitAppend(h)
CleanerStep(k) == Claim(k) \/ CheckCommitted(k) \/ DeleteChunk(k) \/ CompleteOrphan(k)

ArchiveNext ==
    \/ \E h \in Appends : AppendStep(h) \/ AppendFails(h)
    \/ GracePasses
    \/ \E k \in Cleaners : CleanerStep(k) \/ DeleteFails(k)
    \/ ClaimExpires

ArchiveSpec == ArchiveInit /\ [][ArchiveNext]_archiveVars

\* Time passes, and the cleanup loop of a live replica goes on.
ArchiveFairSpec ==
    /\ ArchiveSpec
    /\ WF_archiveVars(GracePasses)
    /\ \A k \in Cleaners : WF_archiveVars(CleanerStep(k))
    /\ \A h \in Appends : WF_archiveVars(handler[h] # "new" /\ (AppendStep(h) \/ AppendFails(h)))

----------------------------------------------------------------------------
(* Properties.                                                             *)

\* Row, claim and steps are of their types; a claimed row has an owner.
ArchiveTypeOK ==
    /\ handler \in [Appends -> {"new", "staged", "written", "verified", "done", "failed"}]
    /\ orphan \in {"none", "pending", "claimed", "retry_scheduled", "completed", "dead_letter"}
    /\ owner \in Cleaners \cup {None} /\ (orphan = "claimed" <=> owner # None)
    /\ orphanAttempt \in 0 .. OrphanAttempts
    /\ due \in BOOLEAN /\ object \in BOOLEAN /\ committed \in BOOLEAN
    /\ orphanCleaner \in [Cleaners -> {"idle", "claimed", "delete", "settle"}]
    /\ orphanFaults \in 0 .. MaxFaults

\* Every cleaner that is past its look at the manifests looked before this commit.
SafelyCommitted == committed /\ object /\ \A k \in Cleaners : orphanCleaner[k] # "delete"

\* Cleanup looks at the manifests and deletes the object in two steps, and a repeated
\* append announces a committed chunk to it once more (orphan.rs stage, after the commit
\* has withdrawn the announcement). Once an append has committed with no cleaner between
\* its look and its delete, the object is there for good: what a manifest names is lost
\* only to a cleaner that had looked before the commit.
CommittedStaysStored == [][SafelyCommitted => SafelyCommitted']_archiveVars

\* agent-scheduling specification, line 82: "committed metadata never names a missing or
\* unverified chunk".
CommittedIsStored == committed => object

\* Once no append is running, every object is owned by a manifest or still announced to
\* cleanup, wherever the appends stopped. docs/architecture/server.md, lines 1541-1544:
\* "a database rollback can leave only an invisible object, which orphan cleanup deletes
\* after checking that no committed visible manifest owns the identity".
StoredIsKnown ==
    object => \/ committed
              \/ Running # {}
              \/ orphan \in {"pending", "claimed", "retry_scheduled", "dead_letter"}

\* The announcement is waiting, or with a cleaner that has not deleted anything yet.
Announced ==
    \/ orphan \in {"pending", "retry_scheduled"}
    \/ orphan = "claimed" /\ orphanCleaner[owner] \in {"claimed", "delete"}

\* An object whose appends all failed and which is still announced goes away in the end,
\* unless deleting it failed so often that the row is a dead letter: no cleaner that lost
\* its claim settles the announcement for the one that took it over (orphan.rs complete).
AnnouncedOrphanIsRemoved ==
    (object /\ ~committed /\ Announced /\ \A h \in Appends : handler[h] = "failed")
        ~> (~object \/ orphan = "dead_letter")
============================================================================
