---------------------------- MODULE LogRetention ----------------------------
(***************************************************************************)
(* The archived logs of the Builds of one Project after their chunks are   *)
(* committed: the durable queue of index work and its workers, the derived *)
(* search projection with its tombstones and its watermark, the retention  *)
(* worker that hides a Build's logs, deletes its search documents and then *)
(* its bytes, the holds an operator places on a Build Result, and the      *)
(* operator's online rebuild of the projection.                            *)
(*                                                                         *)
(* One action is one database transaction, one object-store call or one    *)
(* step of a worker between two of them. A claim is a name on a row; when  *)
(* it expires the row is as if it had none, because both the claim queries *)
(* and the settlements compare owner and expiry. Claims have limit one.    *)
(***************************************************************************)
EXTENDS Null, Naturals, Sequences, FiniteSetsExt, Functions

CONSTANTS
    Builds,
    Chunks,            \* log chunks
    BuildOf,           \* chunk -> its Build
    IndexWorkers,      \* replicas of LogIndexingWorker
    RetentionWorkers,  \* replicas of BuildRetentionWorker
    MaxAttempts,       \* DurableRetryPolicy::max_attempts
    ObjectLimit,       \* objects of one retention pass
    MaxDisturbances    \* crashes, expired claims, failed calls and rebuilds

ASSUME LogRetentionAssumption ==
    /\ BuildOf \in [Chunks -> Builds]
    /\ MaxAttempts \in Nat \ {0} /\ ObjectLimit \in Nat \ {0}
    /\ MaxDisturbances \in Nat
    /\ None \notin Chunks \cup IndexWorkers \cup RetentionWorkers \cup Builds
    /\ None \notin {"document", "delete", "superseded"}

VARIABLES
    manifest,       \* chunk -> "none", "visible", "hidden" or "deleted"
    bytes,          \* chunks whose object exists
    work,           \* log_indexing_work, by position
    logsVisible,    \* build -> builds.logs_visible
    held,           \* build -> whether its latest hold is active
    phase,          \* build -> retention_work.phase of the logs component
    claimOwner,     \* build -> retention_work.claim_owner
    attempt,        \* build -> retention_work.attempt_count, up to MaxAttempts
    failures,       \* build -> failed retention passes so far (history)
    documents,      \* log_search_documents
    applied,        \* log_search_applied_work, by position
    tombstone,      \* build -> log_search_build_tombstones position, or 0
    indexedThrough, \* log_search_project_positions.indexed_through
    indexer,        \* index worker -> its claim and step, or None
    cleaner,        \* retention worker -> its claim and step, or None
    faults, rebuilds

storeVars  == <<manifest, bytes, work, logsVisible, held>>
retainVars == <<phase, claimOwner, attempt, failures>>
indexVars  == <<documents, applied, tombstone, indexedThrough>>
boundVars  == <<faults, rebuilds>>
vars == <<storeVars, retainVars, indexVars, indexer, cleaner, boundVars>>

ChunksOf(b) == {c \in Chunks : BuildOf[c] = b}

\* Position of the deletion work of a build; there is one once its logs are hidden.
SearchPosition(b) ==
    CHOOSE p \in DOMAIN work : work[p].build = b /\ work[p].operation = "delete_build"

Row(b, c, operation) ==
    [build |-> b, chunk |-> c, operation |-> operation,
     state |-> "pending", owner |-> None, attempt |-> 0]

MayDisturb == faults + rebuilds < MaxDisturbances

Counted(n) == IF n < MaxAttempts THEN n + 1 ELSE n

Init ==
    /\ manifest = [c \in Chunks |-> "none"]
    /\ bytes = {}
    /\ work = <<>>
    /\ logsVisible = [b \in Builds |-> TRUE]
    /\ held = [b \in Builds |-> FALSE]
    /\ phase = [b \in Builds |-> "pending"]
    /\ claimOwner = [b \in Builds |-> None]
    /\ attempt = [b \in Builds |-> 0]
    /\ failures = [b \in Builds |-> 0]
    /\ documents = {}
    /\ applied = <<>>
    /\ tombstone = [b \in Builds |-> 0]
    /\ indexedThrough = 0
    /\ indexer = [w \in IndexWorkers |-> None]
    /\ cleaner = [r \in RetentionWorkers |-> None]
    /\ faults = 0
    /\ rebuilds = 0

----------------------------------------------------------------------------
(* The append transaction of a chunk whose object is written, and holds.   *)

\* Under the Build's row lock: no chunk is committed once the logs are hidden.
CommitChunk(c) ==
    LET b == BuildOf[c] IN
    /\ manifest[c] = "none"
    /\ logsVisible[b]
    /\ manifest' = [manifest EXCEPT ![c] = "visible"]
    /\ bytes' = bytes \cup {c}
    /\ work' = Append(work, Row(b, c, "index"))
    /\ applied' = Append(applied, None)
    /\ UNCHANGED <<logsVisible, held, retainVars, documents, tombstone, indexedThrough,
                   indexer, cleaner, boundVars>>

PlaceHold(b) ==
    /\ logsVisible[b]
    /\ ~held[b]
    /\ held' = [held EXCEPT ![b] = TRUE]
    /\ UNCHANGED <<manifest, bytes, work, logsVisible, retainVars, indexVars,
                   indexer, cleaner, boundVars>>

\* Released by the operator, or its expiry has passed.
EndHold(b) ==
    /\ held[b]
    /\ held' = [held EXCEPT ![b] = FALSE]
    /\ UNCHANGED <<manifest, bytes, work, logsVisible, retainVars, indexVars,
                   indexer, cleaner, boundVars>>

----------------------------------------------------------------------------
(* The search projection. Every call locks the Project's position row.     *)

\* Mutant: the greatest applied position, whatever is missing below it.
FreshnessPastGaps(records) ==
    Max({indexedThrough} \cup {p \in DOMAIN records : records[p] # None})

\* advance_freshness: through the last position before a gap.
Freshness(records) ==
    Max({k \in indexedThrough .. Len(records) :
            \A p \in indexedThrough + 1 .. k : records[p] # None})

\* replay: what is already recorded for this work, seen by a call of this kind.
Recorded(p, kind) ==
    IF applied[p] = None THEN "fresh"
    ELSE IF applied[p] = kind THEN "replayed" ELSE "conflict"

IndexDocument(p) ==
    LET b == work[p].build IN
    LET records == [applied EXCEPT ![p] = "document"] IN
    IF Recorded(p, "document") # "fresh" THEN UNCHANGED indexVars
    ELSE /\ documents' = IF tombstone[b] # 0 THEN documents ELSE documents \cup {work[p].chunk}
         /\ applied' = records
         /\ indexedThrough' = Freshness(records)
         /\ UNCHANGED tombstone

\* Mutant: the documents go, but earlier work of the Build stays applicable.
DeleteDocumentsOnly(p) ==
    LET records == [applied EXCEPT ![p] = "delete"] IN
    IF Recorded(p, "delete") # "fresh" THEN UNCHANGED indexVars
    ELSE /\ documents' = documents \ ChunksOf(work[p].build)
         /\ applied' = records
         /\ indexedThrough' = Freshness(records)
         /\ UNCHANGED tombstone

\* Earlier work of the Build is recorded as superseded, under a digest of its own.
DeleteDocuments(p) ==
    LET b == work[p].build IN
    LET records == [q \in DOMAIN applied |->
                        IF q = p THEN "delete"
                        ELSE IF q < p /\ work[q].build = b /\ applied[q] = None
                             THEN "superseded" ELSE applied[q]] IN
    IF Recorded(p, "delete") # "fresh" THEN UNCHANGED indexVars
    ELSE /\ documents' = documents \ ChunksOf(b)
         /\ tombstone' = [tombstone EXCEPT ![b] = Max({@, p})]
         /\ applied' = records
         /\ indexedThrough' = Freshness(records)

----------------------------------------------------------------------------
(* LogIndexingWorker.                                                      *)

Claimable(p) == work[p].state \in {"pending", "retry_scheduled"}

\* The first due row; scheduled retries may not be due yet. What the worker is
\* to do is decided here, from the manifest's visibility.
ClaimIndexWork(w) ==
    /\ indexer[w] = None
    /\ \E p \in DOMAIN work :
        /\ Claimable(p)
        /\ \A q \in 1 .. p - 1 : work[q].state # "pending"
        /\ work' = [work EXCEPT ![p].state = "claimed", ![p].owner = w,
                                ![p].attempt = Counted(@)]
        /\ indexer' = [indexer EXCEPT ![w] =
              [position |-> p, attempt |-> Counted(work[p].attempt),
               kind |-> IF work[p].chunk # None /\ manifest[work[p].chunk] = "visible"
                        THEN "document" ELSE "delete",
               step |-> IF work[p].chunk # None /\ manifest[work[p].chunk] = "visible"
                        THEN "read" ELSE "apply"]]
    /\ UNCHANGED <<manifest, bytes, logsVisible, held, retainVars, indexVars, cleaner, boundVars>>

At(w, step) == indexer[w] # None /\ indexer[w].step = step

ReadChunk(w) ==
    /\ At(w, "read")
    /\ indexer' = [indexer EXCEPT ![w].step =
                      IF work[indexer[w].position].chunk \in bytes THEN "apply" ELSE "unavailable"]
    /\ UNCHANGED <<storeVars, retainVars, indexVars, cleaner, boundVars>>

ApplyIndexWork(w) ==
    LET p == indexer[w].position IN
    LET kind == indexer[w].kind IN
    /\ At(w, "apply")
    /\ IF kind = "document" THEN IndexDocument(p) ELSE DeleteDocuments(p)
    /\ indexer' = [indexer EXCEPT ![w].step =
                      IF Recorded(p, kind) = "conflict" THEN "conflict" ELSE "applied"]
    /\ UNCHANGED <<storeVars, retainVars, cleaner, boundVars>>

\* The object store or the projection does not answer, which is tried again, or the
\* object or its text is not what the manifest says, which is not.
IndexCallFails(w) ==
    /\ indexer[w] # None /\ indexer[w].step \in {"read", "apply"}
    /\ MayDisturb
    /\ faults' = faults + 1
    /\ \E step \in {"unavailable", "conflict"} : indexer' = [indexer EXCEPT ![w].step = step]
    /\ UNCHANGED <<storeVars, retainVars, indexVars, cleaner, rebuilds>>

\* complete or fail; a claim that was lost meanwhile settles nothing.
SettleIndexWork(w) ==
    LET p == indexer[w].position IN
    LET outcome ==
        CASE indexer[w].step = "applied" -> "completed"
          [] indexer[w].step = "unavailable" /\ indexer[w].attempt < MaxAttempts -> "retry_scheduled"
          [] OTHER -> "dead_letter" IN
    /\ indexer[w] # None /\ indexer[w].step \in {"applied", "unavailable", "conflict"}
    /\ work' = IF work[p].state = "claimed" /\ work[p].owner = w
               THEN [work EXCEPT ![p].state = outcome, ![p].owner = None]
               ELSE work
    /\ indexer' = [indexer EXCEPT ![w] = None]
    /\ UNCHANGED <<manifest, bytes, logsVisible, held, retainVars, indexVars, cleaner, boundVars>>

IndexClaimExpires(p) ==
    /\ work[p].state = "claimed"
    /\ MayDisturb
    /\ faults' = faults + 1
    /\ work' = [work EXCEPT ![p].state = "pending", ![p].owner = None]
    /\ UNCHANGED <<manifest, bytes, logsVisible, held, retainVars, indexVars,
                   indexer, cleaner, rebuilds>>

----------------------------------------------------------------------------
(* BuildRetentionWorker, for the logs component.                           *)

Owns(r) == cleaner[r] # None /\ claimOwner[cleaner[r].build] = r
CleanerAt(r, step) == cleaner[r] # None /\ cleaner[r].step = step

\* The transaction finds the claim gone: run_once returns the store's error.
LosesClaim(r, step) ==
    /\ CleanerAt(r, step) /\ ~Owns(r)
    /\ cleaner' = [cleaner EXCEPT ![r] = None]
    /\ UNCHANGED <<storeVars, retainVars, indexVars, indexer, boundVars>>

\* Mutant: only rows that were never prepared are claimed.
ClaimPendingRetentionWork(r, b) ==
    /\ cleaner[r] = None
    /\ phase[b] = "pending"
    /\ claimOwner[b] = None
    /\ ~held[b]
    /\ claimOwner' = [claimOwner EXCEPT ![b] = r]
    /\ attempt' = [attempt EXCEPT ![b] = Counted(@)]
    /\ cleaner' = [cleaner EXCEPT ![r] =
          [build |-> b, step |-> "prepare", attempt |-> Counted(attempt[b]),
           objects |-> {}, object |-> None]]
    /\ UNCHANGED <<storeVars, phase, failures, indexVars, indexer, boundVars>>

ClaimRetentionWork(r, b) ==
    /\ cleaner[r] = None
    /\ phase[b] \notin {"bytes_deleted", "dead_letter"}
    /\ claimOwner[b] = None
    /\ ~held[b]
    /\ claimOwner' = [claimOwner EXCEPT ![b] = r]
    /\ attempt' = [attempt EXCEPT ![b] = Counted(@)]
    /\ cleaner' = [cleaner EXCEPT ![r] =
          [build |-> b, step |-> "prepare", attempt |-> Counted(attempt[b]),
           objects |-> {}, object |-> None]]
    /\ UNCHANGED <<storeVars, phase, failures, indexVars, indexer, boundVars>>

\* hide_component with allocate_search_deletion.
HideLogs(b) ==
    /\ logsVisible' = [logsVisible EXCEPT ![b] = FALSE]
    /\ manifest' = [c \in Chunks |->
                      IF c \in ChunksOf(b) /\ manifest[c] = "visible" THEN "hidden" ELSE manifest[c]]
    /\ work' = Append(work, Row(b, None, "delete_build"))
    /\ applied' = Append(applied, None)
    /\ phase' = [phase EXCEPT ![b] = "hidden"]

Remaining(b) == {c \in ChunksOf(b) : manifest[c] = "hidden"}

\* Mutant: the hold is looked at when the work is claimed, not again under the lock.
PrepareRetentionUnchecked(r) ==
    LET b == cleaner[r].build IN
    LET hides == phase[b] = "pending" IN
    /\ CleanerAt(r, "prepare") /\ Owns(r)
    /\ IF hides THEN HideLogs(b) ELSE UNCHANGED <<logsVisible, manifest, work, applied, phase>>
    /\ \E objects \in SUBSET Remaining(b) :
        /\ IF phase[b] = "search_deleted"
           THEN Cardinality(objects) = Min({ObjectLimit, Cardinality(Remaining(b))})
           ELSE objects = {}
        /\ cleaner' = [cleaner EXCEPT
              ![r].step = IF hides \/ phase[b] = "hidden" THEN "search"
                          ELSE IF objects # {} THEN "delete" ELSE "finish",
              ![r].objects = objects]
    /\ UNCHANGED <<bytes, held, claimOwner, attempt, failures, documents, tombstone,
                   indexedThrough, indexer, boundVars>>

PrepareRetention(r) ==
    LET b == cleaner[r].build IN
    LET hides == phase[b] = "pending" /\ ~held[b] IN
    /\ CleanerAt(r, "prepare") /\ Owns(r)
    /\ IF hides THEN HideLogs(b) ELSE UNCHANGED <<logsVisible, manifest, work, applied, phase>>
    /\ \E objects \in SUBSET Remaining(b) :
        /\ IF phase[b] = "search_deleted"
           THEN Cardinality(objects) = Min({ObjectLimit, Cardinality(Remaining(b))})
           ELSE objects = {}
        /\ cleaner' = [cleaner EXCEPT
              ![r].step = IF hides \/ phase[b] = "hidden" THEN "search"
                          ELSE IF objects # {} THEN "delete" ELSE "finish",
              ![r].objects = objects]
    /\ UNCHANGED <<bytes, held, claimOwner, attempt, failures, documents, tombstone,
                   indexedThrough, indexer, boundVars>>

DeleteSearch(r) ==
    /\ CleanerAt(r, "search")
    /\ DeleteDocuments(SearchPosition(cleaner[r].build))
    /\ cleaner' = [cleaner EXCEPT ![r].step = "complete_search"]
    /\ UNCHANGED <<storeVars, retainVars, indexer, boundVars>>

\* Also settles the Build's index work, claimed or not.
CompleteSearch(r) ==
    LET b == cleaner[r].build IN
    /\ CleanerAt(r, "complete_search") /\ Owns(r)
    /\ IF phase[b] = "hidden"
       THEN /\ work' = [p \in DOMAIN work |->
                          IF work[p].build = b
                          THEN [work[p] EXCEPT !.state = "completed", !.owner = None]
                          ELSE work[p]]
            /\ phase' = [phase EXCEPT ![b] = "search_deleted"]
       ELSE UNCHANGED <<work, phase>>
    /\ cleaner' = [cleaner EXCEPT ![r].step = "finish"]
    /\ UNCHANGED <<manifest, bytes, logsVisible, held, claimOwner, attempt, failures,
                   indexVars, indexer, boundVars>>

\* The object-store delete does not look at the claim.
DeleteObject(r) ==
    /\ CleanerAt(r, "delete")
    /\ \E c \in cleaner[r].objects :
        /\ bytes' = bytes \ {c}
        /\ cleaner' = [cleaner EXCEPT ![r].step = "complete_object",
                                      ![r].objects = @ \ {c}, ![r].object = c]
    /\ UNCHANGED <<manifest, work, logsVisible, held, retainVars, indexVars, indexer, boundVars>>

CompleteObject(r) ==
    LET c == cleaner[r].object IN
    /\ CleanerAt(r, "complete_object") /\ Owns(r)
    /\ manifest[c] \in {"hidden", "deleted"}
    /\ manifest' = [manifest EXCEPT ![c] = "deleted"]
    /\ cleaner' = [cleaner EXCEPT ![r].object = None,
                      ![r].step = IF cleaner[r].objects = {} THEN "finish" ELSE "delete"]
    /\ UNCHANGED <<bytes, work, logsVisible, held, retainVars, indexVars, indexer, boundVars>>

FinishPass(r) ==
    LET b == cleaner[r].build IN
    /\ CleanerAt(r, "finish") /\ Owns(r)
    /\ phase' = IF phase[b] = "search_deleted" /\ Remaining(b) = {}
                THEN [phase EXCEPT ![b] = "bytes_deleted"] ELSE phase
    /\ claimOwner' = [claimOwner EXCEPT ![b] = None]
    /\ cleaner' = [cleaner EXCEPT ![r] = None]
    /\ UNCHANGED <<storeVars, attempt, failures, indexVars, indexer, boundVars>>

\* The projection or the object store fails: another pass, or a dead letter when
\* the row has been claimed MaxAttempts times.
RetentionCallFails(r) ==
    LET b == cleaner[r].build IN
    /\ cleaner[r] # None /\ cleaner[r].step \in {"search", "delete"}
    /\ MayDisturb
    /\ faults' = faults + 1
    /\ IF Owns(r)
       THEN /\ phase' = IF cleaner[r].attempt < MaxAttempts THEN phase
                        ELSE [phase EXCEPT ![b] = "dead_letter"]
            /\ claimOwner' = [claimOwner EXCEPT ![b] = None]
            /\ failures' = [failures EXCEPT ![b] = @ + 1]
       ELSE UNCHANGED <<phase, claimOwner, failures>>
    /\ cleaner' = [cleaner EXCEPT ![r] = None]
    /\ UNCHANGED <<storeVars, attempt, indexVars, indexer, rebuilds>>

RetentionClaimExpires(b) ==
    /\ claimOwner[b] # None
    /\ MayDisturb
    /\ faults' = faults + 1
    /\ claimOwner' = [claimOwner EXCEPT ![b] = None]
    /\ UNCHANGED <<storeVars, phase, attempt, failures, indexVars, indexer, cleaner, rebuilds>>

----------------------------------------------------------------------------
(* Crashes leave claims to expire; the rebuild runs beside the workers.    *)

\* A process dies with its claim, which expires before anybody can go on.
Crash ==
    /\ MayDisturb
    /\ faults' = faults + 1
    /\ \/ \E w \in IndexWorkers :
            /\ indexer[w] # None
            /\ indexer' = [indexer EXCEPT ![w] = None]
            /\ work' = [p \in DOMAIN work |->
                          IF work[p].owner = w
                          THEN [work[p] EXCEPT !.state = "pending", !.owner = None] ELSE work[p]]
            /\ UNCHANGED <<claimOwner, cleaner>>
       \/ \E r \in RetentionWorkers :
            /\ cleaner[r] # None
            /\ cleaner' = [cleaner EXCEPT ![r] = None]
            /\ claimOwner' = [b \in Builds |-> IF claimOwner[b] = r THEN None ELSE claimOwner[b]]
            /\ UNCHANGED <<work, indexer>>
    /\ UNCHANGED <<manifest, bytes, logsVisible, held, phase, attempt, failures, indexVars, rebuilds>>

StartRebuild ==
    /\ MayDisturb
    /\ rebuilds' = rebuilds + 1
    /\ documents' = {}
    /\ applied' = [p \in DOMAIN applied |-> None]
    /\ indexedThrough' = 0
    /\ tombstone' = [b \in Builds |->
          Max({tombstone[b]} \cup {p \in DOMAIN work : work[p].build = b
                                                /\ work[p].operation = "delete_build"})]
    /\ work' = [p \in DOMAIN work |->
          [work[p] EXCEPT !.state = "pending", !.owner = None, !.attempt = 0,
                          !.operation = IF @ = "index" THEN "rebuild" ELSE @]]
    /\ UNCHANGED <<manifest, bytes, logsVisible, held, retainVars, indexer, cleaner, faults>>

----------------------------------------------------------------------------
IndexStep(w) == ClaimIndexWork(w) \/ ReadChunk(w) \/ ApplyIndexWork(w) \/ SettleIndexWork(w)

RetentionStep(r) ==
    \/ \E b \in Builds : ClaimRetentionWork(r, b)
    \/ PrepareRetention(r) \/ DeleteSearch(r) \/ CompleteSearch(r)
    \/ DeleteObject(r) \/ CompleteObject(r) \/ FinishPass(r)
    \/ \E step \in {"prepare", "complete_search", "complete_object", "finish"} : LosesClaim(r, step)

Next ==
    \/ \E c \in Chunks : CommitChunk(c)
    \/ \E b \in Builds : PlaceHold(b) \/ EndHold(b) \/ RetentionClaimExpires(b)
    \/ \E w \in IndexWorkers : IndexStep(w) \/ IndexCallFails(w)
    \/ \E p \in DOMAIN work : IndexClaimExpires(p)
    \/ \E r \in RetentionWorkers : RetentionStep(r) \/ RetentionCallFails(r)
    \/ Crash
    \/ StartRebuild

Spec == Init /\ [][Next]_vars

\* The two worker loops run on every replica for as long as it is up; faults and
\* rebuilds are bounded, so a worker that keeps running gets to finish. A pass of
\* the retention worker claims every due row up to its limit: no Build is passed
\* over for ever in favour of another.
FairSpec ==
    /\ Spec
    /\ \A w \in IndexWorkers : WF_vars(IndexStep(w))
    /\ \A r \in RetentionWorkers : WF_vars(RetentionStep(r))
    /\ \A b \in Builds : SF_vars(\E r \in RetentionWorkers : ClaimRetentionWork(r, b))

----------------------------------------------------------------------------
(* Properties.                                                             *)

WorkStates == {"pending", "claimed", "retry_scheduled", "completed", "dead_letter"}

Rows == [build : Builds, chunk : Chunks \cup {None}, operation : {"index", "rebuild", "delete_build"},
         state : WorkStates, owner : IndexWorkers \cup {None}, attempt : 0 .. MaxAttempts]

IndexPasses == [position : Nat \ {0}, attempt : 0 .. MaxAttempts, kind : {"document", "delete"},
                step : {"read", "apply", "applied", "unavailable", "conflict"}]

RetentionPasses ==
    [build : Builds, attempt : 0 .. MaxAttempts, objects : SUBSET Chunks, object : Chunks \cup {None},
     step : {"prepare", "search", "complete_search", "delete", "complete_object", "finish"}]

\* Every column holds a value of its type, and the applied-work table covers the
\* same positions as the queue it mirrors.
TypeOK ==
    /\ manifest \in [Chunks -> {"none", "visible", "hidden", "deleted"}]
    /\ bytes \subseteq Chunks /\ documents \subseteq Chunks
    /\ work \in Seq(Rows)
    /\ \A p \in DOMAIN work : work[p].state = "claimed" <=> work[p].owner \in IndexWorkers
    /\ applied \in Seq({None, "document", "delete", "superseded"}) /\ Len(applied) = Len(work)
    /\ logsVisible \in [Builds -> BOOLEAN]
    /\ held \in [Builds -> BOOLEAN]
    /\ phase \in [Builds -> {"pending", "hidden", "search_deleted", "bytes_deleted", "dead_letter"}]
    /\ claimOwner \in [Builds -> RetentionWorkers \cup {None}]
    /\ attempt \in [Builds -> 0 .. MaxAttempts]
    /\ failures \in [Builds -> 0 .. MaxDisturbances]
    /\ tombstone \in [Builds -> 0 .. Len(work)]
    /\ indexedThrough \in 0 .. Len(work)
    /\ indexer \in [IndexWorkers -> IndexPasses \cup {None}]
    /\ \A w \in IndexWorkers : indexer[w] # None => indexer[w].position <= Len(work)
    /\ cleaner \in [RetentionWorkers -> RetentionPasses \cup {None}]
    /\ faults \in Nat /\ rebuilds \in Nat /\ faults + rebuilds <= MaxDisturbances
    /\ \A b \in Builds : failures[b] <= faults

\* A search page that reports a position reports it truthfully: every visible chunk
\* up to indexed_through is in the projection, whatever the workers' order, their
\* repeats and a rebuild in the middle.
FreshnessIsTruthful ==
    \A p \in 1 .. indexedThrough :
        (work[p].chunk # None /\ manifest[work[p].chunk] = "visible")
            => work[p].chunk \in documents

\* Bytes outlive every way of reaching them: what is visible or searchable can be
\* read, although a retention worker deletes objects without looking at its claim. An
\* accepted hold covers the whole log of a Build, even when it is accepted between the
\* claim of the retention work and its preparation.
ReachableIsReadable ==
    /\ documents \subseteq bytes
    /\ \A c \in Chunks : manifest[c] = "visible" => c \in bytes
    /\ \A b \in Builds : held[b] => \A c \in ChunksOf(b) : manifest[c] \in {"none", "visible"}

\* The work of a hidden Build that complete_search settled after a rebuild had
\* cleared its deletion: the one way in which settled work is not in the projection.
OvertakenByRebuild(p) ==
    /\ rebuilds > 0
    /\ ~logsVisible[work[p].build]
    /\ work[p].state = "completed" /\ applied[p] = None

\* Obsolete work of a hidden Build is acknowledged: index work is a dead letter only
\* when calls of the object store or the projection failed.
DeadLetterIsFailure ==
    \A p \in DOMAIN work : work[p].state = "dead_letter" => faults >= MaxAttempts

\* Retention gives a Build up only after its retry budget: as many failed passes as
\* the policy allows attempts.
DeadLetterAfterRetries ==
    \A b \in Builds : phase[b] = "dead_letter" => failures[b] >= MaxAttempts

\* Hidden logs are deleted in the end, unless the row became a dead letter.
HiddenLogsAreDeleted ==
    \A b \in Builds : ~logsVisible[b] ~> phase[b] \in {"bytes_deleted", "dead_letter"}

\* Again and again the projection has caught up with every committed position, unless
\* work before it is a dead letter or was overtaken by a rebuild.
ProjectionCatchesUp ==
    []<>(\/ indexedThrough = Len(work)
         \/ \E p \in DOMAIN work : work[p].state = "dead_letter" \/ OvertakenByRebuild(p))

\* backup-restore.md:125-128: after a rebuild search is behind "until workers finish
\* replay".
RebuildCatchesUp ==
    []<>(indexedThrough = Len(work) \/ \E p \in DOMAIN work : work[p].state = "dead_letter")
============================================================================
