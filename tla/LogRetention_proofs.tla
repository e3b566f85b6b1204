------------------------ MODULE LogRetention_proofs ------------------------
(***************************************************************************)
(* What is proved of archived logs and their search projection, for any    *)
(* number of Builds, chunks, workers, failures and rebuilds; and of the    *)
(* objects of their chunks (LogArchive).                                   *)
(***************************************************************************)
EXTENDS LogRetention, LogArchive, SequenceTheorems, WellFoundedInduction, TLAPS

----------------------------------------------------------------------------
(* The inductive invariant                                                 *)

\* Visibility is given up for a whole Build and for good. It is what retention starts
\* with, and no Build under a hold is hidden.
Visibility(b) ==
    /\ phase[b] = "pending" <=> logsVisible[b]
    /\ held[b] => logsVisible[b]
    /\ \A c \in ChunksOf(b) : manifest[c] \in {"hidden", "deleted"} => ~ logsVisible[b]
    /\ \A c \in ChunksOf(b) : manifest[c] = "visible" => logsVisible[b]
    /\ ~ logsVisible[b] => \E p \in DOMAIN work : work[p].build = b /\ work[p].operation = "delete_build"

\* Index work names a committed chunk of its Build, or is the deletion of a hidden one.
WorkIsReal(p) ==
    /\ work[p].chunk # None =>
          BuildOf[work[p].chunk] = work[p].build /\ manifest[work[p].chunk] # "none"
    /\ work[p].chunk = None => ~ logsVisible[work[p].build]
    /\ work[p].operation = "delete_build" => work[p].chunk = None

\* A tombstone is only for a hidden Build, keeps its documents out, and comes before
\* any of its bytes is deleted.
TombstoneInv(b) ==
    /\ tombstone[b] # 0 => ~ logsVisible[b] /\ documents \cap ChunksOf(b) = {}
    /\ tombstone[b] = 0 => \A c \in ChunksOf(b) : manifest[c] # "none" => c \in bytes
    /\ phase[b] = "search_deleted" => tombstone[b] # 0

\* What is recorded as applied has had its effect.
AppliedInv(p) ==
    /\ applied[p] \in {"delete", "superseded"} => tombstone[work[p].build] # 0
    /\ applied[p] = "document" =>
          work[p].chunk # None /\ (tombstone[work[p].build] = 0 => work[p].chunk \in documents)

\* An index worker deletes only what was hidden when it claimed, and is so for good.
IndexerInv(w) ==
    indexer[w] # None =>
        /\ indexer[w].kind = "delete" => ~ logsVisible[work[indexer[w].position].build]
        /\ indexer[w].kind = "document" => work[indexer[w].position].chunk # None

\* A retention worker deletes documents of a hidden Build and bytes of a Build with a
\* tombstone, whether it still has its claim or not.
CleanerInv(r) ==
    LET b == cleaner[r].build IN
    cleaner[r] # None =>
        /\ cleaner[r].step = "search" => ~ logsVisible[b]
        /\ cleaner[r].step \in {"complete_search", "delete", "complete_object"} => tombstone[b] # 0
        /\ \A c \in cleaner[r].objects : BuildOf[c] = b /\ tombstone[b] # 0

\* The watermark has no gap below it.
NoGap == \A p \in 1 .. indexedThrough : applied[p] # None

\* Only committed chunks have documents.
Documented == \A c \in documents : manifest[c] # "none"

\* What holds between the tables and the projection.
LogsKept ==
    /\ \A b \in Builds : Visibility(b) /\ TombstoneInv(b)
    /\ \A p \in 1 .. Len(work) : WorkIsReal(p) /\ AppliedInv(p)
    /\ NoGap /\ Documented

\* The inductive invariant.
LogsInv ==
    /\ TypeOK /\ LogsKept
    /\ \A w \in IndexWorkers : IndexerInv(w)
    /\ \A r \in RetentionWorkers : CleanerInv(r)

----------------------------------------------------------------------------
(* Numbers and tables                                                      *)

\* A set of numbers with a bound has a greatest one.
LEMMA BoundedMax ==
    ASSUME NEW n \in Nat, NEW S \in SUBSET (0 .. n), S # {}
    PROVE  Max(S) \in S /\ \A x \in S : Max(S) >= x
  <1> DEFINE T == {n - x : x \in S}
  <1>0. \A x \in S : x \in Nat /\ n - x \in Nat
    OBVIOUS
  <1>1. T \subseteq Nat /\ T # {}
    BY <1>0
  <1> HIDE DEF T
  <1> DEFINE R == OpToRel(<, Nat)
  <1>2. \A k, m \in Nat : k < m => <<k, m>> \in R
    BY DEF OpToRel
  <1>3. IsWellFoundedOn(R, Nat)
    BY NatLessThanWellFounded
  <1> HIDE DEF R
  <1>4. PICK i \in T : \A k \in T : ~ (<<k, i>> \in R)
    BY <1>1, <1>3, WFMin
  <1>5. PICK y \in S : i = n - y
    BY DEF T
  <1>6. \A x \in S : y >= x
    <2> TAKE x \in S
    <2>1. n - x \in T
      BY DEF T
    <2>2. n - x \in Nat /\ i \in Nat /\ ~ (n - x < i)
      BY <1>1, <1>2, <1>4, <2>1
    <2>3. x \in Nat /\ y \in Nat
      OBVIOUS
    <2> QED BY <1>5, <2>2, <2>3
  <1>7. \E m \in S : \A x \in S : m >= x
    BY <1>6
  <1> QED BY <1>7 DEF Max

\* A table of n rows is a sequence of length n.
LEMMA TableIsSequence ==
    ASSUME NEW S, NEW n \in Nat, NEW f \in [1 .. n -> S]
    PROVE  f \in Seq(S) /\ Len(f) = n
  OBVIOUS

\* The rows of the queue and of the applied work.
LEMMA Tables ==
    ASSUME TypeOK
    PROVE  /\ Len(work) \in Nat /\ DOMAIN work = 1 .. Len(work) /\ Len(applied) = Len(work)
           /\ DOMAIN applied = 1 .. Len(work)
           /\ \A p \in 1 .. Len(work) :
                 work[p] \in Rows /\ applied[p] \in {None, "document", "delete", "superseded"}
           /\ work \in [1 .. Len(work) -> Rows]
           /\ applied \in [1 .. Len(work) -> {None, "document", "delete", "superseded"}]
  <1>1. work \in Seq(Rows)
    BY DEF TypeOK
  <1> DEFINE A == {None, "document", "delete", "superseded"}
  <1>2. applied \in Seq(A) /\ Len(applied) = Len(work)
    BY DEF TypeOK
  <1> HIDE DEF A
  <1> QED BY <1>1, <1>2 DEF A

\* What a row says of itself for ever; the rest of a row is its progress.
SameKey(r, s) ==
    /\ r.build = s.build /\ r.chunk = s.chunk
    /\ r.operation = "delete_build" <=> s.operation = "delete_build"

\* A row is well formed, and claimed exactly while it has an owner.
RowOK(r) == r \in Rows /\ (r.state = "claimed" <=> r.owner \in IndexWorkers)

\* The queue moves on, with the same work in the same places.
WorkSettled ==
    /\ work' \in Seq(Rows) /\ Len(work') = Len(work)
    /\ \A p \in 1 .. Len(work) : SameKey(work[p], work'[p])
    /\ \A p \in DOMAIN work' : work'[p].state = "claimed" <=> work'[p].owner \in IndexWorkers

\* Any number of rows get new values.
LEMMA RowsUpdate ==
    ASSUME TypeOK, NEW f, DOMAIN f = 1 .. Len(work), f = [p \in DOMAIN f |-> f[p]],
           \A p \in 1 .. Len(work) : RowOK(f[p]) /\ SameKey(work[p], f[p]),
           work' = f
    PROVE  WorkSettled
  <1>1. Len(work) \in Nat
    BY Tables
  <1>2. f \in [1 .. Len(work) -> Rows]
    BY DEF RowOK
  <1>3. f \in Seq(Rows) /\ Len(f) = Len(work)
    BY <1>1, <1>2, TableIsSequence
  <1> QED BY <1>3 DEF WorkSettled, RowOK

\* One row gets a new value.
LEMMA RowUpdate ==
    ASSUME TypeOK, NEW p \in DOMAIN work, NEW v, RowOK(v), SameKey(work[p], v),
           work' = [work EXCEPT ![p] = v]
    PROVE  WorkSettled
  <1>1. PICK f : f = [work EXCEPT ![p] = v]
    OBVIOUS
  <1>2. DOMAIN f = 1 .. Len(work) /\ f = [q \in DOMAIN f |-> f[q]]
        /\ \A q \in 1 .. Len(work) : f[q] = IF q = p THEN v ELSE work[q]
    BY <1>1, Tables
  <1>3. \A q \in 1 .. Len(work) : RowOK(work[q]) /\ SameKey(work[q], work[q])
    BY Tables DEF RowOK, SameKey, TypeOK
  <1>4. \A q \in 1 .. Len(work) : RowOK(f[q]) /\ SameKey(work[q], f[q])
    BY <1>2, <1>3
  <1> QED BY <1>1, <1>2, <1>4, RowsUpdate

\* Nothing happens to the queue.
LEMMA WorkStays ==
    ASSUME TypeOK, UNCHANGED work
    PROVE  WorkSettled
  BY Tables DEF TypeOK, WorkSettled, SameKey

----------------------------------------------------------------------------
(* Steps that leave visibility and the projection alone                    *)

\* Progress of work and retention, holds on visible Builds, deletion of hidden chunks
\* of Builds that have a tombstone.
Soft ==
    /\ UNCHANGED <<logsVisible, indexVars>>
    /\ WorkSettled
    /\ \A c \in Chunks : \/ manifest'[c] = manifest[c]
                         \/ manifest[c] \in {"hidden", "deleted"} /\ manifest'[c] \in {"hidden", "deleted"}
    /\ \A c \in bytes : c \in bytes' \/ tombstone[BuildOf[c]] # 0
    /\ \A b \in Builds :
          /\ held'[b] => logsVisible[b]
          /\ phase'[b] = "pending" <=> phase[b] = "pending"
          /\ phase'[b] = "search_deleted" => tombstone[b] # 0

\* Such a step keeps what holds between the tables and the projection.
LEMMA SoftKeeps ==
    ASSUME TypeOK, LogsKept, Soft
    PROVE  LogsKept'
  <1>0. Len(work) \in Nat /\ DOMAIN work = 1 .. Len(work) /\ DOMAIN work' = 1 .. Len(work)
        /\ Len(work') = Len(work)
    <2>1. work' \in Seq(Rows) /\ Len(work') = Len(work)
      BY DEF Soft, WorkSettled
    <2> QED BY <2>1, Tables
  <1>1. ASSUME NEW b \in Builds
        PROVE  Visibility(b)'
    <2>1. \A c \in ChunksOf(b) : c \in Chunks
      BY DEF ChunksOf
    <2>2. logsVisible'[b] = logsVisible[b] /\ (phase'[b] = "pending" <=> logsVisible[b])
          /\ (held'[b] => logsVisible[b])
      BY DEF Soft, LogsKept, Visibility
    <2>3. \A c \in ChunksOf(b) :
            /\ manifest'[c] \in {"hidden", "deleted"} => ~ logsVisible[b]
            /\ manifest'[c] = "visible" => logsVisible[b]
      BY <2>1 DEF Soft, LogsKept, Visibility
    <2>4. ~ logsVisible[b] => \E p \in DOMAIN work' : work'[p].build = b /\ work'[p].operation = "delete_build"
      BY <1>0 DEF Soft, LogsKept, Visibility, WorkSettled, SameKey
    <2> QED BY <2>2, <2>3, <2>4 DEF Visibility, ChunksOf
  <1>2. ASSUME NEW b \in Builds
        PROVE  TombstoneInv(b)'
    <2>1. \A c \in ChunksOf(b) : c \in Chunks /\ BuildOf[c] = b
      BY DEF ChunksOf
    <2>2. logsVisible'[b] = logsVisible[b] /\ tombstone'[b] = tombstone[b] /\ documents' = documents
      BY DEF Soft, indexVars
    <2>3. tombstone[b] = 0 => \A c \in ChunksOf(b) : manifest'[c] # "none" => c \in bytes'
      BY <2>1 DEF Soft, LogsKept, TombstoneInv
    <2> QED BY <2>2, <2>3 DEF Soft, LogsKept, TombstoneInv, ChunksOf
  <1>3. ASSUME NEW p \in 1 .. Len(work)
        PROVE  WorkIsReal(p)' /\ AppliedInv(p)'
    <2>1. SameKey(work[p], work'[p]) /\ work[p].chunk \in Chunks \cup {None}
      BY Tables DEF Soft, WorkSettled, Rows
    <2>2. WorkIsReal(p)'
      <3>1. work[p].chunk # None => manifest'[work[p].chunk] # "none"
        BY <2>1 DEF Soft, LogsKept, WorkIsReal
      <3> QED BY <2>1, <3>1 DEF Soft, LogsKept, WorkIsReal, SameKey
    <2>3. AppliedInv(p)'
      BY <2>1 DEF Soft, LogsKept, AppliedInv, SameKey, indexVars
    <2> QED BY <2>2, <2>3
  <1>4. NoGap'
    BY DEF Soft, LogsKept, NoGap, indexVars
  <1>5. Documented'
    BY DEF Soft, LogsKept, Documented, indexVars, TypeOK
  <1> QED BY <1>0, <1>1, <1>2, <1>3, <1>4, <1>5 DEF LogsKept

\* What a pass relies on: work stays in its place, and a Build that is hidden or has a
\* tombstone stays so.
Onward ==
    /\ Len(work') \in Nat /\ Len(work) <= Len(work')
    /\ \A p \in 1 .. Len(work) : SameKey(work[p], work'[p])
    /\ \A b \in Builds : /\ ~ logsVisible[b] => ~ logsVisible'[b]
                         /\ tombstone[b] # 0 => tombstone'[b] # 0

\* It also keeps what passes rely on.
LEMMA SoftIsOnward ==
    ASSUME TypeOK, Soft
    PROVE  Onward
  BY Tables DEF Soft, WorkSettled, Onward, indexVars

\* The other workers lose nothing.
LEMMA PassesStay ==
    ASSUME TypeOK, Onward
    PROVE  /\ \A w \in IndexWorkers : IndexerInv(w) /\ indexer'[w] = indexer[w] => IndexerInv(w)'
           /\ \A r \in RetentionWorkers : CleanerInv(r) /\ cleaner'[r] = cleaner[r] => CleanerInv(r)'
  <1>1. ASSUME NEW w \in IndexWorkers, IndexerInv(w), indexer'[w] = indexer[w], indexer[w] # None
        PROVE  IndexerInv(w)'
    <2>1. PICK p : p = indexer[w].position
      OBVIOUS
    <2>2. p \in 1 .. Len(work)
      BY <1>1, <2>1, Tables DEF TypeOK, IndexPasses
    <2>3. work[p] \in Rows /\ SameKey(work[p], work'[p]) /\ work[p].build \in Builds
      BY <2>2, Tables DEF Onward, Rows
    <2> QED BY <1>1, <2>1, <2>3 DEF IndexerInv, SameKey, Onward
  <1>2. ASSUME NEW r \in RetentionWorkers, CleanerInv(r), cleaner'[r] = cleaner[r], cleaner[r] # None
        PROVE  CleanerInv(r)'
    <2>1. cleaner[r].build \in Builds
      BY <1>2 DEF TypeOK, RetentionPasses
    <2> QED BY <1>2, <2>1 DEF CleanerInv, Onward
  <1> QED BY <1>1, <1>2 DEF IndexerInv, CleanerInv

----------------------------------------------------------------------------
(* Calls of the projection                                                 *)

\* What log_search_applied_work says of a position, None when it has no row.
Marks == {None, "document", "delete", "superseded"}

\* The types of the projection.
IndexTyped ==
    /\ documents \subseteq Chunks
    /\ applied \in Seq(Marks) /\ Len(applied) = Len(work)
    /\ tombstone \in [Builds -> 0 .. Len(work)]
    /\ indexedThrough \in 0 .. Len(work)

\* They are part of the type invariant.
LEMMA IndexTypes == TypeOK => IndexTyped
  BY DEF TypeOK, IndexTyped, Marks

\* advance_freshness never passes a gap, however much was recorded at once.
LEMMA FreshnessHasNoGap ==
    ASSUME TypeOK, NoGap, NEW records, Len(records) = Len(work),
           \A q \in 1 .. Len(work) : applied[q] # None => records[q] # None
    PROVE  /\ Freshness(records) \in 0 .. Len(work)
           /\ \A q \in 1 .. Freshness(records) : records[q] # None
  <1>1. PICK n, i : n = Len(work) /\ i = indexedThrough
    OBVIOUS
  <1>2. n \in Nat /\ i \in 0 .. n
    BY <1>1, Tables DEF TypeOK
  <1> DEFINE S == {k \in i .. n : \A q \in i + 1 .. k : records[q] # None}
  <1>3. S \in SUBSET (0 .. n) /\ i \in S
    BY <1>2
  <1>4. Freshness(records) = Max(S)
    BY <1>1 DEF Freshness
  <1>5. Max(S) \in S
    BY <1>2, <1>3, BoundedMax
  <1>6. PICK m : m = Max(S)
    OBVIOUS
  <1>7. m \in 0 .. n /\ \A q \in i + 1 .. m : records[q] # None
    <2>1. \A k \in S : k \in i .. n /\ \A q \in i + 1 .. k : records[q] # None
      OBVIOUS
    <2> HIDE DEF S
    <2>2. m \in i .. n /\ \A q \in i + 1 .. m : records[q] # None
      BY <1>5, <1>6, <2>1
    <2> QED BY <1>2, <2>2
  <1>8. \A q \in 1 .. i : records[q] # None
    BY <1>1, <1>2 DEF NoGap
  <1>9. \A q \in 1 .. m : records[q] # None
    BY <1>2, <1>7, <1>8
  <1> HIDE DEF S
  <1> QED BY <1>1, <1>4, <1>6, <1>7, <1>9

\* The projection is called for work that is not recorded yet, and marks f.
LEMMA MarksTyped ==
    ASSUME TypeOK, NEW f \in [1 .. Len(work) -> Marks]
    PROVE  f \in Seq(Marks) /\ Len(f) = Len(work)
  BY Tables, TableIsSequence

\* A document is added for a chunk of a Build without tombstone; it can be read.
LEMMA DocumentKeeps ==
    ASSUME TypeOK, LogsKept, NEW p \in 1 .. Len(work), work[p].chunk # None,
           IndexDocument(p), UNCHANGED <<storeVars, retainVars>>
    PROVE  IndexTyped' /\ LogsKept' /\ Onward
  <1>0. CASE Recorded(p, "document") # "fresh"
    <2>1. UNCHANGED <<indexVars, storeVars, retainVars>>
      BY <1>0 DEF IndexDocument
    <2>2. IndexTyped'
      BY <2>1, IndexTypes DEF IndexTyped, indexVars, storeVars
    <2>3. Soft
      <3>1. WorkSettled
        BY <2>1, WorkStays DEF storeVars
      <3> QED BY <2>1, <3>1 DEF Soft, LogsKept, Visibility, TombstoneInv, storeVars, retainVars
    <2> QED BY <2>2, <2>3, SoftKeeps, SoftIsOnward
  <1> SUFFICES ASSUME Recorded(p, "document") = "fresh"
               PROVE  IndexTyped' /\ LogsKept' /\ Onward
    BY <1>0
  <1>1. applied[p] = None
    BY DEF Recorded
  <1>2. PICK b, c, f : b = work[p].build /\ c = work[p].chunk /\ f = [applied EXCEPT ![p] = "document"]
    OBVIOUS
  <1>3. /\ documents' = IF tombstone[b] # 0 THEN documents ELSE documents \cup {c}
        /\ applied' = f /\ indexedThrough' = Freshness(f) /\ UNCHANGED tombstone
    BY <1>2 DEF IndexDocument
  <1>4. b \in Builds /\ c \in Chunks /\ BuildOf[c] = b /\ manifest[c] # "none" /\ c # None
    BY <1>2, Tables DEF Rows, LogsKept, WorkIsReal
  <1>5. /\ f \in Seq(Marks) /\ Len(f) = Len(work)
        /\ \A q \in 1 .. Len(work) : f[q] = IF q = p THEN "document" ELSE applied[q]
    <2>1. f \in [1 .. Len(work) -> Marks]
          /\ \A q \in 1 .. Len(work) : f[q] = IF q = p THEN "document" ELSE applied[q]
      BY <1>2, Tables DEF Marks
    <2> QED BY <2>1, MarksTyped
  <1>6. Freshness(f) \in 0 .. Len(work) /\ \A q \in 1 .. Freshness(f) : f[q] # None
    <2>1. \A q \in 1 .. Len(work) : applied[q] # None => f[q] # None
      BY <1>1, <1>5
    <2> QED BY <1>5, <2>1, FreshnessHasNoGap DEF LogsKept
  <1>7. IndexTyped'
    BY <1>3, <1>4, <1>5, <1>6, IndexTypes DEF IndexTyped, storeVars
  <1>8. ASSUME NEW a \in Builds
        PROVE  Visibility(a)' /\ TombstoneInv(a)'
    <2>1. Visibility(a)'
      BY DEF LogsKept, Visibility, storeVars, retainVars, ChunksOf
    <2>2. tombstone'[a] # 0 => ~ logsVisible'[a] /\ documents' \cap ChunksOf(a) = {}
      BY <1>3, <1>4 DEF LogsKept, TombstoneInv, ChunksOf, storeVars
    <2>3. TombstoneInv(a)'
      BY <1>3, <2>2 DEF LogsKept, TombstoneInv, ChunksOf, storeVars, retainVars
    <2> QED BY <2>1, <2>3
  <1>9. ASSUME NEW q \in 1 .. Len(work)
        PROVE  WorkIsReal(q)' /\ AppliedInv(q)'
    <2>1. WorkIsReal(q)'
      BY DEF LogsKept, WorkIsReal, storeVars
    <2>2. CASE q = p
      <3>1. applied'[q] = "document"
        BY <1>3, <1>5, <2>2
      <3>2. work'[q].chunk = c /\ work'[q].build = b
        BY <1>2, <2>2 DEF storeVars
      <3> QED BY <1>3, <1>4, <2>1, <3>1, <3>2 DEF AppliedInv
    <2>3. CASE q # p
      <3>1. applied'[q] = applied[q] /\ work'[q] = work[q] /\ documents \subseteq documents'
        BY <1>3, <1>5, <2>3 DEF storeVars
      <3> QED BY <1>3, <2>1, <3>1 DEF LogsKept, AppliedInv
    <2> QED BY <2>2, <2>3
  <1>10. NoGap'
    BY <1>3, <1>6 DEF NoGap
  <1>11. LogsKept'
    <2>1. Documented'
      BY <1>3, <1>4 DEF LogsKept, Documented, storeVars
    <2> QED BY <1>8, <1>9, <1>10, <2>1 DEF LogsKept, storeVars
  <1>12. Onward
    BY <1>3, Tables DEF Onward, SameKey, storeVars
  <1> QED BY <1>7, <1>11, <1>12

\* The documents of a hidden Build go, and its tombstone keeps earlier work from
\* bringing them back.
LEMMA DeletionKeeps ==
    ASSUME TypeOK, LogsKept, NEW p \in 1 .. Len(work), ~ logsVisible[work[p].build],
           DeleteDocuments(p), UNCHANGED <<storeVars, retainVars>>
    PROVE  /\ IndexTyped' /\ LogsKept' /\ Onward
           /\ work[p].operation = "delete_build" => tombstone'[work[p].build] # 0
  <1>0. CASE Recorded(p, "delete") # "fresh"
    <2>1. UNCHANGED <<indexVars, storeVars, retainVars>>
      BY <1>0 DEF DeleteDocuments
    <2>2. IndexTyped'
      BY <2>1, IndexTypes DEF IndexTyped, indexVars, storeVars
    <2>3. Soft
      <3>1. WorkSettled
        BY <2>1, WorkStays DEF storeVars
      <3> QED BY <2>1, <3>1 DEF Soft, LogsKept, Visibility, TombstoneInv, storeVars, retainVars
    <2>4. work[p].operation = "delete_build" => tombstone[work[p].build] # 0
      <3>1. applied[p] # None /\ applied[p] \in {None, "document", "delete", "superseded"}
        BY <1>0, Tables DEF Recorded
      <3> QED BY <3>1 DEF LogsKept, WorkIsReal, AppliedInv
    <2> QED BY <2>1, <2>2, <2>3, <2>4, SoftKeeps, SoftIsOnward DEF indexVars
  <1> SUFFICES ASSUME Recorded(p, "delete") = "fresh"
               PROVE  IndexTyped' /\ LogsKept' /\ Onward /\ tombstone'[work[p].build] # 0
    BY <1>0
  <1>1. applied[p] = None
    BY DEF Recorded
  <1>2. PICK b, f, m :
           /\ b = work[p].build /\ m = Max({tombstone[b], p})
           /\ f = [q \in DOMAIN applied |->
                      IF q = p THEN "delete"
                      ELSE IF q < p /\ work[q].build = b /\ applied[q] = None
                           THEN "superseded" ELSE applied[q]]
    OBVIOUS
  <1>3. /\ documents' = documents \ ChunksOf(b)
        /\ tombstone' = [tombstone EXCEPT ![b] = m]
        /\ applied' = f /\ indexedThrough' = Freshness(f)
    BY <1>2 DEF DeleteDocuments
  <1>4. b \in Builds /\ ~ logsVisible[b]
    BY <1>2, Tables DEF Rows
  <1>5. m \in 1 .. Len(work)
    <2>1. PICK n, t : n = Len(work) /\ t = tombstone[b]
      OBVIOUS
    <2>2. n \in Nat /\ t \in 0 .. n /\ p \in 1 .. n
      BY <1>4, <2>1, Tables DEF TypeOK
    <2>3. {t, p} \in SUBSET (0 .. n) /\ {t, p} # {}
      BY <2>2
    <2>4. m \in {t, p} /\ m >= p
      BY <1>2, <2>1, <2>2, <2>3, BoundedMax
    <2> QED BY <2>1, <2>2, <2>4
  <1>6. /\ f \in Seq(Marks) /\ Len(f) = Len(work)
        /\ \A q \in 1 .. Len(work) :
              \/ f[q] = applied[q]
              \/ work[q].build = b /\ f[q] \in {"delete", "superseded"}
    <2>1. f \in [1 .. Len(work) -> Marks]
      BY <1>2, Tables DEF Marks
    <2>2. \A q \in 1 .. Len(work) :
              \/ f[q] = applied[q]
              \/ work[q].build = b /\ f[q] \in {"delete", "superseded"}
      BY <1>2, Tables
    <2> QED BY <2>1, <2>2, MarksTyped
  <1>7. Freshness(f) \in 0 .. Len(work) /\ \A q \in 1 .. Freshness(f) : f[q] # None
    <2>1. \A q \in 1 .. Len(work) : applied[q] # None => f[q] # None
      BY <1>1, <1>2, Tables
    <2> QED BY <1>6, <2>1, FreshnessHasNoGap DEF LogsKept
  <1>8. /\ tombstone' \in [Builds -> 0 .. Len(work)]
        /\ \A a \in Builds : tombstone'[a] = IF a = b THEN m ELSE tombstone[a]
        /\ m # 0
    BY <1>3, <1>4, <1>5 DEF TypeOK
  <1>9. IndexTyped'
    BY <1>3, <1>6, <1>7, <1>8, IndexTypes DEF IndexTyped, storeVars
  <1>10. ASSUME NEW a \in Builds
         PROVE  Visibility(a)' /\ TombstoneInv(a)'
    <2>1. Visibility(a)'
      BY DEF LogsKept, Visibility, storeVars, retainVars, ChunksOf
    <2>2. CASE a = b
      <3>1. documents' \cap ChunksOf(a) = {}
        BY <1>3, <2>2
      <3> QED BY <1>4, <1>8, <2>1, <2>2, <3>1 DEF TombstoneInv, ChunksOf, storeVars
    <2>3. CASE a # b
      <3>1. documents' \subseteq documents /\ tombstone'[a] = tombstone[a]
        BY <1>3, <1>8, <2>3
      <3> QED BY <2>1, <3>1 DEF LogsKept, TombstoneInv, ChunksOf, storeVars, retainVars
    <2> QED BY <2>2, <2>3
  <1>11. ASSUME NEW q \in 1 .. Len(work)
         PROVE  WorkIsReal(q)' /\ AppliedInv(q)'
    <2>1. WorkIsReal(q)' /\ work' = work
      BY DEF LogsKept, WorkIsReal, storeVars
    <2>2. work[q].build \in Builds
      BY Tables DEF Rows
    <2>3. CASE work[q].build = b
      <3>1. tombstone'[work[q].build] # 0
        BY <1>4, <1>8, <2>3
      <3>2. applied'[q] = "document" => work[q].chunk # None
        BY <1>3, <1>6 DEF LogsKept, AppliedInv
      <3> QED BY <2>1, <3>1, <3>2 DEF AppliedInv
    <2>4. CASE work[q].build # b
      <3>1. applied'[q] = applied[q] /\ tombstone'[work[q].build] = tombstone[work[q].build]
        BY <1>3, <1>6, <1>8, <2>2, <2>4
      <3>2. work[q].chunk # None => (work[q].chunk \in documents' <=> work[q].chunk \in documents)
        BY <1>3, <2>4 DEF LogsKept, WorkIsReal, ChunksOf
      <3> QED BY <2>1, <3>1, <3>2 DEF LogsKept, AppliedInv
    <2> QED BY <2>3, <2>4
  <1>12. NoGap'
    BY <1>3, <1>7 DEF NoGap
  <1>13. LogsKept'
    <2>1. Documented'
      BY <1>3 DEF LogsKept, Documented, storeVars
    <2> QED BY <1>10, <1>11, <1>12, <2>1 DEF LogsKept, storeVars
  <1>14. Onward
    BY <1>8, Tables DEF Onward, SameKey, storeVars
  <1> QED BY <1>2, <1>4, <1>8, <1>9, <1>13, <1>14

----------------------------------------------------------------------------
(* New work                                                                *)

\* A row is added to the queue, and nothing of it is applied.
Enqueues(row) ==
    /\ work' \in Seq(Rows) /\ Len(work') = Len(work) + 1
    /\ \A p \in 1 .. Len(work) : work'[p] = work[p]
    /\ work'[Len(work) + 1] = row
    /\ applied' \in Seq(Marks) /\ Len(applied') = Len(work) + 1
    /\ \A p \in 1 .. Len(work) : applied'[p] = applied[p]
    /\ applied'[Len(work) + 1] = None

\* A new row at the end of the queue is well formed and says what it is for.
LEMMA Enqueued ==
    ASSUME TypeOK, NEW b \in Builds, NEW c \in Chunks \cup {None},
           NEW operation \in {"index", "rebuild", "delete_build"},
           work' = Append(work, Row(b, c, operation)), applied' = Append(applied, None)
    PROVE  /\ Enqueues(Row(b, c, operation))
           /\ \A p \in DOMAIN work' : work'[p].state = "claimed" <=> work'[p].owner \in IndexWorkers
           /\ Row(b, c, operation).build = b /\ Row(b, c, operation).chunk = c
           /\ Row(b, c, operation).operation = operation
  <1>1. PICK row : row = Row(b, c, operation)
    OBVIOUS
  <1>2. /\ row \in Rows /\ row.build = b /\ row.chunk = c /\ row.operation = operation
        /\ row.state = "pending" /\ row.owner = None
    BY <1>1, LogRetentionAssumption DEF Row, Rows, WorkStates
  <1>3. work \in Seq(Rows) /\ applied \in Seq(Marks) /\ Len(applied) = Len(work) /\ Len(work) \in Nat
    BY Tables DEF TypeOK, Marks
  <1>4. /\ work' \in Seq(Rows) /\ Len(work') = Len(work) + 1
        /\ \A p \in 1 .. Len(work) : work'[p] = work[p]
        /\ work'[Len(work) + 1] = row
    BY <1>1, <1>2, <1>3, AppendProperties
  <1>5. /\ applied' \in Seq(Marks) /\ Len(applied') = Len(work) + 1
        /\ \A p \in 1 .. Len(work) : applied'[p] = applied[p]
        /\ applied'[Len(work) + 1] = None
    <2>1. None \in Marks
      BY DEF Marks
    <2> HIDE DEF Marks
    <2> QED BY <1>3, <2>1, AppendProperties
  <1>6. \A p \in DOMAIN work' : work'[p].state = "claimed" <=> work'[p].owner \in IndexWorkers
    <2>1. DOMAIN work' = 1 .. Len(work) + 1
      BY <1>4
    <2> SUFFICES ASSUME NEW p \in 1 .. Len(work) + 1
                 PROVE  work'[p].state = "claimed" <=> work'[p].owner \in IndexWorkers
      BY <2>1
    <2>2. CASE p \in 1 .. Len(work)
      BY <1>4, <2>2, Tables DEF TypeOK
    <2>3. CASE p = Len(work) + 1
      BY <1>2, <1>4, <2>3, LogRetentionAssumption
    <2> QED BY <1>3, <2>2, <2>3
  <1> QED BY <1>1, <1>2, <1>4, <1>5, <1>6 DEF Enqueues

\* Work that was there keeps what holds of it, and new work has no effect yet.
LEMMA EnqueuedIsUnapplied ==
    ASSUME TypeOK, LogsKept, NEW row, Enqueues(row), UNCHANGED <<documents, tombstone, indexedThrough>>
    PROVE  /\ \A p \in 1 .. Len(work') : AppliedInv(p)'
           /\ NoGap'
           /\ Len(work) \in Nat /\ DOMAIN work' = 1 .. Len(work) + 1
  <1>1. Len(work) \in Nat /\ DOMAIN work' = 1 .. Len(work) + 1 /\ Len(work') = Len(work) + 1
    <2>1. work' \in Seq(Rows) /\ Len(work') = Len(work) + 1
      BY DEF Enqueues
    <2> QED BY <2>1, Tables
  <1>2. ASSUME NEW p \in 1 .. Len(work) + 1
        PROVE  AppliedInv(p)'
    <2>1. CASE p \in 1 .. Len(work)
      BY <2>1 DEF Enqueues, LogsKept, AppliedInv
    <2>2. CASE p = Len(work) + 1
      <3>1. applied'[p] = None
        BY <2>2 DEF Enqueues
      <3> QED BY <3>1, LogRetentionAssumption DEF AppliedInv
    <2> QED BY <1>1, <2>1, <2>2
  <1>3. NoGap'
    <2>1. indexedThrough \in 0 .. Len(work)
      BY DEF TypeOK
    <2>2. \A p \in 1 .. indexedThrough : p \in 1 .. Len(work)
      BY <1>1, <2>1
    <2> QED BY <2>2 DEF LogsKept, NoGap, Enqueues
  <1> QED BY <1>1, <1>2, <1>3

\* A chunk is committed with its bytes, for a Build that is visible.
LEMMA CommitKeeps ==
    ASSUME TypeOK, LogsKept, NEW c \in Chunks, CommitChunk(c)
    PROVE  TypeOK' /\ LogsKept' /\ Onward
  <1>1. PICK b, row : b = BuildOf[c] /\ row = Row(b, c, "index")
    OBVIOUS
  <1>2. b \in Builds /\ c \in Chunks \cup {None} /\ c # None
    BY <1>1, LogRetentionAssumption
  <1>3. /\ manifest[c] = "none" /\ logsVisible[b]
        /\ manifest' = [manifest EXCEPT ![c] = "visible"] /\ bytes' = bytes \cup {c}
        /\ work' = Append(work, row) /\ applied' = Append(applied, None)
        /\ UNCHANGED <<logsVisible, held, retainVars, documents, tombstone, indexedThrough,
                       indexer, cleaner, boundVars>>
    BY <1>1 DEF CommitChunk
  <1>4. /\ Enqueues(row) /\ row.build = b /\ row.chunk = c /\ row.operation = "index"
        /\ \A p \in DOMAIN work' : work'[p].state = "claimed" <=> work'[p].owner \in IndexWorkers
    BY <1>1, <1>2, <1>3, Enqueued
  <1>5. /\ \A p \in 1 .. Len(work') : AppliedInv(p)'
        /\ NoGap' /\ Len(work) \in Nat /\ DOMAIN work' = 1 .. Len(work) + 1 /\ Len(work') = Len(work) + 1
    BY <1>3, <1>4, EnqueuedIsUnapplied DEF Enqueues
  <1>6. /\ manifest' \in [Chunks -> {"none", "visible", "hidden", "deleted"}]
        /\ \A d \in Chunks : manifest'[d] = IF d = c THEN "visible" ELSE manifest[d]
    BY <1>3 DEF TypeOK
  <1>7. TypeOK'
    <2>1. /\ tombstone' \in [Builds -> 0 .. Len(work')] /\ indexedThrough' \in 0 .. Len(work')
      BY <1>3, <1>5 DEF TypeOK
    <2>2. \A w \in IndexWorkers : indexer'[w] # None => indexer'[w].position <= Len(work')
      BY <1>3, <1>5 DEF TypeOK, IndexPasses
    <2>3. /\ work' \in Seq(Rows) /\ applied' \in Seq({None, "document", "delete", "superseded"})
          /\ Len(applied') = Len(work')
      BY <1>4 DEF Enqueues, Marks
    <2> QED BY <1>3, <1>4, <1>6, <2>1, <2>2, <2>3 DEF TypeOK, retainVars, boundVars
  <1>8. ASSUME NEW a \in Builds
        PROVE  Visibility(a)' /\ TombstoneInv(a)'
    <2>1. \A d \in ChunksOf(a) : d \in Chunks /\ BuildOf[d] = a
      BY DEF ChunksOf
    <2>2. \A d \in ChunksOf(a) :
            /\ manifest'[d] \in {"hidden", "deleted"} => ~ logsVisible[a]
            /\ manifest'[d] = "visible" => logsVisible[a]
      BY <1>1, <1>3, <1>6, <2>1 DEF LogsKept, Visibility
    <2>3. ~ logsVisible[a] => \E p \in DOMAIN work' : work'[p].build = a /\ work'[p].operation = "delete_build"
      <3>1. ~ logsVisible[a] => \E p \in 1 .. Len(work) : work[p].build = a /\ work[p].operation = "delete_build"
        BY Tables DEF LogsKept, Visibility
      <3>2. \A p \in 1 .. Len(work) : p \in DOMAIN work' /\ work'[p] = work[p]
        BY <1>4, <1>5 DEF Enqueues
      <3> QED BY <3>1, <3>2
    <2>4. Visibility(a)'
      BY <1>3, <2>2, <2>3 DEF LogsKept, Visibility, ChunksOf, retainVars
    <2>5. tombstone[a] = 0 => \A d \in ChunksOf(a) : manifest'[d] # "none" => d \in bytes'
      BY <1>3, <1>6, <2>1 DEF LogsKept, TombstoneInv
    <2> QED BY <1>3, <2>4, <2>5 DEF LogsKept, TombstoneInv, ChunksOf, retainVars
  <1>9. ASSUME NEW p \in 1 .. Len(work) + 1
        PROVE  WorkIsReal(p)'
    <2>1. CASE p \in 1 .. Len(work)
      <3>1. work'[p] = work[p] /\ work[p].chunk \in Chunks \cup {None}
        BY <1>4, <2>1, Tables DEF Enqueues, Rows
      <3>2. work[p].chunk # None => manifest'[work[p].chunk] # "none"
        BY <1>6, <2>1, <3>1 DEF LogsKept, WorkIsReal
      <3> QED BY <1>3, <2>1, <3>1, <3>2 DEF LogsKept, WorkIsReal
    <2>2. CASE p = Len(work) + 1
      <3>1. work'[p] = row
        BY <1>4, <2>2 DEF Enqueues
      <3> QED BY <1>1, <1>2, <1>4, <1>6, <3>1 DEF WorkIsReal
    <2> QED BY <1>5, <2>1, <2>2
  <1>10. Onward
    BY <1>3, <1>4, <1>5 DEF Onward, SameKey, Enqueues
  <1>11. Documented'
    BY <1>3, <1>6 DEF LogsKept, Documented, TypeOK
  <1> QED BY <1>5, <1>7, <1>8, <1>9, <1>10, <1>11 DEF LogsKept

\* The logs of a Build are hidden together with the queue entry that deletes them.
LEMMA HideKeeps ==
    ASSUME TypeOK, LogsKept, NEW b \in Builds, ~ held[b], phase[b] = "pending", HideLogs(b),
           UNCHANGED <<bytes, held, documents, tombstone, indexedThrough>>
    PROVE  /\ LogsKept' /\ Onward /\ ~ logsVisible'[b] /\ Len(work') = Len(work) + 1
           /\ logsVisible' \in [Builds -> BOOLEAN]
           /\ manifest' \in [Chunks -> {"none", "visible", "hidden", "deleted"}]
           /\ phase' \in [Builds -> {"pending", "hidden", "search_deleted", "bytes_deleted", "dead_letter"}]
           /\ work' \in Seq(Rows) /\ applied' \in Seq(Marks) /\ Len(applied') = Len(work')
           /\ \A p \in DOMAIN work' : work'[p].state = "claimed" <=> work'[p].owner \in IndexWorkers
  <1>1. PICK row : row = Row(b, None, "delete_build")
    OBVIOUS
  <1>2. work' = Append(work, row) /\ applied' = Append(applied, None)
    BY <1>1 DEF HideLogs
  <1>3. /\ Enqueues(row) /\ row.build = b /\ row.chunk = None /\ row.operation = "delete_build"
        /\ \A p \in DOMAIN work' : work'[p].state = "claimed" <=> work'[p].owner \in IndexWorkers
    BY <1>1, <1>2, Enqueued
  <1>4. /\ \A p \in 1 .. Len(work') : AppliedInv(p)'
        /\ NoGap' /\ Len(work) \in Nat /\ DOMAIN work' = 1 .. Len(work) + 1 /\ Len(work') = Len(work) + 1
    BY <1>3, EnqueuedIsUnapplied DEF Enqueues
  <1>5. /\ logsVisible' \in [Builds -> BOOLEAN] /\ ~ logsVisible'[b]
        /\ \A a \in Builds : a # b => logsVisible'[a] = logsVisible[a]
    BY DEF HideLogs, TypeOK
  <1>6. /\ phase' \in [Builds -> {"pending", "hidden", "search_deleted", "bytes_deleted", "dead_letter"}]
        /\ \A a \in Builds : phase'[a] = IF a = b THEN "hidden" ELSE phase[a]
    BY DEF HideLogs, TypeOK
  <1>7. /\ manifest' \in [Chunks -> {"none", "visible", "hidden", "deleted"}]
        /\ \A d \in Chunks : manifest'[d] = IF d \in ChunksOf(b) /\ manifest[d] = "visible"
                                            THEN "hidden" ELSE manifest[d]
    BY DEF HideLogs, TypeOK
  <1>8. ASSUME NEW a \in Builds
        PROVE  Visibility(a)' /\ TombstoneInv(a)'
    <2>1. \A d \in ChunksOf(a) : d \in Chunks /\ BuildOf[d] = a
      BY DEF ChunksOf
    <2>2. phase'[a] = "pending" <=> logsVisible'[a]
      BY <1>5, <1>6 DEF LogsKept, Visibility
    <2>3. held[a] => logsVisible'[a]
      BY <1>5 DEF LogsKept, Visibility
    <2>4. \A d \in ChunksOf(a) :
            /\ manifest'[d] \in {"hidden", "deleted"} => ~ logsVisible'[a]
            /\ manifest'[d] = "visible" => logsVisible'[a]
      <3>1. CASE a = b
        BY <1>5, <1>7, <2>1, <3>1
      <3>2. CASE a # b
        BY <1>5, <1>7, <2>1, <3>2 DEF LogsKept, Visibility, ChunksOf
      <3> QED BY <3>1, <3>2
    <2>5. ~ logsVisible'[a] => \E p \in DOMAIN work' : work'[p].build = a /\ work'[p].operation = "delete_build"
      <3>1. CASE a = b
        <4>1. Len(work) + 1 \in DOMAIN work' /\ work'[Len(work) + 1] = row
          BY <1>3, <1>4 DEF Enqueues
        <4> QED BY <1>3, <3>1, <4>1
      <3>2. CASE a # b
        <4>1. ~ logsVisible[a] => \E p \in 1 .. Len(work) : work[p].build = a /\ work[p].operation = "delete_build"
          BY Tables DEF LogsKept, Visibility
        <4>2. \A p \in 1 .. Len(work) : p \in DOMAIN work' /\ work'[p] = work[p]
          BY <1>3, <1>4 DEF Enqueues
        <4> QED BY <1>5, <3>2, <4>1, <4>2
      <3> QED BY <3>1, <3>2
    <2>6. Visibility(a)'
      BY <2>2, <2>3, <2>4, <2>5 DEF Visibility, ChunksOf
    <2>7. \A d \in ChunksOf(a) : manifest'[d] # "none" => manifest[d] # "none"
      BY <1>7, <2>1
    <2>8. tombstone[a] # 0 => ~ logsVisible'[a]
      BY <1>5 DEF LogsKept, TombstoneInv
    <2>9. phase'[a] = "search_deleted" => tombstone[a] # 0
      BY <1>6 DEF LogsKept, TombstoneInv
    <2> QED BY <2>6, <2>7, <2>8, <2>9 DEF LogsKept, TombstoneInv, ChunksOf
  <1>9. ASSUME NEW p \in 1 .. Len(work) + 1
        PROVE  WorkIsReal(p)'
    <2>1. CASE p \in 1 .. Len(work)
      <3>1. work'[p] = work[p] /\ work[p].chunk \in Chunks \cup {None} /\ work[p].build \in Builds
        BY <1>3, <2>1, Tables DEF Enqueues, Rows
      <3>2. work[p].chunk # None => manifest'[work[p].chunk] # "none"
        BY <1>7, <2>1, <3>1 DEF LogsKept, WorkIsReal
      <3>3. work[p].chunk = None => ~ logsVisible'[work[p].build]
        BY <1>5, <2>1, <3>1 DEF LogsKept, WorkIsReal
      <3> QED BY <2>1, <3>1, <3>2, <3>3 DEF LogsKept, WorkIsReal
    <2>2. CASE p = Len(work) + 1
      <3>1. work'[p] = row
        BY <1>3, <2>2 DEF Enqueues
      <3> QED BY <1>3, <1>5, <3>1 DEF WorkIsReal
    <2> QED BY <1>4, <2>1, <2>2
  <1>10. Onward
    BY <1>3, <1>4, <1>5 DEF Onward, SameKey, Enqueues
  <1>11. Documented'
    BY <1>7 DEF LogsKept, Documented, TypeOK
  <1> QED BY <1>3, <1>4, <1>5, <1>6, <1>7, <1>8, <1>9, <1>10, <1>11 DEF LogsKept, Enqueues

----------------------------------------------------------------------------
(* The rebuild                                                             *)

\* The projection starts again from nothing, with the tombstones of hidden Builds.
LEMMA RebuildKeeps ==
    ASSUME TypeOK, LogsKept, StartRebuild
    PROVE  TypeOK' /\ LogsKept' /\ Onward
  <1>1. /\ rebuilds' = rebuilds + 1 /\ MayDisturb /\ documents' = {} /\ indexedThrough' = 0
        /\ UNCHANGED <<manifest, bytes, logsVisible, held, retainVars, indexer, cleaner, faults>>
    BY DEF StartRebuild
  <1>2. /\ Len(work) \in Nat /\ DOMAIN work = 1 .. Len(work) /\ DOMAIN applied = 1 .. Len(work)
        /\ \A p \in 1 .. Len(work) : work[p] \in Rows
    BY Tables
  <1>3. WorkSettled
    <2>1. PICK f : f = [p \in DOMAIN work |->
                          [work[p] EXCEPT !.state = "pending", !.owner = None, !.attempt = 0,
                                          !.operation = IF @ = "index" THEN "rebuild" ELSE @]]
      OBVIOUS
    <2>2. work' = f /\ DOMAIN f = 1 .. Len(work) /\ f = [p \in DOMAIN f |-> f[p]]
      BY <1>2, <2>1 DEF StartRebuild
    <2>3. ASSUME NEW p \in 1 .. Len(work)
          PROVE  RowOK(f[p]) /\ SameKey(work[p], f[p])
      <3>1. f[p] = [work[p] EXCEPT !.state = "pending", !.owner = None, !.attempt = 0,
                                   !.operation = IF work[p].operation = "index" THEN "rebuild"
                                                 ELSE work[p].operation]
        BY <1>2, <2>1 DEF Rows
      <3>2. work[p] \in Rows /\ 0 \in 0 .. MaxAttempts /\ None \notin IndexWorkers
        BY <1>2, LogRetentionAssumption
      <3> QED BY <3>1, <3>2 DEF RowOK, SameKey, Rows, WorkStates
    <2> QED BY <2>2, <2>3, RowsUpdate
  <1>4. /\ work' \in Seq(Rows) /\ Len(work') = Len(work) /\ DOMAIN work' = 1 .. Len(work)
        /\ \A p \in 1 .. Len(work) : SameKey(work[p], work'[p])
    <2>1. work' \in Seq(Rows) /\ Len(work') = Len(work)
      BY <1>3 DEF WorkSettled
    <2> QED BY <1>2, <1>3, <2>1 DEF WorkSettled
  <1>5. /\ applied' \in Seq(Marks) /\ Len(applied') = Len(work)
        /\ \A p \in 1 .. Len(work) : applied'[p] = None
    <2>1. PICK f : f = [p \in DOMAIN applied |-> None] /\ applied' = f
      BY DEF StartRebuild
    <2>2. f \in [1 .. Len(work) -> Marks] /\ \A p \in 1 .. Len(work) : f[p] = None
      BY <1>2, <2>1 DEF Marks
    <2> QED BY <2>1, <2>2, MarksTyped
  <1>6. /\ tombstone' \in [Builds -> 0 .. Len(work)]
        /\ \A b \in Builds : (tombstone[b] # 0 => tombstone'[b] # 0)
                             /\ (tombstone'[b] # 0 => ~ logsVisible[b])
    <2> DEFINE Deletions(b) == {p \in DOMAIN work : work[p].build = b /\ work[p].operation = "delete_build"}
               S(b) == {tombstone[b]} \cup Deletions(b)
    <2>1. tombstone' = [b \in Builds |-> Max(S(b))]
      BY DEF StartRebuild
    <2>2. ASSUME NEW b \in Builds
          PROVE  /\ Max(S(b)) \in 0 .. Len(work)
                 /\ tombstone[b] # 0 => Max(S(b)) # 0
                 /\ Max(S(b)) # 0 => ~ logsVisible[b]
      <3>1. tombstone[b] \in 0 .. Len(work)
        BY DEF TypeOK
      <3>2. S(b) \in SUBSET (0 .. Len(work)) /\ S(b) # {} /\ tombstone[b] \in S(b)
        BY <1>2, <3>1
      <3>3. Max(S(b)) \in S(b) /\ \A x \in S(b) : Max(S(b)) >= x
        BY <1>2, <3>2, BoundedMax
      <3>4. \A p \in Deletions(b) : ~ logsVisible[b]
        BY <1>2 DEF LogsKept, WorkIsReal
      <3>5. tombstone[b] # 0 => ~ logsVisible[b]
        BY DEF LogsKept, TombstoneInv
      <3>6. Max(S(b)) = tombstone[b] \/ Max(S(b)) \in Deletions(b)
        BY <3>3
      <3>7. Max(S(b)) \in 0 .. Len(work) /\ Max(S(b)) >= tombstone[b]
        BY <3>2, <3>3
      <3> HIDE DEF S, Deletions
      <3>8. tombstone[b] # 0 => Max(S(b)) # 0
        BY <1>2, <3>1, <3>7
      <3> QED BY <3>4, <3>5, <3>6, <3>7, <3>8
    <2> HIDE DEF S
    <2> QED BY <2>1, <2>2
  <1>7. TypeOK'
    <2>1. faults \in Nat /\ rebuilds' \in Nat /\ faults + rebuilds' <= MaxDisturbances
      BY <1>1, LogRetentionAssumption DEF TypeOK, MayDisturb
    <2>2. indexedThrough' \in 0 .. Len(work') /\ tombstone' \in [Builds -> 0 .. Len(work')]
      BY <1>1, <1>2, <1>4, <1>6
    <2>3. /\ applied' \in Seq({None, "document", "delete", "superseded"}) /\ Len(applied') = Len(work')
          /\ \A p \in DOMAIN work' : work'[p].state = "claimed" <=> work'[p].owner \in IndexWorkers
      BY <1>3, <1>4, <1>5 DEF Marks, WorkSettled
    <2> QED BY <1>1, <1>4, <2>1, <2>2, <2>3 DEF TypeOK, retainVars
  <1>8. ASSUME NEW b \in Builds
        PROVE  Visibility(b)' /\ TombstoneInv(b)'
    <2>1. ~ logsVisible[b] => \E p \in DOMAIN work' : work'[p].build = b /\ work'[p].operation = "delete_build"
      BY <1>2, <1>4 DEF LogsKept, Visibility, SameKey
    <2>2. Visibility(b)'
      BY <1>1, <2>1 DEF LogsKept, Visibility, ChunksOf, retainVars
    <2>3. phase'[b] = "search_deleted" => tombstone'[b] # 0
      BY <1>1, <1>6 DEF LogsKept, TombstoneInv, retainVars
    <2>4. tombstone'[b] = 0 => \A c \in ChunksOf(b) : manifest[c] # "none" => c \in bytes
      BY <1>6 DEF LogsKept, TombstoneInv
    <2> QED BY <1>1, <1>6, <2>2, <2>3, <2>4 DEF TombstoneInv, ChunksOf
  <1>9. ASSUME NEW p \in 1 .. Len(work)
        PROVE  WorkIsReal(p)' /\ AppliedInv(p)'
    <2>1. WorkIsReal(p)'
      BY <1>1, <1>4 DEF LogsKept, WorkIsReal, SameKey
    <2>2. AppliedInv(p)'
      BY <1>5, LogRetentionAssumption DEF AppliedInv
    <2> QED BY <2>1, <2>2
  <1>10. NoGap'
    BY <1>1 DEF NoGap
  <1>11. Onward
    BY <1>1, <1>2, <1>4, <1>6 DEF Onward
  <1>12. Documented'
    BY <1>1 DEF Documented
  <1> QED BY <1>4, <1>7, <1>8, <1>9, <1>10, <1>11, <1>12 DEF LogsKept

----------------------------------------------------------------------------
(* Steps of the workers                                                    *)

\* What every step achieves; the passes that it leaves alone take care of themselves.
Good ==
    /\ TypeOK' /\ LogsKept' /\ Onward
    /\ \A w \in IndexWorkers : indexer'[w] = indexer[w] \/ IndexerInv(w)'
    /\ \A r \in RetentionWorkers : cleaner'[r] = cleaner[r] \/ CleanerInv(r)'

\* A good step keeps the inductive invariant.
LEMMA GoodKeeps ==
    ASSUME LogsInv, Good
    PROVE  LogsInv'
  BY PassesStay DEF LogsInv, Good

\* A step counts at most one disturbance, and only within the bound.
MayCount == faults' = faults \/ (MayDisturb /\ faults' = faults + 1)

\* The count of disturbances stays within its bound.
LEMMA Counting ==
    ASSUME TypeOK, MayCount, UNCHANGED rebuilds
    PROVE  faults' \in Nat /\ faults <= faults' /\ faults' + rebuilds <= MaxDisturbances
  BY LogRetentionAssumption DEF TypeOK, MayCount, MayDisturb

\* The attempt counter stays within its bound.
LEMMA CountedTyped ==
    ASSUME NEW n \in 0 .. MaxAttempts
    PROVE  Counted(n) \in 0 .. MaxAttempts
  BY LogRetentionAssumption DEF Counted

\* An index worker moves on, with or without the row it has claimed.
LEMMA IndexerMoves ==
    ASSUME LogsInv, NEW w \in IndexWorkers, NEW v, WorkSettled, MayCount,
           indexer' = [indexer EXCEPT ![w] = v],
           v = None \/ (/\ v \in IndexPasses /\ v.position <= Len(work)
                        /\ v.kind = "delete" => ~ logsVisible[work[v.position].build]
                        /\ v.kind = "document" => work[v.position].chunk # None),
           UNCHANGED <<manifest, bytes, logsVisible, held, retainVars, indexVars, cleaner, rebuilds>>
    PROVE  Good
  <1>0. TypeOK /\ LogsKept
    BY DEF LogsInv
  <1>1. Soft
    BY <1>0 DEF Soft, LogsKept, Visibility, TombstoneInv, retainVars
  <1>2. /\ indexer' \in [IndexWorkers -> IndexPasses \cup {None}] /\ indexer'[w] = v
        /\ \A x \in IndexWorkers : x # w => indexer'[x] = indexer[x]
    BY <1>0 DEF TypeOK
  <1>3. \A x \in IndexWorkers : indexer'[x] # None => indexer'[x].position <= Len(work)
    BY <1>0, <1>2 DEF TypeOK
  <1>4. /\ faults' \in Nat /\ faults' + rebuilds <= MaxDisturbances
        /\ \A b \in Builds : failures[b] <= faults'
    BY <1>0, Counting, LogRetentionAssumption DEF TypeOK
  <1>5. TypeOK'
    BY <1>0, <1>2, <1>3, <1>4 DEF TypeOK, WorkSettled, retainVars, indexVars
  <1>6. IndexerInv(w)'
    <2> SUFFICES ASSUME v # None PROVE IndexerInv(w)'
      BY <1>2 DEF IndexerInv
    <2>1. PICK p : p = v.position
      OBVIOUS
    <2>2. p \in 1 .. Len(work)
      BY <1>0, <2>1, Tables DEF IndexPasses
    <2>3. SameKey(work[p], work'[p])
      BY <2>2 DEF WorkSettled
    <2> QED BY <1>2, <2>1, <2>3 DEF IndexerInv, SameKey
  <1>7. \A x \in IndexWorkers : indexer'[x] = indexer[x] \/ IndexerInv(x)'
    BY <1>2, <1>6
  <1> QED BY <1>0, <1>1, <1>5, <1>7, SoftKeeps, SoftIsOnward DEF Good

\* A retention worker moves on, and with it the progress of its Build.
LEMMA CleanerMoves ==
    ASSUME LogsInv, NEW r \in RetentionWorkers, NEW v, Soft, MayCount,
           cleaner' = [cleaner EXCEPT ![r] = v],
           v = None \/ (/\ v \in RetentionPasses
                        /\ v.step = "search" => ~ logsVisible[v.build]
                        /\ v.step \in {"complete_search", "delete", "complete_object"} => tombstone[v.build] # 0
                        /\ \A c \in v.objects : BuildOf[c] = v.build /\ tombstone[v.build] # 0),
           manifest' \in [Chunks -> {"none", "visible", "hidden", "deleted"}], bytes' \subseteq bytes,
           phase' \in [Builds -> {"pending", "hidden", "search_deleted", "bytes_deleted", "dead_letter"}],
           claimOwner' \in [Builds -> RetentionWorkers \cup {None}],
           attempt' \in [Builds -> 0 .. MaxAttempts],
           failures' \in [Builds -> 0 .. MaxDisturbances], \A b \in Builds : failures'[b] <= faults',
           UNCHANGED <<held, indexer, rebuilds>>
    PROVE  Good
  <1>0. TypeOK /\ LogsKept
    BY DEF LogsInv
  <1>1. /\ cleaner' \in [RetentionWorkers -> RetentionPasses \cup {None}] /\ cleaner'[r] = v
        /\ \A x \in RetentionWorkers : x # r => cleaner'[x] = cleaner[x]
    BY <1>0 DEF TypeOK
  <1>2. faults' \in Nat /\ faults' + rebuilds <= MaxDisturbances
    BY <1>0, Counting
  <1>3. UNCHANGED <<logsVisible, indexVars>> /\ WorkSettled
    BY DEF Soft
  <1>4. TypeOK'
    BY <1>0, <1>1, <1>2, <1>3 DEF TypeOK, WorkSettled, indexVars
  <1>5. CleanerInv(r)'
    BY <1>1, <1>3 DEF CleanerInv, indexVars
  <1>6. \A x \in RetentionWorkers : cleaner'[x] = cleaner[x] \/ CleanerInv(x)'
    BY <1>1, <1>5
  <1> QED BY <1>0, <1>4, <1>6, SoftKeeps, SoftIsOnward DEF Good

\* Nothing of a row changes but its progress, and a claim is a worker's name.
LEMMA ProgressOfRow ==
    ASSUME TypeOK, NEW p \in DOMAIN work, NEW state \in WorkStates, NEW by \in IndexWorkers \cup {None},
           NEW n \in 0 .. MaxAttempts, state = "claimed" <=> by \in IndexWorkers
    PROVE  LET v == [work[p] EXCEPT !.state = state, !.owner = by, !.attempt = n]
           IN  RowOK(v) /\ SameKey(work[p], v)
  <1>1. work[p] \in Rows
    BY Tables
  <1> QED BY <1>1 DEF RowOK, SameKey, Rows

\* Work of a chunk that is not visible belongs to a hidden Build.
LEMMA HiddenWork ==
    ASSUME TypeOK, LogsKept, NEW p \in DOMAIN work,
           ~ (work[p].chunk # None /\ manifest[work[p].chunk] = "visible")
    PROVE  ~ logsVisible[work[p].build]
  <1>1. work[p] \in Rows /\ WorkIsReal(p)
    BY Tables DEF LogsKept
  <1>2. work[p].build \in Builds /\ Visibility(work[p].build)
    BY <1>1 DEF Rows, LogsKept
  <1>3. CASE work[p].chunk = None
    BY <1>1, <1>3 DEF WorkIsReal
  <1>4. CASE work[p].chunk # None
    <2>1. work[p].chunk \in Chunks /\ BuildOf[work[p].chunk] = work[p].build
      BY <1>1, <1>4 DEF Rows, WorkIsReal
    <2>2. manifest[work[p].chunk] \in {"hidden", "deleted"}
      BY <1>1, <1>4, <2>1 DEF TypeOK, WorkIsReal
    <2> QED BY <1>2, <2>1, <2>2 DEF Visibility, ChunksOf
  <1> QED BY <1>3, <1>4

\* A claim decides what is to be done with the work.
LEMMA ClaimIndexWorkKeeps ==
    ASSUME LogsInv, NEW w \in IndexWorkers, ClaimIndexWork(w)
    PROVE  Good
  <1>0. TypeOK /\ LogsKept
    BY DEF LogsInv
  <1>1. PICK p \in DOMAIN work :
          /\ work' = [work EXCEPT ![p].state = "claimed", ![p].owner = w, ![p].attempt = Counted(@)]
          /\ indexer' = [indexer EXCEPT ![w] =
                [position |-> p, attempt |-> Counted(work[p].attempt),
                 kind |-> IF work[p].chunk # None /\ manifest[work[p].chunk] = "visible"
                          THEN "document" ELSE "delete",
                 step |-> IF work[p].chunk # None /\ manifest[work[p].chunk] = "visible"
                          THEN "read" ELSE "apply"]]
    BY DEF ClaimIndexWork
  <1>2. /\ p \in 1 .. Len(work) /\ Len(work) \in Nat /\ work[p] \in Rows
        /\ Counted(work[p].attempt) \in 0 .. MaxAttempts
    <2>1. p \in 1 .. Len(work) /\ Len(work) \in Nat /\ work[p] \in Rows
      BY <1>0, Tables
    <2> QED BY <2>1, CountedTyped DEF Rows
  <1>3. WorkSettled
    <2>1. PICK v : v = [work[p] EXCEPT !.state = "claimed", !.owner = w, !.attempt = Counted(work[p].attempt)]
      OBVIOUS
    <2>2. RowOK(v) /\ SameKey(work[p], v)
      BY <1>0, <1>2, <2>1, ProgressOfRow DEF WorkStates
    <2>3. work' = [work EXCEPT ![p] = v]
      BY <1>1, <1>2, <2>1 DEF Rows
    <2> QED BY <1>0, <2>2, <2>3, RowUpdate
  <1>4. PICK v : v = [position |-> p, attempt |-> Counted(work[p].attempt),
                 kind |-> IF work[p].chunk # None /\ manifest[work[p].chunk] = "visible"
                          THEN "document" ELSE "delete",
                 step |-> IF work[p].chunk # None /\ manifest[work[p].chunk] = "visible"
                          THEN "read" ELSE "apply"]
    OBVIOUS
  <1>5. v \in IndexPasses /\ v.position = p /\ v.position <= Len(work)
    BY <1>2, <1>4 DEF IndexPasses
  <1>6. /\ v.kind = "delete" => ~ logsVisible[work[v.position].build]
        /\ v.kind = "document" => work[v.position].chunk # None
    BY <1>0, <1>4, HiddenWork
  <1>7. MayCount /\ UNCHANGED rebuilds
    BY DEF ClaimIndexWork, boundVars, MayCount
  <1>8. UNCHANGED <<manifest, bytes, logsVisible, held, retainVars, indexVars, cleaner>>
    BY DEF ClaimIndexWork
  <1> QED BY <1>1, <1>3, <1>4, <1>5, <1>6, <1>7, <1>8, IndexerMoves

\* A step of a pass keeps what the pass is about.
LEMMA IndexerSteps ==
    ASSUME LogsInv, NEW w \in IndexWorkers, indexer[w] # None, MayCount,
           NEW s \in {"read", "apply", "applied", "unavailable", "conflict"},
           indexer' = [indexer EXCEPT ![w].step = s],
           UNCHANGED <<storeVars, retainVars, indexVars, cleaner, rebuilds>>
    PROVE  Good
  <1>0. TypeOK /\ LogsKept /\ IndexerInv(w)
    BY DEF LogsInv
  <1>1. PICK v : v = [indexer[w] EXCEPT !.step = s]
    OBVIOUS
  <1>2. indexer[w] \in IndexPasses /\ indexer[w].position <= Len(work)
    BY <1>0 DEF TypeOK
  <1>3. v \in IndexPasses /\ v.position = indexer[w].position /\ v.kind = indexer[w].kind
    BY <1>1, <1>2 DEF IndexPasses
  <1>4. indexer' = [indexer EXCEPT ![w] = v]
    BY <1>0, <1>1 DEF TypeOK
  <1>5. WorkSettled
    BY <1>0, WorkStays DEF storeVars
  <1>6. UNCHANGED <<manifest, bytes, logsVisible, held, retainVars, indexVars, cleaner, rebuilds>>
    BY DEF storeVars
  <1> QED BY <1>0, <1>2, <1>3, <1>4, <1>5, <1>6, IndexerMoves DEF IndexerInv

\* Reading the object of a chunk, found or not.
LEMMA ReadChunkKeeps ==
    ASSUME LogsInv, NEW w \in IndexWorkers, ReadChunk(w)
    PROVE  Good
  <1>1. PICK s : s = IF work[indexer[w].position].chunk \in bytes THEN "apply" ELSE "unavailable"
    OBVIOUS
  <1>2. /\ indexer[w] # None /\ indexer' = [indexer EXCEPT ![w].step = s]
        /\ s \in {"read", "apply", "applied", "unavailable", "conflict"}
        /\ MayCount /\ UNCHANGED <<storeVars, retainVars, indexVars, cleaner, rebuilds>>
    BY <1>1 DEF ReadChunk, At, MayCount, boundVars
  <1> QED BY <1>2, IndexerSteps

\* A failed call of an index worker.
LEMMA IndexCallFailsKeeps ==
    ASSUME LogsInv, NEW w \in IndexWorkers, IndexCallFails(w)
    PROVE  Good
  <1>1. PICK step \in {"unavailable", "conflict"} :
          /\ indexer[w] # None /\ indexer' = [indexer EXCEPT ![w].step = step]
          /\ MayCount /\ UNCHANGED <<storeVars, retainVars, indexVars, cleaner, rebuilds>>
    BY DEF IndexCallFails, MayCount
  <1> QED BY <1>1, IndexerSteps

\* A worker settles only the row that it still has.
LEMMA SettleIndexWorkKeeps ==
    ASSUME LogsInv, NEW w \in IndexWorkers, SettleIndexWork(w)
    PROVE  Good
  <1>0. TypeOK /\ LogsKept
    BY DEF LogsInv
  <1>1. PICK p : p = indexer[w].position
    OBVIOUS
  <1>2. p \in DOMAIN work /\ work[p] \in Rows
    <2>1. indexer[w] \in IndexPasses /\ p <= Len(work)
      BY <1>0, <1>1 DEF TypeOK, SettleIndexWork
    <2> QED BY <1>0, <1>1, <2>1, Tables DEF IndexPasses
  <1>3. PICK outcome \in {"completed", "retry_scheduled", "dead_letter"} :
          work' = IF work[p].state = "claimed" /\ work[p].owner = w
                  THEN [work EXCEPT ![p].state = outcome, ![p].owner = None]
                  ELSE work
    <2> DEFINE o == CASE indexer[w].step = "applied" -> "completed"
                      [] indexer[w].step = "unavailable" /\ indexer[w].attempt < MaxAttempts -> "retry_scheduled"
                      [] OTHER -> "dead_letter"
    <2>1. o \in {"completed", "retry_scheduled", "dead_letter"}
      BY DEF SettleIndexWork
    <2>2. work' = IF work[p].state = "claimed" /\ work[p].owner = w
                  THEN [work EXCEPT ![p].state = o, ![p].owner = None]
                  ELSE work
      BY <1>1 DEF SettleIndexWork
    <2> HIDE DEF o
    <2> QED BY <2>1, <2>2
  <1>4. WorkSettled
    <2>1. CASE work' = work
      BY <1>0, <2>1, WorkStays
    <2>2. CASE work' = [work EXCEPT ![p].state = outcome, ![p].owner = None]
      <3>1. PICK v : v = [work[p] EXCEPT !.state = outcome, !.owner = None, !.attempt = work[p].attempt]
        OBVIOUS
      <3>2. RowOK(v) /\ SameKey(work[p], v)
        <4>1. work[p].attempt \in 0 .. MaxAttempts /\ outcome \in WorkStates /\ None \notin IndexWorkers
              /\ outcome # "claimed"
          BY <1>2, LogRetentionAssumption DEF Rows, WorkStates
        <4> QED BY <1>0, <1>2, <3>1, <4>1, ProgressOfRow
      <3>3. work' = [work EXCEPT ![p] = v]
        BY <1>2, <2>2, <3>1 DEF Rows
      <3> QED BY <1>0, <1>2, <3>2, <3>3, RowUpdate
    <2> QED BY <1>3, <2>1, <2>2
  <1>5. /\ indexer' = [indexer EXCEPT ![w] = None] /\ MayCount
        /\ UNCHANGED <<manifest, bytes, logsVisible, held, retainVars, indexVars, cleaner, rebuilds>>
    BY DEF SettleIndexWork, boundVars, MayCount
  <1> QED BY <1>4, <1>5, IndexerMoves

\* The projection is called for the claimed work, by a worker that may have lost it.
LEMMA ApplyIndexWorkKeeps ==
    ASSUME LogsInv, NEW w \in IndexWorkers, ApplyIndexWork(w)
    PROVE  Good
  <1>0. TypeOK /\ LogsKept /\ IndexerInv(w) /\ indexer[w] # None
        /\ indexer[w] \in IndexPasses /\ indexer[w].position <= Len(work)
    BY DEF LogsInv, ApplyIndexWork, At, TypeOK
  <1>1. PICK p, s : /\ p = indexer[w].position
                    /\ s = IF Recorded(indexer[w].position, indexer[w].kind) = "conflict"
                           THEN "conflict" ELSE "applied"
    OBVIOUS
  <1>2. p \in 1 .. Len(work)
    BY <1>0, <1>1, Tables DEF IndexPasses
  <1>3. /\ IF indexer[w].kind = "document" THEN IndexDocument(p) ELSE DeleteDocuments(p)
        /\ indexer' = [indexer EXCEPT ![w].step = s]
        /\ UNCHANGED <<storeVars, retainVars, cleaner, boundVars>>
    BY <1>1 DEF ApplyIndexWork
  <1>4. IndexTyped' /\ LogsKept' /\ Onward
    <2>1. CASE indexer[w].kind = "document"
      BY <1>0, <1>1, <1>2, <1>3, <2>1, DocumentKeeps DEF IndexerInv
    <2>2. CASE indexer[w].kind # "document"
      <3>1. indexer[w].kind = "delete"
        BY <1>0, <2>2 DEF IndexPasses
      <3> QED BY <1>0, <1>1, <1>2, <1>3, <2>2, <3>1, DeletionKeeps DEF IndexerInv
    <2> QED BY <2>1, <2>2
  <1>5. PICK v : v = [indexer[w] EXCEPT !.step = s]
    OBVIOUS
  <1>6. v \in IndexPasses /\ v.position = p /\ v.kind = indexer[w].kind
    <2>1. s \in {"conflict", "applied"}
      BY <1>1
    <2> QED BY <1>0, <1>1, <1>5, <2>1 DEF IndexPasses
  <1>7. /\ indexer' \in [IndexWorkers -> IndexPasses \cup {None}] /\ indexer'[w] = v
        /\ \A x \in IndexWorkers : x # w => indexer'[x] = indexer[x]
    BY <1>0, <1>3, <1>5, <1>6 DEF TypeOK
  <1>8. /\ work' = work /\ Len(work') = Len(work)
        /\ \A x \in IndexWorkers : indexer'[x] # None => indexer'[x].position <= Len(work')
    <2>1. work' = work
      BY <1>3 DEF storeVars
    <2> QED BY <1>0, <1>1, <1>6, <1>7, <2>1 DEF TypeOK
  <1>9. TypeOK'
    BY <1>0, <1>3, <1>4, <1>7, <1>8 DEF TypeOK, IndexTyped, Marks, storeVars, retainVars, boundVars
  <1>10. IndexerInv(w)'
    <2>1. logsVisible' = logsVisible
      BY <1>3 DEF storeVars
    <2> QED BY <1>0, <1>1, <1>6, <1>7, <1>8, <2>1 DEF IndexerInv
  <1> QED BY <1>3, <1>4, <1>7, <1>9, <1>10 DEF Good

\* Holds and lost claims: nothing else moves, and passes only end.
LEMMA QuietKeeps ==
    ASSUME LogsInv, Soft, MayCount, UNCHANGED <<manifest, bytes, phase, attempt, failures, rebuilds>>,
           held' \in [Builds -> BOOLEAN],
           claimOwner' \in [Builds -> RetentionWorkers \cup {None}],
           indexer' \in [IndexWorkers -> IndexPasses \cup {None}],
           \A w \in IndexWorkers : indexer'[w] = indexer[w] \/ indexer'[w] = None,
           cleaner' \in [RetentionWorkers -> RetentionPasses \cup {None}],
           \A r \in RetentionWorkers : cleaner'[r] = cleaner[r] \/ cleaner'[r] = None
    PROVE  Good
  <1>0. TypeOK /\ LogsKept
    BY DEF LogsInv
  <1>1. /\ faults' \in Nat /\ faults' + rebuilds <= MaxDisturbances
        /\ \A b \in Builds : failures[b] <= faults'
    BY <1>0, Counting, LogRetentionAssumption DEF TypeOK
  <1>2. UNCHANGED <<logsVisible, indexVars>> /\ WorkSettled
    BY DEF Soft
  <1>3. \A w \in IndexWorkers : indexer'[w] # None => indexer'[w].position <= Len(work)
    BY <1>0 DEF TypeOK
  <1>4. TypeOK'
    BY <1>0, <1>1, <1>2, <1>3 DEF TypeOK, WorkSettled, indexVars
  <1>5. /\ \A w \in IndexWorkers : indexer'[w] = indexer[w] \/ IndexerInv(w)'
        /\ \A r \in RetentionWorkers : cleaner'[r] = cleaner[r] \/ CleanerInv(r)'
    BY DEF IndexerInv, CleanerInv
  <1> QED BY <1>0, <1>4, <1>5, SoftKeeps, SoftIsOnward DEF Good

\* The tables as they were, with work that moved on, are a soft step.
LEMMA SoftWork ==
    ASSUME LogsInv, WorkSettled,
           UNCHANGED <<manifest, bytes, logsVisible, held, phase, indexVars>>
    PROVE  Soft
  BY DEF LogsInv, Soft, LogsKept, Visibility, TombstoneInv

\* Holds are placed on visible Builds only, and end.
LEMMA HoldsKeep ==
    ASSUME LogsInv, NEW b \in Builds, PlaceHold(b) \/ EndHold(b)
    PROVE  Good
  <1>0. TypeOK /\ LogsKept
    BY DEF LogsInv
  <1>1. /\ UNCHANGED <<manifest, bytes, work, logsVisible, retainVars, indexVars, indexer, cleaner, boundVars>>
        /\ MayCount
    BY DEF PlaceHold, EndHold, MayCount, boundVars
  <1>2. held' \in [Builds -> BOOLEAN] /\ \A a \in Builds : held'[a] => logsVisible[a]
    BY <1>0 DEF PlaceHold, EndHold, TypeOK, LogsKept, Visibility
  <1>3. WorkSettled
    BY <1>0, <1>1, WorkStays
  <1>4. Soft
    BY <1>0, <1>1, <1>2, <1>3 DEF Soft, LogsKept, TombstoneInv, retainVars
  <1> QED BY <1>0, <1>1, <1>2, <1>4, QuietKeeps DEF TypeOK, retainVars, boundVars

\* A row goes back to pending under a worker that is still at work on it.
LEMMA IndexClaimExpiresKeeps ==
    ASSUME LogsInv, NEW p \in DOMAIN work, IndexClaimExpires(p)
    PROVE  Good
  <1>0. TypeOK /\ LogsKept
    BY DEF LogsInv
  <1>1. WorkSettled
    <2>1. PICK v : v = [work[p] EXCEPT !.state = "pending", !.owner = None, !.attempt = work[p].attempt]
      OBVIOUS
    <2>2. work[p] \in Rows
      BY <1>0, Tables
    <2>3. RowOK(v) /\ SameKey(work[p], v)
      <3>1. work[p].attempt \in 0 .. MaxAttempts /\ "pending" \in WorkStates /\ None \notin IndexWorkers
        BY <2>2, LogRetentionAssumption DEF Rows, WorkStates
      <3> QED BY <1>0, <2>1, <3>1, ProgressOfRow
    <2>4. work' = [work EXCEPT ![p] = v]
      BY <2>1, <2>2 DEF Rows, IndexClaimExpires
    <2> QED BY <1>0, <2>3, <2>4, RowUpdate
  <1>2. /\ MayCount
        /\ UNCHANGED <<manifest, bytes, logsVisible, held, retainVars, indexVars, indexer, cleaner, rebuilds>>
    BY DEF IndexClaimExpires, MayCount
  <1>3. Soft
    BY <1>1, <1>2, SoftWork DEF retainVars
  <1> QED BY <1>0, <1>2, <1>3, QuietKeeps DEF TypeOK, retainVars

\* A retention worker loses its claim and does not know it.
LEMMA RetentionClaimExpiresKeeps ==
    ASSUME LogsInv, NEW b \in Builds, RetentionClaimExpires(b)
    PROVE  Good
  <1>0. TypeOK /\ LogsKept
    BY DEF LogsInv
  <1>1. /\ MayCount /\ UNCHANGED <<storeVars, phase, attempt, failures, indexVars, indexer, cleaner, rebuilds>>
        /\ claimOwner' = [claimOwner EXCEPT ![b] = None]
    BY DEF RetentionClaimExpires, MayCount
  <1>2. claimOwner' \in [Builds -> RetentionWorkers \cup {None}]
    BY <1>0, <1>1 DEF TypeOK
  <1>3. Soft
    BY <1>0, <1>1, WorkStays, SoftWork DEF storeVars
  <1> QED BY <1>0, <1>1, <1>2, <1>3, QuietKeeps DEF TypeOK, storeVars

\* A worker dies with its claims.
LEMMA CrashKeeps ==
    ASSUME LogsInv, Crash
    PROVE  Good
  <1>0. TypeOK /\ LogsKept
    BY DEF LogsInv
  <1>1. /\ MayCount
        /\ UNCHANGED <<manifest, bytes, logsVisible, held, phase, attempt, failures, indexVars, rebuilds>>
    BY DEF Crash, MayCount
  <1>2. ASSUME NEW w \in IndexWorkers,
               indexer' = [indexer EXCEPT ![w] = None],
               work' = [p \in DOMAIN work |->
                          IF work[p].owner = w
                          THEN [work[p] EXCEPT !.state = "pending", !.owner = None] ELSE work[p]],
               UNCHANGED <<claimOwner, cleaner>>
        PROVE  Good
    <2>1. PICK f : f = [p \in DOMAIN work |->
                          IF work[p].owner = w
                          THEN [work[p] EXCEPT !.state = "pending", !.owner = None] ELSE work[p]]
      OBVIOUS
    <2>2. work' = f /\ DOMAIN f = 1 .. Len(work) /\ f = [p \in DOMAIN f |-> f[p]]
      BY <1>0, <1>2, <2>1, Tables
    <2>3. ASSUME NEW p \in 1 .. Len(work)
          PROVE  RowOK(f[p]) /\ SameKey(work[p], f[p])
      <3>1. /\ p \in DOMAIN work /\ work[p] \in Rows /\ None \notin IndexWorkers
            /\ work[p].state = "claimed" <=> work[p].owner \in IndexWorkers
        BY <1>0, Tables, LogRetentionAssumption DEF TypeOK
      <3>2. f[p] = IF work[p].owner = w
                   THEN [work[p] EXCEPT !.state = "pending", !.owner = None] ELSE work[p]
        BY <2>1, <3>1
      <3> QED BY <3>1, <3>2 DEF RowOK, SameKey, Rows, WorkStates
    <2>4. Soft
      BY <1>0, <1>1, <2>2, <2>3, RowsUpdate, SoftWork
    <2>5. /\ indexer' \in [IndexWorkers -> IndexPasses \cup {None}]
          /\ \A x \in IndexWorkers : indexer'[x] = indexer[x] \/ indexer'[x] = None
      BY <1>0, <1>2 DEF TypeOK
    <2> QED BY <1>0, <1>1, <1>2, <2>4, <2>5, QuietKeeps DEF TypeOK
  <1>3. ASSUME NEW r \in RetentionWorkers,
               cleaner' = [cleaner EXCEPT ![r] = None],
               claimOwner' = [b \in Builds |-> IF claimOwner[b] = r THEN None ELSE claimOwner[b]],
               UNCHANGED <<work, indexer>>
        PROVE  Good
    <2>1. Soft
      BY <1>0, <1>1, <1>3, WorkStays, SoftWork
    <2>2. /\ cleaner' \in [RetentionWorkers -> RetentionPasses \cup {None}]
          /\ \A x \in RetentionWorkers : cleaner'[x] = cleaner[x] \/ cleaner'[x] = None
      BY <1>0, <1>3 DEF TypeOK
    <2>3. claimOwner' \in [Builds -> RetentionWorkers \cup {None}]
      BY <1>0, <1>3 DEF TypeOK
    <2> QED BY <1>0, <1>1, <1>3, <2>1, <2>2, <2>3, QuietKeeps DEF TypeOK
  <1> QED BY <1>2, <1>3 DEF Crash

----------------------------------------------------------------------------
(* Steps of the retention worker                                           *)

\* A pass that exists is about a Build.
LEMMA PassOf ==
    ASSUME LogsInv, NEW r \in RetentionWorkers, cleaner[r] # None
    PROVE  /\ TypeOK /\ LogsKept /\ CleanerInv(r) /\ cleaner[r] \in RetentionPasses
           /\ cleaner[r].build \in Builds
           /\ Visibility(cleaner[r].build) /\ TombstoneInv(cleaner[r].build)
  <1>1. TypeOK /\ LogsKept /\ CleanerInv(r)
    BY DEF LogsInv
  <1>2. cleaner[r] \in RetentionPasses
    BY <1>1 DEF TypeOK
  <1> QED BY <1>1, <1>2 DEF RetentionPasses, LogsKept

\* The columns of retention_work that a step leaves alone keep their types.
LEMMA RetentionTypes ==
    ASSUME LogsInv
    PROVE  /\ manifest \in [Chunks -> {"none", "visible", "hidden", "deleted"}]
           /\ phase \in [Builds -> {"pending", "hidden", "search_deleted", "bytes_deleted", "dead_letter"}]
           /\ claimOwner \in [Builds -> RetentionWorkers \cup {None}]
           /\ attempt \in [Builds -> 0 .. MaxAttempts]
           /\ failures \in [Builds -> 0 .. MaxDisturbances] /\ \A b \in Builds : failures[b] <= faults
  BY DEF LogsInv, TypeOK

\* A retention worker finds its claim gone and ends the pass.
LEMMA LosesClaimKeeps ==
    ASSUME LogsInv, NEW r \in RetentionWorkers, NEW step, LosesClaim(r, step)
    PROVE  Good
  <1>0. TypeOK
    BY DEF LogsInv
  <1>1. /\ cleaner' = [cleaner EXCEPT ![r] = None] /\ MayCount
        /\ UNCHANGED <<storeVars, retainVars, indexVars, indexer, boundVars>>
    BY DEF LosesClaim, MayCount, boundVars
  <1>2. Soft
    BY <1>0, <1>1, WorkStays, SoftWork DEF storeVars, retainVars
  <1> QED BY <1>1, <1>2, RetentionTypes, CleanerMoves DEF storeVars, retainVars, boundVars

\* A retention claim opens a pass that has nothing to delete yet.
LEMMA ClaimRetentionWorkKeeps ==
    ASSUME LogsInv, NEW r \in RetentionWorkers, NEW b \in Builds, ClaimRetentionWork(r, b)
    PROVE  Good
  <1>0. TypeOK
    BY DEF LogsInv
  <1>1. PICK v : v = [build |-> b, step |-> "prepare", attempt |-> Counted(attempt[b]),
                      objects |-> {}, object |-> None]
    OBVIOUS
  <1>2. /\ cleaner' = [cleaner EXCEPT ![r] = v] /\ MayCount
        /\ UNCHANGED <<storeVars, phase, failures, indexVars, indexer, boundVars>>
    BY <1>1 DEF ClaimRetentionWork, MayCount, boundVars
  <1>3. Counted(attempt[b]) \in 0 .. MaxAttempts
    BY <1>0, CountedTyped DEF TypeOK
  <1>4. v \in RetentionPasses /\ v.step = "prepare" /\ v.objects = {}
    BY <1>1, <1>3 DEF RetentionPasses
  <1>5. /\ claimOwner' \in [Builds -> RetentionWorkers \cup {None}]
        /\ attempt' \in [Builds -> 0 .. MaxAttempts]
    BY <1>0, <1>3 DEF TypeOK, ClaimRetentionWork
  <1>6. Soft
    BY <1>0, <1>2, WorkStays, SoftWork DEF storeVars
  <1> QED BY <1>2, <1>4, <1>5, <1>6, RetentionTypes, CleanerMoves DEF storeVars, boundVars

\* Preparation hides the logs of a Build without a hold, and goes on to bytes only
\* after its documents are deleted.
LEMMA PrepareRetentionKeeps ==
    ASSUME LogsInv, NEW r \in RetentionWorkers, PrepareRetention(r)
    PROVE  Good
  <1>0. cleaner[r] # None
    BY DEF PrepareRetention, CleanerAt
  <1>1. PICK b : b = cleaner[r].build
    OBVIOUS
  <1>2. /\ TypeOK /\ LogsKept /\ CleanerInv(r) /\ cleaner[r] \in RetentionPasses
        /\ b \in Builds /\ Visibility(b) /\ TombstoneInv(b)
    BY <1>0, <1>1, PassOf
  <1> DEFINE hides == phase[b] = "pending" /\ ~ held[b]
  <1>3. PICK objects \in SUBSET Remaining(b) :
          /\ phase[b] # "search_deleted" => objects = {}
          /\ cleaner' = [cleaner EXCEPT
                ![r].step = IF hides \/ phase[b] = "hidden" THEN "search"
                            ELSE IF objects # {} THEN "delete" ELSE "finish",
                ![r].objects = objects]
    BY <1>1 DEF PrepareRetention
  <1>4. /\ IF hides THEN HideLogs(b) ELSE UNCHANGED <<logsVisible, manifest, work, applied, phase>>
        /\ UNCHANGED <<bytes, held, claimOwner, attempt, failures, documents, tombstone,
                       indexedThrough, indexer, boundVars>>
    BY <1>1 DEF PrepareRetention
  <1>5. \A c \in objects : c \in Chunks /\ BuildOf[c] = b /\ tombstone[b] # 0
    BY <1>2, <1>3 DEF Remaining, ChunksOf, TombstoneInv
  <1>6. PICK s : s = IF hides \/ phase[b] = "hidden" THEN "search"
                     ELSE IF objects # {} THEN "delete" ELSE "finish"
    OBVIOUS
  <1>7. PICK v : v = [cleaner[r] EXCEPT !.step = s, !.objects = objects]
    OBVIOUS
  <1>8. /\ v \in RetentionPasses /\ v.build = b /\ v.step = s /\ v.objects = objects
        /\ s \in {"search", "delete", "finish"}
    <2>1. s \in {"search", "delete", "finish"}
      BY <1>6
    <2>2. objects \in SUBSET Chunks
      BY <1>5
    <2> QED BY <1>1, <1>2, <1>7, <2>1, <2>2 DEF RetentionPasses
  <1>9. cleaner' = [cleaner EXCEPT ![r] = v]
    BY <1>2, <1>3, <1>6, <1>7 DEF TypeOK, RetentionPasses
  <1>10. MayCount /\ UNCHANGED rebuilds
    BY <1>4 DEF MayCount, boundVars
  <1>11. CASE ~ hides
    <2>1. UNCHANGED <<logsVisible, manifest, work, applied, phase>>
      BY <1>4, <1>11
    <2>2. Soft
      BY <1>2, <1>4, <2>1, WorkStays, SoftWork DEF indexVars
    <2>3. /\ s = "search" => ~ logsVisible[b]
          /\ s = "delete" => tombstone[b] # 0
      BY <1>2, <1>3, <1>5, <1>6, <1>11 DEF Visibility
    <2> HIDE DEF hides
    <2> QED BY <1>4, <1>5, <1>8, <1>9, <1>10, <2>1, <2>2, <2>3, RetentionTypes, CleanerMoves DEF boundVars
  <1>12. CASE hides
    <2>1. HideLogs(b) /\ ~ held[b] /\ phase[b] = "pending" /\ objects = {} /\ s = "search"
      BY <1>3, <1>4, <1>6, <1>12
    <2>2. /\ LogsKept' /\ Onward /\ ~ logsVisible'[b] /\ Len(work') = Len(work) + 1
          /\ logsVisible' \in [Builds -> BOOLEAN]
          /\ manifest' \in [Chunks -> {"none", "visible", "hidden", "deleted"}]
          /\ phase' \in [Builds -> {"pending", "hidden", "search_deleted", "bytes_deleted", "dead_letter"}]
          /\ work' \in Seq(Rows) /\ applied' \in Seq(Marks) /\ Len(applied') = Len(work')
          /\ \A p \in DOMAIN work' : work'[p].state = "claimed" <=> work'[p].owner \in IndexWorkers
      BY <1>2, <1>4, <2>1, HideKeeps
    <2>3. /\ cleaner' \in [RetentionWorkers -> RetentionPasses \cup {None}] /\ cleaner'[r] = v
          /\ \A x \in RetentionWorkers : x # r => cleaner'[x] = cleaner[x]
      BY <1>2, <1>8, <1>9 DEF TypeOK
    <2>4. CleanerInv(r)'
      BY <1>8, <2>1, <2>2, <2>3 DEF CleanerInv
    <2>5. Len(work) \in Nat
      BY <1>2, Tables
    <2>6. tombstone' \in [Builds -> 0 .. Len(work')] /\ indexedThrough' \in 0 .. Len(work')
      <3>1. \A a \in Builds : tombstone[a] \in 0 .. Len(work')
        BY <1>2, <2>2, <2>5 DEF TypeOK
      <3> QED BY <1>2, <1>4, <2>2, <2>5, <3>1 DEF TypeOK
    <2>7. \A x \in IndexWorkers : indexer'[x] # None => indexer'[x].position <= Len(work')
      BY <1>2, <1>4, <2>2, <2>5 DEF TypeOK, IndexPasses
    <2>8. TypeOK'
      BY <1>2, <1>4, <2>2, <2>3, <2>6, <2>7 DEF TypeOK, Marks, boundVars
    <2> QED BY <1>4, <2>2, <2>3, <2>4, <2>8 DEF Good
  <1> QED BY <1>11, <1>12

\* The deletion of a hidden Build is in the queue.
LEMMA SearchPositionExists ==
    ASSUME TypeOK, NEW b, Visibility(b), ~ logsVisible[b]
    PROVE  /\ SearchPosition(b) \in 1 .. Len(work)
           /\ work[SearchPosition(b)].build = b /\ work[SearchPosition(b)].operation = "delete_build"
  <1>1. \E p \in DOMAIN work : work[p].build = b /\ work[p].operation = "delete_build"
    BY DEF Visibility
  <1> QED BY <1>1, Tables DEF SearchPosition

\* The documents of a hidden Build go, and a tombstone keeps them out.
LEMMA DeleteSearchKeeps ==
    ASSUME LogsInv, NEW r \in RetentionWorkers, DeleteSearch(r)
    PROVE  Good
  <1>0. cleaner[r] # None /\ cleaner[r].step = "search"
    BY DEF DeleteSearch, CleanerAt
  <1>1. PICK b, p : b = cleaner[r].build /\ p = SearchPosition(cleaner[r].build)
    OBVIOUS
  <1>2. /\ TypeOK /\ LogsKept /\ CleanerInv(r) /\ cleaner[r] \in RetentionPasses
        /\ b \in Builds /\ Visibility(b) /\ TombstoneInv(b) /\ ~ logsVisible[b]
    BY <1>0, <1>1, PassOf DEF CleanerInv
  <1>3. p \in 1 .. Len(work) /\ work[p].build = b /\ work[p].operation = "delete_build"
    BY <1>1, <1>2, SearchPositionExists
  <1>4. /\ DeleteDocuments(p) /\ cleaner' = [cleaner EXCEPT ![r].step = "complete_search"]
        /\ UNCHANGED <<storeVars, retainVars, indexer, boundVars>>
    BY <1>1 DEF DeleteSearch
  <1>5. IndexTyped' /\ LogsKept' /\ Onward /\ tombstone'[b] # 0
    BY <1>2, <1>3, <1>4, DeletionKeeps
  <1>6. PICK v : v = [cleaner[r] EXCEPT !.step = "complete_search"]
    OBVIOUS
  <1>7. v \in RetentionPasses /\ v.build = b /\ v.step = "complete_search" /\ v.objects = cleaner[r].objects
    BY <1>1, <1>2, <1>6 DEF RetentionPasses
  <1>8. /\ cleaner' \in [RetentionWorkers -> RetentionPasses \cup {None}] /\ cleaner'[r] = v
        /\ \A x \in RetentionWorkers : x # r => cleaner'[x] = cleaner[x]
    BY <1>2, <1>4, <1>6, <1>7 DEF TypeOK
  <1>9. TypeOK'
    BY <1>2, <1>4, <1>5, <1>8 DEF TypeOK, IndexTyped, Marks, storeVars, retainVars, boundVars
  <1>10. CleanerInv(r)'
    BY <1>0, <1>1, <1>2, <1>5, <1>7, <1>8 DEF CleanerInv
  <1> QED BY <1>4, <1>5, <1>8, <1>9, <1>10 DEF Good

\* Only a Build whose documents were deleted moves on to its bytes.
LEMMA CompleteSearchKeeps ==
    ASSUME LogsInv, NEW r \in RetentionWorkers, CompleteSearch(r)
    PROVE  Good
  <1>0. cleaner[r] # None /\ cleaner[r].step = "complete_search"
    BY DEF CompleteSearch, CleanerAt
  <1>1. PICK b : b = cleaner[r].build
    OBVIOUS
  <1>2. /\ TypeOK /\ LogsKept /\ CleanerInv(r) /\ cleaner[r] \in RetentionPasses
        /\ b \in Builds /\ tombstone[b] # 0
    BY <1>0, <1>1, PassOf DEF CleanerInv
  <1>3. /\ cleaner' = [cleaner EXCEPT ![r].step = "finish"] /\ MayCount
        /\ UNCHANGED <<manifest, bytes, logsVisible, held, claimOwner, attempt, failures,
                       indexVars, indexer, boundVars>>
    BY DEF CompleteSearch, MayCount, boundVars
  <1>4. /\ WorkSettled
        /\ phase' \in [Builds -> {"pending", "hidden", "search_deleted", "bytes_deleted", "dead_letter"}]
        /\ \A a \in Builds : phase'[a] = phase[a]
                             \/ (a = b /\ phase[a] = "hidden" /\ phase'[a] = "search_deleted")
    <2>1. CASE phase[b] = "hidden"
      <3>1. PICK f : f = [p \in DOMAIN work |->
                            IF work[p].build = b
                            THEN [work[p] EXCEPT !.state = "completed", !.owner = None]
                            ELSE work[p]]
        OBVIOUS
      <3>2. work' = f /\ phase' = [phase EXCEPT ![b] = "search_deleted"]
        BY <1>1, <2>1, <3>1 DEF CompleteSearch
      <3>3. DOMAIN f = 1 .. Len(work) /\ f = [p \in DOMAIN f |-> f[p]]
        BY <1>2, <3>1, Tables
      <3>4. ASSUME NEW p \in 1 .. Len(work)
            PROVE  RowOK(f[p]) /\ SameKey(work[p], f[p])
        <4>1. /\ p \in DOMAIN work /\ work[p] \in Rows /\ None \notin IndexWorkers
              /\ work[p].state = "claimed" <=> work[p].owner \in IndexWorkers
          BY <1>2, Tables, LogRetentionAssumption DEF TypeOK
        <4>2. f[p] = IF work[p].build = b
                     THEN [work[p] EXCEPT !.state = "completed", !.owner = None] ELSE work[p]
          BY <3>1, <4>1
        <4> QED BY <4>1, <4>2 DEF RowOK, SameKey, Rows, WorkStates
      <3>5. WorkSettled
        BY <1>2, <3>2, <3>3, <3>4, RowsUpdate
      <3>6. phase \in [Builds -> {"pending", "hidden", "search_deleted", "bytes_deleted", "dead_letter"}]
        BY RetentionTypes
      <3> QED BY <1>2, <2>1, <3>2, <3>5, <3>6
    <2>2. CASE phase[b] # "hidden"
      <3>1. UNCHANGED <<work, phase>>
        BY <1>1, <2>2 DEF CompleteSearch
      <3> QED BY <1>2, <3>1, WorkStays DEF TypeOK
    <2> QED BY <2>1, <2>2
  <1>5. Soft
    <2>1. \A a \in Builds : phase'[a] = "search_deleted" => tombstone[a] # 0
      BY <1>2, <1>4 DEF LogsKept, TombstoneInv
    <2> QED BY <1>2, <1>3, <1>4, <2>1 DEF Soft, LogsKept, Visibility
  <1>6. PICK v : v = [cleaner[r] EXCEPT !.step = "finish"]
    OBVIOUS
  <1>7. v \in RetentionPasses /\ v.build = b /\ v.step = "finish" /\ v.objects = cleaner[r].objects
    BY <1>1, <1>2, <1>6 DEF RetentionPasses
  <1>8. cleaner' = [cleaner EXCEPT ![r] = v]
    BY <1>2, <1>3, <1>6 DEF TypeOK
  <1>9. \A c \in v.objects : BuildOf[c] = b /\ tombstone[b] # 0
    BY <1>0, <1>1, <1>2, <1>7 DEF CleanerInv
  <1>10. UNCHANGED <<manifest, bytes, claimOwner, attempt, failures, held, indexer, rebuilds, faults>>
    BY <1>3 DEF boundVars
  <1>11. /\ v \in RetentionPasses
         /\ v.step = "search" => ~ logsVisible[v.build]
         /\ v.step \in {"complete_search", "delete", "complete_object"} => tombstone[v.build] # 0
         /\ \A c \in v.objects : BuildOf[c] = v.build /\ tombstone[v.build] # 0
    BY <1>2, <1>7, <1>9
  <1>12. /\ manifest' \in [Chunks -> {"none", "visible", "hidden", "deleted"}] /\ bytes' \subseteq bytes
         /\ claimOwner' \in [Builds -> RetentionWorkers \cup {None}]
         /\ attempt' \in [Builds -> 0 .. MaxAttempts]
         /\ failures' \in [Builds -> 0 .. MaxDisturbances] /\ \A a \in Builds : failures'[a] <= faults'
    BY <1>10, RetentionTypes
  <1> QED BY <1>3, <1>4, <1>5, <1>8, <1>10, <1>11, <1>12, CleanerMoves

\* Bytes are deleted for a Build with a tombstone, claim or no claim.
LEMMA DeleteObjectKeeps ==
    ASSUME LogsInv, NEW r \in RetentionWorkers, DeleteObject(r)
    PROVE  Good
  <1>0. cleaner[r] # None /\ cleaner[r].step = "delete"
    BY DEF DeleteObject, CleanerAt
  <1>1. PICK b : b = cleaner[r].build
    OBVIOUS
  <1>2. /\ TypeOK /\ LogsKept /\ CleanerInv(r) /\ cleaner[r] \in RetentionPasses
        /\ b \in Builds /\ tombstone[b] # 0
    BY <1>0, <1>1, PassOf DEF CleanerInv
  <1>3. PICK c \in cleaner[r].objects :
          /\ bytes' = bytes \ {c}
          /\ cleaner' = [cleaner EXCEPT ![r].step = "complete_object",
                                        ![r].objects = @ \ {c}, ![r].object = c]
    BY DEF DeleteObject
  <1>4. /\ MayCount
        /\ UNCHANGED <<manifest, work, logsVisible, held, retainVars, indexVars, indexer, boundVars>>
    BY DEF DeleteObject, MayCount, boundVars
  <1>5. cleaner[r].objects \in SUBSET Chunks /\ c \in Chunks /\ BuildOf[c] = b
    BY <1>0, <1>1, <1>2 DEF CleanerInv, RetentionPasses
  <1>6. Soft
    <2>1. WorkSettled
      BY <1>2, <1>4, WorkStays
    <2>2. \A d \in bytes : d \in bytes' \/ tombstone[BuildOf[d]] # 0
      BY <1>2, <1>3, <1>5
    <2> QED BY <1>2, <1>4, <2>1, <2>2 DEF Soft, LogsKept, Visibility, TombstoneInv, retainVars
  <1>7. PICK left : left = cleaner[r].objects \ {c}
    OBVIOUS
  <1>8. PICK v : v = [cleaner[r] EXCEPT !.step = "complete_object", !.objects = left, !.object = c]
    OBVIOUS
  <1>9. v \in RetentionPasses /\ v.build = b /\ v.step = "complete_object" /\ v.objects = left
    <2>1. left \in SUBSET Chunks
      BY <1>5, <1>7
    <2> QED BY <1>1, <1>2, <1>5, <1>8, <2>1 DEF RetentionPasses
  <1>10. cleaner' = [cleaner EXCEPT ![r] = v]
    BY <1>2, <1>3, <1>7, <1>8 DEF TypeOK, RetentionPasses
  <1>11. \A d \in v.objects : BuildOf[d] = b /\ tombstone[b] # 0
    BY <1>0, <1>1, <1>2, <1>7, <1>9 DEF CleanerInv
  <1>12. bytes' \subseteq bytes
    BY <1>3
  <1> QED BY <1>2, <1>4, <1>6, <1>9, <1>10, <1>11, <1>12, RetentionTypes, CleanerMoves DEF retainVars, boundVars

\* The manifest follows the object that was deleted.
LEMMA CompleteObjectKeeps ==
    ASSUME LogsInv, NEW r \in RetentionWorkers, CompleteObject(r)
    PROVE  Good
  <1>0. cleaner[r] # None /\ cleaner[r].step = "complete_object"
    BY DEF CompleteObject, CleanerAt
  <1>1. PICK b, c, s : /\ b = cleaner[r].build /\ c = cleaner[r].object
                       /\ s = IF cleaner[r].objects = {} THEN "finish" ELSE "delete"
    OBVIOUS
  <1>2. /\ TypeOK /\ LogsKept /\ CleanerInv(r) /\ cleaner[r] \in RetentionPasses
        /\ b \in Builds /\ tombstone[b] # 0
    BY <1>0, <1>1, PassOf DEF CleanerInv
  <1>3. /\ manifest[c] \in {"hidden", "deleted"} /\ manifest' = [manifest EXCEPT ![c] = "deleted"]
        /\ cleaner' = [cleaner EXCEPT ![r].object = None, ![r].step = s] /\ MayCount
        /\ UNCHANGED <<bytes, work, logsVisible, held, retainVars, indexVars, indexer, boundVars>>
    BY <1>1 DEF CompleteObject, MayCount, boundVars
  <1>4. /\ manifest' \in [Chunks -> {"none", "visible", "hidden", "deleted"}]
        /\ \A d \in Chunks : \/ manifest'[d] = manifest[d]
                             \/ manifest[d] \in {"hidden", "deleted"} /\ manifest'[d] \in {"hidden", "deleted"}
    BY <1>3, RetentionTypes
  <1>5. Soft
    <2>1. WorkSettled
      BY <1>2, <1>3, WorkStays
    <2> QED BY <1>2, <1>3, <1>4, <2>1 DEF Soft, LogsKept, Visibility, TombstoneInv, retainVars
  <1>6. PICK v : v = [cleaner[r] EXCEPT !.object = None, !.step = s]
    OBVIOUS
  <1>7. /\ v \in RetentionPasses /\ v.build = b /\ v.objects = cleaner[r].objects
        /\ v.step \in {"finish", "delete"}
    <2>1. s \in {"finish", "delete"}
      BY <1>1
    <2> QED BY <1>1, <1>2, <1>6, <2>1 DEF RetentionPasses
  <1>8. cleaner' = [cleaner EXCEPT ![r] = v]
    BY <1>2, <1>3, <1>6 DEF TypeOK, RetentionPasses
  <1>9. \A d \in v.objects : BuildOf[d] = b /\ tombstone[b] # 0
    BY <1>0, <1>1, <1>2, <1>7 DEF CleanerInv
  <1>10. UNCHANGED <<phase, bytes, claimOwner, attempt, failures, held, indexer, rebuilds, faults>>
    BY <1>3 DEF retainVars, boundVars
  <1>11. /\ v \in RetentionPasses
         /\ v.step = "search" => ~ logsVisible[v.build]
         /\ v.step \in {"complete_search", "delete", "complete_object"} => tombstone[v.build] # 0
         /\ \A d \in v.objects : BuildOf[d] = v.build /\ tombstone[v.build] # 0
    BY <1>2, <1>7, <1>9
  <1>12. /\ phase' \in [Builds -> {"pending", "hidden", "search_deleted", "bytes_deleted", "dead_letter"}]
         /\ bytes' \subseteq bytes /\ claimOwner' \in [Builds -> RetentionWorkers \cup {None}]
         /\ attempt' \in [Builds -> 0 .. MaxAttempts]
         /\ failures' \in [Builds -> 0 .. MaxDisturbances] /\ \A a \in Builds : failures'[a] <= faults'
    BY <1>10, RetentionTypes
  <1> QED BY <1>3, <1>4, <1>5, <1>8, <1>10, <1>11, <1>12, CleanerMoves

\* The last pass of a Build closes its row; the others give the claim back.
LEMMA FinishPassKeeps ==
    ASSUME LogsInv, NEW r \in RetentionWorkers, FinishPass(r)
    PROVE  Good
  <1>0. cleaner[r] # None
    BY DEF FinishPass, CleanerAt
  <1>1. PICK b : b = cleaner[r].build
    OBVIOUS
  <1>2. TypeOK /\ LogsKept /\ b \in Builds
    BY <1>0, <1>1, PassOf
  <1>3. /\ phase' = IF phase[b] = "search_deleted" /\ Remaining(b) = {}
                    THEN [phase EXCEPT ![b] = "bytes_deleted"] ELSE phase
        /\ claimOwner' = [claimOwner EXCEPT ![b] = None]
        /\ cleaner' = [cleaner EXCEPT ![r] = None] /\ MayCount
        /\ UNCHANGED <<storeVars, attempt, failures, indexVars, indexer, boundVars>>
    BY <1>1 DEF FinishPass, MayCount, boundVars
  <1>4. /\ phase' \in [Builds -> {"pending", "hidden", "search_deleted", "bytes_deleted", "dead_letter"}]
        /\ \A a \in Builds : phase'[a] = phase[a]
                             \/ (phase[a] = "search_deleted" /\ phase'[a] = "bytes_deleted")
    BY <1>2, <1>3, RetentionTypes
  <1>5. claimOwner' \in [Builds -> RetentionWorkers \cup {None}]
    BY <1>3, RetentionTypes
  <1>6. Soft
    <2>1. WorkSettled
      BY <1>2, <1>3, WorkStays DEF storeVars
    <2>2. \A a \in Builds : /\ phase'[a] = "pending" <=> phase[a] = "pending"
                            /\ phase'[a] = "search_deleted" => tombstone[a] # 0
      BY <1>2, <1>4 DEF LogsKept, TombstoneInv
    <2> QED BY <1>2, <1>3, <2>1, <2>2 DEF Soft, LogsKept, Visibility, storeVars
  <1> QED BY <1>3, <1>4, <1>5, <1>6, RetentionTypes, CleanerMoves DEF storeVars, boundVars

\* A failed call ends the pass; a dead letter is never a Build that is still visible.
LEMMA RetentionCallFailsKeeps ==
    ASSUME LogsInv, NEW r \in RetentionWorkers, RetentionCallFails(r)
    PROVE  Good
  <1>0. cleaner[r] # None /\ cleaner[r].step \in {"search", "delete"} /\ MayDisturb
    BY DEF RetentionCallFails
  <1>1. PICK b : b = cleaner[r].build
    OBVIOUS
  <1>2. /\ TypeOK /\ LogsKept /\ CleanerInv(r) /\ b \in Builds /\ Visibility(b) /\ TombstoneInv(b)
    BY <1>0, <1>1, PassOf
  <1>3. /\ \/ /\ phase' = phase \/ phase' = [phase EXCEPT ![b] = "dead_letter"]
              /\ claimOwner' = [claimOwner EXCEPT ![b] = None]
              /\ failures' = [failures EXCEPT ![b] = @ + 1]
           \/ UNCHANGED <<phase, claimOwner, failures>>
        /\ cleaner' = [cleaner EXCEPT ![r] = None] /\ faults' = faults + 1
        /\ UNCHANGED <<storeVars, attempt, indexVars, indexer, rebuilds>>
    BY <1>1 DEF RetentionCallFails
  <1>4. ~ logsVisible[b] /\ phase[b] # "pending"
    BY <1>0, <1>1, <1>2 DEF CleanerInv, Visibility, TombstoneInv
  <1>5. /\ phase' \in [Builds -> {"pending", "hidden", "search_deleted", "bytes_deleted", "dead_letter"}]
        /\ \A a \in Builds : phase'[a] = phase[a]
                             \/ (phase[a] # "pending" /\ phase'[a] = "dead_letter")
    BY <1>2, <1>3, <1>4, RetentionTypes
  <1>6. claimOwner' \in [Builds -> RetentionWorkers \cup {None}]
    BY <1>3, RetentionTypes
  <1>7. MayCount /\ faults \in Nat /\ faults' \in Nat /\ faults + 1 <= MaxDisturbances
    <2>1. faults \in Nat /\ rebuilds \in Nat /\ MaxDisturbances \in Nat
      BY <1>2, LogRetentionAssumption DEF TypeOK
    <2> QED BY <1>0, <1>3, <2>1 DEF MayDisturb, MayCount
  <1>8. /\ failures' \in [Builds -> 0 .. MaxDisturbances]
        /\ \A a \in Builds : failures'[a] <= faults'
    <2>1. \A a \in Builds : failures[a] \in Nat /\ failures[a] <= faults /\ MaxDisturbances \in Nat
      BY RetentionTypes, LogRetentionAssumption
    <2>2. failures \in [Builds -> 0 .. MaxDisturbances]
      BY RetentionTypes
    <2>3. CASE failures' = failures
      BY <1>3, <1>7, <2>1, <2>2, <2>3
    <2>4. CASE failures' = [failures EXCEPT ![b] = @ + 1]
      <3>1. \A a \in Builds : failures'[a] = IF a = b THEN failures[a] + 1 ELSE failures[a]
        BY <2>2, <2>4
      <3>2. \A a \in Builds : failures'[a] \in 0 .. MaxDisturbances /\ failures'[a] <= faults'
        BY <1>3, <1>7, <2>1, <3>1
      <3>3. failures' = [a \in Builds |-> failures'[a]]
        BY <2>2, <2>4
      <3> QED BY <3>2, <3>3
    <2> QED BY <1>3, <2>3, <2>4
  <1>9. Soft
    <2>1. WorkSettled
      BY <1>2, <1>3, WorkStays DEF storeVars
    <2>2. \A a \in Builds : /\ phase'[a] = "pending" <=> phase[a] = "pending"
                            /\ phase'[a] = "search_deleted" => tombstone[a] # 0
      BY <1>2, <1>5 DEF LogsKept, TombstoneInv
    <2> QED BY <1>2, <1>3, <2>1, <2>2 DEF Soft, LogsKept, Visibility, storeVars
  <1> QED BY <1>3, <1>5, <1>6, <1>7, <1>8, <1>9, RetentionTypes, CleanerMoves DEF storeVars

----------------------------------------------------------------------------
(* The theorems                                                            *)

\* The invariant holds at the start.
LEMMA LogsInvInit == Init => LogsInv
  <1> SUFFICES ASSUME Init PROVE LogsInv
    OBVIOUS
  <1>1. work = <<>> /\ applied = <<>> /\ Len(work) = 0 /\ DOMAIN work = {} /\ Len(applied) = 0
    BY DEF Init
  <1>2. TypeOK
    <2>1. work \in Seq(Rows) /\ applied \in Seq({None, "document", "delete", "superseded"})
      BY <1>1
    <2>2. 0 \in 0 .. MaxAttempts /\ 0 \in 0 .. MaxDisturbances /\ 0 \in 0 .. Len(work) /\ 0 <= MaxDisturbances
      BY <1>1, LogRetentionAssumption
    <2> QED BY <1>1, <2>1, <2>2 DEF Init, TypeOK
  <1>3. \A b \in Builds : Visibility(b) /\ TombstoneInv(b)
    BY DEF Init, Visibility, TombstoneInv, ChunksOf
  <1>4. LogsKept
    BY <1>1, <1>3 DEF Init, LogsKept, NoGap, Documented
  <1>5. (\A w \in IndexWorkers : IndexerInv(w)) /\ \A r \in RetentionWorkers : CleanerInv(r)
    BY DEF Init, IndexerInv, CleanerInv
  <1> QED BY <1>2, <1>4, <1>5 DEF LogsInv

\* Every step of every actor keeps it.
LEMMA LogsInvStep == LogsInv /\ [Next]_vars => LogsInv'
  <1> SUFFICES ASSUME LogsInv, [Next]_vars PROVE LogsInv'
    OBVIOUS
  <1>0. TypeOK /\ LogsKept
    BY DEF LogsInv
  <1>1. CASE UNCHANGED vars
    <2>1. MayCount /\ UNCHANGED <<storeVars, retainVars, indexVars, indexer, cleaner, rebuilds>>
      BY <1>1 DEF vars, boundVars, MayCount
    <2>2. Soft
      BY <1>0, <2>1, WorkStays, SoftWork DEF storeVars, retainVars
    <2> QED BY <1>0, <2>1, <2>2, QuietKeeps, GoodKeeps DEF TypeOK, storeVars, retainVars
  <1>2. ASSUME NEW c \in Chunks, CommitChunk(c) PROVE LogsInv'
    BY <1>0, <1>2, CommitKeeps, GoodKeeps DEF Good, CommitChunk
  <1>3. ASSUME NEW b \in Builds, PlaceHold(b) \/ EndHold(b) \/ RetentionClaimExpires(b) PROVE LogsInv'
    BY <1>3, HoldsKeep, RetentionClaimExpiresKeeps, GoodKeeps
  <1>4. ASSUME NEW w \in IndexWorkers, IndexStep(w) \/ IndexCallFails(w) PROVE LogsInv'
    BY <1>4, ClaimIndexWorkKeeps, ReadChunkKeeps, ApplyIndexWorkKeeps, SettleIndexWorkKeeps,
       IndexCallFailsKeeps, GoodKeeps DEF IndexStep
  <1>5. ASSUME NEW p \in DOMAIN work, IndexClaimExpires(p) PROVE LogsInv'
    BY <1>5, IndexClaimExpiresKeeps, GoodKeeps
  <1>6. ASSUME NEW r \in RetentionWorkers, RetentionStep(r) \/ RetentionCallFails(r) PROVE LogsInv'
    BY <1>6, ClaimRetentionWorkKeeps, PrepareRetentionKeeps, DeleteSearchKeeps, CompleteSearchKeeps,
       DeleteObjectKeeps, CompleteObjectKeeps, FinishPassKeeps, LosesClaimKeeps,
       RetentionCallFailsKeeps, GoodKeeps DEF RetentionStep
  <1>7. CASE Crash
    BY <1>7, CrashKeeps, GoodKeeps
  <1>8. CASE StartRebuild
    BY <1>0, <1>8, RebuildKeeps, GoodKeeps DEF Good, StartRebuild
  <1> QED BY <1>1, <1>2, <1>3, <1>4, <1>5, <1>6, <1>7, <1>8 DEF Next

\* It always holds.
LEMMA LogsInvHolds == Spec => []LogsInv
  BY LogsInvInit, LogsInvStep, PTL DEF Spec

\* The tables and the workers' claims keep their types through failures, crashes, lost
\* claims and rebuilds, and the applied work covers exactly the queue.
THEOREM TypeCorrect == Spec => []TypeOK
  <1>1. LogsInv => TypeOK
    BY DEF LogsInv
  <1> QED BY <1>1, LogsInvHolds, PTL

\* A search page never reports a position past a visible chunk that it cannot find:
\* advance_freshness stops at the first gap, and what was recorded has its document
\* unless the Build has a tombstone, which a Build with visible chunks never has.
THEOREM FreshnessTruthful == Spec => []FreshnessIsTruthful
  <1>1. LogsInv => FreshnessIsTruthful
    <2> SUFFICES ASSUME LogsInv, NEW p \in 1 .. indexedThrough, work[p].chunk # None,
                        manifest[work[p].chunk] = "visible"
                 PROVE  work[p].chunk \in documents
      BY DEF FreshnessIsTruthful
    <2>1. TypeOK /\ LogsKept /\ Len(work) \in Nat
      BY Tables DEF LogsInv
    <2>2. p \in 1 .. Len(work) /\ applied[p] # None
      BY <2>1 DEF TypeOK, LogsKept, NoGap
    <2>3. work[p] \in Rows /\ applied[p] \in {"document", "delete", "superseded"}
          /\ AppliedInv(p) /\ WorkIsReal(p)
      BY <2>1, <2>2, Tables DEF LogsKept
    <2>4. PICK b, c : b = work[p].build /\ c = work[p].chunk
      OBVIOUS
    <2>5. b \in Builds /\ c \in Chunks /\ BuildOf[c] = b
      BY <2>3, <2>4 DEF Rows, WorkIsReal
    <2>6. logsVisible[b] /\ tombstone[b] = 0
      BY <2>1, <2>4, <2>5 DEF LogsKept, Visibility, TombstoneInv, ChunksOf
    <2> QED BY <2>3, <2>4, <2>6 DEF AppliedInv
  <1> QED BY <1>1, LogsInvHolds, PTL

\* What is visible or searchable can be read, and a hold covers the whole log of its
\* Build: a retention worker without its claim still deletes only bytes of a Build
\* whose documents are gone for good.
THEOREM ReachableReadable == Spec => []ReachableIsReadable
  <1>1. LogsInv => ReachableIsReadable
    <2> SUFFICES ASSUME LogsInv PROVE ReachableIsReadable
      OBVIOUS
    <2>1. TypeOK /\ LogsKept
      BY DEF LogsInv
    <2>2. ASSUME NEW c \in Chunks PROVE manifest[c] = "visible" => c \in bytes
      <3>1. BuildOf[c] \in Builds /\ c \in ChunksOf(BuildOf[c])
        BY LogRetentionAssumption DEF ChunksOf
      <3> QED BY <2>1, <3>1 DEF LogsKept, Visibility, TombstoneInv
    <2>3. ASSUME NEW c \in documents PROVE c \in bytes
      <3>1. c \in Chunks
        BY <2>1 DEF TypeOK
      <3>2. BuildOf[c] \in Builds /\ c \in ChunksOf(BuildOf[c])
        BY <3>1, LogRetentionAssumption DEF ChunksOf
      <3>3. tombstone[BuildOf[c]] = 0 /\ manifest[c] # "none"
        BY <2>1, <3>2 DEF LogsKept, TombstoneInv, Documented
      <3> QED BY <2>1, <3>2, <3>3 DEF LogsKept, TombstoneInv
    <2>4. ASSUME NEW b \in Builds, held[b], NEW c \in ChunksOf(b)
          PROVE  manifest[c] \in {"none", "visible"}
      <3>1. c \in Chunks /\ manifest[c] \in {"none", "visible", "hidden", "deleted"}
        BY <2>1 DEF TypeOK, ChunksOf
      <3> QED BY <2>1, <2>4, <3>1 DEF LogsKept, Visibility
    <2> QED BY <2>2, <2>3, <2>4 DEF ReachableIsReadable
  <1> QED BY <1>1, LogsInvHolds, PTL

----------------------------------------------------------------------------
(* One chunk between its appends and orphan cleanup. Appends and cleaners  *)
(* overlap freely: no assumption relates the grace to the time they take.  *)

\* Every step of a handler, a cleaner or the clock keeps the types.
LEMMA ArchiveNextType == ArchiveTypeOK /\ [ArchiveNext]_archiveVars => ArchiveTypeOK'
  <1> SUFFICES ASSUME ArchiveTypeOK, [ArchiveNext]_archiveVars PROVE ArchiveTypeOK'
    OBVIOUS
  <1> USE LogArchiveAssumption DEF ArchiveTypeOK, rowVars
  <1>1. ASSUME NEW h \in Appends, AppendStep(h) \/ AppendFails(h) PROVE ArchiveTypeOK'
    <2>1. CASE Stage(h)
      <3>1. due' \in BOOLEAN /\ committed' \in BOOLEAN
        BY <2>1, Zenon DEF Stage
      <3> QED BY <2>1, <3>1 DEF Stage
    <2>2. CASE PutObject(h)
      BY <2>2 DEF PutObject
    <2>3. CASE VerifyObject(h)
      BY <2>3 DEF VerifyObject
    <2>4. CASE CommitAppend(h)
      <3>1. due' \in BOOLEAN /\ committed' \in BOOLEAN
        BY <2>4, Zenon DEF CommitAppend
      <3> QED BY <2>4, <3>1 DEF CommitAppend
    <2>5. CASE AppendFails(h)
      BY <2>5 DEF AppendFails
    <2> QED BY <1>1, <2>1, <2>2, <2>3, <2>4, <2>5 DEF AppendStep
  <1>2. CASE GracePasses
    BY <1>2 DEF GracePasses
  <1>3. ASSUME NEW k \in Cleaners, CleanerStep(k) \/ DeleteFails(k) PROVE ArchiveTypeOK'
    <2>1. CASE Claim(k)
      BY <2>1 DEF Claim
    <2>2. CASE CheckCommitted(k)
      BY <2>2 DEF CheckCommitted
    <2>3. CASE DeleteChunk(k)
      BY <2>3 DEF DeleteChunk
    <2>4. CASE CompleteOrphan(k)
      BY <2>4 DEF CompleteOrphan
    <2>5. CASE DeleteFails(k)
      BY <2>5 DEF DeleteFails
    <2> QED BY <1>3, <2>1, <2>2, <2>3, <2>4, <2>5 DEF CleanerStep
  <1>4. CASE ClaimExpires
    BY <1>4 DEF ClaimExpires
  <1>5. CASE UNCHANGED archiveVars
    BY <1>5 DEF archiveVars
  <1> QED BY <1>1, <1>2, <1>3, <1>4, <1>5 DEF ArchiveNext

\* The empty tables have the types.
LEMMA ArchiveInitType == ArchiveInit => ArchiveTypeOK
  <1> SUFFICES ASSUME ArchiveInit PROVE ArchiveTypeOK
    OBVIOUS
  <1>1. due \in BOOLEAN /\ object \in BOOLEAN /\ committed \in BOOLEAN
    BY Zenon DEF ArchiveInit
  <1> QED BY <1>1, LogArchiveAssumption DEF ArchiveInit, ArchiveTypeOK

\* Row, claim and steps keep their types, late appends included.
THEOREM ArchiveTypeCorrect == ArchiveSpec => []ArchiveTypeOK
  BY ArchiveInitType, ArchiveNextType, PTL DEF ArchiveSpec

\* What an append has committed with no cleaner between its look at the manifests and its
\* delete keeps its object for good, however often the chunk is announced, claimed and
\* cleaned up again (agent_execution.rs append_events; retention.rs cleanup_orphans).
THEOREM CommittedStays == ArchiveSpec => CommittedStaysStored
  <1>1. ASSUME ArchiveTypeOK, [ArchiveNext]_archiveVars, SafelyCommitted
        PROVE  SafelyCommitted'
    <2> USE DEF SafelyCommitted, ArchiveTypeOK, rowVars
    <2>1. ASSUME NEW h \in Appends, AppendStep(h) \/ AppendFails(h) PROVE SafelyCommitted'
      BY <1>1, <2>1 DEF AppendStep, AppendFails, Stage, PutObject, VerifyObject, CommitAppend
    <2>2. ASSUME NEW k \in Cleaners, CleanerStep(k) \/ DeleteFails(k) PROVE SafelyCommitted'
      <3>1. UNCHANGED committed /\ orphanCleaner[k] # "delete"
        BY <1>1, <2>2
           DEF CleanerStep, Claim, CheckCommitted, DeleteChunk, CompleteOrphan, DeleteFails
      <3>2. CASE CheckCommitted(k)
        <4>1. orphanCleaner' = [orphanCleaner EXCEPT ![k] = "settle"] /\ UNCHANGED object
          BY <1>1, <3>2 DEF CheckCommitted
        <4> QED BY <1>1, <3>1, <4>1
      <3>3. CASE Claim(k) \/ CompleteOrphan(k)
        BY <1>1, <3>1, <3>3 DEF Claim, CompleteOrphan
      <3>4. CASE DeleteChunk(k) \/ DeleteFails(k)
        BY <3>1, <3>4 DEF DeleteChunk, DeleteFails
      <3> QED BY <2>2, <3>2, <3>3, <3>4 DEF CleanerStep
    <2>3. CASE GracePasses \/ ClaimExpires
      BY <1>1, <2>3 DEF GracePasses, ClaimExpires
    <2>4. CASE UNCHANGED archiveVars
      BY <1>1, <2>4 DEF archiveVars
    <2> QED BY <1>1, <2>1, <2>2, <2>3, <2>4 DEF ArchiveNext
  <1>2. ArchiveTypeOK /\ [ArchiveNext]_archiveVars => [SafelyCommitted => SafelyCommitted']_archiveVars
    BY <1>1
  <1> QED BY <1>2, ArchiveTypeCorrect, PTL DEF ArchiveSpec, CommittedStaysStored
============================================================================
