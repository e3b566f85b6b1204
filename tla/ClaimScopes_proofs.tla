------------------------- MODULE ClaimScopes_proofs -------------------------
(***************************************************************************)
(* Concurrent claims keep every limit, for any number of claims, Pools,    *)
(* Projects, Build Configurations and Jobs.                                *)
(***************************************************************************)
EXTENDS ClaimScopes, FiniteSetTheorems, SequenceTheorems, WellFoundedInduction, TLAPS

----------------------------------------------------------------------------
(* Queue order                                                             *)

\* Some Jobs have a first one.
LEMMA FirstIsOne ==
    ASSUME NEW jobs \in SUBSET Jobs, jobs # {}
    PROVE  FirstOf(jobs) \in jobs
  <1> DEFINE T == {i \in DOMAIN JobOrder : JobOrder[i] \in jobs}
  <1>1. DOMAIN JobOrder \subseteq Nat
    BY ClaimScopesAssumption
  <1>2. T \subseteq Nat /\ T # {}
    BY <1>1 DEF Jobs
  <1> HIDE DEF T
  <1> DEFINE R == OpToRel(<, Nat)
  <1>a. \A k, m \in Nat : k < m => <<k, m>> \in R
    BY DEF OpToRel
  <1>b. IsWellFoundedOn(R, Nat)
    BY NatLessThanWellFounded
  <1> HIDE DEF R
  <1>3. PICK i \in T : \A k \in T : ~ (<<k, i>> \in R)
    BY <1>2, <1>b, WFMin
  <1>4. \A k \in T : i <= k
    <2> TAKE k \in T
    <2>1. i \in Nat /\ k \in Nat /\ ~ (k < i)
      BY <1>2, <1>3, <1>a
    <2> QED BY <2>1
  <1>5. \E m \in DOMAIN JobOrder :
           /\ JobOrder[m] \in jobs
           /\ \A k \in DOMAIN JobOrder : JobOrder[k] \in jobs => m <= k
    BY <1>4 DEF T
  <1> QED BY <1>5 DEF FirstOf

----------------------------------------------------------------------------
(* Counting positions                                                      *)

\* Sets of positions are finite.
LEMMA Positions ==
    ASSUME NEW n \in Nat, NEW S \in SUBSET (1 .. n)
    PROVE  IsFiniteSet(S) /\ Cardinality(S) \in Nat
  <1>1. IsFiniteSet(1 .. n)
    BY FS_Interval
  <1>2. IsFiniteSet(S)
    BY <1>1, FS_Subset
  <1> QED BY <1>2, FS_CardinalityType

\* Where the entry at position k was before the one at position i was taken out.
Before(i, k) == IF k < i THEN k ELSE k + 1

\* Taking an entry out never makes a count larger.
LEMMA CountShrinks ==
    ASSUME NEW n \in Nat, NEW i \in 1 .. n,
           NEW A \in SUBSET (1 .. n - 1), NEW B \in SUBSET (1 .. n),
           \A k \in A : Before(i, k) \in B
    PROVE  Cardinality(A) <= Cardinality(B)
  <1> DEFINE f == [k \in A |-> Before(i, k)]
  <1>1. f \in [A -> B]
    OBVIOUS
  <1>2. \A k, m \in A : f[k] = f[m] => k = m
    BY DEF Before
  <1>3. f \in Injection(A, B)
    BY <1>1, <1>2 DEF Injection, IsInjective
  <1>4. IsFiniteSet(B)
    BY Positions
  <1> QED BY <1>3, <1>4, FS_Injection

\* A sequence with one entry taken out.
LEMMA Removal ==
    ASSUME NEW T, NEW s \in Seq(T), NEW i \in DOMAIN s
    PROVE  LET r == SubSeq(s, 1, i - 1) \o SubSeq(s, i + 1, Len(s))
           IN  /\ r \in Seq(T)
               /\ Len(r) = Len(s) - 1
               /\ \A k \in 1 .. Len(s) - 1 : Before(i, k) \in 1 .. Len(s) /\ r[k] = s[Before(i, k)]
  <1> DEFINE a == SubSeq(s, 1, i - 1)
             b == SubSeq(s, i + 1, Len(s))
  <1>1. i \in 1 .. Len(s) /\ Len(s) \in Nat /\ \A k \in 1 .. Len(s) : s[k] \in T
    OBVIOUS
  <1>2. a \in Seq(T) /\ Len(a) = i - 1 /\ \A k \in 1 .. i - 1 : a[k] = s[k]
    <2>1. 1 .. i - 1 \subseteq 1 .. Len(s)
      BY <1>1
    <2> QED BY <1>1, <2>1
  <1>3. b \in Seq(T) /\ Len(b) = Len(s) - i /\ \A k \in 1 .. Len(s) - i : b[k] = s[i + k]
    <2>1. i + 1 \in Int /\ Len(s) \in Int /\ \A k \in i + 1 .. Len(s) : s[k] \in T
      BY <1>1
    <2>2. /\ b \in Seq(T)
          /\ Len(b) = IF i + 1 <= Len(s) THEN Len(s) - (i + 1) + 1 ELSE 0
          /\ \A k \in 1 .. Len(s) - (i + 1) + 1 : b[k] = s[i + 1 + k - 1]
      BY <2>1, SubSeqProperties
    <2> HIDE DEF b
    <2>3. Len(b) = Len(s) - i
      BY <1>1, <2>2
    <2>4. \A k \in 1 .. Len(s) - i : b[k] = s[i + k]
      <3> TAKE k \in 1 .. Len(s) - i
      <3>1. i + 1 + k - 1 = i + k /\ k \in 1 .. Len(s) - (i + 1) + 1
        BY <1>1
      <3> QED BY <2>2, <3>1
    <2> QED BY <2>2, <2>3, <2>4
  <1> HIDE DEF a, b
  <1>4. /\ a \o b \in Seq(T)
        /\ Len(a \o b) = Len(s) - 1
        /\ \A k \in 1 .. Len(s) - 1 : (a \o b)[k] = IF k <= i - 1 THEN a[k] ELSE b[k - (i - 1)]
    <2>1. /\ a \o b \in Seq(T)
          /\ Len(a \o b) = Len(a) + Len(b)
          /\ \A k \in 1 .. Len(a) + Len(b) :
                (a \o b)[k] = IF k <= Len(a) THEN a[k] ELSE b[k - Len(a)]
      BY <1>2, <1>3, ConcatProperties
    <2>2. Len(a) + Len(b) = Len(s) - 1
      BY <1>1, <1>2, <1>3
    <2> QED BY <1>2, <2>1, <2>2
  <1>5. \A k \in 1 .. Len(s) - 1 : Before(i, k) \in 1 .. Len(s) /\ (a \o b)[k] = s[Before(i, k)]
    <2> SUFFICES ASSUME NEW k \in 1 .. Len(s) - 1
                 PROVE  Before(i, k) \in 1 .. Len(s) /\ (a \o b)[k] = s[Before(i, k)]
      OBVIOUS
    <2>1. CASE k < i
      BY <1>1, <1>2, <1>4, <2>1 DEF Before
    <2>2. CASE ~ (k < i)
      <3>1. k - (i - 1) \in 1 .. Len(s) - i /\ i + (k - (i - 1)) = k + 1 /\ ~ (k <= i - 1)
        BY <1>1, <2>2
      <3>2. (a \o b)[k] = b[k - (i - 1)]
        BY <1>4, <3>1
      <3>3. b[k - (i - 1)] = s[k + 1]
        BY <1>3, <3>1
      <3> QED BY <1>1, <2>2, <3>2, <3>3 DEF Before
    <2> QED BY <2>1, <2>2
  <1> QED BY <1>4, <1>5 DEF a, b

\* A sequence with an entry put behind it.
LEMMA Extension ==
    ASSUME NEW T, NEW s \in Seq(T), NEW e \in T
    PROVE  /\ Append(s, e) \in Seq(T)
           /\ Len(s) \in Nat /\ DOMAIN s = 1 .. Len(s)
           /\ DOMAIN Append(s, e) = 1 .. Len(s) + 1
           /\ Append(s, e)[Len(s) + 1] = e
           /\ \A k \in 1 .. Len(s) : Append(s, e)[k] = s[k] /\ k # Len(s) + 1
  BY AppendProperties

----------------------------------------------------------------------------
(* Types                                                                   *)

\* A claim that ends lets go of its own locks only.
LEMMA ReleaseTyped ==
    ASSUME TypeOK, NEW c \in Claims, pc[c] # "idle", ReleaseAll(c)
    PROVE  /\ entryLock' \in [Jobs -> Claims \cup {None}]
           /\ poolLock' \in [Pools -> Claims \cup {None}]
           /\ scopeLock' \in [Scopes -> Claims \cup {None}]
           /\ pc' \in [Claims -> {"idle", "pool", "select", "entry", "project", "configuration",
                                  "recheck", "place"}]
           /\ page' \in [Claims -> SUBSET Jobs]
           /\ \A d \in Claims : pc'[d] # "idle" <=> poolLock'[PoolOf[d]] = d
  <1>1. \A d \in Claims : PoolOf[d] \in Pools
    BY DEF Pools
  <1>2. None \notin Claims
    BY ClaimScopesAssumption
  <1>3. \A d \in Claims : pc'[d] # "idle" <=> poolLock'[PoolOf[d]] = d
    <2> TAKE d \in Claims
    <2>1. CASE d = c
      BY <1>1, <1>2, <2>1 DEF ReleaseAll, Goto, TypeOK
    <2>2. CASE d # c
      BY <1>1, <1>2, <2>2 DEF ReleaseAll, Goto, TypeOK
    <2> QED BY <2>1, <2>2
  <1> QED BY <1>3 DEF ReleaseAll, Goto, TypeOK

\* The candidate of a claim that has one is a Job of its page.
LEMMA CandidateIsJob ==
    ASSUME TypeOK, NEW c \in Claims, page[c] # {}
    PROVE  Candidate(c) \in page[c] /\ Candidate(c) \in Jobs
  <1>1. page[c] \in SUBSET Jobs
    BY DEF TypeOK
  <1> QED BY <1>1, FirstIsOne DEF Candidate

----------------------------------------------------------------------------
(* The inductive invariant                                                 *)

Trying  == {"project", "configuration", "recheck", "place"}
Counted == {"configuration", "recheck", "place"}

\* A claim that goes on with a candidate has locked its queue entry, which is there.
HoldsEntry(c) ==
    pc[c] \in Trying =>
        page[c] # {} /\ Candidate(c) \in queue /\ entryLock[Candidate(c)] = c

\* Beyond a scope's step it has that scope's lock.
HoldsProject(c) == pc[c] \in Counted => scopeLock[ProjectOf[Candidate(c)]] = c
HoldsConfiguration(c) ==
    pc[c] \in {"recheck", "place"} => scopeLock[ConfigurationOf[Candidate(c)]] = c

\* The Pool has still the room that the claim has found.
HasRoom(c) ==
    pc[c] \notin {"idle", "pool"} => Cardinality(InPool(PoolOf[c])) < PoolLimit[PoolOf[c]]

\* What the second count said is still true when the lease is inserted.
StaysAllowed(c) == pc[c] = "place" => WithinLimits(Candidate(c))

ClaimInv(c) ==
    HoldsEntry(c) /\ HoldsProject(c) /\ HoldsConfiguration(c) /\ HasRoom(c) /\ StaysAllowed(c)

\* The lease of a Job is its only one, and the Job is not queued.
OneOwner ==
    \A i \in DOMAIN leases :
        /\ leases[i].job \notin queue
        /\ \A k \in DOMAIN leases : leases[k].job = leases[i].job => k = i

ScopesInv ==
    /\ TypeOK
    /\ \A c \in Claims : ClaimInv(c)
    /\ ScopeLimitsHold /\ PoolLimitHolds /\ OneOwner

----------------------------------------------------------------------------
(* A step of one claim and the other claims                                *)

\* What a step of claim c leaves to the others: where they are, what they try, and
\* every lock that one of them has.
OthersKept(c) ==
    \A d \in Claims \ {c} :
        /\ pc'[d] = pc[d] /\ page'[d] = page[d]
        /\ \A j \in Jobs : entryLock[j] = d => entryLock'[j] = d
        /\ \A s \in Scopes : scopeLock[s] = d => scopeLock'[s] = d

\* The end of a transaction frees its own locks and leaves those of the other claims.
LEMMA ReleaseKeepsOthers ==
    ASSUME TypeOK, NEW c \in Claims, ReleaseAll(c)
    PROVE  OthersKept(c)
  BY DEF ReleaseAll, Goto, TypeOK, OthersKept

\* No step of a claim takes a lock away from another.
LEMMA StepKeepsOthers ==
    ASSUME TypeOK, NEW c \in Claims, ClaimStep(c) \/ RollBack(c)
    PROVE  OthersKept(c)
  <1>1. None \notin Claims
    BY ClaimScopesAssumption
  <1>2. CASE LockPool(c)
    BY <1>2 DEF LockPool, Goto, TypeOK, OthersKept
  <1>3. CASE CheckPool(c)
    BY <1>3 DEF CheckPool, Goto, TypeOK, OthersKept
  <1>4. CASE PoolIsFull(c)
    BY <1>4, ReleaseKeepsOthers DEF PoolIsFull
  <1>5. CASE ReadPage(c)
    BY <1>5 DEF ReadPage, Goto, TypeOK, OthersKept
  <1>6. CASE Empty(c)
    BY <1>6, ReleaseKeepsOthers DEF Empty
  <1>7. CASE LockEntry(c)
    BY <1>1, <1>7 DEF LockEntry, PassOver, Goto, TypeOK, OthersKept
  <1>8. ASSUME NEW scope, NEW next, TryScope(c, scope, next)
        PROVE  OthersKept(c)
    BY <1>1, <1>8 DEF TryScope, PassOver, Goto, TypeOK, OthersKept
  <1>9. CASE TryProject(c)
    BY <1>8, <1>9 DEF TryProject
  <1>10. CASE TryConfiguration(c)
    BY <1>8, <1>10 DEF TryConfiguration
  <1>11. CASE Recheck(c)
    BY <1>11 DEF Recheck, PassOver, Goto, TypeOK, OthersKept
  <1>12. CASE Place(c) \/ RollBack(c)
    BY <1>12, ReleaseKeepsOthers DEF Place, RollBack
  <1> QED BY <1>2, <1>3, <1>4, <1>5, <1>6, <1>7, <1>9, <1>10, <1>11, <1>12 DEF ClaimStep

\* The others keep what they have found while the leases and the queue do not change.
LEMMA OthersUndisturbed ==
    ASSUME TypeOK, NEW c \in Claims, OthersKept(c), UNCHANGED <<leases, queue>>,
           NEW d \in Claims \ {c}, ClaimInv(d)
    PROVE  ClaimInv(d)'
  <1>1. pc'[d] = pc[d] /\ page'[d] = page[d] /\ Candidate(d)' = Candidate(d)
    BY DEF OthersKept, Candidate
  <1>2. /\ \A p : InPool(p)' = InPool(p)
        /\ \A j : WithinLimits(j)' = WithinLimits(j)
    BY DEF InPool, WithinLimits, InProject, InConfiguration
  <1>3. pc[d] \in Trying =>
          /\ ProjectOf[Candidate(d)] \in Scopes /\ ConfigurationOf[Candidate(d)] \in Scopes
          /\ Candidate(d) \in Jobs
    BY CandidateIsJob DEF ClaimInv, HoldsEntry, Scopes
  <1>4. HoldsEntry(d)' /\ HoldsProject(d)' /\ HoldsConfiguration(d)'
    BY <1>1, <1>3 DEF ClaimInv, HoldsEntry, HoldsProject, HoldsConfiguration, OthersKept,
                      Trying, Counted
  <1>5. HasRoom(d)'
    BY <1>1, <1>2 DEF ClaimInv, HasRoom
  <1>6. StaysAllowed(d)'
    BY <1>1, <1>2 DEF ClaimInv, StaysAllowed
  <1> QED BY <1>4, <1>5, <1>6 DEF ClaimInv

\* A claim that has ended has nothing to keep.
LEMMA Ended ==
    ASSUME NEW c \in Claims, pc'[c] = "idle"
    PROVE  ClaimInv(c)'
  BY DEF ClaimInv, HoldsEntry, HoldsProject, HoldsConfiguration, HasRoom, StaysAllowed, Trying,
         Counted

Quiet(c) ==
    \/ LockPool(c) \/ CheckPool(c) \/ PoolIsFull(c) \/ ReadPage(c) \/ Empty(c) \/ LockEntry(c)
    \/ TryProject(c) \/ TryConfiguration(c) \/ Recheck(c) \/ RollBack(c)

\* A step that only takes or passes over keeps the types.
LEMMA QuietTyped ==
    ASSUME TypeOK, NEW c \in Claims, Quiet(c)
    PROVE  TypeOK' /\ UNCHANGED <<leases, queue>>
  <1> USE DEF TypeOK
  <1>1. None \notin Claims /\ \A d \in Claims : PoolOf[d] \in Pools
    BY ClaimScopesAssumption DEF Pools
  <1>2. CASE LockPool(c)
    BY <1>1, <1>2 DEF LockPool, At, Goto
  <1>3. CASE CheckPool(c)
    BY <1>3 DEF CheckPool, At, Goto
  <1>4. CASE PoolIsFull(c) \/ Empty(c) \/ RollBack(c)
    BY <1>4, ReleaseTyped DEF PoolIsFull, Empty, RollBack, At
  <1>5. CASE ReadPage(c)
    BY <1>5 DEF ReadPage, At, Goto
  <1>7. CASE LockEntry(c)
    <2> DEFINE free == Candidate(c) \in queue /\ entryLock[Candidate(c)] \in {None, c}
    <2>1. CASE free
      BY <1>7, <2>1 DEF LockEntry, At, Goto
    <2>2. CASE ~ free
      BY <1>7, <2>2 DEF LockEntry, PassOver, At, Goto
    <2> QED BY <2>1, <2>2
  <1>8. ASSUME NEW scope, NEW next \in {"configuration", "recheck"}, TryScope(c, scope, next),
               pc[c] # "idle"
        PROVE  TypeOK' /\ UNCHANGED <<leases, queue>>
    <2>1. CASE scopeLock[scope] \in {None, c}
      BY <1>8, <2>1 DEF TryScope, Goto
    <2>2. CASE scopeLock[scope] \notin {None, c}
      BY <1>8, <2>2 DEF TryScope, PassOver, Goto
    <2> QED BY <2>1, <2>2
  <1>9. CASE TryProject(c)
    BY <1>8, <1>9 DEF TryProject, At
  <1>10. CASE TryConfiguration(c)
    BY <1>8, <1>10 DEF TryConfiguration, At
  <1>11. CASE Recheck(c)
    <2>1. CASE WithinLimits(Candidate(c))
      BY <1>11, <2>1 DEF Recheck, At, Goto
    <2>2. CASE ~ WithinLimits(Candidate(c))
      BY <1>11, <2>2 DEF Recheck, PassOver, At, Goto
    <2> QED BY <2>1, <2>2
  <1> QED BY <1>2, <1>3, <1>4, <1>5, <1>7, <1>9, <1>10, <1>11 DEF Quiet

\* A step that leaves the leases alone keeps what its claim has found.
LEMMA QuietKeeps ==
    ASSUME TypeOK, NEW c \in Claims, ClaimInv(c), Quiet(c)
    PROVE  ClaimInv(c)'
  <1>1. UNCHANGED <<leases, queue>> /\ TypeOK'
    BY QuietTyped
  <1>2. /\ \A p : InPool(p)' = InPool(p)
        /\ \A j : WithinLimits(j)' = WithinLimits(j)
    BY <1>1 DEF InPool, WithinLimits, InProject, InConfiguration
  <1>3. page'[c] = page[c] => Candidate(c)' = Candidate(c)
    BY DEF Candidate
  <1>4. pc[c] \in Trying =>
          /\ ProjectOf[Candidate(c)] \in Scopes /\ ConfigurationOf[Candidate(c)] \in Scopes
          /\ Candidate(c) \in Jobs
    BY CandidateIsJob DEF ClaimInv, HoldsEntry, Scopes
  <1> USE DEF ClaimInv, HoldsEntry, HoldsProject, HoldsConfiguration, HasRoom, StaysAllowed,
              Trying, Counted, At, Goto
  <1>5. CASE LockPool(c)
    BY <1>5 DEF LockPool, TypeOK
  <1>6. CASE CheckPool(c)
    BY <1>2, <1>6 DEF CheckPool, TypeOK
  <1>7. CASE PoolIsFull(c) \/ Empty(c) \/ RollBack(c)
    BY <1>7, Ended DEF PoolIsFull, Empty, RollBack, ReleaseAll, TypeOK
  <1>8. CASE ReadPage(c)
    BY <1>2, <1>8 DEF ReadPage, TypeOK
  <1>9. CASE LockEntry(c)
    <2>1. Candidate(c) \in Jobs
      BY <1>9, CandidateIsJob DEF LockEntry
    <2> QED BY <1>1, <1>2, <1>3, <1>9, <2>1 DEF LockEntry, PassOver, TypeOK
  <1>10. CASE TryProject(c)
    BY <1>1, <1>2, <1>3, <1>4, <1>10 DEF TryProject, TryScope, PassOver, TypeOK
  <1>11. CASE TryConfiguration(c)
    BY <1>1, <1>2, <1>3, <1>4, <1>11 DEF TryConfiguration, TryScope, PassOver, TypeOK
  <1>12. CASE Recheck(c)
    BY <1>1, <1>2, <1>3, <1>4, <1>12 DEF Recheck, PassOver, TypeOK
  <1> QED BY <1>5, <1>6, <1>7, <1>8, <1>9, <1>10, <1>11, <1>12 DEF Quiet

----------------------------------------------------------------------------
(* A lease is inserted                                                     *)

\* The claim that places has a Job, and the sequence of leases grows by it.
LEMMA PlaceGrows ==
    ASSUME TypeOK, NEW c \in Claims, HoldsEntry(c), Place(c)
    PROVE  /\ Candidate(c) \in Jobs /\ Candidate(c) \in queue
           /\ leases' \in Seq([job : Jobs, pool : Pools])
           /\ Len(leases) \in Nat /\ DOMAIN leases = 1 .. Len(leases)
           /\ DOMAIN leases' = 1 .. Len(leases) + 1
           /\ leases'[Len(leases) + 1] = [job |-> Candidate(c), pool |-> PoolOf[c]]
           /\ \A k \in 1 .. Len(leases) : leases'[k] = leases[k] /\ k # Len(leases) + 1
  <1>1. page[c] # {} /\ Candidate(c) \in queue
    BY DEF Place, At, HoldsEntry, Trying
  <1>2. Candidate(c) \in Jobs /\ PoolOf[c] \in Pools
    BY <1>1, CandidateIsJob DEF Pools
  <1> DEFINE T == [job : Jobs, pool : Pools]
             e == [job |-> Candidate(c), pool |-> PoolOf[c]]
  <1>3. e \in T
    BY <1>2
  <1>4. leases \in Seq(T) /\ leases' = Append(leases, e)
    BY DEF TypeOK, Place
  <1> HIDE DEF T, e
  <1>5. /\ leases' \in Seq(T)
        /\ Len(leases) \in Nat /\ DOMAIN leases = 1 .. Len(leases)
        /\ DOMAIN leases' = 1 .. Len(leases) + 1
        /\ leases'[Len(leases) + 1] = e
        /\ \A k \in 1 .. Len(leases) : leases'[k] = leases[k] /\ k # Len(leases) + 1
    BY <1>3, <1>4, Extension
  <1> QED BY <1>1, <1>2, <1>5 DEF T, e

\* A placement keeps the types.
LEMMA PlaceTyped ==
    ASSUME TypeOK, NEW c \in Claims, HoldsEntry(c), Place(c)
    PROVE  TypeOK'
  <1>1. leases' \in Seq([job : Jobs, pool : Pools])
    BY PlaceGrows
  <1>2. pc[c] # "idle" /\ ReleaseAll(c)
    BY DEF Place, At
  <1>3. queue' \subseteq Jobs
    BY DEF TypeOK, Place
  <1> QED BY <1>1, <1>2, <1>3, ReleaseTyped DEF TypeOK

\* What is counted with the new lease, and what is not.
LEMMA PlaceCounts ==
    ASSUME TypeOK, NEW c \in Claims, HoldsEntry(c), Place(c)
    PROVE  LET n == Len(leases) + 1
               j == Candidate(c)
           IN  /\ \A p : InPool(p)' = IF p = PoolOf[c] THEN InPool(p) \cup {n} ELSE InPool(p)
               /\ \A k : InProject(k)' = IF ProjectOf[k] = ProjectOf[j]
                                         THEN InProject(k) \cup {n} ELSE InProject(k)
               /\ \A k : InConfiguration(k)' = IF ConfigurationOf[k] = ConfigurationOf[j]
                                               THEN InConfiguration(k) \cup {n}
                                               ELSE InConfiguration(k)
  <1> DEFINE n == Len(leases) + 1
             j == Candidate(c)
  <1>1. /\ DOMAIN leases' = DOMAIN leases \cup {n} /\ n \notin DOMAIN leases
        /\ leases'[n].job = j /\ leases'[n].pool = PoolOf[c]
        /\ \A k \in DOMAIN leases : leases'[k] = leases[k]
    <2>1. /\ Len(leases) \in Nat /\ DOMAIN leases = 1 .. Len(leases)
          /\ DOMAIN leases' = 1 .. Len(leases) + 1
          /\ leases'[n] = [job |-> j, pool |-> PoolOf[c]]
          /\ \A k \in 1 .. Len(leases) : leases'[k] = leases[k]
      BY PlaceGrows
    <2>2. 1 .. Len(leases) + 1 = 1 .. Len(leases) \cup {n} /\ n \notin 1 .. Len(leases)
      BY <2>1
    <2> HIDE DEF n, j
    <2> QED BY <2>1, <2>2
  <1> HIDE DEF n, j
  <1>2. \A p : InPool(p)' = IF p = PoolOf[c] THEN InPool(p) \cup {n} ELSE InPool(p)
    BY <1>1 DEF InPool
  <1>3. \A k : InProject(k)' = IF ProjectOf[k] = ProjectOf[j]
                               THEN InProject(k) \cup {n} ELSE InProject(k)
    BY <1>1 DEF InProject
  <1>4. \A k : InConfiguration(k)' = IF ConfigurationOf[k] = ConfigurationOf[j]
                                     THEN InConfiguration(k) \cup {n} ELSE InConfiguration(k)
    BY <1>1 DEF InConfiguration
  <1> QED BY <1>2, <1>3, <1>4 DEF n, j

\* One more position: one more to count.
LEMMA OneMore ==
    ASSUME NEW n \in Nat, NEW S \in SUBSET (1 .. n), NEW limit \in Nat, Cardinality(S) < limit
    PROVE  Cardinality(S \cup {n + 1}) <= limit
  <1>1. IsFiniteSet(S) /\ Cardinality(S) \in Nat /\ n + 1 \notin S
    <2>1. n + 1 \notin S
      OBVIOUS
    <2> QED BY <2>1, Positions
  <1>2. Cardinality(S \cup {n + 1}) = Cardinality(S) + 1
    BY <1>1, FS_AddElement
  <1> QED BY <1>1, <1>2

\* Positions up to a smaller one are counted as before; up to the new one, all are.
LEMMA UpToNew ==
    ASSUME NEW n \in Nat, NEW S \in SUBSET (1 .. n)
    PROVE  /\ \A i \in 1 .. n : UpTo(i, S \cup {n + 1}) = UpTo(i, S)
           /\ UpTo(n + 1, S \cup {n + 1}) = Cardinality(S \cup {n + 1})
  <1>1. \A i \in 1 .. n : {k \in S \cup {n + 1} : k <= i} = {k \in S : k <= i}
    OBVIOUS
  <1>2. {k \in S \cup {n + 1} : k <= n + 1} = S \cup {n + 1}
    <2>1. \A k \in S \cup {n + 1} : k <= n + 1
      OBVIOUS
    <2> QED BY <2>1
  <1> QED BY <1>1, <1>2 DEF UpTo

\* Counts are over positions.
LEMMA CountsArePositions ==
    ASSUME TypeOK
    PROVE  /\ Len(leases) \in Nat /\ DOMAIN leases = 1 .. Len(leases)
           /\ \A i \in DOMAIN leases : leases[i].job \in Jobs /\ leases[i].pool \in Pools
           /\ \A p : InPool(p) \in SUBSET (1 .. Len(leases))
           /\ \A k : InProject(k) \in SUBSET (1 .. Len(leases))
           /\ \A k : InConfiguration(k) \in SUBSET (1 .. Len(leases))
  <1> DEFINE T == [job : Jobs, pool : Pools]
  <1>1. leases \in Seq(T)
    BY DEF TypeOK
  <1> HIDE DEF T
  <1>2. Len(leases) \in Nat /\ DOMAIN leases = 1 .. Len(leases)
    BY <1>1
  <1>3. \A i \in DOMAIN leases : leases[i] \in T
    BY <1>1
  <1> USE DEF T
  <1>4. \A i \in DOMAIN leases : leases[i].job \in Jobs /\ leases[i].pool \in Pools
    BY <1>3
  <1> QED BY <1>2, <1>4 DEF InPool, InProject, InConfiguration

\* A claim that places stays within the limits of the scopes it has locked.
LEMMA PlaceKeepsScopeLimits ==
    ASSUME ScopesInv, NEW c \in Claims, Place(c)
    PROVE  ScopeLimitsHold'
  <1>a. PICK n, j : n = Len(leases) /\ j = Candidate(c)
    OBVIOUS
  <1>1. TypeOK /\ HoldsEntry(c) /\ WithinLimits(j) /\ ScopeLimitsHold
    BY <1>a DEF ScopesInv, ClaimInv, StaysAllowed, Place, At
  <1>b. n \in Nat /\ DOMAIN leases = 1 .. n /\ \A i \in 1 .. n : leases[i].job \in Jobs
    BY <1>1, <1>a, CountsArePositions
  <1>c. /\ DOMAIN leases' = 1 .. n + 1
        /\ leases'[n + 1].job = j /\ j \in Jobs
        /\ \A i \in 1 .. n : leases'[i] = leases[i]
    <2>1. leases'[n + 1] = [job |-> j, pool |-> PoolOf[c]] /\ j \in Jobs
      BY <1>1, <1>a, PlaceGrows
    <2>2. DOMAIN leases' = 1 .. n + 1 /\ \A i \in 1 .. n : leases'[i] = leases[i]
      BY <1>1, <1>a, PlaceGrows
    <2> QED BY <2>1, <2>2
  <1>3. \A k : InProject(k) \in SUBSET (1 .. n) /\ InConfiguration(k) \in SUBSET (1 .. n)
    BY <1>1, <1>a, CountsArePositions
  <1>4. /\ \A k : InProject(k)' = InProject(k) \/ InProject(k)' = InProject(k) \cup {n + 1}
        /\ \A k : \/ InConfiguration(k)' = InConfiguration(k)
                  \/ InConfiguration(k)' = InConfiguration(k) \cup {n + 1}
        /\ InProject(j)' = InProject(j) \cup {n + 1}
        /\ InConfiguration(j)' = InConfiguration(j) \cup {n + 1}
    BY <1>1, <1>a, PlaceCounts
  <1>5. /\ ProjectLimit[j] \in Nat /\ ConfigurationLimit[j] \in Nat
        /\ Cardinality(InProject(j)) < ProjectLimit[j]
        /\ Cardinality(InConfiguration(j)) < ConfigurationLimit[j]
    BY <1>1, <1>c, ClaimScopesAssumption DEF WithinLimits
  <1>6. SUFFICES ASSUME NEW i \in DOMAIN leases', NEW g, g = leases'[i].job
                 PROVE  /\ UpTo(i, InProject(g)') <= ProjectLimit[g]
                        /\ UpTo(i, InConfiguration(g)') <= ConfigurationLimit[g]
    BY DEF ScopeLimitsHold, InProject, InConfiguration
  <1>7. CASE i = n + 1
    <2>1. g = j
      BY <1>c, <1>6, <1>7
    <2>2. /\ Cardinality(InProject(j) \cup {n + 1}) <= ProjectLimit[j]
          /\ Cardinality(InConfiguration(j) \cup {n + 1}) <= ConfigurationLimit[j]
      BY <1>b, <1>3, <1>5, OneMore
    <2>3. /\ UpTo(n + 1, InProject(j)') = Cardinality(InProject(j) \cup {n + 1})
          /\ UpTo(n + 1, InConfiguration(j)') = Cardinality(InConfiguration(j) \cup {n + 1})
      BY <1>b, <1>3, <1>4, UpToNew
    <2> QED BY <1>7, <2>1, <2>2, <2>3
  <1>8. CASE i \in 1 .. n
    <2>1. g = leases[i].job
      BY <1>c, <1>6, <1>8
    <2>2. /\ UpTo(i, InProject(g)) <= ProjectLimit[g]
          /\ UpTo(i, InConfiguration(g)) <= ConfigurationLimit[g]
      BY <1>1, <1>b, <1>8, <2>1 DEF ScopeLimitsHold
    <2>3. UpTo(i, InProject(g)') = UpTo(i, InProject(g))
      BY <1>b, <1>3, <1>4, <1>8, UpToNew
    <2>4. UpTo(i, InConfiguration(g)') = UpTo(i, InConfiguration(g))
      BY <1>b, <1>3, <1>4, <1>8, UpToNew
    <2> QED BY <2>2, <2>3, <2>4
  <1> QED BY <1>b, <1>c, <1>7, <1>8

\* A placement stays within the limit of its Pool, which the claim has locked.
LEMMA PlaceKeepsPoolLimit ==
    ASSUME ScopesInv, NEW c \in Claims, Place(c)
    PROVE  PoolLimitHolds'
  <1>1. PICK n : n = Len(leases)
    OBVIOUS
  <1>2. TypeOK /\ HoldsEntry(c) /\ PoolLimitHolds
    BY DEF ScopesInv, ClaimInv
  <1>3. PoolOf[c] \in Pools /\ Cardinality(InPool(PoolOf[c])) < PoolLimit[PoolOf[c]]
    BY DEF ScopesInv, ClaimInv, HasRoom, Place, At, Pools
  <1>4. n \in Nat /\ \A p : InPool(p) \in SUBSET (1 .. n)
    BY <1>1, <1>2, CountsArePositions
  <1>5. \A p : InPool(p)' = IF p = PoolOf[c] THEN InPool(p) \cup {n + 1} ELSE InPool(p)
    BY <1>1, <1>2, PlaceCounts
  <1>6. \A p \in Pools : PoolLimit[p] \in Nat
    BY ClaimScopesAssumption
  <1>7. ASSUME NEW p \in Pools
        PROVE  Cardinality(InPool(p)') <= PoolLimit[p]
    <2>1. CASE p = PoolOf[c]
      BY <1>3, <1>4, <1>5, <1>6, <2>1, OneMore
    <2>2. CASE p # PoolOf[c]
      BY <1>2, <1>5, <2>2 DEF PoolLimitHolds
    <2> QED BY <2>1, <2>2
  <1> QED BY <1>7 DEF PoolLimitHolds

\* A placement gives its Job its only lease: the queue entry goes with it.
LEMMA PlaceKeepsOwner ==
    ASSUME ScopesInv, NEW c \in Claims, Place(c)
    PROVE  OneOwner'
  <1>1. PICK n, j : n = Len(leases) /\ j = Candidate(c)
    OBVIOUS
  <1>2. TypeOK /\ HoldsEntry(c) /\ OneOwner
    BY DEF ScopesInv, ClaimInv
  <1>3. /\ n \in Nat /\ DOMAIN leases = 1 .. n /\ DOMAIN leases' = 1 .. n + 1
        /\ leases'[n + 1].job = j /\ j \in queue
        /\ \A i \in 1 .. n : leases'[i] = leases[i]
    <2>1. leases'[n + 1] = [job |-> j, pool |-> PoolOf[c]] /\ j \in queue
      BY <1>1, <1>2, PlaceGrows
    <2>2. /\ n \in Nat /\ DOMAIN leases = 1 .. n /\ DOMAIN leases' = 1 .. n + 1
          /\ \A i \in 1 .. n : leases'[i] = leases[i]
      BY <1>1, <1>2, PlaceGrows
    <2> QED BY <2>1, <2>2
  <1>4. queue' = queue \ {j}
    BY <1>1 DEF Place
  <1>5. \A i \in 1 .. n : leases[i].job \notin queue /\ leases[i].job # j
    BY <1>2, <1>3 DEF OneOwner
  <1>6. \A i \in 1 .. n + 1 : i \in 1 .. n \/ i = n + 1
    BY <1>3
  <1> QED BY <1>2, <1>3, <1>4, <1>5, <1>6 DEF OneOwner

\* The others have other Pools, scopes and Jobs: their locks say so.
LEMMA PlaceLeavesOthers ==
    ASSUME ScopesInv, NEW c \in Claims, Place(c), NEW d \in Claims \ {c}
    PROVE  ClaimInv(d)'
  <1>0. PICK j, g : j = Candidate(c) /\ g = Candidate(d)
    OBVIOUS
  <1>1. TypeOK /\ ClaimInv(c) /\ ClaimInv(d)
    BY DEF ScopesInv
  <1>2. OthersKept(c)
    BY <1>1, StepKeepsOthers DEF ClaimStep
  <1>3. pc'[d] = pc[d] /\ page'[d] = page[d] /\ Candidate(d)' = g
    BY <1>0, <1>2 DEF OthersKept, Candidate
  <1>4. /\ entryLock[j] = c /\ scopeLock[ProjectOf[j]] = c
        /\ scopeLock[ConfigurationOf[j]] = c /\ queue' = queue \ {j}
        /\ poolLock[PoolOf[c]] = c
    BY <1>0, <1>1 DEF ClaimInv, HoldsEntry, HoldsProject, HoldsConfiguration, Place, At, Trying,
                      Counted, TypeOK
  <1>5. pc[d] \in Trying =>
          /\ page[d] # {} /\ g \in queue /\ entryLock[g] = d /\ g \in Jobs
          /\ ProjectOf[g] \in Scopes /\ ConfigurationOf[g] \in Scopes
    BY <1>0, <1>1, CandidateIsJob DEF ClaimInv, HoldsEntry, Scopes
  <1>6. HoldsEntry(d)' /\ HoldsProject(d)' /\ HoldsConfiguration(d)'
    BY <1>0, <1>1, <1>2, <1>3, <1>4, <1>5
       DEF ClaimInv, HoldsEntry, HoldsProject, HoldsConfiguration, OthersKept, Trying, Counted
  <1>7. HasRoom(d)'
    <2>1. pc[d] # "idle" => PoolOf[d] # PoolOf[c]
      BY <1>1, <1>4 DEF TypeOK
    <2>2. pc[d] # "idle" => InPool(PoolOf[d])' = InPool(PoolOf[d])
      BY <1>1, <2>1, PlaceCounts DEF ClaimInv
    <2> QED BY <1>1, <1>3, <2>2 DEF ClaimInv, HasRoom
  <1>8. StaysAllowed(d)'
    <2> SUFFICES ASSUME pc[d] = "place" PROVE WithinLimits(g)'
      BY <1>3 DEF StaysAllowed
    <2>1. ProjectOf[g] # ProjectOf[j] /\ ConfigurationOf[g] # ConfigurationOf[j]
      BY <1>0, <1>1, <1>4 DEF ClaimInv, HoldsProject, HoldsConfiguration, Counted
    <2>2. InProject(g)' = InProject(g) /\ InConfiguration(g)' = InConfiguration(g)
      BY <1>0, <1>1, <2>1, PlaceCounts DEF ClaimInv
    <2> QED BY <1>0, <1>1, <2>2 DEF ClaimInv, StaysAllowed, WithinLimits
  <1> QED BY <1>6, <1>7, <1>8 DEF ClaimInv

----------------------------------------------------------------------------
(* A lease ends                                                            *)

\* The remaining leases keep their order and their contents.
LEMMA EndShrinks ==
    ASSUME TypeOK, NEW i \in DOMAIN leases, NEW requeue \in BOOLEAN, LeaseEnds(i, requeue)
    PROVE  /\ leases' \in Seq([job : Jobs, pool : Pools])
           /\ Len(leases) \in Nat /\ DOMAIN leases = 1 .. Len(leases)
           /\ DOMAIN leases' = 1 .. Len(leases) - 1
           /\ \A k \in 1 .. Len(leases) - 1 :
                 Before(i, k) \in 1 .. Len(leases) /\ leases'[k] = leases[Before(i, k)]
  <1> DEFINE T == [job : Jobs, pool : Pools]
  <1>1. leases \in Seq(T)
    BY DEF TypeOK
  <1>2. leases' = SubSeq(leases, 1, i - 1) \o SubSeq(leases, i + 1, Len(leases))
    BY DEF LeaseEnds
  <1> HIDE DEF T
  <1>3. /\ leases' \in Seq(T)
        /\ Len(leases') = Len(leases) - 1
        /\ \A k \in 1 .. Len(leases) - 1 :
              Before(i, k) \in 1 .. Len(leases) /\ leases'[k] = leases[Before(i, k)]
    BY <1>1, <1>2, Removal
  <1>4. Len(leases) \in Nat /\ DOMAIN leases = 1 .. Len(leases) /\ DOMAIN leases' = 1 .. Len(leases')
    BY <1>1, <1>3
  <1> QED BY <1>3, <1>4 DEF T

\* The positions keep their order.
LEMMA BeforeOrder ==
    ASSUME NEW i \in Nat, NEW k \in Nat, NEW m \in Nat
    PROVE  /\ k <= m => Before(i, k) <= Before(i, m)
           /\ Before(i, k) # i
           /\ Before(i, k) = Before(i, m) => k = m
  BY DEF Before

\* A count and a later one that is not larger.
Shrinks(before, after) == before \in Nat /\ after \in Nat /\ after <= before

\* No count grows when a lease ends: not of a Pool, not of a scope, and not of what was
\* granted before some other lease.
LEMMA EndCounts ==
    ASSUME TypeOK, NEW i \in DOMAIN leases, NEW requeue \in BOOLEAN, LeaseEnds(i, requeue)
    PROVE  /\ \A p : Shrinks(Cardinality(InPool(p)), Cardinality(InPool(p)'))
           /\ \A g : Shrinks(Cardinality(InProject(g)), Cardinality(InProject(g)'))
           /\ \A g : Shrinks(Cardinality(InConfiguration(g)), Cardinality(InConfiguration(g)'))
           /\ \A g : \A k \in 1 .. Len(leases) - 1 :
                 /\ Shrinks(UpTo(Before(i, k), InProject(g)), UpTo(k, InProject(g)'))
                 /\ Shrinks(UpTo(Before(i, k), InConfiguration(g)), UpTo(k, InConfiguration(g)'))
  <1>0. PICK n : n = Len(leases)
    OBVIOUS
  <1>1. /\ n \in Nat /\ DOMAIN leases = 1 .. n /\ DOMAIN leases' = 1 .. n - 1 /\ i \in 1 .. n
        /\ \A k \in 1 .. n - 1 : Before(i, k) \in 1 .. n /\ leases'[k] = leases[Before(i, k)]
    BY <1>0, EndShrinks
  <1>2. \A p : /\ InPool(p)' \in SUBSET (1 .. n - 1) /\ InPool(p) \in SUBSET (1 .. n)
               /\ \A k \in InPool(p)' : Before(i, k) \in InPool(p)
    BY <1>1 DEF InPool
  <1>3. \A g : /\ InProject(g)' \in SUBSET (1 .. n - 1) /\ InProject(g) \in SUBSET (1 .. n)
               /\ \A k \in InProject(g)' : Before(i, k) \in InProject(g)
    BY <1>1 DEF InProject
  <1>4. \A g : /\ InConfiguration(g)' \in SUBSET (1 .. n - 1)
               /\ InConfiguration(g) \in SUBSET (1 .. n)
               /\ \A k \in InConfiguration(g)' : Before(i, k) \in InConfiguration(g)
    BY <1>1 DEF InConfiguration
  <1>5. ASSUME NEW A \in SUBSET (1 .. n - 1), NEW B \in SUBSET (1 .. n),
               \A k \in A : Before(i, k) \in B
        PROVE  /\ Shrinks(Cardinality(B), Cardinality(A))
               /\ \A k \in 1 .. n - 1 : Shrinks(UpTo(Before(i, k), B), UpTo(k, A))
    <2>0. \A S \in SUBSET (1 .. n) : Cardinality(S) \in Nat
      BY <1>1, Positions
    <2>1. Shrinks(Cardinality(B), Cardinality(A))
      <3>1. A \in SUBSET (1 .. n)
        BY <1>1
      <3> QED BY <1>1, <1>5, <2>0, <3>1, CountShrinks DEF Shrinks
    <2>2. ASSUME NEW k \in 1 .. n - 1
          PROVE  Shrinks(UpTo(Before(i, k), B), UpTo(k, A))
      <3> DEFINE C == {m \in A : m <= k}
                 D == {m \in B : m <= Before(i, k)}
      <3>0. 1 .. n - 1 \subseteq 1 .. n
        BY <1>1
      <3>1. C \in SUBSET (1 .. n - 1) /\ C \in SUBSET (1 .. n) /\ D \in SUBSET (1 .. n)
        BY <3>0
      <3>2. \A m \in C : Before(i, m) \in D
        <4> TAKE m \in C
        <4>1. m \in A /\ m <= k /\ m \in Nat /\ k \in Nat /\ i \in Nat
          BY <1>1
        <4> QED BY <1>5, <4>1, BeforeOrder
      <3> HIDE DEF C, D
      <3>3. Cardinality(C) <= Cardinality(D)
        BY <1>1, <3>1, <3>2, CountShrinks
      <3> QED BY <2>0, <3>1, <3>3 DEF C, D, UpTo, Shrinks
    <2> QED BY <2>1, <2>2
  <1> QED BY <1>0, <1>2, <1>3, <1>4, <1>5

\* The end of a lease keeps the types.
LEMMA EndTyped ==
    ASSUME TypeOK, NEW i \in DOMAIN leases, NEW requeue \in BOOLEAN, LeaseEnds(i, requeue)
    PROVE  TypeOK'
  <1>1. leases' \in Seq([job : Jobs, pool : Pools])
    BY EndShrinks
  <1>2. leases[i].job \in Jobs
    BY CountsArePositions
  <1> QED BY <1>1, <1>2 DEF TypeOK, LeaseEnds

\* When a lease ends, everybody has at least the room they had.
LEMMA EndKeeps ==
    ASSUME ScopesInv, NEW i \in DOMAIN leases, NEW requeue \in BOOLEAN, LeaseEnds(i, requeue)
    PROVE  ScopesInv'
  <1>0. TypeOK /\ ScopeLimitsHold /\ PoolLimitHolds /\ OneOwner
    BY DEF ScopesInv
  <1>1. /\ \A p : Shrinks(Cardinality(InPool(p)), Cardinality(InPool(p)'))
        /\ \A g : Shrinks(Cardinality(InProject(g)), Cardinality(InProject(g)'))
        /\ \A g : Shrinks(Cardinality(InConfiguration(g)), Cardinality(InConfiguration(g)'))
    BY <1>0, EndCounts
  <1>2. PICK n : n = Len(leases)
    OBVIOUS
  <1>3. \A g : \A k \in 1 .. n - 1 :
           /\ Shrinks(UpTo(Before(i, k), InProject(g)), UpTo(k, InProject(g)'))
           /\ Shrinks(UpTo(Before(i, k), InConfiguration(g)), UpTo(k, InConfiguration(g)'))
    BY <1>0, <1>2, EndCounts
  <1>4. /\ n \in Nat /\ DOMAIN leases = 1 .. n /\ DOMAIN leases' = 1 .. n - 1
        /\ \A k \in 1 .. n - 1 : Before(i, k) \in 1 .. n /\ leases'[k] = leases[Before(i, k)]
    BY <1>0, <1>2, EndShrinks
  <1>5. /\ \A p \in Pools : PoolLimit[p] \in Nat
        /\ \A j \in Jobs : ProjectLimit[j] \in Nat /\ ConfigurationLimit[j] \in Nat
    BY ClaimScopesAssumption
  <1>6. \A c \in Claims : ClaimInv(c)'
    <2> TAKE c \in Claims
    <2>0. ClaimInv(c)
      BY DEF ScopesInv
    <2>1. PICK g : g = Candidate(c)
      OBVIOUS
    <2>2. /\ UNCHANGED <<entryLock, poolLock, scopeLock, pc, page>> /\ queue \subseteq queue'
          /\ Candidate(c)' = g
      BY <2>1 DEF LeaseEnds, Candidate
    <2>3. HoldsEntry(c)' /\ HoldsProject(c)' /\ HoldsConfiguration(c)'
      BY <2>0, <2>1, <2>2 DEF ClaimInv, HoldsEntry, HoldsProject, HoldsConfiguration
    <2>4. HasRoom(c)'
      <3>1. PoolLimit[PoolOf[c]] \in Nat
        BY <1>5 DEF Pools
      <3>2. Shrinks(Cardinality(InPool(PoolOf[c])), Cardinality(InPool(PoolOf[c])'))
        BY <1>1
      <3> QED BY <2>0, <2>2, <3>1, <3>2 DEF ClaimInv, HasRoom, Shrinks
    <2>5. StaysAllowed(c)'
      <3> SUFFICES ASSUME pc[c] = "place" PROVE WithinLimits(g)'
        BY <2>2 DEF StaysAllowed
      <3>1. g \in Jobs /\ WithinLimits(g)
        BY <1>0, <2>0, <2>1, CandidateIsJob DEF ClaimInv, HoldsEntry, StaysAllowed, Trying
      <3> QED BY <1>1, <1>5, <3>1 DEF WithinLimits, Shrinks
    <2> QED BY <2>3, <2>4, <2>5 DEF ClaimInv
  <1>7. ScopeLimitsHold'
    <2> SUFFICES ASSUME NEW k \in DOMAIN leases', NEW g, g = leases'[k].job
                 PROVE  /\ UpTo(k, InProject(g)') <= ProjectLimit[g]
                        /\ UpTo(k, InConfiguration(g)') <= ConfigurationLimit[g]
      BY DEF ScopeLimitsHold, InProject, InConfiguration
    <2>1. Before(i, k) \in DOMAIN leases /\ g = leases[Before(i, k)].job /\ k \in 1 .. n - 1
      BY <1>4
    <2>2. g \in Jobs
      BY <1>0, <2>1, CountsArePositions
    <2>3. /\ UpTo(Before(i, k), InProject(g)) <= ProjectLimit[g]
          /\ UpTo(Before(i, k), InConfiguration(g)) <= ConfigurationLimit[g]
      BY <1>0, <2>1 DEF ScopeLimitsHold
    <2> QED BY <1>3, <1>5, <2>1, <2>2, <2>3 DEF Shrinks
  <1>8. PoolLimitHolds'
    BY <1>0, <1>1, <1>5 DEF PoolLimitHolds, Shrinks
  <1>9. OneOwner'
    <2>1. i \in 1 .. n
      BY <1>4
    <2>2. queue' \subseteq queue \cup {leases[i].job}
      BY DEF LeaseEnds
    <2>3. ASSUME NEW k \in 1 .. n - 1
          PROVE  /\ Before(i, k) \in DOMAIN leases /\ Before(i, k) # i
                 /\ leases'[k].job = leases[Before(i, k)].job
      BY <1>4, <2>1, BeforeOrder
    <2>4. ASSUME NEW k \in 1 .. n - 1
          PROVE  leases'[k].job \notin queue'
      BY <1>0, <1>4, <2>1, <2>2, <2>3 DEF OneOwner
    <2>5. ASSUME NEW k \in 1 .. n - 1, NEW m \in 1 .. n - 1, leases'[m].job = leases'[k].job
          PROVE  m = k
      <3>1. Before(i, m) = Before(i, k)
        BY <1>0, <2>3, <2>5 DEF OneOwner
      <3> QED BY <2>1, <3>1, BeforeOrder
    <2> QED BY <1>4, <2>4, <2>5 DEF OneOwner
  <1>10. TypeOK'
    BY <1>0, EndTyped
  <1> QED BY <1>6, <1>7, <1>8, <1>9, <1>10 DEF ScopesInv

----------------------------------------------------------------------------
(* The theorems                                                            *)

\* Initially no claim is at work and nothing is placed.
LEMMA ScopesInitially ==
    ASSUME Init
    PROVE  ScopesInv
  <1>1. leases = <<>> /\ DOMAIN leases = {} /\ pc = [c \in Claims |-> "idle"]
    BY DEF Init
  <1>2. leases \in Seq([job : Jobs, pool : Pools])
    BY <1>1
  <1>3. \A c \in Claims : PoolOf[c] \in Pools /\ None # c
    BY ClaimScopesAssumption DEF Pools
  <1>4. TypeOK
    BY <1>2, <1>3 DEF Init, TypeOK
  <1>5. \A c \in Claims : ClaimInv(c)
    BY <1>1 DEF ClaimInv, HoldsEntry, HoldsProject, HoldsConfiguration, HasRoom, StaysAllowed,
                Trying, Counted
  <1>6. ScopeLimitsHold /\ OneOwner
    BY <1>1 DEF ScopeLimitsHold, OneOwner
  <1>7. PoolLimitHolds
    <2>1. \A p : InPool(p) = {}
      BY <1>1 DEF InPool
    <2>2. Cardinality({}) = 0
      BY FS_EmptySet
    <2>3. \A p \in Pools : PoolLimit[p] \in Nat
      BY ClaimScopesAssumption
    <2> QED BY <2>1, <2>2, <2>3 DEF PoolLimitHolds
  <1> QED BY <1>4, <1>5, <1>6, <1>7 DEF ScopesInv

\* Every step of a claim, every lease that ends and every step of nobody keep it.
LEMMA ScopesStep ==
    ASSUME ScopesInv, [Next]_vars
    PROVE  ScopesInv'
  <1>0. TypeOK /\ \A c \in Claims : ClaimInv(c)
    BY DEF ScopesInv
  <1>1. ASSUME NEW c \in Claims, Quiet(c)
        PROVE  ScopesInv'
    <2>1. TypeOK' /\ UNCHANGED <<leases, queue>>
      BY <1>0, <1>1, QuietTyped
    <2>2. OthersKept(c)
      BY <1>0, <1>1, StepKeepsOthers DEF Quiet, ClaimStep
    <2>3. \A d \in Claims : ClaimInv(d)'
      BY <1>0, <1>1, <2>1, <2>2, QuietKeeps, OthersUndisturbed
    <2>4. ScopeLimitsHold' /\ PoolLimitHolds' /\ OneOwner'
      BY <2>1 DEF ScopesInv, ScopeLimitsHold, PoolLimitHolds, OneOwner, InPool, InProject,
                  InConfiguration
    <2> QED BY <2>1, <2>3, <2>4 DEF ScopesInv
  <1>2. ASSUME NEW c \in Claims, Place(c)
        PROVE  ScopesInv'
    <2>1. TypeOK'
      BY <1>0, <1>2, PlaceTyped DEF ClaimInv
    <2>2. pc'[c] = "idle"
      BY <1>0, <1>2 DEF Place, ReleaseAll, Goto, TypeOK
    <2>3. \A d \in Claims : ClaimInv(d)'
      BY <1>2, <2>2, Ended, PlaceLeavesOthers
    <2> QED BY <1>2, <2>1, <2>3, PlaceKeepsScopeLimits, PlaceKeepsPoolLimit, PlaceKeepsOwner
            DEF ScopesInv
  <1>3. ASSUME NEW i \in DOMAIN leases, NEW requeue \in BOOLEAN, LeaseEnds(i, requeue)
        PROVE  ScopesInv'
    BY <1>3, EndKeeps
  <1>4. CASE UNCHANGED vars
    <2>1. \A c \in Claims : ClaimInv(c)'
      BY <1>0, <1>4 DEF vars, ClaimInv, HoldsEntry, HoldsProject, HoldsConfiguration, HasRoom,
                        StaysAllowed, Candidate, WithinLimits, InPool, InProject, InConfiguration
    <2>2. TypeOK'
      BY <1>0, <1>4 DEF vars, TypeOK
    <2>3. ScopeLimitsHold' /\ PoolLimitHolds' /\ OneOwner'
      BY <1>4 DEF vars, ScopesInv, ScopeLimitsHold, PoolLimitHolds, OneOwner, InPool, InProject,
                  InConfiguration
    <2> QED BY <2>1, <2>2, <2>3 DEF ScopesInv
  <1> QED BY <1>1, <1>2, <1>3, <1>4 DEF Next, ClaimStep, Quiet

\* Claims, locks and leases keep their types: a claim is in its transaction exactly
\* while it has its Pool's lock, and what it inserts is a lease of a real Job.
THEOREM TypeCorrect == Spec => []TypeOK
  <1>1. Init => ScopesInv
    BY ScopesInitially
  <1>2. ScopesInv /\ [Next]_vars => ScopesInv'
    BY ScopesStep
  <1>3. ScopesInv => TypeOK
    BY DEF ScopesInv
  <1> QED BY <1>1, <1>2, <1>3, PTL DEF Spec

\* The lock of a Job's queue entry gives it one owner.
LEMMA OwnedOnce ==
    ASSUME TypeOK, OneOwner
    PROVE  PlacedOnce
  <1> SUFFICES ASSUME NEW j \in Jobs
               PROVE  LET own == {i \in DOMAIN leases : leases[i].job = j}
                      IN  Cardinality(own) <= 1 /\ (own # {} => j \notin queue)
    BY DEF PlacedOnce
  <1> DEFINE own == {i \in DOMAIN leases : leases[i].job = j}
  <1>1. CASE own = {}
    <2>1. Cardinality(own) = 0
      BY <1>1, FS_EmptySet
    <2> QED BY <1>1, <2>1
  <1>2. CASE own # {}
    <2>1. PICK i : i \in own
      BY <1>2
    <2>2. own = {i} /\ j \notin queue
      BY <2>1 DEF OneOwner
    <2>3. Cardinality(own) = 1
      BY <2>2, FS_Singleton
    <2> QED BY <2>2, <2>3
  <1> QED BY <1>1, <1>2

\* Claims of different Pools run at the same time and still place Jobs as claims one
\* after the other would: within the limits of the Pool, the Project and the Build
\* Configuration, and every Job once.
THEOREM PlacementsAllowed == Spec => []PlacementsAreAllowed
  <1>1. Init => ScopesInv
    BY ScopesInitially
  <1>2. ScopesInv /\ [Next]_vars => ScopesInv'
    BY ScopesStep
  <1>3. ScopesInv => PlacementsAreAllowed
    BY OwnedOnce DEF ScopesInv, PlacementsAreAllowed
  <1> QED BY <1>1, <1>2, <1>3, PTL DEF Spec
============================================================================
