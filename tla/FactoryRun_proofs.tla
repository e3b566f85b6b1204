------------------------- MODULE FactoryRun_proofs -------------------------
(***************************************************************************)
(* What is proved of a Factory Run, for any number of workers, any chain   *)
(* of nodes and any number of retries: the types, that a stop receipt is   *)
(* true, and that an accepted cancellation is final.                       *)
(***************************************************************************)
EXTENDS FactoryRun, FiniteSetTheorems, SequenceTheorems, TLAPS

----------------------------------------------------------------------------
(* The inductive invariant                                                 *)

Midway == {"observe", "dispatch", "cancel", "withdraw", "commit"}

\* What the Run must be like when a plan is committed.
Justified(p) ==
    /\ p \in {"execution", "await", "complete", "fail", "expire", "stop", "void"} => LastIsOpen
    /\ p \in {"execution", "await"} => builds[Latest] # "none"
    /\ p = "complete" /\ IsBuild(Latest) => builds[Latest] # "none"
    /\ p \in {"fail", "stop"} => builds[Latest] \in Finished
    /\ p \in {"expire", "void"} => builds[Latest] = "none"
    /\ p \in {"open", "await", "complete", "fail", "expire", "wait", "resolved"} => ~ cancelling
    /\ p \in {"stop", "void", "cancelled"} => cancelling
    /\ p = "open" => ~ LastIsOpen /\ (Latest > 0 /\ Last.end = "completed" => Last.node < Len(Kind))
    /\ p = "cancelled" => ~ (LastIsOpen /\ IsBuild(Latest))

\* A worker that is in the middle of a pass and still has the claim has read the Run
\* since anybody changed it, and what it has seen is still so.
PassInv(w) ==
    /\ pc[w] \in Midway /\ claim = w => w \in fresh
    /\ w \in fresh => pc[w] \in Midway /\ Active
    /\ pc[w] = "commit" => plan[w] \in Plans
    /\ claim = w =>
          /\ pc[w] \in {"observe", "dispatch"} => ~ cancelling
          /\ pc[w] \in {"cancel", "withdraw"} => cancelling
          /\ pc[w] = "commit" => Justified(plan[w])

\* What the entry of an Attempt says of its Build.
EntryIsTrue(i) ==
    /\ attempts[i].execution => builds[i] # "none"
    /\ attempts[i].end \in {"failed", "cancelled"} =>
          IF attempts[i].execution THEN builds[i] \in Finished ELSE builds[i] = "none"
    /\ attempts[i].end = "cancelled" => cancelling
    /\ attempts[i].end = "open" => i = Latest

JournalInv ==
    /\ \A i \in 1 .. Latest : EntryIsTrue(i)
    /\ state = "completed" => ~ cancelling
    /\ state = "cancelled" => cancelling /\ ~ (LastIsOpen /\ IsBuild(Latest))

RunInv == TypeOK /\ JournalInv /\ \A w \in Workers : PassInv(w)

----------------------------------------------------------------------------
(* Types                                                                   *)

\* The journal and the Builds belong together; so do the fields of the passes.
RunTyped ==
    /\ state \in RunStates /\ cancelling \in BOOLEAN
    /\ attempts \in Seq(Attempt) /\ builds \in Seq(BuildStates) /\ Len(builds) = Latest

PassTyped ==
    /\ pc \in [Workers -> {"idle", "claimed", "observe", "dispatch", "cancel", "withdraw", "commit", "dead"}]
    /\ fresh \subseteq Workers
    /\ plan \in [Workers -> Plans \cup {None}]
    /\ claim \in Workers \cup {None}

FactsTyped ==
    /\ lapsed \in BOOLEAN /\ touched \in BOOLEAN /\ follows \in BOOLEAN
    /\ last \in LastFacts /\ answers \subseteq Calls

\* The type invariant, in three parts that steps change separately.
LEMMA TypeParts == TypeOK <=> RunTyped /\ PassTyped /\ FactsTyped
  BY DEF TypeOK, RunTyped, PassTyped, FactsTyped

\* A worker that takes a step is at one of its places afterwards.
LEMMA LeaveTyped ==
    ASSUME PassTyped, NEW w \in Workers, Leave(w), UNCHANGED claim
    PROVE  PassTyped'
  BY DEF PassTyped, Leave, GoTo

\* A worker that has made a plan is at its commit.
LEMMA CommitTyped ==
    ASSUME PassTyped, NEW w \in Workers, NEW p \in Plans, Commit(w, p), UNCHANGED claim
    PROVE  PassTyped'
  BY DEF PassTyped, Commit, GoTo

\* What a snapshot makes a worker do.
LEMMA NextSteps ==
    ASSUME NEW w \in Workers
    PROVE  /\ NextStep(w) \in {"idle", "observe", "complete", "wait", "open", "resolved"}
           /\ CancelStep(w) \in {"idle", "cancel", "cancelled"}
  <1>1. NextStep(w) \in {"idle", "observe", "complete", "wait", "open", "resolved"}
    BY DEF NextStep
  <1>2. CancelStep(w) \in {"idle", "cancel", "cancelled"}
    BY DEF CancelStep
  <1> QED BY <1>1, <1>2

\* The last Attempt has an entry in both lists.
LEMMA LastEntry ==
    ASSUME RunTyped
    PROVE  /\ Latest \in Nat /\ DOMAIN attempts = 1 .. Latest /\ DOMAIN builds = 1 .. Latest
           /\ \A i \in 1 .. Latest : attempts[i] \in Attempt /\ builds[i] \in BuildStates
           /\ Latest > 0 => Latest \in 1 .. Latest
  <1> USE DEF RunTyped, Latest
  <1>1. Latest \in Nat /\ DOMAIN attempts = 1 .. Latest /\ DOMAIN builds = 1 .. Latest
    OBVIOUS
  <1>2. \A i \in 1 .. Latest : attempts[i] \in Attempt
    BY <1>1
  <1>3. \A i \in 1 .. Latest : builds[i] \in BuildStates
    BY <1>1
  <1> HIDE DEF Latest
  <1> QED BY <1>1, <1>2, <1>3

\* The two calls of a node's cancellation.
Cancels(w) == CancelNode(w) \/ Withdraw(w) \/ WithdrawNothing(w)

\* What they come to.
LEMMA CancelOutcomes ==
    ASSUME RunTyped, NEW w \in Workers, Cancels(w)
    PROVE  \/ Leave(w) /\ UNCHANGED builds
           \/ GoTo(w, "withdraw") /\ UNCHANGED <<fresh, plan, builds>>
           \/ LastIsOpen /\ builds[Latest] = "none" /\ Commit(w, "void") /\ UNCHANGED builds
           \/ LastIsOpen /\ builds[Latest] \in Finished /\ Commit(w, "stop") /\ UNCHANGED builds
           \/ /\ LastIsOpen /\ builds[Latest] # "none" /\ (Leave(w) \/ Commit(w, "execution"))
              /\ \/ UNCHANGED builds
                 \/ /\ claim = w /\ builds[Latest] = "running"
                    /\ builds' = [builds EXCEPT ![Latest] = "cancelling"]
  <1>1. CASE CancelNode(w)
    <2>1. UNCHANGED builds
      BY <1>1 DEF CancelNode, buildVars
    <2> QED BY <1>1, <2>1 DEF CancelNode, Finished, RetainExecution
  <1>2. CASE Withdraw(w)
    BY <1>2 DEF Withdraw, RetainExecution
  <1>3. CASE WithdrawNothing(w)
    BY <1>3 DEF WithdrawNothing, RetainExecution, buildVars
  <1> QED BY <1>1, <1>2, <1>3 DEF Cancels

\* Every step keeps the types of the passes.
LEMMA PassStaysTyped ==
    ASSUME RunTyped, PassTyped, [Next]_vars
    PROVE  PassTyped'
  <1> USE DEF GoTo
  <1>1. ASSUME NEW w \in Workers, ClaimRun(w)
        PROVE  PassTyped'
    BY <1>1 DEF ClaimRun, PassTyped
  <1>2. ASSUME NEW w \in Workers, ReadSnapshot(w)
        PROVE  PassTyped'
    <2> DEFINE next == IF claim # w \/ lapsed \/ ~ Active THEN "idle"
                       ELSE IF cancelling THEN CancelStep(w) ELSE NextStep(w)
    <2>1. next \in {"idle", "observe", "complete", "wait", "open", "resolved", "cancel", "cancelled"}
      BY NextSteps
    <2>2. /\ UNCHANGED claim
          /\ IF next = "idle" THEN Leave(w)
             ELSE /\ fresh' = fresh \cup {w}
                  /\ IF next \in Plans
                     THEN GoTo(w, "commit") /\ plan' = [plan EXCEPT ![w] = next]
                     ELSE GoTo(w, next) /\ UNCHANGED plan
      BY <1>2 DEF ReadSnapshot, claimVars
    <2> HIDE DEF next
    <2>3. CASE next = "idle"
      BY <2>2, <2>3, LeaveTyped
    <2>4. CASE next # "idle" /\ next \in Plans
      BY <2>2, <2>4 DEF PassTyped
    <2>5. CASE next # "idle" /\ next \notin Plans
      <3>1. next \in {"observe", "cancel"}
        BY <2>1, <2>5 DEF Plans
      <3> QED BY <2>2, <2>5, <3>1 DEF PassTyped
    <2> QED BY <2>3, <2>4, <2>5
  <1>3. ASSUME NEW w \in Workers, Observe(w)
        PROVE  PassTyped'
    <2>1. UNCHANGED claim
      BY <1>3 DEF Observe, claimVars
    <2>2. \/ Leave(w) \/ \E p \in Plans : Commit(w, p)
          \/ GoTo(w, "dispatch") /\ UNCHANGED <<fresh, plan>>
      BY <1>3 DEF Observe, ObserveMissing, ObserveBuild, RetainExecution, Plans
    <2>3. CASE GoTo(w, "dispatch") /\ UNCHANGED <<fresh, plan>>
      BY <2>1, <2>3 DEF PassTyped
    <2> QED BY <2>1, <2>2, <2>3, LeaveTyped, CommitTyped
  <1>4. ASSUME NEW w \in Workers, Dispatch(w) \/ Cancels(w)
        PROVE  PassTyped'
    <2>1. UNCHANGED claim
      BY <1>4 DEF Dispatch, Cancels, CancelNode, Withdraw, WithdrawNothing, claimVars
    <2>2. \/ Leave(w) \/ \E p \in Plans : Commit(w, p)
          \/ GoTo(w, "withdraw") /\ UNCHANGED <<fresh, plan>>
      BY <1>4, CancelOutcomes DEF Dispatch, Plans
    <2>3. CASE GoTo(w, "withdraw") /\ UNCHANGED <<fresh, plan>>
      BY <2>1, <2>3 DEF PassTyped
    <2> QED BY <2>1, <2>2, <2>3, LeaveTyped, CommitTyped
  <1>5. ASSUME NEW w \in Workers, CommitTransition(w) \/ Crash(w)
        PROVE  PassTyped'
    BY <1>5 DEF CommitTransition, Crash, PassTyped, claimVars
  <1>6. CASE CancelRun \/ RetryNode \/ ResolveNode
    BY <1>6 DEF CancelRun, RetryNode, ResolveNode, Control, PassTyped
  <1>7. CASE \/ ClaimLapses \/ WindowEnds \/ DeadlinePasses \/ AnswersChange
             \/ \E i \in DOMAIN builds : BuildStops(i) \/ BuildEnds(i)
    BY <1>7 DEF ClaimLapses, WindowEnds, DeadlinePasses, AnswersChange, BuildStops, BuildEnds,
                PassTyped, workerVars, claimVars
  <1>8. CASE UNCHANGED vars
    BY <1>8 DEF vars, PassTyped, workerVars, claimVars
  <1> QED BY <1>1, <1>2, <1>3, <1>4, <1>5, <1>6, <1>7, <1>8 DEF Next, Pass, Cancels

\* Time, claims and answers: they keep their types.
LEMMA FactsStayTyped ==
    ASSUME FactsTyped, [Next]_vars
    PROVE  FactsTyped'
  <1>1. ASSUME NEW w \in Workers, ClaimRun(w)
        PROVE  FactsTyped'
    <2>1. last.spent \in BOOLEAN
      BY DEF FactsTyped, LastFacts
    <2> QED BY <1>1, <2>1 DEF ClaimRun, FactsTyped, buildVars
  <1>2. ASSUME NEW w \in Workers,
               \/ ReadSnapshot(w) \/ Observe(w) \/ Dispatch(w) \/ Cancels(w) \/ Crash(w)
        PROVE  FactsTyped'
    BY <1>2 DEF ReadSnapshot, Observe, Dispatch, Cancels, CancelNode, Withdraw, WithdrawNothing, Crash,
                FactsTyped, claimVars, buildVars
  <1>3. ASSUME NEW w \in Workers, CommitTransition(w)
        PROVE  FactsTyped'
    <2>1. NewFacts(w, lapsed) \in LastFacts
      BY DEF FactsTyped, NewFacts, LastFacts
    <2>2. \/ last' = NewFacts(w, lapsed) /\ answers' = {}
          \/ UNCHANGED <<last, answers>>
      BY <1>3 DEF CommitTransition, Apply, buildVars
    <2>3. UNCHANGED <<lapsed, follows>> /\ (touched' = TRUE \/ UNCHANGED touched)
      BY <1>3 DEF CommitTransition
    <2>4. last' \in LastFacts
      BY <2>1, <2>2 DEF FactsTyped
    <2>5. answers' \subseteq Calls
      BY <2>2 DEF FactsTyped
    <2>6. lapsed' \in BOOLEAN /\ follows' \in BOOLEAN /\ touched' \in BOOLEAN
      BY <2>3, Zenon DEF FactsTyped
    <2> QED BY <2>4, <2>5, <2>6 DEF FactsTyped
  <1>4. CASE Control /\ (last' = last \/ last' = [last EXCEPT !.retry = TRUE]
                                      \/ last' = [last EXCEPT !.response = TRUE])
    <2>1. last' \in LastFacts
      BY <1>4 DEF FactsTyped, LastFacts
    <2>2. lapsed' = FALSE /\ touched' = FALSE /\ follows' = FALSE /\ answers' = answers
      BY <1>4 DEF Control, buildVars
    <2>3. lapsed' \in BOOLEAN /\ follows' \in BOOLEAN /\ touched' \in BOOLEAN /\ answers' \subseteq Calls
      BY <2>2, Zenon DEF FactsTyped
    <2> QED BY <2>1, <2>3 DEF FactsTyped
  <1>5. CASE ClaimLapses
    <2>1. last' \in LastFacts
      <3>1. (Latest > 0) \in BOOLEAN
        BY SMT
      <3>2. last' = [last EXCEPT !.spent = (Latest > 0)]
        BY <1>5 DEF ClaimLapses
      <3>3. \A b \in BOOLEAN : [last EXCEPT !.spent = b] \in LastFacts
        BY DEF FactsTyped, LastFacts
      <3> QED BY <3>1, <3>2, <3>3, Zenon
    <2>2. lapsed' = TRUE /\ UNCHANGED <<touched, follows, answers>>
      BY <1>5 DEF ClaimLapses, buildVars
    <2>3. lapsed' \in BOOLEAN /\ follows' \in BOOLEAN /\ touched' \in BOOLEAN /\ answers' \subseteq Calls
      BY <2>2, Zenon DEF FactsTyped
    <2> QED BY <2>1, <2>3 DEF FactsTyped
  <1>6. CASE WindowEnds \/ DeadlinePasses
    <2>1. last' \in LastFacts
      BY <1>6 DEF WindowEnds, DeadlinePasses, FactsTyped, LastFacts
    <2> QED BY <1>6, <2>1 DEF WindowEnds, DeadlinePasses, FactsTyped, buildVars, claimVars
  <1>7. CASE AnswersChange
    <2>1. UNCHANGED <<last, claimVars>>
      BY <1>7 DEF AnswersChange
    <2>2. Asked \in Calls
      BY DEF Asked, Calls
    <2>3. answers' = answers \ {Asked} \/ answers' = answers \cup {Asked}
      BY <1>7 DEF AnswersChange
    <2>4. answers' \subseteq Calls
      BY <2>2, <2>3 DEF FactsTyped
    <2> QED BY <2>1, <2>4 DEF FactsTyped, claimVars
  <1>8. CASE \E i \in DOMAIN builds : BuildStops(i) \/ BuildEnds(i)
    BY <1>8 DEF BuildStops, BuildEnds, FactsTyped, claimVars
  <1>9. CASE UNCHANGED vars
    BY <1>9 DEF vars, FactsTyped, claimVars, buildVars
  <1> QED BY <1>1, <1>2, <1>3, <1>4, <1>5, <1>6, <1>7, <1>8, <1>9
          DEF Next, Pass, Cancels, CancelRun, RetryNode, ResolveNode

\* An entry of the journal that is brought up to date.
Updated(s, n, e, x) == [s EXCEPT ![n].end = e, ![n].execution = @ \/ x]

\* An update of a journal entry changes that entry alone.
LEMMA EntryUpdate ==
    ASSUME NEW s \in Seq(Attempt), NEW n \in 1 .. Len(s), NEW e \in Ends, NEW x \in BOOLEAN
    PROVE  /\ Updated(s, n, e, x) \in Seq(Attempt) /\ Len(Updated(s, n, e, x)) = Len(s)
           /\ \A i \in 1 .. Len(s) : i # n => Updated(s, n, e, x)[i] = s[i]
           /\ Updated(s, n, e, x)[n].node = s[n].node
           /\ Updated(s, n, e, x)[n].end = e
           /\ Updated(s, n, e, x)[n].execution = (s[n].execution \/ x)
  <1> DEFINE r == Updated(s, n, e, x)
             v == [s[n] EXCEPT !.end = e, !.execution = @ \/ x]
  <1>1. s[n] \in Attempt
    OBVIOUS
  <1>2. (s[n].execution \/ x) \in BOOLEAN
    BY Zenon
  <1>3. /\ v.node = s[n].node /\ v.end = e /\ v.execution = (s[n].execution \/ x)
        /\ v \in Attempt
    BY <1>1, <1>2 DEF Attempt
  <1>4. r = [s EXCEPT ![n] = v]
    BY DEF Updated
  <1> HIDE DEF r, v
  <1>5. /\ r \in Seq(Attempt) /\ Len(r) = Len(s)
        /\ \A i \in 1 .. Len(s) : r[i] = IF i = n THEN v ELSE s[i]
    BY <1>3, <1>4, ExceptSeq
  <1>6. r[n] = v
    BY <1>5
  <1> QED BY <1>3, <1>5, <1>6 DEF r

\* The journal after a change of its last entry.
Updates(e, x) ==
    /\ attempts' \in Seq(Attempt) /\ Latest' = Latest
    /\ \A i \in 1 .. Latest : i # Latest => attempts'[i] = attempts[i]
    /\ attempts'[Latest].node = Last.node /\ attempts'[Latest].end = e
    /\ attempts'[Latest].execution = (Last.execution \/ x)

\* It is an update of the journal when that entry is the last one.
LEMMA UpdateUpdates ==
    ASSUME RunTyped, LastIsOpen, NEW e \in Ends, NEW x \in BOOLEAN,
           attempts' = Updated(attempts, Latest, e, x)
    PROVE  Updates(e, x)
  <1>1. PICK n : n = Latest
    OBVIOUS
  <1>2. attempts \in Seq(Attempt) /\ n \in 1 .. Len(attempts) /\ Len(attempts) = n
    BY <1>1, LastEntry DEF RunTyped, LastIsOpen, Latest
  <1>3. /\ attempts' \in Seq(Attempt) /\ Len(attempts') = Len(attempts)
        /\ \A i \in 1 .. Len(attempts) : i # n => attempts'[i] = attempts[i]
        /\ attempts'[n].node = attempts[n].node /\ attempts'[n].end = e
        /\ attempts'[n].execution = (attempts[n].execution \/ x)
    BY <1>1, <1>2, EntryUpdate
  <1> QED BY <1>1, <1>2, <1>3 DEF Updates, Last, Latest

\* Ending the last Attempt updates its entry.
LEMMA EndUpdates ==
    ASSUME RunTyped, LastIsOpen, NEW e \in Ends, NEW x \in BOOLEAN, EndAttempt(e, x)
    PROVE  Updates(e, x)
  <1>1. attempts' = Updated(attempts, Latest, e, x)
    BY DEF EndAttempt, Updated
  <1> QED BY <1>1, UpdateUpdates

\* To name the Build of the last Attempt is to update its entry.
LEMMA MarkUpdates ==
    ASSUME RunTyped, LastIsOpen, attempts' = [attempts EXCEPT ![Latest].execution = TRUE]
    PROVE  Updates("open", TRUE)
  <1>1. Latest \in DOMAIN attempts /\ attempts[Latest] \in Attempt
    BY LastEntry DEF LastIsOpen
  <1>2. attempts[Latest].end = "open"
    BY DEF LastIsOpen, Last
  <1>3. [attempts[Latest] EXCEPT !.end = "open", !.execution = @ \/ TRUE]
          = [attempts[Latest] EXCEPT !.execution = TRUE]
    BY <1>1, <1>2 DEF Attempt
  <1>4. attempts' = Updated(attempts, Latest, "open", TRUE)
    BY <1>3 DEF Updated
  <1> QED BY <1>4, UpdateUpdates DEF Ends

\* What a commit does to the journal.
CommitEffects ==
    \/ /\ ~ LastIsOpen /\ ~ cancelling /\ state' = "running"
       /\ NewAttempt \in Attempt
       /\ attempts' = Append(attempts, NewAttempt) /\ builds' = Append(builds, "none")
    \/ /\ LastIsOpen /\ builds' = builds /\ state' \in {"running", "waiting"}
       /\ \/ Updates("open", TRUE) /\ builds[Latest] # "none"
          \/ /\ ~ cancelling
             /\ \E x \in BOOLEAN : Updates("completed", x) /\ (x => builds[Latest] # "none")
          \/ Updates("failed", TRUE) /\ builds[Latest] \in Finished /\ ~ cancelling
          \/ Updates("failed", FALSE) /\ builds[Latest] = "none" /\ ~ cancelling
          \/ Updates("cancelled", TRUE) /\ builds[Latest] \in Finished /\ cancelling
          \/ Updates("cancelled", FALSE) /\ builds[Latest] = "none" /\ cancelling
    \/ /\ UNCHANGED <<attempts, builds>>
       /\ \/ state' \in {"waiting", "completed"} /\ ~ cancelling
          \/ state' = "cancelled" /\ cancelling /\ ~ (LastIsOpen /\ IsBuild(Latest))

\* A worker that commits under its claim opens, ends or marks an Attempt for a reason.
LEMMA CommitHasEffects ==
    ASSUME RunInv, NEW w \in Workers, pc[w] = "commit", MayCommit(w), Apply(w)
    PROVE  CommitEffects
  <1>0. RunTyped /\ JournalInv /\ Justified(plan[w]) /\ plan[w] \in Plans
    BY TypeParts DEF RunInv, PassInv, MayCommit
  <1> DEFINE p == plan[w]
  <1>1. CASE p = "open"
    <2>1. /\ attempts' = Append(attempts, NewAttempt) /\ builds' = Append(builds, "none")
          /\ state' = "running"
      BY <1>1 DEF Apply
    <2>2. ~ LastIsOpen /\ ~ cancelling /\ (Latest > 0 /\ Last.end = "completed" => Last.node < Len(Kind))
      BY <1>0, <1>1 DEF Justified
    <2>3. NewAttempt \in Attempt
      <3>1. Len(Kind) \in Nat /\ Len(Kind) > 0
        BY ConstantsAreValid
      <3>2. CASE Latest = 0
        BY <3>1, <3>2 DEF NewAttempt, Attempt, Ends
      <3>3. CASE Latest # 0
        <4>1. Latest > 0 /\ Last \in Attempt /\ Latest \in 1 .. Latest
          BY <1>0, <3>3, LastEntry DEF Last
        <4>2. Last.node \in 1 .. Len(Kind) /\ Last.end \in Ends
          BY <4>1 DEF Attempt
        <4>3. Last.end \in {"failed", "completed"}
          BY <1>0, <2>2, <4>1, <4>2 DEF Ends, LastIsOpen, JournalInv, EntryIsTrue, Last
        <4>4. Last.end = "completed" => Last.node + 1 \in 1 .. Len(Kind)
          BY <2>2, <3>1, <4>1, <4>2
        <4> QED BY <3>3, <4>2, <4>3, <4>4 DEF NewAttempt, Attempt, Ends
      <3> QED BY <3>2, <3>3
    <2> QED BY <2>1, <2>2, <2>3 DEF CommitEffects
  <1>2. CASE p \in {"execution", "await"}
    <2>1. /\ LastIsOpen /\ builds' = builds /\ state' \in {"running", "waiting"}
          /\ attempts' = [attempts EXCEPT ![Latest].execution = TRUE] /\ builds[Latest] # "none"
      BY <1>0, <1>2 DEF Apply, Justified, buildVars
    <2> QED BY <1>0, <2>1, MarkUpdates DEF CommitEffects
  <1>3. CASE p = "complete"
    <2>1. /\ LastIsOpen /\ ~ cancelling /\ builds' = builds /\ state' = "running"
          /\ EndAttempt("completed", IsBuild(Latest))
      BY <1>0, <1>3 DEF Apply, Justified, buildVars
    <2>2. IsBuild(Latest) => builds[Latest] # "none"
      BY <1>0, <1>3 DEF Justified
    <2>3. PICK x \in BOOLEAN : x = IsBuild(Latest)
      BY DEF IsBuild
    <2>4. Updates("completed", x)
      BY <1>0, <2>1, <2>3, EndUpdates DEF Ends
    <2> QED BY <2>1, <2>2, <2>3, <2>4 DEF CommitEffects
  <1>4. CASE p = "fail"
    <2>1. /\ LastIsOpen /\ ~ cancelling /\ builds' = builds /\ state' = "waiting"
          /\ EndAttempt("failed", TRUE) /\ builds[Latest] \in Finished
      BY <1>0, <1>4 DEF Apply, Justified, buildVars, EndAttempt
    <2>2. Updates("failed", TRUE)
      BY <1>0, <2>1, EndUpdates DEF Ends
    <2> QED BY <2>1, <2>2 DEF CommitEffects
  <1>5. CASE p = "expire"
    <2>1. /\ LastIsOpen /\ ~ cancelling /\ builds' = builds /\ state' = "waiting"
          /\ EndAttempt("failed", FALSE) /\ builds[Latest] = "none"
      BY <1>0, <1>5 DEF Apply, Justified, buildVars, EndAttempt
    <2>2. Updates("failed", FALSE)
      BY <1>0, <2>1, EndUpdates DEF Ends
    <2> QED BY <2>1, <2>2 DEF CommitEffects
  <1>6. CASE p = "stop"
    <2>1. /\ LastIsOpen /\ cancelling /\ builds' = builds /\ state' = "running"
          /\ EndAttempt("cancelled", TRUE) /\ builds[Latest] \in Finished
      BY <1>0, <1>6 DEF Apply, Justified, buildVars, EndAttempt
    <2>2. Updates("cancelled", TRUE)
      BY <1>0, <2>1, EndUpdates DEF Ends
    <2> QED BY <2>1, <2>2 DEF CommitEffects
  <1>7. CASE p = "void"
    <2>1. /\ LastIsOpen /\ cancelling /\ builds' = builds /\ state' = "running"
          /\ EndAttempt("cancelled", FALSE) /\ builds[Latest] = "none"
      BY <1>0, <1>7 DEF Apply, Justified, buildVars, EndAttempt
    <2>2. Updates("cancelled", FALSE)
      BY <1>0, <2>1, EndUpdates DEF Ends
    <2> QED BY <2>1, <2>2 DEF CommitEffects
  <1>8. CASE p \in {"wait", "resolved", "cancelled"}
    BY <1>0, <1>8 DEF Apply, Justified, buildVars, CommitEffects
  <1> QED BY <1>0, <1>1, <1>2, <1>3, <1>4, <1>5, <1>6, <1>7, <1>8 DEF Plans

----------------------------------------------------------------------------
(* The journal                                                             *)

\* Whatever is committed, the journal stays typed and true.
LEMMA CommitKeepsJournal ==
    ASSUME RunTyped, JournalInv, CommitEffects, UNCHANGED cancelling
    PROVE  RunTyped' /\ JournalInv'
  <1>0. PICK n : n = Latest
    OBVIOUS
  <1>1. /\ n \in Nat /\ DOMAIN attempts = 1 .. n /\ DOMAIN builds = 1 .. n
        /\ \A i \in 1 .. n : attempts[i] \in Attempt /\ builds[i] \in BuildStates
        /\ n > 0 => n \in 1 .. n
    BY <1>0, LastEntry
  <1>2. \A i \in 1 .. n : EntryIsTrue(i)
    BY <1>0 DEF JournalInv
  <1>3. CASE /\ ~ LastIsOpen /\ ~ cancelling /\ state' = "running"
             /\ NewAttempt \in Attempt
             /\ attempts' = Append(attempts, NewAttempt) /\ builds' = Append(builds, "none")
    <2>1. PICK a \in Attempt : a = NewAttempt /\ a.end = "open" /\ a.execution = FALSE
      BY <1>3 DEF NewAttempt
    <2>2. /\ attempts' \in Seq(Attempt) /\ Len(attempts') = n + 1 /\ attempts'[n + 1] = a
          /\ \A i \in 1 .. n : attempts'[i] = attempts[i]
      BY <1>0, <1>3, <2>1, AppendProperties DEF RunTyped, Latest
    <2>3. /\ builds' \in Seq(BuildStates) /\ Len(builds') = n + 1 /\ builds'[n + 1] = "none"
          /\ \A i \in 1 .. n : builds'[i] = builds[i]
      BY <1>0, <1>3, AppendProperties DEF RunTyped, Latest, BuildStates
    <2>4. RunTyped'
      BY <1>3, <2>2, <2>3 DEF RunTyped, RunStates, Latest
    <2>5. \A i \in 1 .. n : attempts[i].end # "open"
      BY <1>0, <1>1, <1>2, <1>3 DEF EntryIsTrue, LastIsOpen, Last
    <2>6. \A i \in 1 .. n : EntryIsTrue(i)'
      BY <1>2, <2>2, <2>3, <2>5 DEF EntryIsTrue
    <2>7. EntryIsTrue(n + 1)'
      BY <2>1, <2>2, <2>3 DEF EntryIsTrue, Latest
    <2>8. \A i \in 1 .. n + 1 : i \in 1 .. n \/ i = n + 1
      BY <1>1
    <2>9. \A i \in 1 .. n + 1 : EntryIsTrue(i)'
      BY <2>6, <2>7, <2>8
    <2> QED BY <1>3, <2>2, <2>4, <2>9 DEF JournalInv, Latest
  <1>4. ASSUME NEW e \in Ends, NEW x \in BOOLEAN, Updates(e, x), LastIsOpen, builds' = builds,
               state' \in {"running", "waiting"},
               e = "cancelled" => cancelling,
               x => builds[Latest] # "none",
               e \in {"failed", "cancelled"} =>
                  IF x THEN builds[Latest] \in Finished ELSE builds[Latest] = "none"
        PROVE  RunTyped' /\ JournalInv'
    <2>1. /\ attempts' \in Seq(Attempt) /\ Latest' = n
          /\ \A i \in 1 .. n : i # n => attempts'[i] = attempts[i]
          /\ attempts'[n].end = e /\ attempts'[n].execution = (attempts[n].execution \/ x)
      BY <1>0, <1>4 DEF Updates, Last
    <2>2. RunTyped'
      BY <1>0, <1>4, <2>1 DEF RunTyped, RunStates, Latest
    <2>3. \A i \in 1 .. n : i # n => EntryIsTrue(i)'
      BY <1>0, <1>1, <1>2, <1>4, <2>1 DEF EntryIsTrue
    <2>4. n \in 1 .. n /\ (attempts[n].execution => builds[n] # "none")
      BY <1>0, <1>1, <1>2, <1>4 DEF EntryIsTrue, LastIsOpen
    <2>5. attempts'[n].execution <=> (attempts[n].execution \/ x)
      BY <2>1
    <2>6. EntryIsTrue(n)'
      BY <1>0, <1>4, <2>1, <2>4, <2>5 DEF EntryIsTrue, Finished
    <2> QED BY <1>4, <2>1, <2>2, <2>3, <2>6 DEF JournalInv
  <1>5. CASE UNCHANGED <<attempts, builds>> /\ state' \in {"waiting", "completed"} /\ ~ cancelling
    BY <1>5 DEF RunTyped, JournalInv, EntryIsTrue, RunStates, Latest
  <1>6. CASE /\ UNCHANGED <<attempts, builds>> /\ state' = "cancelled" /\ cancelling
             /\ ~ (LastIsOpen /\ IsBuild(Latest))
    BY <1>6 DEF RunTyped, JournalInv, EntryIsTrue, RunStates, Latest, LastIsOpen, Last, IsBuild
  <1>7. CASE /\ LastIsOpen /\ builds' = builds /\ state' \in {"running", "waiting"}
             /\ \/ Updates("open", TRUE) /\ builds[Latest] # "none"
                \/ /\ ~ cancelling
                   /\ \E x \in BOOLEAN : Updates("completed", x) /\ (x => builds[Latest] # "none")
                \/ Updates("failed", TRUE) /\ builds[Latest] \in Finished /\ ~ cancelling
                \/ Updates("failed", FALSE) /\ builds[Latest] = "none" /\ ~ cancelling
                \/ Updates("cancelled", TRUE) /\ builds[Latest] \in Finished /\ cancelling
                \/ Updates("cancelled", FALSE) /\ builds[Latest] = "none" /\ cancelling
    <2> USE <1>4, <1>7 DEF Ends
    <2>1. CASE Updates("open", TRUE) /\ builds[Latest] # "none"
      BY <2>1
    <2>2. CASE \E x \in BOOLEAN : Updates("completed", x) /\ (x => builds[Latest] # "none")
      BY <2>2
    <2>3. CASE Updates("failed", TRUE) /\ builds[Latest] \in Finished
      BY <2>3 DEF Finished
    <2>4. CASE Updates("failed", FALSE) /\ builds[Latest] = "none"
      BY <2>4
    <2>5. CASE Updates("cancelled", TRUE) /\ builds[Latest] \in Finished /\ cancelling
      BY <2>5 DEF Finished
    <2>6. CASE Updates("cancelled", FALSE) /\ builds[Latest] = "none" /\ cancelling
      BY <2>6
    <2> QED BY <1>7, <2>1, <2>2, <2>3, <2>4, <2>5, <2>6
  <1> QED BY <1>3, <1>5, <1>6, <1>7 DEF CommitEffects

\* Builds move on. Kept: none is accepted. Forward: the one of an open Attempt may be.
BuildsKept ==
    \A i \in 1 .. Latest : /\ builds'[i] = "none" <=> builds[i] = "none"
                           /\ builds[i] \in Finished => builds'[i] \in Finished

BuildsForward ==
    \A i \in 1 .. Latest :
        /\ builds[i] # "none" => builds'[i] # "none"
        /\ builds[i] \in Finished => builds'[i] \in Finished
        /\ attempts[i].end # "open" => (builds'[i] = "none" <=> builds[i] = "none")

\* Builds that only move forward leave what the journal says true.
LEMMA ForwardKeepsJournal ==
    ASSUME RunTyped, JournalInv, UNCHANGED runVars, BuildsForward,
           builds' \in Seq(BuildStates), Len(builds') = Latest
    PROVE  RunTyped' /\ JournalInv'
  <1>1. RunTyped'
    BY DEF RunTyped, runVars, Latest
  <1>2. Latest' = Latest /\ LastIsOpen' = LastIsOpen /\ IsBuild(Latest)' = IsBuild(Latest)
    BY DEF runVars, Latest, LastIsOpen, Last, IsBuild
  <1>3. \A i \in 1 .. Latest : EntryIsTrue(i)'
    BY <1>2 DEF JournalInv, EntryIsTrue, BuildsForward, runVars
  <1> QED BY <1>1, <1>2, <1>3 DEF JournalInv, runVars

\* One Build moves on.
LEMMA BuildMoves ==
    ASSUME RunTyped, NEW i \in 1 .. Latest, NEW s \in BuildStates \ {"none"},
           builds[i] \in {"none", "running", "cancelling"},
           builds[i] = "none" => attempts[i].end = "open",
           builds' = [builds EXCEPT ![i] = s]
    PROVE  /\ builds' \in Seq(BuildStates) /\ Len(builds') = Latest
           /\ BuildsForward
           /\ builds[i] # "none" => BuildsKept
  <1>1. builds \in Seq(BuildStates) /\ Len(builds) = Latest
    BY DEF RunTyped
  <1>2. /\ builds' \in Seq(BuildStates) /\ Len(builds') = Latest
        /\ \A k \in 1 .. Latest : builds'[k] = IF k = i THEN s ELSE builds[k]
    BY <1>1, ExceptSeq
  <1>3. builds[i] \notin Finished /\ s # "none"
    BY DEF Finished
  <1> QED BY <1>2, <1>3 DEF BuildsForward, BuildsKept

\* Builds that stay as they are have moved forward trivially.
LEMMA BuildsStay ==
    ASSUME RunTyped, UNCHANGED builds
    PROVE  builds' \in Seq(BuildStates) /\ Len(builds') = Latest /\ BuildsForward /\ BuildsKept
  BY DEF RunTyped, BuildsForward, BuildsKept

----------------------------------------------------------------------------
(* The passes of the workers                                               *)

\* What justifies a plan stays so while the journal does not change and no Build starts.
LEMMA JustifiedStays ==
    ASSUME RunTyped, NEW p, Justified(p), UNCHANGED runVars, BuildsKept
    PROVE  Justified(p)'
  <1>1. Latest' = Latest /\ LastIsOpen' = LastIsOpen /\ Last' = Last
        /\ IsBuild(Latest)' = IsBuild(Latest) /\ cancelling' = cancelling
    BY DEF runVars, Latest, LastIsOpen, Last, IsBuild
  <1>2. LastIsOpen => /\ builds'[Latest] = "none" <=> builds[Latest] = "none"
                      /\ builds[Latest] \in Finished => builds'[Latest] \in Finished
    BY LastEntry DEF BuildsKept, LastIsOpen
  <1> QED BY <1>1, <1>2 DEF Justified

\* A worker that takes no step keeps what it has seen, unless it has lost the claim.
LEMMA PassStays ==
    ASSUME RunTyped, NEW v \in Workers, PassInv(v), UNCHANGED runVars,
           pc'[v] = pc[v], plan'[v] = plan[v], v \in fresh' <=> v \in fresh,
           claim' = v => claim = v /\ BuildsKept
    PROVE  PassInv(v)'
  <1>1. Active' = Active /\ cancelling' = cancelling
    BY DEF Active, runVars
  <1>2. PICK p : p = plan[v]
    OBVIOUS
  <1>3. claim' = v /\ pc[v] = "commit" => Justified(p)'
    BY <1>2, JustifiedStays DEF PassInv
  <1> QED BY <1>1, <1>2, <1>3 DEF PassInv

\* A pass that is over.
LEMMA PassEnds ==
    ASSUME NEW w \in Workers, pc'[w] \in {"idle", "dead", "claimed"}, w \notin fresh'
    PROVE  PassInv(w)'
  BY DEF PassInv, Midway

\* A pass that leaves gives up its plan.
LEMMA LeaveEnds ==
    ASSUME PassTyped, NEW w \in Workers, Leave(w)
    PROVE  PassInv(w)'
  <1>1. pc'[w] = "idle" /\ w \notin fresh'
    BY DEF Leave, GoTo, PassTyped
  <1> QED BY <1>1, PassEnds

\* A plan that is justified when it is made.
LEMMA CommitIsJustified ==
    ASSUME PassTyped, NEW w \in Workers, PassInv(w), pc[w] \in Midway, NEW p \in Plans,
           Commit(w, p), UNCHANGED <<runVars, claim>>, claim = w => Justified(p)'
    PROVE  PassInv(w)'
  <1>1. pc'[w] = "commit" /\ plan'[w] = p /\ fresh' = fresh
    BY DEF Commit, GoTo, PassTyped
  <1>2. Active' = Active
    BY DEF Active, runVars
  <1> QED BY <1>1, <1>2 DEF PassInv, Midway

\* What a snapshot suggests to do is justified by the snapshot.
LEMMA NextStepIsJustified ==
    ASSUME RunTyped, NEW w \in Workers, ~ cancelling, NEW p, p = NextStep(w)
    PROVE  p \in {"idle", "observe"} \/ (p \in Plans /\ Justified(p))
  <1>1. CASE LastIsOpen
    <2>1. p \in {"idle", "observe"} \/ (p = "complete" /\ ~ IsBuild(Latest)) \/ p = "wait"
      BY <1>1 DEF NextStep, LastIsOpen
    <2> QED BY <1>1, <2>1 DEF Justified, Plans
  <1>2. CASE ~ LastIsOpen
    <2>1. CASE Latest > 0 /\ Last.end = "failed"
      <3>1. p \in {"open", "idle"}
        BY <1>2, <2>1 DEF NextStep
      <3> QED BY <1>2, <2>1, <3>1 DEF Justified, Plans
    <2>2. CASE Latest > 0 /\ Last.end = "completed" /\ Last.node = Len(Kind)
      <3>1. p = "resolved"
        BY <1>2, <2>2 DEF NextStep
      <3> QED BY <3>1 DEF Justified, Plans
    <2>3. CASE /\ ~ (Latest > 0 /\ Last.end = "failed")
               /\ ~ (Latest > 0 /\ Last.end = "completed" /\ Last.node = Len(Kind))
      <3>1. p = "open"
        BY <1>2, <2>3 DEF NextStep
      <3>2. Latest > 0 => Last.node \in 1 .. Len(Kind)
        BY LastEntry DEF Last, Attempt
      <3>3. Len(Kind) \in Nat
        BY ConstantsAreValid
      <3>4. Latest > 0 /\ Last.end = "completed" => Last.node < Len(Kind)
        BY <2>3, <3>2, <3>3
      <3> QED BY <1>2, <3>1, <3>4 DEF Justified, Plans
    <2> QED BY <2>1, <2>2, <2>3
  <1> QED BY <1>1, <1>2

\* What cancel decides on a fresh snapshot is justified.
LEMMA CancelStepIsJustified ==
    ASSUME NEW w \in Workers, cancelling, NEW p, p = CancelStep(w)
    PROVE  p \in {"idle", "cancel"} \/ (p \in Plans /\ Justified(p))
  BY DEF CancelStep, Justified, Plans

\* A fresh snapshot gives a justified plan.
LEMMA SnapshotPass ==
    ASSUME RunTyped, PassTyped, NEW w \in Workers, PassInv(w), ReadSnapshot(w)
    PROVE  PassInv(w)'
  <1> DEFINE next == IF claim # w \/ lapsed \/ ~ Active THEN "idle"
                     ELSE IF cancelling THEN CancelStep(w) ELSE NextStep(w)
  <1>0. PICK p : p = next
    OBVIOUS
  <1>1. /\ UNCHANGED <<runVars, claim, builds>>
        /\ IF p = "idle" THEN Leave(w)
           ELSE /\ fresh' = fresh \cup {w}
                /\ IF p \in Plans
                   THEN GoTo(w, "commit") /\ plan' = [plan EXCEPT ![w] = p]
                   ELSE GoTo(w, p) /\ UNCHANGED plan
    BY <1>0 DEF ReadSnapshot, claimVars, buildVars
  <1>2. p # "idle" => /\ Active
                      /\ IF cancelling THEN p = CancelStep(w) ELSE p = NextStep(w)
    BY <1>0
  <1> HIDE DEF next
  <1>3. Active' = Active /\ cancelling' = cancelling
    BY <1>1 DEF Active, runVars
  <1>4. CASE p = "idle"
    BY <1>1, <1>4, LeaveEnds
  <1>5. CASE p # "idle" /\ p \in Plans
    <2>1. Justified(p)
      BY <1>2, <1>5, NextStepIsJustified, CancelStepIsJustified DEF Plans
    <2>2. Justified(p)'
      BY <1>1, <2>1, BuildsStay, JustifiedStays
    <2>3. pc'[w] = "commit" /\ plan'[w] = p /\ w \in fresh'
      BY <1>1, <1>5 DEF GoTo, PassTyped
    <2> QED BY <1>2, <1>3, <1>5, <2>2, <2>3 DEF PassInv, Midway
  <1>6. CASE p # "idle" /\ p \notin Plans
    <2>1. (p = "observe" /\ ~ cancelling) \/ (p = "cancel" /\ cancelling)
      BY <1>2, <1>6, NextStepIsJustified, CancelStepIsJustified
    <2>2. pc'[w] = p /\ w \in fresh'
      BY <1>1, <1>6 DEF GoTo, PassTyped
    <2> QED BY <1>2, <1>3, <1>6, <2>1, <2>2 DEF PassInv, Midway
  <1> QED BY <1>4, <1>5, <1>6

\* What the look at the Build comes to.
LEMMA ObservePass ==
    ASSUME RunTyped, PassTyped, NEW w \in Workers, PassInv(w), Observe(w)
    PROVE  PassInv(w)'
  <1>1. UNCHANGED <<runVars, claim, builds>> /\ pc[w] = "observe"
    BY DEF Observe, claimVars, buildVars
  <1>2. claim = w => ~ cancelling
    BY <1>1 DEF PassInv
  <1>3. \/ Leave(w)
        \/ /\ LastIsOpen /\ ObserveMissing(w)
        \/ /\ LastIsOpen /\ ObserveBuild(w)
    BY DEF Observe
  <1>4. ASSUME NEW p \in Plans, Commit(w, p), claim = w => Justified(p)
        PROVE  PassInv(w)'
    <2>1. claim = w => Justified(p)'
      BY <1>1, <1>4, BuildsStay, JustifiedStays
    <2> QED BY <1>1, <1>4, <2>1, CommitIsJustified DEF Midway
  <1>5. CASE Leave(w)
    BY <1>5, LeaveEnds
  <1>6. CASE LastIsOpen /\ ObserveMissing(w)
    <2>1. builds[Latest] = "none"
      BY <1>6 DEF ObserveMissing
    <2>2. CASE Commit(w, "expire")
      BY <1>2, <1>4, <1>6, <2>1, <2>2 DEF Justified, Plans
    <2>3. CASE GoTo(w, "dispatch") /\ UNCHANGED <<fresh, plan>>
      <3>1. pc'[w] = "dispatch" /\ fresh' = fresh /\ claim' = claim
        BY <1>1, <2>3 DEF GoTo, PassTyped
      <3>2. Active' = Active /\ cancelling' = cancelling
        BY <1>1 DEF Active, runVars
      <3> QED BY <1>1, <3>1, <3>2 DEF PassInv, Midway
    <2> QED BY <1>5, <1>6, <2>2, <2>3 DEF ObserveMissing
  <1>7. CASE LastIsOpen /\ ObserveBuild(w)
    <2>1. CASE builds[Latest] # "none" /\ Commit(w, "execution")
      BY <1>4, <1>7, <2>1 DEF Justified, Plans
    <2>2. CASE builds[Latest] = "succeeded" /\ Commit(w, "complete")
      BY <1>2, <1>4, <1>7, <2>2 DEF Justified, Plans
    <2>3. CASE builds[Latest] \in Finished /\ Commit(w, "fail")
      BY <1>2, <1>4, <1>7, <2>3 DEF Justified, Plans
    <2>4. CASE builds[Latest] = "stopped" /\ Commit(w, "await")
      BY <1>2, <1>4, <1>7, <2>4 DEF Justified, Plans
    <2> QED BY <1>5, <1>7, <2>1, <2>2, <2>3, <2>4 DEF ObserveBuild, RetainExecution, Finished
  <1> QED BY <1>3, <1>5, <1>6, <1>7

\* A Build that is accepted is the one that the worker names.
LEMMA DispatchPass ==
    ASSUME RunTyped, PassTyped, NEW w \in Workers, PassInv(w), Dispatch(w)
    PROVE  /\ PassInv(w)'
           /\ builds' \in Seq(BuildStates) /\ Len(builds') = Latest /\ BuildsForward
           /\ BuildsKept \/ claim = w
  <1>1. UNCHANGED <<runVars, claim>> /\ pc[w] = "dispatch"
    BY DEF Dispatch, claimVars
  <1>2. CASE Leave(w) /\ UNCHANGED builds
    BY <1>2, LeaveEnds, BuildsStay
  <1>3. CASE /\ VerifyNodeDispatch(w) /\ builds[Latest] = "none"
             /\ builds' = [builds EXCEPT ![Latest] = "running"]
             /\ Leave(w) \/ Commit(w, "execution")
    <2>1. LastIsOpen /\ claim = w /\ Latest \in 1 .. Latest /\ attempts[Latest].end = "open"
      BY <1>3, LastEntry DEF VerifyNodeDispatch, LastIsOpen, Last
    <2>2. builds' \in Seq(BuildStates) /\ Len(builds') = Latest /\ BuildsForward
      <3>1. "running" \in BuildStates \ {"none"}
        BY DEF BuildStates
      <3> QED BY <1>3, <2>1, <3>1, BuildMoves
    <2>3. builds'[Latest] = "running"
      BY <1>3, <2>1, LastEntry
    <2>4. Latest' = Latest /\ LastIsOpen'
      BY <1>1, <2>1 DEF runVars, Latest, LastIsOpen, Last
    <2>5. Justified("execution")'
      BY <2>3, <2>4 DEF Justified
    <2>6. CASE Commit(w, "execution")
      <3>1. "execution" \in Plans /\ pc[w] \in Midway
        BY <1>1 DEF Plans, Midway
      <3>2. PassInv(w)'
        BY <1>1, <2>5, <2>6, <3>1, CommitIsJustified
      <3> QED BY <2>1, <2>2, <3>2
    <2> QED BY <1>3, <2>1, <2>2, <2>6, LeaveEnds
  <1> QED BY <1>2, <1>3 DEF Dispatch

\* A stop is recorded for a Build that has stopped, or where there was none.
LEMMA CancelPass ==
    ASSUME RunTyped, PassTyped, NEW w \in Workers, PassInv(w), Cancels(w)
    PROVE  /\ PassInv(w)'
           /\ builds' \in Seq(BuildStates) /\ Len(builds') = Latest /\ BuildsForward /\ BuildsKept
  <1>1. UNCHANGED <<runVars, claim>> /\ pc[w] \in {"cancel", "withdraw"}
    BY DEF Cancels, CancelNode, Withdraw, WithdrawNothing, claimVars
  <1>2. claim = w => cancelling
    BY <1>1 DEF PassInv
  <1>3. ASSUME NEW p \in Plans, Commit(w, p), claim = w => Justified(p), BuildsKept
        PROVE  PassInv(w)'
    <2>1. claim = w => Justified(p)'
      BY <1>1, <1>3, JustifiedStays
    <2> QED BY <1>1, <1>3, <2>1, CommitIsJustified DEF Midway
  <1>4. /\ builds' \in Seq(BuildStates) /\ Len(builds') = Latest /\ BuildsForward /\ BuildsKept
    <2>1. CASE UNCHANGED builds
      BY <2>1, BuildsStay
    <2>2. CASE LastIsOpen /\ builds[Latest] = "running" /\ builds' = [builds EXCEPT ![Latest] = "cancelling"]
      <3>1. "cancelling" \in BuildStates \ {"none"} /\ Latest \in 1 .. Latest
        BY <2>2, LastEntry DEF BuildStates, LastIsOpen
      <3> QED BY <2>2, <3>1, BuildMoves
    <2> QED BY <2>1, <2>2, CancelOutcomes
  <1>5. CASE Leave(w)
    BY <1>4, <1>5, LeaveEnds
  <1>6. CASE LastIsOpen /\ builds[Latest] = "none" /\ Commit(w, "void")
    BY <1>2, <1>3, <1>4, <1>6 DEF Justified, Plans
  <1>7. CASE LastIsOpen /\ builds[Latest] \in Finished /\ Commit(w, "stop")
    BY <1>2, <1>3, <1>4, <1>7 DEF Justified, Plans
  <1>8. CASE LastIsOpen /\ builds[Latest] # "none" /\ Commit(w, "execution")
    BY <1>2, <1>3, <1>4, <1>8 DEF Justified, Plans
  <1>9. CASE GoTo(w, "withdraw") /\ UNCHANGED <<fresh, plan>>
    <2>1. pc'[w] = "withdraw" /\ fresh' = fresh /\ claim' = claim
      BY <1>1, <1>9 DEF GoTo, PassTyped
    <2>2. Active' = Active /\ cancelling' = cancelling
      BY <1>1 DEF Active, runVars
    <2>3. PassInv(w)'
      BY <1>1, <2>1, <2>2 DEF PassInv, Midway
    <2> QED BY <1>4, <2>3
  <1> QED BY <1>5, <1>6, <1>7, <1>8, <1>9, CancelOutcomes

----------------------------------------------------------------------------
(* Every step                                                              *)

\* A step of one worker leaves the passes of the others alone.
LEMMA WorkerStep ==
    ASSUME RunInv, NEW w \in Workers, UNCHANGED <<runVars, claim>>,
           \A v \in Workers \ {w} : pc'[v] = pc[v] /\ plan'[v] = plan[v] /\ (v \in fresh' <=> v \in fresh),
           PassInv(w)', builds' \in Seq(BuildStates), Len(builds') = Latest, BuildsForward,
           BuildsKept \/ claim = w
    PROVE  JournalInv' /\ RunTyped' /\ \A v \in Workers : PassInv(v)'
  <1>1. RunTyped /\ JournalInv
    BY TypeParts DEF RunInv
  <1>2. \A v \in Workers \ {w} : PassInv(v)'
    BY <1>1, PassStays DEF RunInv
  <1> QED BY <1>1, <1>2, ForwardKeepsJournal

\* Nobody's pass moves: time passes, a Build ends.
LEMMA OutsideStep ==
    ASSUME RunInv, UNCHANGED <<runVars, claim, workerVars>>,
           builds' \in Seq(BuildStates), Len(builds') = Latest, BuildsForward, BuildsKept
    PROVE  JournalInv' /\ RunTyped' /\ \A v \in Workers : PassInv(v)'
  <1>1. RunTyped /\ JournalInv
    BY TypeParts DEF RunInv
  <1>2. \A v \in Workers : PassInv(v)'
    BY <1>1, PassStays DEF RunInv, workerVars
  <1> QED BY <1>1, <1>2, ForwardKeepsJournal

\* A step of a pass before its commit keeps the journal true and every plan justified.
LEMMA PassKeeps ==
    ASSUME RunInv, NEW w \in Workers,
           \/ ReadSnapshot(w) \/ Observe(w) \/ Dispatch(w) \/ Cancels(w) \/ Crash(w)
    PROVE  JournalInv' /\ RunTyped' /\ \A v \in Workers : PassInv(v)'
  <1>1. RunTyped /\ PassTyped /\ PassInv(w)
    BY TypeParts DEF RunInv
  <1>2. UNCHANGED <<runVars, claim>>
    BY DEF ReadSnapshot, Observe, Dispatch, Cancels, CancelNode, Withdraw, WithdrawNothing, Crash, claimVars
  <1>3. ASSUME NEW p, Leave(w) \/ Commit(w, p)
        PROVE  \A v \in Workers \ {w} : pc'[v] = pc[v] /\ plan'[v] = plan[v] /\ (v \in fresh' <=> v \in fresh)
    BY <1>1, <1>3 DEF Leave, Commit, GoTo, PassTyped
  <1>4. \A v \in Workers \ {w} : pc'[v] = pc[v] /\ plan'[v] = plan[v] /\ (v \in fresh' <=> v \in fresh)
    <2>1. CASE ReadSnapshot(w)
      <3>1. \/ Leave(w)
            \/ \E p : GoTo(w, "commit") /\ plan' = [plan EXCEPT ![w] = p] /\ fresh' = fresh \cup {w}
            \/ \E p : GoTo(w, p) /\ UNCHANGED plan /\ fresh' = fresh \cup {w}
        BY <2>1 DEF ReadSnapshot
      <3> QED BY <1>1, <3>1 DEF Leave, GoTo, PassTyped
    <2>2. CASE Observe(w)
      <3>1. \/ Leave(w) \/ (\E p : Commit(w, p))
            \/ GoTo(w, "dispatch") /\ UNCHANGED <<fresh, plan>>
        BY <2>2 DEF Observe, ObserveMissing, ObserveBuild, RetainExecution
      <3> QED BY <1>1, <1>3, <3>1 DEF GoTo, PassTyped
    <2>3. CASE Dispatch(w)
      BY <1>3, <2>3 DEF Dispatch
    <2>4. CASE Cancels(w)
      <3>1. Leave(w) \/ (\E p : Commit(w, p)) \/ (GoTo(w, "withdraw") /\ UNCHANGED <<fresh, plan>>)
        BY <1>1, <2>4, CancelOutcomes
      <3> QED BY <1>1, <1>3, <3>1 DEF GoTo, PassTyped
    <2>5. CASE Crash(w)
      BY <1>1, <2>5 DEF Crash, GoTo, PassTyped
    <2> QED BY <2>1, <2>2, <2>3, <2>4, <2>5
  <1>5. CASE Dispatch(w)
    BY <1>1, <1>2, <1>4, <1>5, DispatchPass, WorkerStep
  <1>6. CASE Cancels(w)
    BY <1>1, <1>2, <1>4, <1>6, CancelPass, WorkerStep
  <1>7. CASE ReadSnapshot(w) \/ Observe(w) \/ Crash(w)
    <2>1. UNCHANGED builds
      BY <1>7 DEF ReadSnapshot, Observe, Crash, buildVars
    <2>2. PassInv(w)'
      <3>1. CASE Crash(w)
        <4>1. pc'[w] = "dead" /\ w \notin fresh'
          BY <1>1, <3>1 DEF Crash, GoTo, PassTyped
        <4> QED BY <4>1, PassEnds
      <3> QED BY <1>1, <1>7, <3>1, SnapshotPass, ObservePass
    <2> QED BY <1>1, <1>2, <1>4, <2>1, <2>2, BuildsStay, WorkerStep
  <1> QED BY <1>5, <1>6, <1>7

\* A claim that changes hands.
LEMMA ClaimKeeps ==
    ASSUME RunInv, NEW w \in Workers, ClaimRun(w)
    PROVE  JournalInv' /\ RunTyped' /\ \A v \in Workers : PassInv(v)'
  <1>1. RunTyped /\ PassTyped /\ JournalInv /\ PassInv(w)
    BY TypeParts DEF RunInv
  <1>2. UNCHANGED <<runVars, builds, fresh, plan>> /\ claim' = w /\ pc[w] = "idle"
    BY DEF ClaimRun, buildVars
  <1>3. pc' = [pc EXCEPT ![w] = "claimed"]
    BY DEF ClaimRun
  <1>4. PassInv(w)'
    <2>1. w \notin fresh' /\ pc'[w] = "claimed"
      BY <1>1, <1>2, <1>3 DEF PassInv, Midway, PassTyped
    <2> QED BY <2>1, PassEnds
  <1>5. ASSUME NEW v \in Workers \ {w}
        PROVE  PassInv(v)'
    <2>1. pc'[v] = pc[v] /\ PassInv(v)
      BY <1>1, <1>3 DEF PassTyped, RunInv
    <2> QED BY <1>1, <1>2, <2>1, PassStays
  <1> QED BY <1>1, <1>2, <1>4, <1>5, BuildsStay, ForwardKeepsJournal

\* A commit ends the pass of its worker, and every other snapshot is stale.
LEMMA CommitKeeps ==
    ASSUME RunInv, NEW w \in Workers, CommitTransition(w)
    PROVE  JournalInv' /\ RunTyped' /\ \A v \in Workers : PassInv(v)'
  <1>1. RunTyped /\ PassTyped /\ JournalInv
    BY TypeParts DEF RunInv
  <1>2. /\ pc[w] = "commit" /\ pc' = [pc EXCEPT ![w] = "idle"] /\ plan' = [plan EXCEPT ![w] = None]
        /\ UNCHANGED <<cancelling, claim>>
    BY DEF CommitTransition, GoTo
  <1>3. /\ pc'[w] = "idle"
        /\ \A v \in Workers \ {w} : pc'[v] = pc[v] /\ plan'[v] = plan[v]
    BY <1>1, <1>2 DEF PassTyped
  <1>4. CASE MayCommit(w) /\ Apply(w) /\ fresh' = {}
    <2>1. RunTyped' /\ JournalInv'
      BY <1>1, <1>2, <1>4, CommitHasEffects, CommitKeepsJournal
    <2>2. ASSUME NEW v \in Workers
          PROVE  PassInv(v)'
      <3>1. CASE v = w
        BY <1>3, <1>4, <3>1, PassEnds
      <3>2. CASE v # w
        <4>1. claim' # v /\ v \notin fresh' /\ pc'[v] = pc[v] /\ plan'[v] = plan[v]
          BY <1>2, <1>3, <1>4, <3>2 DEF MayCommit
        <4> QED BY <4>1 DEF PassInv, RunInv
      <3> QED BY <3>1, <3>2
    <2> QED BY <2>1, <2>2
  <1>5. CASE fresh' = fresh \ {w} /\ UNCHANGED <<runVars, builds>>
    <2>1. PassInv(w)'
      BY <1>3, <1>5, PassEnds
    <2> QED BY <1>1, <1>2, <1>3, <1>5, <2>1, BuildsStay, WorkerStep
  <1> QED BY <1>4, <1>5 DEF CommitTransition, buildVars

\* A control takes the claim away and makes every snapshot stale.
LEMMA ControlKeeps ==
    ASSUME RunInv, CancelRun \/ RetryNode \/ ResolveNode
    PROVE  JournalInv' /\ RunTyped' /\ \A v \in Workers : PassInv(v)'
  <1>1. RunTyped /\ JournalInv /\ None \notin Workers
    BY TypeParts, ConstantsAreValid DEF RunInv
  <1>2. /\ Active /\ ~ cancelling /\ claim' = None /\ fresh' = {}
        /\ UNCHANGED <<state, attempts, builds, pc, plan>>
        /\ cancelling' = TRUE \/ cancelling' = cancelling
    BY DEF CancelRun, RetryNode, ResolveNode, Control, buildVars
  <1>3. cancelling' \in BOOLEAN
    BY <1>1, <1>2, Zenon DEF RunTyped
  <1>4. RunTyped'
    BY <1>1, <1>2, <1>3 DEF RunTyped, Latest
  <1>5. JournalInv'
    <2>1. \A i \in 1 .. Latest : EntryIsTrue(i)'
      BY <1>1, <1>2 DEF JournalInv, EntryIsTrue, Latest
    <2>2. state' \notin {"completed", "cancelled"}
      BY <1>2 DEF Active
    <2> QED BY <1>2, <2>1, <2>2 DEF JournalInv, Latest
  <1>6. \A v \in Workers : PassInv(v)'
    BY <1>1, <1>2 DEF PassInv, RunInv
  <1> QED BY <1>4, <1>5, <1>6

\* Every step keeps the invariant of the Run.
LEMMA RunStep ==
    ASSUME RunInv, [Next]_vars
    PROVE  RunInv'
  <1>0. RunTyped /\ PassTyped /\ FactsTyped
    BY TypeParts DEF RunInv
  <1>1. ASSUME ClaimLapses \/ WindowEnds \/ DeadlinePasses \/ AnswersChange \/ UNCHANGED vars
        PROVE  JournalInv' /\ RunTyped' /\ \A v \in Workers : PassInv(v)'
    <2>1. UNCHANGED <<runVars, claim, workerVars, builds>>
      BY <1>1 DEF ClaimLapses, WindowEnds, DeadlinePasses, AnswersChange, vars, claimVars, buildVars
    <2> QED BY <1>0, <2>1, BuildsStay, OutsideStep
  <1>2. ASSUME NEW i \in DOMAIN builds, BuildStops(i) \/ BuildEnds(i)
        PROVE  JournalInv' /\ RunTyped' /\ \A v \in Workers : PassInv(v)'
    <2>1. /\ UNCHANGED <<runVars, claim, workerVars>>
          /\ builds[i] \in {"running", "cancelling"}
      BY <1>2 DEF BuildStops, BuildEnds, claimVars
    <2>2. PICK s \in Finished \cup {"cancelling"} : builds' = [builds EXCEPT ![i] = s]
      BY <1>2 DEF BuildStops, BuildEnds
    <2>3. s \in BuildStates \ {"none"} /\ i \in 1 .. Latest
      BY <1>0, LastEntry DEF Finished, BuildStates
    <2>4. builds' \in Seq(BuildStates) /\ Len(builds') = Latest /\ BuildsForward /\ BuildsKept
      BY <1>0, <2>1, <2>2, <2>3, BuildMoves
    <2> QED BY <2>1, <2>4, OutsideStep
  <1>3. JournalInv' /\ RunTyped' /\ \A v \in Workers : PassInv(v)'
    BY <1>1, <1>2, ClaimKeeps, PassKeeps, CommitKeeps, ControlKeeps DEF Next, Pass, Cancels
  <1>4. PassTyped' /\ FactsTyped'
    BY <1>0, PassStaysTyped, FactsStayTyped
  <1>5. TypeOK'
    BY <1>3, <1>4 DEF TypeOK, RunTyped, PassTyped, FactsTyped
  <1> QED BY <1>3, <1>5 DEF RunInv

\* The invariant holds when the Run is created.
LEMMA RunInitially ==
    ASSUME Init
    PROVE  RunInv
  <1>1. attempts = <<>> /\ builds = <<>> /\ Latest = 0
    BY DEF Init, Latest
  <1>2. RunTyped
    <2>1. cancelling \in BOOLEAN
      BY Zenon DEF Init
    <2>2. attempts \in Seq(Attempt) /\ builds \in Seq(BuildStates)
      BY <1>1
    <2> QED BY <1>1, <2>1, <2>2 DEF Init, RunTyped, RunStates
  <1>3. PassTyped
    BY DEF Init, PassTyped
  <1>4. FactsTyped
    <2>1. NewFacts(None, FALSE) \in LastFacts
      BY DEF NewFacts, LastFacts
    <2>2. lapsed \in BOOLEAN /\ touched \in BOOLEAN /\ follows \in BOOLEAN
      BY Zenon DEF Init
    <2> QED BY <2>1, <2>2 DEF Init, FactsTyped
  <1>5. JournalInv
    BY <1>1 DEF Init, JournalInv
  <1>6. \A w \in Workers : PassInv(w)
    BY DEF Init, PassInv, Midway
  <1> QED BY <1>2, <1>3, <1>4, <1>5, <1>6, TypeParts DEF RunInv

----------------------------------------------------------------------------
(* The theorems                                                            *)

\* The inductive invariant, of every behaviour of workers, operators and Builds.
LEMMA RunInvariant == Spec => []RunInv
  <1>1. Init => RunInv
    BY RunInitially
  <1>2. RunInv /\ [Next]_vars => RunInv'
    BY RunStep
  <1> QED BY <1>1, <1>2, PTL DEF Spec

\* The Run, its journal, its Builds and the passes keep their types: no Attempt is
\* opened beyond the last node, and each has one Build at most.
THEOREM TypeCorrect == Spec => []TypeOK
  <1>1. RunInv => TypeOK
    BY DEF RunInv
  <1> QED BY <1>1, RunInvariant, PTL

\* A stop receipt is true and stays true, whoever was dispatching, cancelling or
\* observing when it was written; a cancelled Run has no Build Attempt without one.
THEOREM ReceiptsTruthful == Spec => []StopReceiptIsTruthful
  <1>1. RunInv => StopReceiptIsTruthful
    <2> SUFFICES ASSUME RunInv PROVE StopReceiptIsTruthful
      OBVIOUS
    <2>1. RunTyped /\ JournalInv
      BY TypeParts DEF RunInv
    <2>2. ASSUME state = "cancelled", NEW i \in 1 .. Latest, IsBuild(i)
          PROVE  attempts[i].end # "open"
      <3>1. SUFFICES ASSUME attempts[i].end = "open" PROVE FALSE
        OBVIOUS
      <3>2. i = Latest
        BY <2>1, <3>1 DEF JournalInv, EntryIsTrue
      <3>3. Latest > 0
        BY <2>1, <3>2, LastEntry
      <3> QED BY <2>1, <2>2, <3>1, <3>2, <3>3 DEF JournalInv, LastIsOpen, Last
    <2> QED BY <2>1, <2>2 DEF StopReceiptIsTruthful, JournalInv, EntryIsTrue
  <1> QED BY <1>1, RunInvariant, PTL

\* A step after an accepted cancellation.
Final ==
    cancelling =>
         /\ cancelling' /\ state' # "completed" /\ Latest' = Latest
         /\ \A i \in 1 .. Latest :
               /\ builds[i] = "none" => builds'[i] = "none"
               /\ attempts'[i].end # attempts[i].end => attempts'[i].end = "cancelled"

\* No step starts or decides anything once the Run is being cancelled.
LEMMA StepIsFinal ==
    ASSUME RunInv, [Next]_vars
    PROVE  Final
  <1> SUFFICES ASSUME cancelling PROVE Final
    BY DEF Final
  <1>0. RunTyped /\ JournalInv /\ state # "completed" /\ RunInv'
    BY TypeParts, RunStep DEF RunInv, JournalInv
  <1>1. ASSUME UNCHANGED <<runVars, builds>>
        PROVE  Final
    BY <1>0, <1>1 DEF Final, runVars, Latest
  <1>2. ASSUME UNCHANGED runVars, NEW i \in 1 .. Latest, builds[i] # "none", NEW s,
               builds' = [builds EXCEPT ![i] = s]
        PROVE  Final
    BY <1>0, <1>2, LastEntry DEF Final, runVars, Latest
  <1>3. ASSUME NEW w \in Workers, CommitTransition(w)
        PROVE  Final
    <2>1. CASE UNCHANGED <<runVars, builds>>
      BY <1>1, <2>1
    <2>2. CASE MayCommit(w) /\ Apply(w)
      <3>1. CommitEffects /\ cancelling' = cancelling
        BY <1>3, <2>2, CommitHasEffects DEF CommitTransition
      <3>2. CASE /\ LastIsOpen /\ builds' = builds /\ state' \in {"running", "waiting"}
                 /\ Updates("open", TRUE) \/ \E x \in BOOLEAN : Updates("cancelled", x)
        <4>1. /\ Latest' = Latest
              /\ \A i \in 1 .. Latest : i # Latest => attempts'[i] = attempts[i]
              /\ attempts'[Latest].end = "cancelled" \/ attempts'[Latest].end = attempts[Latest].end
          BY <3>2 DEF Updates, LastIsOpen, Last
        <4> QED BY <3>1, <3>2, <4>1 DEF Final
      <3>3. CASE UNCHANGED <<attempts, builds>> /\ state' = "cancelled"
        BY <3>1, <3>3 DEF Final, Latest
      <3> QED BY <3>1, <3>2, <3>3 DEF CommitEffects
    <2> QED BY <1>3, <2>1, <2>2 DEF CommitTransition, buildVars
  <1>4. ASSUME NEW w \in Workers, Dispatch(w)
        PROVE  Final
    BY <1>1, <1>4 DEF Dispatch, VerifyNodeDispatch
  <1>5. ASSUME NEW w \in Workers, Cancels(w)
        PROVE  Final
    <2>1. UNCHANGED runVars
      BY <1>5 DEF Cancels, CancelNode, Withdraw, WithdrawNothing
    <2>2. CASE UNCHANGED builds
      BY <1>1, <2>1, <2>2
    <2>3. CASE LastIsOpen /\ builds[Latest] # "none" /\ builds' = [builds EXCEPT ![Latest] = "cancelling"]
      BY <1>0, <1>2, <2>1, <2>3, LastEntry DEF LastIsOpen
    <2> QED BY <1>0, <1>5, <2>2, <2>3, CancelOutcomes
  <1>6. ASSUME NEW i \in DOMAIN builds, BuildStops(i) \/ BuildEnds(i)
        PROVE  Final
    BY <1>0, <1>2, <1>6, LastEntry DEF BuildStops, BuildEnds
  <1>7. ASSUME NEW w \in Workers, ClaimRun(w) \/ ReadSnapshot(w) \/ Observe(w) \/ Crash(w)
        PROVE  Final
    BY <1>1, <1>7 DEF ClaimRun, ReadSnapshot, Observe, Crash, buildVars
  <1>8. CASE ClaimLapses \/ WindowEnds \/ DeadlinePasses \/ AnswersChange \/ UNCHANGED vars
    BY <1>1, <1>8 DEF ClaimLapses, WindowEnds, DeadlinePasses, AnswersChange, vars, buildVars
  <1>9. CASE CancelRun \/ RetryNode \/ ResolveNode
    BY <1>9 DEF CancelRun, RetryNode, ResolveNode, Control
  <1> QED BY <1>3, <1>4, <1>5, <1>6, <1>7, <1>8, <1>9 DEF Next, Pass, Cancels

\* Once a cancellation is accepted nothing starts and nothing is decided any more,
\* however far a worker had come in its pass.
THEOREM CancellationFinal == Spec => CancellationIsFinal
  <1>1. RunInv /\ [Next]_vars => [Final]_vars
    BY StepIsFinal
  <1> QED BY <1>1, RunInvariant, PTL DEF Spec, CancellationIsFinal, Final
============================================================================
