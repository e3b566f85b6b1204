--------------------------- MODULE MutationRecord ---------------------------
(***************************************************************************)
(* The idempotency record in front of every mutation of the store: what    *)
(* several calls under one key do to it and to the aggregate they change.  *)
(* A call that finds no record inserts a pending one and keeps its row     *)
(* locked until its transaction ends; a call that meets an uncommitted or  *)
(* locked record waits. Business change, audit fact, outbox entry and the  *)
(* recorded outcome commit together.                                       *)
(*                                                                         *)
(* Most commands are ordinary. A pipeline-driven Issue transition seals    *)
(* its command first, in a transaction of its own, so that a crash leaves  *)
(* a pending record that a repeated call resumes; its rejection is recorded *)
(* as well. A call stands for one send of a client: a lost answer and the  *)
(* retry that follows are two calls of the same request.                   *)
(***************************************************************************)
EXTENDS Null, Naturals, FiniteSets

CONSTANTS
    Declined,
    Calls,
    RequestOf,      \* call -> the request it carries (its digest)
    Sealed,         \* requests that retain their command
    MaxVersion,     \* bound on the versions of the aggregate
    RejectedAt      \* versions of the aggregate at which the command is invalid

ASSUME MutationAssumption ==
    /\ MaxVersion \in Nat
    /\ RejectedAt \subseteq 0 .. MaxVersion
    /\ None # Declined
    /\ \A c \in Calls : c \in DOMAIN RequestOf

Outcomes == [result : {"applied", "rejected"}, version : 0 .. MaxVersion, command : Calls]

Records == [request : {RequestOf[c] : c \in Calls}, command : Calls, outcome : Outcomes \cup {None}]

ASSUME OutcomeAssumption ==
    /\ None \notin Calls \cup Outcomes \cup Records
    /\ Declined \notin Outcomes

VARIABLES
    row,       \* the committed idempotency record, or None
    holder,    \* the call whose transaction has the record locked, or None
    draft,     \* the record as that transaction sees it
    pc,        \* call -> its step
    version,   \* committed version of the aggregate
    effects,   \* business changes committed under this key, each with its audit fact
    answer     \* call -> its answer, or None

mutationVars == <<row, holder, draft, pc, version, effects, answer>>

IsSealed(c) == RequestOf[c] \in Sealed

MutationInit ==
    /\ row = None /\ holder = None /\ draft = None
    /\ pc = [c \in Calls |-> "new"]
    /\ version = 0
    /\ effects = 0
    /\ answer = [c \in Calls |-> None]

----------------------------------------------------------------------------
\* Mutant: a record that is already decided is taken up again.
LookupAgain(c) ==
    CASE row = None -> "fresh"
      [] row # None /\ row.request # RequestOf[c] -> "conflict"
      [] OTHER -> "resume"

\* begin_operation, once the record is not locked by another transaction.
Lookup(c) ==
    CASE row = None -> "fresh"
      [] row # None /\ row.request # RequestOf[c] -> "conflict"
      [] row # None /\ row.request = RequestOf[c] /\ row.outcome = None ->
            IF IsSealed(c) THEN "resume" ELSE "unavailable"
      [] OTHER -> "replay"

NewRecord(c) == [request |-> RequestOf[c], command |-> c, outcome |-> None]

\* The record the transaction goes on with: a resumed one keeps the command sealed first.
RecordFor(c) == IF Lookup(c) = "fresh" THEN NewRecord(c) ELSE row

Begin(c) ==
    /\ pc[c] \in {"new", "sealed"}
    /\ holder = None
    /\ Lookup(c) \in {"fresh", "resume"}
    /\ holder' = c
    /\ draft' = RecordFor(c)
    /\ pc' = [pc EXCEPT ![c] = IF IsSealed(c) /\ pc[c] = "new" THEN "seal" ELSE "execute"]
    /\ UNCHANGED <<row, version, effects, answer>>

Replay(c) ==
    /\ pc[c] \in {"new", "sealed"}
    /\ holder = None
    /\ Lookup(c) \in {"conflict", "unavailable", "replay"}
    /\ answer' = [answer EXCEPT ![c] = IF Lookup(c) = "replay" THEN row.outcome ELSE Declined]
    /\ pc' = [pc EXCEPT ![c] = "done"]
    /\ UNCHANGED <<row, holder, draft, version, effects>>

ReleaseRecord == holder' = None /\ draft' = None

\* The first transaction of a sealed command ends with the pending record.
CommitSeal(c) ==
    /\ pc[c] = "seal"
    /\ row' = draft
    /\ ReleaseRecord
    /\ pc' = [pc EXCEPT ![c] = "sealed"]
    /\ UNCHANGED <<version, effects, answer>>

\* The business change, evaluated under the aggregate's row lock.
Execute(c) ==
    /\ pc[c] = "execute"
    /\ version \notin RejectedAt
    /\ version < MaxVersion
    /\ draft' = [draft EXCEPT !.outcome =
          [result |-> "applied", version |-> version + 1, command |-> draft.command]]
    /\ pc' = [pc EXCEPT ![c] = "commit"]
    /\ UNCHANGED <<row, holder, version, effects, answer>>

\* A rejection rolls an ordinary command back, record and all; a sealed one records it.
Reject(c) ==
    /\ pc[c] = "execute"
    /\ version \in RejectedAt
    /\ IF IsSealed(c)
       THEN /\ draft' = [draft EXCEPT !.outcome =
                  [result |-> "rejected", version |-> version, command |-> draft.command]]
            /\ pc' = [pc EXCEPT ![c] = "commit"]
            /\ UNCHANGED <<holder, answer>>
       ELSE /\ ReleaseRecord
            /\ answer' = [answer EXCEPT ![c] = Declined]
            /\ pc' = [pc EXCEPT ![c] = "done"]
    /\ UNCHANGED <<row, version, effects>>

CommitMutation(c) ==
    /\ pc[c] = "commit"
    /\ row' = draft
    /\ IF draft.outcome.result = "applied"
       THEN version' = draft.outcome.version /\ effects' = effects + 1
       ELSE UNCHANGED <<version, effects>>
    /\ ReleaseRecord
    /\ pc' = [pc EXCEPT ![c] = "reply"]
    /\ UNCHANGED answer

\* The answer arrives, or is lost with the connection or the server.
Reply(c) ==
    /\ pc[c] = "reply"
    /\ \E a \in {row.outcome, Declined} : answer' = [answer EXCEPT ![c] = a]
    /\ pc' = [pc EXCEPT ![c] = "done"]
    /\ UNCHANGED <<row, holder, draft, version, effects>>

\* Mutant: the lock survives the transaction.
RollbackKeepsLock(c) ==
    /\ pc[c] \in {"seal", "execute", "commit"}
    /\ answer' = [answer EXCEPT ![c] = Declined]
    /\ pc' = [pc EXCEPT ![c] = "done"]
    /\ UNCHANGED <<row, holder, draft, version, effects>>

\* A statement fails, the deadline is over before the commit, or the server dies.
Rollback(c) ==
    /\ pc[c] \in {"seal", "execute", "commit"}
    /\ ReleaseRecord
    /\ answer' = [answer EXCEPT ![c] = Declined]
    /\ pc' = [pc EXCEPT ![c] = "done"]
    /\ UNCHANGED <<row, version, effects>>

\* Another command changes the aggregate while nobody has it locked.
OtherMutation ==
    /\ version < MaxVersion
    /\ \A c \in Calls : pc[c] # "commit"
    /\ version' = version + 1
    /\ UNCHANGED <<row, holder, draft, pc, effects, answer>>

CallStep(c) ==
    \/ Begin(c) \/ Replay(c) \/ CommitSeal(c) \/ Execute(c) \/ Reject(c)
    \/ CommitMutation(c) \/ Reply(c) \/ Rollback(c)

MutationNext == OtherMutation \/ \E c \in Calls : CallStep(c)

MutationSpec == MutationInit /\ [][MutationNext]_mutationVars

\* Every call is driven by its request handler, and a lock wait ends when the
\* transaction waited for ends.
MutationFairSpec == MutationSpec /\ \A c \in Calls : WF_mutationVars(CallStep(c))

----------------------------------------------------------------------------
(* Properties.                                                             *)

\* The record, the lock and the answers are of their types; a transaction is open
\* exactly while its call is between begin and commit.
MutationTypeOK ==
    /\ row \in Records \cup {None} /\ draft \in Records \cup {None}
    /\ holder \in Calls \cup {None}
    /\ pc \in [Calls -> {"new", "seal", "sealed", "execute", "commit", "reply", "done"}]
    /\ \A c \in Calls : pc[c] \in {"seal", "execute", "commit"} <=> holder = c
    /\ (holder = None) <=> (draft = None)
    /\ version \in 0 .. MaxVersion
    /\ effects \in Nat
    /\ answer \in [Calls -> Outcomes \cup {None, Declined}]

\* Every call is answered: nobody waits for ever on a record another call has locked.
EveryCallIsAnswered == \A c \in Calls : (pc[c] = "new") ~> (answer[c] # None)

Once == INSTANCE OnceOnly WITH record <- row

\* The record implements the promise of OnceOnly: the business change happened, once,
\* exactly when the record says it was applied; the outcome is that of the command
\* accepted first; no ordinary key stays pending after a call that died; and no call
\* is answered with anything else, whatever was repeated, interrupted or overtaken.
ImplementsOnceOnly == Once!Spec
============================================================================
