------------------------------ MODULE OnceOnly ------------------------------
(***************************************************************************)
(* What the store promises about one idempotency key. At most one command  *)
(* is accepted under it, for ever; it is decided once, and only an applied *)
(* one has its effect. A call is answered with an outcome only when it     *)
(* carries the request accepted and the outcome is the decided one. A call *)
(* may always be declined; the caller then does not know more.             *)
(***************************************************************************)
EXTENDS Naturals

CONSTANTS None, Declined, Calls, RequestOf, Sealed, Outcomes

VARIABLES
    record,    \* the request, command and outcome under the key, or None
    effects,   \* changes made under the key
    answer     \* call -> its answer, or None

Init == record = None /\ effects = 0 /\ answer = [c \in Calls |-> None]

Record(c, o) == [request |-> RequestOf[c], command |-> c, outcome |-> o]

\* A command that is retained may be accepted before it is decided.
Accept(c) ==
    /\ record = None
    /\ RequestOf[c] \in Sealed
    /\ record' = Record(c, None)
    /\ UNCHANGED <<effects, answer>>

\* The command of call c is decided, now or after it was accepted.
Decide(c, o) ==
    /\ record \in {None, Record(c, None)}
    /\ o.command = c
    /\ record' = Record(c, o)
    /\ effects' = IF o.result = "applied" THEN effects + 1 ELSE effects
    /\ UNCHANGED answer

Answer(c) ==
    /\ answer[c] = None
    /\ record # None /\ record.request = RequestOf[c] /\ record.outcome # None
    /\ answer' = [answer EXCEPT ![c] = record.outcome]
    /\ UNCHANGED <<record, effects>>

Decline(c) ==
    /\ answer[c] = None
    /\ answer' = [answer EXCEPT ![c] = Declined]
    /\ UNCHANGED <<record, effects>>

Next ==
    \E c \in Calls : Accept(c) \/ Answer(c) \/ Decline(c) \/ \E o \in Outcomes : Decide(c, o)

Spec == Init /\ [][Next]_<<record, effects, answer>>
============================================================================
