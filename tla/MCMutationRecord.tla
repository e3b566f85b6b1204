------------------------- MODULE MCMutationRecord -------------------------
(* Instance of MutationRecord: three sends of a request that seals its       *)
(* command and two of an ordinary one, all under the same key.               *)
EXTENDS MutationRecord, TLC

CONSTANTS c1, c2, c3, c4, c5, q1, q2

SameKey == (c1 :> q1 @@ c2 :> q1 @@ c3 :> q1 @@ c4 :> q2 @@ c5 :> q2)
============================================================================
