-------------------------- MODULE MCLogRetention --------------------------
(* Instances of LogRetention: the assignment of chunks to Builds.           *)
EXTENDS LogRetention, TLC

CONSTANTS b1, b2, c1, c2

OneBuild  == (c1 :> b1 @@ c2 :> b1)
TwoBuilds == (c1 :> b1 @@ c2 :> b2)

\* The replicas are interchangeable; so are the two Builds, each with its chunk.
Symmetry == Permutations(IndexWorkers) \cup Permutations(RetentionWorkers)
BuildSymmetry == Symmetry \cup {(b1 :> b2 @@ b2 :> b1 @@ c1 :> c2 @@ c2 :> c1)}
============================================================================
