--------------------------- MODULE MCClaimScopes ---------------------------
(* Instance of ClaimScopes: two Pools, two Projects, four Jobs. Three are of *)
(* Project a, whose limit was one when the Build of j1 was accepted and two  *)
(* later; j1 and j4 share a Build Configuration limited to one. The Job of   *)
(* the other Project is queued between them.                                 *)
EXTENDS ClaimScopes, TLC

CONSTANTS j1, j2, j3, j4, c1, c2, c3, p1, p2, a, b, x, y, z

FourJobs == <<j1, j3, j2, j4>>
ClaimPools == (c1 :> p1 @@ c2 :> p2 @@ c3 :> p1)
JobProjects == (j1 :> a @@ j2 :> a @@ j3 :> b @@ j4 :> a)
JobConfigurations == (j1 :> x @@ j2 :> y @@ j3 :> z @@ j4 :> x)
Capacity == (p1 :> 1 @@ p2 :> 2)
ProjectLimits == (j1 :> 1 @@ j2 :> 2 @@ j3 :> 1 @@ j4 :> 2)
ConfigurationLimits == (j1 :> 1 @@ j2 :> 2 @@ j3 :> 1 @@ j4 :> 1)
============================================================================
