------------------------ MODULE MCBuildCoordination ------------------------
(***************************************************************************)
(* Small instances of BuildCoordination: the Job graphs, placements and    *)
(* limits that the configurations choose from. Builds, Jobs and Pools are  *)
(* numbers, Agents and Workers are model values.                            *)
(***************************************************************************)
EXTENDS BuildCoordination, TLC

\* One Build and one Attempt.
OneBuild   == [j \in Jobs |-> 1]
OneAttempt == [j \in Jobs |-> 1]

\* Job n is the only Job of Attempt n: every retry is one new Job.
AttemptPerJob == [j \in Jobs |-> j]

Independent == [j \in Jobs |-> {}]

\* The last Job joins all the others.
FanIn == [j \in Jobs |-> IF \A i \in Jobs : i <= j THEN Jobs \ {j} ELSE {}]

WhenAllSucceeded == [j \in Jobs |-> "AllSucceeded"]
WhenAnySucceeded == [j \in Jobs |-> "AnySucceeded"]

AnyPool   == [j \in Jobs |-> Pools]
OneScope  == [b \in Builds |-> 1]
Limit2    == [b \in Builds |-> 2]
PoolTwo   == [p \in Pools |-> 2]

\* No action, constant or property tells two Agents apart.
AgentSymmetry == Permutations(Agents)
=============================================================================
