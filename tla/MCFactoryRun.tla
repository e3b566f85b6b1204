---------------------------- MODULE MCFactoryRun ----------------------------
(***************************************************************************)
(* Small instances of FactoryRun: a Build whose result a person accepts,   *)
(* and two workers, one of which may end.                                  *)
(***************************************************************************)
EXTENDS FactoryRun

BuildThenGate == <<"Build", "HumanGate">>
=============================================================================
