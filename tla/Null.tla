-------------------------------- MODULE Null --------------------------------
(***************************************************************************)
(* What stands where there is no value: a NULL column, a row that is not   *)
(* there, a lock that nobody has.                                          *)
(***************************************************************************)

CONSTANT None
=============================================================================
