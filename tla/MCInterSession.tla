---------------------------- MODULE MCInterSession -----------------------------
(***************************************************************************)
(* InterSession for TLC.  Deadlock is not checked: the programs end.       *)
(***************************************************************************)
EXTENDS InterSession

================================================================================
