------------------------- MODULE MCInteractiveSession --------------------------
(***************************************************************************)
(* InteractiveSession for TLC.  The queue has room for two messages and    *)
(* the number of a third, whose stamp is then refused.                     *)
(***************************************************************************)
EXTENDS InteractiveSession
================================================================================
