------------------------------- MODULE MCTxQueue -------------------------------
(***************************************************************************)
(* TxQueue for TLC.  No bound is needed beyond the constants: the indices  *)
(* wrap around, and the histories of stores hold at most the commits the   *)
(* other side has not seen, fewer than Capacity.                           *)
(***************************************************************************)
EXTENDS TxQueue

\* Nothing in the queue looks at what a byte is.
Symmetry == Permutations(Byte)
================================================================================
