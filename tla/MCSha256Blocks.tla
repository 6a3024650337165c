---------------------------- MODULE MCSha256Blocks -----------------------------
(***************************************************************************)
(* Sha256Blocks for TLC: blocks of eight bytes with two for the length,    *)
(* and every way of cutting messages of up to three blocks and a half.     *)
(***************************************************************************)
EXTENDS Sha256Blocks

================================================================================
