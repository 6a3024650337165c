-------------------------- MODULE MCQueueConstruction --------------------------
(***************************************************************************)
(* QueueConstruction for TLC on words of six bits: every argument of every *)
(* constructor, and every pair of indices of every queue they let through. *)
(***************************************************************************)
EXTENDS QueueConstruction

\* As in the source: powers of two up to half the width of the word.
ShiftsOfSixBits == <<1, 2, 4>>
================================================================================
