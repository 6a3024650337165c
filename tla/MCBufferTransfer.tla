---------------------------- MODULE MCBufferTransfer ---------------------------
(***************************************************************************)
(* BufferTransfer for TLC.  The messages together are longer than the      *)
(* storage, so that every one of them can wrap around its end, and two of  *)
(* them can be longer than what the queue holds, so that writes fail.      *)
(***************************************************************************)
EXTENDS BufferTransfer

FiveBytes == <<3, 4, 5, 6, 7>>
================================================================================
