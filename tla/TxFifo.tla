-------------------------------- MODULE TxFifo ---------------------------------
(***************************************************************************)
(* What a tx-queue promises its two users, without storage, indices or     *)
(* threads' views of memory: a bounded FIFO of bytes whose writes and      *)
(* reads are transactions.                                                 *)
(*                                                                         *)
(*   - the bytes of a write transaction enter the queue together, when it  *)
(*     ends, or not at all when it was invalidated;                        *)
(*   - the bytes a read transaction delivers are the oldest ones, in       *)
(*     order, and leave the queue together, when it ends, or not at all;   *)
(*   - a process that dies in a transaction leaves the queue as it was.    *)
(***************************************************************************)
EXTENDS Integers, SequencesExt

CONSTANTS Capacity,        \* one more than the number of bytes the queue holds
          Byte,            \* what a byte can be
          MaxSize,         \* the longest block a user writes or reads at once
          MultiProcess     \* TRUE when the users are processes that can be relaunched

VARIABLES queue,           \* the bytes committed and not consumed yet, oldest first
          pending,         \* the bytes of the open write transaction
          delivered,       \* the bytes the open read transaction has returned
          writer, reader   \* "none", "open" or "failed"

vars == <<queue, pending, delivered, writer, reader>>

Init ==
  /\ queue = <<>>  /\ pending = <<>>  /\ delivered = <<>>
  /\ writer = "none"  /\ reader = "none"

BeginWrite ==
  /\ writer = "none"
  /\ writer' = "open"
  /\ UNCHANGED <<queue, pending, delivered, reader>>

Write(bytes) ==
  /\ writer = "open"
  /\ Len(queue) + Len(pending) + Len(bytes) < Capacity
  /\ pending' = pending \o bytes
  /\ UNCHANGED <<queue, delivered, writer, reader>>

FailWrite ==
  /\ writer = "open"
  /\ writer' = "failed"
  /\ UNCHANGED <<queue, pending, delivered, reader>>

Commit ==
  /\ writer = "open"
  /\ queue' = queue \o pending
  /\ pending' = <<>>
  /\ writer' = "none"
  /\ UNCHANGED <<delivered, reader>>

AbandonWrite ==
  /\ writer = "failed" \/ (MultiProcess /\ writer # "none")
  /\ pending' = <<>>
  /\ writer' = "none"
  /\ UNCHANGED <<queue, delivered, reader>>

BeginRead ==
  /\ reader = "none"
  /\ reader' = "open"
  /\ UNCHANGED <<queue, pending, delivered, writer>>

Read(size) ==
  /\ reader = "open"
  /\ Len(delivered) + size <= Len(queue)
  /\ delivered' = SubSeq(queue, 1, Len(delivered) + size)
  /\ UNCHANGED <<queue, pending, writer, reader>>

FailRead ==
  /\ reader = "open"
  /\ reader' = "failed"
  /\ UNCHANGED <<queue, pending, delivered, writer>>

Consume ==
  /\ reader = "open"
  /\ queue' = SubSeq(queue, Len(delivered) + 1, Len(queue))
  /\ delivered' = <<>>
  /\ reader' = "none"
  /\ UNCHANGED <<pending, writer>>

AbandonRead ==
  /\ reader = "failed" \/ (MultiProcess /\ reader # "none")
  /\ delivered' = <<>>
  /\ reader' = "none"
  /\ UNCHANGED <<queue, pending, writer>>

Next ==
  \/ BeginWrite \/ FailWrite \/ Commit \/ AbandonWrite
  \/ \E bytes \in SeqOf(Byte, MaxSize) : Write(bytes)
  \/ BeginRead \/ FailRead \/ Consume \/ AbandonRead
  \/ \E size \in 0 .. MaxSize : Read(size)

Spec == Init /\ [][Next]_vars

================================================================================
