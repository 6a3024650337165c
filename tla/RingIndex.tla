------------------------------- MODULE RingIndex -------------------------------
(***************************************************************************)
(* The index arithmetic of the circular buffer (tx-queue.inl, imp_write    *)
(* and imp_read).  The C++ code computes on uint64_t and reduces with      *)
(* "& (capacity_ - 1)"; capacity_ is a power of two, so the reduction is   *)
(* the remainder modulo Capacity.                                          *)
(***************************************************************************)
EXTENDS Integers

CONSTANT Capacity          \* capacity_: the number of bytes of storage_

ASSUME CapacityAssumption == Capacity \in Nat \ {0}

Index == 0 .. Capacity - 1

\* x & (capacity_ - 1)
Mask(x) == x % Capacity

AvailableSpace_NoGap(head, tail) == IF head = tail THEN Capacity ELSE Mask(head - tail + Capacity)

\* How many bytes the writer may still write, given the head it knows of.
\* One byte always stays unused: head = tail means "empty".
AvailableSpace(head, tail) == Mask(head - tail - 1 + Capacity)

AvailableData_KeepsOne(tail, head) ==
  IF head = tail THEN 0 ELSE Mask(tail - head - 1 + Capacity)

\* How many bytes lie between head and tail.
AvailableData(tail, head) == Mask(tail - head + Capacity)

Advance_NoMask(i, size) == i + size

\* Where an index stands after size more bytes.
Advance(i, size) == Mask(i + size)

Slot_OneChunk(i, size, k) == i + k

\* Where byte k of a block of the given size goes: the copy is cut in two
\* memcpy calls when the block runs past the end of the storage.
Slot(i, size, k) ==
  LET first_chunk_size == Capacity - i
  IN  IF i + size > Capacity /\ k >= first_chunk_size
      THEN k - first_chunk_size
      ELSE i + k

Slots(i, size) == {Slot(i, size, k) : k \in 0 .. size - 1}

================================================================================
