--------------------------- MODULE QueueConstruction ---------------------------
(***************************************************************************)
(* The constructors of tx_queue_sp_t and tx_queue_mp_t, statement by       *)
(* statement, on machine words of Width bits: which arguments they accept, *)
(* and what capacity_ and storage_ are when they return.  It settles what  *)
(* TxQueue assumes of a queue that is_ok(): capacity_ is a power of two,   *)
(* so that "& (capacity_ - 1)" is the remainder RingIndex computes with.   *)
(***************************************************************************)
EXTENDS Integers, Sequences

CONSTANTS Width,           \* the bits of a word (64)
          CacheLine,       \* CACHE_LINE_SIZE
          Shifts           \* the shifts of the rounding (1, 2, 4, 8, 16, 32)

WordSize == 2 ^ Width
Word     == 0 .. WordSize - 1
PowersOfTwo == {2 ^ n : n \in 0 .. Width - 1}

ASSUME WordAssumption ==
  /\ Width \in Nat \ {0}
  /\ CacheLine \in PowersOfTwo /\ CacheLine > 1
  /\ 4 * CacheLine < WordSize

\* The shifts double, and the last one spans half a word.
ASSUME ShiftsAssumption ==
  /\ Shifts \in Seq(Nat)
  /\ \A i \in 1 .. Len(Shifts) : Shifts[i] = 2 ^ (i - 1)
  /\ Width <= 2 ^ Len(Shifts)

\* Unsigned arithmetic
Wrap(x) == x % WordSize

\* The bits of a word that are set, the lowest being 0, and the operators &, |
\* and >> on words
Bits(x) == {n \in 0 .. Width - 1 : (x \div 2 ^ n) % 2 = 1}

WordOf(bits) == CHOOSE x \in Word : Bits(x) = bits

And(x, y) == WordOf(Bits(x) \cap Bits(y))

Or(x, y) == WordOf(Bits(x) \cup Bits(y))

ShiftRight(x, n) == x \div 2 ^ n

\* sizeof(tx_queue_status_t): its two halves are aligned to a cache line each.
StatusSize == 2 * CacheLine

VARIABLES
  pc,         \* "sp", "mp", "nullCheck", "checks", "init", "done" or "crashed"
  type,       \* "sp" or "mp"
  given,      \* _capacity
  memory,     \* _prealloc_and_init: "null", "aligned" or "misaligned"
  capacity,   \* capacity_
  storage     \* storage_: "null" or "block"

vars == <<pc, type, given, memory, capacity, storage>>

IsOk == storage # "null"

--------------------------------------------------------------------------------
\* tx_queue_sp_t::tx_queue_sp_t

Smear(x, n) == Or(x, ShiftRight(x, n))

\* One smear after the other
Smeared(x) ==
  LET f[i \in 0 .. Len(Shifts)] == IF i = 0 THEN x ELSE Smear(f[i - 1], Shifts[i])
  IN  f[Len(Shifts)]

RoundUp_NoDecrement(c) == Wrap(Smeared(c) + 1)

\* Fill every bit below the highest one of c - 1, then add one.
RoundUp(c) == Wrap(Smeared(Wrap(c - 1)) + 1)

SpReject ==
  /\ pc = "sp"
  /\ given < CacheLine
  /\ pc' = "done"
  /\ UNCHANGED <<type, given, memory, capacity, storage>>

SpConstruct_AnySize ==
  /\ pc = "sp"
  /\ capacity' = RoundUp(given)
  /\ storage' \in {"null", "block"}
  /\ pc' = "done"
  /\ UNCHANGED <<type, given, memory>>

\* The allocation may fail.
SpConstruct ==
  /\ pc = "sp"
  /\ given >= CacheLine
  /\ capacity' = RoundUp(given)
  /\ storage' \in {"null", "block"}
  /\ pc' = "done"
  /\ UNCHANGED <<type, given, memory>>

--------------------------------------------------------------------------------
\* tx_queue_mp_t::tx_queue_mp_t

\* The member initialiser constructs the status in the memory, and so stores
\* the core hints, before the body looks at the pointer.  On a null pointer
\* that is undefined: the stores fault, or a compiler that guards placement
\* new skips them.
MpPlacementNew ==
  /\ pc = "mp"
  /\ \/ pc' = "nullCheck"
     \/ memory = "null" /\ pc' = "crashed"
  /\ UNCHANGED <<type, given, memory, capacity, storage>>

MpNullCheck ==
  /\ pc = "nullCheck"
  /\ pc' = IF memory = "null" THEN "done" ELSE "checks"
  /\ UNCHANGED <<type, given, memory, capacity, storage>>

ActualCapacity == Wrap(given - StatusSize)

MpCheck_AlignmentOnly ==
  /\ pc = "checks"
  /\ pc' = IF memory # "aligned" THEN "done" ELSE "init"
  /\ UNCHANGED <<type, given, memory, capacity, storage>>

MpCheck ==
  /\ pc = "checks"
  /\ pc' = IF memory # "aligned" \/ And(ActualCapacity, Wrap(ActualCapacity - 1)) # 0
           THEN "done" ELSE "init"
  /\ UNCHANGED <<type, given, memory, capacity, storage>>

MpInit_WholeMemory ==
  /\ pc = "init"
  /\ storage' = "block"
  /\ capacity' = given
  /\ pc' = "done"
  /\ UNCHANGED <<type, given, memory>>

MpInit ==
  /\ pc = "init"
  /\ storage' = "block"
  /\ capacity' = ActualCapacity
  /\ pc' = "done"
  /\ UNCHANGED <<type, given, memory>>

--------------------------------------------------------------------------------
\* Any arguments.  storage_ and capacity_ start with their member defaults.
Init ==
  /\ type \in {"sp", "mp"}
  /\ pc = type
  /\ given \in Word
  /\ memory \in IF type = "mp" THEN {"null", "aligned", "misaligned"} ELSE {"null"}
  /\ capacity = 0
  /\ storage = "null"

Next == SpReject \/ SpConstruct \/ MpPlacementNew \/ MpNullCheck \/ MpCheck \/ MpInit

Spec == Init /\ [][Next]_vars

--------------------------------------------------------------------------------
\* Properties

Usable == pc = "done" /\ IsOk

\* The bit tricks of the single-process constructor compute the least power
\* of two that is no less than what was asked for, wherever there is one.
RoundsToLeastPower ==
  type = "sp" /\ Usable /\ given <= WordSize \div 2 =>
    /\ capacity \in PowersOfTwo
    /\ capacity >= given
    /\ \A p \in PowersOfTwo : p >= given => capacity <= p

\* aligned_alloc(CACHE_LINE_SIZE, capacity_) (tx-queue.inl:60) is asked for whole
\* cache lines, as it requires, whatever the rounding made of the size asked for,
\* the wrap to 0 included.
AllocatesWholeLines == type = "sp" => capacity % CacheLine = 0

\* A multi-process queue lies, status and storage, inside the memory it was
\* given, also when that is too small for the status and the unsigned
\* difference wraps around.
StaysInMemory ==
  type = "mp" /\ Usable => StatusSize + capacity <= given

\* On a queue that a constructor lets through, the unsigned expressions of
\* imp_write and imp_read, bit mask and wrap-around included, are the
\* remainders of RingIndex for every pair of indices, and for an index and a
\* size that fits.
MaskIsModulo ==
  Usable =>
    /\ \A head, tail \in 0 .. capacity - 1 :
         /\ And(Wrap(head - tail - 1 + capacity), capacity - 1) = (head - tail - 1 + capacity) % capacity
         /\ And(Wrap(tail - head + capacity), capacity - 1) = (tail - head + capacity) % capacity
    /\ \A index, size \in 0 .. capacity - 1 :
         And(Wrap(index + size), capacity - 1) = (index + size) % capacity

\* "the actual capacity must be power of 2" (tx-queue.inl:92): a multi-process
\* queue that is ok has such a capacity.
CapacityIsPowerOfTwo == type = "mp" /\ Usable => capacity \in PowersOfTwo

\* The "basic checks" on the pointer (tx-queue.inl:81-85) turn a null pointer
\* into a queue that is not ok, which the programs then report.
NullIsRejected == memory = "null" => pc # "crashed"

================================================================================
