------------------------------ MODULE Sha256Blocks -----------------------------
(***************************************************************************)
(* How sha256.h cuts a message that comes in calls of any length into      *)
(* blocks, and pads the last ones.  What process_block computes of a block *)
(* is left out: status_t::h stands for the blocks processed so far.        *)
(*                                                                         *)
(* The k-th byte of the message is written k, so that a byte lost, doubled *)
(* or out of place shows.                                                  *)
(***************************************************************************)
EXTENDS Integers, SequencesExt

CONSTANTS BlockSize,       \* 64
          LengthSize,      \* 8, sizeof(total_num_bits)
          Word,            \* 2^64
          MaxLength        \* bound: the longest message hashed

ASSUME BlockAssumption ==
  /\ BlockSize \in Nat  /\ LengthSize \in Nat \ {0}
  /\ LengthSize < BlockSize
ASSUME WordAssumption ==
  /\ Word \in Nat  /\ \E n \in 1 .. Word : Word = BlockSize * n
  /\ MaxLength \in Nat  /\ 8 * MaxLength < Word     \* the standard's limit

VARIABLES
  status,      \* status_t: curr_block, cur, total_num_bits, and hashed for h
  pc, eob      \* positions in the message: pc and _buffer + _size of update

vars == <<status, pc, eob>>

Unset == -1
EndTag == 128
Smaller(a, b) == IF a < b THEN a ELSE b

\* memcpy and memset into curr_block, from offset at on
Put(block, at, bytes) ==
  [i \in DOMAIN block |-> IF i - at \in DOMAIN bytes THEN bytes[i - at] ELSE block[i]]
Zeros(n) == [i \in 1 .. n |-> 0]

ProcessBlock(s) == [s EXCEPT !.hashed = Append(@, s.curr_block)]

--------------------------------------------------------------------------------
\* update

Update(size) ==
  /\ pc = eob  /\ eob + size <= MaxLength
  /\ eob' = eob + size
  /\ UNCHANGED <<status, pc>>

Absorbed_AtStart(n) ==
  [status EXCEPT !.curr_block = Put(@, 0, [k \in 1 .. n |-> pc + k]),
                 !.cur = @ + n,
                 !.total_num_bits = (@ + n * 8) % Word]

Absorbed(n) ==
  [status EXCEPT !.curr_block = Put(@, status.cur, [k \in 1 .. n |-> pc + k]),
                 !.cur = @ + n,
                 !.total_num_bits = (@ + n * 8) % Word]

Absorb_Aligned ==
  /\ pc < eob
  /\ LET n == Smaller(BlockSize - status.cur, eob - pc)
         s == Absorbed(n)
     IN /\ status' = IF n = BlockSize THEN [ProcessBlock(s) EXCEPT !.cur = 0] ELSE s
        /\ pc' = pc + n
  /\ UNCHANGED eob

\* One turn of the loop
Absorb ==
  /\ pc < eob
  /\ LET n == Smaller(BlockSize - status.cur, eob - pc)
         s == Absorbed(n)
     IN /\ status' = IF s.cur >= BlockSize THEN [ProcessBlock(s) EXCEPT !.cur = 0] ELSE s
        /\ pc' = pc + n
  /\ UNCHANGED eob

--------------------------------------------------------------------------------
\* to_digest, which works on a copy and leaves the status as it is

AddEndTag(s) == [s EXCEPT !.curr_block = Put(@, s.cur, <<EndTag>>), !.cur = @ + 1]

AfterEndZeros_PlusOne(s) ==
  ((((BlockSize - LengthSize - (s.total_num_bits \div 8)) % Word) % BlockSize) + BlockSize)
    % BlockSize

\* In unsigned words the difference wraps; nothing is ever negative.
AfterEndZeros(s) ==
  ((((BlockSize - LengthSize - 1 - (s.total_num_bits \div 8)) % Word) % BlockSize) + BlockSize)
    % BlockSize

Spill_NoClear(s, zeros) ==
  LET rest == zeros - (BlockSize - s.cur)
      full == ProcessBlock([s EXCEPT !.curr_block = Put(@, s.cur, Zeros(BlockSize - s.cur))])
  IN [full EXCEPT !.cur = rest]

\* The zeros fill this block, which is processed, and go on in the next.
Spill(s, zeros) ==
  LET rest == zeros - (BlockSize - s.cur)
      full == ProcessBlock([s EXCEPT !.curr_block = Put(@, s.cur, Zeros(BlockSize - s.cur))])
  IN [full EXCEPT !.curr_block = Put(@, 0, Zeros(rest)), !.cur = rest]

Pad(s) ==
  LET zeros == AfterEndZeros(s)
  IN IF zeros > BlockSize - s.cur THEN Spill(s, zeros)
     ELSE [s EXCEPT !.curr_block = Put(@, s.cur, Zeros(zeros)), !.cur = @ + zeros]

\* The bytes of a number, the most significant one first
BigEndian(n) == [i \in 1 .. LengthSize |-> (n \div 256 ^ (LengthSize - i)) % 256]

AddLength(s) ==
  ProcessBlock([s EXCEPT !.curr_block = Put(@, s.cur, BigEndian(s.total_num_bits))])

ToDigest == AddLength(Pad(AddEndTag(status))).hashed

--------------------------------------------------------------------------------
Init ==
  /\ status = [curr_block |-> [i \in 1 .. BlockSize |-> Unset], cur |-> 0,
               total_num_bits |-> 0, hashed |-> <<>>]
  /\ pc = 0  /\ eob = 0

Next == Absorb \/ \E size \in 0 .. MaxLength : Update(size)

Spec == Init /\ [][Next]_vars

--------------------------------------------------------------------------------
\* Properties

TypeOK ==
  /\ status \in [curr_block : [1 .. BlockSize -> Int],  cur : 0 .. BlockSize - 1,
                 total_num_bits : 0 .. Word - 1,  hashed : Seq([1 .. BlockSize -> Int])]
  /\ pc \in 0 .. MaxLength  /\ eob \in pc .. MaxLength

\* The blocks that went through process_block and the one being filled hold the
\* message, byte after byte, and total_num_bits is its length: what update leaves
\* behind depends on the bytes and not on how they were cut into calls.
BlocksHoldMessage ==
  /\ pc = BlockSize * Len(status.hashed) + status.cur
  /\ status.total_num_bits = 8 * pc
  /\ \A j \in 1 .. Len(status.hashed), i \in 1 .. BlockSize :
       status.hashed[j][i] = BlockSize * (j - 1) + i
  /\ \A i \in 1 .. status.cur :
       status.curr_block[i] = BlockSize * Len(status.hashed) + i

\* The standard's padding: the end tag, the fewest zeros that make whole
\* blocks, and the length in bits.
Message == [k \in 1 .. pc |-> k]
FewestZeros == CHOOSE z \in 0 .. BlockSize - 1 : (pc + 1 + z + LengthSize) % BlockSize = 0
Padded == Message \o <<EndTag>> \o Zeros(FewestZeros) \o BigEndian(8 * pc)

\* However the message was cut into calls, and whatever older bytes are left in
\* the block, the blocks that are hashed are those of the padded message.
DigestIsStandard == FlattenSeq(ToDigest) = Padded

\* After the padding the length ends exactly at the end of the block, never
\* beyond curr_block.
LengthFits == Pad(AddEndTag(status)).cur = BlockSize - LengthSize

================================================================================
