------------------------------ MODULE Sha256Proofs ------------------------------
(***************************************************************************)
(* The hash's blocks hold the message, its padding ends exactly at the end *)
(* of a block, and what is hashed is the message with the standard's       *)
(* padding, for every size of the blocks and every message.                *)
(***************************************************************************)
EXTENDS Sha256Blocks, Induction

Blocks == [1 .. BlockSize -> Int]
Inv    == TypeOK /\ BlocksHoldMessage

LEMMA Sizes ==
  /\ BlockSize \in Nat \ {0}  /\ LengthSize \in 1 .. BlockSize - 1
  /\ MaxLength \in Nat  /\ Word \in Nat \ {0}  /\ 8 * MaxLength < Word
BY BlockAssumption, WordAssumption

--------------------------------------------------------------------------------
\* update

USE Sizes

LEMMA InvInit ==
  ASSUME Init
  PROVE  Inv
<1> DEFINE empty == [i \in 1 .. BlockSize |-> Unset]
<1>1. empty \in Blocks /\ <<>> \in Seq(Blocks) /\ Len(<<>>) = 0
  BY DEF Blocks, Unset
<1>2. status = [curr_block |-> empty, cur |-> 0, total_num_bits |-> 0, hashed |-> <<>>]
      /\ pc = 0 /\ eob = 0
  BY DEF Init
<1> HIDE DEF empty
<1>3. TypeOK
  BY <1>1, <1>2 DEF TypeOK, Blocks
<1>4. BlocksHoldMessage
  BY <1>1, <1>2 DEF BlocksHoldMessage
<1> QED
  BY <1>3, <1>4 DEF Inv

LEMMA AbsorbKeeps ==
  ASSUME Inv, Absorb
  PROVE  Inv'
<1> DEFINE n == Smaller(BlockSize - status.cur, eob - pc)
           block == Put(status.curr_block, status.cur, [k \in 1 .. n |-> pc + k])
           s == Absorbed(n)
           count == Len(status.hashed)
<1>1. /\ status \in [curr_block : Blocks, cur : 0 .. BlockSize - 1,
                     total_num_bits : 0 .. Word - 1, hashed : Seq(Blocks)]
      /\ pc \in 0 .. MaxLength  /\ eob \in pc .. MaxLength
  BY DEF Inv, TypeOK, Blocks
<1>2. /\ pc < eob  /\ pc' = pc + n  /\ eob' = eob
      /\ status' = IF s.cur >= BlockSize THEN [ProcessBlock(s) EXCEPT !.cur = 0] ELSE s
  BY DEF Absorb
<1>3. n \in 1 .. BlockSize /\ status.cur + n <= BlockSize /\ pc + n <= eob
  <2>1. /\ BlockSize - status.cur \in 1 .. BlockSize  /\ eob - pc \in Nat \ {0}
        /\ status.cur \in Nat  /\ pc \in Nat
    BY <1>1, <1>2
  <2>2. n \in Int /\ n >= 1 /\ n <= BlockSize - status.cur /\ n <= eob - pc
    BY <2>1 DEF Smaller
  <2> HIDE DEF n
  <2> QED
    BY <1>1, <2>1, <2>2
<1> HIDE DEF n
<1>4. pc' \in 0 .. MaxLength /\ eob' \in pc' .. MaxLength
  BY <1>1, <1>2, <1>3
<1>5. /\ pc = BlockSize * count + status.cur  /\ status.total_num_bits = 8 * pc
      /\ \A j \in 1 .. count, i \in 1 .. BlockSize : status.hashed[j][i] = BlockSize * (j - 1) + i
      /\ \A i \in 1 .. status.cur : status.curr_block[i] = BlockSize * count + i
  BY DEF Inv, BlocksHoldMessage
<1>6. count \in Nat /\ BlockSize * count \in Nat
  BY <1>1, LenProperties
<1>7. block \in Blocks /\ \A i \in 1 .. status.cur + n : block[i] = BlockSize * count + i
  <2>1. /\ block \in Blocks
        /\ \A i \in 1 .. status.cur : block[i] = status.curr_block[i]
        /\ \A i \in status.cur + 1 .. status.cur + n : block[i] = pc - status.cur + i
    <3>1. /\ status.curr_block \in Blocks  /\ status.cur \in Nat  /\ n \in Nat  /\ pc \in Nat
          /\ status.cur + n <= BlockSize
      BY <1>1, <1>3
    <3> DEFINE bytes == [k \in 1 .. n |-> pc + k]
    <3>2. DOMAIN bytes = 1 .. n /\ DOMAIN status.curr_block = 1 .. BlockSize
      BY <3>1 DEF Blocks
    <3>3. block = [i \in 1 .. BlockSize |-> IF i - status.cur \in 1 .. n THEN pc + (i - status.cur)
                                            ELSE status.curr_block[i]]
      BY <3>2 DEF Put
    <3> HIDE DEF block
    <3>4. ASSUME NEW i \in 1 .. BlockSize
          PROVE  (IF i - status.cur \in 1 .. n THEN pc + (i - status.cur)
                  ELSE status.curr_block[i]) \in Int
      BY <3>1 DEF Blocks
    <3>5. block \in Blocks
      BY <3>3, <3>4 DEF Blocks
    <3>6. ASSUME NEW i \in 1 .. status.cur PROVE block[i] = status.curr_block[i]
      BY <3>1, <3>3
    <3>7. ASSUME NEW i \in status.cur + 1 .. status.cur + n PROVE block[i] = pc - status.cur + i
      BY <3>1, <3>3
    <3> QED
      BY <3>5, <3>6, <3>7
  <2> HIDE DEF block
  <2>2. ASSUME NEW i \in 1 .. status.cur + n PROVE block[i] = BlockSize * count + i
    <3>1. CASE i <= status.cur
      BY <1>1, <1>5, <2>1, <3>1
    <3>2. CASE i > status.cur
      <4>1. pc - status.cur + i = BlockSize * count + i
        <5>1. PICK p \in Nat : p = BlockSize * count
          BY <1>6
        <5>2. pc = p + status.cur /\ pc \in Int /\ status.cur \in Int
          BY <1>1, <1>5, <5>1
        <5>3. i \in Int
          BY <1>1, <1>3
        <5> QED
          BY <5>1, <5>2, <5>3
      <4> QED
        BY <1>1, <1>3, <2>1, <3>2, <4>1
    <3> QED
      BY <1>1, <3>1, <3>2
  <2> QED
    BY <2>1, <2>2
<1>8. s = [curr_block |-> block, cur |-> status.cur + n, total_num_bits |-> 8 * (pc + n),
           hashed |-> status.hashed]
  <2>1. (status.total_num_bits + n * 8) % Word = 8 * (pc + n)
    <3>1. status.total_num_bits + n * 8 = 8 * (pc + n)
      BY <1>1, <1>3, <1>5
    <3>2. 8 * (pc + n) \in 0 .. Word - 1
      <4>1. pc \in Nat /\ n \in Nat /\ pc + n <= MaxLength
        BY <1>1, <1>3
      <4> QED
        BY <4>1, Sizes
    <3> QED
      BY <3>1, <3>2
  <2>2. status = [curr_block |-> status.curr_block, cur |-> status.cur,
                  total_num_bits |-> status.total_num_bits, hashed |-> status.hashed]
    BY <1>1
  <2> HIDE DEF block
  <2>3. s = [status EXCEPT !.curr_block = block, !.cur = status.cur + n,
                           !.total_num_bits = (status.total_num_bits + n * 8) % Word]
    BY <2>2 DEF Absorbed, block
  <2> QED
    BY <2>1, <2>2, <2>3
<1> HIDE DEF block, s
<1>9. 8 * (pc + n) \in 0 .. Word - 1
  BY <1>1, <1>3
<1>10. CASE status.cur + n < BlockSize
  <2>1. status' = s
    BY <1>1, <1>2, <1>3, <1>8, <1>10
  <2>2. TypeOK'
    <3>1. status.cur + n \in 0 .. BlockSize - 1 /\ status.hashed \in Seq(Blocks)
      BY <1>1, <1>3, <1>10
    <3>2. status' \in [curr_block : Blocks, cur : 0 .. BlockSize - 1,
                       total_num_bits : 0 .. Word - 1, hashed : Seq(Blocks)]
      BY <1>7, <1>8, <1>9, <2>1, <3>1
    <3> QED
      BY <1>4, <3>2 DEF TypeOK, Blocks
  <2>3. BlocksHoldMessage'
    <3>1. /\ status'.hashed = status.hashed  /\ status'.curr_block = block
          /\ status'.cur = status.cur + n  /\ status'.total_num_bits = 8 * pc'
      BY <1>2, <1>8, <2>1
    <3>2. pc' = BlockSize * count + (status.cur + n)
      BY <1>1, <1>2, <1>3, <1>5, <1>6
    <3> QED
      BY <1>5, <1>7, <3>1, <3>2 DEF BlocksHoldMessage
  <2> QED
    BY <2>2, <2>3 DEF Inv
<1>11. CASE status.cur + n = BlockSize
  <2>1. status' = [curr_block |-> block, cur |-> 0, total_num_bits |-> 8 * (pc + n),
                   hashed |-> Append(status.hashed, block)]
    BY <1>1, <1>2, <1>3, <1>8, <1>11 DEF ProcessBlock
  <2>2. /\ Append(status.hashed, block) \in Seq(Blocks)
        /\ Len(Append(status.hashed, block)) = count + 1
        /\ \A j \in 1 .. count : Append(status.hashed, block)[j] = status.hashed[j]
        /\ Append(status.hashed, block)[count + 1] = block
    BY <1>1, <1>7, AppendProperties
  <2>3. TypeOK'
    <3>1. 0 \in 0 .. BlockSize - 1
      OBVIOUS
    <3>2. status' \in [curr_block : Blocks, cur : 0 .. BlockSize - 1,
                       total_num_bits : 0 .. Word - 1, hashed : Seq(Blocks)]
      BY <1>7, <1>9, <2>1, <2>2, <3>1
    <3> QED
      BY <1>4, <3>2 DEF TypeOK, Blocks
  <2>4. pc + n = BlockSize * (count + 1) + 0
    <3>1. BlockSize * (count + 1) = BlockSize * count + BlockSize * 1
      <4>1. BlockSize \in Int /\ count \in Int /\ 1 \in Int
        BY <1>6
      <4> HIDE DEF count
      <4> QED
        BY <4>1, Distribute
    <3>2. BlockSize * 1 = BlockSize
      OBVIOUS
    <3>3. /\ pc \in Int  /\ n \in Int  /\ status.cur \in Int  /\ BlockSize * count \in Int
          /\ pc = BlockSize * count + status.cur
      BY <1>1, <1>3, <1>5, <1>6
    <3> HIDE DEF count
    <3> QED
      BY <1>11, <3>1, <3>2, <3>3
  <2>5. ASSUME NEW j \in 1 .. count + 1, NEW i \in 1 .. BlockSize
        PROVE  Append(status.hashed, block)[j][i] = BlockSize * (j - 1) + i
    <3>1. CASE j <= count
      BY <1>5, <1>6, <2>2, <3>1
    <3>2. CASE j = count + 1
      <4>1. j - 1 = count
        BY <1>6, <3>2
      <4> QED
        BY <1>7, <1>11, <2>2, <3>2, <4>1
    <3> QED
      BY <1>6, <3>1, <3>2
  <2>6. BlocksHoldMessage'
    <3>1. /\ status'.hashed = Append(status.hashed, block)  /\ status'.cur = 0
          /\ status'.total_num_bits = 8 * pc'
      <4>1. /\ status'.hashed = Append(status.hashed, block)  /\ status'.cur = 0
            /\ status'.total_num_bits = 8 * (pc + n)
        BY <2>1
      <4> QED
        BY <1>2, <4>1, Zenon
    <3>2. /\ Len(status'.hashed) = count + 1
          /\ pc' = BlockSize * (count + 1) + status'.cur
      BY <1>2, <2>2, <2>4, <3>1
    <3>3. /\ pc' = BlockSize * Len(status'.hashed) + status'.cur
          /\ \A j \in 1 .. Len(status'.hashed), i \in 1 .. BlockSize :
               status'.hashed[j][i] = BlockSize * (j - 1) + i
      <4>1. \A j \in 1 .. count + 1, i \in 1 .. BlockSize :
              status'.hashed[j][i] = BlockSize * (j - 1) + i
        <5>1. ASSUME NEW j \in 1 .. count + 1, NEW i \in 1 .. BlockSize
              PROVE  status'.hashed[j][i] = BlockSize * (j - 1) + i
          <6>1. Append(status.hashed, block)[j][i] = BlockSize * (j - 1) + i
            BY <2>5
          <6> QED
            BY <3>1, <6>1
        <5> QED
          BY <5>1
      <4> HIDE DEF count
      <4> QED
        BY <3>2, <4>1
    <3>4. \A i \in 1 .. status'.cur :
            status'.curr_block[i] = BlockSize * Len(status'.hashed) + i
      BY <3>1
    <3> QED
      BY <3>1, <3>3, <3>4 DEF BlocksHoldMessage
  <2> QED
    BY <2>3, <2>6 DEF Inv
<1> QED
  BY <1>1, <1>3, <1>10, <1>11

THEOREM HashInv == Spec => []Inv
<1>1. Inv /\ [Next]_vars => Inv'
  <2> SUFFICES ASSUME Inv, [Next]_vars PROVE Inv'
    OBVIOUS
  <2>1. CASE Absorb
    BY <2>1, AbsorbKeeps
  <2>2. ASSUME NEW size \in 0 .. MaxLength, Update(size) PROVE Inv'
    <3>1. /\ status' = status  /\ pc' = pc  /\ eob' = eob + size  /\ pc = eob
          /\ eob + size <= MaxLength
      BY <2>2 DEF Update
    <3>2. TypeOK'
      <4>1. eob' \in pc' .. MaxLength
        BY <3>1 DEF Inv, TypeOK
      <4> QED
        BY <3>1, <4>1 DEF Inv, TypeOK
    <3>3. BlocksHoldMessage'
      BY <3>1 DEF Inv, BlocksHoldMessage
    <3> QED
      BY <3>2, <3>3 DEF Inv
  <2>3. CASE UNCHANGED vars
    BY <2>3 DEF vars, Inv, TypeOK, BlocksHoldMessage
  <2> QED
    BY <2>1, <2>2, <2>3 DEF Next
<1> QED
  BY <1>1, InvInit, PTL DEF Spec

\* The types of the hash's state: the bytes in the block never fill it.
THEOREM HashTypes == Spec => []TypeOK
BY HashInv, PTL DEF Inv

\* update loses, doubles and misplaces no byte, however the message is cut into
\* calls (sha256.h).
THEOREM AlwaysHoldsMessage == Spec => []BlocksHoldMessage
BY HashInv, PTL DEF Inv

--------------------------------------------------------------------------------
\* to_digest

\* Words that wrap give the same zeros as whole numbers, since a block divides
\* a word: those up to the length, in this block or in the next.
LEMMA ZerosAre ==
  ASSUME Inv
  PROVE  AfterEndZeros(AddEndTag(status)) =
           IF status.cur < BlockSize - LengthSize THEN BlockSize - LengthSize - 1 - status.cur
           ELSE 2 * BlockSize - LengthSize - 1 - status.cur
<1> DEFINE d == BlockSize - LengthSize - 1 - pc
           x == BlockSize - LengthSize - 1 - status.cur
           m == Len(status.hashed)
<1>1. /\ status.cur \in 0 .. BlockSize - 1  /\ status.total_num_bits = 8 * pc  /\ pc \in Nat
      /\ m \in Nat  /\ pc = BlockSize * m + status.cur
  BY LenProperties DEF Inv, TypeOK, BlocksHoldMessage
<1>2. AddEndTag(status).total_num_bits = status.total_num_bits
  BY DEF AddEndTag, Inv, TypeOK
<1>3. (8 * pc) \div 8 = pc
  BY <1>1
<1>4. AfterEndZeros(AddEndTag(status)) = (((d % Word) % BlockSize) + BlockSize) % BlockSize
  BY <1>1, <1>2, <1>3 DEF AfterEndZeros
<1>5. /\ d \in Int  /\ x \in 0 - BlockSize .. BlockSize - 1  /\ 0 - m \in Int
      /\ BlockSize * (0 - m) = 0 - BlockSize * m
  <2>1. m \in Nat /\ pc \in Nat /\ status.cur \in 0 .. BlockSize - 1
    BY <1>1
  <2>2. d \in Int /\ x \in 0 - BlockSize .. BlockSize - 1
    BY <2>1
  <2> HIDE DEF d, x, m
  <2>3. 0 - m \in Int /\ BlockSize * (0 - m) = 0 - BlockSize * m
    BY <2>1
  <2> QED
    BY <2>2, <2>3
<1>6. x \in Int /\ BlockSize \in Nat \ {0} /\ Word \in Nat \ {0}
  BY <1>1
<1>7. d = x + BlockSize * (0 - m)
  <2>1. BlockSize * m \in Int
    BY <1>1
  <2> HIDE DEF m
  <2> QED
    BY <1>1, <1>5, <2>1
<1> HIDE DEF d, x, m
<1>8. (d % Word) % BlockSize = d % BlockSize
  <2>1. Divides(BlockSize, Word)
    BY WordAssumption DEF Divides
  <2> QED
    BY <1>5, <1>6, <2>1, RemainderTwice
<1>9. d % BlockSize = x % BlockSize
  BY <1>5, <1>6, <1>7, RemainderShift
<1>10. PICK r \in 0 .. BlockSize - 1 : x % BlockSize = r /\ (r + BlockSize) % BlockSize = r
  <2>1. PICK q \in Int, r \in 0 .. BlockSize - 1 : x = BlockSize * q + r /\ x % BlockSize = r
    BY <1>6, Division
  <2>2. (BlockSize * 1 + r) % BlockSize = r /\ BlockSize * 1 + r = r + BlockSize
    BY <2>1, RemainderIs
  <2> QED
    BY <2>1, <2>2
<1>11. AfterEndZeros(AddEndTag(status)) = r
  BY <1>4, <1>8, <1>9, <1>10
<1>12. CASE x >= 0
  <2>1. x \in 0 .. BlockSize - 1 /\ BlockSize * 0 + x = x
    BY <1>5, <1>12
  <2>2. x % BlockSize = x
    BY <2>1, RemainderIs
  <2> QED
    BY <1>1, <1>10, <1>11, <1>12, <2>2 DEF x
<1>13. CASE x < 0
  <2>1. x + BlockSize \in 0 .. BlockSize - 1 /\ BlockSize * (0 - 1) + (x + BlockSize) = x
    BY <1>5, <1>13
  <2>2. x % BlockSize = x + BlockSize
    BY <2>1, RemainderIs
  <2> QED
    BY <1>1, <1>10, <1>11, <1>13, <2>2 DEF x
<1> QED
  BY <1>5, <1>12, <1>13

\* After the padding the length ends exactly at the end of the block, never
\* beyond curr_block, whatever the length of the message (sha256.h).
THEOREM LengthAlwaysFits == Spec => []LengthFits
<1>1. Inv => LengthFits
  <2> SUFFICES ASSUME Inv PROVE Pad(AddEndTag(status)).cur = BlockSize - LengthSize
    BY DEF LengthFits
  <2> DEFINE t == AddEndTag(status)
             zeros == AfterEndZeros(t)
  <2>1. t.cur = status.cur + 1 /\ status.cur \in 0 .. BlockSize - 1
    BY DEF AddEndTag, Inv, TypeOK
  <2>2. \A block, c : [t EXCEPT !.curr_block = block, !.cur = c].cur = c
    <3>1. status = [curr_block |-> status.curr_block, cur |-> status.cur,
                    total_num_bits |-> status.total_num_bits, hashed |-> status.hashed]
      BY DEF Inv, TypeOK
    <3> QED
      BY <3>1 DEF AddEndTag
  <2>3. zeros = IF status.cur < BlockSize - LengthSize THEN BlockSize - LengthSize - 1 - status.cur
                ELSE 2 * BlockSize - LengthSize - 1 - status.cur
    BY ZerosAre
  <2>4. Pad(t) = IF zeros > BlockSize - t.cur THEN Spill(t, zeros)
                 ELSE [t EXCEPT !.curr_block = Put(t.curr_block, t.cur, Zeros(zeros)),
                                !.cur = t.cur + zeros]
    BY DEF Pad
  <2>5. Spill(t, zeros).cur = zeros - (BlockSize - t.cur)
    <3>1. status = [curr_block |-> status.curr_block, cur |-> status.cur,
                    total_num_bits |-> status.total_num_bits, hashed |-> status.hashed]
      BY DEF Inv, TypeOK
    <3>2. PICK block : t = [status EXCEPT !.curr_block = block, !.cur = status.cur + 1]
      BY DEF AddEndTag
    <3> HIDE DEF t, zeros
    <3>3. t = [curr_block |-> block, cur |-> status.cur + 1,
               total_num_bits |-> status.total_num_bits, hashed |-> status.hashed]
      BY <3>1, <3>2
    <3> QED
      BY <3>3 DEF Spill, ProcessBlock
  <2> HIDE DEF t, zeros
  <2>6. CASE status.cur < BlockSize - LengthSize
    <3>1. ~(zeros > BlockSize - t.cur) /\ t.cur + zeros = BlockSize - LengthSize
      BY <2>1, <2>3, <2>6
    <3>2. Pad(t) = [t EXCEPT !.curr_block = Put(t.curr_block, t.cur, Zeros(zeros)),
                             !.cur = t.cur + zeros]
      BY <2>4, <3>1
    <3>3. Pad(t).cur = t.cur + zeros
      BY <2>2, <3>2
    <3> QED
      BY <3>1, <3>3 DEF t
  <2>7. CASE ~(status.cur < BlockSize - LengthSize)
    <3>1. zeros > BlockSize - t.cur /\ zeros - (BlockSize - t.cur) = BlockSize - LengthSize
      BY <2>1, <2>3, <2>7
    <3>2. Pad(t).cur = Spill(t, zeros).cur
      BY <2>4, <3>1
    <3> QED
      BY <2>5, <3>1, <3>2 DEF t
  <2> QED
    BY <2>6, <2>7
<1> QED
  BY <1>1, HashInv, PTL

--------------------------------------------------------------------------------
\* The padding of to_digest is the standard's, byte for byte.

\* What the blocks hold: bytes of the message, and those of its length.
Values == Int \cup {BigEndian(8 * pc)[i] : i \in 1 .. LengthSize}
Rows   == [1 .. BlockSize -> Values]

\* The k-th byte of the message padded with z zeros
Byte(z, k) ==
  IF k <= pc THEN k
  ELSE IF k = pc + 1 THEN EndTag
  ELSE IF k <= pc + 1 + z THEN 0
  ELSE BigEndian(8 * pc)[k - (pc + 1 + z)]

LEMMA LengthBytes == BigEndian(8 * pc) \in [1 .. LengthSize -> Values]
<1>1. /\ DOMAIN BigEndian(8 * pc) = 1 .. LengthSize
      /\ BigEndian(8 * pc) = [i \in 1 .. LengthSize |-> BigEndian(8 * pc)[i]]
  BY DEF BigEndian
<1>2. \A i \in 1 .. LengthSize : BigEndian(8 * pc)[i] \in Values
  BY DEF Values
<1> QED
  BY <1>1, <1>2

LEMMA ZerosLie ==
  ASSUME NEW n \in Nat
  PROVE  Zeros(n) \in [1 .. n -> Values] /\ \A i \in 1 .. n : Zeros(n)[i] = 0
BY DEF Zeros, Values

\* In new, n bytes are written behind at, and those before are as they were.
Written(new, block, at, n, bytes) ==
  /\ new \in Rows
  /\ \A i \in 1 .. at : new[i] = block[i]
  /\ \A i \in at + 1 .. at + n : new[i] = bytes[i - at]

LEMMA PutIs ==
  ASSUME NEW block \in Rows, NEW at \in Nat, NEW n \in Nat,
         at + n <= BlockSize, NEW bytes \in [1 .. n -> Values]
  PROVE  Written(Put(block, at, bytes), block, at, n, bytes)
<1> DEFINE p == Put(block, at, bytes)
<1>1. p = [i \in 1 .. BlockSize |-> IF i - at \in 1 .. n THEN bytes[i - at] ELSE block[i]]
  BY DEF Put, Rows
<1> HIDE DEF p
<1>2. p \in Rows
  BY <1>1 DEF Rows
<1>3. ASSUME NEW i \in 1 .. at PROVE p[i] = block[i]
  BY <1>1
<1>4. ASSUME NEW i \in at + 1 .. at + n PROVE p[i] = bytes[i - at]
  BY <1>1
<1> QED
  BY <1>2, <1>3, <1>4 DEF p, Written

\* Two numbers below b that make the same sum a multiple of b are one.
LEMMA OneMultiple ==
  ASSUME NEW b \in Nat \ {0}, NEW x \in Nat, NEW y \in 0 .. b - 1, NEW z \in 0 .. b - 1,
         (x + y) % b = 0, (x + z) % b = 0
  PROVE  y = z
<1>1. PICK q \in Int, r \in 0 .. b - 1 : x + y = b * q + r /\ (x + y) % b = r
  <2>1. x + y \in Int
    OBVIOUS
  <2> QED
    BY <2>1, Division
<1>2. PICK u \in Int, v \in 0 .. b - 1 : x + z = b * u + v /\ (x + z) % b = v
  <2>1. x + z \in Int
    OBVIOUS
  <2> QED
    BY <2>1, Division
<1>3. PICK d \in Int : d = q - u
  OBVIOUS
<1>4. b * q = b * u + b * d /\ b * q \in Int /\ b * u \in Int /\ b * d \in Int
  <2>1. q = u + d
    BY <1>3
  <2> QED
    BY <2>1, Distribute
<1>5. y - z = b * d
  BY <1>1, <1>2, <1>4
<1>6. CASE d >= 1
  <2>1. PICK e \in Nat : d = 1 + e
    <3>1. d - 1 \in Nat /\ d = 1 + (d - 1)
      BY <1>6
    <3> QED
      BY <3>1
  <2>2. b * d = b + b * e /\ b * e \in Nat
    BY <2>1
  <2> QED
    BY <1>5, <2>2
<1>7. CASE d <= 0 - 1
  <2>1. PICK e \in Nat : d = 0 - 1 - e
    <3>1. 0 - 1 - d \in Nat /\ d = 0 - 1 - (0 - 1 - d)
      BY <1>7
    <3> QED
      BY <3>1
  <2>2. b * d = 0 - b - b * e /\ b * e \in Nat
    BY <2>1
  <2> QED
    BY <1>5, <2>2
<1>8. CASE d = 0
  <2>1. b * d = 0
    BY <1>8
  <2> QED
    BY <1>5, <2>1
<1> QED
  BY <1>6, <1>7, <1>8

\* The zeros that to_digest adds are the fewest that make whole blocks.
LEMMA FewestIs ==
  ASSUME Inv, NEW z \in 0 .. BlockSize - 1, NEW n \in Nat, pc + 1 + z + LengthSize = BlockSize * n
  PROVE  FewestZeros = z
<1>1. pc \in Nat
  BY DEF Inv, TypeOK
<1> DEFINE x == pc + 1 + LengthSize
<1>2. x \in Nat /\ pc + 1 + z + LengthSize = x + z
  BY <1>1
<1>3. (x + z) % BlockSize = 0
  <2>1. PICK r \in 0 .. BlockSize - 1 : r = 0
    OBVIOUS
  <2>2. x + z = BlockSize * n + r
    BY <1>2, <2>1
  <2>3. (BlockSize * n + r) % BlockSize = r
    BY RemainderIs
  <2> QED
    BY <2>1, <2>2, <2>3
<1>4. /\ FewestZeros \in 0 .. BlockSize - 1
      /\ (pc + 1 + FewestZeros + LengthSize) % BlockSize = 0
  <2>1. \E w \in 0 .. BlockSize - 1 : (pc + 1 + w + LengthSize) % BlockSize = 0
    BY <1>2, <1>3
  <2> QED
    BY <2>1 DEF FewestZeros
<1>5. PICK w \in 0 .. BlockSize - 1 : w = FewestZeros
  BY <1>4
<1>6. pc + 1 + w + LengthSize = x + w
  BY <1>1
<1>7. (x + w) % BlockSize = 0
  BY <1>4, <1>5, <1>6
<1> HIDE DEF x
<1>8. w = z
  BY <1>2, <1>3, <1>7, OneMultiple
<1> QED
  BY <1>5, <1>8

\* The padded message, byte by byte
LEMMA PaddedIs ==
  ASSUME Inv, NEW z \in Nat, FewestZeros = z
  PROVE  /\ Padded \in Seq(Values)  /\ Len(Padded) = pc + 1 + z + LengthSize
         /\ \A k \in 1 .. Len(Padded) : Padded[k] = Byte(z, k)
<1> DEFINE tag == <<EndTag>>
           none == Zeros(z)
           bits == BigEndian(8 * pc)
           u == Message \o tag
           v == u \o none
           w == v \o bits
<1>1. pc \in Nat /\ LengthSize \in Nat
  BY DEF Inv, TypeOK
<1>2. Message \in Seq(Values) /\ Len(Message) = pc /\ \A k \in 1 .. pc : Message[k] = k
  <2>1. Message \in [1 .. pc -> Values]
    BY <1>1 DEF Message, Values
  <2> QED
    BY <1>1, <2>1 DEF Message
<1>3. tag \in Seq(Values) /\ Len(tag) = 1 /\ tag[1] = EndTag
  <2>1. EndTag \in Values
    BY DEF EndTag, Values
  <2> QED
    BY <2>1
<1>4. none \in Seq(Values) /\ Len(none) = z /\ \A k \in 1 .. z : none[k] = 0
  <2> HIDE DEF none
  <2>1. none \in [1 .. z -> Values] /\ \A k \in 1 .. z : none[k] = 0
    BY ZerosLie DEF none
  <2> QED
    BY <2>1
<1>5. bits \in Seq(Values) /\ Len(bits) = LengthSize
  <2> HIDE DEF bits
  <2>1. bits \in [1 .. LengthSize -> Values]
    BY LengthBytes DEF bits
  <2> QED
    BY <1>1, <2>1
<1>6. Padded = w
  BY DEF Padded
<1> HIDE DEF tag, none, bits
<1>7. /\ u \in Seq(Values)  /\ Len(u) = pc + 1
      /\ \A k \in 1 .. pc : u[k] = Message[k]
      /\ u[pc + 1] = EndTag
  <2>1. /\ u \in Seq(Values)  /\ Len(u) = Len(Message) + Len(tag)
        /\ \A k \in 1 .. Len(Message) : u[k] = Message[k]
        /\ \A k \in 1 .. Len(tag) : u[Len(Message) + k] = tag[k]
    <3>1. Message \in Seq(Values) /\ tag \in Seq(Values)
      BY <1>2, <1>3
    <3> QED
      BY <3>1, PairJoined
  <2> HIDE DEF u
  <2> QED
    BY <1>1, <1>2, <1>3, <2>1
<1> HIDE DEF u
<1>8. /\ v \in Seq(Values)  /\ Len(v) = pc + 1 + z
      /\ \A k \in 1 .. pc + 1 : v[k] = u[k]
      /\ \A k \in 1 .. z : v[pc + 1 + k] = none[k]
  <2>1. /\ v \in Seq(Values)  /\ Len(v) = Len(u) + Len(none)
        /\ \A k \in 1 .. Len(u) : v[k] = u[k]
        /\ \A k \in 1 .. Len(none) : v[Len(u) + k] = none[k]
    <3>1. u \in Seq(Values) /\ none \in Seq(Values)
      BY <1>4, <1>7
    <3> QED
      BY <3>1, PairJoined
  <2> HIDE DEF v
  <2> QED
    BY <1>1, <1>4, <1>7, <2>1
<1> HIDE DEF v
<1>9. /\ w \in Seq(Values)  /\ Len(w) = pc + 1 + z + LengthSize
      /\ \A k \in 1 .. pc + 1 + z : w[k] = v[k]
      /\ \A k \in 1 .. LengthSize : w[pc + 1 + z + k] = bits[k]
  <2>1. /\ w \in Seq(Values)  /\ Len(w) = Len(v) + Len(bits)
        /\ \A k \in 1 .. Len(v) : w[k] = v[k]
        /\ \A k \in 1 .. Len(bits) : w[Len(v) + k] = bits[k]
    <3>1. v \in Seq(Values) /\ bits \in Seq(Values)
      BY <1>5, <1>8
    <3> QED
      BY <3>1, PairJoined
  <2> HIDE DEF w
  <2> QED
    BY <1>1, <1>5, <1>8, <2>1
<1> HIDE DEF w
<1>10. ASSUME NEW k \in 1 .. Len(w) PROVE w[k] = Byte(z, k)
  <2>1. k \in Nat /\ k >= 1 /\ k <= pc + 1 + z + LengthSize
    BY <1>1, <1>9
  <2>2. CASE k <= pc
    BY <1>1, <1>2, <1>7, <1>8, <1>9, <2>1, <2>2 DEF Byte
  <2>3. CASE k = pc + 1
    BY <1>1, <1>7, <1>8, <1>9, <2>1, <2>3 DEF Byte
  <2>4. CASE k > pc + 1 /\ k <= pc + 1 + z
    <3>1. k - (pc + 1) \in 1 .. z /\ pc + 1 + (k - (pc + 1)) = k
      BY <1>1, <2>1, <2>4
    <3>2. v[k] = 0
      BY <1>4, <1>8, <3>1
    <3>3. w[k] = 0
      BY <1>1, <1>9, <2>1, <2>4, <3>2
    <3> QED
      BY <1>1, <2>1, <2>4, <3>3 DEF Byte
  <2>5. CASE k > pc + 1 + z
    <3>1. k - (pc + 1 + z) \in 1 .. LengthSize /\ pc + 1 + z + (k - (pc + 1 + z)) = k
      BY <1>1, <2>1, <2>5
    <3>2. w[k] = bits[k - (pc + 1 + z)]
      BY <1>9, <3>1
    <3> QED
      BY <1>1, <2>1, <2>5, <3>2 DEF Byte, bits
  <2> QED
    BY <1>1, <2>1, <2>2, <2>3, <2>4, <2>5
<1> QED
  BY <1>6, <1>9, <1>10

\* The copy of the status that to_digest works on
Bits == 8 * pc
Copy(block, cur, hashed) ==
  [curr_block |-> block, cur |-> cur, total_num_bits |-> Bits, hashed |-> hashed]

\* Where byte i of block j lies, the first block being 0
Position(j, i) == BlockSize * j + i

\* The end of the message lies in block, with its tag behind it.
Tagged(block) ==
  /\ block \in Rows
  /\ \A i \in 1 .. status.cur : block[i] = Position(Len(status.hashed), i)
  /\ block[status.cur + 1] = EndTag

\* row is block j of the message padded with z zeros.
RowIs(row, z, j) ==
  /\ row \in Rows
  /\ \A i \in 1 .. BlockSize : row[i] = Byte(z, Position(j, i))

LEMMA PlaceIs ==
  ASSUME Inv
  PROVE  /\ status.cur \in 0 .. BlockSize - 1  /\ status.hashed \in Seq(Blocks)
         /\ Len(status.hashed) \in Nat  /\ BlockSize * Len(status.hashed) \in Nat  /\ pc \in Nat
         /\ pc = BlockSize * Len(status.hashed) + status.cur
BY LenProperties DEF Inv, TypeOK, BlocksHoldMessage, Blocks

LEMMA TagIs ==
  ASSUME Inv
  PROVE  \E b : Tagged(b) /\ AddEndTag(status) = Copy(b, status.cur + 1, status.hashed)
<1> DEFINE tag == <<EndTag>>
           block == status.curr_block
           at == status.cur
           hashed == status.hashed
           b == Put(block, at, tag)
<1>1. /\ status = [curr_block |-> block, cur |-> at, total_num_bits |-> Bits, hashed |-> hashed]
      /\ block \in Blocks
      /\ \A i \in 1 .. at : block[i] = BlockSize * Len(hashed) + i
  BY DEF Inv, TypeOK, BlocksHoldMessage, Blocks, Bits
<1>2. at \in Nat /\ at + 1 <= BlockSize
  BY PlaceIs
<1>3. block \in Rows
  <2>1. Int \subseteq Values
    BY DEF Values
  <2> HIDE DEF block
  <2> QED
    BY <1>1, <2>1 DEF Blocks, Rows
<1>4. tag \in [1 .. 1 -> Values] /\ tag[1] = EndTag
  <2>1. EndTag \in Values
    BY DEF EndTag, Values
  <2> QED
    BY <2>1
<1>5. AddEndTag(status) = [status EXCEPT !.curr_block = b, !.cur = at + 1]
  BY DEF AddEndTag
<1> HIDE DEF tag, block, at, hashed
<1>6. /\ b \in Rows
      /\ \A i \in 1 .. at : b[i] = block[i]
      /\ \A i \in at + 1 .. at + 1 : b[i] = tag[i - at]
  <2>1. PICK n \in Nat : n = 1
    OBVIOUS
  <2>2. tag \in [1 .. n -> Values] /\ at + n <= BlockSize
    BY <1>2, <1>4, <2>1
  <2>3. Written(b, block, at, n, tag)
    BY <1>2, <1>3, <2>2, PutIs
  <2> HIDE DEF b
  <2> QED
    BY <2>1, <2>3 DEF Written
<1> HIDE DEF b
<1>7. AddEndTag(status) = Copy(b, at + 1, hashed)
  BY <1>1, <1>5 DEF Copy
<1>8. b[at + 1] = EndTag
  <2>1. PICK i \in at + 1 .. at + 1 : i = at + 1
    BY <1>2
  <2>2. i - at = 1
    BY <1>2, <2>1
  <2>3. b[i] = tag[i - at]
    BY <1>6
  <2> QED
    BY <1>4, <2>1, <2>2, <2>3
<1>9. Tagged(b)
  BY <1>1, <1>6, <1>8 DEF Tagged, at, hashed, Position
<1> QED
  BY <1>7, <1>9 DEF at, hashed

LEMMA PadsInside ==
  ASSUME NEW b, NEW at, NEW h, NEW zeros, zeros = AfterEndZeros(Copy(b, at, h)),
         ~(zeros > BlockSize - at)
  PROVE  Pad(Copy(b, at, h)) = Copy(Put(b, at, Zeros(zeros)), at + zeros, h)
<1> HIDE DEF AfterEndZeros
<1>1. Pad(Copy(b, at, h)) =
        [Copy(b, at, h) EXCEPT !.curr_block = Put(Copy(b, at, h).curr_block, Copy(b, at, h).cur, Zeros(zeros)),
                               !.cur = Copy(b, at, h).cur + zeros]
  BY DEF Pad, Copy
<1>2. Copy(b, at, h).curr_block = b /\ Copy(b, at, h).cur = at
  BY DEF Copy
<1> QED
  BY <1>1, <1>2 DEF Copy

LEMMA PadsOver ==
  ASSUME NEW b, NEW at, NEW h, NEW zeros, zeros = AfterEndZeros(Copy(b, at, h)),
         zeros > BlockSize - at, NEW full, full = Put(b, at, Zeros(BlockSize - at)),
         NEW rest, rest = zeros - (BlockSize - at)
  PROVE  Pad(Copy(b, at, h)) = Copy(Put(full, 0, Zeros(rest)), rest, Append(h, full))
<1>1. Copy(b, at, h).curr_block = b /\ Copy(b, at, h).cur = at /\ Copy(b, at, h).hashed = h
  BY DEF Copy
<1>2. Pad(Copy(b, at, h)) = Spill(Copy(b, at, h), zeros)
  BY <1>1 DEF Pad
<1>3. ProcessBlock([Copy(b, at, h) EXCEPT !.curr_block = full]) = Copy(full, at, Append(h, full))
  <2>1. [Copy(b, at, h) EXCEPT !.curr_block = full] = Copy(full, at, h)
    BY DEF Copy
  <2>2. PICK g : g = Append(h, full)
    OBVIOUS
  <2>3. ProcessBlock(Copy(full, at, h)) = [Copy(full, at, h) EXCEPT !.hashed = g]
    BY <2>2 DEF ProcessBlock, Copy
  <2>4. [Copy(full, at, h) EXCEPT !.hashed = g] = Copy(full, at, g)
    BY DEF Copy
  <2> QED
    BY <2>1, <2>2, <2>3, <2>4
<1>4. Copy(full, at, Append(h, full)).curr_block = full
  BY DEF Copy
<1>5. Spill(Copy(b, at, h), zeros) =
        [Copy(full, at, Append(h, full)) EXCEPT !.curr_block = Put(full, 0, Zeros(rest)), !.cur = rest]
  BY <1>1, <1>3, <1>4 DEF Spill
<1> QED
  BY <1>2, <1>5 DEF Copy

LEMMA LengthIsAdded ==
  ASSUME NEW b, NEW at, NEW h
  PROVE  AddLength(Copy(b, at, h)).hashed = Append(h, Put(b, at, BigEndian(Bits)))
<1> DEFINE c == Put(b, at, BigEndian(Bits))
<1>1. AddLength(Copy(b, at, h)) = ProcessBlock([Copy(b, at, h) EXCEPT !.curr_block = c])
  BY DEF AddLength, Copy
<1> HIDE DEF c
<1>2. ProcessBlock([Copy(b, at, h) EXCEPT !.curr_block = c]).hashed = Append(h, c)
  BY DEF ProcessBlock, Copy
<1> QED
  BY <1>1, <1>2 DEF c

\* What a place in the padded message holds
LEMMA ByteIs ==
  ASSUME NEW z, NEW k
  PROVE  /\ k <= pc => Byte(z, k) = k
         /\ ~(k <= pc) /\ k = pc + 1 => Byte(z, k) = EndTag
         /\ ~(k <= pc) /\ ~(k = pc + 1) /\ k <= pc + 1 + z => Byte(z, k) = 0
         /\ ~(k <= pc) /\ ~(k = pc + 1) /\ ~(k <= pc + 1 + z) =>
              Byte(z, k) = BigEndian(Bits)[k - (pc + 1 + z)]
BY Zenon DEF Byte, Bits

\* Place k of the padded message, i places into a block that holds the last c
\* bytes of the message, holds what it should.
Shows(z, k, i, c) ==
  /\ i <= c => Byte(z, k) = k
  /\ i = c + 1 => Byte(z, k) = EndTag
  /\ i > c + 1 /\ i <= c + 1 + z => Byte(z, k) = 0
  /\ i > c + 1 + z => Byte(z, k) = BigEndian(Bits)[i - (c + 1 + z)]

LEMMA ByteFrom ==
  ASSUME NEW x \in Nat, NEW c \in Nat, pc = x + c, NEW z \in Nat, NEW i \in Nat
  PROVE  Shows(z, x + i, i, c)
<1>1. PICK k \in Nat : k = x + i
  OBVIOUS
<1>2. /\ (k <= pc) <=> (i <= c)
      /\ (k = pc + 1) <=> (i = c + 1)
      /\ (k <= pc + 1 + z) <=> (i <= c + 1 + z)
      /\ k - (pc + 1 + z) = i - (c + 1 + z)
  BY <1>1
<1>3. i <= c => Byte(z, k) = k
  BY <1>2, ByteIs, Zenon
<1>4. i = c + 1 => Byte(z, k) = EndTag
  <2>1. i = c + 1 => ~(i <= c)
    OBVIOUS
  <2> QED
    BY <1>2, <2>1, ByteIs, Zenon
<1>5. i > c + 1 /\ i <= c + 1 + z => Byte(z, k) = 0
  <2>1. i > c + 1 => ~(i <= c) /\ ~(i = c + 1)
    OBVIOUS
  <2> QED
    BY <1>2, <2>1, ByteIs, Zenon
<1>6. i > c + 1 + z => Byte(z, k) = BigEndian(Bits)[i - (c + 1 + z)]
  <2>1. i > c + 1 + z => ~(i <= c) /\ ~(i = c + 1) /\ ~(i <= c + 1 + z)
    OBVIOUS
  <2>2. ~(i <= c) /\ ~(i = c + 1) /\ ~(i <= c + 1 + z) =>
          Byte(z, k) = BigEndian(Bits)[k - (pc + 1 + z)]
    BY <1>2, ByteIs, Zenon
  <2> QED
    BY <1>2, <2>1, <2>2, Zenon
<1>7. Shows(z, k, i, c)
  BY <1>3, <1>4, <1>5, <1>6, Zenon DEF Shows
<1> QED
  BY <1>1, <1>7

\* The same, seen from the block being filled, and from the next.
LEMMA BytesAre ==
  ASSUME Inv, NEW z \in Nat, NEW i \in 1 .. BlockSize,
         NEW c, c = status.cur, NEW m, m = Len(status.hashed)
  PROVE  /\ Shows(z, Position(m, i), i, c)
         /\ Shows(z, Position(m + 1, i), BlockSize + i, c)
<1> DEFINE x == BlockSize * m
<1>1. c \in Nat /\ m \in Nat /\ x \in Nat /\ pc = x + c
  BY PlaceIs
<1>2. BlockSize * (m + 1) = x + BlockSize /\ BlockSize \in Nat
  BY <1>1, BlocksAscend
<1>3. Position(m, i) = x + i
  BY DEF Position
<1> HIDE DEF x
<1>4. PICK e \in Nat : e = BlockSize + i
  BY <1>2
<1>5. Position(m + 1, i) = x + e
  BY <1>1, <1>2, <1>4 DEF Position
<1>6. i \in Nat
  BY <1>2
<1>7. Shows(z, x + i, i, c) /\ Shows(z, x + e, e, c)
  BY <1>1, <1>6, ByteFrom
<1> QED
  BY <1>3, <1>4, <1>5, <1>7

\* The end of the message, its tag, the zeros and the length in one block
LEMMA OneBlock ==
  ASSUME Inv, status.cur < BlockSize - LengthSize,
         NEW z \in Nat, z = BlockSize - LengthSize - 1 - status.cur
  PROVE  \E row : RowIs(row, z, Len(status.hashed)) /\ ToDigest = Append(status.hashed, row)
<1> DEFINE c == status.cur
           h == status.hashed
           m == Len(h)
           at == c + 1
           last == BlockSize - LengthSize
<1>1. PICK b : Tagged(b) /\ AddEndTag(status) = Copy(b, at, h)
  BY TagIs
<1>2. AfterEndZeros(Copy(b, at, h)) = z
  BY <1>1, ZerosAre
<1>3. /\ c \in 0 .. BlockSize - 1  /\ at = c + 1  /\ at \in Nat
      /\ at + z = last  /\ ~(z > BlockSize - at)  /\ at + z <= BlockSize
      /\ last \in Nat  /\ last + LengthSize = BlockSize  /\ LengthSize \in Nat
  BY PlaceIs
<1> DEFINE none == Zeros(z)
           bits == BigEndian(Bits)
           filled == Put(b, at, none)
           row == Put(filled, last, bits)
<1>4. none \in [1 .. z -> Values] /\ \A i \in 1 .. z : none[i] = 0
  BY ZerosLie
<1>5. bits \in [1 .. LengthSize -> Values]
  BY LengthBytes DEF Bits
<1>6. /\ b \in Rows  /\ b[at] = EndTag
      /\ \A i \in 1 .. c : b[i] = Position(m, i)
  BY <1>1 DEF Tagged
<1>7. ASSUME NEW i \in 1 .. BlockSize
      PROVE  /\ i <= c => Byte(z, Position(m, i)) = Position(m, i)
             /\ i = c + 1 => Byte(z, Position(m, i)) = EndTag
             /\ i > c + 1 /\ i <= c + 1 + z => Byte(z, Position(m, i)) = 0
             /\ i > c + 1 + z => Byte(z, Position(m, i)) = bits[i - (c + 1 + z)]
  <2>1. c = status.cur /\ m = Len(status.hashed)
    OBVIOUS
  <2> HIDE DEF c, m
  <2>2. Shows(z, Position(m, i), i, c)
    BY <1>3, <2>1, BytesAre
  <2> QED
    BY <2>2, Zenon DEF Shows
<1> HIDE DEF c, h, m, at, last, none, bits
<1>8. Pad(Copy(b, at, h)) = Copy(filled, last, h)
  BY <1>2, <1>3, PadsInside DEF none
<1>9. ToDigest = Append(h, row)
  BY <1>1, <1>8, LengthIsAdded DEF ToDigest, bits
<1>10. /\ filled \in Rows
       /\ \A i \in 1 .. at : filled[i] = b[i]
       /\ \A i \in at + 1 .. at + z : filled[i] = none[i - at]
  <2>1. Written(filled, b, at, z, none)
    BY <1>3, <1>4, <1>6, PutIs
  <2> HIDE DEF filled
  <2> QED
    BY <2>1 DEF Written
<1> HIDE DEF filled
<1>11. /\ row \in Rows
       /\ \A i \in 1 .. last : row[i] = filled[i]
       /\ \A i \in last + 1 .. last + LengthSize : row[i] = bits[i - last]
  <2>1. last + LengthSize <= BlockSize
    BY <1>3
  <2>2. Written(row, filled, last, LengthSize, bits)
    BY <1>3, <1>5, <1>10, <2>1, PutIs
  <2> HIDE DEF row
  <2> QED
    BY <2>2 DEF Written
<1> HIDE DEF row
<1>12. ASSUME NEW i \in 1 .. BlockSize PROVE row[i] = Byte(z, Position(m, i))
  <2>1. CASE i <= c
    BY <1>3, <1>6, <1>7, <1>10, <1>11, <2>1
  <2>2. CASE i = at
    BY <1>3, <1>6, <1>7, <1>10, <1>11, <2>2
  <2>3. CASE i > at /\ i <= last
    <3>1. i \in at + 1 .. at + z /\ i - at \in 1 .. z /\ i \in 1 .. last
      BY <1>3, <2>3
    <3>2. row[i] = 0
      BY <1>4, <1>10, <1>11, <3>1
    <3> QED
      BY <1>3, <1>7, <2>3, <3>2
  <2>4. CASE i > last
    <3>1. i \in last + 1 .. last + LengthSize /\ c + 1 + z = last
      BY <1>3, <2>4
    <3>2. row[i] = bits[i - last]
      BY <1>11, <3>1
    <3> QED
      BY <1>3, <1>7, <2>4, <3>1, <3>2
  <2> QED
    BY <1>3, <2>1, <2>2, <2>3, <2>4
<1>13. RowIs(row, z, m)
  BY <1>11, <1>12 DEF RowIs
<1> QED
  BY <1>9, <1>13 DEF h, m

\* The zeros that do not fit fill this block and begin the next one, which ends
\* with the length.
LEMMA TwoBlocks ==
  ASSUME Inv, ~(status.cur < BlockSize - LengthSize),
         NEW z \in Nat, z = 2 * BlockSize - LengthSize - 1 - status.cur
  PROVE  \E full, row :
           /\ RowIs(full, z, Len(status.hashed))  /\ RowIs(row, z, Len(status.hashed) + 1)
           /\ ToDigest = Append(Append(status.hashed, full), row)
<1> DEFINE c == status.cur
           h == status.hashed
           m == Len(h)
           at == c + 1
           left == BlockSize - at
           last == BlockSize - LengthSize
<1>1. PICK b : Tagged(b) /\ AddEndTag(status) = Copy(b, at, h)
  BY TagIs
<1>2. AfterEndZeros(Copy(b, at, h)) = z
  BY <1>1, ZerosAre
<1>3. /\ c \in 0 .. BlockSize - 1  /\ at = c + 1  /\ at \in Nat
      /\ left \in Nat  /\ at + left = BlockSize  /\ at + left <= BlockSize  /\ left = BlockSize - at
      /\ z > left  /\ z - left = last  /\ c + 1 + z = BlockSize + last
      /\ last \in Nat  /\ last + LengthSize = BlockSize  /\ LengthSize \in Nat
  <2>1. c \in 0 .. BlockSize - 1 /\ ~(c < BlockSize - LengthSize)
        /\ z = 2 * BlockSize - LengthSize - 1 - c
    BY PlaceIs
  <2> HIDE DEF c
  <2> QED
    BY <2>1
<1> DEFINE some == Zeros(left)
           none == Zeros(last)
           bits == BigEndian(Bits)
           full == Put(b, at, some)
           clear == Put(full, 0, none)
           row == Put(clear, last, bits)
<1>4. /\ some \in [1 .. left -> Values]  /\ \A i \in 1 .. left : some[i] = 0
      /\ none \in [1 .. last -> Values]  /\ \A i \in 1 .. last : none[i] = 0
  BY <1>3, ZerosLie
<1>5. bits \in [1 .. LengthSize -> Values]
  BY LengthBytes DEF Bits
<1>6. /\ b \in Rows  /\ b[at] = EndTag
      /\ \A i \in 1 .. c : b[i] = Position(m, i)
  BY <1>1 DEF Tagged
<1>7. ASSUME NEW i \in 1 .. BlockSize
      PROVE  Shows(z, Position(m, i), i, c) /\ Shows(z, Position(m + 1, i), BlockSize + i, c)
  <2>1. c = status.cur /\ m = Len(status.hashed)
    OBVIOUS
  <2> HIDE DEF c, m
  <2> QED
    BY <1>3, <2>1, BytesAre
<1> HIDE DEF c, h, m, at, left, last, some, none, bits
<1>8. Pad(Copy(b, at, h)) = Copy(clear, last, Append(h, full))
  <2>1. full = Put(b, at, Zeros(BlockSize - at)) /\ last = z - (BlockSize - at) /\ z > BlockSize - at
    BY <1>3 DEF some, left
  <2>2. clear = Put(full, 0, Zeros(last))
    BY DEF none
  <2> HIDE DEF full, clear
  <2> QED
    BY <1>2, <2>1, <2>2, PadsOver
<1>9. ToDigest = Append(Append(h, full), row)
  BY <1>1, <1>8, LengthIsAdded DEF ToDigest, bits
<1>10. /\ full \in Rows
       /\ \A i \in 1 .. at : full[i] = b[i]
       /\ \A i \in at + 1 .. at + left : full[i] = some[i - at]
  <2>1. Written(full, b, at, left, some)
    BY <1>3, <1>4, <1>6, PutIs
  <2> HIDE DEF full
  <2> QED
    BY <2>1 DEF Written
<1> HIDE DEF full
<1>11. /\ clear \in Rows  /\ \A i \in 1 .. last : clear[i] = 0
  <2>1. 0 \in Nat /\ 0 + last <= BlockSize
    BY <1>3
  <2>2. Written(clear, full, 0, last, none)
    BY <1>3, <1>4, <1>10, <2>1, PutIs
  <2> HIDE DEF clear
  <2>3. ASSUME NEW i \in 1 .. last PROVE clear[i] = 0
    <3>1. i \in 0 + 1 .. 0 + last /\ i - 0 = i
      BY <1>3
    <3>2. clear[i] = none[i - 0]
      BY <2>2, <3>1 DEF Written
    <3> QED
      BY <1>4, <3>1, <3>2
  <2> QED
    BY <2>2, <2>3 DEF Written
<1> HIDE DEF clear
<1>12. /\ row \in Rows
       /\ \A i \in 1 .. last : row[i] = clear[i]
       /\ \A i \in last + 1 .. last + LengthSize : row[i] = bits[i - last]
  <2>1. last + LengthSize <= BlockSize
    BY <1>3
  <2>2. Written(row, clear, last, LengthSize, bits)
    BY <1>3, <1>5, <1>11, <2>1, PutIs
  <2> HIDE DEF row
  <2> QED
    BY <2>2 DEF Written
<1> HIDE DEF row
<1>13. ASSUME NEW i \in 1 .. BlockSize PROVE full[i] = Byte(z, Position(m, i))
  <2> DEFINE y == Position(m, i)
  <2>1. /\ i <= c => Byte(z, y) = y
        /\ i = c + 1 => Byte(z, y) = EndTag
        /\ i > c + 1 /\ i <= c + 1 + z => Byte(z, y) = 0
    BY <1>7, Zenon DEF Shows
  <2>2. i <= c => b[i] = y
    BY <1>3, <1>6
  <2> HIDE DEF y
  <2>3. ASSUME i <= c PROVE full[i] = Byte(z, y)
    BY <1>3, <1>6, <1>10, <2>1, <2>2, <2>3
  <2>4. ASSUME i = at PROVE full[i] = Byte(z, y)
    BY <1>3, <1>6, <1>10, <2>1, <2>4
  <2>5. ASSUME i > at PROVE full[i] = Byte(z, y)
    <3>1. i \in at + 1 .. at + left /\ i - at \in 1 .. left
      BY <1>3, <2>5
    <3>2. full[i] = 0
      BY <1>4, <1>10, <3>1
    <3>3. i > c + 1 /\ i <= c + 1 + z
      BY <1>3, <2>5
    <3> QED
      BY <2>1, <3>2, <3>3
  <2>6. full[i] = Byte(z, y)
    BY <1>3, <2>3, <2>4, <2>5
  <2> QED
    BY <2>6 DEF y
<1>14. ASSUME NEW i \in 1 .. BlockSize PROVE row[i] = Byte(z, Position(m + 1, i))
  <2> DEFINE y == Position(m + 1, i)
  <2>1. PICK e \in Nat : e = BlockSize + i
    BY <1>3
  <2>2. Shows(z, y, e, c)
    BY <1>7, <2>1
  <2> HIDE DEF y
  <2>3. CASE i <= last
    <3>1. i \in 1 .. last /\ e > c + 1 /\ e <= c + 1 + z
      BY <1>3, <2>1, <2>3
    <3>2. Byte(z, y) = 0
      BY <2>2, <3>1 DEF Shows
    <3>3. row[i] = 0
      BY <1>11, <1>12, <3>1
    <3> QED
      BY <3>2, <3>3 DEF y
  <2>4. CASE ~(i <= last)
    <3>1. /\ i \in last + 1 .. last + LengthSize  /\ e > c + 1 + z
          /\ e - (c + 1 + z) = i - last
      BY <1>3, <2>1, <2>4
    <3>2. row[i] = bits[i - last]
      BY <1>12, <3>1
    <3>3. Byte(z, y) = bits[e - (c + 1 + z)]
      BY <2>2, <3>1, Zenon DEF Shows, bits
    <3> QED
      BY <3>1, <3>2, <3>3 DEF y
  <2> QED
    BY <2>3, <2>4
<1>15. RowIs(full, z, m) /\ RowIs(row, z, m + 1)
  BY <1>10, <1>12, <1>13, <1>14 DEF RowIs
<1> QED
  BY <1>9, <1>15 DEF h, m

\* s is the first n blocks of the message padded with z zeros.
RowsAre(s, z, n) ==
  /\ s \in Seq(Rows)  /\ Len(s) = n
  /\ \A j \in 1 .. n : RowIs(s[j], z, j - 1)

LEMMA AppendRow ==
  ASSUME NEW n \in Nat, NEW s, NEW z, RowsAre(s, z, n), NEW row, RowIs(row, z, n)
  PROVE  RowsAre(Append(s, row), z, n + 1)
<1> DEFINE t == Append(s, row)
<1>1. s \in Seq(Rows) /\ Len(s) = n /\ row \in Rows
  BY DEF RowsAre, RowIs
<1>2. /\ t \in Seq(Rows)  /\ Len(t) = n + 1  /\ t[n + 1] = row
      /\ \A j \in 1 .. n : t[j] = s[j]
  BY <1>1, AppendProperties
<1> HIDE DEF t
<1>3. ASSUME NEW j \in 1 .. n + 1 PROVE RowIs(t[j], z, j - 1)
  <2>1. CASE j \in 1 .. n
    BY <1>2, <2>1 DEF RowsAre
  <2>2. CASE j \notin 1 .. n
    <3>1. j = n + 1 /\ j - 1 = n
      BY <2>2
    <3> QED
      BY <1>2, <3>1
  <2> QED
    BY <2>1, <2>2
<1>4. RowsAre(t, z, n + 1)
  BY <1>2, <1>3 DEF RowsAre
<1> QED
  BY <1>4 DEF t

LEMMA HashedAre ==
  ASSUME Inv, NEW z \in Nat
  PROVE  RowsAre(status.hashed, z, Len(status.hashed))
<1> DEFINE h == status.hashed
           m == Len(h)
<1>1. /\ status.cur \in 0 .. BlockSize - 1  /\ h \in Seq(Blocks)  /\ m \in Nat
      /\ BlockSize * m \in Nat  /\ pc \in Nat  /\ pc = BlockSize * m + status.cur
  BY PlaceIs
<1>2. \A j \in 1 .. m, i \in 1 .. BlockSize : h[j][i] = BlockSize * (j - 1) + i
  BY DEF Inv, BlocksHoldMessage
<1> HIDE DEF h
<1>3. Blocks \subseteq Rows
  BY DEF Blocks, Rows, Values
<1>4. h \in Seq(Rows) /\ \A j \in 1 .. m : h[j] \in Rows
  <2>1. \A j \in 1 .. m : h[j] \in Rows
    BY <1>1, <1>3, ElementOfSeq
  <2> QED
    BY <1>1, <2>1
<1>5. ASSUME NEW j \in 1 .. m PROVE RowIs(h[j], z, j - 1)
  <2> DEFINE l == j - 1
             x == BlockSize * l
             w == BlockSize * m
  <2>1. l \in Nat /\ l + 1 \in Nat /\ l + 1 <= m
    BY <1>1
  <2> HIDE DEF l
  <2>2. x \in Nat /\ w \in Nat /\ x + BlockSize <= w
    <3>1. BlockSize * (l + 1) <= BlockSize * m /\ BlockSize * (l + 1) = BlockSize * l + BlockSize
      BY <1>1, <2>1, BlocksAscend
    <3> QED
      BY <1>1, <2>1, <3>1
  <2>3. pc = w + status.cur /\ pc \in Nat /\ status.cur \in Nat
    BY <1>1
  <2>4. \A i \in 1 .. BlockSize : h[j][i] = x + i
    BY <1>2 DEF l
  <2>5. \A i \in 1 .. BlockSize : Position(l, i) = x + i
    BY DEF Position
  <2> HIDE DEF x, w
  <2>6. ASSUME NEW i \in 1 .. BlockSize PROVE h[j][i] = Byte(z, Position(l, i))
    <3>1. x + i <= pc
      BY <2>2, <2>3
    <3>2. Byte(z, x + i) = x + i
      BY <3>1 DEF Byte
    <3> QED
      BY <2>4, <2>5, <3>2
  <2>7. RowIs(h[j], z, l)
    BY <1>4, <2>6 DEF RowIs
  <2> QED
    BY <2>7 DEF l
<1> QED
  BY <1>1, <1>4, <1>5 DEF RowsAre, h

\* All of the blocks that are hashed
LEMMA DigestRows ==
  ASSUME Inv
  PROVE  \E z \in 0 .. BlockSize - 1, n \in Nat \ {0} :
           pc + 1 + z + LengthSize = BlockSize * n /\ RowsAre(ToDigest, z, n)
<1> DEFINE c == status.cur
           h == status.hashed
           m == Len(h)
           x == BlockSize * m
<1>1. /\ c \in 0 .. BlockSize - 1  /\ m \in Nat  /\ x \in Nat  /\ pc = x + c
      /\ BlockSize * (m + 1) = x + BlockSize
      /\ BlockSize * (m + 2) = x + 2 * BlockSize
  <2>1. c \in 0 .. BlockSize - 1 /\ m \in Nat /\ x \in Nat /\ pc = x + c
    BY PlaceIs
  <2> HIDE DEF m
  <2>2. m + 1 \in Nat /\ m + 2 = m + 1 + 1
    BY <2>1
  <2>3. BlockSize * (m + 1) = BlockSize * m + BlockSize
        /\ BlockSize * (m + 1 + 1) = BlockSize * (m + 1) + BlockSize
    BY <2>1, <2>2, BlocksAscend
  <2> HIDE DEF c
  <2> QED
    BY <2>1, <2>2, <2>3
<1> HIDE DEF x
<1>2. CASE c < BlockSize - LengthSize
  <2> DEFINE z == BlockSize - LengthSize - 1 - c
  <2>1. /\ z \in Nat  /\ z \in 0 .. BlockSize - 1  /\ m + 1 \in Nat \ {0}
        /\ pc + 1 + z + LengthSize = BlockSize * (m + 1)
    <3> HIDE DEF c, m
    <3> QED
      BY <1>1, <1>2
  <2>2. z = BlockSize - LengthSize - 1 - status.cur /\ status.cur < BlockSize - LengthSize
    BY <1>2
  <2> HIDE DEF z
  <2>3. PICK row : RowIs(row, z, m) /\ ToDigest = Append(h, row)
    BY <2>1, <2>2, OneBlock
  <2>4. RowsAre(h, z, m)
    BY <2>1, HashedAre
  <2>5. RowsAre(ToDigest, z, m + 1)
    <3> HIDE DEF h, m
    <3> QED
      BY <1>1, <2>3, <2>4, AppendRow
  <2> QED
    BY <2>1, <2>5
<1>3. CASE ~(c < BlockSize - LengthSize)
  <2> DEFINE z == 2 * BlockSize - LengthSize - 1 - c
  <2>1. /\ z \in Nat  /\ z \in 0 .. BlockSize - 1  /\ m + 1 \in Nat  /\ m + 2 \in Nat \ {0}
        /\ pc + 1 + z + LengthSize = BlockSize * (m + 2)  /\ m + 1 + 1 = m + 2
    <3> HIDE DEF c, m
    <3> QED
      BY <1>1, <1>3
  <2>2. z = 2 * BlockSize - LengthSize - 1 - status.cur /\ ~(status.cur < BlockSize - LengthSize)
    BY <1>3
  <2> HIDE DEF z
  <2>3. PICK full, row : /\ RowIs(full, z, m)  /\ RowIs(row, z, m + 1)
                         /\ ToDigest = Append(Append(h, full), row)
    BY <2>1, <2>2, TwoBlocks
  <2>4. RowsAre(h, z, m)
    BY <2>1, HashedAre
  <2>5. RowsAre(Append(h, full), z, m + 1)
    <3> HIDE DEF h, m
    <3> QED
      BY <1>1, <2>3, <2>4, AppendRow
  <2>6. RowsAre(ToDigest, z, m + 1 + 1)
    <3> HIDE DEF h, m
    <3> QED
      BY <2>1, <2>3, <2>5, AppendRow
  <2> QED
    BY <2>1, <2>6
<1> QED
  BY <1>2, <1>3

\* However the message was cut into calls, and whatever older bytes are left in
\* the block, to_digest hashes the blocks of the message padded as the standard
\* says (sha256.h).
THEOREM DigestAlwaysStandard == Spec => []DigestIsStandard
<1>1. Inv => DigestIsStandard
  <2> SUFFICES ASSUME Inv PROVE FlattenSeq(ToDigest) = Padded
    BY DEF DigestIsStandard
  <2>1. PICK z \in 0 .. BlockSize - 1, n \in Nat \ {0} :
          pc + 1 + z + LengthSize = BlockSize * n /\ RowsAre(ToDigest, z, n)
    BY DigestRows
  <2>2. z \in Nat /\ n \in Nat /\ FewestZeros = z
    BY <2>1, FewestIs
  <2>3. /\ Padded \in Seq(Values)  /\ Len(Padded) = pc + 1 + z + LengthSize
        /\ \A k \in 1 .. Len(Padded) : Padded[k] = Byte(z, k)
    BY <2>2, PaddedIs
  <2> DEFINE s == ToDigest
             w == FlattenSeq(s)
  <2>4. Len(s) = n /\ s \in Seq(Rows) /\ \A j \in 1 .. n : RowIs(s[j], z, j - 1)
    BY <2>1 DEF RowsAre
  <2> HIDE DEF s
  <2>5. s \in Seq(Seq(Values)) /\ Len(s) # 0 /\ \A j \in 1 .. Len(s) : Len(s[j]) = BlockSize
    <3>1. \A r \in Rows : r \in Seq(Values) /\ Len(r) = BlockSize
      BY DEF Rows
    <3>2. \A j \in 1 .. Len(s) : s[j] \in Seq(Values) /\ Len(s[j]) = BlockSize
      BY <2>4, <3>1, ElementOfSeq
    <3> QED
      BY <2>1, <2>4, <3>2
  <2>6. w \in Seq(Values) /\ BlocksLie(w, s, BlockSize, Len(s))
    BY <2>5, FlattenBlocks
  <2> HIDE DEF w
  <2>7. ASSUME NEW k \in 1 .. BlockSize * n PROVE w[k] = Byte(z, k)
    <3>1. PICK j \in 0 .. n - 1, i \in 1 .. BlockSize : k = BlockSize * j + i
      BY <2>2, PlaceInBlock
    <3>2. j + 1 \in 1 .. n /\ j + 1 - 1 = j
      BY <2>2
    <3>3. RowIs(s[j + 1], z, j)
      BY <2>4, <3>2
    <3>4. s[j + 1][i] = Byte(z, k)
      BY <3>1, <3>3 DEF RowIs, Position
    <3>5. j \in Nat /\ j < n
      BY <2>2
    <3>6. \A a \in Nat, e \in 1 .. BlockSize : a < n => w[BlockSize * a + e] = s[a + 1][e]
      BY <2>4, <2>6 DEF BlocksLie
    <3>7. w[BlockSize * j + i] = s[j + 1][i]
      BY <3>5, <3>6
    <3>8. w[k] = s[j + 1][i]
      BY <3>1, <3>7, Zenon
    <3> QED
      BY <3>4, <3>8
  <2>8. Len(w) = BlockSize * n /\ Len(Padded) = BlockSize * n
    BY <2>1, <2>3, <2>4, <2>6 DEF BlocksLie
  <2>9. w = Padded
    BY <2>3, <2>6, <2>7, <2>8, SeqEqual
  <2> QED
    BY <2>9 DEF w, s
<1> QED
  BY <1>1, HashInv, PTL

================================================================================
