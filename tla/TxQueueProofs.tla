----------------------------- MODULE TxQueueProofs -----------------------------
(***************************************************************************)
(* Proofs about TxQueue, for every capacity, every set of bytes and cores, *)
(* and every bound on the length of a block: the inductive invariant IInv, *)
(* and the safety properties that follow from it.                          *)
(***************************************************************************)
EXTENDS TxQueue, SequenceTheorems, TLAPS

--------------------------------------------------------------------------------
\* The index arithmetic of imp_write and imp_read (RingIndex)

\* Masking a sum of two indices is at most one subtraction.
LEMMA MaskOnce ==
  ASSUME NEW x \in 0 .. 2 * Capacity - 1
  PROVE  Mask(x) = IF x < Capacity THEN x ELSE x - Capacity
BY CapacityAssumption DEF Mask

\* A masked value is an index.
LEMMA MaskRange ==
  ASSUME NEW x \in Int
  PROVE  Mask(x) \in Index
BY CapacityAssumption DEF Mask, Index

\* AvailableData is the distance from a head h forward to a tail t.
LEMMA DataIsDistance ==
  ASSUME NEW h \in Index, NEW t \in Index
  PROVE  AvailableData(t, h) =
           IF t < h THEN t - h + Capacity ELSE t - h
<1>1. t - h + Capacity \in 0 .. 2 * Capacity - 1
  BY CapacityAssumption DEF Index
<1> QED
  BY <1>1, MaskOnce, CapacityAssumption DEF AvailableData, Index

\* The data between two indices is a number of bytes below the capacity, and
\* nothing only between an index and itself.
LEMMA DataRange ==
  ASSUME NEW h \in Index, NEW t \in Index
  PROVE  /\ AvailableData(t, h) \in Nat
         /\ AvailableData(t, h) < Capacity
         /\ AvailableData(h, h) = 0
BY DataIsDistance, CapacityAssumption DEF Index

\* The space is what the data leaves, less the byte that stays unused.
LEMMA SpaceIsComplement ==
  ASSUME NEW h \in Index, NEW t \in Index
  PROVE  AvailableSpace(h, t) = Capacity - 1 - AvailableData(t, h)
<1>1. h - t - 1 + Capacity \in 0 .. 2 * Capacity - 1
  BY CapacityAssumption DEF Index
<1> QED
  BY <1>1, MaskOnce, DataIsDistance, CapacityAssumption DEF AvailableSpace, Index

\* Advancing an index by what fits adds to its distance from any other.
LEMMA AdvanceAdds ==
  ASSUME NEW h \in Index, NEW t \in Index, NEW size \in Nat,
         AvailableData(t, h) + size < Capacity
  PROVE  /\ Advance(t, size) \in Index
         /\ AvailableData(Advance(t, size), h) = AvailableData(t, h) + size
<1> DEFINE next == t + size
<1>1. size < Capacity
  BY DataRange, CapacityAssumption
<1>2. next \in 0 .. 2 * Capacity - 1
  BY <1>1, CapacityAssumption DEF Index
<1>3. Advance(t, size) = Mask(next)
  BY DEF Advance
<1> HIDE DEF next
<1>4. Advance(t, size) = IF next < Capacity THEN next ELSE next - Capacity
  BY <1>2, <1>3, MaskOnce
<1> USE DEF next
<1>5. Advance(t, size) \in Index
  BY <1>1, <1>4, CapacityAssumption DEF Index
<1>6. AvailableData(t, h) = IF t < h THEN t - h + Capacity ELSE t - h
  BY DataIsDistance
<1>7. AvailableData(Advance(t, size), h) =
        IF Advance(t, size) < h THEN Advance(t, size) - h + Capacity
                                      ELSE Advance(t, size) - h
  BY <1>5, DataIsDistance
<1> QED
  BY <1>1, <1>4, <1>5, <1>6, <1>7, CapacityAssumption DEF Index

\* Distances along the ring add up as long as they do not go round it.
LEMMA DistancesAdd ==
  ASSUME NEW a \in Index, NEW b \in Index, NEW c \in Index,
         AvailableData(b, a) + AvailableData(c, b) < Capacity
  PROVE  AvailableData(c, a) = AvailableData(b, a) + AvailableData(c, b)
BY DataIsDistance, CapacityAssumption DEF Index

\* The part of a distance that lies behind a nearer index.
LEMMA DistancesSubtract ==
  ASSUME NEW a \in Index, NEW b \in Index, NEW c \in Index,
         AvailableData(b, a) <= AvailableData(c, a)
  PROVE  AvailableData(c, b) = AvailableData(c, a) - AvailableData(b, a)
BY DataIsDistance, CapacityAssumption DEF Index

\* Two offsets smaller than the capacity never fall on the same byte.
LEMMA OffsetsDiffer ==
  ASSUME NEW i \in Index, NEW a \in 0 .. Capacity - 1, NEW b \in 0 .. Capacity - 1,
         Mask(i + a) = Mask(i + b)
  PROVE  a = b
<1>1. i + a \in 0 .. 2 * Capacity - 1 /\ i + b \in 0 .. 2 * Capacity - 1
  BY CapacityAssumption DEF Index
<1> QED
  BY <1>1, MaskOnce, CapacityAssumption DEF Index

\* An offset from an index that lies at a distance is a longer offset.
LEMMA OffsetsAdd ==
  ASSUME NEW i \in Index, NEW j \in Index, NEW k \in Nat,
         AvailableData(j, i) + k < Capacity
  PROVE  Mask(j + k) = Mask(i + (AvailableData(j, i) + k))
<1> DEFINE x == j + k
          y == i + (AvailableData(j, i) + k)
<1>1. AvailableData(j, i) = IF j < i THEN j - i + Capacity ELSE j - i
  BY DataIsDistance
<1>2. x \in 0 .. 2 * Capacity - 1 /\ y \in 0 .. 2 * Capacity - 1
  BY <1>1, CapacityAssumption DEF Index
<1>3. x < 2 * Capacity /\ (x = y \/ x + Capacity = y)
  BY <1>1, <1>2, CapacityAssumption DEF Index
<1> HIDE DEF x, y
<1>4. Mask(x) = Mask(y)
  BY <1>2, <1>3, MaskOnce, CapacityAssumption
<1> QED
  BY <1>4 DEF x, y

\* The two memcpy calls put byte k where the index k further on is.
LEMMA SlotIsMask ==
  ASSUME NEW i \in Index, NEW size \in 0 .. Capacity, NEW k \in 0 .. size - 1
  PROVE  /\ Slot(i, size, k) = Mask(i + k)
         /\ Slot(i, size, k) \in Index
<1>1. i + k \in 0 .. 2 * Capacity - 1
  BY CapacityAssumption DEF Index
<1>2. Slot(i, size, k) = Mask(i + k)
  BY <1>1, MaskOnce, CapacityAssumption DEF Slot, Index
<1> QED
  BY <1>2, MaskRange, CapacityAssumption DEF Index

--------------------------------------------------------------------------------
\* Sequences

\* What the users pass to write is a sequence of bytes of bounded length.
LEMMA BufferIsSeq ==
  ASSUME NEW b
  PROVE  b \in Buffers <=> b \in Seq(Byte) /\ Len(b) <= MaxSize
<1>1. ASSUME b \in Buffers
      PROVE  b \in Seq(Byte) /\ Len(b) <= MaxSize
  BY <1>1, MaxSizeAssumption DEF Buffers, SeqOf
<1>2. ASSUME b \in Seq(Byte), Len(b) <= MaxSize
      PROVE  b \in Buffers
  <2>1. Len(b) \in 0 .. MaxSize /\ b \in [1 .. Len(b) -> Byte]
    BY <1>2, MaxSizeAssumption, LenProperties
  <2> QED
    BY <2>1 DEF Buffers, SeqOf
<1> QED
  BY <1>1, <1>2

\* The empty sequence, as the initial and the reset values use it.
LEMMA NoBytes ==
  <<>> \in Buffers /\ Len(<<>>) = 0
<1>1. <<>> \in Seq(Byte) /\ Len(<<>>) = 0
  OBVIOUS
<1>2. <<>> \in Buffers <=> <<>> \in Seq(Byte) /\ Len(<<>>) <= MaxSize
  BY BufferIsSeq, Zenon
<1>3. 0 <= MaxSize
  BY MaxSizeAssumption
<1> QED
  BY <1>1, <1>2, <1>3, Zenon

\* What a store does to the history of an index.
LEMMA StoreFacts ==
  ASSUME NEW S, NEW h \in Seq(S), h # <<>>, NEW v \in S
  PROVE  /\ Store(h, v) \in Seq(S) /\ Store(h, v) # <<>>
         /\ Last(Store(h, v)) = v
         /\ Store(h, v)[1] = h[1]
         /\ \A i \in 1 .. Len(Store(h, v)) :
              \/ i \in 1 .. Len(h) /\ Store(h, v)[i] = h[i]
              \/ i = Len(Store(h, v)) /\ Store(h, v)[i] = v
<1>1. CASE v = Last(h)
  BY <1>1 DEF Store, Last
<1>2. CASE v # Last(h)
  BY <1>2, AppendProperties DEF Store, Last
<1> QED
  BY <1>1, <1>2

\* What becoming visible does to it.
LEMMA ShiftFacts ==
  ASSUME NEW S, NEW h \in Seq(S), Len(h) > 1
  PROVE  /\ Tail(h) \in Seq(S) /\ Tail(h) # <<>>
         /\ Last(Tail(h)) = Last(h)
         /\ Len(Tail(h)) = Len(h) - 1
         /\ \A i \in 1 .. Len(Tail(h)) : i + 1 \in 1 .. Len(h) /\ Tail(h)[i] = h[i + 1]
<1> DEFINE t == Tail(h)
<1>1. h # <<>> /\ Len(h) \in Nat
  OBVIOUS
<1>2. /\ t \in Seq(S)
      /\ Len(t) = Len(h) - 1
      /\ \A i \in 1 .. Len(t) : t[i] = h[i + 1]
  BY <1>1, HeadTailProperties
<1> HIDE DEF t
<1>3. t # <<>>
  BY <1>1, <1>2
<1>4. \A i \in 1 .. Len(t) : i + 1 \in 1 .. Len(h)
  BY <1>1, <1>2
<1>5. Last(t) = Last(h)
  BY <1>1, <1>2 DEF Last
<1> QED
  BY <1>2, <1>3, <1>4, <1>5 DEF t

--------------------------------------------------------------------------------
\* What the type invariant says of the values the proofs compute with

\* The newest head and tail are indices, and every length is a number.
LEMMA TypeFacts ==
  ASSUME TypeOK
  PROVE  /\ tail \in Index /\ head \in Index
         /\ Len(heads) \in Nat \ {0} /\ Len(tails) \in Nat \ {0}
         /\ \A i \in 1 .. Len(heads) : heads[i] \in Index
         /\ \A i \in 1 .. Len(tails) : tails[i] \in Index
         /\ wBuf \in Seq(Byte) /\ Len(wBuf) \in Nat /\ Len(wBuf) <= MaxSize
         /\ rBuf \in Seq(Byte) /\ Len(rBuf) \in Nat /\ Len(got) \in Nat
         /\ rSize \in Nat /\ wCopied \in Nat
<1>1. tail \in Index /\ head \in Index
  BY DEF TypeOK, tail, head, Last
<1>2. wBuf \in Seq(Byte) /\ Len(wBuf) <= MaxSize /\ rBuf \in Seq(Byte)
  BY BufferIsSeq DEF TypeOK
<1> QED
  BY <1>1, <1>2, MaxSizeAssumption DEF TypeOK

\* A queue fresh from its constructor satisfies the invariant.
THEOREM InitIsInvariant ==
  Init => IInv
<1> SUFFICES ASSUME Init PROVE IInv
  OBVIOUS
<1>1. 0 \in Index
  BY CapacityAssumption DEF Index
<1>2. <<>> \in Buffers /\ Len(<<>>) = 0
  BY NoBytes
<1>3. TypeOK
  <2>1. <<0>> \in Seq(Index) /\ <<0>> # <<>>
    BY <1>1
  <2>2. got \in Seq(Byte)
    BY DEF Init
  <2>3. rSize \in 0 .. MaxSize /\ Len(rBuf) <= rSize /\ wCopied \in 0 .. Len(wBuf)
    BY <1>2, MaxSizeAssumption DEF Init
  <2> QED
    BY <1>1, <1>2, <2>1, <2>2, <2>3 DEF Init, TypeOK
<1> QED
  BY <1>3, TypeFacts, DataRange
  DEF Init, IInv, NoCopyInProgress, HeadsInOrder, TailsInOrder, ProducerView,
      ConsumerView, CopiesIntact, NothingGotOutside, tail, head, Last

--------------------------------------------------------------------------------
\* What a step leaves alone it does not disturb

\* The histories stay ordered when neither of them changes.
LEMMA OrderFrame ==
  ASSUME HeadsInOrder, TailsInOrder, UNCHANGED <<tails, heads>>
  PROVE  HeadsInOrder' /\ TailsInOrder' /\ tail' = tail /\ head' = head
BY DEF HeadsInOrder, TailsInOrder, tail, head

\* The producer's view stays right when nothing it speaks of changes.
LEMMA ProducerFrame ==
  ASSUME ProducerView, UNCHANGED <<tails, heads, wPc, wTail, wCachedHead, wBuf>>
  PROVE  ProducerView'
BY DEF ProducerView, tail

\* The consumer's view stays right when nothing it speaks of changes.
LEMMA ConsumerFrame ==
  ASSUME ConsumerView, UNCHANGED <<tails, heads, rPc, rHead, rCachedTail, rSize, got>>
  PROVE  ConsumerView'
BY DEF ConsumerView, head

--------------------------------------------------------------------------------
\* The steps of the producer

\* The constructor of a write transaction takes a head that may be old.
LEMMA WriteBeginKeeps ==
  ASSUME IInv, WriteBegin
  PROVE  IInv'
<1> USE DEF IInv
<1>1. heads[1] \in Index /\ tail \in Index
  BY TypeFacts
<1>2. TypeOK'
  BY <1>1 DEF TypeOK, WriteBegin, shared, rtx
<1>3. HeadsInOrder' /\ TailsInOrder' /\ tail' = tail /\ head' = head
  BY OrderFrame DEF WriteBegin, shared
<1>4. ProducerView'
  <2>1. \A i \in 1 .. Len(heads) :
          AvailableData(tail, heads[i]) <= AvailableData(tail, heads[1])
    BY TypeFacts DEF HeadsInOrder
  <2>2. AvailableData(tail, heads[1]) \in Nat /\ AvailableData(tail, heads[1]) < Capacity
    BY <1>1, DataRange
  <2>3. AvailableData(wTail', tail) = 0
    BY <1>1, DataRange DEF WriteBegin
  <2> QED
    BY <1>3, <2>1, <2>2, <2>3 DEF ProducerView, WriteBegin, shared
<1>5. ConsumerView'
  BY ConsumerFrame DEF WriteBegin, shared, rtx
<1>6. NoCopyInProgress' /\ CopiesIntact' /\ NothingGotOutside'
  BY <1>3 DEF NoCopyInProgress, CopiesIntact, NothingGotOutside, WriteBegin, shared, rtx
<1> QED
  BY <1>2, <1>3, <1>4, <1>5, <1>6

\* A call of write chooses between copying and looking again.
LEMMA WriteKeeps ==
  ASSUME IInv, NEW bytes \in Buffers, Write(bytes)
  PROVE  IInv'
<1> USE DEF IInv
<1>1. wCopied = 0 /\ Len(bytes) \in Nat /\ wPc = "open"
  BY BufferIsSeq DEF NoCopyInProgress, Write
<1>2. TypeOK'
  BY <1>1 DEF TypeOK, Write, shared, rtx
<1>3. HeadsInOrder' /\ TailsInOrder' /\ tail' = tail /\ head' = head
  BY OrderFrame DEF Write, shared
<1>4. ProducerView'
  <2>1. tail \in Index /\ wTail \in Index /\ wCachedHead \in Index
    BY TypeFacts DEF TypeOK
  <2> DEFINE old == AvailableData(tail, wCachedHead)
             new == AvailableData(wTail, tail)
  <2>2. old \in Nat /\ new \in Nat /\ old + new < Capacity
    BY <1>1, <2>1, DataRange DEF ProducerView
  <2>3. AvailableSpace(wCachedHead, wTail) = Capacity - 1 - (old + new)
    BY <2>1, <2>2, SpaceIsComplement, DistancesAdd
  <2>4. wPc' = "copy" => old + new + Len(bytes) < Capacity
    BY <1>1, <2>2, <2>3, CapacityAssumption DEF Write
  <2> QED
    BY <1>1, <1>3, <2>2, <2>4 DEF ProducerView, Write, shared
<1>5. ConsumerView'
  BY ConsumerFrame DEF Write, shared, rtx
<1>6. NoCopyInProgress' /\ CopiesIntact' /\ NothingGotOutside'
  BY <1>1, <1>3 DEF NoCopyInProgress, CopiesIntact, NothingGotOutside, Write, shared, rtx
<1> QED
  BY <1>2, <1>3, <1>4, <1>5, <1>6

\* The reloaded head may be newer, never older, than the cached one.
LEMMA WriteSyncKeeps ==
  ASSUME IInv, WriteSync
  PROVE  IInv'
<1> USE DEF IInv
<1>1. /\ heads[1] \in Index /\ tail \in Index /\ wTail \in Index /\ wCachedHead \in Index
      /\ 1 \in 1 .. Len(heads) /\ Len(wBuf) \in Nat
  BY TypeFacts DEF TypeOK
<1>2. TypeOK'
  BY <1>1 DEF TypeOK, WriteSync, shared, rtx
<1>3. HeadsInOrder' /\ TailsInOrder' /\ tail' = tail /\ head' = head
  BY OrderFrame DEF WriteSync, shared
<1>4. ProducerView'
  <2> DEFINE old == AvailableData(tail, heads[1])
             new == AvailableData(wTail, tail)
  <2>1. \A i \in 1 .. Len(heads) : AvailableData(tail, heads[i]) <= old
    BY <1>1 DEF HeadsInOrder
  <2>2. old \in Nat /\ new \in Nat /\ AvailableData(tail, wCachedHead) \in Nat
    BY <1>1, DataRange
  <2>3. old + new < Capacity
    BY <1>1, <2>2, CapacityAssumption DEF ProducerView, WriteSync
  <2>4. AvailableSpace(wCachedHead', wTail) = Capacity - 1 - (old + new)
    BY <1>1, <2>3, SpaceIsComplement, DistancesAdd DEF WriteSync
  <2>5. wPc' = "copy" => old + new + Len(wBuf) < Capacity
    BY <1>1, <2>2, <2>4, CapacityAssumption DEF WriteSync
  <2> QED
    BY <1>1, <1>3, <2>1, <2>2, <2>3, <2>5 DEF ProducerView, WriteSync, shared
<1>5. ConsumerView'
  BY ConsumerFrame DEF WriteSync, shared, rtx
<1>6. NoCopyInProgress' /\ CopiesIntact' /\ NothingGotOutside'
  BY <1>3 DEF NoCopyInProgress, CopiesIntact, NothingGotOutside, WriteSync, shared, rtx
<1> QED
  BY <1>2, <1>3, <1>4, <1>5, <1>6

\* A refused call changes only the hint and its own transaction.
LEMMA WriteRefuseKeeps ==
  ASSUME IInv, NEW core \in Core, WriteRefuse(core)
  PROVE  IInv'
<1> USE DEF IInv
<1>1. wCopied = 0 /\ wPc = "full"
  BY DEF NoCopyInProgress, WriteRefuse
<1>2. TypeOK'
  BY <1>1, NoBytes DEF TypeOK, WriteRefuse, rtx
<1>3. HeadsInOrder' /\ TailsInOrder' /\ tail' = tail /\ head' = head
  BY OrderFrame DEF WriteRefuse
<1>4. ProducerView'
  BY <1>1, <1>3 DEF ProducerView, WriteRefuse
<1>5. ConsumerView'
  BY ConsumerFrame DEF WriteRefuse, rtx
<1>6. NoCopyInProgress' /\ CopiesIntact' /\ NothingGotOutside'
  BY <1>1, <1>3 DEF NoCopyInProgress, CopiesIntact, NothingGotOutside, WriteRefuse, rtx
<1> QED
  BY <1>2, <1>3, <1>4, <1>5, <1>6

\* What both views say together: the bytes from head up to wTail, and the
\* block being copied behind them, fit in the storage.
LEMMA WriteFits ==
  ASSUME IInv, wPc # "none"
  PROVE  /\ AvailableData(tail, head) \in Nat /\ AvailableData(wTail, tail) \in Nat
         /\ AvailableData(wTail, head) = AvailableData(tail, head) + AvailableData(wTail, tail)
         /\ AvailableData(wTail, head) < Capacity
         /\ wPc = "copy" => AvailableData(wTail, head) + Len(wBuf) < Capacity
<1> USE DEF IInv
<1>1. /\ tail \in Index /\ head \in Index /\ wTail \in Index /\ wCachedHead \in Index
      /\ Len(wBuf) \in Nat
  BY TypeFacts DEF TypeOK
<1>2. AvailableData(tail, head) <= AvailableData(tail, wCachedHead)
  BY TypeFacts DEF ProducerView, head, Last
<1>3. /\ AvailableData(tail, head) \in Nat /\ AvailableData(wTail, tail) \in Nat
      /\ AvailableData(tail, wCachedHead) \in Nat
  BY <1>1, DataRange
<1>4. /\ AvailableData(tail, head) + AvailableData(wTail, tail) < Capacity
      /\ wPc = "copy" =>
           AvailableData(tail, head) + AvailableData(wTail, tail) + Len(wBuf) < Capacity
  BY <1>1, <1>2, <1>3, CapacityAssumption DEF ProducerView
<1> QED
  BY <1>1, <1>3, <1>4, DistancesAdd

\* The block being copied in shares no byte with the bytes from head to wTail.
LEMMA WriteIsClear ==
  ASSUME IInv, wPc = "copy",
         NEW k \in 0 .. Len(wBuf) - 1, NEW j \in 0 .. AvailableData(wTail, head) - 1
  PROVE  Mask(wTail + k) # Mask(head + j)
<1> DEFINE d == AvailableData(wTail, head)
<1>1. head \in Index /\ wTail \in Index /\ Len(wBuf) \in Nat
  BY TypeFacts DEF IInv, TypeOK
<1>2. d \in Nat /\ d + Len(wBuf) < Capacity
  BY <1>1, WriteFits, DataRange
<1>3. Mask(wTail + k) = Mask(head + (d + k))
  BY <1>1, <1>2, OffsetsAdd, CapacityAssumption
<1>4. d + k \in 0 .. Capacity - 1 /\ j \in 0 .. Capacity - 1 /\ d + k # j
  BY <1>1, <1>2, CapacityAssumption
<1> HIDE DEF d
<1> QED
  BY <1>1, <1>3, <1>4, OffsetsDiffer

\* What the block being copied out, and the bytes returned before it, cover:
\* bytes between head and tail.
LEMMA ReadFits ==
  ASSUME IInv, rPc # "none"
  PROVE  /\ Len(got) + (IF rPc = "copy" THEN rSize ELSE 0) <= AvailableData(tail, head)
         /\ AvailableData(tail, head) \in Nat /\ AvailableData(tail, head) < Capacity
         /\ \A k \in Nat : AvailableData(rHead, head) + k < Capacity
              => Mask(rHead + k) = Mask(head + (Len(got) + k))
<1> USE DEF IInv
<1>1. /\ tail \in Index /\ head \in Index /\ rHead \in Index /\ rCachedTail \in Index
      /\ rSize \in Nat /\ Len(got) \in Nat
  BY TypeFacts DEF TypeOK
<1>2. AvailableData(rCachedTail, head) <= AvailableData(tail, head)
  BY TypeFacts DEF ConsumerView, tail, Last
<1>3. /\ AvailableData(tail, head) \in Nat /\ AvailableData(rCachedTail, head) \in Nat
      /\ AvailableData(tail, head) < Capacity
  BY <1>1, DataRange
<1>4. Len(got) + (IF rPc = "copy" THEN rSize ELSE 0) <= AvailableData(tail, head)
  BY <1>1, <1>2, <1>3 DEF ConsumerView
<1>5. AvailableData(rHead, head) = Len(got)
  BY DEF ConsumerView
<1>6. ASSUME NEW k \in Nat, AvailableData(rHead, head) + k < Capacity
      PROVE  Mask(rHead + k) = Mask(head + (Len(got) + k))
  BY <1>1, <1>5, <1>6, OffsetsAdd
<1> QED
  BY <1>3, <1>4, <1>6

\* A copied byte changes nothing from head up to wTail.
LEMMA CopyInElsewhere ==
  ASSUME IInv, CopyIn, NEW j \in 0 .. AvailableData(wTail, head) - 1
  PROVE  storage'[Mask(head + j)] = storage[Mask(head + j)]
<1> DEFINE slot == Slot(wTail, Len(wBuf), wCopied)
<1>1. /\ wPc = "copy" /\ Len(wBuf) \in Nat /\ wCopied \in 0 .. Len(wBuf) - 1
      /\ wTail \in Index /\ head \in Index
  BY TypeFacts DEF IInv, TypeOK, CopyIn
<1>2. Len(wBuf) \in 0 .. Capacity
  BY <1>1, WriteFits, DataRange, CapacityAssumption
<1>3. slot = Mask(wTail + wCopied)
  BY <1>1, <1>2, SlotIsMask
<1> HIDE DEF slot
<1>4. storage' = [storage EXCEPT ![slot] = wBuf[wCopied + 1]]
  BY DEF CopyIn, slot
<1>5. Mask(head + j) # slot
  BY <1>1, <1>3, WriteIsClear
<1>6. head + j \in Int
  BY <1>1, WriteFits, CapacityAssumption DEF Index
<1>7. Mask(head + j) \in Index
  BY <1>6, MaskRange
<1> QED
  BY <1>4, <1>5, <1>7 DEF IInv, TypeOK

\* The byte copied in disturbs nothing the consumer may still read.
LEMMA CopyInKeeps ==
  ASSUME IInv, CopyIn
  PROVE  IInv'
<1> USE DEF IInv
<1> DEFINE slot == Slot(wTail, Len(wBuf), wCopied)
<1>1. /\ wPc = "copy" /\ Len(wBuf) \in Nat /\ wCopied \in 0 .. Len(wBuf) - 1
      /\ wTail \in Index /\ head \in Index /\ wBuf \in Seq(Byte)
  BY TypeFacts DEF TypeOK, CopyIn
<1>2. Len(wBuf) \in 0 .. Capacity
  BY <1>1, WriteFits, DataRange, CapacityAssumption
<1>3. slot = Mask(wTail + wCopied) /\ slot \in Index
  BY <1>1, <1>2, SlotIsMask
<1> HIDE DEF slot
<1>4. storage' = [storage EXCEPT ![slot] = wBuf[wCopied + 1]]
  BY DEF CopyIn, slot
<1>5. TypeOK'
  <2>1. wBuf[wCopied + 1] \in Byte
    BY <1>1
  <2>2. wCopied' \in 0 .. Len(wBuf)
    BY <1>1 DEF CopyIn
  <2> QED
    BY <1>4, <2>1, <2>2 DEF TypeOK, CopyIn, rtx
<1>6. HeadsInOrder' /\ TailsInOrder' /\ tail' = tail /\ head' = head
  BY OrderFrame DEF CopyIn
<1>7. ProducerView' /\ ConsumerView'
  BY ProducerFrame, ConsumerFrame DEF CopyIn, rtx
<1>8. NoCopyInProgress' /\ NothingGotOutside'
  BY <1>1 DEF NoCopyInProgress, NothingGotOutside, CopyIn, rtx
<1>9. CopiesIntact'
  <2>1. \A j \in 0 .. AvailableData(wTail, head) - 1 : storage'[Mask(head + j)] = storage[Mask(head + j)]
    BY CopyInElsewhere
  <2>2. AvailableData(tail, head) <= AvailableData(wTail, head) /\ AvailableData(wTail, head) \in Nat
    BY <1>1, WriteFits
  <2>3. ASSUME NEW k \in 1 .. wCopied'
        PROVE  storage'[Mask(wTail + k - 1)] = wBuf[k]
    <3>1. wCopied' = wCopied + 1
      BY DEF CopyIn
    <3>2. CASE k = wCopied + 1
      BY <1>1, <1>3, <1>4, <3>2 DEF TypeOK, Index
    <3>3. CASE k <= wCopied
      <4>1. k - 1 \in 0 .. Capacity - 1 /\ wCopied \in 0 .. Capacity - 1 /\ k - 1 # wCopied
        BY <1>1, <1>2, <3>3, CapacityAssumption
      <4>2. Mask(wTail + (k - 1)) # slot
        BY <1>1, <1>3, <4>1, OffsetsDiffer
      <4>3. wTail + k - 1 = wTail + (k - 1)
        BY <1>1 DEF Index
      <4>4. Mask(wTail + k - 1) \in Index
        <5>1. wTail + k - 1 \in Int
          BY <1>1, CapacityAssumption DEF Index
        <5> QED
          BY <5>1, MaskRange
      <4>5. storage[Mask(wTail + k - 1)] = wBuf[k]
        BY <1>1, <3>3 DEF CopiesIntact
      <4> QED
        BY <1>4, <4>2, <4>3, <4>4, <4>5 DEF TypeOK
    <3> QED
      BY <1>1, <3>1, <3>2, <3>3
  <2>4. ASSUME rPc = "copy", NEW k \in 1 .. Len(rBuf)
        PROVE  rBuf[k] = storage'[Mask(rHead + k - 1)]
    <3>1. /\ Len(rBuf) \in Nat /\ Len(rBuf) <= rSize /\ rSize \in Nat /\ Len(got) \in Nat
          /\ rHead \in Index
      BY TypeFacts DEF TypeOK
    <3>2. /\ Len(got) + (k - 1) < AvailableData(tail, head) /\ AvailableData(tail, head) < Capacity
          /\ AvailableData(rHead, head) = Len(got) /\ AvailableData(tail, head) \in Nat
      BY <2>4, <3>1, ReadFits DEF ConsumerView
    <3>3. Mask(rHead + (k - 1)) = Mask(head + (Len(got) + (k - 1)))
      <4>1. k - 1 \in Nat /\ AvailableData(rHead, head) + (k - 1) < Capacity
        BY <3>1, <3>2, CapacityAssumption
      <4> QED
        BY <2>4, <4>1, ReadFits
    <3>4. rHead + k - 1 = rHead + (k - 1)
      BY <3>1 DEF Index
    <3>5. Len(got) + (k - 1) \in 0 .. AvailableData(wTail, head) - 1
      BY <2>2, <3>1, <3>2
    <3>6. rBuf[k] = storage[Mask(rHead + k - 1)]
      BY <2>4 DEF CopiesIntact
    <3> QED
      BY <2>1, <3>3, <3>4, <3>5, <3>6
  <2>5. ASSUME NEW k \in 1 .. Len(got)
        PROVE  got[k] = storage'[Mask(head + k - 1)]
    <3>1. rPc # "none" /\ Len(got) \in Nat /\ rSize \in Nat
      BY TypeFacts DEF NothingGotOutside
    <3>2. k - 1 \in 0 .. AvailableData(wTail, head) - 1
      BY <2>2, <3>1, ReadFits
    <3>3. head + k - 1 = head + (k - 1)
      BY <1>1 DEF Index
    <3> QED
      BY <2>1, <3>2, <3>3 DEF CopiesIntact
  <2> QED
    BY <1>1, <1>6, <2>3, <2>4, <2>5 DEF CopiesIntact, CopyIn, rtx
<1> QED
  BY <1>5, <1>6, <1>7, <1>8, <1>9

\* The block copied becomes part of what the transaction has written.
LEMMA WriteDoneKeeps ==
  ASSUME IInv, WriteDone
  PROVE  IInv'
<1> USE DEF IInv
<1>1. /\ wPc = "copy" /\ Len(wBuf) \in Nat
      /\ tail \in Index /\ wTail \in Index /\ wCachedHead \in Index
  BY TypeFacts DEF TypeOK, WriteDone
<1> DEFINE old == AvailableData(tail, wCachedHead)
           new == AvailableData(wTail, tail)
<1>2. old \in Nat /\ new \in Nat /\ old + new + Len(wBuf) < Capacity
  BY <1>1, DataRange DEF ProducerView
<1>3. wTail' \in Index /\ AvailableData(wTail', tail) = new + Len(wBuf)
  <2>1. new + Len(wBuf) < Capacity
    BY <1>1, <1>2, CapacityAssumption
  <2> QED
    BY <1>1, <2>1, AdvanceAdds DEF WriteDone
<1>4. TypeOK'
  BY <1>3, NoBytes DEF TypeOK, WriteDone, rtx
<1>5. HeadsInOrder' /\ TailsInOrder' /\ tail' = tail /\ head' = head
  BY OrderFrame DEF WriteDone
<1>6. ProducerView'
  BY <1>1, <1>2, <1>3, <1>5 DEF ProducerView, WriteDone
<1>7. ConsumerView'
  BY ConsumerFrame DEF WriteDone, rtx
<1>8. NoCopyInProgress' /\ CopiesIntact' /\ NothingGotOutside'
  BY <1>5 DEF NoCopyInProgress, CopiesIntact, NothingGotOutside, WriteDone, rtx
<1> QED
  BY <1>4, <1>5, <1>6, <1>7, <1>8

\* invalidate only marks the transaction.
LEMMA WriteInvalidateKeeps ==
  ASSUME IInv, WriteInvalidate
  PROVE  IInv'
<1> USE DEF IInv
<1>1. TypeOK'
  BY DEF TypeOK, WriteInvalidate, shared, rtx
<1>2. HeadsInOrder' /\ TailsInOrder' /\ tail' = tail /\ head' = head
  BY OrderFrame DEF WriteInvalidate, shared
<1>3. ProducerView' /\ ConsumerView'
  BY ProducerFrame, ConsumerFrame DEF WriteInvalidate, shared, rtx
<1>4. NoCopyInProgress' /\ CopiesIntact' /\ NothingGotOutside'
  BY <1>2 DEF NoCopyInProgress, CopiesIntact, NothingGotOutside, WriteInvalidate, shared, rtx
<1> QED
  BY <1>1, <1>2, <1>3, <1>4

\* A transaction that is gone has members of the right types.
LEMMA DroppedWriteType ==
  ASSUME DropWriteTx
  PROVE  /\ wPc' \in {"none", "open", "sync", "full", "copy"}
         /\ wTail' \in Index /\ wCachedHead' \in Index
         /\ wInvalidated' \in BOOLEAN
         /\ wBuf' \in Buffers /\ wCopied' \in 0 .. Len(wBuf')
<1>1. 0 \in Index
  BY CapacityAssumption DEF Index
<1>2. wInvalidated' \in BOOLEAN
  BY Zenon DEF DropWriteTx
<1>3. wBuf' \in Buffers /\ wCopied' \in 0 .. Len(wBuf')
  BY NoBytes DEF DropWriteTx
<1> QED
  BY <1>1, <1>2, <1>3 DEF DropWriteTx

\* The commit adds the transaction's bytes to those the consumer may read.
LEMMA WriteEndKeeps ==
  ASSUME IInv, WriteEnd
  PROVE  IInv'
<1> USE DEF IInv
<1>1. /\ tail \in Index /\ head \in Index /\ wTail \in Index /\ wCachedHead \in Index
      /\ tails \in Seq(Index) /\ tails # <<>>
      /\ \A i \in 1 .. Len(heads) : heads[i] \in Index
      /\ \A i \in 1 .. Len(tails) : tails[i] \in Index
  BY TypeFacts DEF TypeOK
<1>2. /\ wPc = "open" /\ heads' = heads /\ head' = head
      /\ wPc' = "none" /\ wBuf' = <<>> /\ wCopied' = 0
      /\ UNCHANGED rtx
  BY DEF WriteEnd, DropWriteTx, head
<1>3. /\ tails' \in Seq(Index) /\ tails' # <<>>
      /\ tail' = IF wInvalidated THEN tail ELSE wTail
      /\ \A i \in 1 .. Len(tails') :
           \/ i \in 1 .. Len(tails) /\ tails'[i] = tails[i]
           \/ i = Len(tails') /\ tails'[i] = tail'
  <2>1. CASE wInvalidated
    BY <1>1, <2>1 DEF WriteEnd, tail
  <2>2. CASE ~wInvalidated
    <3> DEFINE h == Store(tails, wTail)
    <3>1. tails' = h
      BY <2>2 DEF WriteEnd
    <3>2. wTail \in Index
      BY <1>1
    <3>3. /\ h \in Seq(Index) /\ h # <<>> /\ Last(h) = wTail
          /\ \A i \in 1 .. Len(h) :
               \/ i \in 1 .. Len(tails) /\ h[i] = tails[i]
               \/ i = Len(h) /\ h[i] = wTail
      BY <1>1, <3>2, StoreFacts
    <3> HIDE DEF h
    <3>4. tail' = wTail
      BY <3>1, <3>3, Zenon DEF tail
    <3> QED
      BY <2>2, <3>1, <3>3, <3>4, Zenon
  <2> QED
    BY <2>1, <2>2
<1>4. TypeOK'
  BY <1>3, DroppedWriteType DEF TypeOK, WriteEnd, rtx
<1>5. /\ AvailableData(tail, head) \in Nat /\ AvailableData(wTail, tail) \in Nat
      /\ AvailableData(wTail, head) = AvailableData(tail, head) + AvailableData(wTail, tail)
  BY <1>2, WriteFits
<1>6. AvailableData(tail', head) \in Nat /\ AvailableData(tail, head) <= AvailableData(tail', head)
  BY <1>3, <1>5
<1>7. HeadsInOrder'
  <2>1. CASE wInvalidated
    BY <1>2, <1>3, <2>1 DEF HeadsInOrder
  <2>2. CASE ~wInvalidated
    <3>1. ASSUME NEW i \in 1 .. Len(heads)
          PROVE  /\ AvailableData(wTail, heads[i]) =
                      AvailableData(tail, heads[i]) + AvailableData(wTail, tail)
                 /\ AvailableData(tail, heads[i]) \in Nat
      <4>1. /\ AvailableData(tail, heads[i]) \in Nat
            /\ AvailableData(tail, wCachedHead) \in Nat
            /\ AvailableData(wTail, tail) \in Nat
        BY <1>1, DataRange
      <4>2. AvailableData(tail, heads[i]) + AvailableData(wTail, tail) < Capacity
        BY <1>2, <4>1, CapacityAssumption DEF ProducerView
      <4> QED
        BY <1>1, <4>1, <4>2, DistancesAdd
    <3>2. tail' = wTail
      BY <1>3, <2>2
    <3> SUFFICES ASSUME NEW i \in 1 .. Len(heads), NEW j \in 1 .. Len(heads), i <= j
                 PROVE  AvailableData(wTail, heads[j]) <= AvailableData(wTail, heads[i])
      BY <1>2, <3>2 DEF HeadsInOrder
    <3>3. AvailableData(tail, heads[j]) <= AvailableData(tail, heads[i])
      BY DEF HeadsInOrder
    <3> QED
      BY <1>5, <3>1, <3>3
  <2> QED
    BY <2>1, <2>2
<1>8. \A i \in 1 .. Len(tails) :
        /\ AvailableData(tails[i], head) \in Nat
        /\ AvailableData(tails[i], head) <= AvailableData(tail, head)
  <2> SUFFICES ASSUME NEW i \in 1 .. Len(tails)
               PROVE  /\ AvailableData(tails[i], head) \in Nat
                      /\ AvailableData(tails[i], head) <= AvailableData(tail, head)
    OBVIOUS
  <2>1. AvailableData(tails[i], head) \in Nat
    BY <1>1, DataRange
  <2>2. Len(tails) \in 1 .. Len(tails) /\ i <= Len(tails)
    BY TypeFacts
  <2> QED
    BY <2>1, <2>2 DEF TailsInOrder, tail, Last
<1>9. TailsInOrder'
  <2> SUFFICES ASSUME NEW i \in 1 .. Len(tails'), NEW j \in 1 .. Len(tails'), i <= j
               PROVE  AvailableData(tails'[i], head) <= AvailableData(tails'[j], head)
    BY <1>2 DEF TailsInOrder
  <2>1. Len(tails) \in Nat /\ Len(tails') \in Nat
    BY <1>1, <1>3
  <2>2. CASE tails'[j] = tail'
    <3>1. AvailableData(tails'[i], head) <= AvailableData(tail', head)
      <4>1. CASE i \in 1 .. Len(tails) /\ tails'[i] = tails[i]
        BY <1>5, <1>6, <1>8, <4>1
      <4>2. CASE tails'[i] = tail'
        BY <1>6, <4>2
      <4> QED
        BY <1>3, <4>1, <4>2
    <3> QED
      BY <2>2, <3>1
  <2>3. CASE j \in 1 .. Len(tails) /\ tails'[j] = tails[j] /\ tails'[j] # tail'
    <3>1. i # Len(tails') \/ tails'[i] # tail'
      BY <2>1, <2>3, <1>3
    <3>2. i \in 1 .. Len(tails) /\ tails'[i] = tails[i]
      BY <1>3, <3>1
    <3> QED
      BY <2>3, <3>2 DEF TailsInOrder
  <2> QED
    BY <1>3, <2>2, <2>3
<1>10. ConsumerView'
  <2>1. ASSUME rPc # "none", NEW i \in 1 .. Len(tails')
        PROVE  AvailableData(rCachedTail, head) <= AvailableData(tails'[i], head)
    <3>1. AvailableData(rCachedTail, head) <= AvailableData(tail, head)
      BY <2>1, TypeFacts DEF ConsumerView, tail, Last
    <3>2. AvailableData(rCachedTail, head) \in Nat
      BY <1>1, DataRange DEF TypeOK
    <3> QED
      BY <1>3, <1>5, <1>6, <2>1, <3>1, <3>2 DEF ConsumerView
  <2> QED
    BY <1>2, <2>1 DEF ConsumerView, rtx
<1>11. ProducerView' /\ NoCopyInProgress' /\ CopiesIntact' /\ NothingGotOutside'
  BY <1>2 DEF ProducerView, NoCopyInProgress, CopiesIntact, NothingGotOutside, WriteEnd, rtx
<1> QED
  BY <1>4, <1>7, <1>9, <1>10, <1>11

\* A producer that dies loses its transaction and nothing else.
LEMMA ProducerRelaunchKeeps ==
  ASSUME IInv, ProducerRelaunch
  PROVE  IInv'
<1> USE DEF IInv
<1>1. TypeOK'
  BY DroppedWriteType DEF TypeOK, ProducerRelaunch, rtx
<1>2. HeadsInOrder' /\ TailsInOrder' /\ tail' = tail /\ head' = head
  BY OrderFrame DEF ProducerRelaunch
<1>3. ProducerView' /\ ConsumerView'
  BY ConsumerFrame DEF ProducerView, ProducerRelaunch, DropWriteTx, rtx
<1>4. NoCopyInProgress' /\ CopiesIntact' /\ NothingGotOutside'
  BY <1>2 DEF NoCopyInProgress, CopiesIntact, NothingGotOutside, ProducerRelaunch, DropWriteTx, rtx
<1> QED
  BY <1>1, <1>2, <1>3, <1>4

--------------------------------------------------------------------------------
\* The steps of the consumer

\* The constructor of a read transaction takes a tail that may be old.
LEMMA ReadBeginKeeps ==
  ASSUME IInv, ReadBegin
  PROVE  IInv'
<1> USE DEF IInv
<1>1. tails[1] \in Index /\ head \in Index /\ 1 \in 1 .. Len(tails) /\ got = <<>>
  BY TypeFacts DEF NothingGotOutside, ReadBegin
<1>2. TypeOK'
  BY <1>1 DEF TypeOK, ReadBegin, shared, wtx
<1>3. HeadsInOrder' /\ TailsInOrder' /\ tail' = tail /\ head' = head
  BY OrderFrame DEF ReadBegin, shared
<1>4. ProducerView'
  BY ProducerFrame DEF ReadBegin, shared, wtx
<1>5. ConsumerView'
  <2>1. \A i \in 1 .. Len(tails) :
          AvailableData(tails[1], head) <= AvailableData(tails[i], head)
    BY <1>1 DEF TailsInOrder
  <2>2. AvailableData(tails[1], head) \in Nat /\ AvailableData(rHead', head) = 0
    BY <1>1, DataRange DEF ReadBegin
  <2>3. Len(got') = 0
    BY <1>1, NoBytes DEF ReadBegin
  <2> QED
    BY <1>3, <2>1, <2>2, <2>3 DEF ConsumerView, ReadBegin, shared
<1>6. NoCopyInProgress' /\ CopiesIntact' /\ NothingGotOutside'
  BY <1>1, <1>3 DEF NoCopyInProgress, CopiesIntact, NothingGotOutside, ReadBegin, shared, wtx
<1> QED
  BY <1>2, <1>3, <1>4, <1>5, <1>6

\* A call of read chooses between copying and looking again.
LEMMA ReadKeeps ==
  ASSUME IInv, NEW size \in 0 .. MaxSize, Read(size)
  PROVE  IInv'
<1> USE DEF IInv
<1>1. rBuf = <<>> /\ Len(rBuf) = 0 /\ rPc = "open" /\ size \in Nat
  BY NoBytes, MaxSizeAssumption DEF NoCopyInProgress, Read
<1>2. TypeOK'
  BY <1>1, MaxSizeAssumption DEF TypeOK, Read, shared, wtx
<1>3. HeadsInOrder' /\ TailsInOrder' /\ tail' = tail /\ head' = head
  BY OrderFrame DEF Read, shared
<1>4. ProducerView'
  BY ProducerFrame DEF Read, shared, wtx
<1>5. ConsumerView'
  <2>1. /\ head \in Index /\ rHead \in Index /\ rCachedTail \in Index /\ Len(got) \in Nat
        /\ AvailableData(rHead, head) = Len(got)
        /\ Len(got) <= AvailableData(rCachedTail, head)
    BY <1>1, TypeFacts DEF TypeOK, ConsumerView
  <2>2. /\ AvailableData(rCachedTail, head) \in Nat
        /\ AvailableData(rCachedTail, rHead) = AvailableData(rCachedTail, head) - Len(got)
    BY <2>1, DataRange, DistancesSubtract
  <2>3. rPc' = "copy" => Len(got) + size <= AvailableData(rCachedTail, head)
    BY <1>1, <2>1, <2>2 DEF Read
  <2> QED
    BY <1>1, <1>3, <2>1, <2>3 DEF ConsumerView, Read, shared
<1>6. NoCopyInProgress' /\ CopiesIntact' /\ NothingGotOutside'
  BY <1>1, <1>3 DEF NoCopyInProgress, CopiesIntact, NothingGotOutside, Read, shared, wtx
<1> QED
  BY <1>2, <1>3, <1>4, <1>5, <1>6

\* The reloaded tail may be newer, never older, than the cached one.
LEMMA ReadSyncKeeps ==
  ASSUME IInv, ReadSync
  PROVE  IInv'
<1> USE DEF IInv
<1>1. /\ tails[1] \in Index /\ head \in Index /\ rHead \in Index /\ rCachedTail \in Index
      /\ 1 \in 1 .. Len(tails) /\ rSize \in Nat /\ Len(got) \in Nat
      /\ rBuf = <<>> /\ Len(rBuf) = 0 /\ rPc = "sync"
  BY TypeFacts, NoBytes DEF TypeOK, NoCopyInProgress, ReadSync
<1>2. TypeOK'
  BY <1>1 DEF TypeOK, ReadSync, shared, wtx
<1>3. HeadsInOrder' /\ TailsInOrder' /\ tail' = tail /\ head' = head
  BY OrderFrame DEF ReadSync, shared
<1>4. ProducerView'
  BY ProducerFrame DEF ReadSync, shared, wtx
<1>5. ConsumerView'
  <2> DEFINE old == AvailableData(tails[1], head)
  <2>1. \A i \in 1 .. Len(tails) : old <= AvailableData(tails[i], head)
    BY <1>1 DEF TailsInOrder
  <2>2. old \in Nat /\ AvailableData(rCachedTail, head) \in Nat
    BY <1>1, DataRange
  <2>3. AvailableData(rHead, head) = Len(got) /\ Len(got) <= old
    BY <1>1, <2>2 DEF ConsumerView
  <2>4. AvailableData(rCachedTail', rHead) = old - Len(got)
    BY <1>1, <2>3, DistancesSubtract DEF ReadSync
  <2>5. rPc' = "copy" => Len(got) + rSize <= old
    BY <1>1, <2>2, <2>4 DEF ReadSync
  <2> QED
    BY <1>1, <1>3, <2>1, <2>2, <2>3, <2>5 DEF ConsumerView, ReadSync, shared
<1>6. NoCopyInProgress' /\ CopiesIntact' /\ NothingGotOutside'
  BY <1>1, <1>3 DEF NoCopyInProgress, CopiesIntact, NothingGotOutside, ReadSync, shared, wtx
<1> QED
  BY <1>2, <1>3, <1>4, <1>5, <1>6

\* A refused call changes only the hint and its own transaction.
LEMMA ReadRefuseKeeps ==
  ASSUME IInv, NEW core \in Core, ReadRefuse(core)
  PROVE  IInv'
<1> USE DEF IInv
<1>1. rBuf = <<>> /\ Len(rBuf) = 0 /\ rPc = "empty"
  BY NoBytes DEF NoCopyInProgress, ReadRefuse
<1>2. TypeOK'
  BY <1>1, MaxSizeAssumption DEF TypeOK, ReadRefuse, wtx
<1>3. HeadsInOrder' /\ TailsInOrder' /\ tail' = tail /\ head' = head
  BY OrderFrame DEF ReadRefuse
<1>4. ProducerView'
  BY ProducerFrame DEF ReadRefuse, wtx
<1>5. ConsumerView'
  BY <1>1, <1>3 DEF ConsumerView, ReadRefuse
<1>6. NoCopyInProgress' /\ CopiesIntact' /\ NothingGotOutside'
  BY <1>1, <1>3 DEF NoCopyInProgress, CopiesIntact, NothingGotOutside, ReadRefuse, wtx
<1> QED
  BY <1>2, <1>3, <1>4, <1>5, <1>6

\* The byte copied out is the one the storage holds at its place.
LEMMA CopyOutKeeps ==
  ASSUME IInv, CopyOut
  PROVE  IInv'
<1> USE DEF IInv
<1>1. /\ rPc = "copy" /\ rSize \in Nat /\ rSize <= MaxSize /\ Len(rBuf) \in 0 .. rSize - 1
      /\ rHead \in Index /\ rBuf \in Seq(Byte) /\ Len(got) \in Nat
  BY TypeFacts, MaxSizeAssumption DEF TypeOK, CopyOut
<1>2. rSize \in 0 .. Capacity
  BY <1>1, ReadFits, CapacityAssumption
<1> DEFINE slot == Slot(rHead, rSize, Len(rBuf))
           b    == storage[slot]
<1>3. slot = Mask(rHead + Len(rBuf)) /\ slot \in Index
  BY <1>1, <1>2, SlotIsMask
<1>4. b \in Byte
  BY <1>3 DEF TypeOK
<1> HIDE DEF b
<1>5. rBuf' = Append(rBuf, b)
  BY DEF CopyOut, b
<1>6. /\ rBuf' \in Seq(Byte) /\ Len(rBuf') = Len(rBuf) + 1
      /\ \A k \in 1 .. Len(rBuf) : rBuf'[k] = rBuf[k]
      /\ rBuf'[Len(rBuf) + 1] = b
  BY <1>1, <1>4, <1>5, AppendProperties
<1>7. TypeOK'
  <2>1. rBuf' \in Buffers
    BY <1>1, <1>6, BufferIsSeq, MaxSizeAssumption
  <2>2. Len(rBuf') <= rSize
    BY <1>1, <1>6
  <2> QED
    BY <2>1, <2>2 DEF TypeOK, CopyOut, shared, wtx
<1>8. HeadsInOrder' /\ TailsInOrder' /\ tail' = tail /\ head' = head
  BY OrderFrame DEF CopyOut, shared
<1>9. ProducerView' /\ ConsumerView'
  BY ProducerFrame, ConsumerFrame DEF CopyOut, shared, wtx
<1>10. NoCopyInProgress' /\ NothingGotOutside'
  BY <1>1 DEF NoCopyInProgress, NothingGotOutside, CopyOut, wtx
<1>11. CopiesIntact'
  <2>1. ASSUME NEW k \in 1 .. Len(rBuf')
        PROVE  rBuf'[k] = storage[Mask(rHead + k - 1)]
    <3>1. CASE k = Len(rBuf) + 1
      <4>1. rHead + k - 1 = rHead + Len(rBuf)
        BY <1>1, <3>1, CapacityAssumption DEF Index
      <4> QED
        BY <1>3, <1>6, <3>1, <4>1 DEF b
    <3>2. CASE k \in 1 .. Len(rBuf)
      BY <1>1, <1>6, <3>2 DEF CopiesIntact
    <3> QED
      BY <1>1, <1>6, <3>1, <3>2
  <2> QED
    BY <1>8, <2>1 DEF CopiesIntact, CopyOut, shared, wtx
<1> QED
  BY <1>7, <1>8, <1>9, <1>10, <1>11

\* The block copied becomes part of what the transaction has returned.
LEMMA ReadDoneKeeps ==
  ASSUME IInv, ReadDone
  PROVE  IInv'
<1> USE DEF IInv
<1>1. /\ rPc = "copy" /\ rSize \in Nat /\ Len(rBuf) = rSize /\ Len(got) \in Nat
      /\ head \in Index /\ rHead \in Index /\ rCachedTail \in Index
      /\ rBuf \in Seq(Byte) /\ got \in Seq(Byte)
  BY TypeFacts DEF TypeOK, ReadDone
<1>2. /\ AvailableData(rHead, head) = Len(got)
      /\ Len(got) + rSize <= AvailableData(rCachedTail, head)
      /\ AvailableData(rCachedTail, head) \in Nat
      /\ AvailableData(rCachedTail, head) < Capacity
  BY <1>1, DataRange DEF ConsumerView
<1>3. rHead' \in Index /\ AvailableData(rHead', head) = Len(got) + rSize
  <2>1. AvailableData(rHead, head) + rSize < Capacity
    BY <1>1, <1>2, CapacityAssumption
  <2>2. /\ Advance(rHead, rSize) \in Index
        /\ AvailableData(Advance(rHead, rSize), head) = AvailableData(rHead, head) + rSize
    BY <1>1, <2>1, AdvanceAdds
  <2>3. rHead' = Advance(rHead, rSize)
    BY DEF ReadDone
  <2> QED
    BY <1>2, <2>2, <2>3
<1>4. /\ got' \in Seq(Byte) /\ Len(got') = Len(got) + rSize
      /\ \A k \in 1 .. Len(got) + rSize :
           got'[k] = IF k <= Len(got) THEN got[k] ELSE rBuf[k - Len(got)]
  <2>1. got' = got \o rBuf
    BY DEF ReadDone
  <2> QED
    BY <1>1, <2>1, ConcatProperties
<1>5. TypeOK'
  BY <1>1, <1>3, <1>4, NoBytes, MaxSizeAssumption DEF TypeOK, ReadDone, wtx
<1>6. HeadsInOrder' /\ TailsInOrder' /\ tail' = tail /\ head' = head
  BY OrderFrame DEF ReadDone
<1>7. ProducerView'
  BY ProducerFrame DEF ReadDone, wtx
<1>8. ConsumerView'
  BY <1>1, <1>2, <1>3, <1>4, <1>6 DEF ConsumerView, ReadDone
<1>9. NoCopyInProgress' /\ NothingGotOutside'
  BY DEF NoCopyInProgress, NothingGotOutside, ReadDone, wtx
<1>10. CopiesIntact'
  <2>1. ASSUME NEW k \in 1 .. Len(got')
        PROVE  got'[k] = storage[Mask(head + k - 1)]
    <3>1. CASE k <= Len(got)
      BY <1>1, <1>4, <3>1 DEF CopiesIntact
    <3>2. CASE Len(got) < k
      <4> DEFINE j == k - Len(got)
      <4>1. j \in 1 .. Len(rBuf) /\ got'[k] = rBuf[j]
        BY <1>1, <1>4, <3>2
      <4>2. rBuf[j] = storage[Mask(rHead + j - 1)]
        BY <1>1, <4>1 DEF CopiesIntact
      <4>3. j - 1 \in Nat /\ AvailableData(rHead, head) + (j - 1) < Capacity
        BY <1>1, <1>2, <4>1, CapacityAssumption
      <4>4. Mask(rHead + (j - 1)) = Mask(head + (Len(got) + (j - 1)))
        BY <1>1, <4>3, ReadFits
      <4>5. rHead + (j - 1) = rHead + j - 1 /\ head + (Len(got) + (j - 1)) = head + k - 1
        BY <1>1, CapacityAssumption DEF Index
      <4> QED
        BY <4>1, <4>2, <4>4, <4>5
    <3> QED
      BY <1>1, <3>1, <3>2
  <2> QED
    BY <1>6, <2>1 DEF CopiesIntact, ReadDone, wtx
<1> QED
  BY <1>5, <1>6, <1>7, <1>8, <1>9, <1>10

\* invalidate only marks the transaction.
LEMMA ReadInvalidateKeeps ==
  ASSUME IInv, ReadInvalidate
  PROVE  IInv'
<1> USE DEF IInv
<1>1. TypeOK'
  BY DEF TypeOK, ReadInvalidate, shared, wtx
<1>2. HeadsInOrder' /\ TailsInOrder' /\ tail' = tail /\ head' = head
  BY OrderFrame DEF ReadInvalidate, shared
<1>3. ProducerView' /\ ConsumerView'
  BY ProducerFrame, ConsumerFrame DEF ReadInvalidate, shared, wtx
<1>4. NoCopyInProgress' /\ CopiesIntact' /\ NothingGotOutside'
  BY <1>2 DEF NoCopyInProgress, CopiesIntact, NothingGotOutside, ReadInvalidate, shared, wtx
<1> QED
  BY <1>1, <1>2, <1>3, <1>4

\* A transaction that is gone has members of the right types.
LEMMA DroppedReadType ==
  ASSUME DropReadTx
  PROVE  /\ rPc' \in {"none", "open", "sync", "empty", "copy"}
         /\ rHead' \in Index /\ rCachedTail' \in Index
         /\ rInvalidated' \in BOOLEAN
         /\ rSize' \in 0 .. MaxSize
         /\ rBuf' \in Buffers /\ Len(rBuf') <= rSize'
         /\ got' \in Seq(Byte)
<1>1. 0 \in Index
  BY CapacityAssumption DEF Index
<1>2. rInvalidated' \in BOOLEAN
  BY Zenon DEF DropReadTx
<1>3. rBuf' \in Buffers /\ Len(rBuf') <= rSize' /\ rSize' \in 0 .. MaxSize /\ got' \in Seq(Byte)
  BY NoBytes, MaxSizeAssumption DEF DropReadTx
<1> QED
  BY <1>1, <1>2, <1>3 DEF DropReadTx

\* The commit gives the bytes returned back to the producer as room.
LEMMA ReadEndKeeps ==
  ASSUME IInv, ReadEnd
  PROVE  IInv'
<1> USE DEF IInv
<1>1. /\ tail \in Index /\ head \in Index /\ rHead \in Index /\ rCachedTail \in Index
      /\ heads \in Seq(Index) /\ heads # <<>> /\ Len(got) \in Nat
      /\ \A i \in 1 .. Len(heads) : heads[i] \in Index
      /\ \A i \in 1 .. Len(tails) : tails[i] \in Index
  BY TypeFacts DEF TypeOK
<1>2. /\ rPc = "open" /\ tails' = tails /\ tail' = tail
      /\ rPc' = "none" /\ rBuf' = <<>> /\ got' = <<>>
      /\ UNCHANGED wtx
  BY DEF ReadEnd, DropReadTx, tail
<1>3. /\ heads' \in Seq(Index) /\ heads' # <<>>
      /\ head' = IF rInvalidated THEN head ELSE rHead
      /\ \A i \in 1 .. Len(heads') :
           \/ i \in 1 .. Len(heads) /\ heads'[i] = heads[i]
           \/ i = Len(heads') /\ heads'[i] = head'
  <2>1. CASE rInvalidated
    BY <1>1, <2>1 DEF ReadEnd, head
  <2>2. CASE ~rInvalidated
    <3> DEFINE h == Store(heads, rHead)
    <3>1. heads' = h
      BY <2>2 DEF ReadEnd
    <3>2. rHead \in Index
      BY <1>1
    <3>3. /\ h \in Seq(Index) /\ h # <<>> /\ Last(h) = rHead
          /\ \A i \in 1 .. Len(h) :
               \/ i \in 1 .. Len(heads) /\ h[i] = heads[i]
               \/ i = Len(h) /\ h[i] = rHead
      BY <1>1, <3>2, StoreFacts
    <3> HIDE DEF h
    <3>4. head' = rHead
      BY <3>1, <3>3, Zenon DEF head
    <3> QED
      BY <2>2, <3>1, <3>3, <3>4, Zenon
  <2> QED
    BY <2>1, <2>2
<1>4. TypeOK'
  BY <1>3, DroppedReadType DEF TypeOK, ReadEnd, wtx
<1>5. /\ AvailableData(rHead, head) = Len(got) /\ Len(got) <= AvailableData(tail, head)
      /\ AvailableData(tail, head) \in Nat
      /\ AvailableData(tail, rHead) = AvailableData(tail, head) - Len(got)
  BY <1>1, <1>2, ReadFits, DistancesSubtract DEF ConsumerView
<1>6. /\ AvailableData(tail, head') \in Nat
      /\ AvailableData(tail, head') <= AvailableData(tail, head)
  BY <1>1, <1>3, <1>5
<1>7. \A i \in 1 .. Len(heads) :
        /\ AvailableData(tail, heads[i]) \in Nat
        /\ AvailableData(tail, head) <= AvailableData(tail, heads[i])
  <2> SUFFICES ASSUME NEW i \in 1 .. Len(heads)
               PROVE  /\ AvailableData(tail, heads[i]) \in Nat
                      /\ AvailableData(tail, head) <= AvailableData(tail, heads[i])
    OBVIOUS
  <2>1. AvailableData(tail, heads[i]) \in Nat
    BY <1>1, DataRange
  <2>2. Len(heads) \in 1 .. Len(heads) /\ i <= Len(heads)
    BY TypeFacts
  <2> QED
    BY <2>1, <2>2 DEF HeadsInOrder, head, Last
<1>8. \A i \in 1 .. Len(heads') :
        /\ AvailableData(tail, heads'[i]) \in Nat
        /\ AvailableData(tail, head') <= AvailableData(tail, heads'[i])
  BY <1>1, <1>3, <1>5, <1>6, <1>7
<1>9. HeadsInOrder'
  <2> SUFFICES ASSUME NEW i \in 1 .. Len(heads'), NEW j \in 1 .. Len(heads'), i <= j
               PROVE  AvailableData(tail, heads'[j]) <= AvailableData(tail, heads'[i])
    BY <1>2 DEF HeadsInOrder
  <2>1. Len(heads) \in Nat /\ Len(heads') \in Nat
    BY <1>1, <1>3
  <2>2. CASE heads'[j] = head'
    BY <1>8, <2>2
  <2>3. CASE j \in 1 .. Len(heads) /\ heads'[j] = heads[j] /\ heads'[j] # head'
    <3>1. i # Len(heads') \/ heads'[i] # head'
      BY <2>1, <2>3, <1>3
    <3>2. i \in 1 .. Len(heads) /\ heads'[i] = heads[i]
      BY <1>3, <3>1
    <3> QED
      BY <2>3, <3>2 DEF HeadsInOrder
  <2> QED
    BY <1>3, <2>2, <2>3
<1>10. TailsInOrder'
  <2>1. CASE rInvalidated
    BY <1>2, <1>3, <2>1 DEF TailsInOrder
  <2>2. CASE ~rInvalidated
    <3>1. ASSUME NEW i \in 1 .. Len(tails)
          PROVE  /\ AvailableData(tails[i], rHead) = AvailableData(tails[i], head) - Len(got)
                 /\ AvailableData(tails[i], head) \in Nat
      <4>1. AvailableData(tails[i], head) \in Nat /\ AvailableData(rCachedTail, head) \in Nat
        BY <1>1, DataRange
      <4>2. AvailableData(rHead, head) <= AvailableData(tails[i], head)
        BY <1>1, <1>2, <1>5, <4>1 DEF ConsumerView
      <4> QED
        BY <1>1, <1>5, <4>1, <4>2, DistancesSubtract
    <3>2. head' = rHead
      BY <1>3, <2>2
    <3> SUFFICES ASSUME NEW i \in 1 .. Len(tails), NEW j \in 1 .. Len(tails), i <= j
                 PROVE  AvailableData(tails[i], rHead) <= AvailableData(tails[j], rHead)
      BY <1>2, <3>2 DEF TailsInOrder
    <3>3. AvailableData(tails[i], head) <= AvailableData(tails[j], head)
      BY DEF TailsInOrder
    <3> QED
      BY <1>1, <3>1, <3>3
  <2> QED
    BY <2>1, <2>2
<1>11. ProducerView'
  <2>1. ASSUME wPc # "none", NEW i \in 1 .. Len(heads')
        PROVE  AvailableData(tail, heads'[i]) <= AvailableData(tail, wCachedHead)
    <3>1. AvailableData(tail, head) <= AvailableData(tail, wCachedHead)
      BY <2>1, TypeFacts DEF ProducerView, head, Last
    <3>2. AvailableData(tail, wCachedHead) \in Nat
      BY <1>1, DataRange DEF TypeOK
    <3> QED
      BY <1>3, <1>5, <1>6, <2>1, <3>1, <3>2 DEF ProducerView
  <2> QED
    BY <1>2, <2>1 DEF ProducerView, wtx
<1>12. ConsumerView' /\ NoCopyInProgress' /\ NothingGotOutside'
  BY <1>2 DEF ConsumerView, NoCopyInProgress, NothingGotOutside, wtx
<1>13. CopiesIntact'
  BY <1>2, NoBytes DEF CopiesIntact, ReadEnd, wtx
<1> QED
  BY <1>4, <1>9, <1>10, <1>11, <1>12, <1>13

\* A consumer that dies loses its transaction and nothing else.
LEMMA ConsumerRelaunchKeeps ==
  ASSUME IInv, ConsumerRelaunch
  PROVE  IInv'
<1> USE DEF IInv
<1>1. TypeOK'
  BY DroppedReadType DEF TypeOK, ConsumerRelaunch, wtx
<1>2. HeadsInOrder' /\ TailsInOrder' /\ tail' = tail /\ head' = head
  BY OrderFrame DEF ConsumerRelaunch
<1>3. ProducerView' /\ ConsumerView'
  BY ProducerFrame DEF ConsumerView, ConsumerRelaunch, DropReadTx, wtx
<1>4. NoCopyInProgress' /\ CopiesIntact' /\ NothingGotOutside'
  BY <1>2, NoBytes
  DEF NoCopyInProgress, CopiesIntact, NothingGotOutside, ConsumerRelaunch, DropReadTx, wtx
<1> QED
  BY <1>1, <1>2, <1>3, <1>4

--------------------------------------------------------------------------------
\* A store becomes visible

\* The next head the producer comes to see leaves no more data than the last.
LEMMA HeadVisibleKeeps ==
  ASSUME IInv, HeadVisible
  PROVE  IInv'
<1> USE DEF IInv
<1>1. /\ heads' \in Seq(Index) /\ heads' # <<>>
      /\ head' = head
      /\ Len(heads') = Len(heads) - 1 /\ Len(heads) \in Nat
      /\ \A i \in 1 .. Len(heads') : i + 1 \in 1 .. Len(heads) /\ heads'[i] = heads[i + 1]
  BY ShiftFacts, TypeFacts DEF HeadVisible, TypeOK, head
<1>2. UNCHANGED <<storage, tails, producer_core, consumer_core, tail, wtx, rtx>>
  BY DEF HeadVisible, tail
<1>3. TypeOK'
  BY <1>1, <1>2 DEF TypeOK, wtx, rtx
<1>4. HeadsInOrder'
  BY <1>1, <1>2 DEF HeadsInOrder
<1>5. TailsInOrder' /\ ConsumerView'
  BY <1>1, <1>2 DEF TailsInOrder, ConsumerView, rtx
<1>6. ProducerView'
  BY <1>1, <1>2 DEF ProducerView, wtx
<1>7. NoCopyInProgress' /\ CopiesIntact' /\ NothingGotOutside'
  BY <1>1, <1>2 DEF NoCopyInProgress, CopiesIntact, NothingGotOutside, wtx, rtx
<1> QED
  BY <1>3, <1>4, <1>5, <1>6, <1>7

\* The next tail the consumer comes to see leaves no less data than the last.
LEMMA TailVisibleKeeps ==
  ASSUME IInv, TailVisible
  PROVE  IInv'
<1> USE DEF IInv
<1>1. /\ tails' \in Seq(Index) /\ tails' # <<>>
      /\ tail' = tail
      /\ Len(tails') = Len(tails) - 1 /\ Len(tails) \in Nat
      /\ \A i \in 1 .. Len(tails') : i + 1 \in 1 .. Len(tails) /\ tails'[i] = tails[i + 1]
  BY ShiftFacts, TypeFacts DEF TailVisible, TypeOK, tail
<1>2. UNCHANGED <<storage, heads, producer_core, consumer_core, head, wtx, rtx>>
  BY DEF TailVisible, head
<1>3. TypeOK'
  BY <1>1, <1>2 DEF TypeOK, wtx, rtx
<1>4. TailsInOrder'
  BY <1>1, <1>2 DEF TailsInOrder
<1>5. HeadsInOrder' /\ ProducerView'
  BY <1>1, <1>2 DEF HeadsInOrder, ProducerView, wtx
<1>6. ConsumerView'
  BY <1>1, <1>2 DEF ConsumerView, rtx
<1>7. NoCopyInProgress' /\ CopiesIntact' /\ NothingGotOutside'
  BY <1>1, <1>2 DEF NoCopyInProgress, CopiesIntact, NothingGotOutside, wtx, rtx
<1> QED
  BY <1>3, <1>4, <1>5, <1>6, <1>7

--------------------------------------------------------------------------------
\* The invariant

\* Every step, of the producer, of the consumer or of the memory between
\* them, keeps the invariant.
THEOREM StepKeepsInvariant ==
  IInv /\ [Next]_vars => IInv'
<1> SUFFICES ASSUME IInv, [Next]_vars PROVE IInv'
  OBVIOUS
<1>1. CASE Producer
  BY <1>1, WriteBeginKeeps, WriteKeeps, WriteSyncKeeps, WriteRefuseKeeps, CopyInKeeps,
     WriteDoneKeeps, WriteInvalidateKeeps, WriteEndKeeps, ProducerRelaunchKeeps
  DEF Producer, WriteStep
<1>2. CASE Consumer
  BY <1>2, ReadBeginKeeps, ReadKeeps, ReadSyncKeeps, ReadRefuseKeeps, CopyOutKeeps,
     ReadDoneKeeps, ReadInvalidateKeeps, ReadEndKeeps, ConsumerRelaunchKeeps
  DEF Consumer, ReadStep
<1>3. CASE HeadVisible
  BY <1>3, HeadVisibleKeeps
<1>4. CASE TailVisible
  BY <1>4, TailVisibleKeeps
<1>5. CASE UNCHANGED vars
  <2>1. TypeOK' /\ NoCopyInProgress' /\ NothingGotOutside'
    BY <1>5 DEF IInv, TypeOK, NoCopyInProgress, NothingGotOutside, vars, shared, wtx, rtx
  <2>2. HeadsInOrder' /\ TailsInOrder' /\ head' = head /\ tail' = tail
    BY <1>5, OrderFrame DEF IInv, vars, shared
  <2>3. ProducerView' /\ ConsumerView'
    BY <1>5, ProducerFrame, ConsumerFrame DEF IInv, vars, shared, wtx, rtx
  <2>4. CopiesIntact'
    BY <1>5, <2>2 DEF IInv, CopiesIntact, vars, shared, wtx, rtx
  <2> QED
    BY <2>1, <2>2, <2>3, <2>4 DEF IInv
<1> QED
  BY <1>1, <1>2, <1>3, <1>4, <1>5 DEF Next

\* The inductive invariant holds in every reachable state.
THEOREM Invariance ==
  Spec => []IInv
BY InitIsInvariant, StepKeepsInvariant, PTL DEF Spec

\* The variables keep to their types: no index leaves the storage.
THEOREM TypeCorrect ==
  Spec => []TypeOK
<1>1. IInv => TypeOK
  BY DEF IInv
<1> QED
  BY <1>1, Invariance, PTL

--------------------------------------------------------------------------------
\* The safety properties

\* How many bytes the queue and the open write transaction hold.
LEMMA QueueLength ==
  ASSUME IInv
  PROVE  /\ Len(Queue) = AvailableData(tail, head)
         /\ Len(Pending) = IF wPc = "none" THEN 0 ELSE AvailableData(wTail, tail)
<1>1. tail \in Index /\ head \in Index /\ wTail \in Index
  BY TypeFacts DEF IInv, TypeOK
<1>2. AvailableData(tail, head) \in Nat /\ AvailableData(wTail, tail) \in Nat
  BY <1>1, DataRange
<1> QED
  BY <1>2, NoBytes DEF Queue, Pending, Slice

\* A copy into the storage never touches a byte the consumer may still read
\* (imp_write's two tests of the available space).
THEOREM NeverOverwrites ==
  Spec => []NoOverwrite
<1>1. ASSUME IInv PROVE NoOverwrite
  <2> SUFFICES ASSUME wPc = "copy"
               PROVE  /\ Slots(wTail, Len(wBuf)) \subseteq Index
                      /\ Slots(wTail, Len(wBuf)) \cap
                           {Mask(head + k) : k \in 0 .. Len(Queue) - 1} = {}
    BY DEF NoOverwrite
  <2>1. wTail \in Index /\ head \in Index /\ Len(wBuf) \in Nat
    BY <1>1, TypeFacts DEF IInv, TypeOK
  <2>2. /\ Len(Queue) = AvailableData(tail, head) /\ Len(Queue) \in Nat
        /\ Len(Queue) <= AvailableData(wTail, head) /\ AvailableData(wTail, head) \in Nat
        /\ AvailableData(wTail, head) + Len(wBuf) < Capacity
    BY <1>1, <2>1, QueueLength, WriteFits, DataRange
  <2>3. Len(wBuf) \in 0 .. Capacity
    BY <2>1, <2>2, CapacityAssumption
  <2>4. ASSUME NEW k \in 0 .. Len(wBuf) - 1
        PROVE  /\ Slot(wTail, Len(wBuf), k) = Mask(wTail + k)
               /\ Slot(wTail, Len(wBuf), k) \in Index
    BY <2>1, <2>3, SlotIsMask
  <2>5. ASSUME NEW k \in 0 .. Len(wBuf) - 1, NEW j \in 0 .. Len(Queue) - 1
        PROVE  Mask(wTail + k) # Mask(head + j)
    <3>1. j \in 0 .. AvailableData(wTail, head) - 1
      BY <2>2
    <3> QED
      BY <1>1, <3>1, WriteIsClear
  <2> QED
    BY <2>4, <2>5 DEF Slots
<1> QED
  BY <1>1, Invariance, PTL

\* A copy out of the storage takes only committed bytes that this transaction
\* has not returned yet (imp_read's two tests of the available data).
THEOREM ReadsOnlyCommitted ==
  Spec => []ReadsCommitted
<1>1. ASSUME IInv PROVE ReadsCommitted
  <2> SUFFICES ASSUME rPc = "copy", NEW k \in 0 .. rSize - 1
               PROVE  \E j \in Len(got) .. Len(Queue) - 1 : Slot(rHead, rSize, k) = Mask(head + j)
    BY DEF ReadsCommitted, Slots
  <2>1. rHead \in Index /\ head \in Index /\ rSize \in Nat /\ Len(got) \in Nat
    BY <1>1, TypeFacts DEF IInv, TypeOK
  <2>2. /\ Len(Queue) \in Nat /\ Len(got) + rSize <= Len(Queue) /\ Len(Queue) < Capacity
        /\ AvailableData(rHead, head) = Len(got)
    BY <1>1, QueueLength, ReadFits DEF IInv, ConsumerView
  <2>3. rSize \in 0 .. Capacity
    BY <2>1, <2>2, CapacityAssumption
  <2>4. Slot(rHead, rSize, k) = Mask(rHead + k)
    BY <2>1, <2>3, SlotIsMask
  <2>5. k \in Nat /\ AvailableData(rHead, head) + k < Capacity
    BY <2>1, <2>2, CapacityAssumption
  <2>6. Mask(rHead + k) = Mask(head + (Len(got) + k))
    BY <1>1, <2>5, ReadFits
  <2>7. Len(got) + k \in Len(got) .. Len(Queue) - 1
    BY <2>1, <2>2
  <2> QED
    BY <2>4, <2>6, <2>7
<1> QED
  BY <1>1, Invariance, PTL

\* Neither side ever counts on more room, or more data, than there is.
THEOREM StaleIsSafe ==
  Spec => []NeverOptimistic
<1>1. ASSUME IInv PROVE NeverOptimistic
  <2>1. /\ tail \in Index /\ head \in Index /\ wTail \in Index /\ wCachedHead \in Index
        /\ rHead \in Index /\ rCachedTail \in Index /\ Len(got) \in Nat
    BY <1>1, TypeFacts DEF IInv, TypeOK
  <2>2. ASSUME wPc # "none"
        PROVE  AvailableSpace(wCachedHead, wTail) <= Capacity - 1 - Len(Queue) - Len(Pending)
    <3> DEFINE old == AvailableData(tail, wCachedHead)
               new == AvailableData(wTail, tail)
    <3>1. old \in Nat /\ new \in Nat /\ AvailableData(tail, head) \in Nat
      BY <2>1, DataRange
    <3>2. AvailableData(tail, head) <= old
      BY <1>1, <2>2, TypeFacts DEF IInv, ProducerView, head, Last
    <3>3. old + new < Capacity
      BY <1>1, <2>1, <2>2, <3>1, TypeFacts, CapacityAssumption DEF IInv, ProducerView
    <3>4. AvailableSpace(wCachedHead, wTail) = Capacity - 1 - (old + new)
      BY <2>1, <3>3, SpaceIsComplement, DistancesAdd
    <3> QED
      BY <1>1, <2>2, <3>1, <3>2, <3>4, QueueLength, CapacityAssumption
  <2>3. ASSUME rPc # "none"
        PROVE  AvailableData(rCachedTail, rHead) <= Len(Queue) - Len(got)
    <3>1. /\ AvailableData(rCachedTail, head) <= AvailableData(tail, head)
          /\ AvailableData(rHead, head) = Len(got)
      BY <1>1, <2>3, TypeFacts DEF IInv, ConsumerView, tail, Last
    <3>2. /\ AvailableData(rCachedTail, head) \in Nat /\ AvailableData(tail, head) \in Nat
          /\ rSize \in Nat
      BY <1>1, <2>1, DataRange, TypeFacts DEF IInv
    <3>3. Len(got) <= AvailableData(rCachedTail, head)
      BY <1>1, <2>1, <2>3, <3>2 DEF IInv, ConsumerView
    <3>4. AvailableData(rCachedTail, rHead) = AvailableData(rCachedTail, head) - Len(got)
      BY <2>1, <3>1, <3>3, DistancesSubtract
    <3> QED
      BY <1>1, <2>1, <3>1, <3>2, <3>4, QueueLength
  <2> QED
    BY <2>2, <2>3 DEF NeverOptimistic
<1> QED
  BY <1>1, Invariance, PTL

\* A write that is refused by a producer that sees the newest head had too
\* little room: room made by a committed read is never overlooked.
THEOREM RefusalsAreReal ==
  Spec => RefusalIsReal
<1>1. ASSUME IInv, [Next]_vars, wPc = "sync", wPc' = "full", Len(heads) = 1
      PROVE  Len(Queue) + Len(Pending) + Len(wBuf) > Capacity - 1
  <2>1. WriteSync
    BY <1>1
    DEF Next, Producer, WriteStep, WriteBegin, Write, WriteRefuse, CopyIn, WriteDone,
        WriteInvalidate, WriteEnd, ProducerRelaunch, DropWriteTx, Consumer, ReadBegin, Read,
        ReadStep, ReadSync, ReadRefuse, CopyOut, ReadDone, ReadInvalidate, ReadEnd,
        ConsumerRelaunch, HeadVisible, TailVisible, vars, wtx
  <2>2. /\ tail \in Index /\ head \in Index /\ wTail \in Index /\ Len(wBuf) \in Nat
        /\ heads[1] = head
    BY <1>1, TypeFacts DEF IInv, TypeOK, head, Last
  <2>3. /\ Len(Queue) = AvailableData(tail, head) /\ Len(Pending) = AvailableData(wTail, tail)
        /\ AvailableData(wTail, head) = Len(Queue) + Len(Pending)
        /\ Len(Queue) \in Nat /\ Len(Pending) \in Nat
    BY <1>1, QueueLength, WriteFits
  <2>4. AvailableSpace(head, wTail) = Capacity - 1 - (Len(Queue) + Len(Pending))
    BY <2>2, <2>3, SpaceIsComplement
  <2>5. Len(wBuf) > AvailableSpace(head, wTail)
    BY <1>1, <2>1, <2>2 DEF WriteSync
  <2> QED
    BY <2>2, <2>3, <2>4, <2>5, CapacityAssumption
<1> QED
  BY <1>1, Invariance, PTL DEF Spec, RefusalIsReal

\* A read that is refused by a consumer that sees the newest tail asked for
\* more than there was: committed bytes are never overlooked.
THEOREM EmptinessesAreReal ==
  Spec => EmptinessIsReal
<1>1. ASSUME IInv, [Next]_vars, rPc = "sync", rPc' = "empty", Len(tails) = 1
      PROVE  Len(got) + rSize > Len(Queue)
  <2>1. ReadSync
    BY <1>1
    DEF Next, Producer, WriteStep, WriteBegin, Write, WriteSync, WriteRefuse, CopyIn, WriteDone,
        WriteInvalidate, WriteEnd, ProducerRelaunch, Consumer, ReadBegin, Read,
        ReadStep, ReadRefuse, CopyOut, ReadDone, ReadInvalidate, ReadEnd, DropReadTx,
        ConsumerRelaunch, HeadVisible, TailVisible, vars, rtx
  <2>2. /\ tail \in Index /\ head \in Index /\ rHead \in Index /\ rSize \in Nat
        /\ Len(got) \in Nat /\ tails[1] = tail
    BY <1>1, TypeFacts DEF IInv, TypeOK, tail, Last
  <2>3. /\ Len(Queue) = AvailableData(tail, head) /\ Len(Queue) \in Nat
        /\ AvailableData(rHead, head) = Len(got) /\ Len(got) <= Len(Queue)
    BY <1>1, <2>2, QueueLength, ReadFits DEF IInv, ConsumerView
  <2>4. AvailableData(tail, rHead) = Len(Queue) - Len(got)
    BY <2>2, <2>3, DistancesSubtract
  <2>5. rSize > AvailableData(tail, rHead)
    BY <1>1, <2>1, <2>2 DEF ReadSync
  <2> QED
    BY <2>2, <2>3, <2>4, <2>5
<1> QED
  BY <1>1, Invariance, PTL DEF Spec, EmptinessIsReal

================================================================================
