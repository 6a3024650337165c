--------------------------- MODULE TxQueueRefinement ---------------------------
(***************************************************************************)
(* TxQueue implements TxFifo: storage, wrapping indices, late visibility   *)
(* and byte-wise copies amount to a bounded FIFO with atomic transactions. *)
(* The steps that end a call or a transaction are the steps of the FIFO;   *)
(* every other step leaves the FIFO as it is.                              *)
(***************************************************************************)
EXTENDS TxQueueProofs

\* A transaction is invalidated only between its calls: imp_write and imp_read
\* return at once on an invalidated one, and a new transaction is valid.
CallsAreValid ==
  /\ wPc # "open" => wInvalidated = FALSE
  /\ rPc # "open" => rInvalidated = FALSE

\* No step invalidates a transaction inside a call, or opens one invalidated.
LEMMA CallsValidStep ==
  ASSUME CallsAreValid, [Next]_vars
  PROVE  CallsAreValid'
<1>1. CASE Producer
  BY <1>1
  DEF Producer, WriteStep, WriteBegin, Write, WriteSync, WriteRefuse, CopyIn, WriteDone,
      WriteInvalidate, WriteEnd, ProducerRelaunch, DropWriteTx, CallsAreValid, shared, wtx, rtx
<1>2. CASE Consumer
  BY <1>2
  DEF Consumer, ReadStep, ReadBegin, Read, ReadSync, ReadRefuse, CopyOut, ReadDone,
      ReadInvalidate, ReadEnd, ConsumerRelaunch, DropReadTx, CallsAreValid, shared, wtx, rtx
<1>3. CASE HeadVisible \/ TailVisible \/ UNCHANGED vars
  BY <1>3 DEF HeadVisible, TailVisible, vars, CallsAreValid, wtx, rtx
<1> QED
  BY <1>1, <1>2, <1>3 DEF Next

\* A call in progress belongs to a transaction that is not invalidated.
LEMMA CallsStayValid ==
  Spec => []CallsAreValid
<1>1. Init => CallsAreValid
  BY DEF Init, CallsAreValid
<1>2. CallsAreValid /\ [Next]_vars => CallsAreValid'
  BY CallsValidStep
<1> QED
  BY <1>1, <1>2, PTL DEF Spec

--------------------------------------------------------------------------------
\* Slices of a storage

SliceOf(bytes, i, j) == [k \in 1 .. AvailableData(j, i) |-> bytes[Mask(i + k - 1)]]

\* A slice of the storage is a sequence of bytes of the right length.
LEMMA SliceFacts ==
  ASSUME NEW bytes \in [Index -> Byte], NEW i \in Index, NEW j \in Index
  PROVE  /\ SliceOf(bytes, i, j) \in Seq(Byte)
         /\ Len(SliceOf(bytes, i, j)) = AvailableData(j, i)
         /\ \A k \in 1 .. AvailableData(j, i) : SliceOf(bytes, i, j)[k] = bytes[Mask(i + k - 1)]
<1>1. AvailableData(j, i) \in Nat
  BY DataRange
<1>2. ASSUME NEW k \in 1 .. AvailableData(j, i)
      PROVE  bytes[Mask(i + k - 1)] \in Byte
  <2>1. i + k - 1 \in Int
    BY <1>1, CapacityAssumption DEF Index
  <2> QED
    BY <2>1, MaskRange
<1> QED
  BY <1>1, <1>2 DEF SliceOf

\* A sequence whose bytes are those of the slice is the slice.
LEMMA SliceEquals ==
  ASSUME NEW bytes \in [Index -> Byte], NEW i \in Index, NEW j \in Index,
         NEW s \in Seq(Byte), Len(s) = AvailableData(j, i),
         \A k \in 1 .. Len(s) : s[k] = bytes[Mask(i + k - 1)]
  PROVE  SliceOf(bytes, i, j) = s
<1> DEFINE t == SliceOf(bytes, i, j)
<1>1. /\ AvailableData(j, i) \in Nat
      /\ t \in Seq(Byte) /\ Len(t) = AvailableData(j, i)
      /\ \A k \in 1 .. AvailableData(j, i) : t[k] = bytes[Mask(i + k - 1)]
  BY DataRange, SliceFacts
<1> HIDE DEF t
<1>2. Len(t) = Len(s) /\ \A k \in 1 .. Len(t) : t[k] = s[k]
  BY <1>1
<1>3. t = s
  BY <1>1, <1>2, SeqEqual
<1> QED
  BY <1>3 DEF t

\* A slice from a to c is one from a to b and one from b to c.
LEMMA SlicesConcatenate ==
  ASSUME NEW bytes \in [Index -> Byte], NEW a \in Index, NEW b \in Index, NEW c \in Index,
         AvailableData(b, a) + AvailableData(c, b) < Capacity
  PROVE  SliceOf(bytes, a, c) = SliceOf(bytes, a, b) \o SliceOf(bytes, b, c)
<1> DEFINE s == SliceOf(bytes, a, b)
           t == SliceOf(bytes, b, c)
           m == AvailableData(b, a)
           n == AvailableData(c, b)
<1>1. m \in Nat /\ n \in Nat /\ AvailableData(c, a) = m + n
  BY DataRange, DistancesAdd
<1>2. /\ s \in Seq(Byte) /\ Len(s) = m /\ t \in Seq(Byte) /\ Len(t) = n
      /\ \A k \in 1 .. m : s[k] = bytes[Mask(a + k - 1)]
      /\ \A k \in 1 .. n : t[k] = bytes[Mask(b + k - 1)]
  BY SliceFacts
<1> DEFINE w == s \o t
<1> HIDE DEF s, t
<1>3. /\ w \in Seq(Byte) /\ Len(w) = Len(s) + Len(t)
      /\ \A k \in 1 .. Len(s) + Len(t) : w[k] = IF k <= Len(s) THEN s[k] ELSE t[k - Len(s)]
  BY <1>2, ConcatProperties
<1> HIDE DEF w
<1>4. ASSUME NEW k \in 1 .. m + n
      PROVE  w[k] = bytes[Mask(a + k - 1)]
  <2>1. w[k] = IF k <= m THEN s[k] ELSE t[k - m]
    BY <1>2, <1>3
  <2>2. CASE k <= m
    BY <1>1, <1>2, <2>1, <2>2
  <2>3. CASE m < k
    <3>1. k - m \in 1 .. n /\ k - m - 1 \in Nat /\ m + (k - m - 1) < Capacity
      BY <1>1, <2>3, CapacityAssumption
    <3>2. Mask(b + (k - m - 1)) = Mask(a + (m + (k - m - 1)))
      BY <3>1, OffsetsAdd
    <3>3. b + (k - m - 1) = b + (k - m) - 1 /\ a + (m + (k - m - 1)) = a + k - 1
      BY <1>1, CapacityAssumption DEF Index
    <3>4. w[k] = t[k - m]
      BY <1>1, <2>1, <2>3
    <3> QED
      BY <1>2, <3>1, <3>2, <3>3, <3>4
  <2>4. k <= m \/ m < k
    BY <1>1
  <2> QED
    BY <2>2, <2>3, <2>4
<1>5. Len(w) = AvailableData(c, a) /\ \A k \in 1 .. Len(w) : w[k] = bytes[Mask(a + k - 1)]
  BY <1>1, <1>2, <1>3, <1>4
<1>6. SliceOf(bytes, a, c) = w
  BY <1>3, <1>5, SliceEquals
<1> QED
  BY <1>6 DEF s, t, w

\* Dropping the first bytes of a slice moves its start.
LEMMA SliceSuffix ==
  ASSUME NEW bytes \in [Index -> Byte], NEW a \in Index, NEW b \in Index, NEW c \in Index,
         AvailableData(b, a) <= AvailableData(c, a)
  PROVE  SliceOf(bytes, b, c) =
           SubSeq(SliceOf(bytes, a, c), AvailableData(b, a) + 1, AvailableData(c, a))
<1> DEFINE s == SliceOf(bytes, a, c)
           m == AvailableData(b, a)
           n == AvailableData(c, a)
           u == SubSeq(s, m + 1, n)
<1>1. m \in Nat /\ n \in Nat /\ n < Capacity /\ AvailableData(c, b) = n - m
  BY DataRange, DistancesSubtract
<1>2. s \in Seq(Byte) /\ Len(s) = n /\ \A k \in 1 .. n : s[k] = bytes[Mask(a + k - 1)]
  BY SliceFacts
<1> HIDE DEF s
<1>3. \A k \in m + 1 .. n : s[k] \in Byte
  BY <1>1, <1>2, ElementOfSeq
<1>4. m + 1 \in Int /\ n \in Int
  BY <1>1
<1>5. /\ u \in Seq(Byte)
      /\ Len(u) = IF m + 1 <= n THEN n - (m + 1) + 1 ELSE 0
      /\ \A k \in 1 .. n - (m + 1) + 1 : u[k] = s[m + 1 + k - 1]
  BY <1>3, <1>4, SubSeqProperties
<1> HIDE DEF u
<1>6. Len(u) = n - m
  BY <1>1, <1>5
<1>7. ASSUME NEW k \in 1 .. n - m
      PROVE  u[k] = bytes[Mask(b + k - 1)]
  <2>1. k - 1 \in Nat /\ m + (k - 1) < Capacity /\ m + k \in 1 .. n
    BY <1>1, CapacityAssumption
  <2>2. Mask(b + (k - 1)) = Mask(a + (m + (k - 1)))
    BY <2>1, OffsetsAdd
  <2>3. b + (k - 1) = b + k - 1 /\ a + (m + (k - 1)) = a + (m + k) - 1 /\ m + 1 + k - 1 = m + k
    BY <1>1, CapacityAssumption DEF Index
  <2>4. k \in 1 .. n - (m + 1) + 1
    BY <1>1
  <2>5. u[k] = s[m + k]
    BY <1>5, <2>3, <2>4
  <2>6. s[m + k] = bytes[Mask(a + (m + k) - 1)]
    BY <1>2, <2>1
  <2>7. bytes[Mask(b + k - 1)] = bytes[Mask(a + (m + k) - 1)]
    BY <2>2, <2>3
  <2> QED
    BY <2>5, <2>6, <2>7, Zenon
<1>8. /\ u \in Seq(Byte)  /\ Len(u) = AvailableData(c, b)
      /\ \A k \in 1 .. Len(u) : u[k] = bytes[Mask(b + k - 1)]
  BY <1>1, <1>5, <1>6, <1>7
<1>9. SliceOf(bytes, b, c) = u
  BY <1>8, SliceEquals
<1> QED
  BY <1>9 DEF u, s

\* Storages that agree where the slice lies have the same slice.
LEMMA SliceAgrees ==
  ASSUME NEW one \in [Index -> Byte], NEW two \in [Index -> Byte],
         NEW i \in Index, NEW j \in Index,
         \A k \in 1 .. AvailableData(j, i) : two[Mask(i + k - 1)] = one[Mask(i + k - 1)]
  PROVE  SliceOf(two, i, j) = SliceOf(one, i, j)
BY DEF SliceOf

\* Nothing lies between an index and itself.
LEMMA EmptySlice ==
  ASSUME NEW bytes \in [Index -> Byte], NEW i \in Index
  PROVE  SliceOf(bytes, i, i) = <<>>
<1>1. <<>> \in Seq(Byte) /\ Len(<<>>) = 0 /\ AvailableData(i, i) = 0
  BY DataRange
<1>2. \A k \in 1 .. 0 : <<>>[k] = bytes[Mask(i + k - 1)]
  OBVIOUS
<1> QED
  BY <1>1, <1>2, SliceEquals

--------------------------------------------------------------------------------
\* The state the FIFO is mapped to

\* The mapped queue and pending bytes as slices of the storage.
LEMMA MappedState ==
  ASSUME IInv
  PROVE  /\ storage \in [Index -> Byte]
         /\ tail \in Index /\ head \in Index /\ wTail \in Index /\ rHead \in Index
         /\ Queue = SliceOf(storage, head, tail)
         /\ Pending = IF wPc = "none" THEN <<>> ELSE SliceOf(storage, tail, wTail)
         /\ Queue \in Seq(Byte) /\ Len(Queue) = AvailableData(tail, head)
         /\ AvailableData(tail, head) \in Nat
<1>1. /\ storage \in [Index -> Byte]
      /\ tail \in Index /\ head \in Index /\ wTail \in Index /\ rHead \in Index
  BY TypeFacts DEF IInv, TypeOK
<1>2. /\ Queue = SliceOf(storage, head, tail)
      /\ Pending = IF wPc = "none" THEN <<>> ELSE SliceOf(storage, tail, wTail)
  BY DEF Queue, Pending, Slice, SliceOf
<1> QED
  BY <1>1, <1>2, SliceFacts, DataRange

\* The same slices after a step.
LEMMA MappedNextState ==
  /\ Queue' = SliceOf(storage', head', tail')
  /\ Pending' = IF wPc' = "none" THEN <<>> ELSE SliceOf(storage', tail', wTail')
BY DEF Queue, Pending, Slice, SliceOf

\* What a transaction has read is the front of the queue.
LEMMA GotIsPrefix ==
  ASSUME IInv
  PROVE  got = SubSeq(Queue, 1, Len(got)) /\ Len(got) <= Len(Queue) /\ Len(got) \in Nat
<1>1. Len(got) \in Nat /\ got \in Seq(Byte)
  BY TypeFacts DEF IInv, TypeOK
<1>2. Len(got) <= Len(Queue) /\ Len(Queue) \in Nat /\ Queue \in Seq(Byte)
  <2>1. CASE rPc = "none"
    BY <1>1, <2>1, NoBytes, MappedState DEF IInv, NothingGotOutside
  <2>2. CASE rPc # "none"
    BY <1>1, <2>2, MappedState, ReadFits, TypeFacts DEF IInv
  <2> QED
    BY <2>1, <2>2
<1> DEFINE n == Len(got)
           u == SubSeq(Queue, 1, n)
<1>3. /\ u \in Seq(Byte) /\ Len(u) = IF 1 <= n THEN n - 1 + 1 ELSE 0
      /\ \A k \in 1 .. n - 1 + 1 : u[k] = Queue[1 + k - 1]
  <2>1. \A k \in 1 .. n : Queue[k] \in Byte
    BY <1>1, <1>2, ElementOfSeq
  <2>2. 1 \in Int /\ n \in Int
    BY <1>1
  <2> QED
    BY <2>1, <2>2, SubSeqProperties
<1> HIDE DEF u
<1>4. Len(u) = n
  BY <1>1, <1>3
<1>5. ASSUME NEW k \in 1 .. n
      PROVE  got[k] = u[k]
  <2>1. u[k] = Queue[k]
    <3>1. k \in 1 .. n - 1 + 1 /\ 1 + k - 1 = k
      BY <1>1
    <3> QED
      BY <1>3, <3>1
  <2>2. k \in 1 .. AvailableData(tail, head)
    BY <1>1, <1>2, MappedState
  <2>3. Queue[k] = storage[Mask(head + k - 1)]
    <3>1. /\ storage \in [Index -> Byte] /\ tail \in Index /\ head \in Index
          /\ Queue = SliceOf(storage, head, tail)
      BY MappedState
    <3>2. SliceOf(storage, head, tail)[k] = storage[Mask(head + k - 1)]
      BY <2>2, <3>1, SliceFacts
    <3> QED
      BY <3>1, <3>2
  <2> QED
    BY <2>1, <2>3 DEF IInv, CopiesIntact
<1>6. got = u
  BY <1>1, <1>3, <1>4, <1>5, SeqEqual
<1> QED
  BY <1>1, <1>2, <1>6 DEF u

--------------------------------------------------------------------------------
\* The steps that leave the FIFO as it is

\* A step that keeps every mapped value is a stutter of the FIFO.
LEMMA FifoUnchanged ==
  ASSUME Queue' = Queue, Pending' = Pending, got' = got,
         WriteState' = WriteState, ReadState' = ReadState
  PROVE  UNCHANGED Fifo!vars
BY DEF Fifo!vars

\* A side that opens or keeps its transaction, and its place in the storage,
\* keeps what it shows of it.
LEMMA SameBytes ==
  ASSUME UNCHANGED <<storage, tail, head, wTail>>, (wPc' = "none") <=> (wPc = "none")
  PROVE  Queue' = Queue /\ Pending' = Pending
BY DEF Queue, Pending, Slice

\* Starting a call, looking again and copying a byte out change nothing the
\* FIFO shows.
LEMMA CallsStutter ==
  ASSUME IInv,
         \/ \E bytes \in Buffers : Write(bytes)
         \/ WriteSync
         \/ \E size \in 0 .. MaxSize : Read(size)
         \/ ReadSync
         \/ CopyOut
  PROVE  UNCHANGED Fifo!vars
<1>1. UNCHANGED <<storage, tail, head, wTail, got, wInvalidated, rInvalidated>>
  BY DEF Write, WriteSync, Read, ReadSync, CopyOut, shared, wtx, rtx, tail, head
<1>2. ((wPc' = "none") <=> (wPc = "none")) /\ ((rPc' = "none") <=> (rPc = "none"))
  BY DEF Write, WriteSync, Read, ReadSync, CopyOut, shared, wtx, rtx
<1>3. WriteState' = WriteState /\ ReadState' = ReadState
  BY <1>1, <1>2 DEF WriteState, ReadState
<1> QED
  BY <1>1, <1>2, <1>3, SameBytes, FifoUnchanged

\* When a store becomes visible is no business of the FIFO.
LEMMA MemoryStutters ==
  ASSUME IInv, HeadVisible \/ TailVisible \/ UNCHANGED vars
  PROVE  UNCHANGED Fifo!vars
<1>1. tail' = tail /\ head' = head
  <2>1. tails \in Seq(Index) /\ heads \in Seq(Index)
    BY DEF IInv, TypeOK
  <2>2. CASE HeadVisible
    BY <2>1, <2>2, ShiftFacts DEF HeadVisible, tail, head
  <2>3. CASE TailVisible
    BY <2>1, <2>3, ShiftFacts DEF TailVisible, tail, head
  <2>4. CASE UNCHANGED vars
    BY <2>4 DEF vars, shared, tail, head
  <2> QED
    BY <2>2, <2>3, <2>4
<1>2. UNCHANGED <<storage, wtx, rtx>>
  BY DEF HeadVisible, TailVisible, vars, shared
<1>3. WriteState' = WriteState /\ ReadState' = ReadState /\ got' = got
  BY <1>2 DEF WriteState, ReadState, wtx, rtx
<1>4. Queue' = Queue /\ Pending' = Pending
  BY <1>1, <1>2, SameBytes DEF wtx
<1> QED
  BY <1>3, <1>4, FifoUnchanged

\* The byte copied in is not part of the queue, nor of what is pending.
LEMMA CopyInStutters ==
  ASSUME IInv, IInv', CopyIn
  PROVE  UNCHANGED Fifo!vars
<1>1. /\ wPc = "copy" /\ wPc' = "copy" /\ tail' = tail /\ head' = head /\ wTail' = wTail
      /\ UNCHANGED <<wInvalidated, rtx>>
  BY DEF CopyIn, tail, head
<1>2. /\ storage \in [Index -> Byte] /\ storage' \in [Index -> Byte]
      /\ tail \in Index /\ head \in Index /\ wTail \in Index
  BY MappedState DEF IInv, TypeOK
<1>3. /\ AvailableData(tail, head) \in Nat /\ AvailableData(wTail, tail) \in Nat
      /\ AvailableData(wTail, head) = AvailableData(tail, head) + AvailableData(wTail, tail)
      /\ AvailableData(wTail, head) < Capacity
  BY <1>1, WriteFits
<1>4. SliceOf(storage', head, tail) = SliceOf(storage, head, tail)
  <2>1. ASSUME NEW k \in 1 .. AvailableData(tail, head)
        PROVE  storage'[Mask(head + k - 1)] = storage[Mask(head + k - 1)]
    <3>1. k - 1 \in 0 .. AvailableData(wTail, head) - 1 /\ head + (k - 1) = head + k - 1
      BY <1>2, <1>3, CapacityAssumption DEF Index
    <3> QED
      BY <3>1, CopyInElsewhere
  <2> QED
    BY <1>2, <2>1, SliceAgrees
<1>5. SliceOf(storage', tail, wTail) = SliceOf(storage, tail, wTail)
  <2>1. ASSUME NEW k \in 1 .. AvailableData(wTail, tail)
        PROVE  storage'[Mask(tail + k - 1)] = storage[Mask(tail + k - 1)]
    <3> DEFINE j == AvailableData(tail, head) + (k - 1)
    <3>1. j \in 0 .. AvailableData(wTail, head) - 1 /\ tail + (k - 1) = tail + k - 1
      BY <1>2, <1>3, CapacityAssumption DEF Index
    <3>2. k - 1 \in Nat /\ AvailableData(tail, head) + (k - 1) < Capacity
      BY <1>3, <3>1, CapacityAssumption
    <3>3. Mask(tail + (k - 1)) = Mask(head + j)
      BY <1>2, <3>2, OffsetsAdd
    <3> QED
      BY <3>1, <3>3, CopyInElsewhere
  <2> QED
    BY <1>2, <2>1, SliceAgrees
<1>6. Queue' = Queue /\ Pending' = Pending
  BY <1>1, <1>4, <1>5, MappedState, MappedNextState
<1>7. WriteState' = WriteState /\ ReadState' = ReadState /\ got' = got
  BY <1>1 DEF WriteState, ReadState, rtx
<1> QED
  BY <1>6, <1>7, FifoUnchanged

--------------------------------------------------------------------------------
\* The steps of the FIFO's writer

\* Opening a write transaction is the FIFO's BeginWrite.
LEMMA WriteBeginMaps ==
  ASSUME IInv, CallsAreValid, WriteBegin
  PROVE  Fifo!BeginWrite
<1>1. /\ wPc = "none" /\ wPc' = "open" /\ wTail' = tail /\ wInvalidated' = FALSE
      /\ UNCHANGED <<storage, tail, head, rtx>>
  BY DEF WriteBegin, CallsAreValid, shared, tail, head
<1>2. Queue' = Queue
  BY <1>1 DEF Queue, Slice
<1>3. Pending' = Pending
  <2>1. SliceOf(storage', tail', wTail') = <<>>
    BY <1>1, MappedState, EmptySlice
  <2> QED
    BY <1>1, <2>1, MappedState, MappedNextState
<1>4. WriteState = "none" /\ WriteState' = "open" /\ ReadState' = ReadState /\ got' = got
  BY <1>1 DEF WriteState, ReadState, rtx
<1> QED
  BY <1>2, <1>3, <1>4 DEF Fifo!BeginWrite

\* Refusing a write, and invalidating a transaction, fail it.
LEMMA FailWriteMaps ==
  ASSUME IInv, CallsAreValid, (\E core \in Core : WriteRefuse(core)) \/ WriteInvalidate
  PROVE  Fifo!FailWrite \/ UNCHANGED Fifo!vars
<1>1. /\ wPc # "none" /\ wPc' = "open" /\ wInvalidated' = TRUE
      /\ UNCHANGED <<storage, tail, head, wTail, rtx>>
  BY DEF WriteRefuse, WriteInvalidate, shared, tail, head
<1>2. Queue' = Queue /\ Pending' = Pending
  BY <1>1, SameBytes
<1>3. WriteState' = "failed" /\ ReadState' = ReadState /\ got' = got
  BY <1>1 DEF WriteState, ReadState, rtx
<1>4. WriteState \in {"open", "failed"}
  BY <1>1 DEF WriteState
<1> QED
  BY <1>2, <1>3, <1>4, FifoUnchanged DEF Fifo!FailWrite

\* Returning from a write that fits appends its bytes to what is pending.
LEMMA WriteDoneMaps ==
  ASSUME IInv, CallsAreValid, WriteDone
  PROVE  wBuf \in Buffers /\ Fifo!Write(wBuf)
<1>1. /\ wPc = "copy" /\ wPc' = "open" /\ wInvalidated = FALSE /\ wInvalidated' = FALSE
      /\ wTail' = Advance(wTail, Len(wBuf)) /\ wCopied = Len(wBuf)
      /\ UNCHANGED <<storage, tail, head, rtx>>
  BY DEF WriteDone, CallsAreValid, tail, head
<1>2. /\ storage \in [Index -> Byte] /\ tail \in Index /\ head \in Index /\ wTail \in Index
      /\ wBuf \in Seq(Byte) /\ Len(wBuf) \in Nat
  BY MappedState, TypeFacts DEF IInv
<1>3. /\ AvailableData(tail, head) \in Nat /\ AvailableData(wTail, tail) \in Nat
      /\ AvailableData(wTail, head) = AvailableData(tail, head) + AvailableData(wTail, tail)
      /\ AvailableData(wTail, head) + Len(wBuf) < Capacity
  BY <1>1, WriteFits
<1>4. wTail' \in Index /\ AvailableData(wTail', wTail) = Len(wBuf)
  <2>1. AvailableData(wTail, wTail) = 0
    BY <1>2, DataRange
  <2>2. AvailableData(wTail, wTail) + Len(wBuf) < Capacity
    BY <1>2, <1>3, <2>1, CapacityAssumption
  <2>3. /\ Advance(wTail, Len(wBuf)) \in Index
        /\ AvailableData(Advance(wTail, Len(wBuf)), wTail) = AvailableData(wTail, wTail) + Len(wBuf)
    BY <1>2, <2>2, AdvanceAdds
  <2> QED
    BY <1>1, <1>2, <2>1, <2>3
<1>5. SliceOf(storage, wTail, wTail') = wBuf
  <2>1. \A k \in 1 .. Len(wBuf) : wBuf[k] = storage[Mask(wTail + k - 1)]
    BY <1>1 DEF IInv, CopiesIntact
  <2> QED
    BY <1>2, <1>4, <2>1, SliceEquals
<1>6. SliceOf(storage, tail, wTail') = SliceOf(storage, tail, wTail) \o SliceOf(storage, wTail, wTail')
  <2>1. AvailableData(wTail, tail) + AvailableData(wTail', wTail) < Capacity
    BY <1>2, <1>3, <1>4, CapacityAssumption
  <2> QED
    BY <1>2, <1>4, <2>1, SlicesConcatenate
<1>7. Pending' = Pending \o wBuf
  BY <1>1, <1>5, <1>6, MappedState, MappedNextState
<1>8. Queue' = Queue
  BY <1>1 DEF Queue, Slice
<1>9. Len(Queue) + Len(Pending) + Len(wBuf) < Capacity
  BY <1>1, <1>2, <1>3, QueueLength
<1>10. WriteState = "open" /\ WriteState' = "open" /\ ReadState' = ReadState /\ got' = got
  BY <1>1 DEF WriteState, ReadState, rtx
<1>11. wBuf \in Buffers
  BY DEF IInv, TypeOK
<1> QED
  BY <1>7, <1>8, <1>9, <1>10, <1>11 DEF Fifo!Write

\* Destroying a valid transaction commits it.
LEMMA CommitMaps ==
  ASSUME IInv, WriteEnd, ~wInvalidated
  PROVE  Fifo!Commit
<1>1. /\ wPc = "open" /\ wPc' = "none" /\ storage' = storage /\ head' = head
      /\ UNCHANGED rtx
  BY DEF WriteEnd, DropWriteTx, head
<1>2. /\ storage \in [Index -> Byte] /\ tail \in Index /\ head \in Index /\ wTail \in Index
      /\ tails \in Seq(Index) /\ tails # <<>>
  BY MappedState DEF IInv, TypeOK
<1>3. Pending' = <<>> /\ WriteState' = "none" /\ ReadState' = ReadState /\ got' = got
  BY <1>1 DEF Pending, WriteState, ReadState, rtx
<1>4. tail' = wTail
  BY <1>2, StoreFacts DEF WriteEnd, tail
<1>5. AvailableData(tail, head) + AvailableData(wTail, tail) < Capacity
  BY <1>1, WriteFits
<1>6. SliceOf(storage, head, wTail) = SliceOf(storage, head, tail) \o SliceOf(storage, tail, wTail)
  BY <1>2, <1>5, SlicesConcatenate
<1>7. Queue' = Queue \o Pending
  BY <1>1, <1>4, <1>6, MappedState, MappedNextState
<1>8. WriteState = "open"
  BY <1>1 DEF WriteState
<1> QED
  BY <1>3, <1>7, <1>8 DEF Fifo!Commit

\* Destroying an invalidated one abandons it.
LEMMA WriteEndMaps ==
  ASSUME IInv, WriteEnd
  PROVE  Fifo!Commit \/ Fifo!AbandonWrite
<1>1. CASE wInvalidated
  <2>1. /\ wPc = "open" /\ wPc' = "none" /\ storage' = storage
        /\ tail' = tail /\ head' = head /\ UNCHANGED rtx
    BY <1>1 DEF WriteEnd, DropWriteTx, head, tail
  <2>2. Pending' = <<>> /\ WriteState' = "none" /\ ReadState' = ReadState /\ got' = got
    BY <2>1 DEF Pending, WriteState, ReadState, rtx
  <2>3. Queue' = Queue /\ WriteState = "failed"
    BY <1>1, <2>1 DEF Queue, Slice, WriteState
  <2> QED
    BY <2>2, <2>3 DEF Fifo!AbandonWrite
<1> QED
  BY <1>1, CommitMaps

\* A producer that dies abandons the open write, if there is one.
LEMMA ProducerRelaunchMaps ==
  ASSUME IInv, ProducerRelaunch
  PROVE  Fifo!AbandonWrite \/ UNCHANGED Fifo!vars
<1>1. /\ MultiProcess /\ wPc' = "none" /\ UNCHANGED <<storage, tail, head, rtx>>
  BY DEF ProducerRelaunch, DropWriteTx, tail, head
<1>2. Queue' = Queue /\ Pending' = <<>>
  BY <1>1 DEF Queue, Pending, Slice
<1>3. WriteState' = "none" /\ ReadState' = ReadState /\ got' = got
  BY <1>1 DEF WriteState, ReadState, rtx
<1>4. CASE wPc = "none"
  BY <1>2, <1>3, <1>4, FifoUnchanged DEF Pending, WriteState
<1>5. CASE wPc # "none"
  <2>1. WriteState # "none"
    BY <1>5 DEF WriteState
  <2> QED
    BY <1>1, <1>2, <1>3, <2>1 DEF Fifo!AbandonWrite
<1> QED
  BY <1>4, <1>5

--------------------------------------------------------------------------------
\* The steps of the FIFO's reader

\* Opening a read transaction is the FIFO's BeginRead.
LEMMA ReadBeginMaps ==
  ASSUME IInv, CallsAreValid, ReadBegin
  PROVE  Fifo!BeginRead
<1>1. /\ rPc = "none" /\ rPc' = "open" /\ rInvalidated' = FALSE /\ got' = got
      /\ UNCHANGED <<storage, tail, head, wtx>>
  BY DEF ReadBegin, CallsAreValid, shared, tail, head
<1>2. Queue' = Queue /\ Pending' = Pending
  BY <1>1, SameBytes DEF wtx
<1>3. ReadState = "none" /\ ReadState' = "open" /\ WriteState' = WriteState
  BY <1>1 DEF WriteState, ReadState, wtx
<1> QED
  BY <1>1, <1>2, <1>3 DEF Fifo!BeginRead

\* A refused or invalidated read is the FIFO's FailRead.
LEMMA FailReadMaps ==
  ASSUME IInv, CallsAreValid, (\E core \in Core : ReadRefuse(core)) \/ ReadInvalidate
  PROVE  Fifo!FailRead \/ UNCHANGED Fifo!vars
<1>1. /\ rPc # "none" /\ rPc' = "open" /\ rInvalidated' = TRUE /\ got' = got
      /\ UNCHANGED <<storage, tail, head, wtx>>
  BY DEF ReadRefuse, ReadInvalidate, shared, tail, head
<1>2. Queue' = Queue /\ Pending' = Pending
  BY <1>1, SameBytes DEF wtx
<1>3. ReadState' = "failed" /\ WriteState' = WriteState
  BY <1>1 DEF WriteState, ReadState, wtx
<1>4. ReadState \in {"open", "failed"}
  BY <1>1 DEF ReadState
<1> QED
  BY <1>1, <1>2, <1>3, <1>4, FifoUnchanged DEF Fifo!FailRead

\* Returning from a read that succeeds delivers the next bytes of the queue.
LEMMA ReadDoneMaps ==
  ASSUME IInv, IInv', CallsAreValid, ReadDone
  PROVE  rSize \in 0 .. MaxSize /\ Fifo!Read(rSize)
<1>1. /\ rPc = "copy" /\ rPc' = "open" /\ rInvalidated = FALSE /\ rInvalidated' = FALSE
      /\ Len(rBuf) = rSize /\ got' = got \o rBuf
      /\ UNCHANGED <<storage, tail, head, wtx>>
  BY DEF ReadDone, CallsAreValid, tail, head
<1>2. Queue' = Queue /\ Pending' = Pending
  BY <1>1, SameBytes DEF wtx
<1>3. got \in Seq(Byte) /\ rBuf \in Seq(Byte) /\ rSize \in 0 .. MaxSize
  BY TypeFacts DEF IInv, TypeOK
<1>4. Len(got') = Len(got) + rSize
  BY <1>1, <1>3, ConcatProperties
<1>5. (got = SubSeq(Queue, 1, Len(got)) /\ Len(got) <= Len(Queue))'
  BY GotIsPrefix, PTL
<1>6. got' = SubSeq(Queue, 1, Len(got) + rSize) /\ Len(got) + rSize <= Len(Queue)
  BY <1>2, <1>4, <1>5
<1>7. ReadState = "open" /\ ReadState' = "open" /\ WriteState' = WriteState
  BY <1>1 DEF WriteState, ReadState, wtx
<1> QED
  BY <1>2, <1>3, <1>6, <1>7 DEF Fifo!Read

\* Destroying a valid transaction consumes what it read.
LEMMA ConsumeMaps ==
  ASSUME IInv, ReadEnd, ~rInvalidated
  PROVE  Fifo!Consume
<1>1. /\ rPc = "open" /\ rPc' = "none" /\ got' = <<>> /\ storage' = storage /\ tail' = tail
      /\ UNCHANGED wtx
  BY DEF ReadEnd, DropReadTx, tail
<1>2. /\ storage \in [Index -> Byte] /\ tail \in Index /\ head \in Index /\ rHead \in Index
      /\ heads \in Seq(Index) /\ heads # <<>>
  BY MappedState DEF IInv, TypeOK
<1>3. Pending' = Pending /\ ReadState' = "none" /\ WriteState' = WriteState
  BY <1>1 DEF Pending, Slice, ReadState, WriteState, wtx
<1>4. head' = rHead
  BY <1>2, StoreFacts DEF ReadEnd, head
<1>5. AvailableData(rHead, head) = Len(got) /\ Len(got) <= AvailableData(tail, head)
  BY <1>1, ReadFits, TypeFacts DEF IInv, ConsumerView
<1>6. SliceOf(storage, rHead, tail) =
        SubSeq(SliceOf(storage, head, tail), AvailableData(rHead, head) + 1,
               AvailableData(tail, head))
  BY <1>2, <1>5, SliceSuffix
<1>7. Queue' = SubSeq(Queue, Len(got) + 1, Len(Queue))
  BY <1>1, <1>4, <1>5, <1>6, MappedState, MappedNextState
<1>8. ReadState = "open"
  BY <1>1 DEF ReadState
<1> QED
  BY <1>1, <1>3, <1>7, <1>8 DEF Fifo!Consume

\* Destroying an invalidated one leaves what it read in the queue.
LEMMA ReadEndMaps ==
  ASSUME IInv, ReadEnd
  PROVE  Fifo!Consume \/ Fifo!AbandonRead
<1>1. CASE rInvalidated
  <2>1. /\ rPc = "open" /\ rPc' = "none" /\ got' = <<>> /\ storage' = storage
        /\ tail' = tail /\ head' = head /\ UNCHANGED wtx
    BY <1>1 DEF ReadEnd, DropReadTx, tail, head
  <2>2. Pending' = Pending /\ ReadState' = "none" /\ WriteState' = WriteState
    BY <2>1 DEF Pending, Slice, ReadState, WriteState, wtx
  <2>3. Queue' = Queue /\ ReadState = "failed"
    BY <1>1, <2>1 DEF Queue, Slice, ReadState
  <2> QED
    BY <2>1, <2>2, <2>3 DEF Fifo!AbandonRead
<1> QED
  BY <1>1, ConsumeMaps

\* A consumer that dies abandons the open read, if there is one.
LEMMA ConsumerRelaunchMaps ==
  ASSUME IInv, ConsumerRelaunch
  PROVE  Fifo!AbandonRead \/ UNCHANGED Fifo!vars
<1>1. /\ MultiProcess /\ rPc' = "none" /\ got' = <<>>
      /\ UNCHANGED <<storage, tail, head, wtx>>
  BY DEF ConsumerRelaunch, DropReadTx, tail, head
<1>2. Queue' = Queue /\ Pending' = Pending
  BY <1>1, SameBytes DEF wtx
<1>3. ReadState' = "none" /\ WriteState' = WriteState
  BY <1>1 DEF WriteState, ReadState, wtx
<1>4. CASE rPc = "none"
  <2>1. got = <<>> /\ ReadState = "none"
    BY <1>4 DEF IInv, NothingGotOutside, ReadState
  <2> QED
    BY <1>1, <1>2, <1>3, <2>1, FifoUnchanged
<1>5. CASE rPc # "none"
  <2>1. ReadState # "none"
    BY <1>5 DEF ReadState
  <2> QED
    BY <1>1, <1>2, <1>3, <2>1 DEF Fifo!AbandonRead
<1> QED
  BY <1>4, <1>5

--------------------------------------------------------------------------------
\* The refinement

\* A fresh queue is an empty FIFO.
LEMMA InitMaps ==
  Init => Fifo!Init
<1> SUFFICES ASSUME Init PROVE Fifo!Init
  OBVIOUS
<1>1. IInv /\ tail = head
  BY InitIsInvariant DEF Init, tail, head
<1>2. Queue = <<>>
  BY <1>1, MappedState, EmptySlice
<1> QED
  BY <1>2 DEF Init, Fifo!Init, Pending, WriteState, ReadState

\* Every step of the queue is a step of the FIFO or a stutter.
LEMMA StepMaps ==
  IInv /\ IInv' /\ CallsAreValid /\ [Next]_vars => [Fifo!Next]_(Fifo!vars)
<1> SUFFICES ASSUME IInv, IInv', CallsAreValid, [Next]_vars
             PROVE  Fifo!Next \/ UNCHANGED Fifo!vars
  OBVIOUS
<1>1. CASE Producer
  <2>1. CASE WriteBegin
    BY <2>1, WriteBeginMaps DEF Fifo!Next
  <2>2. CASE (\E bytes \in Buffers : Write(bytes)) \/ WriteSync
    BY <2>2, CallsStutter
  <2>3. CASE (\E core \in Core : WriteRefuse(core)) \/ WriteInvalidate
    BY <2>3, FailWriteMaps DEF Fifo!Next
  <2>4. CASE CopyIn
    BY <2>4, CopyInStutters
  <2>5. CASE WriteDone
    BY <2>5, WriteDoneMaps DEF Fifo!Next, Fifo!SeqOf, Buffers, SeqOf
  <2>6. CASE WriteEnd
    BY <2>6, WriteEndMaps DEF Fifo!Next
  <2>7. CASE ProducerRelaunch
    BY <2>7, ProducerRelaunchMaps DEF Fifo!Next
  <2> QED
    BY <1>1, <2>1, <2>2, <2>3, <2>4, <2>5, <2>6, <2>7 DEF Producer, WriteStep
<1>2. CASE Consumer
  <2>1. CASE ReadBegin
    BY <2>1, ReadBeginMaps DEF Fifo!Next
  <2>2. CASE (\E size \in 0 .. MaxSize : Read(size)) \/ ReadSync \/ CopyOut
    BY <2>2, CallsStutter
  <2>3. CASE (\E core \in Core : ReadRefuse(core)) \/ ReadInvalidate
    BY <2>3, FailReadMaps DEF Fifo!Next
  <2>4. CASE ReadDone
    BY <2>4, ReadDoneMaps DEF Fifo!Next
  <2>5. CASE ReadEnd
    BY <2>5, ReadEndMaps DEF Fifo!Next
  <2>6. CASE ConsumerRelaunch
    BY <2>6, ConsumerRelaunchMaps DEF Fifo!Next
  <2> QED
    BY <1>2, <2>1, <2>2, <2>3, <2>4, <2>5, <2>6 DEF Consumer, ReadStep
<1>3. CASE HeadVisible \/ TailVisible \/ UNCHANGED vars
  BY <1>3, MemoryStutters
<1> QED
  BY <1>1, <1>2, <1>3 DEF Next

\* Every behaviour of the queue is one of a bounded FIFO of bytes with atomic
\* transactions: nothing is lost, torn, reordered, duplicated or invented.
THEOREM ImplementsFifo ==
  Spec => IsFifo
BY InitMaps, StepMaps, Invariance, CallsStayValid, PTL DEF Spec, IsFifo, Fifo!Spec

--------------------------------------------------------------------------------
\* What a program sees that uses the queue: what the steps do to the bytes of
\* the queue, and to how far the consumer may see

\* A sequence behind another, place by place.
LEMMA Joined ==
  ASSUME NEW a \in Seq(Byte), NEW b \in Seq(Byte)
  PROVE  /\ a \o b \in Seq(Byte)  /\ Len(a \o b) = Len(a) + Len(b)
         /\ \A i \in 1 .. Len(a) : (a \o b)[i] = a[i]
         /\ \A i \in 1 .. Len(b) : (a \o b)[Len(a) + i] = b[i]
<1> DEFINE c == a \o b
<1>1. /\ Len(a) \in Nat  /\ Len(b) \in Nat  /\ c \in Seq(Byte)  /\ Len(c) = Len(a) + Len(b)
      /\ \A i \in 1 .. Len(a) + Len(b) : c[i] = IF i <= Len(a) THEN a[i] ELSE b[i - Len(a)]
  BY ConcatProperties, LenProperties
<1> HIDE DEF c
<1>2. \A i \in 1 .. Len(a) : c[i] = a[i]
  <2> TAKE i \in 1 .. Len(a)
  <2>1. i \in 1 .. Len(a) + Len(b) /\ i <= Len(a)
    BY <1>1
  <2> QED
    BY <1>1, <2>1
<1>3. \A i \in 1 .. Len(b) : c[Len(a) + i] = b[i]
  <2> TAKE i \in 1 .. Len(b)
  <2>1. Len(a) + i \in 1 .. Len(a) + Len(b) /\ ~(Len(a) + i <= Len(a)) /\ Len(a) + i - Len(a) = i
    BY <1>1
  <2> QED
    BY <1>1, <2>1
<1> QED
  BY <1>1, <1>2, <1>3 DEF c

\* A piece of a sequence, place by place.
LEMMA Piece ==
  ASSUME NEW s \in Seq(Byte), NEW a \in Nat, NEW b \in Nat, a <= b, b <= Len(s)
  PROVE  /\ SubSeq(s, a + 1, b) \in Seq(Byte)
         /\ Len(SubSeq(s, a + 1, b)) = b - a
         /\ \A i \in 1 .. b - a : SubSeq(s, a + 1, b)[i] = s[a + i]
<1> DEFINE u == SubSeq(s, a + 1, b)
<1>1. \A k \in a + 1 .. b : s[k] \in Byte
  BY LenProperties, ElementOfSeq
<1>2. /\ u \in Seq(Byte)
      /\ Len(u) = IF a + 1 <= b THEN b - (a + 1) + 1 ELSE 0
      /\ \A i \in 1 .. b - (a + 1) + 1 : u[i] = s[a + 1 + i - 1]
  BY <1>1, SubSeqProperties
<1> HIDE DEF u
<1>3. \A i \in 1 .. b - a : u[i] = s[a + i]
  <2> TAKE i \in 1 .. b - a
  <2>1. i \in 1 .. b - (a + 1) + 1 /\ a + 1 + i - 1 = a + i
    OBVIOUS
  <2> QED
    BY <1>2, <2>1
<1> QED
  BY <1>2, <1>3 DEF u

\* So is a beginning of one.
LEMMA Beginning ==
  ASSUME NEW s \in Seq(Byte), NEW n \in Nat, n <= Len(s)
  PROVE  /\ SubSeq(s, 1, n) \in Seq(Byte)
         /\ Len(SubSeq(s, 1, n)) = n
         /\ \A i \in 1 .. n : SubSeq(s, 1, n)[i] = s[i]
<1>1. /\ SubSeq(s, 0 + 1, n) \in Seq(Byte)
      /\ Len(SubSeq(s, 0 + 1, n)) = n - 0
      /\ \A i \in 1 .. n - 0 : SubSeq(s, 0 + 1, n)[i] = s[0 + i]
  BY Piece
<1>2. 0 + 1 = 1 /\ n - 0 = n /\ \A i \in 1 .. n : 0 + i = i
  OBVIOUS
<1> QED
  BY <1>1, <1>2

\* What a read transaction has returned, byte by byte.
LEMMA GotIs ==
  ASSUME IInv
  PROVE  /\ got \in Seq(Byte)  /\ Len(got) \in Nat  /\ Len(got) <= Len(Queue)
         /\ Queue \in Seq(Byte)  /\ Len(Queue) \in Nat
         /\ got = SubSeq(Queue, 1, Len(got))
         /\ \A k \in 1 .. Len(got) : got[k] = Queue[k]
<1>1. /\ got \in Seq(Byte)  /\ Len(got) \in Nat  /\ Len(got) <= Len(Queue)
      /\ Queue \in Seq(Byte)  /\ Len(Queue) \in Nat
      /\ got = SubSeq(Queue, 1, Len(got))
  BY MappedState, GotIsPrefix DEF IInv, TypeOK
<1>2. \A k \in 1 .. Len(got) : SubSeq(Queue, 1, Len(got))[k] = Queue[k]
  BY <1>1, Beginning
<1> QED
  BY <1>1, <1>2

\* How far the consumer may see, now and later, from the head on.
Seen ==
  {AvailableData(tails[i], head) : i \in 1 .. Len(tails)}
    \cup (IF rPc = "none" THEN {} ELSE {AvailableData(rCachedTail, head)})

\* A call that writes the given bytes behind the ones before has come back,
\* served or refused, or is under way.
Writing(before, bytes) ==
  /\ wPc # "none"
  /\ wPc = "open" => wInvalidated \/ Pending = before \o bytes
  /\ wPc # "open" => Pending = before /\ wBuf = bytes

LEMMA SeenStays ==
  ASSUME UNCHANGED <<tails, head, rPc, rCachedTail>>
  PROVE  Seen' = Seen
BY DEF Seen

\* Opening a write transaction: nothing is written yet.
LEMMA WriteBeginGives ==
  ASSUME IInv, CallsAreValid, WriteBegin
  PROVE  /\ UNCHANGED <<Queue, Seen, rtx>>
         /\ wPc' = "open" /\ ~wInvalidated' /\ Pending' = <<>>
<1>1. /\ wPc = "none" /\ wPc' = "open" /\ wInvalidated' = FALSE
      /\ UNCHANGED <<tails, heads, rtx>>
  BY DEF WriteBegin, shared, CallsAreValid
<1>2. Queue' = Queue /\ Pending' = Pending
  BY WriteBeginMaps DEF Fifo!BeginWrite
<1>3. Seen' = Seen
  BY <1>1, SeenStays DEF head, rtx
<1> QED
  BY <1>1, <1>2, <1>3 DEF Pending

\* Inside a call of write, up to its return or refusal.
LEMMA WriteKeepsBytes ==
  ASSUME IInv, IInv', CallsAreValid,
         \/ \E bytes \in Buffers : Write(bytes)
         \/ WriteSync \/ (\E core \in Core : WriteRefuse(core)) \/ CopyIn
  PROVE  UNCHANGED <<Queue, Pending, Seen, rtx>>
<1>1. UNCHANGED <<tails, heads, rtx>>
  BY DEF Write, WriteSync, WriteRefuse, CopyIn, shared
<1>2. Seen' = Seen
  BY <1>1, SeenStays DEF head, rtx
<1>3. CASE (\E bytes \in Buffers : Write(bytes)) \/ WriteSync
  BY <1>1, <1>2, <1>3, CallsStutter DEF Fifo!vars
<1>4. CASE \E core \in Core : WriteRefuse(core)
  BY <1>1, <1>2, <1>4, FailWriteMaps DEF Fifo!vars, Fifo!FailWrite
<1>5. CASE CopyIn
  BY <1>1, <1>2, <1>5, CopyInStutters DEF Fifo!vars
<1> QED
  BY <1>3, <1>4, <1>5

\* A call of write returns: its bytes are pending.
LEMMA WriteDoneGives ==
  ASSUME IInv, CallsAreValid, WriteDone
  PROVE  /\ UNCHANGED <<Queue, Seen, rtx>>
         /\ wPc' = "open" /\ ~wInvalidated' /\ Pending' = Pending \o wBuf
<1>1. wPc' = "open" /\ wInvalidated' = FALSE /\ UNCHANGED <<tails, heads, rtx>>
  BY DEF WriteDone, CallsAreValid
<1>2. Seen' = Seen
  BY <1>1, SeenStays DEF head, rtx
<1>3. Queue' = Queue /\ Pending' = Pending \o wBuf
  BY WriteDoneMaps DEF Fifo!Write
<1> QED
  BY <1>1, <1>2, <1>3

\* A write transaction ends: what is pending enters the queue, and becomes
\* visible as a whole, or is dropped.
LEMMA WriteEndGives ==
  ASSUME IInv, WriteEnd
  PROVE  /\ UNCHANGED rtx  /\ wPc' = "none"
         /\ wInvalidated => Queue' = Queue /\ Seen' = Seen
         /\ ~wInvalidated => /\ Queue' = Queue \o Pending
                             /\ Seen' \subseteq Seen \cup {Len(Queue) + Len(Pending)}
<1>1. /\ wPc = "open" /\ wPc' = "none" /\ heads' = heads
      /\ UNCHANGED <<rPc, rCachedTail, rtx>>
      /\ tails' = IF wInvalidated THEN tails ELSE Store(tails, wTail)
  BY DEF WriteEnd, DropWriteTx, rtx
<1>2. head' = head
  BY <1>1 DEF head
<1>3. ASSUME wInvalidated PROVE Queue' = Queue /\ Seen' = Seen
  <2>1. WriteState = "failed"
    BY <1>1, <1>3 DEF WriteState
  <2>2. Queue' = Queue
    BY <2>1, WriteEndMaps DEF Fifo!Commit, Fifo!AbandonWrite
  <2> QED
    BY <1>1, <1>2, <1>3, <2>2, SeenStays
<1>4. ASSUME ~wInvalidated
      PROVE  Queue' = Queue \o Pending /\ Seen' \subseteq Seen \cup {Len(Queue) + Len(Pending)}
  <2>1. tails \in Seq(Index) /\ tails # <<>> /\ wTail \in Index /\ tails' = Store(tails, wTail)
    BY <1>1, <1>4 DEF IInv, TypeOK
  <2>2. tail' = wTail
    BY <2>1, StoreFacts DEF tail
  <2>3. AvailableData(wTail, head) = Len(Queue) + Len(Pending)
    BY <1>1, QueueLength, WriteFits
  <2>4. Queue' = Queue \o Pending
    BY <1>4, CommitMaps DEF Fifo!Commit
  <2>5. ASSUME NEW i \in 1 .. Len(tails')
        PROVE  AvailableData(tails'[i], head) \in Seen \cup {Len(Queue) + Len(Pending)}
    <3>1. (i \in 1 .. Len(tails) /\ tails'[i] = tails[i]) \/ tails'[i] = wTail
      BY <2>1, StoreFacts
    <3> QED
      BY <2>3, <3>1 DEF Seen
  <2> QED
    BY <1>1, <1>2, <2>4, <2>5 DEF Seen
<1> QED
  BY <1>1, <1>3, <1>4

\* Opening a read transaction, and inside a call of read.
LEMMA ReadKeepsBytes ==
  ASSUME IInv, CallsAreValid,
         \/ ReadBegin
         \/ \E n \in 0 .. MaxSize : Read(n)
         \/ ReadSync \/ (\E core \in Core : ReadRefuse(core)) \/ CopyOut
  PROVE  UNCHANGED <<Queue, Pending, got, wtx>> /\ Seen' \subseteq Seen
<1>1. /\ UNCHANGED <<tails, heads, got, wtx>>
      /\ rCachedTail' \in {rCachedTail, tails[1]}
      /\ rPc = "none" => rCachedTail' = tails[1]
  BY DEF ReadBegin, Read, ReadSync, ReadRefuse, CopyOut, shared
<1>2. Seen' \subseteq Seen
  <2>1. Len(tails) \in Nat \ {0}
    BY TypeFacts DEF IInv
  <2>2. 1 \in 1 .. Len(tails)
    BY <2>1
  <2> QED
    BY <1>1, <2>2 DEF Seen, head
<1>3. CASE ReadBegin
  BY <1>1, <1>2, <1>3, ReadBeginMaps DEF Fifo!BeginRead
<1>4. CASE (\E n \in 0 .. MaxSize : Read(n)) \/ ReadSync \/ CopyOut
  BY <1>1, <1>2, <1>4, CallsStutter DEF Fifo!vars
<1>5. CASE \E core \in Core : ReadRefuse(core)
  BY <1>1, <1>2, <1>5, FailReadMaps DEF Fifo!vars, Fifo!FailRead
<1> QED
  BY <1>3, <1>4, <1>5

\* A call of read returns its bytes.
LEMMA ReadDoneGives ==
  ASSUME IInv, IInv', CallsAreValid, ReadDone
  PROVE  /\ UNCHANGED <<Queue, Pending, Seen, wtx>>
         /\ rPc' = "open" /\ ~rInvalidated' /\ Len(got') = Len(got) + rSize
         /\ \A k \in 1 .. Len(got) : got'[k] = got[k]
<1>1. /\ rPc' = "open" /\ rInvalidated' = FALSE /\ UNCHANGED <<tails, heads, rCachedTail, wtx>>
      /\ rPc = "copy" /\ got' = got \o rBuf /\ Len(rBuf) = rSize
  BY DEF ReadDone, CallsAreValid
<1>2. Seen' = Seen
  BY <1>1 DEF Seen, head
<1>3. Queue' = Queue /\ Pending' = Pending
  BY ReadDoneMaps DEF Fifo!Read
<1>4. got \in Seq(Byte) /\ rBuf \in Seq(Byte) /\ Len(got) \in Nat /\ Len(rBuf) \in Nat
  BY TypeFacts DEF IInv, TypeOK
<1>5. Len(got') = Len(got) + rSize /\ \A k \in 1 .. Len(got) : got'[k] = got[k]
  <2>1. /\ Len(got \o rBuf) = Len(got) + Len(rBuf)
        /\ \A k \in 1 .. Len(got) + Len(rBuf) :
             (got \o rBuf)[k] = IF k <= Len(got) THEN got[k] ELSE rBuf[k - Len(got)]
    BY <1>4, ConcatProperties
  <2>2. \A k \in 1 .. Len(got) : k \in 1 .. Len(got) + Len(rBuf) /\ k <= Len(got)
    BY <1>4
  <2> QED
    BY <1>1, <2>1, <2>2
<1> QED
  BY <1>1, <1>2, <1>3, <1>5

\* A read transaction ends: what it has returned leaves the queue, or stays.
LEMMA ReadEndGives ==
  ASSUME IInv, ReadEnd
  PROVE  /\ UNCHANGED <<Pending, wtx>>  /\ rPc' = "none"  /\ got' = <<>>
         /\ rInvalidated => Queue' = Queue /\ Seen' \subseteq Seen
         /\ ~rInvalidated => /\ Queue' = SubSeq(Queue, Len(got) + 1, Len(Queue))
                             /\ \A s \in Seen' : s + Len(got) \in Seen /\ s \in Nat
<1>1. /\ rPc = "open" /\ rPc' = "none" /\ got' = <<>> /\ tails' = tails /\ UNCHANGED wtx
      /\ heads' = IF rInvalidated THEN heads ELSE Store(heads, rHead)
  BY DEF ReadEnd, DropReadTx
<1>2. Pending' = Pending
  BY ReadEndMaps DEF Fifo!Consume, Fifo!AbandonRead
<1>3. ASSUME rInvalidated PROVE Queue' = Queue /\ Seen' \subseteq Seen
  <2>1. ReadState = "failed"
    BY <1>1, <1>3 DEF ReadState
  <2>2. Queue' = Queue
    BY <2>1, ReadEndMaps DEF Fifo!Consume, Fifo!AbandonRead
  <2>3. head' = head
    BY <1>1, <1>3 DEF head
  <2> QED
    BY <1>1, <2>2, <2>3 DEF Seen
<1>4. ASSUME ~rInvalidated
      PROVE  /\ Queue' = SubSeq(Queue, Len(got) + 1, Len(Queue))
             /\ \A s \in Seen' : s + Len(got) \in Seen /\ s \in Nat
  <2>1. Queue' = SubSeq(Queue, Len(got) + 1, Len(Queue))
    BY <1>4, ConsumeMaps DEF Fifo!Consume
  <2>2. heads \in Seq(Index) /\ heads # <<>> /\ rHead \in Index /\ heads' = Store(heads, rHead)
        /\ rCachedTail \in Index
    BY <1>1, <1>4 DEF IInv, TypeOK
  <2>3. head' = rHead
    BY <2>2, StoreFacts DEF head
  <2>4. /\ head \in Index  /\ Len(got) \in Nat  /\ AvailableData(rHead, head) = Len(got)
        /\ \A i \in 1 .. Len(tails) : tails[i] \in Index
    <3>1. rPc # "none" /\ TypeOK /\ ConsumerView
      BY <1>1 DEF IInv
    <3> QED
      BY <3>1, TypeFacts DEF ConsumerView
  <2>5. ASSUME NEW i \in 1 .. Len(tails)
        PROVE  /\ AvailableData(tails[i], rHead) \in Nat
               /\ AvailableData(tails[i], rHead) + Len(got) \in Seen
    <3>1. /\ tails[i] \in Index
          /\ AvailableData(rCachedTail, head) <= AvailableData(tails[i], head)
          /\ Len(got) <= AvailableData(rCachedTail, head)
      <4>1. rPc # "none" /\ ConsumerView
        BY <1>1 DEF IInv
      <4>2. Len(got) + (IF rPc = "copy" THEN rSize ELSE 0) = Len(got)
        BY <1>1, <2>4
      <4> QED
        BY <2>4, <4>1, <4>2 DEF ConsumerView
    <3>2. /\ AvailableData(tails[i], head) \in Nat /\ AvailableData(rCachedTail, head) \in Nat
          /\ AvailableData(tails[i], rHead) \in Nat
      BY <2>2, <2>4, <3>1, DataRange
    <3>3. AvailableData(rHead, head) <= AvailableData(tails[i], head)
      BY <2>4, <3>1, <3>2
    <3>4. AvailableData(tails[i], rHead) = AvailableData(tails[i], head) - AvailableData(rHead, head)
      BY <2>2, <2>4, <3>1, <3>3, DistancesSubtract
    <3>5. AvailableData(tails[i], rHead) + Len(got) = AvailableData(tails[i], head)
      BY <2>4, <3>2, <3>4
    <3> QED
      BY <3>2, <3>5 DEF Seen
  <2>6. Seen' = {AvailableData(tails[i], rHead) : i \in 1 .. Len(tails)}
    BY <1>1, <2>3 DEF Seen
  <2> QED
    BY <2>1, <2>5, <2>6
<1> QED
  BY <1>1, <1>2, <1>3, <1>4

\* Between the two sides, and while neither moves.
LEMMA MemoryKeepsBytes ==
  ASSUME IInv, HeadVisible \/ TailVisible \/ UNCHANGED vars
  PROVE  UNCHANGED <<Queue, Pending, wtx, rtx>> /\ Seen' \subseteq Seen
<1>1. UNCHANGED <<wtx, rtx>> /\ Queue' = Queue /\ Pending' = Pending
  BY MemoryStutters DEF HeadVisible, TailVisible, vars, Fifo!vars
<1>2. Seen' \subseteq Seen
  <2>1. CASE HeadVisible
    <3>1. head' = head /\ tails' = tails
      <4>1. heads \in Seq(Index)
        BY DEF IInv, TypeOK
      <4> QED
        BY <2>1, <4>1, ShiftFacts DEF HeadVisible, head
    <3> QED
      BY <1>1, <3>1, SeenStays DEF rtx
  <2>2. CASE TailVisible
    <3>1. tails \in Seq(Index) /\ Len(tails) > 1 /\ tails' = Tail(tails) /\ head' = head
      BY <2>2 DEF TailVisible, IInv, TypeOK, head
    <3>2. \A i \in 1 .. Len(tails') : i + 1 \in 1 .. Len(tails) /\ tails'[i] = tails[i + 1]
      BY <3>1, ShiftFacts
    <3> QED
      BY <1>1, <3>1, <3>2 DEF Seen, rtx
  <2>3. CASE UNCHANGED vars
    BY <2>3, SeenStays DEF vars, shared, rtx, head
  <2> QED
    BY <2>1, <2>2, <2>3
<1> QED
  BY <1>1, <1>2

\* A call of write goes on, or comes back.
LEMMA WritingStays ==
  ASSUME IInv, IInv', CallsAreValid, WriteStep
  PROVE  /\ UNCHANGED <<Queue, Seen, rtx>>  /\ wPc \notin {"none", "open"}
         /\ wPc' # "none"
         /\ wPc' = "open" => wInvalidated' \/ Pending' = Pending \o wBuf
         /\ wPc' # "open" => Pending' = Pending /\ wBuf' = wBuf
<1>1. CASE WriteSync \/ (\E core \in Core : WriteRefuse(core)) \/ CopyIn
  <2>1. UNCHANGED <<Queue, Pending, Seen, rtx>>
    BY <1>1, WriteKeepsBytes
  <2> QED
    BY <1>1, <2>1 DEF WriteSync, WriteRefuse, CopyIn
<1>2. CASE WriteDone
  <2>1. /\ UNCHANGED <<Queue, Seen, rtx>>
        /\ wPc' = "open"  /\ Pending' = Pending \o wBuf
    BY <1>2, WriteDoneGives
  <2> QED
    BY <1>2, <2>1 DEF WriteDone
<1> QED
  BY <1>1, <1>2 DEF WriteStep

\* The producer dies: what was pending is gone, what was committed stays.
LEMMA ProducerRelaunchGives ==
  ASSUME IInv, ProducerRelaunch
  PROVE  UNCHANGED <<Queue, Seen, rtx>> /\ wPc' = "none" /\ Pending' = <<>>
<1>1. UNCHANGED <<storage, tails, heads, rtx>> /\ wPc' = "none"
  BY DEF ProducerRelaunch, DropWriteTx
<1>2. UNCHANGED <<tail, head>>
  BY <1>1 DEF tail, head
<1> QED
  BY <1>1, <1>2, SeenStays DEF Queue, Slice, Pending, rtx

\* The consumer dies: what it had read and not committed is still there.
LEMMA ConsumerRelaunchGives ==
  ASSUME IInv, ConsumerRelaunch
  PROVE  /\ UNCHANGED <<Queue, Pending, wtx>> /\ Seen' \subseteq Seen
         /\ rPc' = "none" /\ got' = <<>>
<1>1. UNCHANGED <<storage, tails, heads, wtx>> /\ rPc' = "none" /\ got' = <<>>
  BY DEF ConsumerRelaunch, DropReadTx
<1>2. UNCHANGED <<tail, head>>
  BY <1>1 DEF tail, head
<1>3. UNCHANGED <<Queue, Pending>>
  BY <1>1, <1>2 DEF Queue, Pending, Slice, wtx
<1> QED
  BY <1>1, <1>2, <1>3 DEF Seen

================================================================================
