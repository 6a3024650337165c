-------------------------------- MODULE TxQueue --------------------------------
(***************************************************************************)
(* The queue of tx-queue.h / tx-queue.inl with its two users: one producer *)
(* running write transactions (tx_write_t) and one consumer running read   *)
(* transactions (tx_read_t) on a constructed queue, in one process         *)
(* (tx_queue_sp_t) or in two (tx_queue_mp_t).                              *)
(*                                                                         *)
(* Every action makes at most one access that the other side can interfere *)
(* with: a load or store of status_.head_ or status_.tail_, or the copy of *)
(* one byte.  What lies between two such accesses is local, or touches the *)
(* core hints, which decide nothing but whether a refused call yields.     *)
(*                                                                         *)
(* Visibility.  A store to head_ or tail_ is seen by its own side at once  *)
(* and by the other side later: heads and tails hold the values in the     *)
(* order they were stored, from the one the other side sees now to the     *)
(* newest one.  A load, relaxed or acquire, returns the value seen now;    *)
(* HeadVisible and TailVisible move the other side's view forward.  The    *)
(* projects are built for x86_64 only, where a byte stored before tail_ is *)
(* visible before it and a load is not moved after a later access, so the  *)
(* bytes themselves need no such history.                                  *)
(***************************************************************************)
EXTENDS RingIndex, SequencesExt

CONSTANTS Byte,            \* what a byte can be
          MaxSize,         \* the longest block the users pass to write or read
          Core,            \* the numbers GetCurrentProcessorNumber returns
          MultiProcess     \* TRUE: tx_queue_mp_t, whose users can be relaunched

NoCore == -1

ASSUME ByteAssumption == Byte # {}
ASSUME MaxSizeAssumption == MaxSize \in Nat
ASSUME CoreAssumption == Core \subseteq Nat
ASSUME MultiProcessAssumption == MultiProcess \in BOOLEAN

VARIABLES
  storage,                 \* storage_
  tails, heads,            \* stores to status_.tail_ / status_.head_, see above
  producer_core,           \* status_.producer_core_
  consumer_core,           \* status_.consumer_core_
  \* the producer's transaction (tx_write_t) and its current call of imp_write
  wPc,                     \* "none", "open", "sync", "full" or "copy"
  wTail, wCachedHead,      \* tail_, cached_head_
  wInvalidated,            \* invalidated_
  wBuf,                    \* _buffer and _size
  wCopied,                 \* how many of its bytes memcpy has copied
  \* the consumer's transaction (tx_read_t) and its current call of imp_read
  rPc,                     \* "none", "open", "sync", "empty" or "copy"
  rHead, rCachedTail,      \* head_, cached_tail_
  rInvalidated,            \* invalidated_
  rSize,                   \* _size
  rBuf,                    \* the bytes memcpy has copied to _buffer
  got                      \* the bytes earlier calls of the transaction returned

shared == <<storage, tails, heads, producer_core, consumer_core>>
wtx    == <<wPc, wTail, wCachedHead, wInvalidated, wBuf, wCopied>>
rtx    == <<rPc, rHead, rCachedTail, rInvalidated, rSize, rBuf, got>>
vars   == <<shared, wtx, rtx>>

\* The newest value of status_.tail_ / status_.head_: what its owner loads.
tail == Last(tails)
head == Last(heads)

Buffers == SeqOf(Byte, MaxSize)

\* A store of v; storing the value that is there already changes nothing.
Store(history, v) == IF v = Last(history) THEN history ELSE Append(history, v)

--------------------------------------------------------------------------------
\* The producer

\* The transaction object is gone; its members, which nobody reads any more,
\* go to a fixed value.
DropWriteTx ==
  /\ wPc' = "none"  /\ wTail' = 0  /\ wCachedHead' = 0
  /\ wInvalidated' = FALSE  /\ wBuf' = <<>>  /\ wCopied' = 0

\* tx_write_t::tx_write_t on a queue that is_ok()
WriteBegin ==
  /\ wPc = "none"
  /\ wPc' = "open"
  /\ wTail' = tail
  /\ wCachedHead' = heads[1]
  /\ UNCHANGED <<shared, wInvalidated, wBuf, wCopied, rtx>>

\* imp_write up to the first test of the space.  A call on an invalidated
\* transaction returns false at once and changes nothing.
Write(bytes) ==
  /\ wPc = "open"
  /\ ~wInvalidated
  /\ wBuf' = bytes
  /\ wPc' = IF Len(bytes) > AvailableSpace(wCachedHead, wTail) THEN "sync" ELSE "copy"
  /\ UNCHANGED <<shared, wTail, wCachedHead, wInvalidated, wCopied, rtx>>

WriteSync_NoReload ==
  /\ wPc = "sync"
  /\ wPc' = IF Len(wBuf) > AvailableSpace(wCachedHead, wTail) THEN "full" ELSE "copy"
  /\ UNCHANGED <<shared, wTail, wCachedHead, wInvalidated, wBuf, wCopied, rtx>>

WriteSync_NoRecheck ==
  /\ wPc = "sync"
  /\ wCachedHead' = heads[1]
  /\ wPc' = "copy"
  /\ UNCHANGED <<shared, wTail, wInvalidated, wBuf, wCopied, rtx>>

\* imp_write: load head_ again and repeat the test
WriteSync ==
  /\ wPc = "sync"
  /\ wCachedHead' = heads[1]
  /\ wPc' = IF Len(wBuf) > AvailableSpace(wCachedHead', wTail) THEN "full" ELSE "copy"
  /\ UNCHANGED <<shared, wTail, wInvalidated, wBuf, wCopied, rtx>>

\* imp_write: no room.  Publish the core, perhaps yield, and give up.
WriteRefuse(core) ==
  /\ wPc = "full"
  /\ producer_core' = core
  /\ wInvalidated' = TRUE
  /\ wBuf' = <<>>
  /\ wPc' = "open"
  /\ UNCHANGED <<storage, tails, heads, consumer_core, wTail, wCachedHead, wCopied, rtx>>

\* imp_write: one byte of the memcpy calls
CopyIn ==
  /\ wPc = "copy"
  /\ wCopied < Len(wBuf)
  /\ storage' = [storage EXCEPT ![Slot(wTail, Len(wBuf), wCopied)] = wBuf[wCopied + 1]]
  /\ wCopied' = wCopied + 1
  /\ UNCHANGED <<tails, heads, producer_core, consumer_core,
                 wPc, wTail, wCachedHead, wInvalidated, wBuf, rtx>>

WriteDone_Publishes ==
  /\ wPc = "copy"
  /\ wCopied = Len(wBuf)
  /\ wTail' = Advance(wTail, Len(wBuf))
  /\ tails' = Store(tails, wTail')
  /\ producer_core' = NoCore
  /\ wPc' = "open"  /\ wBuf' = <<>>  /\ wCopied' = 0
  /\ UNCHANGED <<storage, heads, consumer_core, wCachedHead, wInvalidated, rtx>>

\* imp_write: advance tail_, withdraw the core hint, return true
WriteDone ==
  /\ wPc = "copy"
  /\ wCopied = Len(wBuf)
  /\ wTail' = Advance(wTail, Len(wBuf))
  /\ producer_core' = NoCore
  /\ wPc' = "open"  /\ wBuf' = <<>>  /\ wCopied' = 0
  /\ UNCHANGED <<storage, tails, heads, consumer_core, wCachedHead, wInvalidated, rtx>>

\* tx_write_t::invalidate
WriteInvalidate ==
  /\ wPc = "open"
  /\ wInvalidated' = TRUE
  /\ UNCHANGED <<shared, wPc, wTail, wCachedHead, wBuf, wCopied, rtx>>

WriteEnd_Unconditional ==
  /\ wPc = "open"
  /\ tails' = Store(tails, wTail)
  /\ DropWriteTx
  /\ UNCHANGED <<storage, heads, producer_core, consumer_core, rtx>>

\* tx_write_t::~tx_write_t: commit, unless invalidated
WriteEnd ==
  /\ wPc = "open"
  /\ tails' = IF wInvalidated THEN tails ELSE Store(tails, wTail)
  /\ DropWriteTx
  /\ UNCHANGED <<storage, heads, producer_core, consumer_core, rtx>>

ProducerRelaunch_ZeroStatus ==
  /\ MultiProcess
  /\ DropWriteTx
  /\ producer_core' = NoCore
  /\ consumer_core' = NoCore
  /\ tails' = <<0>>  /\ heads' = <<0>>
  /\ UNCHANGED <<storage, rtx>>

\* The producer process dies, at any point, and a new one constructs its
\* tx_queue_mp_t on the same shared memory, which the consumer has held in the
\* meantime.  (Memory that nobody holds is gone: InteractiveSession.)  The
\* placement new gives the core hints their default -1 and leaves head_ and
\* tail_ as they are.
ProducerRelaunch ==
  /\ MultiProcess
  /\ DropWriteTx
  /\ producer_core' = NoCore
  /\ consumer_core' = NoCore
  /\ UNCHANGED <<storage, tails, heads, rtx>>

--------------------------------------------------------------------------------
\* The consumer

\* Likewise for a read transaction
DropReadTx ==
  /\ rPc' = "none"  /\ rHead' = 0  /\ rCachedTail' = 0
  /\ rInvalidated' = FALSE  /\ rSize' = 0  /\ rBuf' = <<>>  /\ got' = <<>>

\* tx_read_t::tx_read_t on a queue that is_ok()
ReadBegin ==
  /\ rPc = "none"
  /\ rPc' = "open"
  /\ rHead' = head
  /\ rCachedTail' = tails[1]
  /\ UNCHANGED <<shared, wtx, rInvalidated, rSize, rBuf, got>>

\* imp_read up to the first test of the data.  A call on an invalidated
\* transaction returns false at once and changes nothing.
Read(size) ==
  /\ rPc = "open"
  /\ ~rInvalidated
  /\ rSize' = size
  /\ rPc' = IF size > AvailableData(rCachedTail, rHead) THEN "sync" ELSE "copy"
  /\ UNCHANGED <<shared, wtx, rHead, rCachedTail, rInvalidated, rBuf, got>>

ReadSync_NoReload ==
  /\ rPc = "sync"
  /\ rPc' = IF rSize > AvailableData(rCachedTail, rHead) THEN "empty" ELSE "copy"
  /\ UNCHANGED <<shared, wtx, rHead, rCachedTail, rInvalidated, rSize, rBuf, got>>

ReadSync_NoRecheck ==
  /\ rPc = "sync"
  /\ rCachedTail' = tails[1]
  /\ rPc' = "copy"
  /\ UNCHANGED <<shared, wtx, rHead, rInvalidated, rSize, rBuf, got>>

\* imp_read: load tail_ again and repeat the test
ReadSync ==
  /\ rPc = "sync"
  /\ rCachedTail' = tails[1]
  /\ rPc' = IF rSize > AvailableData(rCachedTail', rHead) THEN "empty" ELSE "copy"
  /\ UNCHANGED <<shared, wtx, rHead, rInvalidated, rSize, rBuf, got>>

\* imp_read: not enough data.  Publish the core, perhaps yield, and give up.
ReadRefuse(core) ==
  /\ rPc = "empty"
  /\ consumer_core' = core
  /\ rInvalidated' = TRUE
  /\ rSize' = 0
  /\ rPc' = "open"
  /\ UNCHANGED <<storage, tails, heads, producer_core, wtx, rHead, rCachedTail, rBuf, got>>

\* imp_read: one byte of the memcpy calls
CopyOut ==
  /\ rPc = "copy"
  /\ Len(rBuf) < rSize
  /\ rBuf' = Append(rBuf, storage[Slot(rHead, rSize, Len(rBuf))])
  /\ UNCHANGED <<shared, wtx, rPc, rHead, rCachedTail, rInvalidated, rSize, got>>

ReadDone_Publishes ==
  /\ rPc = "copy"
  /\ Len(rBuf) = rSize
  /\ rHead' = Advance(rHead, rSize)
  /\ heads' = Store(heads, rHead')
  /\ got' = got \o rBuf
  /\ consumer_core' = NoCore
  /\ rPc' = "open"  /\ rSize' = 0  /\ rBuf' = <<>>
  /\ UNCHANGED <<storage, tails, producer_core, wtx, rCachedTail, rInvalidated>>

\* imp_read: advance head_, withdraw the core hint, return true
ReadDone ==
  /\ rPc = "copy"
  /\ Len(rBuf) = rSize
  /\ rHead' = Advance(rHead, rSize)
  /\ got' = got \o rBuf
  /\ consumer_core' = NoCore
  /\ rPc' = "open"  /\ rSize' = 0  /\ rBuf' = <<>>
  /\ UNCHANGED <<storage, tails, heads, producer_core, wtx, rCachedTail, rInvalidated>>

\* tx_read_t::invalidate
ReadInvalidate ==
  /\ rPc = "open"
  /\ rInvalidated' = TRUE
  /\ UNCHANGED <<shared, wtx, rPc, rHead, rCachedTail, rSize, rBuf, got>>

\* tx_read_t::~tx_read_t: commit, unless invalidated
ReadEnd ==
  /\ rPc = "open"
  /\ heads' = IF rInvalidated THEN heads ELSE Store(heads, rHead)
  /\ DropReadTx
  /\ UNCHANGED <<storage, tails, producer_core, consumer_core, wtx>>

ConsumerRelaunch_ZeroHead ==
  /\ MultiProcess
  /\ DropReadTx
  /\ producer_core' = NoCore
  /\ consumer_core' = NoCore
  /\ heads' = <<0>>
  /\ UNCHANGED <<storage, tails, wtx>>

\* The consumer process dies, at any point, and a new one constructs its
\* tx_queue_mp_t on the same shared memory, which the producer has held.
ConsumerRelaunch ==
  /\ MultiProcess
  /\ DropReadTx
  /\ producer_core' = NoCore
  /\ consumer_core' = NoCore
  /\ UNCHANGED <<storage, tails, heads, wtx>>

--------------------------------------------------------------------------------
\* The other side comes to see the next store

HeadVisible ==
  /\ Len(heads) > 1
  /\ heads' = Tail(heads)
  /\ UNCHANGED <<storage, tails, producer_core, consumer_core, wtx, rtx>>

TailVisible ==
  /\ Len(tails) > 1
  /\ tails' = Tail(tails)
  /\ UNCHANGED <<storage, heads, producer_core, consumer_core, wtx, rtx>>

--------------------------------------------------------------------------------
\* The memory is zeroed; the constructors store 0 in head_ and tail_ (sp) or
\* find it there (mp).  What the bytes of storage_ are does not matter.
Init ==
  /\ storage \in [Index -> Byte]
  /\ tails = <<0>>  /\ heads = <<0>>
  /\ producer_core = NoCore  /\ consumer_core = NoCore
  /\ wPc = "none"  /\ wTail = 0  /\ wCachedHead = 0
  /\ wInvalidated = FALSE  /\ wBuf = <<>>  /\ wCopied = 0
  /\ rPc = "none"  /\ rHead = 0  /\ rCachedTail = 0
  /\ rInvalidated = FALSE  /\ rSize = 0  /\ rBuf = <<>>  /\ got = <<>>

\* One step inside a write call, with nothing left for the caller to choose
WriteStep == WriteSync \/ (\E core \in Core : WriteRefuse(core)) \/ CopyIn \/ WriteDone

ReadStep == ReadSync \/ (\E core \in Core : ReadRefuse(core)) \/ CopyOut \/ ReadDone

Producer ==
  \/ WriteBegin
  \/ \E bytes \in Buffers : Write(bytes)
  \/ WriteStep
  \/ WriteInvalidate
  \/ WriteEnd
  \/ ProducerRelaunch

Consumer ==
  \/ ReadBegin
  \/ \E size \in 0 .. MaxSize : Read(size)
  \/ ReadStep
  \/ ReadInvalidate
  \/ ReadEnd
  \/ ConsumerRelaunch

Next == Producer \/ Consumer \/ HeadVisible \/ TailVisible

Spec == Init /\ [][Next]_vars

--------------------------------------------------------------------------------
\* The bytes stored from index i up to index j
Slice(i, j) == [k \in 1 .. AvailableData(j, i) |-> storage[Mask(i + k - 1)]]

Queue   == Slice(head, tail)
Pending == IF wPc = "none" THEN <<>> ELSE Slice(tail, wTail)

WriteState == IF wPc = "none" THEN "none" ELSE IF wInvalidated THEN "failed" ELSE "open"
ReadState  == IF rPc = "none" THEN "none" ELSE IF rInvalidated THEN "failed" ELSE "open"

Fifo == INSTANCE TxFifo WITH queue <- Queue, pending <- Pending, delivered <- got,
                             writer <- WriteState, reader <- ReadState

--------------------------------------------------------------------------------
\* Properties

\* The values the variables take.
TypeOK ==
  /\ storage \in [Index -> Byte]
  /\ tails \in Seq(Index) /\ tails # <<>>
  /\ heads \in Seq(Index) /\ heads # <<>>
  /\ producer_core \in Core \cup {NoCore}
  /\ consumer_core \in Core \cup {NoCore}
  /\ wPc \in {"none", "open", "sync", "full", "copy"}
  /\ wTail \in Index /\ wCachedHead \in Index
  /\ wInvalidated \in BOOLEAN
  /\ wBuf \in Buffers
  /\ wCopied \in 0 .. Len(wBuf)
  /\ rPc \in {"none", "open", "sync", "empty", "copy"}
  /\ rHead \in Index /\ rCachedTail \in Index
  /\ rInvalidated \in BOOLEAN
  /\ rSize \in 0 .. MaxSize
  /\ rBuf \in Buffers /\ Len(rBuf) <= rSize
  /\ got \in Seq(Byte)

\* A copy into the storage stays inside it and clear of every byte that is
\* committed and not consumed, the ones the consumer is copying out now
\* included, however old the head the producer decided on is.
NoOverwrite ==
  wPc = "copy" =>
    LET written == Slots(wTail, Len(wBuf))
    IN  /\ written \subseteq Index
        /\ written \cap {Mask(head + k) : k \in 0 .. Len(Queue) - 1} = {}

\* A copy out of the storage takes only committed bytes that no earlier read
\* of the transaction has returned, however old the tail it decided on is.
ReadsCommitted ==
  rPc = "copy" =>
    Slots(rHead, rSize) \subseteq {Mask(head + k) : k \in Len(got) .. Len(Queue) - 1}

\* Both sides may look at an index that has moved on, but each only errs to
\* its own disadvantage: the producer never counts on more room than there
\* is, the consumer never on more data.
NeverOptimistic ==
  /\ wPc # "none" =>
       AvailableSpace(wCachedHead, wTail) <= Capacity - 1 - Len(Queue) - Len(Pending)
  /\ rPc # "none" =>
       AvailableData(rCachedTail, rHead) <= Len(Queue) - Len(got)

\* A write is refused only for want of room: when the producer sees the
\* newest head as it loads it again, refusing means the bytes do not fit.
RefusalIsReal ==
  [][wPc = "sync" /\ wPc' = "full" /\ Len(heads) = 1
       => Len(Queue) + Len(Pending) + Len(wBuf) > Capacity - 1]_vars

\* A read is refused only for want of data: when the consumer sees the newest
\* tail as it loads it again, refusing means the bytes are not there.
EmptinessIsReal ==
  [][rPc = "sync" /\ rPc' = "empty" /\ Len(tails) = 1
       => Len(got) + rSize > Len(Queue)]_vars

\* The queue is a bounded FIFO of bytes with atomic transactions (TxFifo).
IsFifo == Fifo!Spec

--------------------------------------------------------------------------------
\* Why they hold: the inductive invariant behind the properties above, the
\* one TxQueueProofs proves.

\* Between calls there is no half-done copy.
NoCopyInProgress ==
  /\ wPc # "copy" => wCopied = 0
  /\ rPc # "copy" => rBuf = <<>>

\* The heads the producer has still to see come in the order in which the
\* consumer stored them, each leaving no more data than the one before.
HeadsInOrder ==
  \A i, j \in 1 .. Len(heads) :
    i <= j => AvailableData(tail, heads[j]) <= AvailableData(tail, heads[i])

\* Likewise the tails the consumer has still to see: each adds to the data.
TailsInOrder ==
  \A i, j \in 1 .. Len(tails) :
    i <= j => AvailableData(tails[i], head) <= AvailableData(tails[j], head)

\* The head a write transaction works with is no newer than any the producer
\* may still see, and what the transaction has written, with the block it is
\* copying, fits in front of it.
ProducerView ==
  wPc # "none" =>
    /\ \A i \in 1 .. Len(heads) :
         AvailableData(tail, heads[i]) <= AvailableData(tail, wCachedHead)
    /\ AvailableData(tail, wCachedHead) + AvailableData(wTail, tail)
         + (IF wPc = "copy" THEN Len(wBuf) ELSE 0) < Capacity

\* The tail a read transaction works with is no newer than any the consumer
\* may still see, and what the transaction has read, with the block it is
\* copying, lies behind it.
ConsumerView ==
  rPc # "none" =>
    /\ \A i \in 1 .. Len(tails) :
         AvailableData(rCachedTail, head) <= AvailableData(tails[i], head)
    /\ AvailableData(rHead, head) = Len(got)
    /\ Len(got) + (IF rPc = "copy" THEN rSize ELSE 0) <= AvailableData(rCachedTail, head)

\* The bytes copied so far are where they belong: those of the block being
\* written behind wTail, those a read transaction took still in the storage.
CopiesIntact ==
  /\ wPc = "copy" => \A k \in 1 .. wCopied : storage[Mask(wTail + k - 1)] = wBuf[k]
  /\ rPc = "copy" => \A k \in 1 .. Len(rBuf) : rBuf[k] = storage[Mask(rHead + k - 1)]
  /\ \A k \in 1 .. Len(got) : got[k] = storage[Mask(head + k - 1)]

\* No transaction, nothing returned.
NothingGotOutside == rPc = "none" => got = <<>>

IInv ==
  /\ TypeOK
  /\ NoCopyInProgress
  /\ HeadsInOrder /\ TailsInOrder
  /\ ProducerView /\ ConsumerView
  /\ CopiesIntact /\ NothingGotOutside

================================================================================
