# tx-queue: specification, model checking and proofs

`tx-queue` is a C++20 header-only circular byte queue for one producer and one
consumer, in one process (`tx_queue_sp_t`) or in two that share memory
(`tx_queue_mp_t`).  Writes and reads are grouped in transactions: an object
whose constructor looks at the indices, whose calls copy bytes, and whose
destructor commits everything at once unless a call failed.  This directory
holds a TLA+ model of it, what TLC checks of the model on small instances, and
what TLAPS proves of it for every value of the constants.

Paths below are relative to the repository; `inl` is `include/tx-queue.inl`.

## 1. The system

| Part | Code | State it keeps | Operations |
|---|---|---|---|
| queue objects | `include/tx-queue.h:50-95`, `inl:13-107` | `storage_`, `capacity_`; `tail_`, `head_`, `producer_core_`, `consumer_core_` in `tx_queue_status_t` | the two constructors, `is_ok`, `capacity`, destructor |
| write transaction | `inl:115-226` | `tail_`, `cached_head_`, `invalidated_` | constructor, `write` (four overloads over `imp_write`), `invalidate`, destructor |
| read transaction | `inl:234-336` | `head_`, `cached_tail_`, `invalidated_` | constructor, `read` (three overloads over `imp_read`), `invalidate`, destructor |
| transfer jobs | `utests/common/utest_jobs.inl:87-204` | `total_data_`, `chunk_size`, hash state, attempts | `run` of the transmitter and of the receiver |
| interactive jobs | `utests/common/utest_jobs.inl:217-271` | none between rounds | send a number and a time stamp; print what arrives |
| shared memory | `utests/common/shared-memory.inl` | file mapping, view, size header | create, open, `operator*`, destructor |
| programs | `utests/inter/*.cpp`, `utests/intra/main.cpp` | the queue and the jobs | start-up, waiting for the memory, start-time handshake |
| hashes | `utests/common/checksum.h`, `sha256.h` | sum; block buffer and chaining values | `update`, `to_digest` |
| helpers, build files | `utests/common/misc.h`, `*.lua`, `support/` | none that matters here | formatting, affinity, project generation |

**Interaction.**  Producer and consumer share only `storage_` and the four
words of the status.  `tail_` is stored by the producer (release, in the
destructor of `tx_write_t`), `head_` by the consumer; each side loads its own
index relaxed, and the other's first relaxed, in the constructor, then acquire
when that value does not suffice.  Nothing locks and nothing blocks: a call
that cannot be served marks its transaction invalid and returns `false`, and
the jobs spin.  The jobs run in two threads of one program (`intra`) or in two
programs (`inter`) which meet through a named mapping and agree on a start
time sent through the queue itself.

**What is hard.**  The two `memcpy` of one side overlap in time with those of
the other; each side decides on a value of the other's index that may be long
out of date; a block may straddle the end of the storage; full and empty must
not be confused; a message made of several writes must appear as a whole or
not at all; a process may die anywhere and be launched again on memory that is
in use; the jobs must not take a failure for an end mark.  `PROJECT.json`
lists these hazards line by line, with the properties that cover each.

**What makes each part correct.**

* *queue and transactions*: bounded FIFO of bytes, committed atomically; no
  byte in use is overwritten, none is read before its commit or twice; the
  stale indices only ever cost a refusal, and a refusal that saw the newest
  index is a real one; a relaunched process finds the committed bytes intact.
* *constructors*: a queue that `is_ok()` has a power of two as capacity and
  lies inside its memory; what is allocated is whole cache lines.
* *transfer jobs*: the receiver gets the buffer byte for byte, stops exactly
  at its end, and both jobs do end.
* *interactive jobs*: the pair arrives whole, in order and, as long as the
  section lives, in the end; what is reported as sent is sent.
* *shared memory and programs*: a program works only on a section that is
  there, with the producer's size; what one producer sent one consumer gets,
  also when the producer has ended or the consumer came late; the start time,
  the sizes and the data are not taken for one another.
* *hashes*: the digest depends on the bytes, not on how they were cut, and is
  that of the standard's padding; both ends of a transfer agree.

## 2. Modules

| Module | What it is |
|---|---|
| `RingIndex` | the index arithmetic: `Mask`, `AvailableSpace`, `AvailableData`, `Advance`, `Slot` |
| `TxFifo` | the abstract specification: a bounded FIFO with transactions, no storage or indices |
| `TxQueue` | a queue with its producer and its consumer; extends `RingIndex`, refines `TxFifo` |
| `BufferTransfer` | the transmit and receive jobs on `TxQueue`, their checksums, and `main` of `utests/intra` that compares them |
| `InterSession` | the two programs of `utests/inter` and their shared memory, above the FIFO that `TxQueue` implements |
| `Sha256Blocks` | how `sha256.h` cuts a message into blocks and pads it |
| `InteractiveSession` | the interactive jobs on `TxQueue`, in processes that may die |
| `QueueConstruction` | both constructors on machine words of `Width` bits |
| `MCTxQueue`, `MCBufferTransfer`, `MCInteractiveSession`, `MCInterSession`, `MCQueueConstruction`, `MCSha256Blocks` | instances for TLC |
| `TxQueueProofs` | distances and offsets in the ring; the inductive invariant and the safety theorems |
| `TxQueueRefinement` | `TxQueue` implements `TxFifo`; and what each step does to the queue, for a program above it |
| `BufferTransferProofs` | the transfer ends with the whole buffer, and with equal hashes |
| `InteractiveSessionProofs` | what is printed was sent, and nothing leaves the queue unprinted |
| `InterSessionProofs` | a program at work holds a section of the right size; the consumer takes what it reads for what it is, and ends with all of the data |
| `Sha256Proofs` | the blocks hold the message, and what is hashed is the standard's padding of it |
| `QueueConstructionProofs` | bits, masks and shifts on words of every width; what the constructors leave behind |
| `Induction` | induction on numbers, and what it says of `FlattenSeq`; laws of division and remainder |

Definitions whose name has a suffix such as `WriteSync_NoReload` are no part of
the model: each is the definition after it with a plausible mistake, and
`PROJECT.json` says which property that mistake breaks.

### 2.1 TxQueue and the code

Every action makes at most one access the other side can interfere with.

| Action | Code |
|---|---|
| `WriteBegin` / `ReadBegin` | constructors of the transactions, `inl:115-122`, `234-241` |
| `Write(bytes)` / `Read(size)` | a call up to the first test, `inl:165-173`, `275-283` |
| `WriteSync` / `ReadSync` | acquire load and second test, `inl:174-176`, `284-286` |
| `WriteRefuse` / `ReadRefuse` | store the core hint, perhaps yield, invalidate, `inl:177-189`, `287-299` |
| `CopyIn` / `CopyOut` | one byte of the copy, `inl:195-201`, `305-311` |
| `WriteDone` / `ReadDone` | advance the local index, withdraw the hint, `inl:205-213`, `315-323` |
| `WriteInvalidate` / `ReadInvalidate` | `invalidate`, `inl:216-219`, `326-329` |
| `WriteEnd` / `ReadEnd` | the destructors, `inl:221-226`, `331-336` |
| `ProducerRelaunch` / `ConsumerRelaunch` | the process dies anywhere; a new one runs `inl:80-106` on the same memory, which the other process has held meanwhile |
| `HeadVisible` / `TailVisible` | the other side comes to see the next store |

`wPc` and `rPc` say where in a call a side is; a transaction that is gone has
its members at fixed values, so that they do not multiply states.  `got`
records what a read transaction has returned, for the mapping to `TxFifo`.

*Memory.*  A store to `head_` or `tail_` takes its time to reach the other
side: `heads` and `tails` keep the values stored from the one the other side
sees now to the newest.  Loads, relaxed or acquire, return the first of them.
This is the freedom x86-64 gives (the only architecture the projects are
generated for, `support/qbs.lua:96`): stores of one side are seen in order,
and loads are not moved after later accesses.  The release of an index is
therefore never seen before the bytes, and the bytes need no history.  What
weaker machines might do with the relaxed loads of `inl:118-119` and
`inl:237-238` is not modelled (section 5).

*What is abstracted.*  The value of a byte is a member of `Byte`; lengths are
up to `MaxSize`.  The overloads of `write` and `read` reduce to calls of
`imp_write` and `imp_read` with one block each, and the users of the model may
make any sequence of calls.  One overload departs from its declaration: for an
empty `char` array `inl:148` returns `false` without a call of `imp_write`, so the
transaction stays valid, where `tx-queue.h:102` says that it invalidates itself;
nothing here writes one, and the model has no such call.  The core hints are written as in the code; all
they decide is whether a refused call yields, which no action needs.

### 2.2 BufferTransfer and the code

The jobs' actions are conjoined with the actions of `TxQueue` they call, so a
chunk is `SendBegin`, `SendHeader`, the steps of that call, `SendPayload`, its
steps, and `SendCheck` (`utest_jobs.inl:110-129`).  The size of a chunk is drawn
anew at every attempt.  A header is `HeaderSize` equal bytes: were it made of
two messages, the bytes would differ.  `received` keeps the bytes themselves,
where the job keeps their number.  `tHash` and `xHash` are the sums of
`checksum.h:39-43` modulo `HashWord`; `Compare` is the end of `transmision` in
`utests/intra/main.cpp:120-148`.

### 2.3 InteractiveSession and the code

`KeyRelease`, `SendNumber`, `SendStamp` and `SendEnd` are one round of the
transmitter (`utest_jobs.inl:223-242`); the variadic `write` (`inl:154-161`) goes on
to the stamp only when the number was served.  `ReceiveBegin`, `ReceiveNumber`,
`ReceiveStamp`, `PrintPair` and `ReceiveEnd` are one round of the receiver
(`utest_jobs.inl:259-270`), which prints before its transaction ends.
`accepted`, `reported` and `printed` record what happened to each message; the time
stamp of a message is the number of its key press.

A process that dies and one that is launched are steps of their own, with anything
in between.  `holders` are the processes that are alive, and with them the section:

| Action | Code |
|---|---|
| `TransmitterDies`, `ReceiverDies` | the process is gone, and its handle and view with it (`shared-memory.inl:20-27`) |
| `TransmitterLaunch`, `ReceiverLaunch` | `main` of either program finds the section that the other process holds, and constructs its queue on it |
| `TransmitterCreates` | nobody held the section: `create_buffer` gets a new one, zeroed, with an empty queue (`shared-memory.inl:40-66`) |

When both are dead the section is gone, and the messages in its queue are lost.
A receiver that is launched then waits, and can only open the section of the next
transmitter.  `accepted`, `reported` and `printed` begin anew with a section.  How
a launch proceeds, step by step, is in `InterSession`; here it is one step.  In one
process (`intra`, `MultiProcess = FALSE`) nobody dies alone and there is no such step.

### 2.4 InterSession and the code

| Action | Code |
|---|---|
| `LaunchProducer`, `LaunchConsumer` | the user starts a program (`producer.cpp:32`, `consumer.cpp:34`) |
| `Create`, `StoreHeader` | `shared-memory.inl:40-60`, `62-65`: two steps, since the section is visible in between |
| `CreateFails` | `CreateFileMapping` or `MapViewOfFile` failed, and `operator*` tries once more (`shared-memory.inl:29-38`) |
| `SendStamp` | `producer.cpp:104-110` |
| `SendChunk`, `SendMark` | one transaction of the transmitter that got through (`utest_jobs.inl:110-140`) |
| `Open`, `OpenFails`, `Sleep` | `shared-memory.inl:68-79` as called by the constructor, by the loop and after it (`consumer.cpp:37-47`) |
| `Attach` | the size header is read and the queue constructed (`shared-memory.inl:76`, `consumer.cpp:51-58`) |
| `ReadStamp`, `ReceiveChunk` | `consumer.cpp:96-107`, one transaction of the receiver that got through |
| `ProducerExit`, `ConsumerExit`, `ProducerDies`, `ConsumerDies` | the process is gone, in order or not, and its handle and view with it |

`holders` and `section` are the kernel object: it exists while a process holds
it.  A transaction is one step, and a refused one is none, because `TxQueue`
implements `TxFifo`; this is how the two modules compose.  The queue holds words
(a time stamp, a size, a piece of data), and `Numbers` says what a word is when
a program takes it for a number, so that taking one kind for another is in the
model and not excluded by its types.  `writers` and `readers` count how often a
start time was written to the section and taken from it; the properties of the
transfer are about a section used by one producer and one consumer (`Single`),
either of which may die, end, give up or come again before it takes part.
A second producer that starts on a queue in use puts a start time where the
consumer expects a size: the code has no resynchronisation, the consumer then
waits for more bytes than the queue holds, and no property is claimed.

### 2.5 Sha256Blocks and the code

`Update` is a call of `update`, `Absorb` one turn of its loop (`sha256.h:76-87`);
`ToDigest` composes the parts of `to_digest` (`sha256.h:90-124`) on a copy of the
status, as the code does.  `total_num_bits` and the count of the zeros wrap at
`Word`.  `process_block` appends the block to `hashed`, which stands for the
chaining values: two messages with the same blocks have the same digest.  The
k-th byte of the message is written k, so that a byte lost, doubled or out of
place shows; what `curr_block` holds before its first use is `Unset`.

### 2.6 QueueConstruction and the code

One action per part of each constructor, on words of `Width` bits with wrapping
arithmetic.  The operators `&`, `|` and `>>` are defined by the bits that are set
(`Bits`, `WordOf`), and `Smeared` is the chain of `capacity_ |= capacity_ >> s` for the
shifts in `Shifts`, a recursive function.  `ShiftsAssumption` says that these double and
that twice the last one spans a word, as 1 to 32 do for 64 bits; `WordAssumption` that a
cache line is a power of two and that a status takes less than half of all addresses.  Constructing the status
through a null pointer is undefined: the model lets it fault or go on.

## 3. What TLC checks

| Run | Instance | States | What it shows |
|---|---|---|---|
| `sp` | 4 bytes, blocks of 0..2, 2 byte values | 1.6 million | all properties of `TxQueue`, and `TxFifo` as a refinement |
| `mp` | 2 bytes, blocks of 0..2, 2 cores, relaunches | 30 thousand | the inductive invariant and the refinement across relaunches at any point |
| `transfer` | 8 bytes, buffer of 5, chunks 1..3, header 2, sums of 4 bits | 59 thousand | the properties of the jobs, equal hashes and termination included |
| `session` | room for 4 words, 5 of data, chunks of 1..2, a wait of 2, 2 launches of each program | 362 thousand | the properties of the programs, across deaths and launches in any order |
| `hash` | blocks of 8 bytes with 2 for the length, messages of 0..28 bytes in every cut | 435 | the blocks and the padding |
| `interactive` | 8 bytes, 3 messages of 1 + 2 bytes, 2 deaths | 425 thousand | the properties of the interactive jobs, across deaths of either process or of both, and any launches |
| `construction` | 6-bit words, cache line of 4, every argument | 963 | rounding, whole lines, bounds, masks |
| `mp_empty_storage` | the same | | finding 1 |
| `mp_null_memory` | the same | | finding 2 |
| `reported_unsent` | as `interactive` | | finding 3 |
| `early_consumer` | as `session` | | finding 4 |
| `start_time_lost` | as `session` | | finding 5 |

`TxQueue`: `NoOverwrite` and `ReadsCommitted` keep the two copies apart;
`NeverOptimistic` bounds what a side believes by what is true;
`RefusalIsReal` and `EmptinessIsReal` say that the reload is not in vain;
`IsFifo` is the whole promise.  `BufferTransfer`: `InOrder` (nothing lost,
doubled or reordered), `HeaderIntact` and `ChunkIsWhole` (atomic commit as the
receiver sees it), `StopsAtTheEnd`, `HashesAgree` (a chunk that was refused and sent
again is hashed once) and `Completes`.  `InteractiveSession`: `PairsIntact` (no half message,
none out of order), `NoneSkipped` (as long as the section lives, a message leaves the
queue only after it was printed, wherever a process dies) and `AllPrinted` (in the end
every committed message is printed, unless its section was lost with both processes or
the receiver is dead for good).  Both exceptions are needed: without either of them TLC
finds the behaviour.  `InterSession`: `AttachedIsLive` (the
section a program works on is there, with the producer's size), `InTransit` (what
was sent is what was taken and what is in the queue, also when one of the two is
gone), `Framed` (a start time first, a size of a chunk from then on),
`EndsComplete` and `Completes`.  `Sha256Blocks`: `BlocksHoldMessage`, `LengthFits` and
`DigestIsStandard`, the last one against the standard's padding, written down
independently of the code.  `QueueConstruction`:
`RoundsToLeastPower`, `AllocatesWholeLines` (as `aligned_alloc` asks), `StaysInMemory`,
`MaskIsModulo`; the last one is the bridge to `RingIndex`, whose `Mask` is a remainder where the code has a bit mask.

**Bounds.**  Four bytes of storage are the least on which a block of two can
lie anywhere and straddle the end with both its pieces non-empty while other
bytes are in the queue; indices wrap, so the runs need no bound on the number
of transactions, and the histories of stores stay shorter than the capacity
because a side cannot run ahead of what it has seen.  In `mp` a block may be as long as
the storage, which never fits.  In `transfer` the buffer with its headers is
longer than the storage (5 + at least 2 headers + the mark, against 7 usable
bytes), so messages wrap and writes are refused.  In `interactive` the queue holds
two messages and the number of a third, so a write fails halfway; `MaxSends` and
`MaxDeaths` bound what the environment does, not what the jobs do.  Two deaths are
the same process twice, each process once while the other lives, or both dead at
the same time with a queue in any state, and then a new section; launches need no
bound, since each follows a death.  In `session` the queue takes the start time and
one chunk, or a chunk of two and part of the next, so the data does not fit and
the producer waits; two launches of each program are a death and a return of
either, a consumer that gives up and comes again, and a second producer.  The
launches bound the user, not the programs.  In `hash` messages end at every offset
of a block, calls end in it, at its end and several blocks on, and
`8 * MaxLength` is just below `Word`, so the count of the zeros does wrap.
`construction` is exhaustive
in its arguments; six bits and a line of four leave room on both sides of every
comparison, and the shifts are those of the source for that width.
Bytes are interchangeable in `TxQueue` (`Symmetry`); the runs with symmetry check
no liveness.

**Fairness.**  `AllPrinted` needs the receiver's process to run and the tails to
become visible; nothing is asked of the transmitter or of the keyboard, and
launching has no fairness: a receiver may stay dead, which the property excepts.  A
receiver that died and is launched again finds the messages and prints them.  `Completes`
needs the same of both jobs: the operating system runs both
threads (weak fairness of `Transmitter` and of `Receiver`: each is always able
to take a step, since the jobs spin), and a store becomes visible in the end
(`HeadArrives`, `TailArrives`).  It also needs a chunk with its header to fit an
empty queue, `ChunkAssumption`; the programs use 8 KiB and 16 KiB.

`Completes` of `InterSession` asks that the operating system runs each program
(`ProducerStep`, `ConsumerStep`); launching and killing are the user's and have no
fairness.  It says that two programs that have met finish unless one of them
dies, and rests on `RoomAssumption`, a chunk with its size fits the queue.

**Deadlock** is checked in `sp`, `mp` and `interactive`.  The jobs of `transfer`, the programs
of `session`, the hash and the constructors do stop, so their runs turn the check off; for the jobs `Completes`
says more.

### Findings

1. `tx_queue_mp_t` accepts memory of exactly `sizeof(tx_queue_status_t)` bytes
   (`inl:98`: 0 passes the power-of-two test) although "the actual capacity must
   be power of 2" (`inl:92`).  The queue `is_ok()` with `capacity_` 0, and
   `capacity()` returns 2^64 - 1.
2. `tx_queue_mp_t` stores through its pointer in the member initialiser
   (`inl:80`) before the body rejects a null one (`inl:83`).
3. The interactive transmitter ignores the result of `write`
   (`utest_jobs.inl:230`), so on a full queue it prints "Just sent number"
   (`utest_jobs.inl:237`) for a number that never entered the queue.
4. `create_buffer` stores the size header (`shared-memory.inl:63`) when the section
   is already visible under its name.  A consumer that opens it in between reads
   size 0 with a valid view, leaves the loop that should "wait for the shared
   memory to be available" (`consumer.cpp:35`), finds its queue not ok and exits at
   once.
5. The producer ignores what writing the start time returns (`producer.cpp:106`),
   though it has a branch for "Error sending the timestamp to start" (`:108`).
   Launched again on a queue that an earlier producer left full, it goes on to send
   its chunks though its start time is not in the queue.  The words stay framed,
   since the full queue still begins with the first producer's start time; but the
   second producer waits for and starts at a time that nobody was told.

## 4. What is proved

`TxQueueProofs` and `TxQueueRefinement` prove, for every `Capacity` above 0, every
`Byte`, `MaxSize` and `Core`, with and without relaunches:

| Theorem | Statement |
|---|---|
| `Invariance` | `Spec => []IInv` |
| `TypeCorrect` | `Spec => []TypeOK` |
| `NeverOverwrites` | `Spec => []NoOverwrite` |
| `ReadsOnlyCommitted` | `Spec => []ReadsCommitted` |
| `StaleIsSafe` | `Spec => []NeverOptimistic` |
| `RefusalsAreReal` | `Spec => RefusalIsReal` |
| `EmptinessesAreReal` | `Spec => EmptinessIsReal` |
| `ImplementsFifo` | `Spec => IsFifo` |

Assumptions: those named in `RingIndex` and `TxQueue` (`CapacityAssumption`,
`ByteAssumption`, `MaxSizeAssumption`, `CoreAssumption`,
`MultiProcessAssumption`), and nothing else.  That `Capacity` is a power of two is
not needed: the remainder is what counts, and `MasksAreRemainders` (below) proves that the
masks are remainders on every queue that a constructor lets through.

**The argument.**  None of the safety properties is inductive: each speaks of
the newest indices, while a step decides on old ones.  `IInv` says how the two
relate.  `HeadsInOrder`: the heads the producer has still to see come in the
order of the commits, each leaving less data up to the tail.  `ProducerView`: the
head a write transaction works with is no newer than any of those, and the
transaction's bytes with the block it is copying fit in front of that head.  So
they fit in front of the newest one (`WriteFits`), and in a ring offsets less
than the capacity do not meet (`OffsetsDiffer`): the copy is clear of the
queue (`WriteIsClear`).  `TailsInOrder` and `ConsumerView` say the same of the
consumer; `CopiesIntact` says that the bytes copied so far are the right ones.
The proof that a step keeps `IInv` has one lemma per action.  All distances are
taken with `AvailableData`, whose laws (`DataIsDistance` to `OffsetsDiffer`) replace reasoning about
remainders.

For the refinement the queue of `TxFifo` is the slice of the storage from `head`
to `tail`, the pending bytes the slice from `tail` to the transaction's tail.
`SlicesConcatenate` and `SliceSuffix` are the commit of a write and of a read;
`CopyInStutters` is where `WriteIsClear` is needed, since a byte copied in must
leave both slices as they are.

Above the queue stand the jobs.  Their specifications conjoin actions of their
own with those of `TxQueue`, so the first thing to prove is that they call it as
`TxQueue` lets its users call it (`TransferUsesQueue`, `SessionUsesQueue`): then every
theorem above holds of them too, of each section of a session.  What a step of the queue does to what a program
sees of it, the committed bytes `Queue`, the bytes `Pending` of the open write and
those `got` by the open read, is stated once, at the end of `TxQueueRefinement`:
a write that is served appends its block to `Pending`, a read that is served moves
the next bytes of `Queue` to `got`, the ends of the transactions move them for good,
and every other step leaves the three alone.  Neither job looks at an index again.

`BufferTransferProofs`, for every capacity, buffer, header size, range of chunks
and width of the sum that `BufferTransfer` allows:

| Theorem | Statement |
|---|---|
| `TransferInvariant` | `TransferSpec => []TransferInv` |
| `TransferUsesQueue` | `TransferSpec => Spec` |
| `ReceivedInOrder` | `TransferSpec => []InOrder` |
| `HeadersIntact` | `TransferSpec => []HeaderIntact` |
| `ChunksAreWhole` | `TransferSpec => []ChunkIsWhole` |
| `StopsWithAll` | `TransferSpec => []StopsAtTheEnd` |
| `HashesAlwaysAgree` | `TransferSpec => []HashesAgree` |

The properties speak of the receiver and of its current chunk; what makes them
inductive is a description of everything in between.  `Messages` says that the
queue is a row of messages: a set `B` of places where one begins or ends, and for
each place how many bytes of the buffer come before it (`f`) and what their hash
is (`h`).  The row begins with what the receiver has (`received`, `xHash`) and ends
with what the transmitter has sent (`sent`, `tHash`), so hashes that are equal at the
end follow without a word about how the hash is computed.  The consumer does not
see all of the queue, but what it sees ends where a message does (`Seen \subseteq B`),
since only commits are published: a header that can be read is therefore followed by its
payload.  `SenderInv` and `ReceiverInv` say what part of a message is in a
transaction at each step of the jobs; after a refused write of a header, for example,
that the transaction is invalid and its bytes do not count.

`InteractiveSessionProofs`, for every capacity, size of a number and of a stamp, and
number of messages and deaths:

| Theorem | Statement |
|---|---|
| `SessionInvariant` | `SessionSpec => []SessionInv` |
| `SessionUsesQueue` | `SessionSpec => Init /\ [][Next \/ Init']_vars` |
| `PairsAlwaysIntact` | `SessionSpec => []PairsIntact` |
| `NoneEverSkipped` | `SessionSpec => []NoneSkipped` |

Messages have one size here, so the row is simpler (`Row`): the accepted pairs but
for the first `p`.  These `p` were printed.  The receiver prints before its
transaction ends, and when it dies in between the pair is still in the queue and
is printed again, so what has been printed may be one pair ahead of `p`, but never more
(`Messages`).  A death, and a launch on the section that the other process holds,
leave the row alone, since an unfinished transaction is not part of `Queue`.  When
both processes are dead the row is lost; what the next transmitter creates is
`Fresh`, an empty queue with nothing accepted or printed, and satisfies the
invariant as the first one does.  That step is the `Init'` of `SessionUsesQueue`: a
behaviour of the session is, section by section, one of `TxQueue`.

`InterSessionProofs`, for every room, chunk size, length of data and number of
launches:

| Theorem | Statement |
|---|---|
| `SessionTypes` | `Spec => []TypeOK` |
| `AttachedAlwaysLive` | `Spec => []AttachedIsLive` |
| `AlwaysFramed` | `Spec => []Framed` |
| `EndsAlwaysComplete` | `Spec => []EndsComplete` |
| `AlwaysInTransit` | `Spec => []InTransit` |

from the assumptions named in `InterSession`.  `AttachedIsLive` becomes inductive
with `Holds`, which says from which step on a program is among the holders; then a
process that goes can take the section only from nobody (`ReleaseKeeps`).
`Framed` and `EndsComplete` speak of the first word only, so `FrameInv` describes the
whole queue: behind a start time not read yet it is a row of frames, each a size
and as many words of data, and a function `f` says how much data precedes every
position (`Laid`).  It starts with what the consumer has taken and ends with what
the producer has given.  `AppendFrame` adds a chunk or the end mark, `DropWords`
takes the start time or a frame away; the remaining steps leave the queue alone
(`FrameQuiet`) or end the section (`FrameGone`).  `InTransit` follows from the same
invariant, by an induction along the queue: what has been gathered behind each
word is all of the data up to there (`Within`).

`Sha256Proofs`, for every size of block, length field and word that a block
divides, and every message within the standard's limit:

| Theorem | Statement |
|---|---|
| `HashTypes` | `Spec => []TypeOK` |
| `AlwaysHoldsMessage` | `Spec => []BlocksHoldMessage` |
| `LengthAlwaysFits` | `Spec => []LengthFits` |
| `DigestAlwaysStandard` | `Spec => []DigestIsStandard` |

`TypeOK` and `BlocksHoldMessage` are inductive together.  `ZerosAre` is the heart of
the last two: since a block divides a word, the remainder of the wrapped
difference is that of the whole number (`RemainderTwice`), and a message is a
number of blocks and what is in the current one (`RemainderShift`).  For the digest
`Byte` says what lies at every place of the padded message; `OneBlock` and
`TwoBlocks` follow the two ways through `to_digest` and find these bytes in the
blocks, whatever `curr_block` held before, `FewestIs` shows that the zeros are the
fewest, and `PaddedIs` finds the same bytes in the standard's padding.

**Induction.**  The library states induction for predicates, which the provers here
cannot instantiate.  `Induction` states it for sets of numbers instead
(`NumberInduction`), from the theorem that every non-empty set has a minimum under
a well-founded relation; a property is then the set of numbers that have it.
`FlattenJoins` uses it to show that the recursive function inside `FlattenSeq` exists and
joins the pieces one by one, and `FlattenBlocks` where the bytes of blocks of one
length end up.

`QueueConstructionProofs`, for every width of a word and every size of a cache line:

| Theorem | Statement |
|---|---|
| `AllocatesLines` | `Spec => []AllocatesWholeLines` |
| `RoundsUp` | `Spec => []RoundsToLeastPower` |
| `QueueStaysInMemory` | `Spec => []StaysInMemory` |
| `MasksAreRemainders` | `Spec => []MaskIsModulo` |

from `WordAssumption` and `ShiftsAssumption`.  `IInv` says what each path through a
constructor has established: a queue with storage is a rounded one (`RoundUp(given)`)
or one whose capacity passed the check (`Alone`), and a single-process one that turned
its argument down has the capacity 0.  The rest is about words.  The
provers know no laws of `^`, so a power of two is counted first, as the number of
subsets (`CountSubsets`), from which `PowerNext` and `PowerAdd` follow.  A word is its
bits: two with the same are equal (`SameBits`, by induction on how many of the lowest
are compared), and every set of places is the bits of one (`EveryWord`).  Then
`x & (2^k - 1)` has the bits of `x % 2^k` (`AndIsRemainder`); a number other than a power of
two shares its highest bit with the one before (`AloneIsPower`); and after i of the
`capacity_ |= capacity_ >> s` the `2^i` bits from the highest down are set
(`SmearedBits`), so that the last one leaves `2^(h+1) - 1`, h being the highest bit
(`RoundUpIs`).  Nothing in the constructor compares the size of the memory with that of
the status: `QueueStaysInMemory` shows that the difference, when it wraps, is more than
half of all words and not a power of two, so that the check rejects it.

**Model-checked only**: liveness (`Completes` of both modules, `AllPrinted`), which is
out of the provers' reach.

## 5. What is not modelled

Not modelled:

* `misc.h` and the build files: formatting, key polling, affinity, project
  generation; no state that the queue or the programs depend on.
* The choice of a program's mode from its arguments, and the statistics.
* What `process_block` computes (`sha256.h:145-182`): fixed bit arithmetic on
  32-bit words, of which only the order of the blocks matters here.
* Yielding (`inl:181-186`, `291-296`).  A yield changes no state; on one core
  the threads make progress by preemption with or without it, and it only
  shortens a wait.
* Loads that are reordered with later accesses (`inl:118-119`, `237-238`).  The
  projects are generated for x86-64 only, where they are not; a model of the
  C++ memory order would speak of builds that do not exist.
* A resynchronisation of a consumer with a second producer: there is none in
  the code (2.4).
