----------------------------- MODULE BufferTransfer ----------------------------
(***************************************************************************)
(* The two jobs of utest_jobs.inl that move a buffer through a queue: the  *)
(* transmitter sends it in chunks of random size, each one transaction of  *)
(* a header (the size) and a payload, then an empty chunk as end mark; the *)
(* receiver reads one header and its payload per transaction.  Both spin:  *)
(* a transaction that failed is simply tried again.                        *)
(*                                                                         *)
(* The jobs run on TxQueue, so that every access of one to the shared      *)
(* memory interleaves with those of the other.  Each sums up the bytes it  *)
(* has moved (checksum.h), and main of utests/intra compares the two sums  *)
(* when both jobs have come to their end.                                  *)
(***************************************************************************)
EXTENDS TxQueue

CONSTANTS Source,                        \* src_data_, the bytes to send
          MinChunk, MaxChunk,            \* min_chunk_size_, max_chunk_size_
          HeaderSize,                    \* sizeof(uint64_t)
          HashWord                       \* 2^32, for status_t::checksum

ASSUME ChunkAssumption ==
  /\ MinChunk \in Nat \ {0} /\ MaxChunk \in Nat /\ MinChunk <= MaxChunk
  /\ HeaderSize \in Nat \ {0}
  /\ Source \in Seq(Byte)
  /\ 0 .. MaxChunk \subseteq Byte
  /\ HeaderSize <= MaxSize /\ MaxChunk <= MaxSize
  \* the jobs spin for ever on a chunk that an empty queue cannot take
  /\ HeaderSize + MaxChunk < Capacity
ASSUME HashAssumption == HashWord \in Nat \ {0}

VARIABLES
  tPc,        \* the transmitter: "loop", "header", "payload", "check", "mark", "markCheck", "done"
  sent,       \* total_data_
  chunk,      \* chunk_size
  xPc,        \* the receiver: "loop", "header", "payload", "check", "done"
  size,       \* chunk_size
  received,   \* every byte the receiver has taken (it counts them in total_data_)
  tHash,      \* checksum_hash_status_ of the transmitter
  xHash,      \* checksum_hash_status_ of the receiver
  result      \* main: "running", "passed" or "error"

transmitter == <<tPc, sent, chunk, tHash>>
receiver    == <<xPc, size, received, xHash>>
jobs        == <<transmitter, receiver, result>>
allvars     == <<vars, jobs>>

\* A size as the bytes write(chunk_size) copies.  A byte of the model stands
\* for a part of the size, so that a header made of two messages shows.
Encode(n) == [k \in 1 .. HeaderSize |-> n]
Decode(bytes) == bytes[1]

Smaller(a, b) == IF a < b THEN a ELSE b

\* checksum::update
Checksum(hash, bytes) == FoldLeft(LAMBDA sum, byte : (sum + byte) % HashWord, hash, bytes)

--------------------------------------------------------------------------------
\* utest_job_transmit_buffer::run

\* Open a transaction and draw the size of the next chunk, anew at each try.
SendBegin ==
  /\ tPc = "loop"  /\ sent < Len(Source)
  /\ WriteBegin
  /\ \E drawn \in MinChunk .. MaxChunk : chunk' = Smaller(drawn, Len(Source) - sent)
  /\ tPc' = "header"
  /\ UNCHANGED <<sent, tHash, receiver, result>>

SendHeader ==
  /\ tPc = "header"
  /\ Write(Encode(chunk))
  /\ tPc' = "payload"
  /\ UNCHANGED <<sent, chunk, tHash, receiver, result>>

Payload == SubSeq(Source, sent + 1, sent + chunk)

\* The result of the first write is not looked at: on the transaction it
\* invalidated the second one returns at once.
SendPayload ==
  /\ tPc = "payload"  /\ wPc = "open"
  /\ IF wInvalidated THEN UNCHANGED vars
                     ELSE Write(Payload)
  /\ tPc' = "check"
  /\ UNCHANGED <<sent, chunk, tHash, receiver, result>>

SendCheck_NoRetry ==
  /\ tPc = "check"
  /\ WriteEnd
  /\ sent' = sent + chunk
  /\ tHash' = Checksum(tHash, Payload)
  /\ tPc' = "loop"  /\ chunk' = 0
  /\ UNCHANGED <<receiver, result>>

SendCheck_HashFirst ==
  /\ tPc = "check"
  /\ WriteEnd
  /\ tHash' = Checksum(tHash, Payload)
  /\ sent' = IF wInvalidated THEN sent ELSE sent + chunk
  /\ tPc' = "loop"  /\ chunk' = 0
  /\ UNCHANGED <<receiver, result>>

\* Leave the block: the transaction commits and the chunk is hashed and counts
\* as sent, unless a write failed.
SendCheck ==
  /\ tPc = "check"
  /\ WriteEnd
  /\ IF wInvalidated THEN UNCHANGED <<sent, tHash>>
     ELSE sent' = sent + chunk /\ tHash' = Checksum(tHash, Payload)
  /\ tPc' = "loop"  /\ chunk' = 0
  /\ UNCHANGED <<receiver, result>>

MarkBegin ==
  /\ tPc = "loop"  /\ sent = Len(Source)
  /\ WriteBegin
  /\ tPc' = "mark"
  /\ UNCHANGED <<sent, chunk, tHash, receiver, result>>

MarkWrite ==
  /\ tPc = "mark"
  /\ Write(Encode(0))
  /\ tPc' = "markCheck"
  /\ UNCHANGED <<sent, chunk, tHash, receiver, result>>

MarkCheck_NoRetry ==
  /\ tPc = "markCheck"
  /\ WriteEnd
  /\ tPc' = "done"
  /\ UNCHANGED <<sent, chunk, tHash, receiver, result>>

MarkCheck ==
  /\ tPc = "markCheck"
  /\ WriteEnd
  /\ tPc' = IF wInvalidated THEN "loop" ELSE "done"
  /\ UNCHANGED <<sent, chunk, tHash, receiver, result>>

Transmitter ==
  \/ SendBegin \/ SendHeader \/ SendPayload \/ SendCheck
  \/ MarkBegin \/ MarkWrite \/ MarkCheck
  \/ WriteStep /\ UNCHANGED jobs

--------------------------------------------------------------------------------
\* utest_job_receive_buffer::run

ReceiveBegin ==
  /\ xPc = "loop"
  /\ ReadBegin
  /\ xPc' = "header"
  /\ size' = 0
  /\ UNCHANGED <<received, xHash, transmitter, result>>

ReceiveHeader ==
  /\ xPc = "header"
  /\ Read(HeaderSize)
  /\ xPc' = "payload"
  /\ UNCHANGED <<size, received, xHash, transmitter, result>>

\* chunk_size keeps its 0 when the first read failed.
ReceivePayload ==
  /\ xPc = "payload"  /\ rPc = "open"
  /\ IF rInvalidated THEN UNCHANGED <<vars, size>>
                     ELSE size' = Decode(got) /\ Read(size')
  /\ xPc' = "check"
  /\ UNCHANGED <<received, xHash, transmitter, result>>

\* The payload is hashed and counted.
Take ==
  LET payload == SubSeq(got, HeaderSize + 1, Len(got)) IN
  received' = received \o payload /\ xHash' = Checksum(xHash, payload)

ReceiveCheck_EndFirst ==
  /\ xPc = "check"
  /\ ReadEnd
  /\ IF size = 0 THEN xPc' = "done" /\ UNCHANGED <<received, xHash>>
     ELSE xPc' = "loop" /\ IF rInvalidated THEN UNCHANGED <<received, xHash>> ELSE Take
  /\ UNCHANGED <<size, transmitter, result>>

\* Leave the block: on a failure try again, on an empty chunk stop, else take
\* the payload.
ReceiveCheck ==
  /\ xPc = "check"
  /\ ReadEnd
  /\ \/ rInvalidated /\ xPc' = "loop" /\ UNCHANGED <<received, xHash>>
     \/ ~rInvalidated /\ size = 0 /\ xPc' = "done" /\ UNCHANGED <<received, xHash>>
     \/ ~rInvalidated /\ size # 0 /\ xPc' = "loop" /\ Take
  /\ UNCHANGED <<size, transmitter, result>>

Receiver ==
  \/ ReceiveBegin \/ ReceiveHeader \/ ReceivePayload \/ ReceiveCheck
  \/ ReadStep /\ UNCHANGED jobs

--------------------------------------------------------------------------------
TransferInit ==
  /\ Init
  /\ storage = [i \in Index |-> 0]
  /\ tPc = "loop"  /\ sent = 0  /\ chunk = 0
  /\ xPc = "loop"  /\ size = 0  /\ received = <<>>
  /\ tHash = 0  /\ xHash = 0  /\ result = "running"

\* main of utests/intra has waited for both threads and compares their hashes.
Compare ==
  /\ tPc = "done"  /\ xPc = "done"  /\ result = "running"
  /\ result' = IF tHash = xHash THEN "passed" ELSE "error"
  /\ UNCHANGED <<vars, transmitter, receiver>>

HeadArrives == HeadVisible /\ UNCHANGED jobs
TailArrives == TailVisible /\ UNCHANGED jobs

TransferNext == Transmitter \/ Receiver \/ HeadArrives \/ TailArrives \/ Compare

\* The operating system runs both threads, and what one stores reaches the
\* other in the end.
TransferFairness ==
  /\ WF_allvars(Transmitter)
  /\ WF_allvars(Receiver)
  /\ WF_allvars(HeadArrives)
  /\ WF_allvars(TailArrives)
  /\ WF_allvars(Compare)

TransferSpec == TransferInit /\ [][TransferNext]_allvars /\ TransferFairness

--------------------------------------------------------------------------------
\* Properties

\* What has been received is a beginning of the buffer, and no more of it
\* than has been sent.
InOrder ==
  /\ IsPrefix(received, Source)
  /\ Len(received) <= sent

\* A header that has been read is one the transmitter wrote, not bytes of two
\* messages, and announces no more than the receiver's buffer takes.
HeaderIntact ==
  Len(got) >= HeaderSize =>
    \E n \in 0 .. MaxChunk : SubSeq(got, 1, HeaderSize) = Encode(n)

\* A chunk is there as a whole or not at all: once its header could be read,
\* reading the payload is never refused.
ChunkIsWhole == xPc = "check" /\ size > 0 => rPc # "empty"

\* The receiver stops only when it has the whole buffer, and leaves nothing
\* in the queue.
StopsAtTheEnd == xPc = "done" => received = Source /\ Queue = <<>>

\* The comparison of the hashes never fails: what is sent again after a refusal
\* is hashed once, and both sides cut the sum at the same width.
HashesAgree == result # "error"

\* The transfer comes to its end and main returns: nobody spins for ever.
Completes == <>(result # "running")

================================================================================
