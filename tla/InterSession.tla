------------------------------ MODULE InterSession -----------------------------
(***************************************************************************)
(* The two programs of utests/inter: how they meet in the named shared     *)
(* memory of shared-memory.inl, agree on a start time, transfer a buffer   *)
(* and go, each of them free to die anywhere and to be launched again.     *)
(*                                                                         *)
(* The section is the kernel object behind the name.  It appears when the  *)
(* first process creates it, filled with zeros, and is gone, contents and  *)
(* all, with the last process that holds it.                               *)
(*                                                                         *)
(* The queue inside is the bounded FIFO of atomic transactions that        *)
(* TxQueue implements (IsFifo), so a transaction is one step here, and a   *)
(* refused one, which the programs repeat, is no step.  A word is what the *)
(* programs write at once: a time stamp, the size of a chunk, or a piece   *)
(* of data; all three lie in the queue as plain bytes.                     *)
(***************************************************************************)
EXTENDS Integers, SequencesExt

CONSTANTS Size,            \* share_memory_size, which the producer asks for
          Room,            \* capacity(): the words the queue holds
          Length,          \* the words of sample_data
          MaxChunk,        \* k_max_chunk_size
          MaxWait,         \* max_wait_time, in sleeps of a second
          MaxLaunches      \* bound: how often each program is launched

ASSUME SizeAssumption == Size \in Nat \ {0}
ASSUME RoomAssumption ==
  /\ MaxChunk \in Nat \ {0} /\ Room \in Nat
  /\ 1 + MaxChunk <= Room                \* 8 KiB in 16 KiB
ASSUME LengthAssumption == Length \in Nat /\ Length > Room      \* 1 GiB
ASSUME BoundAssumption == MaxWait \in Nat /\ MaxLaunches \in Nat

VARIABLES
  holders,      \* the processes with a handle to the section or a view of it
  section,      \* its size header and queue, and how often a start time was
                \* written to it and taken from it, successfully or not
  pPc,          \* the producer: "off", "create", "again", "header", "stamp",
                \* "send", "done", "exited" or "failed"
  sent,         \* total_data_ of the transmitter
  pLaunches,
  cPc,          \* the consumer: "off", "open", "wait", "sleep", "last", "mapped",
                \* "stamp", "receive", "done", "exited" or "failed"
  cSize,        \* size_
  waited,       \* the time since t0
  received,     \* what the receiver has taken
  cLaunches

producer == <<pPc, sent, pLaunches>>
consumer == <<cPc, cSize, waited, received, cLaunches>>
vars     == <<holders, section, producer, consumer>>

NoSection == [size |-> 0, queue |-> <<>>, writers |-> 0, readers |-> 0]

Stamp    == <<"stamp", 0>>
Count(n) == <<"count", n>>
Data(k)  == <<"data", k>>
Words    == {Stamp} \cup {Count(n) : n \in 0 .. MaxChunk} \cup {Data(k) : k \in 1 .. Length}
Source   == [k \in 1 .. Length |-> Data(k)]

\* What a word says when it is read as a number: a time in nanoseconds is
\* longer than any queue, and data can be anything.
Numbers(word) ==
  CASE word[1] = "stamp" -> {Room + 1}
    [] word[1] = "count" -> {word[2]}
    [] word[1] = "data"  -> 0 .. Room + 1

Smaller(a, b) == IF a < b THEN a ELSE b

queue == section.queue
Fits(words) == Len(queue) + Len(words) <= Room

Release_WithProducer(p) ==
  /\ holders' = holders \ {p}
  /\ section' = IF p = "producer" \/ holders \ {p} = {} THEN NoSection ELSE section

\* Process p is gone, and its handles and views with it.
Release(p) ==
  /\ holders' = holders \ {p}
  /\ section' = IF holders \ {p} = {} THEN NoSection ELSE section

--------------------------------------------------------------------------------
\* producer.cpp

LaunchProducer ==
  /\ pPc \in {"off", "exited", "failed"}  /\ pLaunches < MaxLaunches
  /\ pPc' = "create"  /\ pLaunches' = pLaunches + 1
  /\ UNCHANGED <<holders, section, sent, consumer>>

\* shared_memory::create_buffer: a new section, or the one that is there.
Create ==
  /\ pPc \in {"create", "again"}
  /\ holders' = holders \cup {"producer"}
  /\ pPc' = "header"
  /\ UNCHANGED <<section, sent, pLaunches, consumer>>

\* CreateFileMapping or MapViewOfFile failed.  The dereference in main tries
\* once more; then the queue is constructed on a null pointer.
CreateFails ==
  /\ pPc \in {"create", "again"}
  /\ \/ pPc = "create" /\ pPc' = "again"
        /\ \/ holders' = holders \cup {"producer"} /\ UNCHANGED section
           \/ UNCHANGED <<holders, section>>
     \/ pPc = "again" /\ pPc' = "failed" /\ Release("producer")
  /\ UNCHANGED <<sent, pLaunches, consumer>>

StoreHeader_TotalSize ==
  /\ pPc = "header"
  /\ section' = [section EXCEPT !.size = Size + 1]
  /\ pPc' = "stamp"
  /\ UNCHANGED <<holders, sent, pLaunches, consumer>>

StoreHeader ==
  /\ pPc = "header"
  /\ section' = [section EXCEPT !.size = Size]
  /\ pPc' = "stamp"
  /\ UNCHANGED <<holders, sent, pLaunches, consumer>>

\* Write the start time, in a transaction that nobody asks whether it succeeded.
SendStamp ==
  /\ pPc = "stamp"
  /\ section' = [section EXCEPT !.writers = @ + 1,
                                !.queue = IF Fits(<<Stamp>>) THEN @ \o <<Stamp>> ELSE @]
  /\ pPc' = "send"  /\ sent' = 0
  /\ UNCHANGED <<holders, pLaunches, consumer>>

Chunk(n) == <<Count(n)>> \o SubSeq(Source, sent + 1, sent + n)

SendChunk_NoRetry ==
  /\ pPc = "send"  /\ sent < Length
  /\ \E drawn \in 1 .. MaxChunk :
       LET n == Smaller(drawn, Length - sent) IN
       /\ section' = [section EXCEPT !.queue = IF Fits(Chunk(n)) THEN @ \o Chunk(n) ELSE @]
       /\ sent' = sent + n
  /\ UNCHANGED <<holders, pPc, pLaunches, consumer>>

SendChunk ==
  /\ pPc = "send"  /\ sent < Length
  /\ \E drawn \in 1 .. MaxChunk :
       LET n == Smaller(drawn, Length - sent) IN
       /\ Fits(Chunk(n))
       /\ section' = [section EXCEPT !.queue = @ \o Chunk(n)]
       /\ sent' = sent + n
  /\ UNCHANGED <<holders, pPc, pLaunches, consumer>>

SendMark_Once ==
  /\ pPc = "send"  /\ sent = Length
  /\ section' = [section EXCEPT !.queue = IF Fits(<<Count(0)>>) THEN @ \o <<Count(0)>> ELSE @]
  /\ pPc' = "done"
  /\ UNCHANGED <<holders, sent, pLaunches, consumer>>

SendMark ==
  /\ pPc = "send"  /\ sent = Length
  /\ Fits(<<Count(0)>>)
  /\ section' = [section EXCEPT !.queue = @ \o <<Count(0)>>]
  /\ pPc' = "done"
  /\ UNCHANGED <<holders, sent, pLaunches, consumer>>

ProducerExit ==
  /\ pPc = "done"
  /\ Release("producer")
  /\ pPc' = "exited"
  /\ UNCHANGED <<sent, pLaunches, consumer>>

ProducerDies ==
  /\ pPc \notin {"off", "exited", "failed"}
  /\ Release("producer")
  /\ pPc' = "off"
  /\ UNCHANGED <<sent, pLaunches, consumer>>

ProducerStep ==
  \/ Create \/ CreateFails \/ StoreHeader
  \/ SendStamp \/ SendChunk \/ SendMark \/ ProducerExit

--------------------------------------------------------------------------------
\* consumer.cpp

LaunchConsumer ==
  /\ cPc \in {"off", "exited", "failed"}  /\ cLaunches < MaxLaunches
  /\ cPc' = "open"  /\ cLaunches' = cLaunches + 1  /\ waited' = 0  /\ cSize' = 0
  /\ UNCHANGED <<holders, section, received, producer>>

\* shared_memory::open_buffer, in the constructor ("open"), in the condition of
\* the loop ("wait") and after it ("last"), finds the section.
Open ==
  /\ cPc \in {"open", "wait", "last"}
  /\ holders # {}
  /\ holders' = holders \cup {"consumer"}
  /\ cPc' = "mapped"
  /\ UNCHANGED <<section, cSize, waited, received, cLaunches, producer>>

\* There is no section, or no view of it could be mapped.
OpenFails ==
  /\ cPc \in {"open", "wait", "last"}
  /\ \/ /\ cPc = "open" /\ cPc' = "wait"
     \/ /\ cPc = "wait" /\ cPc' = IF waited < MaxWait THEN "sleep" ELSE "last"
     \/ /\ cPc = "last" /\ cPc' = "failed"
  /\ IF cPc = "last" THEN Release("consumer")
     ELSE /\ \/ UNCHANGED holders
             \/ holders # {} /\ holders' = holders \cup {"consumer"}
          /\ UNCHANGED section
  /\ UNCHANGED <<cSize, waited, received, cLaunches, producer>>

\* A second passes, or more when the process is not scheduled.
Sleep ==
  /\ cPc = "sleep"
  /\ waited' \in waited + 1 .. MaxWait
  /\ cPc' = "wait"
  /\ UNCHANGED <<holders, section, cSize, received, cLaunches, producer>>

\* Read the size header and construct the queue, which only the producer's
\* size makes ok (0 is less than the status takes).
Attach ==
  /\ cPc = "mapped"
  /\ cSize' = section.size
  /\ IF cSize' = Size THEN cPc' = "stamp" /\ UNCHANGED <<holders, section>>
                      ELSE cPc' = "failed" /\ Release("consumer")
  /\ UNCHANGED <<waited, received, cLaunches, producer>>

ReadStamp_Peeks ==
  /\ cPc = "stamp"  /\ queue # <<>>
  /\ section' = [section EXCEPT !.readers = @ + 1]
  /\ received' = <<>>  /\ cPc' = "receive"
  /\ UNCHANGED <<holders, cSize, waited, cLaunches, producer>>

\* Whatever number comes first, unless it is 0, is the start time.
ReadStamp ==
  /\ cPc = "stamp"  /\ queue # <<>>
  /\ \E n \in Numbers(Head(queue)) :
       cPc' = IF n = 0 THEN "stamp" ELSE "receive"
  /\ section' = [section EXCEPT !.queue = Tail(@), !.readers = @ + 1]
  /\ received' = <<>>
  /\ UNCHANGED <<holders, cSize, waited, cLaunches, producer>>

ReceiveChunk_EndFirst ==
  /\ cPc = "receive"
  /\ \E n \in IF queue = <<>> THEN {0} ELSE Numbers(Head(queue)) :
       /\ n = 0 \/ 1 + n <= Len(queue)
       /\ received' = received \o SubSeq(queue, 2, 1 + n)
       /\ section' = [section EXCEPT !.queue = SubSeq(@, n + 2, Len(@))]
       /\ cPc' = IF n = 0 THEN "done" ELSE "receive"
  /\ UNCHANGED <<holders, cSize, waited, cLaunches, producer>>

\* A chunk, header and payload in one transaction, or the end mark.
ReceiveChunk ==
  /\ cPc = "receive"  /\ queue # <<>>
  /\ \E n \in Numbers(Head(queue)) :
       /\ 1 + n <= Len(queue)
       /\ received' = received \o SubSeq(queue, 2, 1 + n)
       /\ section' = [section EXCEPT !.queue = SubSeq(@, n + 2, Len(@))]
       /\ cPc' = IF n = 0 THEN "done" ELSE "receive"
  /\ UNCHANGED <<holders, cSize, waited, cLaunches, producer>>

ConsumerExit ==
  /\ cPc = "done"
  /\ Release("consumer")
  /\ cPc' = "exited"
  /\ UNCHANGED <<cSize, waited, received, cLaunches, producer>>

ConsumerDies ==
  /\ cPc \notin {"off", "exited", "failed"}
  /\ Release("consumer")
  /\ cPc' = "off"
  /\ UNCHANGED <<cSize, waited, received, cLaunches, producer>>

ConsumerStep ==
  \/ Open \/ OpenFails \/ Sleep \/ Attach
  \/ ReadStamp \/ ReceiveChunk \/ ConsumerExit

--------------------------------------------------------------------------------
Init ==
  /\ holders = {}  /\ section = NoSection
  /\ pPc = "off"  /\ sent = 0  /\ pLaunches = 0
  /\ cPc = "off"  /\ cSize = 0  /\ waited = 0  /\ received = <<>>  /\ cLaunches = 0

Next ==
  \/ LaunchProducer \/ ProducerStep \/ ProducerDies
  \/ LaunchConsumer \/ ConsumerStep \/ ConsumerDies

\* The operating system runs the programs; launching and killing them is up to
\* the user.
Spec == Init /\ [][Next]_vars /\ WF_vars(ProducerStep) /\ WF_vars(ConsumerStep)

--------------------------------------------------------------------------------
\* Properties

TypeOK ==
  /\ holders \subseteq {"producer", "consumer"}
  /\ section \in [size : {0, Size}, queue : Seq(Words), writers : Nat, readers : Nat]
  /\ Len(queue) <= Room
  /\ pPc \in {"off", "create", "again", "header", "stamp", "send", "done", "exited", "failed"}
  /\ sent \in 0 .. Length  /\ pLaunches \in 0 .. MaxLaunches
  /\ cPc \in {"off", "open", "wait", "sleep", "last", "mapped",
              "stamp", "receive", "done", "exited", "failed"}
  /\ cSize \in {0, Size}  /\ waited \in 0 .. MaxWait
  /\ received \in Seq(Words)  /\ cLaunches \in 0 .. MaxLaunches

\* A program that works on the queue works on a section that is there, and with
\* the size its producer gave it, however the other one comes, goes or dies.
AttachedIsLive ==
  /\ pPc \in {"stamp", "send", "done"} => "producer" \in holders /\ section.size = Size
  /\ cPc \in {"stamp", "receive", "done"} =>
       "consumer" \in holders /\ section.size = Size /\ cSize = Size

\* One producer has started to send through the section, and one consumer to
\* receive, at most.
Single == section.writers <= 1 /\ section.readers <= 1

Taken == IF section.readers = 0 THEN <<>> ELSE received
Given == IF section.writers = 0 THEN 0 ELSE sent
IsData(word) == word[1] = "data"
DataIn(words) ==
  FlattenSeq([i \in DOMAIN words |-> IF IsData(words[i]) THEN <<words[i]>> ELSE <<>>])

\* What was sent and what was taken differ by the contents of the queue, also
\* when one program is dead, has ended, or gave up and came again: the section
\* outlives a producer that has ended before its consumer has.
InTransit == Single => Taken \o DataIn(queue) = SubSeq(Source, 1, Given)

\* The handshake is not taken for data or data for the handshake: the consumer
\* finds a start time first and the size of a chunk from then on.
Framed ==
  Single /\ queue # <<>> =>
    IF section.readers = 0 THEN Head(queue) = Stamp ELSE Head(queue)[1] = "count"

\* A consumer that ends has all of the data, and the queue is empty.
EndsComplete == Single /\ cPc = "done" => received = Source /\ queue = <<>>

\* A producer and a consumer that have met complete the transfer, unless one of
\* them dies: neither the wait for the start time nor the spinning jobs hang.
Together ==
  /\ \/ pPc = "stamp" /\ section.writers = 0
     \/ pPc \in {"send", "done"} /\ section.writers = 1
  /\ \/ cPc = "stamp" /\ section.readers = 0
     \/ cPc = "receive" /\ section.readers = 1
Completes == Together ~> (cPc = "done" \/ pPc = "off" \/ cPc = "off")

\* consumer.cpp: "wait for the shared memory to be available".  A consumer that
\* fails has waited as long as it may.
FailsOnlyByTimeOut == cPc = "failed" => waited = MaxWait

\* producer.cpp: "write the start time to the queue itself".  A producer that
\* goes on to send has written it.
StartTimeIsSent == [][pPc = "stamp" /\ pPc' = "send" => Len(queue') > Len(queue)]_vars

================================================================================
