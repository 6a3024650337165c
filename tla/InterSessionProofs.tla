--------------------------- MODULE InterSessionProofs --------------------------
(***************************************************************************)
(* What holds between the two programs of utests/inter for every size of   *)
(* the queue, the chunks and the data, and however often each of them is   *)
(* launched and dies.                                                      *)
(***************************************************************************)
EXTENDS InterSession, Induction

\* Every program that is past the opening of the section holds it.
Holds ==
  /\ pPc \in {"header", "stamp", "send", "done"} => "producer" \in holders
  /\ cPc \in {"mapped", "stamp", "receive", "done"} => "consumer" \in holders

LiveInv == TypeOK /\ Holds /\ AttachedIsLive

USE SizeAssumption, RoomAssumption, LengthAssumption, BoundAssumption

Sections == [size : {0, Size}, queue : Seq(Words), writers : Nat, readers : Nat]

LEMMA EmptyWords == <<>> \in Seq(Words) /\ Len(<<>>) = 0
OBVIOUS

LEMMA NoSectionIsOne == NoSection \in Sections /\ NoSection.queue = <<>>
BY EmptyWords DEF NoSection, Sections

LEMMA LiveInit ==
  ASSUME Init
  PROVE  LiveInv
BY DEF Init, LiveInv, TypeOK, Holds, AttachedIsLive, NoSection, queue

\* A process that goes takes the section with it only when it was the last one.
LEMMA ReleaseKeeps ==
  ASSUME TypeOK, NEW p \in {"producer", "consumer"}, Release(p)
  PROVE  /\ holders' = holders \ {p}  /\ holders' \subseteq {"producer", "consumer"}
         /\ section' \in Sections
         /\ Len(queue') <= Room
         /\ holders' # {} => section' = section
<1>1. section \in Sections /\ Len(section.queue) <= Room /\ holders \subseteq {"producer", "consumer"}
  BY DEF TypeOK, Sections, queue
<1>2. CASE holders \ {p} = {}
  <2>1. section' = NoSection /\ holders' = holders \ {p}
    BY <1>2 DEF Release
  <2>2. section'.queue = <<>> /\ section' \in Sections
    BY <2>1, NoSectionIsOne
  <2>3. Len(queue') <= Room
    BY <2>2, EmptyWords DEF queue
  <2> QED
    BY <1>1, <1>2, <2>1, <2>2, <2>3
<1>3. CASE holders \ {p} # {}
  BY <1>1, <1>3 DEF Release, queue
<1> QED
  BY <1>2, <1>3

LEMMA SourceIs ==
  /\ Source \in Seq(Words)  /\ Len(Source) = Length
  /\ \A k \in 1 .. Length : Source[k] = Data(k)
<1>1. Source \in [1 .. Length -> Words]
  BY DEF Source, Words
<1> QED
  BY <1>1 DEF Source

\* A chunk is its size and the data it announces.
LEMMA ChunkIs ==
  ASSUME NEW n \in 1 .. MaxChunk, sent \in Nat, sent + n <= Length
  PROVE  /\ Chunk(n) \in Seq(Words)  /\ Len(Chunk(n)) = n + 1
         /\ Chunk(n)[1] = Count(n)
         /\ \A j \in 1 .. n : Chunk(n)[1 + j] = Data(sent + j)
<1> DEFINE data == SubSeq(Source, sent + 1, sent + n)
<1>1. /\ data \in Seq(Words)  /\ Len(data) = n
      /\ \A j \in 1 .. n : data[j] = Data(sent + j)
  BY SourceIs
<1>2. Count(n) \in Words
  BY DEF Words
<1>3. Chunk(n) = <<Count(n)>> \o data
  BY DEF Chunk
<1> HIDE DEF data
<1> QED
  BY <1>1, <1>2, <1>3

LEMMA SmallerIs ==
  ASSUME NEW drawn \in 1 .. MaxChunk, sent \in Nat, sent < Length
  PROVE  Smaller(drawn, Length - sent) \in 1 .. MaxChunk /\ sent + Smaller(drawn, Length - sent) <= Length
BY DEF Smaller

\* What is read as a number is one.
LEMMA NumbersAre ==
  ASSUME NEW word \in Words
  PROVE  Numbers(word) \subseteq Nat /\ (word[1] = "count" => Numbers(word) = {word[2]})
<1>1. CASE word = Stamp
  BY <1>1 DEF Numbers, Stamp
<1>2. CASE \E n \in 0 .. MaxChunk : word = Count(n)
  BY <1>2 DEF Numbers, Count
<1>3. CASE \E k \in 1 .. Length : word = Data(k)
  BY <1>3 DEF Numbers, Data
<1> QED
  BY <1>1, <1>2, <1>3 DEF Words

\* Dropping the first words of a sequence
LEMMA RestIs ==
  ASSUME NEW s \in Seq(Words), NEW n \in Nat, 1 + n <= Len(s)
  PROVE  /\ SubSeq(s, n + 2, Len(s)) \in Seq(Words)
         /\ Len(SubSeq(s, n + 2, Len(s))) = Len(s) - n - 1
         /\ \A i \in 1 .. Len(s) - n - 1 : SubSeq(s, n + 2, Len(s))[i] = s[n + 1 + i]
BY SubSeqProperties

\* The words of a sequence behind the first
LEMMA PayloadIs ==
  ASSUME NEW s \in Seq(Words), NEW n \in Nat, 1 + n <= Len(s)
  PROVE  /\ SubSeq(s, 2, 1 + n) \in Seq(Words)
         /\ Len(SubSeq(s, 2, 1 + n)) = n
         /\ \A j \in 1 .. n : SubSeq(s, 2, 1 + n)[j] = s[1 + j]
OBVIOUS

LEMMA ProducerLive ==
  ASSUME LiveInv, ProducerStep \/ LaunchProducer \/ ProducerDies
  PROVE  LiveInv'
<1> USE DEF LiveInv, Holds, AttachedIsLive, producer, consumer
<1>1. CASE LaunchProducer
  BY <1>1 DEF LaunchProducer, TypeOK, queue
<1>2. CASE Create
  BY <1>2 DEF Create, TypeOK, queue
<1>3. CASE CreateFails
  <2>1. CASE pPc = "create"
    BY <1>3, <2>1 DEF CreateFails, TypeOK, queue
  <2>2. CASE pPc = "again"
    <3>1. Release("producer") /\ pPc' = "failed" /\ UNCHANGED <<sent, pLaunches, consumer>>
      BY <1>3, <2>2 DEF CreateFails
    <3> QED
      BY <3>1, ReleaseKeeps DEF Sections, TypeOK
  <2> QED
    BY <1>3, <2>1, <2>2 DEF CreateFails
<1>4. CASE StoreHeader
  BY <1>4 DEF StoreHeader, TypeOK, queue
<1>5. CASE SendStamp
  <2>1. Stamp \in Words /\ Len(<<Stamp>>) = 1
    BY DEF Words
  <2>2. section'.queue \in Seq(Words) /\ Len(section'.queue) <= Room
    BY <1>5, <2>1 DEF SendStamp, TypeOK, queue, Fits
  <2>3. section' \in Sections /\ section'.size = section.size
    <3>1. section' = [size |-> section.size, queue |-> section'.queue,
                      writers |-> section.writers + 1, readers |-> section.readers]
      BY <1>5 DEF SendStamp, TypeOK
    <3>2. section.size \in {0, Size} /\ section.writers + 1 \in Nat /\ section.readers \in Nat
      BY DEF TypeOK
    <3> QED
      BY <2>2, <3>1, <3>2 DEF Sections
  <2>4. pPc = "stamp" /\ pPc' = "send" /\ sent' = 0 /\ UNCHANGED <<holders, pLaunches, consumer>>
    BY <1>5 DEF SendStamp
  <2> QED
    BY <2>2, <2>3, <2>4 DEF TypeOK, Sections, queue
<1>6. CASE SendChunk
  <2>1. PICK n \in 1 .. MaxChunk :
          /\ sent + n <= Length  /\ Fits(Chunk(n))  /\ sent' = sent + n
          /\ section' = [section EXCEPT !.queue = @ \o Chunk(n)]
    <3>1. PICK drawn \in 1 .. MaxChunk :
            /\ Fits(Chunk(Smaller(drawn, Length - sent)))
            /\ section' = [section EXCEPT !.queue = @ \o Chunk(Smaller(drawn, Length - sent))]
            /\ sent' = sent + Smaller(drawn, Length - sent)
      BY <1>6 DEF SendChunk
    <3>2. Smaller(drawn, Length - sent) \in 1 .. MaxChunk
          /\ sent + Smaller(drawn, Length - sent) <= Length
      <4>1. sent \in Nat /\ sent < Length
        BY <1>6 DEF SendChunk, TypeOK
      <4> QED
        BY <4>1, SmallerIs
    <3> QED
      BY <3>1, <3>2
  <2>2. section'.queue \in Seq(Words) /\ Len(section'.queue) <= Room
    <3>1. sent \in Nat
      BY DEF TypeOK
    <3>2. PICK c \in Seq(Words) : c = Chunk(n)
      BY <2>1, <3>1, ChunkIs
    <3>3. section'.queue = section.queue \o c
      BY <2>1, <3>2 DEF TypeOK, Sections
    <3>4. Len(section.queue) + Len(c) <= Room
      BY <2>1, <3>2 DEF Fits, queue
    <3>5. section.queue \in Seq(Words)
      BY DEF TypeOK, Sections
    <3> QED
      BY <3>3, <3>4, <3>5
  <2>3. section' \in Sections /\ section'.size = section.size
    BY <2>1, <2>2 DEF TypeOK, Sections
  <2>4. sent' \in 0 .. Length
    <3>1. sent \in 0 .. Length
      BY DEF TypeOK
    <3>2. sent' = sent + n /\ sent + n <= Length /\ n \in 1 .. MaxChunk
      BY <2>1
    <3> QED
      BY <3>1, <3>2
  <2>5. UNCHANGED <<holders, pPc, pLaunches, consumer>>
    BY <1>6 DEF SendChunk
  <2> QED
    BY <2>2, <2>3, <2>4, <2>5 DEF TypeOK, Sections, queue
<1>7. CASE SendMark
  <2>1. Count(0) \in Words /\ Len(<<Count(0)>>) = 1
    BY DEF Words
  <2>2. section'.queue \in Seq(Words) /\ Len(section'.queue) <= Room
    BY <1>7, <2>1 DEF SendMark, TypeOK, queue, Fits
  <2> QED
    BY <1>7, <2>2 DEF SendMark, TypeOK, queue
<1>8. CASE ProducerExit
  BY <1>8, ReleaseKeeps DEF Sections, ProducerExit, TypeOK
<1>9. CASE ProducerDies
  BY <1>9, ReleaseKeeps DEF Sections, ProducerDies, TypeOK
<1> QED
  BY <1>1, <1>2, <1>3, <1>4, <1>5, <1>6, <1>7, <1>8, <1>9 DEF ProducerStep

LEMMA ConsumerLive ==
  ASSUME LiveInv, ConsumerStep \/ LaunchConsumer \/ ConsumerDies
  PROVE  LiveInv'
<1> USE DEF LiveInv, Holds, AttachedIsLive, producer, consumer
<1>1. CASE LaunchConsumer
  BY <1>1 DEF LaunchConsumer, TypeOK, queue
<1>2. CASE Open
  BY <1>2 DEF Open, TypeOK, queue
<1>3. CASE OpenFails
  <2>1. CASE cPc = "last"
    BY <1>3, <2>1, ReleaseKeeps DEF OpenFails, Sections, TypeOK
  <2>2. CASE cPc # "last"
    BY <1>3, <2>2 DEF OpenFails, TypeOK, queue
  <2> QED
    BY <2>1, <2>2
<1>4. CASE Sleep
  BY <1>4 DEF Sleep, TypeOK, queue
<1>5. CASE Attach
  <2>1. CASE section.size = Size
    BY <1>5, <2>1 DEF Attach, TypeOK, queue
  <2>2. CASE section.size # Size
    BY <1>5, <2>2, ReleaseKeeps DEF Attach, Sections, TypeOK
  <2> QED
    BY <2>1, <2>2
<1>6. CASE ReadStamp
  <2>1. section'.queue \in Seq(Words) /\ Len(section'.queue) <= Room
    BY <1>6 DEF ReadStamp, TypeOK, queue
  <2>2. section' \in Sections /\ section'.size = section.size
    <3>1. section' = [size |-> section.size, queue |-> section'.queue,
                      writers |-> section.writers, readers |-> section.readers + 1]
      BY <1>6 DEF ReadStamp, TypeOK
    <3>2. section.size \in {0, Size} /\ section.writers \in Nat /\ section.readers + 1 \in Nat
      BY DEF TypeOK
    <3> QED
      BY <2>1, <3>1, <3>2 DEF Sections
  <2>3. cPc = "stamp" /\ cPc' \in {"stamp", "receive"} /\ received' = <<>>
        /\ UNCHANGED <<holders, cSize, waited, cLaunches, producer>>
    BY <1>6 DEF ReadStamp
  <2> QED
    BY <2>1, <2>2, <2>3, EmptyWords DEF TypeOK, Sections, queue
<1>7. CASE ReceiveChunk
  <2>1. PICK n \in Numbers(Head(queue)) :
          /\ 1 + n <= Len(queue)  /\ received' = received \o SubSeq(queue, 2, 1 + n)
          /\ section' = [section EXCEPT !.queue = SubSeq(@, n + 2, Len(@))]
    BY <1>7 DEF ReceiveChunk
  <2>2. queue \in Seq(Words) /\ n \in Nat /\ Len(queue) <= Room
    <3>1. queue \in Seq(Words) /\ queue # <<>> /\ Len(queue) <= Room
      BY <1>7 DEF ReceiveChunk, TypeOK, queue
    <3>2. Head(queue) \in Words
      BY <3>1
    <3> QED
      BY <3>1, <3>2, NumbersAre
  <2>3. SubSeq(queue, 2, 1 + n) \in Seq(Words)
    BY <2>1, <2>2
  <2>4. received' \in Seq(Words)
    BY <2>1, <2>3 DEF TypeOK
  <2>5. SubSeq(queue, n + 2, Len(queue)) \in Seq(Words) /\ Len(SubSeq(queue, n + 2, Len(queue))) <= Room
    <3>1. Len(queue) \in Nat
      BY <2>2, LenProperties
    <3>2. Len(SubSeq(queue, n + 2, Len(queue))) = Len(queue) - n - 1
      BY <2>1, <2>2, RestIs
    <3>3. SubSeq(queue, n + 2, Len(queue)) \in Seq(Words)
      BY <2>1, <2>2, RestIs
    <3>4. Len(queue) - n - 1 <= Room
      BY <2>2, <3>1
    <3> QED
      BY <3>2, <3>3, <3>4
  <2>6. section'.queue = SubSeq(queue, n + 2, Len(queue)) /\ section' \in Sections
        /\ section'.size = section.size
    BY <2>1, <2>5 DEF TypeOK, Sections, queue
  <2>7. cPc = "receive" /\ cPc' \in {"done", "receive"}
        /\ UNCHANGED <<holders, cSize, waited, cLaunches, producer>>
    BY <1>7 DEF ReceiveChunk
  <2> QED
    BY <2>4, <2>5, <2>6, <2>7 DEF TypeOK, Sections, queue
<1>8. CASE ConsumerExit
  BY <1>8, ReleaseKeeps DEF ConsumerExit, Sections, TypeOK
<1>9. CASE ConsumerDies
  BY <1>9, ReleaseKeeps DEF ConsumerDies, Sections, TypeOK
<1> QED
  BY <1>1, <1>2, <1>3, <1>4, <1>5, <1>6, <1>7, <1>8, <1>9 DEF ConsumerStep

THEOREM SessionLive == Spec => []LiveInv
<1>1. LiveInv /\ [Next]_vars => LiveInv'
  <2> SUFFICES ASSUME LiveInv, [Next]_vars PROVE LiveInv'
    OBVIOUS
  <2>1. CASE Next
    BY <2>1, ProducerLive, ConsumerLive DEF Next
  <2>2. CASE UNCHANGED vars
    BY <2>2 DEF vars, producer, consumer, LiveInv, TypeOK, Holds, AttachedIsLive, queue
  <2> QED
    BY <2>1, <2>2
<1> QED
  BY <1>1, LiveInit, PTL DEF Spec

\* A program that works on the queue works on a section that is there, and with
\* the size its producer gave it (shared-memory.inl, producer.cpp, consumer.cpp).
THEOREM AttachedAlwaysLive == Spec => []AttachedIsLive
BY SessionLive, PTL DEF LiveInv

\* The types of the session, with the queue never holding more than its room.
THEOREM SessionTypes == Spec => []TypeOK
BY SessionLive, PTL DEF LiveInv

--------------------------------------------------------------------------------
(***************************************************************************)
(* As long as one producer and one consumer have used the section, the     *)
(* consumer takes what it reads for what it is, and ends with all of the   *)
(* data.                                                                   *)
(*                                                                         *)
(* The queue is a row of frames, each a number and as many words of data;  *)
(* f[i] is how many words of data come before the frame at position i, in  *)
(* the queue or out of it already.  A start time may precede the frames.   *)
(***************************************************************************)

IsCount(word) == word[1] = "count"

Laid(q, o, f) ==
  /\ f \in [1 .. Len(q) + 1 -> Nat]
  /\ o < Len(q) => IsCount(q[o + 1])
  /\ \A i \in o + 1 .. Len(q), n \in 0 .. MaxChunk :
       q[i] = Count(n) =>
         /\ i + n <= Len(q)
         /\ f[i + n + 1] = f[i] + n
         /\ \A j \in 1 .. n : q[i + j] = Data(f[i] + j)
         /\ i + n < Len(q) => n > 0 /\ IsCount(q[i + n + 1])

Framing(q, o, took, given) ==
  \E f : Laid(q, o, f) /\ f[o + 1] = took /\ f[Len(q) + 1] = given

HasMark(q) == \E i \in 1 .. Len(q) : q[i] = Count(0)

\* Where the frames begin: behind the start time that has not been read yet.
Begin == IF section.readers = 0 /\ section.writers = 1 THEN 1 ELSE 0
Took  == Len(Taken)

FrameInv ==
  Single =>
    /\ section.readers <= section.writers
    /\ section.writers = 0 => queue = <<>>
    /\ Begin = 1 => queue # <<>> /\ queue[1] = Stamp
    /\ Framing(queue, Begin, Took, Given)
    /\ \A k \in 1 .. Took : Taken[k] = Data(k)
    /\ HasMark(queue) => Given = Length
    /\ pPc = "send" => section.writers = 1 /\ ~HasMark(queue) /\ cPc # "done"
    /\ cPc \in {"receive", "done"} => section.readers = 1
    /\ cPc = "done" => queue = <<>> /\ Given = Length

--------------------------------------------------------------------------------
\* Frames

LEMMA WordsDiffer ==
  /\ \A n, m : Count(n) = Count(m) => n = m
  /\ \A n, k : Count(n) # Data(k)
  /\ \A n : Count(n) # Stamp /\ IsCount(Count(n))
  /\ ~IsCount(Stamp)
BY DEF Count, Data, Stamp, IsCount

LEMMA NothingIsFramed ==
  ASSUME NEW a \in Nat
  PROVE  Framing(<<>>, 0, a, a) /\ ~HasMark(<<>>)
<1> DEFINE f == [i \in 1 .. 1 |-> a]
<1>1. Len(<<>>) = 0
  BY EmptyWords
<1>2. Laid(<<>>, 0, f)
  BY <1>1 DEF Laid
<1> QED
  BY <1>1, <1>2 DEF Framing, HasMark

LEMMA EmptyFraming ==
  ASSUME NEW a, NEW b, Framing(<<>>, 0, a, b)
  PROVE  a = b
BY EmptyWords DEF Framing

\* c is the size n and n words of data behind the first b.
IsFrame(c, n, b) ==
  Len(c) = n + 1 /\ c[1] = Count(n) /\ \A j \in 1 .. n : c[1 + j] = Data(b + j)

\* A frame of n words, or the end mark when n is 0, at the end of a row that
\* has no end mark yet
LEMMA AppendFrame ==
  ASSUME NEW q \in Seq(Words), NEW o \in 0 .. Len(q), NEW a \in Nat, NEW b \in Nat,
         Framing(q, o, a, b), ~HasMark(q),
         NEW n \in 0 .. MaxChunk, NEW c \in Seq(Words), IsFrame(c, n, b)
  PROVE  Framing(q \o c, o, a, b + n) /\ (n > 0 => ~HasMark(q \o c))
<1> USE DEF IsFrame
<1> DEFINE r == q \o c
<1>1. PICK f : Laid(q, o, f) /\ f[o + 1] = a /\ f[Len(q) + 1] = b
  BY DEF Framing
<1> DEFINE g == [i \in 1 .. Len(q) + n + 2 |-> IF i <= Len(q) + 1 THEN f[i] ELSE b + n]
<1>2. /\ Len(q) \in Nat  /\ Len(r) = Len(q) + n + 1  /\ n \in Nat
      /\ \A i \in 1 .. Len(q) : r[i] = q[i]
      /\ r[Len(q) + 1] = Count(n)
      /\ \A j \in 1 .. n : r[Len(q) + 1 + j] = Data(b + j)
  <2>1. /\ Len(q) \in Nat  /\ Len(r) = Len(q) + Len(c)
        /\ \A i \in 1 .. Len(q) + Len(c) : r[i] = IF i <= Len(q) THEN q[i] ELSE c[i - Len(q)]
    BY ConcatProperties, LenProperties
  <2> HIDE DEF r
  <2>2. Len(r) = Len(q) + n + 1 /\ \A i \in 1 .. Len(q) : r[i] = q[i]
    BY <2>1
  <2>3. \A k \in 1 .. n + 1 : r[Len(q) + k] = c[k]
    <3> TAKE k \in 1 .. n + 1
    <3>1. Len(q) + k \in 1 .. Len(q) + Len(c) /\ ~(Len(q) + k <= Len(q)) /\ Len(q) + k - Len(q) = k
      BY <2>1
    <3> QED
      BY <2>1, <3>1
  <2>4. r[Len(q) + 1] = Count(n)
    BY <2>3
  <2>5. ASSUME NEW j \in 1 .. n PROVE r[Len(q) + 1 + j] = Data(b + j)
    <3>1. 1 + j \in 1 .. n + 1 /\ Len(q) + (1 + j) = Len(q) + 1 + j
      BY <2>1
    <3> QED
      BY <2>3, <3>1
  <2> QED
    BY <2>1, <2>2, <2>4, <2>5
<1> HIDE DEF r
<1>3. f \in [1 .. Len(q) + 1 -> Nat]
  BY <1>1 DEF Laid
<1>4. /\ g \in [1 .. Len(r) + 1 -> Nat]
      /\ \A i \in 1 .. Len(q) + 1 : g[i] = f[i]
      /\ g[Len(q) + 1] = b  /\ g[Len(r) + 1] = b + n  /\ g[o + 1] = a
  BY <1>1, <1>2, <1>3
<1> HIDE DEF g
<1>5. IsCount(r[o + 1])
  <2>1. CASE o < Len(q)
    <3>1. o + 1 \in 1 .. Len(q)
      BY <1>2, <2>1
    <3>2. r[o + 1] = q[o + 1]
      BY <1>2, <3>1
    <3> QED
      BY <1>1, <2>1, <3>2 DEF Laid
  <2>2. CASE o = Len(q)
    BY <1>2, <2>2, WordsDiffer
  <2>3. o < Len(q) \/ o = Len(q)
    BY <1>2
  <2> QED
    BY <2>1, <2>2, <2>3
<1>6. ASSUME NEW i \in o + 1 .. Len(r), NEW m \in 0 .. MaxChunk, r[i] = Count(m)
      PROVE  /\ i + m <= Len(r)
             /\ g[i + m + 1] = g[i] + m
             /\ \A j \in 1 .. m : r[i + j] = Data(g[i] + j)
             /\ i + m < Len(r) => m > 0 /\ IsCount(r[i + m + 1])
  <2>1. CASE i <= Len(q)
    <3>1. q[i] = Count(m) /\ i \in 1 .. Len(q) /\ i \in o + 1 .. Len(q)
      <4>1. i \in Int /\ o \in Nat /\ o + 1 <= i
        BY <1>2, <1>6
      <4>2. i \in 1 .. Len(q) /\ i \in o + 1 .. Len(q)
        BY <1>2, <2>1, <4>1
      <4>3. r[i] = q[i]
        BY <1>2, <4>2, Zenon
      <4> QED
        BY <1>6, <4>2, <4>3, Zenon
    <3>2. /\ i + m <= Len(q)
          /\ f[i + m + 1] = f[i] + m
          /\ \A j \in 1 .. m : q[i + j] = Data(f[i] + j)
          /\ i + m < Len(q) => m > 0 /\ IsCount(q[i + m + 1])
      BY <1>1, <3>1 DEF Laid
    <3>3. m > 0
      BY <3>1 DEF HasMark
    <3>4. ASSUME NEW j \in 1 .. m PROVE r[i + j] = Data(g[i] + j)
      <4>1. i + j \in 1 .. Len(q) /\ g[i] = f[i]
        <5>1. i \in 1 .. Len(q) + 1
          BY <1>2, <3>1
        <5>2. i + j \in 1 .. Len(q)
          BY <1>2, <3>1, <3>2
        <5> QED
          BY <1>4, <5>1, <5>2
      <4> QED
        BY <1>2, <3>2, <4>1
    <3>5. IsCount(r[i + m + 1])
      <4>1. CASE i + m < Len(q)
        <5>1. i + m + 1 \in 1 .. Len(q)
          BY <1>2, <3>1, <4>1
        <5>2. r[i + m + 1] = q[i + m + 1]
          BY <1>2, <5>1
        <5> QED
          BY <3>2, <4>1, <5>2
      <4>2. CASE i + m = Len(q)
        <5>1. r[i + m + 1] = r[Len(q) + 1]
          BY <4>2
        <5> QED
          BY <1>2, <5>1, WordsDiffer, Zenon
      <4>3. i + m < Len(q) \/ i + m = Len(q)
        BY <1>2, <3>1, <3>2
      <4> QED
        BY <4>1, <4>2, <4>3
    <3>6. i + m <= Len(r) /\ i + m + 1 \in 1 .. Len(q) + 1 /\ i \in 1 .. Len(q) + 1
      BY <1>2, <3>1, <3>2
    <3>7. g[i + m + 1] = g[i] + m
      BY <1>4, <3>2, <3>6
    <3> QED
      BY <3>3, <3>4, <3>5, <3>6, <3>7
  <2>2. CASE i = Len(q) + 1
    <3>1. m = n
      BY <1>2, <1>6, <2>2, WordsDiffer
    <3>2. i + m = Len(r) /\ i + m + 1 = Len(r) + 1
      BY <1>2, <2>2, <3>1
    <3>3. g[i] = b /\ g[i + m + 1] = g[i] + m
      BY <1>4, <2>2, <3>1, <3>2
    <3>4. ASSUME NEW j \in 1 .. m PROVE r[i + j] = Data(g[i] + j)
      BY <1>2, <2>2, <3>1, <3>3
    <3> QED
      BY <1>2, <3>2, <3>3, <3>4
  <2>3. CASE i > Len(q) + 1
    <3>1. i - Len(q) - 1 \in 1 .. n /\ r[Len(q) + 1 + (i - Len(q) - 1)] = r[i]
      BY <1>2, <2>3
    <3>2. r[i] = Data(b + (i - Len(q) - 1))
      BY <1>2, <3>1
    <3> QED
      BY <1>6, <3>2, WordsDiffer
  <2>4. i <= Len(q) \/ i = Len(q) + 1 \/ i > Len(q) + 1
    BY <1>2
  <2> QED
    BY <2>1, <2>2, <2>3, <2>4
<1>7. Framing(r, o, a, b + n)
  BY <1>4, <1>5, <1>6 DEF Laid, Framing
<1>8. ASSUME n > 0, NEW i \in 1 .. Len(r), r[i] = Count(0)
      PROVE  FALSE
  <2>1. CASE i <= Len(q)
    BY <1>2, <1>8, <2>1 DEF HasMark
  <2>2. CASE i = Len(q) + 1
    BY <1>2, <1>8, <2>2, WordsDiffer
  <2>3. CASE i > Len(q) + 1
    <3>1. i - Len(q) - 1 \in 1 .. n /\ r[Len(q) + 1 + (i - Len(q) - 1)] = r[i]
      BY <1>2, <2>3
    <3>2. r[i] = Data(b + (i - Len(q) - 1))
      BY <1>2, <3>1
    <3> QED
      BY <1>8, <3>2, WordsDiffer
  <2>4. i \in Int
    BY <1>2
  <2> QED
    BY <1>2, <2>1, <2>2, <2>3, <2>4
<1> QED
  BY <1>7, <1>8 DEF HasMark, r

\* Dropping the first m words, when nothing or a frame comes behind them
LEMMA DropWords ==
  ASSUME NEW q \in Seq(Words), NEW o \in 0 .. Len(q), NEW f, Laid(q, o, f),
         NEW m \in o .. Len(q), m < Len(q) => IsCount(q[m + 1]),
         NEW r \in Seq(Words), Len(r) = Len(q) - m, \A i \in 1 .. Len(r) : r[i] = q[m + i]
  PROVE  Framing(r, 0, f[m + 1], f[Len(q) + 1]) /\ (HasMark(r) => HasMark(q))
<1> DEFINE g == [i \in 1 .. Len(q) - m + 1 |-> f[m + i]]
<1>1. Len(q) \in Nat  /\ m \in Nat
  BY LenProperties
<1>2. f \in [1 .. Len(q) + 1 -> Nat]
  BY DEF Laid
<1>3. /\ g \in [1 .. Len(r) + 1 -> Nat]  /\ g[1] = f[m + 1]  /\ g[Len(r) + 1] = f[Len(q) + 1]
      /\ \A i \in 1 .. Len(r) + 1 : g[i] = f[m + i]
  BY <1>1, <1>2
<1> HIDE DEF g
<1>4. ASSUME NEW i \in 0 + 1 .. Len(r), NEW n \in 0 .. MaxChunk, r[i] = Count(n)
      PROVE  /\ i + n <= Len(r)
             /\ g[i + n + 1] = g[i] + n
             /\ \A j \in 1 .. n : r[i + j] = Data(g[i] + j)
             /\ i + n < Len(r) => n > 0 /\ IsCount(r[i + n + 1])
  <2>1. m + i \in o + 1 .. Len(q) /\ q[m + i] = Count(n)
    BY <1>1, <1>4
  <2>2. /\ m + i + n <= Len(q)
        /\ f[m + i + n + 1] = f[m + i] + n
        /\ \A j \in 1 .. n : q[m + i + j] = Data(f[m + i] + j)
        /\ m + i + n < Len(q) => n > 0 /\ IsCount(q[m + i + n + 1])
    BY <2>1 DEF Laid
  <2>3. i + n <= Len(r) /\ i \in 1 .. Len(r) + 1 /\ i + n + 1 \in 1 .. Len(r) + 1
    BY <1>1, <2>2
  <2>4. g[i] = f[m + i] /\ g[i + n + 1] = f[m + (i + n + 1)] /\ m + (i + n + 1) = m + i + n + 1
    BY <1>1, <1>3, <2>3
  <2>5. ASSUME NEW j \in 1 .. n PROVE r[i + j] = Data(g[i] + j)
    <3>1. i + j \in 1 .. Len(r) /\ m + (i + j) = m + i + j
      BY <1>1, <2>3
    <3> QED
      BY <1>1, <2>2, <2>4, <3>1
  <2>6. i + n < Len(r) => n > 0 /\ IsCount(r[i + n + 1])
    <3> SUFFICES ASSUME i + n < Len(r) PROVE n > 0 /\ IsCount(r[i + n + 1])
      OBVIOUS
    <3>1. i + n + 1 \in 1 .. Len(r) /\ m + (i + n + 1) = m + i + n + 1 /\ m + i + n < Len(q)
      BY <1>1, <2>3
    <3> QED
      BY <1>1, <2>2, <3>1
  <2> QED
    BY <2>2, <2>3, <2>4, <2>5, <2>6
<1>5. 0 < Len(r) => IsCount(r[0 + 1])
  BY <1>1
<1>6. Laid(r, 0, g)
  BY <1>3, <1>4, <1>5, Zenon DEF Laid
<1>7. ASSUME NEW i \in 1 .. Len(r), r[i] = Count(0) PROVE m + i \in 1 .. Len(q) /\ q[m + i] = Count(0)
  BY <1>1, <1>7
<1>8. g[0 + 1] = f[m + 1] /\ g[Len(r) + 1] = f[Len(q) + 1]
  BY <1>3
<1>9. Framing(r, 0, f[m + 1], f[Len(q) + 1])
  BY <1>6, <1>8 DEF Framing
<1>10. HasMark(r) => HasMark(q)
  BY <1>7 DEF HasMark
<1> QED
  BY <1>9, <1>10

--------------------------------------------------------------------------------
\* The steps

USE SizeAssumption, RoomAssumption, LengthAssumption, BoundAssumption

LEMMA FrameInit ==
  ASSUME Init
  PROVE  FrameInv
<1>1. queue = <<>> /\ section.readers = 0 /\ section.writers = 0 /\ pPc = "off" /\ cPc = "off"
  BY DEF Init, NoSection, queue
<1>2. Begin = 0 /\ Given = 0 /\ Taken = <<>> /\ Took = 0
  BY <1>1, EmptyWords DEF Begin, Given, Taken, Took
<1> QED
  BY <1>1, <1>2, NothingIsFramed, EmptyWords DEF FrameInv

\* A step that leaves the queue and what was sent and received alone, and lets
\* no program begin to send or receive or end
LEMMA FrameQuiet ==
  ASSUME FrameInv, queue' = queue,
         section'.writers = section.writers, section'.readers = section.readers,
         sent' = sent, received' = received,
         pPc' = "send" => pPc = "send",
         cPc' \in {"receive", "done"} => cPc' = cPc
  PROVE  FrameInv'
<1>1. Single' = Single /\ Begin' = Begin /\ Given' = Given /\ Taken' = Taken /\ Took' = Took
  BY DEF Single, Begin, Given, Taken, Took
<1>2. SUFFICES ASSUME Single
               PROVE  FrameInv'
  BY <1>1 DEF FrameInv
<1>3. /\ section'.readers <= section'.writers
      /\ section'.writers = 0 => queue' = <<>>
      /\ Begin' = 1 => queue' # <<>> /\ queue'[1] = Stamp
      /\ Framing(queue', Begin', Took', Given')
      /\ \A k \in 1 .. Took' : Taken'[k] = Data(k)
      /\ HasMark(queue') => Given' = Length
  BY <1>1, <1>2 DEF FrameInv
<1>4. /\ pPc' = "send" => section'.writers = 1 /\ ~HasMark(queue') /\ cPc' # "done"
      /\ cPc' \in {"receive", "done"} => section'.readers = 1
      /\ cPc' = "done" => queue' = <<>> /\ Given' = Length
  BY <1>1, <1>2 DEF FrameInv
<1> QED
  BY <1>3, <1>4 DEF FrameInv

\* A step after which the section is gone
LEMMA FrameGone ==
  ASSUME Holds', section' = NoSection, holders' = {}
  PROVE  FrameInv'
<1>1. /\ queue' = <<>>  /\ section'.readers = 0  /\ section'.writers = 0
      /\ pPc' # "send"  /\ cPc' \notin {"receive", "done"}
  BY DEF Holds, NoSection, queue
<1>2. Begin' = 0 /\ Given' = 0 /\ Taken' = <<>> /\ Took' = 0
  BY <1>1, EmptyWords DEF Begin, Given, Taken, Took
<1> QED
  BY <1>1, <1>2, NothingIsFramed, EmptyWords DEF FrameInv

LEMMA FrameRelease ==
  ASSUME FrameInv, Holds', NEW p, Release(p), sent' = sent, received' = received,
         pPc' = "send" => pPc = "send",
         cPc' \in {"receive", "done"} => cPc' = cPc
  PROVE  FrameInv'
<1>1. CASE holders \ {p} = {}
  BY <1>1, FrameGone DEF Release
<1>2. CASE holders \ {p} # {}
  BY <1>2, FrameQuiet DEF Release, queue
<1> QED
  BY <1>1, <1>2

\* What the types say of the queue and the two counts
LEMMA Numerals ==
  ASSUME TypeOK
  PROVE  /\ queue \in Seq(Words) /\ section.queue \in Seq(Words) /\ Len(queue) \in Nat
         /\ section.writers \in Nat  /\ section.readers \in Nat  /\ sent \in Nat
         /\ received \in Seq(Words)  /\ Took \in Nat  /\ Given \in Nat
         /\ section = [size |-> section.size, queue |-> section.queue,
                       writers |-> section.writers, readers |-> section.readers]
<1>1. /\ queue \in Seq(Words) /\ section.queue \in Seq(Words)
      /\ section.writers \in Nat  /\ section.readers \in Nat  /\ sent \in Nat
      /\ received \in Seq(Words)
      /\ section = [size |-> section.size, queue |-> section.queue,
                    writers |-> section.writers, readers |-> section.readers]
  BY DEF TypeOK, queue
<1> QED
  BY <1>1, EmptyWords, LenProperties DEF Took, Taken, Given

LEMMA FrameSendStamp ==
  ASSUME LiveInv, FrameInv, SendStamp
  PROVE  FrameInv'
<1>1. /\ pPc = "stamp"  /\ pPc' = "send"  /\ sent' = 0  /\ cPc' = cPc  /\ received' = received
      /\ section' = [section EXCEPT !.writers = @ + 1,
                                    !.queue = IF Fits(<<Stamp>>) THEN @ \o <<Stamp>> ELSE @]
  BY DEF SendStamp, consumer
<1>2. SUFFICES ASSUME Single' PROVE FrameInv'
  BY DEF FrameInv
<1>3. section'.writers = section.writers + 1 /\ section'.readers = section.readers
  BY <1>1, Numerals DEF LiveInv
<1>4. Single /\ section.writers = 0 /\ section.readers = 0 /\ queue = <<>>
  BY <1>2, <1>3, Numerals DEF Single, FrameInv, LiveInv
<1>5. queue' = <<Stamp>>
  <2>1. Fits(<<Stamp>>)
    BY <1>4, EmptyWords DEF Fits
  <2>2. queue' = queue \o <<Stamp>>
    BY <1>1, <2>1, Numerals DEF LiveInv, queue
  <2> QED
    BY <1>4, <2>2
<1>6. Begin' = 1 /\ Taken' = <<>> /\ Took' = 0 /\ Given' = 0
  BY <1>1, <1>3, <1>4, EmptyWords DEF Begin, Taken, Took, Given
<1>7. Framing(<<Stamp>>, 1, 0, 0)
  <2> DEFINE f == [i \in 1 .. 2 |-> 0]
  <2>1. Laid(<<Stamp>>, 1, f) /\ f[1 + 1] = 0 /\ f[Len(<<Stamp>>) + 1] = 0
    BY DEF Laid
  <2> QED
    BY <2>1 DEF Framing
<1>8. ~HasMark(<<Stamp>>)
  BY WordsDiffer DEF HasMark
<1>9. cPc \notin {"receive", "done"}
  BY <1>4 DEF FrameInv
<1> QED
  BY <1>1, <1>3, <1>4, <1>5, <1>6, <1>7, <1>8, <1>9 DEF FrameInv

\* The frame that a sender adds: a chunk or the end mark
LEMMA FrameSend ==
  ASSUME LiveInv, FrameInv, pPc = "send", NEW n \in 0 .. MaxChunk,
         NEW c \in Seq(Words), Len(c) = n + 1, c[1] = Count(n),
         \A j \in 1 .. n : c[1 + j] = Data(sent + j),
         section' = [section EXCEPT !.queue = @ \o c],
         sent' = sent + n, UNCHANGED <<cPc, received>>,
         IF n = 0 THEN sent = Length /\ pPc' = "done" ELSE pPc' = "send"
  PROVE  FrameInv'
<1>1. section'.writers = section.writers /\ section'.readers = section.readers /\ queue' = queue \o c
  BY Numerals DEF LiveInv, queue
<1>2. SUFFICES ASSUME Single PROVE FrameInv'
  BY <1>1 DEF FrameInv, Single
<1>3. section.writers = 1 /\ ~HasMark(queue) /\ cPc # "done"
  BY <1>2 DEF FrameInv
<1>4. Given = sent /\ Given' = sent + n /\ Taken' = Taken /\ Took' = Took /\ Begin' = Begin
  BY <1>1, <1>3 DEF Given, Taken, Took, Begin
<1>5. queue \in Seq(Words) /\ Len(queue) \in Nat /\ Took \in Nat /\ sent \in Nat
  BY Numerals DEF LiveInv
<1>6. Framing(queue, Begin, Took, sent) /\ (Begin = 1 => queue # <<>> /\ queue[1] = Stamp)
  BY <1>2, <1>4 DEF FrameInv
<1>7. Begin \in 0 .. Len(queue)
  BY <1>5, <1>6 DEF Begin
<1>8. Framing(queue', Begin', Took', Given') /\ (n > 0 => ~HasMark(queue'))
  <2>1. IsFrame(c, n, sent)
    BY DEF IsFrame
  <2>2. Framing(queue \o c, Begin, Took, sent + n) /\ (n > 0 => ~HasMark(queue \o c))
    <3>1. /\ queue \in Seq(Words)  /\ Begin \in 0 .. Len(queue)  /\ Took \in Nat  /\ sent \in Nat
          /\ Framing(queue, Begin, Took, sent)  /\ ~HasMark(queue)
      BY <1>3, <1>5, <1>6, <1>7
    <3> QED
      BY <2>1, <3>1, AppendFrame
  <2> QED
    BY <1>1, <1>4, <2>2
<1>9. Begin' = 1 => queue' # <<>> /\ queue'[1] = Stamp
  <2> SUFFICES ASSUME Begin = 1 PROVE queue' # <<>> /\ queue'[1] = Stamp
    BY <1>4
  <2> QED
    BY <1>1, <1>5, <1>6, ConcatProperties
<1>10. /\ HasMark(queue') => Given' = Length
       /\ pPc' = "send" => ~HasMark(queue')
  BY <1>4, <1>5, <1>8
<1> QED
  BY <1>1, <1>2, <1>3, <1>4, <1>8, <1>9, <1>10 DEF FrameInv

LEMMA FrameSendChunk ==
  ASSUME LiveInv, FrameInv, SendChunk
  PROVE  FrameInv'
<1>1. sent \in Nat /\ sent < Length /\ pPc = "send" /\ pPc' = pPc /\ UNCHANGED <<cPc, received>>
  BY DEF SendChunk, LiveInv, TypeOK, consumer
<1>2. PICK drawn \in 1 .. MaxChunk :
        /\ section' = [section EXCEPT !.queue = @ \o Chunk(Smaller(drawn, Length - sent))]
        /\ sent' = sent + Smaller(drawn, Length - sent)
  BY DEF SendChunk
<1>3. PICK n \in 1 .. MaxChunk : n = Smaller(drawn, Length - sent) /\ sent + n <= Length
  BY <1>1, SmallerIs
<1>4. /\ Chunk(n) \in Seq(Words)  /\ Len(Chunk(n)) = n + 1  /\ Chunk(n)[1] = Count(n)
      /\ \A j \in 1 .. n : Chunk(n)[1 + j] = Data(sent + j)
  BY <1>1, <1>3, ChunkIs
<1>5. n \in 0 .. MaxChunk /\ n # 0
  BY <1>3
<1> QED
  BY <1>1, <1>2, <1>3, <1>4, <1>5, FrameSend

LEMMA FrameSendMark ==
  ASSUME LiveInv, FrameInv, SendMark
  PROVE  FrameInv'
<1>1. /\ sent = Length /\ pPc = "send" /\ pPc' = "done" /\ UNCHANGED <<cPc, received>>
      /\ section' = [section EXCEPT !.queue = @ \o <<Count(0)>>] /\ sent' = sent + 0
  BY DEF SendMark, consumer, LiveInv, TypeOK
<1>2. <<Count(0)>> \in Seq(Words) /\ Len(<<Count(0)>>) = 0 + 1 /\ <<Count(0)>>[1] = Count(0)
      /\ 0 \in 0 .. MaxChunk
  <2>1. Count(0) \in Words
    BY DEF Words
  <2> QED
    BY <2>1
<1>3. \A j \in 1 .. 0 : <<Count(0)>>[1 + j] = Data(sent + j)
  OBVIOUS
<1> QED
  BY <1>1, <1>2, <1>3, FrameSend

LEMMA FrameReadStamp ==
  ASSUME LiveInv, FrameInv, ReadStamp
  PROVE  FrameInv'
<1>1. /\ queue # <<>>  /\ received' = <<>>  /\ UNCHANGED <<pPc, sent>>
      /\ section' = [section EXCEPT !.queue = Tail(@), !.readers = @ + 1]
      /\ \E n \in Numbers(Head(queue)) : cPc' = IF n = 0 THEN "stamp" ELSE "receive"
  BY DEF ReadStamp, producer
<1>2. SUFFICES ASSUME Single' PROVE FrameInv'
  BY DEF FrameInv
<1>3. /\ section'.writers = section.writers  /\ section'.readers = section.readers + 1
      /\ queue' = Tail(queue)
  BY <1>1, Numerals DEF LiveInv, queue
<1>4. /\ queue \in Seq(Words)  /\ Len(queue) \in Nat  /\ section.writers \in Nat
      /\ section.readers \in Nat
  BY Numerals DEF LiveInv
<1>5. Single /\ section.readers = 0 /\ section.writers = 1
  <2>1. section'.writers <= 1 /\ section'.readers <= 1
    BY <1>2 DEF Single
  <2>2. Single /\ section.readers = 0
    BY <1>3, <1>4, <2>1 DEF Single
  <2>3. section.writers # 0
    BY <1>1, <2>2 DEF FrameInv
  <2> QED
    BY <1>3, <1>4, <2>1, <2>2, <2>3
<1>6. /\ Begin = 1  /\ Begin' = 0  /\ Took = 0  /\ Taken' = <<>>  /\ Took' = 0  /\ Given' = Given
  BY <1>1, <1>3, <1>5, EmptyWords DEF Begin, Taken, Took, Given
<1>7. queue[1] = Stamp
  BY <1>5, <1>6 DEF FrameInv
<1>8. cPc' = "receive"
  <2>1. Head(queue) = Stamp
    BY <1>1, <1>4, <1>7
  <2>2. Numbers(Head(queue)) = {Room + 1} /\ Room + 1 # 0
    BY <2>1 DEF Numbers, Stamp
  <2> QED
    BY <1>1, <2>2
<1>9. PICK f : Laid(queue, 1, f) /\ f[1 + 1] = 0 /\ f[Len(queue) + 1] = Given
  BY <1>5, <1>6 DEF FrameInv, Framing
<1>10. PICK rest \in Seq(Words) : /\ rest = Tail(queue)  /\ Len(rest) = Len(queue) - 1
                                  /\ \A i \in 1 .. Len(rest) : rest[i] = queue[1 + i]
  <2>1. /\ Tail(queue) \in Seq(Words)  /\ Len(Tail(queue)) = Len(queue) - 1
        /\ \A i \in 1 .. Len(Tail(queue)) : Tail(queue)[i] = queue[1 + i]
    BY <1>1, <1>4
  <2> QED
    BY <2>1
<1>11. 1 \in 0 .. Len(queue) /\ 1 \in 1 .. Len(queue) /\ (1 < Len(queue) => IsCount(queue[1 + 1]))
  <2>1. 1 <= Len(queue)
    BY <1>1, <1>4, EmptySeq
  <2> QED
    BY <1>4, <1>9, <2>1 DEF Laid
<1>12. Framing(queue', 0, 0, Given) /\ (HasMark(queue') => HasMark(queue))
  <2>1. Framing(rest, 0, f[1 + 1], f[Len(queue) + 1]) /\ (HasMark(rest) => HasMark(queue))
    <3>1. /\ Laid(queue, 1, f)  /\ queue \in Seq(Words)  /\ Len(rest) = Len(queue) - 1
          /\ \A i \in 1 .. Len(rest) : rest[i] = queue[1 + i]
          /\ 1 \in 0 .. Len(queue)  /\ 1 \in 1 .. Len(queue)
          /\ 1 < Len(queue) => IsCount(queue[1 + 1])
      BY <1>4, <1>9, <1>10, <1>11
    <3> QED
      BY <3>1, DropWords, Zenon
  <2> QED
    BY <1>3, <1>9, <1>10, <2>1
<1>13. /\ HasMark(queue') => Given = Length
       /\ pPc' = "send" => ~HasMark(queue')
  BY <1>1, <1>5, <1>12 DEF FrameInv
<1> QED
  BY <1>3, <1>5, <1>6, <1>8, <1>12, <1>13 DEF FrameInv

\* The first word of a queue that a consumer receives from
LEMMA FirstIsCount ==
  ASSUME NEW q \in Seq(Words), q # <<>>, NEW f, Laid(q, 0, f)
  PROVE  /\ Len(q) \in Nat \ {0}
         /\ \E n \in 0 .. MaxChunk : q[1] = Count(n) /\ Numbers(Head(q)) = {n}
<1>1. Len(q) \in Nat \ {0} /\ Head(q) = q[1] /\ q[1] \in Words
  BY EmptySeq, ElementOfSeq
<1>2. IsCount(q[1])
  BY <1>1 DEF Laid
<1>3. PICK n \in 0 .. MaxChunk : q[1] = Count(n)
  BY <1>1, <1>2 DEF Words, IsCount, Stamp, Data
<1>4. Numbers(Head(q)) = {n}
  BY <1>1, <1>3 DEF Numbers, Count
<1> QED
  BY <1>1, <1>3, <1>4

LEMMA FrameReceiveChunk ==
  ASSUME LiveInv, FrameInv, ReceiveChunk
  PROVE  FrameInv'
<1>1. PICK n \in Numbers(Head(queue)) :
        /\ 1 + n <= Len(queue)
        /\ received' = received \o SubSeq(queue, 2, 1 + n)
        /\ section' = [section EXCEPT !.queue = SubSeq(@, n + 2, Len(@))]
        /\ cPc' = IF n = 0 THEN "done" ELSE "receive"
  BY DEF ReceiveChunk
<1>2. cPc = "receive" /\ queue # <<>> /\ UNCHANGED <<pPc, sent>>
  BY DEF ReceiveChunk, producer
<1>3. /\ queue \in Seq(Words)  /\ Len(queue) \in Nat  /\ section.writers \in Nat
      /\ section.readers \in Nat  /\ received \in Seq(Words)
  BY Numerals DEF LiveInv
<1>4. /\ section'.writers = section.writers  /\ section'.readers = section.readers
      /\ queue' = SubSeq(queue, n + 2, Len(queue))
  BY <1>1, Numerals DEF LiveInv, queue
<1>5. SUFFICES ASSUME Single PROVE FrameInv'
  BY <1>4 DEF FrameInv, Single
<1>6. section.readers = 1 /\ section.writers = 1
  BY <1>2, <1>3, <1>5 DEF FrameInv, Single
<1>7. /\ Begin = 0  /\ Begin' = 0  /\ Taken = received  /\ Taken' = received'
      /\ Took = Len(received)  /\ Took' = Len(received')  /\ Given' = Given
  BY <1>2, <1>4, <1>6 DEF Begin, Taken, Took, Given
<1>8. PICK f : Laid(queue, 0, f) /\ f[1] = Len(received) /\ f[Len(queue) + 1] = Given
  BY <1>5, <1>7 DEF FrameInv, Framing
<1>9. n \in 0 .. MaxChunk /\ queue[1] = Count(n)
  BY <1>2, <1>3, <1>8, FirstIsCount
<1>10. /\ f[n + 2] = Len(received) + n
       /\ \A j \in 1 .. n : queue[1 + j] = Data(Len(received) + j)
       /\ 1 + n < Len(queue) => n > 0 /\ IsCount(queue[n + 2])
  <2>1. 1 \in 0 + 1 .. Len(queue)
    BY <1>1, <1>3, <1>9
  <2>2. /\ f[1 + n + 1] = f[1] + n
        /\ \A j \in 1 .. n : queue[1 + j] = Data(f[1] + j)
        /\ 1 + n < Len(queue) => n > 0 /\ IsCount(queue[1 + n + 1])
    BY <1>8, <1>9, <2>1 DEF Laid
  <2>3. 1 + n + 1 = n + 2
    BY <1>9
  <2> QED
    BY <1>8, <2>2, <2>3
<1>11. /\ SubSeq(queue, 2, 1 + n) \in Seq(Words)  /\ Len(SubSeq(queue, 2, 1 + n)) = n
       /\ \A j \in 1 .. n : SubSeq(queue, 2, 1 + n)[j] = Data(Len(received) + j)
  <2>1. n \in Nat /\ 1 + n <= Len(queue)
    BY <1>1, <1>9
  <2>2. /\ SubSeq(queue, 2, 1 + n) \in Seq(Words)  /\ Len(SubSeq(queue, 2, 1 + n)) = n
        /\ \A j \in 1 .. n : SubSeq(queue, 2, 1 + n)[j] = queue[1 + j]
    BY <1>3, <2>1, PayloadIs
  <2> QED
    BY <1>10, <2>2
<1>12. Took' = Took + n /\ \A k \in 1 .. Took' : Taken'[k] = Data(k)
  <2>1. PICK data \in Seq(Words) :
          /\ received' = received \o data  /\ Len(data) = n
          /\ \A j \in 1 .. n : data[j] = Data(Len(received) + j)
    BY <1>1, <1>11
  <2>2. /\ Len(received) \in Nat  /\ n \in Nat  /\ Len(received') = Len(received) + n
        /\ \A k \in 1 .. Len(received) + n :
             received'[k] = IF k <= Len(received) THEN received[k] ELSE data[k - Len(received)]
    BY <1>3, <1>9, <2>1, ConcatProperties, LenProperties
  <2>3. \A k \in 1 .. Len(received) : received[k] = Data(k)
    BY <1>5, <1>7 DEF FrameInv
  <2>4. ASSUME NEW k \in 1 .. Len(received) + n PROVE received'[k] = Data(k)
    <3>1. CASE k <= Len(received)
      BY <2>2, <2>3, <3>1
    <3>2. CASE k > Len(received)
      <4>1. k - Len(received) \in 1 .. n /\ Len(received) + (k - Len(received)) = k
        BY <2>2, <3>2
      <4> QED
        BY <2>1, <2>2, <3>2, <4>1
    <3> QED
      BY <2>2, <3>1, <3>2
  <2> QED
    BY <1>7, <2>2, <2>4
<1>13. Framing(queue', 0, Took', Given) /\ (HasMark(queue') => HasMark(queue))
       /\ (n = 0 => queue' = <<>>)
  <2>1. PICK rest \in Seq(Words) :
          /\ rest = queue'  /\ Len(rest) = Len(queue) - (n + 1)
          /\ \A i \in 1 .. Len(rest) : rest[i] = queue[n + 1 + i]
    <3>1. /\ SubSeq(queue, n + 2, Len(queue)) \in Seq(Words)
          /\ Len(SubSeq(queue, n + 2, Len(queue))) = Len(queue) - n - 1
          /\ \A i \in 1 .. Len(queue) - n - 1 : SubSeq(queue, n + 2, Len(queue))[i] = queue[n + 1 + i]
      <4>1. n \in Nat
        BY <1>9
      <4> QED
        BY <1>1, <1>3, <4>1, RestIs
    <3>2. PICK l : l = Len(queue) - n - 1 /\ l = Len(queue) - (n + 1)
      BY <1>3, <1>9
    <3>3. PICK rest : rest = SubSeq(queue, n + 2, Len(queue))
      OBVIOUS
    <3>4. /\ rest \in Seq(Words)  /\ Len(rest) = l
          /\ \A i \in 1 .. l : rest[i] = queue[n + 1 + i]
      BY <3>1, <3>2, <3>3, Zenon
    <3>5. rest = queue'
      BY <1>4, <3>3, Zenon
    <3> QED
      BY <3>2, <3>4, <3>5, Zenon
  <2>2. PICK m \in 0 .. Len(queue) : m = n + 1
    <3>1. n \in Nat /\ Len(queue) \in Nat /\ n + 1 <= Len(queue)
      BY <1>1, <1>3, <1>9
    <3> QED
      BY <3>1
  <2>3. m + 1 = n + 2
    BY <1>9, <2>2
  <2>4. /\ 0 \in 0 .. Len(queue)
        /\ m < Len(queue) => IsCount(queue[m + 1])
        /\ Len(rest) = Len(queue) - m  /\ \A i \in 1 .. Len(rest) : rest[i] = queue[m + i]
    BY <1>3, <1>9, <1>10, <2>1, <2>2, <2>3
  <2>5. Framing(rest, 0, f[m + 1], f[Len(queue) + 1]) /\ (HasMark(rest) => HasMark(queue))
    <3>1. Laid(queue, 0, f) /\ queue \in Seq(Words)
      BY <1>3, <1>8
    <3> QED
      BY <2>4, <3>1, DropWords, Zenon
  <2>6. n = 0 => rest = <<>>
    <3>1. n = 0 => Len(rest) = 0
      BY <1>1, <1>3, <1>10, <2>1
    <3>2. rest # <<>> => Len(rest) # 0
      BY <2>1, EmptySeq
    <3> QED
      BY <3>1, <3>2
  <2>7. /\ f[m + 1] = Took'  /\ f[Len(queue) + 1] = Given
    BY <1>7, <1>8, <1>10, <1>12, <2>3
  <2> QED
    BY <2>1, <2>5, <2>6, <2>7
<1>14. n = 0 => Given = Length /\ pPc # "send"
  <2> SUFFICES ASSUME n = 0 PROVE HasMark(queue)
    BY <1>5 DEF FrameInv
  <2>1. 1 \in 1 .. Len(queue)
    BY <1>1, <1>3, <1>9
  <2> QED
    BY <1>9, <2>1 DEF HasMark
<1>15. /\ HasMark(queue') => Given = Length
       /\ pPc' = "send" => ~HasMark(queue') /\ cPc' # "done"
       /\ cPc' = "done" => queue' = <<>> /\ Given = Length
  BY <1>1, <1>2, <1>5, <1>13, <1>14 DEF FrameInv
<1> QED
  BY <1>4, <1>6, <1>7, <1>12, <1>13, <1>15 DEF FrameInv

LEMMA FrameProducer ==
  ASSUME LiveInv, LiveInv', FrameInv, ProducerStep \/ LaunchProducer \/ ProducerDies
  PROVE  FrameInv'
<1> USE DEF producer, consumer, queue
<1>0. Holds'
  BY DEF LiveInv
<1>1. CASE LaunchProducer
  BY <1>1, FrameQuiet DEF LaunchProducer
<1>2. CASE Create
  BY <1>2, FrameQuiet DEF Create
<1>3. CASE CreateFails
  <2>1. CASE pPc = "create"
    BY <1>3, <2>1, FrameQuiet DEF CreateFails
  <2>2. CASE pPc = "again"
    BY <1>0, <1>3, <2>2, FrameRelease DEF CreateFails
  <2> QED
    BY <1>3, <2>1, <2>2 DEF CreateFails
<1>4. CASE StoreHeader
  <2>1. /\ section'.queue = section.queue  /\ section'.writers = section.writers
        /\ section'.readers = section.readers
    BY <1>4, Numerals DEF StoreHeader, LiveInv
  <2> QED
    BY <1>4, <2>1, FrameQuiet DEF StoreHeader
<1>5. CASE SendStamp
  BY <1>5, FrameSendStamp
<1>6. CASE SendChunk
  BY <1>6, FrameSendChunk
<1>7. CASE SendMark
  BY <1>7, FrameSendMark
<1>8. CASE ProducerExit
  BY <1>0, <1>8, FrameRelease DEF ProducerExit
<1>9. CASE ProducerDies
  BY <1>0, <1>9, FrameRelease DEF ProducerDies
<1> QED
  BY <1>1, <1>2, <1>3, <1>4, <1>5, <1>6, <1>7, <1>8, <1>9 DEF ProducerStep

LEMMA FrameConsumer ==
  ASSUME LiveInv, LiveInv', FrameInv, ConsumerStep \/ LaunchConsumer \/ ConsumerDies
  PROVE  FrameInv'
<1> USE DEF producer, consumer, queue
<1>0. Holds'
  BY DEF LiveInv
<1>1. CASE LaunchConsumer
  BY <1>1, FrameQuiet DEF LaunchConsumer
<1>2. CASE Open
  BY <1>2, FrameQuiet DEF Open
<1>3. CASE OpenFails
  <2>1. CASE cPc = "last"
    BY <1>0, <1>3, <2>1, FrameRelease DEF OpenFails
  <2>2. CASE cPc # "last"
    BY <1>3, <2>2, FrameQuiet DEF OpenFails
  <2> QED
    BY <2>1, <2>2
<1>4. CASE Sleep
  BY <1>4, FrameQuiet DEF Sleep
<1>5. CASE Attach
  <2>1. CASE cSize' = Size
    BY <1>5, <2>1, FrameQuiet DEF Attach
  <2>2. CASE cSize' # Size
    BY <1>0, <1>5, <2>2, FrameRelease DEF Attach
  <2> QED
    BY <2>1, <2>2
<1>6. CASE ReadStamp
  BY <1>6, FrameReadStamp
<1>7. CASE ReceiveChunk
  BY <1>7, FrameReceiveChunk
<1>8. CASE ConsumerExit
  BY <1>0, <1>8, FrameRelease DEF ConsumerExit
<1>9. CASE ConsumerDies
  BY <1>0, <1>9, FrameRelease DEF ConsumerDies
<1> QED
  BY <1>1, <1>2, <1>3, <1>4, <1>5, <1>6, <1>7, <1>8, <1>9 DEF ConsumerStep

--------------------------------------------------------------------------------
\* The invariant, and what it says of the consumer

THEOREM SessionFramed == Spec => [](LiveInv /\ FrameInv)
<1>1. LiveInv /\ LiveInv' /\ FrameInv /\ [Next]_vars => FrameInv'
  <2> SUFFICES ASSUME LiveInv, LiveInv', FrameInv, [Next]_vars PROVE FrameInv'
    OBVIOUS
  <2>1. CASE Next
    BY <2>1, FrameProducer, FrameConsumer DEF Next
  <2>2. CASE UNCHANGED vars
    BY <2>2, FrameQuiet DEF vars, producer, consumer, queue
  <2> QED
    BY <2>1, <2>2
<1> QED
  BY <1>1, FrameInit, SessionLive, PTL DEF Spec

\* The first thing a consumer reads is the start time, and the size of a chunk
\* or the end mark is the first thing it finds from then on (consumer.cpp, the
\* receiver of utest_jobs.inl).
THEOREM AlwaysFramed == Spec => []Framed
<1>1. LiveInv /\ FrameInv => Framed
  <2> SUFFICES ASSUME LiveInv, FrameInv, Single, queue # <<>>
               PROVE  IF section.readers = 0 THEN Head(queue) = Stamp ELSE Head(queue)[1] = "count"
    BY DEF Framed
  <2>1. queue \in Seq(Words) /\ section.writers \in Nat /\ section.readers \in Nat
    BY Numerals DEF LiveInv
  <2>2. section.writers = 1 /\ Head(queue) = queue[1] /\ Len(queue) \in Nat \ {0}
    BY <2>1, EmptySeq DEF FrameInv, Single
  <2>3. CASE section.readers = 0
    BY <2>2, <2>3 DEF FrameInv, Begin
  <2>4. CASE section.readers # 0
    <3>1. PICK f : Laid(queue, 0, f)
      BY <2>4 DEF FrameInv, Framing, Begin
    <3> QED
      BY <2>2, <2>4, <3>1 DEF Laid, IsCount
  <2> QED
    BY <2>3, <2>4
<1> QED
  BY <1>1, SessionFramed, PTL

\* A consumer that ends has received all of the data in order, and leaves an
\* empty queue (the receiver of utest_jobs.inl).
THEOREM EndsAlwaysComplete == Spec => []EndsComplete
<1>1. LiveInv /\ FrameInv => EndsComplete
  <2> SUFFICES ASSUME LiveInv, FrameInv, Single, cPc = "done"
               PROVE  received = Source /\ queue = <<>>
    BY DEF EndsComplete
  <2>1. section.readers = 1 /\ queue = <<>> /\ Given = Length /\ Begin = 0
    BY DEF FrameInv, Begin
  <2>2. Taken = received /\ Took = Length
    BY <2>1, EmptyFraming DEF Taken, FrameInv
  <2>3. received \in Seq(Words) /\ Len(received) = Length
        /\ \A k \in 1 .. Length : received[k] = Data(k)
    BY <2>2, Numerals DEF FrameInv, Took, LiveInv
  <2> QED
    BY <2>1, <2>3, SourceIs, SeqEqual
<1> QED
  BY <1>1, SessionFramed, PTL

--------------------------------------------------------------------------------
\* The data in the frames

\* w holds the words of data from the one behind took up to the last of upto.
Gathered(w, took, upto) ==
  /\ took \in Nat  /\ upto \in Nat  /\ took <= upto
  /\ w \in Seq(Words)  /\ Len(w) = upto - took
  /\ \A k \in 1 .. Len(w) : w[k] = Data(took + k)

LEMMA GatherNone ==
  ASSUME NEW w, NEW took, NEW upto, Gathered(w, took, upto)
  PROVE  Gathered(w \o <<>>, took, upto)
<1>1. w \in Seq(Words)
  BY DEF Gathered
<1>2. w \o <<>> = w
  BY <1>1, ConcatEmptySeq
<1> QED
  BY <1>2

LEMMA GatherOne ==
  ASSUME NEW w, NEW took, NEW upto, Gathered(w, took, upto),
         NEW word \in Words, word = Data(upto + 1)
  PROVE  Gathered(w \o <<word>>, took, upto + 1)
<1> DEFINE v == <<word>>
           u == w \o v
<1>1. v \in Seq(Words) /\ Len(v) = 1 /\ v[1] = word
  OBVIOUS
<1>2. /\ took \in Nat  /\ upto \in Nat  /\ took <= upto
      /\ w \in Seq(Words)  /\ Len(w) = upto - took
      /\ \A k \in 1 .. Len(w) : w[k] = Data(took + k)
  BY DEF Gathered
<1> HIDE DEF v
<1>3. /\ u \in Seq(Words)  /\ Len(u) = Len(w) + Len(v)
      /\ \A k \in 1 .. Len(w) : u[k] = w[k]
      /\ \A k \in 1 .. Len(v) : u[Len(w) + k] = v[k]
  <2>1. w \in Seq(Words) /\ v \in Seq(Words)
    BY <1>1, <1>2
  <2> QED
    BY <2>1, PairJoined
<1> HIDE DEF u
<1>4. Len(u) = upto + 1 - took /\ u[Len(w) + 1] = Data(upto + 1)
  BY <1>1, <1>2, <1>3
<1>5. ASSUME NEW k \in 1 .. Len(u) PROVE u[k] = Data(took + k)
  <2>1. CASE k \in 1 .. Len(w)
    BY <1>2, <1>3, <2>1
  <2>2. CASE k \notin 1 .. Len(w)
    <3>1. k = Len(w) + 1 /\ took + k = upto + 1
      BY <1>2, <1>4, <2>2
    <3> QED
      BY <1>4, <3>1
  <2> QED
    BY <2>1, <2>2
<1>6. upto + 1 \in Nat /\ took <= upto + 1
  BY <1>2
<1>7. Gathered(u, took, upto + 1)
  BY <1>2, <1>3, <1>4, <1>5, <1>6 DEF Gathered
<1> QED
  BY <1>7 DEF u, v

\* The piece of data that a word is
Piece(word) == IF IsData(word) THEN <<word>> ELSE <<>>

LEMMA PiecesAre ==
  /\ \A n : Piece(Count(n)) = <<>>
  /\ \A k : Piece(Data(k)) = <<Data(k)>>
  /\ Piece(Stamp) = <<>>
BY DEF Piece, IsData, Count, Data, Stamp

LEMMA CountsAre ==
  ASSUME NEW word \in Words, IsCount(word)
  PROVE  \E n \in 0 .. MaxChunk : word = Count(n)
BY DEF Words, IsCount, Count, Data, Stamp

\* Joining the pieces of a row of frames, word after word: behind word i, which
\* lies in the frame of m words that begins at e, all of the data up to there
\* has been gathered.
Within(q, o, f, took, w, i) ==
  \/ i = o /\ Gathered(w, took, took)
  \/ \E e \in o + 1 .. i, m \in 0 .. MaxChunk :
       q[e] = Count(m) /\ i <= e + m /\ Gathered(w, took, f[e] + (i - e))

LEMMA WithinBegins ==
  ASSUME NEW q \in Seq(Words), NEW o \in {0, 1}, o <= Len(q), NEW f, Laid(q, o, f),
         o = 1 => q[1] = Stamp, NEW took \in Nat, f[o + 1] = took, 1 <= Len(q)
  PROVE  Within(q, o, f, took, Piece(q[1]), 1)
<1>1. Gathered(<<>>, took, took)
  BY EmptyWords DEF Gathered
<1>2. CASE o = 1
  BY <1>1, <1>2, PiecesAre DEF Within
<1>3. CASE o = 0
  <2>1. q[1] \in Words /\ IsCount(q[1])
    BY <1>3, ElementOfSeq DEF Laid
  <2>2. PICK m \in 0 .. MaxChunk : q[1] = Count(m)
    BY <2>1, CountsAre
  <2>3. 1 \in o + 1 .. 1 /\ 1 <= 1 + m /\ f[1] + (1 - 1) = took
    BY <1>3
  <2>4. Piece(q[1]) = <<>>
    BY <2>2, PiecesAre
  <2> QED
    BY <1>1, <2>2, <2>3, <2>4 DEF Within
<1> QED
  BY <1>2, <1>3

LEMMA WithinGoesOn ==
  ASSUME NEW q \in Seq(Words), NEW o \in {0, 1}, NEW f, Laid(q, o, f),
         NEW took \in Nat, f[o + 1] = took,
         NEW i \in Nat, i >= 1, i + 1 <= Len(q), NEW w, Within(q, o, f, took, w, i)
  PROVE  Within(q, o, f, took, w \o Piece(q[i + 1]), i + 1)
<1>1. Len(q) \in Nat /\ q[i + 1] \in Words /\ f \in [1 .. Len(q) + 1 -> Nat]
  BY LenProperties, ElementOfSeq DEF Laid
<1>2. ASSUME NEW upto, Gathered(w, took, upto), IsCount(q[i + 1]), f[i + 1] = upto, o <= i
      PROVE  Within(q, o, f, took, w \o Piece(q[i + 1]), i + 1)
  <2>1. PICK m \in 0 .. MaxChunk : q[i + 1] = Count(m)
    BY <1>1, <1>2, CountsAre
  <2>2. w \o Piece(q[i + 1]) = w \o <<>>
    BY <2>1, PiecesAre
  <2>3. Gathered(w \o Piece(q[i + 1]), took, upto)
    BY <1>2, <2>2, GatherNone
  <2>4. /\ i + 1 \in o + 1 .. i + 1  /\ i + 1 <= i + 1 + m
        /\ f[i + 1] + (i + 1 - (i + 1)) = upto
    <3>1. upto \in Nat
      BY <1>2 DEF Gathered
    <3> QED
      BY <1>2, <3>1
  <2> QED
    BY <2>1, <2>3, <2>4 DEF Within
<1>3. CASE i = o /\ Gathered(w, took, took)
  <2>1. IsCount(q[i + 1])
    BY <1>1, <1>3 DEF Laid
  <2> QED
    BY <1>2, <1>3, <2>1
<1>4. ASSUME NEW e \in o + 1 .. i, NEW m \in 0 .. MaxChunk,
             q[e] = Count(m), i <= e + m, Gathered(w, took, f[e] + (i - e))
      PROVE  Within(q, o, f, took, w \o Piece(q[i + 1]), i + 1)
  <2>1. /\ e + m <= Len(q)  /\ f[e + m + 1] = f[e] + m
        /\ \A j \in 1 .. m : q[e + j] = Data(f[e] + j)
        /\ e + m < Len(q) => IsCount(q[e + m + 1])
    <3>1. e \in o + 1 .. Len(q)
      BY <1>1, <1>4
    <3> QED
      BY <1>4, <3>1 DEF Laid
  <2>2. e \in Nat /\ e >= 1 /\ e <= i /\ m \in Nat /\ o <= i /\ f[e] \in Nat
    BY <1>1, <1>4
  <2>3. CASE i < e + m
    <3> DEFINE j == i + 1 - e
    <3>1. j \in 1 .. m /\ e + j = i + 1 /\ f[e] + j = f[e] + (i - e) + 1
      BY <2>2, <2>3
    <3>2. q[i + 1] = Data(f[e] + (i - e) + 1)
      BY <2>1, <3>1
    <3>3. Piece(q[i + 1]) = <<q[i + 1]>>
      BY <3>2, PiecesAre
    <3>4. Gathered(w \o <<q[i + 1]>>, took, f[e] + (i - e) + 1)
      BY <1>1, <1>4, <3>2, GatherOne
    <3>5. /\ e \in o + 1 .. i + 1  /\ i + 1 <= e + m
          /\ f[e] + (i - e) + 1 = f[e] + ((i + 1) - e)
      BY <1>4, <2>2, <2>3
    <3>6. Gathered(w \o Piece(q[i + 1]), took, f[e] + ((i + 1) - e))
      BY <3>3, <3>4, <3>5, Zenon
    <3> DEFINE u == w \o Piece(q[i + 1])
               k == i + 1
    <3>7. e \in o + 1 .. k /\ q[e] = Count(m) /\ k <= e + m
      BY <1>4, <3>5, Zenon
    <3>8. Gathered(u, took, f[e] + (k - e))
      BY <3>6, Zenon
    <3> HIDE DEF u, k
    <3>9. Within(q, o, f, took, u, k)
      BY <3>7, <3>8, Zenon DEF Within
    <3> QED
      BY <3>9, Zenon DEF u, k
  <2>4. CASE i = e + m
    <3>1. IsCount(q[i + 1]) /\ f[i + 1] = f[e] + (i - e)
      BY <1>1, <2>1, <2>2, <2>4
    <3> QED
      BY <1>2, <1>4, <2>2, <3>1
  <2> QED
    BY <1>4, <2>2, <2>3, <2>4
<1> QED
  BY <1>3, <1>4 DEF Within

LEMMA WithinEnds ==
  ASSUME NEW q \in Seq(Words), NEW o \in {0, 1}, NEW f, Laid(q, o, f),
         NEW took \in Nat, f[o + 1] = took,
         1 <= Len(q), NEW w, Within(q, o, f, took, w, Len(q))
  PROVE  Gathered(w, took, f[Len(q) + 1])
<1>1. Len(q) \in Nat /\ f \in [1 .. Len(q) + 1 -> Nat]
  BY LenProperties DEF Laid
<1>2. ASSUME NEW e \in o + 1 .. Len(q), NEW m \in 0 .. MaxChunk,
             q[e] = Count(m), Len(q) <= e + m, Gathered(w, took, f[e] + (Len(q) - e))
      PROVE  Gathered(w, took, f[Len(q) + 1])
  <2>1. e + m <= Len(q) /\ f[e + m + 1] = f[e] + m
    BY <1>2 DEF Laid
  <2>2. e + m = Len(q) /\ f[e] + (Len(q) - e) = f[Len(q) + 1]
    BY <1>1, <1>2, <2>1
  <2> QED
    BY <1>2, <2>2
<1>3. CASE Len(q) = o /\ Gathered(w, took, took)
  <2>1. f[Len(q) + 1] = took
    BY <1>3
  <2> QED
    BY <1>3, <2>1
<1> QED
  BY <1>2, <1>3 DEF Within

\* The data in a row of frames, and in one that begins behind a start time, is
\* what comes behind took and before the end of the row.
LEMMA RowData ==
  ASSUME NEW q \in Seq(Words), q # <<>>, NEW o \in {0, 1}, o <= Len(q), NEW f, Laid(q, o, f),
         o = 1 => q[1] = Stamp, NEW took \in Nat, f[o + 1] = took
  PROVE  Gathered(DataIn(q), took, f[Len(q) + 1])
<1> DEFINE s == [i \in DOMAIN q |-> Piece(q[i])]
<1>1. Len(q) \in Nat \ {0} /\ DOMAIN q = 1 .. Len(q) /\ \A i \in 1 .. Len(q) : q[i] \in Words
  BY EmptySeq, LenProperties, ElementOfSeq
<1>2. s \in Seq(Seq(Words)) /\ Len(s) = Len(q) /\ \A i \in 1 .. Len(q) : s[i] = Piece(q[i])
  <2>1. \A i \in 1 .. Len(q) : Piece(q[i]) \in Seq(Words)
    BY <1>1 DEF Piece
  <2>2. s \in [1 .. Len(q) -> Seq(Words)]
    BY <1>1, <2>1
  <2> QED
    BY <1>1, <2>2
<1>3. DataIn(q) = FlattenSeq(s)
  BY DEF DataIn, Piece
<1> HIDE DEF s
<1>4. PICK F \in [1 .. Len(s) -> Seq(Words)] : Joins(F, s, Len(s)) /\ FlattenSeq(s) = F[Len(s)]
  BY <1>1, <1>2, FlattenJoins
<1> DEFINE N == {n \in Nat : n < Len(q) => Within(q, o, f, took, F[n + 1], n + 1)}
<1>5. \A n \in Nat : n \in N <=> (n < Len(q) => Within(q, o, f, took, F[n + 1], n + 1))
  OBVIOUS
<1> HIDE DEF N
<1>6. 0 \in N
  <2>1. F[1] = Piece(q[1])
    BY <1>1, <1>2, <1>4 DEF Joins
  <2>2. Within(q, o, f, took, Piece(q[1]), 1)
    BY <1>1, WithinBegins
  <2>3. 0 + 1 = 1
    OBVIOUS
  <2> QED
    BY <1>5, <2>1, <2>2, <2>3
<1>7. ASSUME NEW n \in Nat, n \in N PROVE n + 1 \in N
  <2>1. SUFFICES ASSUME n + 1 < Len(q) PROVE Within(q, o, f, took, F[n + 1 + 1], n + 1 + 1)
    BY <1>5
  <2> DEFINE i == n + 1
  <2>2. i \in Nat /\ i >= 1 /\ i + 1 <= Len(q) /\ i \in 1 .. Len(s) /\ i < Len(s) /\ i + 1 \in 1 .. Len(q)
    BY <1>1, <1>2, <2>1
  <2>3. Within(q, o, f, took, F[i], i)
    BY <1>1, <1>5, <1>7, <2>1
  <2> HIDE DEF i
  <2>4. F[i + 1] = F[i] \o Piece(q[i + 1])
    BY <1>2, <1>4, <2>2 DEF Joins
  <2>5. Within(q, o, f, took, F[i] \o Piece(q[i + 1]), i + 1)
    BY <2>2, <2>3, WithinGoesOn
  <2> QED
    BY <2>4, <2>5 DEF i
<1>8. \A n \in Nat : n \in N
  BY <1>6, <1>7, NumberInduction
<1>9. Within(q, o, f, took, F[Len(q)], Len(q))
  <2>1. Len(q) - 1 \in Nat /\ Len(q) - 1 < Len(q) /\ Len(q) - 1 + 1 = Len(q)
    BY <1>1
  <2>2. Within(q, o, f, took, F[Len(q) - 1 + 1], Len(q) - 1 + 1)
    BY <1>5, <1>8, <2>1
  <2> QED
    BY <2>1, <2>2
<1>10. Gathered(F[Len(q)], took, f[Len(q) + 1])
  BY <1>1, <1>9, WithinEnds
<1> QED
  BY <1>2, <1>3, <1>4, <1>10

\* What the producer has sent and what the consumer has taken differ by the
\* contents of the queue, also when one of them is dead, has ended or came
\* again (utest_jobs.inl, producer.cpp, consumer.cpp).
THEOREM AlwaysInTransit == Spec => []InTransit
<1>1. LiveInv /\ FrameInv => InTransit
  <2> SUFFICES ASSUME LiveInv, FrameInv, Single
               PROVE  Taken \o DataIn(queue) = SubSeq(Source, 1, Given)
    BY DEF InTransit
  <2>1. /\ queue \in Seq(Words)  /\ Taken \in Seq(Words)  /\ Took \in Nat
        /\ Given \in Nat  /\ Given <= Length  /\ Begin \in {0, 1}
    BY Numerals, EmptyWords, LenProperties DEF LiveInv, TypeOK, Took, Taken, Given, Begin, Sections
  <2>2. Gathered(DataIn(queue), Took, Given)
    <3>1. CASE queue = <<>>
      <4>1. Begin = 0 /\ Took = Given
        BY <2>1, <3>1, EmptyFraming DEF FrameInv
      <4>2. DataIn(<<>>) = <<>>
        BY DEF DataIn, FlattenSeq
      <4>3. Gathered(<<>>, Took, Took)
        BY <2>1, EmptyWords DEF Gathered
      <4> QED
        BY <3>1, <4>1, <4>2, <4>3
    <3>2. CASE queue # <<>>
      <4>1. PICK f : Laid(queue, Begin, f) /\ f[Begin + 1] = Took /\ f[Len(queue) + 1] = Given
        BY DEF FrameInv, Framing
      <4>2. Begin <= Len(queue) /\ (Begin = 1 => queue[1] = Stamp)
        BY <2>1, <3>2, EmptySeq, LenProperties DEF FrameInv
      <4> QED
        BY <2>1, <3>2, <4>1, <4>2, RowData
    <3> QED
      BY <3>1, <3>2
  <2> DEFINE d == DataIn(queue)
             w == Taken \o d
             src == SubSeq(Source, 1, Given)
  <2>3. /\ d \in Seq(Words)  /\ Took <= Given  /\ Len(d) = Given - Took
        /\ \A k \in 1 .. Len(d) : d[k] = Data(Took + k)
    BY <2>2 DEF Gathered
  <2> HIDE DEF d
  <2>4. /\ w \in Seq(Words)  /\ Len(w) = Took + Len(d)
        /\ \A k \in 1 .. Took : w[k] = Taken[k]
        /\ \A k \in 1 .. Len(d) : w[Took + k] = d[k]
    BY <2>1, <2>3, PairJoined DEF Took
  <2> HIDE DEF w
  <2>5. Len(w) = Given
    BY <2>1, <2>3, <2>4
  <2>6. ASSUME NEW k \in 1 .. Given PROVE w[k] = Data(k)
    <3>1. CASE k <= Took
      BY <2>1, <2>4, <3>1 DEF FrameInv
    <3>2. CASE ~(k <= Took)
      <4>1. k - Took \in 1 .. Len(d) /\ Took + (k - Took) = k
        BY <2>1, <2>3, <3>2
      <4> QED
        BY <2>3, <2>4, <4>1
    <3> QED
      BY <3>1, <3>2
  <2>7. /\ src \in Seq(Words)  /\ Len(src) = Given
        /\ \A k \in 1 .. Given : src[k] = Data(k)
    BY <2>1, SourceIs
  <2> HIDE DEF src
  <2>8. w = src
    BY <2>4, <2>5, <2>6, <2>7, SeqEqual
  <2> QED
    BY <2>8 DEF w, d, src
<1> QED
  BY <1>1, SessionFramed, PTL

================================================================================
