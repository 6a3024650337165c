-------------------------- MODULE BufferTransferProofs -------------------------
(***************************************************************************)
(* The transfer of utest_jobs.inl over the queue, for every capacity, every *)
(* buffer, every range of chunk sizes and every size of the header: the    *)
(* receiver takes messages for what they are, ends with the whole buffer,  *)
(* and main finds equal hashes.                                            *)
(*                                                                         *)
(* The queue is a row of messages, each HeaderSize bytes of header and as  *)
(* many bytes of payload as the header says.  B holds the places where a   *)
(* message begins or ends, counted from the head, f[b] the bytes of the    *)
(* buffer that come before place b, and h[b] their hash.                   *)
(***************************************************************************)
EXTENDS BufferTransfer, TxQueueRefinement

\* A message of n bytes lies at place b; the end mark, of none, comes last.
MessageAt(q, B, f, h, b, n) ==
  LET e == b + HeaderSize + n IN
  /\ e \in B
  /\ \A c \in B : c <= b \/ e <= c
  /\ \A k \in 1 .. HeaderSize : q[b + k] = n
  /\ \A j \in 1 .. n : q[b + HeaderSize + j] = Source[f[b] + j]
  /\ f[e] = f[b] + n
  /\ h[e] = IF n = 0 THEN h[b] ELSE Checksum(h[b], SubSeq(Source, f[b] + 1, f[b] + n))

\* The end mark is there only when the transmitter, at pc, is done.
Laid(q, B, f, h, pc) ==
  /\ B \subseteq 0 .. Len(q)  /\ 0 \in B  /\ Len(q) \in B
  /\ f \in [B -> Nat]
  /\ \A b \in B : f[b] <= f[Len(q)]
  /\ \A b \in B \ {Len(q)} : \E n \in 0 .. MaxChunk :
       MessageAt(q, B, f, h, b, n) /\ (n = 0 => pc = "done" /\ b + HeaderSize = Len(q))

\* The queue holds what was sent and is not received, the hashes of both ends
\* match theirs, and the consumer sees whole messages only.
Messages ==
  \E B, f, h :
    /\ Laid(Queue, B, f, h, tPc)
    /\ Seen \subseteq B
    /\ f[0] = Len(received)  /\ f[Len(Queue)] = sent
    /\ h[0] = xHash          /\ h[Len(Queue)] = tHash

SenderInv ==
  /\ tPc \in {"loop", "header", "payload", "check", "mark", "markCheck", "done"}
  /\ sent \in 0 .. Len(Source)  /\ chunk \in 0 .. MaxChunk
  /\ tPc \in {"loop", "done"} => wPc = "none"
  /\ tPc \in {"header", "mark"} => wPc = "open" /\ ~wInvalidated /\ Pending = <<>>
  /\ tPc \in {"header", "payload", "check"} => chunk # 0 /\ sent + chunk <= Len(Source)
  /\ tPc \in {"mark", "markCheck", "done"} => sent = Len(Source)
  /\ tPc = "payload" => Writing(<<>>, Encode(chunk))
  /\ tPc = "check" => Writing(Encode(chunk), Payload)
  /\ tPc = "markCheck" => Writing(<<>>, Encode(0))

\* A payload is there when its header was read, so that reading it never has
\* to look again at the tail.
ReceiverInv ==
  /\ xPc \in {"loop", "header", "payload", "check", "done"}
  /\ size \in 0 .. MaxChunk
  /\ xPc \in {"loop", "done"} => rPc = "none"
  /\ xPc = "header" => rPc = "open" /\ ~rInvalidated /\ got = <<>>
  /\ xPc \in {"header", "payload"} => size = 0
  /\ xPc = "payload" =>
       /\ rPc # "none"
       /\ rPc = "open" => rInvalidated \/ Len(got) = HeaderSize
       /\ rPc # "open" => got = <<>> /\ rSize = HeaderSize
  /\ xPc = "check" =>
       /\ rPc \in {"open", "copy"}
       /\ rInvalidated => size = 0
       /\ ~rInvalidated => got # <<>> /\ got[1] = size
       /\ rPc = "open" /\ ~rInvalidated => Len(got) = HeaderSize + size
       /\ rPc = "copy" => Len(got) = HeaderSize /\ rSize = size

EndInv ==
  /\ received \in Seq(Byte)
  /\ \A k \in 1 .. Len(received) : received[k] = Source[k]
  /\ xPc = "done" => tPc = "done" /\ Queue = <<>>
  /\ result # "running" => xPc = "done" /\ result = "passed"

TransferInv ==
  /\ IInv /\ CallsAreValid
  /\ SenderInv /\ ReceiverInv /\ EndInv /\ Messages

--------------------------------------------------------------------------------
\* The sizes, and what the jobs write

\* What the assumptions on the constants say of the numbers.
LEMMA Sizes ==
  /\ HeaderSize \in Nat  /\ HeaderSize >= 1  /\ HeaderSize <= MaxSize  /\ MaxSize \in Nat
  /\ MaxChunk \in Nat  /\ MaxChunk <= MaxSize
  /\ MinChunk \in Nat  /\ MinChunk >= 1
  /\ Source \in Seq(Byte)  /\ Len(Source) \in Nat
  /\ \A n \in 0 .. MaxChunk : n \in Byte
<1>1. Len(Source) \in Nat
  BY ChunkAssumption, LenProperties
<1> QED
  BY <1>1, ChunkAssumption, MaxSizeAssumption

\* A header is a block that the queue takes.
LEMMA HeaderIs ==
  ASSUME NEW n \in 0 .. MaxChunk
  PROVE  /\ Encode(n) \in Seq(Byte)  /\ Encode(n) \in Buffers
         /\ Len(Encode(n)) = HeaderSize
         /\ \A k \in 1 .. HeaderSize : Encode(n)[k] = n
<1>1. Encode(n) \in [1 .. HeaderSize -> Byte]
  BY Sizes DEF Encode
<1>2. Encode(n) \in Seq(Byte) /\ Len(Encode(n)) = HeaderSize
  BY <1>1, Sizes, IsASeq, LenProperties
<1> QED
  BY <1>2, Sizes, BufferIsSeq DEF Encode

\* So is a piece of the buffer no longer than a chunk.
LEMMA PieceIs ==
  ASSUME NEW a \in Nat, NEW n \in 0 .. MaxChunk, a + n <= Len(Source)
  PROVE  /\ SubSeq(Source, a + 1, a + n) \in Seq(Byte)
         /\ SubSeq(Source, a + 1, a + n) \in Buffers
         /\ Len(SubSeq(Source, a + 1, a + n)) = n
         /\ \A j \in 1 .. n : SubSeq(Source, a + 1, a + n)[j] = Source[a + j]
<1> DEFINE u == SubSeq(Source, a + 1, a + n)
<1>1. n \in Nat /\ a + n - a = n /\ a <= a + n
  BY Sizes
<1>2. /\ u \in Seq(Byte)  /\ Len(u) = n
      /\ \A j \in 1 .. n : u[j] = Source[a + j]
  BY <1>1, Piece, Sizes
<1> HIDE DEF u
<1>3. u \in Buffers
  BY <1>1, <1>2, Sizes, BufferIsSeq
<1> QED
  BY <1>2, <1>3 DEF u

--------------------------------------------------------------------------------
\* The message at the head

\* A queue that is not empty begins with a message.
LEMMA FirstMessage ==
  ASSUME NEW q, Len(q) \in Nat \ {0}, NEW B, NEW f, NEW h, NEW pc, Laid(q, B, f, h, pc)
  PROVE  \E n \in 0 .. MaxChunk :
           /\ MessageAt(q, B, f, h, 0, n)
           /\ HeaderSize + n \in B  /\ HeaderSize + n <= Len(q)
           /\ n = 0 => pc = "done" /\ HeaderSize = Len(q)
<1>1. PICK n \in 0 .. MaxChunk :
        MessageAt(q, B, f, h, 0, n) /\ (n = 0 => pc = "done" /\ 0 + HeaderSize = Len(q))
  BY DEF Laid
<1>2. 0 + HeaderSize + n = HeaderSize + n /\ 0 + HeaderSize = HeaderSize /\ n \in Nat
  BY Sizes
<1>3. HeaderSize + n \in B
  BY <1>1, <1>2 DEF MessageAt
<1>4. HeaderSize + n \in 0 .. Len(q)
  BY <1>3 DEF Laid
<1> QED
  BY <1>1, <1>2, <1>3, <1>4

\* A header that has been read is that of the message at the head.
LEMMA HeaderRead ==
  ASSUME IInv, Len(got) >= HeaderSize,
         NEW B, NEW f, NEW h, NEW pc, Laid(Queue, B, f, h, pc)
  PROVE  /\ got[1] \in 0 .. MaxChunk
         /\ \A k \in 1 .. HeaderSize : got[k] = got[1]
         /\ MessageAt(Queue, B, f, h, 0, got[1])
         /\ HeaderSize + got[1] \in B  /\ HeaderSize + got[1] <= Len(Queue)
         /\ got[1] = 0 => pc = "done" /\ HeaderSize = Len(Queue)
<1>1. /\ Len(Queue) \in Nat \ {0}  /\ Len(got) \in Nat
      /\ \A k \in 1 .. HeaderSize : got[k] = Queue[k]
  BY GotIs, Sizes
<1>2. PICK n \in 0 .. MaxChunk :
        /\ MessageAt(Queue, B, f, h, 0, n)
        /\ HeaderSize + n \in B  /\ HeaderSize + n <= Len(Queue)
        /\ n = 0 => pc = "done" /\ HeaderSize = Len(Queue)
  BY <1>1, FirstMessage
<1>3. \A k \in 1 .. HeaderSize : Queue[k] = n
  <2> TAKE k \in 1 .. HeaderSize
  <2>1. 0 + k = k /\ Queue[0 + k] = n
    BY <1>2 DEF MessageAt
  <2> QED
    BY <2>1
<1>4. \A k \in 1 .. HeaderSize : got[k] = n
  BY <1>1, <1>3
<1>5. got[1] = n
  BY <1>4, Sizes
<1> QED
  BY <1>2, <1>4, <1>5

--------------------------------------------------------------------------------
\* The jobs are users of the queue

\* Every step of the transfer is a step of the queue or leaves it alone.
LEMMA StepIsUse ==
  ASSUME TransferInv, [TransferNext]_allvars
  PROVE  [Next]_vars
<1> USE DEF TransferInv
<1>1. CASE SendHeader \/ MarkWrite
  <2>1. Encode(chunk) \in Buffers /\ Encode(0) \in Buffers
    <3>1. chunk \in 0 .. MaxChunk /\ 0 \in 0 .. MaxChunk
      BY Sizes DEF SenderInv
    <3> QED
      BY <3>1, HeaderIs
  <2> QED
    BY <1>1, <2>1 DEF SendHeader, MarkWrite, Next, Producer
<1>2. CASE SendPayload
  <2>1. Payload \in Buffers
    <3>1. sent \in Nat /\ chunk \in 0 .. MaxChunk /\ sent + chunk <= Len(Source)
      BY <1>2 DEF SendPayload, SenderInv
    <3> QED
      BY <3>1, PieceIs DEF Payload
  <2> QED
    BY <1>2, <2>1 DEF SendPayload, Next, Producer
<1>3. CASE SendBegin \/ SendCheck \/ MarkBegin \/ MarkCheck \/ WriteStep
  BY <1>3 DEF SendBegin, SendCheck, MarkBegin, MarkCheck, Next, Producer
<1>4. CASE ReceiveHeader
  <2>1. HeaderSize \in 0 .. MaxSize
    BY Sizes
  <2> QED
    BY <1>4, <2>1 DEF ReceiveHeader, Next, Consumer
<1>5. CASE ReceivePayload
  <2>1. CASE rInvalidated
    BY <1>5, <2>1 DEF ReceivePayload
  <2>2. CASE ~rInvalidated
    <3>1. Len(got) = HeaderSize
      BY <1>5, <2>2 DEF ReceivePayload, ReceiverInv
    <3>2. got[1] \in 0 .. MaxChunk
      BY <3>1, HeaderRead, Sizes DEF Messages
    <3>3. size' \in 0 .. MaxSize /\ Read(size')
      BY <1>5, <2>2, <3>2, Sizes DEF ReceivePayload, Decode
    <3> QED
      BY <3>3 DEF Next, Consumer
  <2> QED
    BY <2>1, <2>2
<1>6. CASE ReceiveBegin \/ ReceiveCheck \/ ReadStep
  BY <1>6 DEF ReceiveBegin, ReceiveCheck, Next, Consumer
<1>7. CASE HeadArrives \/ TailArrives \/ Compare \/ UNCHANGED allvars
  BY <1>7 DEF HeadArrives, TailArrives, Compare, Next, allvars
<1> QED
  BY <1>1, <1>2, <1>3, <1>4, <1>5, <1>6, <1>7 DEF TransferNext, Transmitter, Receiver

--------------------------------------------------------------------------------
\* Rows of messages

\* The row r, of ends C, is q, of ends B, and one message of n bytes.
Extended(q, B, f, h, r, C, g, w, n) ==
  /\ B \cup {Len(r)} \subseteq C
  /\ g[0] = f[0]  /\ g[Len(r)] = f[Len(q)] + n
  /\ w[0] = h[0]
  /\ w[Len(r)] = IF n = 0 THEN h[Len(q)]
                 ELSE Checksum(h[Len(q)], SubSeq(Source, f[Len(q)] + 1, f[Len(q)] + n))

\* A message, or the end mark when n is 0, behind a row that has no mark yet
LEMMA AppendMessage ==
  ASSUME NEW q \in Seq(Byte), NEW B, NEW f, NEW h, NEW old, Laid(q, B, f, h, old), old # "done",
         NEW n \in 0 .. MaxChunk, NEW pc, n = 0 => pc = "done",
         NEW r \in Seq(Byte), Len(r) = Len(q) + HeaderSize + n,
         \A i \in 1 .. Len(q) : r[i] = q[i],
         \A k \in 1 .. HeaderSize : r[Len(q) + k] = n,
         \A j \in 1 .. n : r[Len(q) + HeaderSize + j] = Source[f[Len(q)] + j]
  PROVE  \E C, g, w : Laid(r, C, g, w, pc) /\ Extended(q, B, f, h, r, C, g, w, n)
<1> DEFINE l == Len(q)
           e == Len(r)
           C == B \cup {e}
           g == [b \in C |-> IF b \in B THEN f[b] ELSE f[l] + n]
           last == IF n = 0 THEN h[l] ELSE Checksum(h[l], SubSeq(Source, f[l] + 1, f[l] + n))
           w == [b \in C |-> IF b \in B THEN h[b] ELSE last]
<1>1. /\ l \in Nat  /\ n \in Nat  /\ e = l + HeaderSize + n  /\ e > l
      /\ B \subseteq 0 .. l  /\ 0 \in B  /\ l \in B  /\ e \notin B
      /\ f \in [B -> Nat]
      /\ \A b \in B : f[b] <= f[l]
  BY Sizes, LenProperties DEF Laid
<1>2. /\ g \in [C -> Nat]  /\ g[e] = f[l] + n  /\ w[e] = last
      /\ \A b \in B : g[b] = f[b]
      /\ \A b \in B : w[b] = h[b]
  <2>1. \A b \in B : f[b] \in Nat
    BY <1>1
  <2>2. f[l] + n \in Nat
    BY <1>1, <2>1
  <2> HIDE DEF e, l, last
  <2> QED
    BY <1>1, <2>1, <2>2
<1>3. \A b \in C : g[b] <= g[e]
  <2>1. f[l] \in Nat
    BY <1>1
  <2>2. \A b \in B : g[b] \in Nat /\ g[b] <= f[l]
    BY <1>1, <1>2
  <2> HIDE DEF g
  <2> QED
    BY <1>1, <1>2, <2>1, <2>2
<1>4. ASSUME NEW b \in B, b # l
      PROVE  \E k \in 0 .. MaxChunk : MessageAt(r, C, g, w, b, k) /\ k # 0
  <2>1. PICK k \in 0 .. MaxChunk : MessageAt(q, B, f, h, b, k) /\ k # 0
    BY <1>4 DEF Laid
  <2> DEFINE d == b + HeaderSize + k
  <2>2. /\ b \in Nat  /\ k \in Nat  /\ d \in B  /\ d <= l  /\ d \in Nat
    BY <1>1, <2>1, Sizes DEF MessageAt
  <2>3. \A c \in C : c <= b \/ d <= c
    BY <1>1, <2>1, <2>2 DEF MessageAt
  <2>4. ASSUME NEW i \in 1 .. HeaderSize PROVE r[b + i] = k
    <3>1. b + i \in 1 .. l
      BY <2>2, Sizes
    <3> QED
      BY <2>1, <3>1 DEF MessageAt
  <2>5. ASSUME NEW j \in 1 .. k PROVE r[b + HeaderSize + j] = Source[g[b] + j]
    <3>1. b + HeaderSize + j \in 1 .. l
      BY <2>2, Sizes
    <3> QED
      BY <1>2, <2>1, <3>1 DEF MessageAt
  <2>6. g[d] = g[b] + k /\ w[d] = Checksum(w[b], SubSeq(Source, g[b] + 1, g[b] + k))
    BY <1>2, <2>1, <2>2 DEF MessageAt
  <2> HIDE DEF C, g, w
  <2>7. d \in C
    BY <2>2 DEF C
  <2>8. MessageAt(r, C, g, w, b, k)
    BY <2>1, <2>3, <2>4, <2>5, <2>6, <2>7 DEF MessageAt
  <2> QED
    BY <2>1, <2>8
<1>5. MessageAt(r, C, g, w, l, n)
  <2>1. l + HeaderSize + n = e /\ e \in C
    BY <1>1
  <2>2. \A c \in C : c <= l \/ e <= c
    BY <1>1
  <2>3. \A j \in 1 .. n : r[l + HeaderSize + j] = Source[g[l] + j]
    BY <1>1, <1>2
  <2>4. g[e] = g[l] + n /\ w[e] = IF n = 0 THEN w[l] ELSE Checksum(w[l], SubSeq(Source, g[l] + 1, g[l] + n))
    BY <1>1, <1>2
  <2> HIDE DEF C, g, w
  <2> QED
    BY <2>1, <2>2, <2>3, <2>4 DEF MessageAt
<1> HIDE DEF C, g, w
<1>6. ASSUME NEW b \in C \ {e}
      PROVE  \E k \in 0 .. MaxChunk :
               MessageAt(r, C, g, w, b, k) /\ (k = 0 => pc = "done" /\ b + HeaderSize = e)
  <2>1. CASE b = l
    <3>1. n = 0 => pc = "done" /\ l + HeaderSize = e
      BY <1>1, Sizes
    <3> QED
      BY <1>5, <2>1, <3>1
  <2>2. CASE b # l
    BY <1>4, <2>2 DEF C
  <2> QED
    BY <2>1, <2>2
<1>7. C \subseteq 0 .. e /\ 0 \in C /\ e \in C /\ B \cup {e} \subseteq C
  <2>1. 0 .. l \subseteq 0 .. e /\ e \in 0 .. e
    BY <1>1, Sizes
  <2> HIDE DEF e, l
  <2> QED
    BY <1>1, <2>1 DEF C
<1>8. Laid(r, C, g, w, pc)
  BY <1>2, <1>3, <1>6, <1>7 DEF Laid
<1>9. Extended(q, B, f, h, r, C, g, w, n)
  BY <1>1, <1>2, <1>7 DEF Extended
<1> QED
  BY <1>8, <1>9

\* The row r, of ends C, is what q, of ends B, holds behind place s.
Shortened(q, B, f, h, r, C, g, w, s) ==
  /\ \A b \in Nat : s + b \in B => b \in C
  /\ g[0] = f[s]  /\ g[Len(r)] = f[Len(q)]
  /\ w[0] = h[s]  /\ w[Len(r)] = h[Len(q)]

\* Dropping the bytes before place s
LEMMA DropMessages ==
  ASSUME NEW q \in Seq(Byte), NEW B, NEW f, NEW h, NEW pc, Laid(q, B, f, h, pc),
         NEW s \in B,
         NEW r \in Seq(Byte), Len(r) = Len(q) - s, \A i \in 1 .. Len(r) : r[i] = q[s + i]
  PROVE  \E C, g, w : Laid(r, C, g, w, pc) /\ Shortened(q, B, f, h, r, C, g, w, s)
<1> DEFINE l == Len(q)
           C == {b \in Nat : s + b \in B}
           g == [b \in C |-> f[s + b]]
           w == [b \in C |-> h[s + b]]
<1>1. /\ l \in Nat  /\ s \in Nat  /\ s <= l  /\ Len(r) \in Nat
      /\ B \subseteq 0 .. l  /\ l \in B
      /\ f \in [B -> Nat]
      /\ \A b \in B : f[b] <= f[l]
  BY LenProperties DEF Laid
<1>2. s + Len(r) = l /\ s + 0 = s
  BY <1>1
<1>3. C \subseteq 0 .. Len(r) /\ 0 \in C /\ Len(r) \in C
  BY <1>1, <1>2
<1>4. /\ g \in [C -> Nat]  /\ \A b \in C : b \in Nat /\ s + b \in B /\ g[b] = f[s + b] /\ w[b] = h[s + b]
  BY <1>1
<1>5. \A b \in C : g[b] <= g[Len(r)]
  BY <1>1, <1>2, <1>3, <1>4
<1>6. \A b \in Nat : s + b \in B => b \in C
  OBVIOUS
<1> HIDE DEF C, g, w
<1>7. ASSUME NEW b \in C \ {Len(r)}
      PROVE  \E n \in 0 .. MaxChunk :
               MessageAt(r, C, g, w, b, n) /\ (n = 0 => pc = "done" /\ b + HeaderSize = Len(r))
  <2>1. s + b \in B \ {l} /\ b \in Nat
    BY <1>1, <1>2, <1>3, <1>4
  <2>2. PICK n \in 0 .. MaxChunk :
          MessageAt(q, B, f, h, s + b, n) /\ (n = 0 => pc = "done" /\ s + b + HeaderSize = l)
    <3>1. \A a \in B \ {l} : \E n \in 0 .. MaxChunk :
            MessageAt(q, B, f, h, a, n) /\ (n = 0 => pc = "done" /\ a + HeaderSize = l)
      BY DEF Laid
    <3> QED
      BY <2>1, <3>1
  <2> DEFINE d == b + HeaderSize + n
  <2>3. /\ n \in Nat  /\ d \in Nat  /\ s + b + HeaderSize + n = s + d
        /\ s + d \in B  /\ d \in C  /\ d <= Len(r)
    <3>1. n \in Nat /\ d \in Nat /\ s + b + HeaderSize + n = s + d
      <4>1. n \in Nat /\ s \in Nat /\ b \in Nat /\ HeaderSize \in Nat
        BY <1>1, <2>1, Sizes
      <4> QED
        BY <4>1
    <3>2. s + d \in B
      BY <2>2, <3>1 DEF MessageAt
    <3> QED
      BY <1>1, <1>2, <1>6, <3>1, <3>2
  <2>4. ASSUME NEW c \in C PROVE c <= b \/ d <= c
    <3>1. c \in Nat /\ s + c \in B
      BY <1>4
    <3>2. s + c <= s + b \/ s + d <= s + c
      BY <2>2, <2>3, <3>1 DEF MessageAt
    <3> QED
      BY <1>1, <2>1, <2>3, <3>1, <3>2
  <2>5. ASSUME NEW k \in 1 .. HeaderSize PROVE r[b + k] = n
    <3>1. b + k \in 1 .. Len(r) /\ s + (b + k) = s + b + k
      BY <1>1, <2>1, <2>3, Sizes
    <3> QED
      BY <2>2, <3>1 DEF MessageAt
  <2>6. ASSUME NEW j \in 1 .. n PROVE r[b + HeaderSize + j] = Source[g[b] + j]
    <3>1. b + HeaderSize + j \in 1 .. Len(r) /\ s + (b + HeaderSize + j) = s + b + HeaderSize + j
      BY <1>1, <2>1, <2>3, Sizes
    <3> QED
      BY <1>4, <2>2, <3>1 DEF MessageAt
  <2>7. g[d] = g[b] + n /\ w[d] = IF n = 0 THEN w[b] ELSE Checksum(w[b], SubSeq(Source, g[b] + 1, g[b] + n))
    BY <1>4, <2>2, <2>3 DEF MessageAt
  <2>8. MessageAt(r, C, g, w, b, n)
    BY <2>3, <2>4, <2>5, <2>6, <2>7 DEF MessageAt
  <2>9. n = 0 => pc = "done" /\ b + HeaderSize = Len(r)
    <3> SUFFICES ASSUME n = 0 PROVE pc = "done" /\ b + HeaderSize = Len(r)
      OBVIOUS
    <3>1. pc = "done" /\ s + b + HeaderSize = l
      BY <2>2
    <3>2. s \in Nat /\ b \in Nat /\ HeaderSize \in Nat /\ l \in Nat /\ Len(r) \in Nat
      BY <1>1, <2>1, Sizes
    <3> HIDE DEF l
    <3> QED
      BY <1>2, <3>1, <3>2
  <2> QED
    BY <2>8, <2>9
<1>8. Laid(r, C, g, w, pc)
  BY <1>3, <1>4, <1>5, <1>7 DEF Laid
<1>9. Shortened(q, B, f, h, r, C, g, w, s)
  BY <1>2, <1>3, <1>4, <1>6 DEF Shortened
<1> QED
  BY <1>8, <1>9

--------------------------------------------------------------------------------
\* The queue as a row of messages, step by step

LEMMA MessagesStay ==
  ASSUME Messages, Queue' = Queue, Seen' \subseteq Seen,
         UNCHANGED <<sent, tHash, received, xHash>>, tPc' = "done" <=> tPc = "done"
  PROVE  Messages'
<1>1. PICK B, f, h :
        /\ Laid(Queue, B, f, h, tPc)
        /\ Seen \subseteq B
        /\ f[0] = Len(received)  /\ f[Len(Queue)] = sent
        /\ h[0] = xHash          /\ h[Len(Queue)] = tHash
  BY DEF Messages
<1>2. Laid(Queue, B, f, h, tPc')
  BY <1>1 DEF Laid
<1>3. /\ Laid(Queue', B, f, h, tPc')
      /\ Seen' \subseteq B
      /\ f[0] = Len(received')  /\ f[Len(Queue')] = sent'
      /\ h[0] = xHash'          /\ h[Len(Queue')] = tHash'
  BY <1>1, <1>2
<1> QED
  BY <1>3 DEF Messages

\* A message, or the end mark, enters the queue.
LEMMA MessagesSend ==
  ASSUME IInv, Messages, tPc # "done", UNCHANGED <<received, xHash>>,
         NEW n \in 0 .. MaxChunk, sent \in Nat, sent + n <= Len(Source),
         NEW piece \in Seq(Byte), Len(piece) = n, \A j \in 1 .. n : piece[j] = Source[sent + j],
         Pending = Encode(n) \o piece, Queue' = Queue \o Pending,
         Seen' \subseteq Seen \cup {Len(Queue) + Len(Pending)},
         sent' = sent + n, n = 0 => tPc' = "done",
         tHash' = IF n = 0 THEN tHash ELSE Checksum(tHash, SubSeq(Source, sent + 1, sent + n))
  PROVE  Messages'
<1>1. PICK B, f, h :
        /\ Laid(Queue, B, f, h, tPc)
        /\ Seen \subseteq B
        /\ f[0] = Len(received)  /\ f[Len(Queue)] = sent
        /\ h[0] = xHash          /\ h[Len(Queue)] = tHash
  BY DEF Messages
<1>2. /\ Pending \in Seq(Byte)  /\ Len(Pending) = HeaderSize + n  /\ n \in Nat
      /\ \A k \in 1 .. HeaderSize : Pending[k] = n
      /\ \A j \in 1 .. n : Pending[HeaderSize + j] = Source[sent + j]
  <2>1. /\ Encode(n) \in Seq(Byte)  /\ Len(Encode(n)) = HeaderSize  /\ n \in Nat
        /\ \A k \in 1 .. HeaderSize : Encode(n)[k] = n
    BY HeaderIs
  <2>2. /\ Encode(n) \o piece \in Seq(Byte)  /\ Len(Encode(n) \o piece) = HeaderSize + n
        /\ \A k \in 1 .. HeaderSize : (Encode(n) \o piece)[k] = Encode(n)[k]
        /\ \A j \in 1 .. n : (Encode(n) \o piece)[HeaderSize + j] = piece[j]
    <3>1. PICK header \in Seq(Byte) : header = Encode(n) /\ Len(header) = HeaderSize
      BY <2>1, Zenon
    <3>2. /\ header \o piece \in Seq(Byte)  /\ Len(header \o piece) = HeaderSize + n
          /\ \A k \in 1 .. HeaderSize : (header \o piece)[k] = header[k]
          /\ \A j \in 1 .. n : (header \o piece)[HeaderSize + j] = piece[j]
      <4>1. /\ header \o piece \in Seq(Byte)  /\ Len(header \o piece) = Len(header) + Len(piece)
            /\ \A k \in 1 .. Len(header) : (header \o piece)[k] = header[k]
            /\ \A j \in 1 .. Len(piece) : (header \o piece)[Len(header) + j] = piece[j]
        BY Joined, Zenon
      <4>2. Len(header) = HeaderSize /\ Len(piece) = n
        BY <3>1, Zenon
      <4> QED
        BY <4>1, <4>2, Zenon
    <3> QED
      BY <3>1, <3>2, Zenon
  <2> QED
    BY <2>1, <2>2
<1>3. PICK r \in Seq(Byte) :
        /\ r = Queue'  /\ Len(r) = Len(Queue) + HeaderSize + n
        /\ \A i \in 1 .. Len(Queue) : r[i] = Queue[i]
        /\ \A k \in 1 .. HeaderSize + n : r[Len(Queue) + k] = Pending[k]
  <2>1. Queue \in Seq(Byte) /\ Len(Queue) \in Nat
    BY GotIs
  <2>2. /\ Queue \o Pending \in Seq(Byte)  /\ Len(Queue \o Pending) = Len(Queue) + (HeaderSize + n)
        /\ \A i \in 1 .. Len(Queue) : (Queue \o Pending)[i] = Queue[i]
        /\ \A k \in 1 .. HeaderSize + n : (Queue \o Pending)[Len(Queue) + k] = Pending[k]
    BY <1>2, <2>1, Joined
  <2>3. Len(Queue) + (HeaderSize + n) = Len(Queue) + HeaderSize + n
    BY <1>2, <2>1, Sizes
  <2> DEFINE row == Queue \o Pending
  <2> HIDE DEF row
  <2>4. row = Queue'
    BY DEF row
  <2> QED
    BY <2>2, <2>3, <2>4 DEF row
<1>4. \A k \in 1 .. HeaderSize : r[Len(Queue) + k] = n
  <2> TAKE k \in 1 .. HeaderSize
  <2>1. k \in 1 .. HeaderSize + n
    BY <1>2, Sizes
  <2> QED
    BY <1>2, <1>3, <2>1
<1>5. \A j \in 1 .. n : r[Len(Queue) + HeaderSize + j] = Source[f[Len(Queue)] + j]
  <2> TAKE j \in 1 .. n
  <2>1. HeaderSize + j \in 1 .. HeaderSize + n /\ Len(Queue) + HeaderSize + j = Len(Queue) + (HeaderSize + j)
    <3>1. Len(Queue) \in Nat
      BY GotIs
    <3> QED
      BY <1>2, <3>1, Sizes
  <2>2. r[Len(Queue) + (HeaderSize + j)] = Pending[HeaderSize + j]
    BY <1>3, <2>1
  <2>3. Pending[HeaderSize + j] = Source[f[Len(Queue)] + j]
    BY <1>1, <1>2
  <2> QED
    BY <2>1, <2>2, <2>3, Zenon
<1>6. PICK q, old, pc : q \in Seq(Byte) /\ q = Queue /\ old = tPc /\ pc = tPc'
  BY GotIs
<1>7. PICK C, g, w : Laid(r, C, g, w, pc) /\ Extended(q, B, f, h, r, C, g, w, n)
  <2>1. /\ Laid(q, B, f, h, old)  /\ old # "done"  /\ q \in Seq(Byte)
        /\ n = 0 => pc = "done"
        /\ r \in Seq(Byte)  /\ Len(r) = Len(q) + HeaderSize + n
        /\ \A i \in 1 .. Len(q) : r[i] = q[i]
        /\ \A k \in 1 .. HeaderSize : r[Len(q) + k] = n
        /\ \A j \in 1 .. n : r[Len(q) + HeaderSize + j] = Source[f[Len(q)] + j]
    BY <1>1, <1>3, <1>4, <1>5, <1>6
  <2> QED
    BY <2>1, AppendMessage
<1>8. Len(Queue) + Len(Pending) = Len(r)
  BY <1>2, <1>3, GotIs, Sizes
<1>9. /\ Laid(Queue', C, g, w, tPc')
      /\ Seen' \subseteq C
      /\ g[0] = Len(received')  /\ g[Len(Queue')] = sent'
      /\ w[0] = xHash'          /\ w[Len(Queue')] = tHash'
  BY <1>1, <1>3, <1>6, <1>7, <1>8 DEF Extended
<1> QED
  BY <1>9 DEF Messages

\* What the message at the head says, once it has been read as a whole
LEMMA MessageRead ==
  ASSUME IInv, got # <<>>, Len(got) = HeaderSize + got[1], Len(got) >= HeaderSize,
         NEW B, NEW f, NEW h, NEW pc, Laid(Queue, B, f, h, pc)
  PROVE  LET n == got[1]
             payload == SubSeq(got, HeaderSize + 1, Len(got))
         IN  /\ n \in 0 .. MaxChunk  /\ Len(got) \in B  /\ f[0] \in Nat
             /\ f[Len(got)] = f[0] + n  /\ f[0] + n <= f[Len(Queue)]
             /\ h[Len(got)] = IF n = 0 THEN h[0] ELSE Checksum(h[0], SubSeq(Source, f[0] + 1, f[0] + n))
             /\ payload \in Seq(Byte)  /\ Len(payload) = n
             /\ \A j \in 1 .. n : payload[j] = Source[f[0] + j]
             /\ n = 0 => pc = "done" /\ Len(got) = Len(Queue)
<1> DEFINE n == got[1]
           u == SubSeq(got, HeaderSize + 1, Len(got))
<1>1. /\ n \in 0 .. MaxChunk  /\ MessageAt(Queue, B, f, h, 0, n)  /\ HeaderSize + n \in B
      /\ n = 0 => pc = "done" /\ HeaderSize = Len(Queue)
  BY HeaderRead
<1>2. /\ n \in Nat  /\ Len(got) = HeaderSize + n  /\ 0 + HeaderSize + n = HeaderSize + n
      /\ f \in [B -> Nat]  /\ 0 \in B
      /\ \A b \in B : f[b] <= f[Len(Queue)]
  BY <1>1, Sizes DEF Laid
<1>3. /\ f[Len(got)] = f[0] + n
      /\ h[Len(got)] = IF n = 0 THEN h[0] ELSE Checksum(h[0], SubSeq(Source, f[0] + 1, f[0] + n))
  BY <1>1, <1>2 DEF MessageAt
<1>4. \A j \in 1 .. n : Queue[HeaderSize + j] = Source[f[0] + j]
  <2> TAKE j \in 1 .. n
  <2>1. Queue[0 + HeaderSize + j] = Source[f[0] + j]
    BY <1>1 DEF MessageAt
  <2>2. 0 + HeaderSize + j = HeaderSize + j
    BY Sizes
  <2> QED
    BY <2>1, <2>2
<1>5. /\ u \in Seq(Byte)  /\ Len(u) = n
      /\ \A j \in 1 .. n : u[j] = got[HeaderSize + j]
  <2>1. got \in Seq(Byte) /\ Len(got) \in Nat /\ HeaderSize \in Nat
    BY GotIs, Sizes
  <2>2. HeaderSize <= Len(got) /\ Len(got) <= Len(got) /\ Len(got) - HeaderSize = n
    BY <1>2, <2>1
  <2>3. /\ u \in Seq(Byte)  /\ Len(u) = Len(got) - HeaderSize
        /\ \A j \in 1 .. Len(got) - HeaderSize : u[j] = got[HeaderSize + j]
    BY <2>1, <2>2, Piece
  <2> HIDE DEF u
  <2> QED
    BY <2>2, <2>3
<1>6. \A j \in 1 .. n : u[j] = Source[f[0] + j]
  <2> HIDE DEF u
  <2> TAKE j \in 1 .. n
  <2>1. HeaderSize + j \in 1 .. Len(got)
    BY <1>2, Sizes
  <2> QED
    BY <1>4, <1>5, <2>1, GotIs
<1>7. Len(got) \in B /\ f[0] \in Nat /\ f[0] + n <= f[Len(Queue)]
  BY <1>1, <1>2, <1>3
<1>8. n = 0 => pc = "done" /\ Len(got) = Len(Queue)
  BY <1>1, <1>2, Sizes
<1> QED
  BY <1>1, <1>3, <1>5, <1>6, <1>7, <1>8 DEF u

\* The message at the head leaves the queue and is taken.
LEMMA MessagesReceive ==
  ASSUME IInv, Messages, ReadEnd, ~rInvalidated, EndInv,
         got # <<>>, Len(got) = HeaderSize + got[1], Len(got) >= HeaderSize,
         UNCHANGED <<tPc, sent, tHash>>, sent \in 0 .. Len(Source),
         IF got[1] = 0 THEN UNCHANGED <<received, xHash>> ELSE Take
  PROVE  /\ Messages'
         /\ received' \in Seq(Byte)  /\ Len(received') <= Len(Source)
         /\ \A k \in 1 .. Len(received') : received'[k] = Source[k]
         /\ got[1] = 0 => tPc = "done" /\ Queue' = <<>>
<1> DEFINE n == got[1]
           u == SubSeq(got, HeaderSize + 1, Len(got))
<1>1. PICK B, f, h :
        /\ Laid(Queue, B, f, h, tPc)
        /\ Seen \subseteq B
        /\ f[0] = Len(received)  /\ f[Len(Queue)] = sent
        /\ h[0] = xHash          /\ h[Len(Queue)] = tHash
  BY DEF Messages
<1>2. /\ n \in 0 .. MaxChunk  /\ Len(got) \in B  /\ f[0] \in Nat
      /\ f[Len(got)] = f[0] + n  /\ f[0] + n <= f[Len(Queue)]
      /\ h[Len(got)] = IF n = 0 THEN h[0] ELSE Checksum(h[0], SubSeq(Source, f[0] + 1, f[0] + n))
      /\ u \in Seq(Byte)  /\ Len(u) = n
      /\ \A j \in 1 .. n : u[j] = Source[f[0] + j]
      /\ n = 0 => tPc = "done" /\ Len(got) = Len(Queue)
  BY <1>1, MessageRead
<1>3. /\ Queue' = SubSeq(Queue, Len(got) + 1, Len(Queue))
      /\ \A s \in Seen' : s + Len(got) \in Seen /\ s \in Nat
  BY ReadEndGives
<1>4. PICK r \in Seq(Byte) :
        r = Queue' /\ Len(r) = Len(Queue) - Len(got) /\ \A i \in 1 .. Len(r) : r[i] = Queue[Len(got) + i]
  <2>1. /\ Queue \in Seq(Byte)  /\ Len(Queue) \in Nat  /\ Len(got) \in Nat  /\ Len(got) <= Len(Queue)
    BY GotIs
  <2> DEFINE row == SubSeq(Queue, Len(got) + 1, Len(Queue))
  <2>2. /\ row \in Seq(Byte)  /\ Len(row) = Len(Queue) - Len(got)
        /\ \A i \in 1 .. Len(Queue) - Len(got) : row[i] = Queue[Len(got) + i]
    BY <2>1, Piece
  <2>3. row = Queue'
    BY <1>3
  <2> HIDE DEF row
  <2> QED
    BY <2>2, <2>3
<1>5. PICK q, s, pc : q \in Seq(Byte) /\ s \in B /\ q = Queue /\ s = Len(got) /\ pc = tPc
  BY <1>2, GotIs
<1>6. PICK C, g, w : Laid(r, C, g, w, pc) /\ Shortened(q, B, f, h, r, C, g, w, s)
  <2>1. /\ q \in Seq(Byte)  /\ s \in B  /\ r \in Seq(Byte)
        /\ Laid(q, B, f, h, pc)
        /\ Len(r) = Len(q) - s
        /\ \A i \in 1 .. Len(r) : r[i] = q[s + i]
    BY <1>1, <1>4, <1>5
  <2> QED
    BY <2>1, DropMessages
<1>7. Seen' \subseteq C
  <2> SUFFICES ASSUME NEW b \in Seen' PROVE b \in C
    OBVIOUS
  <2>1. b \in Nat /\ b + Len(got) \in B /\ b + Len(got) = s + b
    BY <1>1, <1>3, <1>5, GotIs
  <2> QED
    BY <1>6, <2>1 DEF Shortened
<1>8. /\ received' \in Seq(Byte)  /\ Len(received') = f[0] + n
      /\ \A k \in 1 .. Len(received') : received'[k] = Source[k]
      /\ xHash' = h[Len(got)]
  <2>1. received \in Seq(Byte) /\ \A k \in 1 .. Len(received) : received[k] = Source[k]
    BY DEF EndInv
  <2>2. CASE n = 0
    BY <1>1, <1>2, <2>1, <2>2
  <2>3. CASE n # 0
    <3>1. received' = received \o u /\ xHash' = Checksum(xHash, u)
      BY <2>3 DEF Take
    <3>2. /\ received \o u \in Seq(Byte)  /\ Len(received \o u) = Len(received) + Len(u)
          /\ \A i \in 1 .. Len(received) : (received \o u)[i] = received[i]
          /\ \A i \in 1 .. Len(u) : (received \o u)[Len(received) + i] = u[i]
      BY <1>2, <2>1, Joined
    <3>3. u = SubSeq(Source, f[0] + 1, f[0] + n)
      <4> DEFINE v == SubSeq(Source, f[0] + 1, f[0] + n)
      <4>1. f[0] + n <= Len(Source)
        BY <1>1, <1>2, Sizes
      <4>2. v \in Seq(Byte) /\ Len(v) = n /\ \A j \in 1 .. n : v[j] = Source[f[0] + j]
        BY <1>2, <4>1, PieceIs
      <4> HIDE DEF u, v
      <4>3. Len(u) = Len(v) /\ \A j \in 1 .. Len(u) : u[j] = v[j]
        BY <1>2, <4>2
      <4>4. u = v
        BY <1>2, <4>2, <4>3, SeqEqual
      <4> QED
        BY <4>4 DEF v
    <3> HIDE DEF u
    <3>4. ASSUME NEW k \in 1 .. f[0] + n PROVE (received \o u)[k] = Source[k]
      <4>1. CASE k <= f[0]
        <5>1. k \in 1 .. Len(received)
          BY <1>1, <1>2, <4>1
        <5> QED
          BY <2>1, <3>2, <5>1
      <4>2. CASE k > f[0]
        <5>1. k - f[0] \in 1 .. n /\ f[0] + (k - f[0]) = k
          <6>1. f[0] \in Nat /\ n \in Nat
            BY <1>2, Sizes
          <6> QED
            BY <4>2, <6>1
        <5>2. u[k - f[0]] = Source[f[0] + (k - f[0])]
          BY <1>2, <5>1
        <5>3. (received \o u)[f[0] + (k - f[0])] = u[k - f[0]]
          BY <1>1, <1>2, <3>2, <5>1
        <5> QED
          BY <5>1, <5>2, <5>3, Zenon
      <4>3. k <= f[0] \/ k > f[0]
        BY <1>2, Sizes
      <4> QED
        BY <4>1, <4>2, <4>3
    <3>5. xHash' = h[Len(got)]
      BY <1>1, <1>2, <2>3, <3>1, <3>3
    <3> QED
      BY <1>1, <1>2, <3>1, <3>2, <3>4, <3>5
  <2> QED
    BY <2>2, <2>3
<1>9. /\ Laid(Queue', C, g, w, tPc')
      /\ g[0] = Len(received')  /\ g[Len(Queue')] = sent'
      /\ w[0] = xHash'          /\ w[Len(Queue')] = tHash'
  BY <1>1, <1>2, <1>4, <1>5, <1>6, <1>8 DEF Shortened
<1>10. Messages'
  BY <1>7, <1>9 DEF Messages
<1>11. n = 0 => tPc = "done" /\ Queue' = <<>>
  <2>1. n = 0 => Len(r) = 0
    BY <1>2, <1>4, GotIs
  <2> QED
    BY <1>2, <1>4, <2>1, EmptySeq
<1>12. Len(received') <= Len(Source)
  BY <1>1, <1>2, <1>8
<1> QED
  BY <1>8, <1>10, <1>11, <1>12

--------------------------------------------------------------------------------
\* The transmitter, action by action

\* Inside a call of write: what it is asked to write stays the same.
LEMMA WriteStepKeeps ==
  ASSUME TransferInv, IInv', WriteStep, UNCHANGED jobs
  PROVE  SenderInv' /\ Messages' /\ UNCHANGED rtx /\ tPc # "done"
<1> USE DEF TransferInv
<1>1. /\ UNCHANGED <<Queue, Seen, rtx>>  /\ wPc \notin {"none", "open"}
      /\ wPc' # "none"
      /\ wPc' = "open" => wInvalidated' \/ Pending' = Pending \o wBuf
      /\ wPc' # "open" => Pending' = Pending /\ wBuf' = wBuf
  BY WritingStays
<1>2. /\ UNCHANGED <<tPc, sent, chunk, tHash, received, xHash>>
      /\ tPc \in {"payload", "check", "markCheck"}
  BY <1>1 DEF jobs, transmitter, receiver, SenderInv
<1>3. Messages'
  BY <1>1, <1>2, MessagesStay
<1>4. (tPc = "payload" => Writing(<<>>, Encode(chunk)))'
  BY <1>1, <1>2 DEF SenderInv, Writing
<1>5. (tPc = "check" => Writing(Encode(chunk), Payload))'
  <2>1. Payload' = Payload /\ Encode(chunk)' = Encode(chunk)
    BY <1>2 DEF Payload, Encode
  <2> QED
    BY <1>1, <1>2, <2>1 DEF SenderInv, Writing
<1>6. (tPc = "markCheck" => Writing(<<>>, Encode(0)))'
  BY <1>1, <1>2 DEF SenderInv, Writing
<1> QED
  BY <1>1, <1>2, <1>3, <1>4, <1>5, <1>6 DEF SenderInv

\* A transaction opens, for a chunk or for the end mark.
LEMMA SendBeginKeeps ==
  ASSUME TransferInv, SendBegin \/ MarkBegin
  PROVE  SenderInv' /\ Messages' /\ UNCHANGED rtx /\ tPc # "done"
<1> USE DEF TransferInv
<1>1. /\ UNCHANGED <<Queue, Seen, rtx>>
      /\ wPc' = "open" /\ ~wInvalidated' /\ Pending' = <<>>
  BY WriteBeginGives DEF SendBegin, MarkBegin
<1>2. UNCHANGED <<sent, tHash, received, xHash>> /\ tPc = "loop" /\ tPc' \in {"header", "mark"}
  BY DEF SendBegin, MarkBegin, receiver
<1>3. Messages'
  BY <1>1, <1>2, MessagesStay
<1>4. CASE SendBegin
  <2>1. sent \in 0 .. Len(Source) /\ sent < Len(Source)
    BY <1>4 DEF SendBegin, SenderInv
  <2>2. chunk' \in 1 .. MaxChunk /\ sent + chunk' <= Len(Source)
    BY <1>4, <2>1, Sizes DEF SendBegin, Smaller
  <2> QED
    BY <1>1, <1>2, <1>3, <1>4, <2>1, <2>2, Sizes DEF SendBegin, SenderInv
<1>5. CASE MarkBegin
  BY <1>1, <1>2, <1>3, <1>5 DEF MarkBegin, SenderInv
<1> QED
  BY <1>4, <1>5

\* The call that writes a header, a payload or the end mark begins.
LEMMA SendHeaderKeeps ==
  ASSUME TransferInv, IInv', SendHeader \/ MarkWrite
  PROVE  SenderInv' /\ Messages' /\ UNCHANGED rtx /\ tPc # "done"
<1> USE DEF TransferInv
<1>1. PICK n \in 0 .. MaxChunk : (n = chunk /\ SendHeader) \/ (n = 0 /\ MarkWrite)
  <2>1. chunk \in 0 .. MaxChunk /\ 0 \in 0 .. MaxChunk
    BY Sizes DEF SenderInv
  <2>2. CASE SendHeader
    BY <2>1, <2>2
  <2>3. CASE MarkWrite
    BY <2>1, <2>3
  <2> QED
    BY <2>2, <2>3
<1>2. Write(Encode(n)) /\ Encode(n) \in Buffers
  BY <1>1, HeaderIs DEF SendHeader, MarkWrite
<1>3. UNCHANGED <<Queue, Pending, Seen, rtx>>
  BY <1>2, WriteKeepsBytes
<1>4. wPc' \in {"sync", "copy"} /\ wBuf' = Encode(n) /\ wInvalidated' = wInvalidated
  BY <1>2 DEF Write
<1>5. /\ UNCHANGED <<sent, chunk, tHash, received, xHash>>
      /\ tPc \in {"header", "mark"} /\ tPc' \in {"payload", "markCheck"}
  BY DEF SendHeader, MarkWrite, receiver
<1>6. Messages'
  BY <1>3, <1>5, MessagesStay
<1>7. Pending' = <<>>
  BY <1>3, <1>5 DEF SenderInv
<1>8. (tPc = "payload" => Writing(<<>>, Encode(chunk)))'
  <2>1. tPc' = "payload" => n = chunk'
    BY <1>1, <1>5 DEF SendHeader, MarkWrite
  <2> QED
    BY <1>4, <1>7, <2>1 DEF Writing
<1>9. (tPc = "markCheck" => Writing(<<>>, Encode(0)))'
  <2>1. tPc' = "markCheck" => n = 0
    BY <1>1, <1>5 DEF SendHeader, MarkWrite
  <2> QED
    BY <1>4, <1>7, <2>1 DEF Writing
<1> QED
  BY <1>1, <1>3, <1>4, <1>5, <1>6, <1>8, <1>9 DEF SenderInv, SendHeader, MarkWrite

LEMMA SendPayloadKeeps ==
  ASSUME TransferInv, IInv', SendPayload
  PROVE  SenderInv' /\ Messages' /\ UNCHANGED rtx /\ tPc # "done"
<1> USE DEF TransferInv
<1>1. /\ tPc = "payload" /\ tPc' = "check" /\ wPc = "open"
      /\ UNCHANGED <<sent, chunk, tHash, received, xHash>>
  BY DEF SendPayload, receiver
<1>2. chunk \in 0 .. MaxChunk /\ chunk # 0 /\ sent \in Nat /\ sent + chunk <= Len(Source)
  BY <1>1 DEF SenderInv
<1>3. Payload' = Payload /\ Encode(chunk)' = Encode(chunk)
  BY <1>1 DEF Payload, Encode
<1>4. CASE wInvalidated
  <2>1. UNCHANGED vars
    BY <1>4 DEF SendPayload
  <2>2. UNCHANGED <<Queue, Pending, wtx, rtx>> /\ Seen' \subseteq Seen
    BY <2>1, MemoryKeepsBytes
  <2>3. Messages'
    BY <1>1, <2>2, MessagesStay
  <2>4. wPc' = "open" /\ wInvalidated'
    BY <1>1, <1>4, <2>2 DEF wtx
  <2> QED
    BY <1>1, <1>2, <2>2, <2>3, <2>4 DEF SenderInv, Writing
<1>5. CASE ~wInvalidated
  <2>1. Write(Payload) /\ Payload \in Buffers
    BY <1>2, <1>5, PieceIs DEF SendPayload, Payload
  <2>2. UNCHANGED <<Queue, Pending, Seen, rtx>>
    BY <2>1, WriteKeepsBytes
  <2>3. wPc' \in {"sync", "copy"} /\ wBuf' = Payload
    BY <2>1 DEF Write
  <2>4. Pending = Encode(chunk)
    <3>1. Pending = <<>> \o Encode(chunk)
      BY <1>1, <1>5 DEF SenderInv, Writing
    <3>2. Encode(chunk) \in Seq(Byte)
      BY <1>2, HeaderIs
    <3> QED
      BY <3>1, <3>2, ConcatEmptySeq
  <2>5. Writing(Encode(chunk), Payload)'
    BY <1>3, <2>2, <2>3, <2>4 DEF Writing
  <2>6. Messages'
    BY <1>1, <2>2, MessagesStay
  <2> QED
    BY <1>1, <1>2, <2>2, <2>3, <2>5, <2>6 DEF SenderInv
<1> QED
  BY <1>4, <1>5

\* The transaction of a chunk ends: the whole message enters the queue, or
\* nothing does and the chunk is drawn anew.
LEMMA SendCheckKeeps ==
  ASSUME TransferInv, SendCheck
  PROVE  SenderInv' /\ Messages' /\ UNCHANGED rtx /\ tPc # "done"
<1> USE DEF TransferInv
<1>1. /\ UNCHANGED rtx  /\ wPc' = "none"  /\ wPc = "open"
      /\ wInvalidated => Queue' = Queue /\ Seen' = Seen
      /\ ~wInvalidated => /\ Queue' = Queue \o Pending
                          /\ Seen' \subseteq Seen \cup {Len(Queue) + Len(Pending)}
  BY WriteEndGives DEF SendCheck, WriteEnd
<1>2. /\ tPc = "check"  /\ tPc' = "loop"  /\ chunk' = 0
      /\ UNCHANGED <<received, xHash>>
  BY DEF SendCheck, receiver
<1>3. /\ chunk \in 0 .. MaxChunk  /\ chunk # 0  /\ chunk \in Nat
      /\ sent \in Nat  /\ Len(Source) \in Nat  /\ sent + chunk <= Len(Source)
  BY <1>2, Sizes DEF SenderInv
<1>4. CASE wInvalidated
  <2>1. UNCHANGED <<sent, tHash>>
    BY <1>4 DEF SendCheck
  <2>2. Messages'
    BY <1>1, <1>2, <1>4, <2>1, MessagesStay
  <2> QED
    BY <1>1, <1>2, <2>1, <2>2, Sizes DEF SenderInv
<1>5. CASE ~wInvalidated
  <2>1. sent' = sent + chunk /\ tHash' = Checksum(tHash, Payload)
    BY <1>5 DEF SendCheck
  <2>2. Pending = Encode(chunk) \o Payload
    BY <1>1, <1>2, <1>5 DEF SenderInv, Writing
  <2>3. /\ Payload \in Seq(Byte)  /\ Len(Payload) = chunk
        /\ \A j \in 1 .. chunk : Payload[j] = Source[sent + j]
    BY <1>3, PieceIs DEF Payload
  <2>4. tHash' = IF chunk = 0 THEN tHash ELSE Checksum(tHash, SubSeq(Source, sent + 1, sent + chunk))
    BY <1>3, <2>1 DEF Payload
  <2>5. PICK n \in 0 .. MaxChunk, piece \in Seq(Byte) : n = chunk /\ piece = Payload
    BY <1>3, <2>3
  <2>6. /\ n # 0  /\ sent + n <= Len(Source)  /\ sent' = sent + n
        /\ Len(piece) = n  /\ \A j \in 1 .. n : piece[j] = Source[sent + j]
        /\ Pending = Encode(n) \o piece  /\ Queue' = Queue \o Pending
        /\ Seen' \subseteq Seen \cup {Len(Queue) + Len(Pending)}
        /\ tHash' = IF n = 0 THEN tHash ELSE Checksum(tHash, SubSeq(Source, sent + 1, sent + n))
    BY <1>1, <1>3, <1>5, <2>1, <2>2, <2>3, <2>4, <2>5
  <2>7. Messages'
    BY <1>2, <1>3, <2>6, MessagesSend
  <2>8. sent' \in 0 .. Len(Source)
    BY <1>3, <2>1
  <2> QED
    BY <1>1, <1>2, <2>7, <2>8, Sizes DEF SenderInv
<1> QED
  BY <1>4, <1>5

\* The transaction of the end mark ends: it lies behind the last chunk and the
\* transmitter is done, or it is tried again.
LEMMA MarkCheckKeeps ==
  ASSUME TransferInv, MarkCheck
  PROVE  SenderInv' /\ Messages' /\ UNCHANGED rtx /\ tPc # "done"
<1> USE DEF TransferInv
<1>1. /\ UNCHANGED rtx  /\ wPc' = "none"  /\ wPc = "open"
      /\ wInvalidated => Queue' = Queue /\ Seen' = Seen
      /\ ~wInvalidated => /\ Queue' = Queue \o Pending
                          /\ Seen' \subseteq Seen \cup {Len(Queue) + Len(Pending)}
  BY WriteEndGives DEF MarkCheck, WriteEnd
<1>2. /\ tPc = "markCheck"  /\ tPc' = (IF wInvalidated THEN "loop" ELSE "done")
      /\ UNCHANGED <<sent, chunk, tHash, received, xHash>>
  BY DEF MarkCheck, receiver
<1>3. sent \in Nat /\ sent = Len(Source) /\ Len(Source) \in Nat
  BY <1>2, Sizes DEF SenderInv
<1>4. SenderInv'
  BY <1>1, <1>2 DEF SenderInv
<1>5. CASE wInvalidated
  BY <1>1, <1>2, <1>4, <1>5, MessagesStay
<1>6. CASE ~wInvalidated
  <2>1. PICK n \in 0 .. MaxChunk, piece \in Seq(Byte) : n = 0 /\ piece = <<>>
    <3>1. 0 \in 0 .. MaxChunk /\ <<>> \in Seq(Byte)
      BY EmptySeq, Sizes
    <3> QED
      BY <3>1
  <2>2. Encode(n) \in Seq(Byte)
    BY HeaderIs
  <2>3. Pending = Encode(n) \o piece
    <3>1. Pending = <<>> \o Encode(n)
      BY <1>1, <1>2, <1>6, <2>1 DEF SenderInv, Writing
    <3> QED
      BY <2>1, <2>2, <3>1, ConcatEmptySeq
  <2>4. /\ Len(piece) = n  /\ \A j \in 1 .. n : piece[j] = Source[sent + j]
        /\ sent + n <= Len(Source)  /\ sent' = sent + n  /\ tPc' = "done"
        /\ tHash' = IF n = 0 THEN tHash ELSE Checksum(tHash, SubSeq(Source, sent + 1, sent + n))
    BY <1>2, <1>3, <1>6, <2>1, EmptySeq
  <2>5. Messages'
    BY <1>1, <1>2, <1>3, <1>6, <2>3, <2>4, MessagesSend
  <2> QED
    BY <1>1, <1>2, <1>4, <2>5
<1> QED
  BY <1>5, <1>6

\* No step of the transmitter disturbs what holds of the receiver.
LEMMA TransmitterKeeps ==
  ASSUME TransferInv, IInv', Transmitter
  PROVE  SenderInv' /\ ReceiverInv' /\ EndInv' /\ Messages'
<1> USE DEF TransferInv
<1>1. SenderInv' /\ Messages' /\ UNCHANGED rtx /\ tPc # "done"
  BY WriteStepKeeps, SendBeginKeeps, SendHeaderKeeps, SendPayloadKeeps, SendCheckKeeps,
     MarkCheckKeeps DEF Transmitter
<1>2. UNCHANGED <<receiver, result>>
  BY DEF Transmitter, SendBegin, SendHeader, SendPayload, SendCheck, MarkBegin, MarkWrite,
         MarkCheck, jobs
<1>3. ReceiverInv'
  BY <1>1, <1>2 DEF ReceiverInv, receiver, rtx
<1>4. EndInv'
  BY <1>1, <1>2 DEF EndInv, receiver
<1> QED
  BY <1>1, <1>3, <1>4

--------------------------------------------------------------------------------
\* The receiver, action by action

LEMMA SenderStays ==
  ASSUME SenderInv, UNCHANGED <<Pending, wtx, transmitter>>
  PROVE  SenderInv'
<1>1. UNCHANGED <<tPc, sent, chunk, wPc, wInvalidated, wBuf>>
  BY DEF wtx, transmitter
<1>2. Payload' = Payload /\ Encode(chunk)' = Encode(chunk) /\ Encode(0)' = Encode(0)
  BY <1>1 DEF Payload, Encode
<1> QED
  BY <1>1, <1>2 DEF SenderInv, Writing

\* A transaction opens, and the call that reads a header begins.
LEMMA ReceiveBeginKeeps ==
  ASSUME TransferInv, ReceiveBegin \/ ReceiveHeader
  PROVE  SenderInv' /\ ReceiverInv' /\ EndInv' /\ Messages'
<1> USE DEF TransferInv
<1>1. /\ UNCHANGED <<received, xHash, transmitter, result>>
      /\ xPc \notin {"done"} /\ xPc' \in {"header", "payload"}
      /\ ReadBegin \/ (HeaderSize \in 0 .. MaxSize /\ Read(HeaderSize))
  BY Sizes DEF ReceiveBegin, ReceiveHeader
<1>2. UNCHANGED <<Queue, Pending, got, wtx>> /\ Seen' \subseteq Seen
  BY <1>1, ReadKeepsBytes
<1>3. ReceiverInv'
  <2>1. CASE ReceiveBegin
    <3>1. /\ rPc = "none"  /\ rPc' = "open"  /\ ~rInvalidated'  /\ got' = <<>>
          /\ xPc' = "header"  /\ size' = 0
      BY <1>2, <2>1 DEF ReceiveBegin, ReadBegin, CallsAreValid, IInv, NothingGotOutside
    <3> QED
      BY <3>1, Sizes DEF ReceiverInv
  <2>2. CASE ReceiveHeader
    <3>1. /\ rPc' \in {"sync", "copy"}  /\ rSize' = HeaderSize  /\ got' = <<>>
          /\ xPc' = "payload"  /\ size' = 0
      BY <1>2, <2>2 DEF ReceiveHeader, Read, ReceiverInv
    <3> QED
      BY <3>1, Sizes DEF ReceiverInv
  <2> QED
    BY <2>1, <2>2
<1>4. SenderInv' /\ EndInv'
  BY <1>1, <1>2, SenderStays DEF EndInv
<1>5. Messages'
  BY <1>1, <1>2, MessagesStay DEF transmitter
<1> QED
  BY <1>3, <1>4, <1>5

\* Inside a call of read, up to its return or refusal.
LEMMA ReadStepKeeps ==
  ASSUME TransferInv, IInv', ReadStep, UNCHANGED jobs
  PROVE  SenderInv' /\ ReceiverInv' /\ EndInv' /\ Messages'
<1> USE DEF TransferInv
<1>1. /\ UNCHANGED <<transmitter, xPc, size, received, xHash, result>>
      /\ xPc \in {"payload", "check"}  /\ rPc \notin {"none", "open"}  /\ ~rInvalidated
  BY DEF ReadStep, ReadSync, ReadRefuse, CopyOut, ReadDone, jobs, receiver, ReceiverInv,
         CallsAreValid
<1>2. CASE ReadSync \/ (\E core \in Core : ReadRefuse(core)) \/ CopyOut
  <2>1. UNCHANGED <<Queue, Pending, got, wtx>> /\ Seen' \subseteq Seen
    BY <1>2, ReadKeepsBytes
  <2>2. SenderInv' /\ EndInv' /\ Messages'
    BY <1>1, <2>1, SenderStays, MessagesStay DEF EndInv, transmitter
  <2>3. CASE ReadSync \/ CopyOut
    <3>1. /\ rPc' \in {"empty", "copy"}  /\ rSize' = rSize  /\ ~rInvalidated'
          /\ rPc = "copy" => rPc' = "copy"
      BY <1>1, <2>3 DEF ReadSync, CopyOut
    <3> QED
      BY <1>1, <2>1, <2>2, <3>1 DEF ReceiverInv
  <2>4. CASE \E core \in Core : ReadRefuse(core)
    <3>1. rPc = "empty" /\ rPc' = "open" /\ rInvalidated'
      BY <2>4 DEF ReadRefuse
    <3> QED
      BY <1>1, <2>1, <2>2, <3>1 DEF ReceiverInv
  <2> QED
    BY <1>2, <2>3, <2>4
<1>3. CASE ReadDone
  <2>1. /\ UNCHANGED <<Queue, Pending, Seen, wtx>>
        /\ rPc' = "open"  /\ ~rInvalidated'  /\ Len(got') = Len(got) + rSize
        /\ \A k \in 1 .. Len(got) : got'[k] = got[k]
    BY <1>3, ReadDoneGives
  <2>2. SenderInv' /\ EndInv' /\ Messages'
    BY <1>1, <2>1, SenderStays, MessagesStay DEF EndInv, transmitter
  <2>3. rPc = "copy"
    BY <1>3 DEF ReadDone
  <2>4. CASE xPc = "payload"
    <3>1. got = <<>> /\ rSize = HeaderSize /\ Len(got) = 0
      BY <1>1, <2>4, EmptySeq DEF ReceiverInv
    <3>2. Len(got') = HeaderSize
      BY <2>1, <3>1, Sizes
    <3> QED
      BY <1>1, <2>1, <2>2, <2>4, <3>2 DEF ReceiverInv
  <2>5. CASE xPc = "check"
    <3>1. Len(got) = HeaderSize /\ rSize = size /\ got[1] = size
      BY <1>1, <2>3, <2>5 DEF ReceiverInv
    <3>2. got'[1] = size /\ Len(got') = HeaderSize + size
      BY <2>1, <3>1, Sizes
    <3>3. got' # <<>>
      BY <3>2, EmptySeq, Sizes DEF ReceiverInv
    <3> QED
      BY <1>1, <2>1, <2>2, <2>5, <3>2, <3>3 DEF ReceiverInv
  <2> QED
    BY <1>1, <2>4, <2>5
<1> QED
  BY <1>2, <1>3 DEF ReadStep

\* Behind a header that was read lies its payload: the call that reads it has
\* no need to look at the tail again, and is not refused.
LEMMA ReceivePayloadKeeps ==
  ASSUME TransferInv, ReceivePayload
  PROVE  SenderInv' /\ ReceiverInv' /\ EndInv' /\ Messages'
<1> USE DEF TransferInv
<1>1. /\ UNCHANGED <<received, xHash, transmitter, result>>
      /\ xPc = "payload"  /\ xPc' = "check"  /\ rPc = "open"
  BY DEF ReceivePayload
<1>2. CASE rInvalidated
  <2>1. UNCHANGED vars /\ size' = size
    BY <1>2 DEF ReceivePayload
  <2>2. UNCHANGED <<Queue, Pending, wtx, rtx>> /\ Seen' \subseteq Seen
    BY <2>1, MemoryKeepsBytes
  <2>3. SenderInv' /\ EndInv' /\ Messages'
    BY <1>1, <2>2, SenderStays, MessagesStay DEF EndInv, transmitter
  <2>4. rPc' = "open" /\ rInvalidated'
    BY <1>1, <1>2, <2>2 DEF rtx
  <2> QED
    BY <1>1, <2>1, <2>3, <2>4 DEF ReceiverInv
<1>3. CASE ~rInvalidated
  <2>1. Len(got) = HeaderSize /\ size' = got[1] /\ Read(got[1])
    BY <1>1, <1>3 DEF ReceivePayload, ReceiverInv, Decode
  <2>2. PICK B, f, h : Laid(Queue, B, f, h, tPc) /\ Seen \subseteq B
    BY DEF Messages
  <2>3. got[1] \in 0 .. MaxChunk /\ MessageAt(Queue, B, f, h, 0, got[1])
    BY <2>1, <2>2, HeaderRead, Sizes
  <2>4. UNCHANGED <<Queue, Pending, got, wtx>> /\ Seen' \subseteq Seen
    <3>1. got[1] \in 0 .. MaxSize
      BY <2>3, Sizes
    <3> QED
      BY <2>1, <3>1, ReadKeepsBytes
  <2>5. SenderInv' /\ EndInv' /\ Messages'
    BY <1>1, <2>4, SenderStays, MessagesStay DEF EndInv, transmitter
  <2>6. got[1] <= AvailableData(rCachedTail, rHead)
    <3> DEFINE visible == AvailableData(rCachedTail, head)
    <3>1. /\ head \in Index  /\ rHead \in Index  /\ rCachedTail \in Index
          /\ AvailableData(rHead, head) = HeaderSize
          /\ HeaderSize <= visible  /\ visible \in Nat
      <4>1. TypeOK /\ ConsumerView /\ head \in Index
        BY TypeFacts DEF IInv
      <4>2. rHead \in Index /\ rCachedTail \in Index
        BY <4>1 DEF TypeOK
      <4>3. Len(got) + (IF rPc = "copy" THEN rSize ELSE 0) = HeaderSize
        BY <1>1, <2>1, Sizes
      <4> QED
        BY <1>1, <2>1, <4>1, <4>2, <4>3, DataRange DEF ConsumerView
    <3>2. visible \in B
      BY <1>1, <2>2 DEF Seen
    <3>3. HeaderSize + got[1] <= visible
      <4>1. visible <= 0 \/ 0 + HeaderSize + got[1] <= visible
        BY <2>3, <3>2 DEF MessageAt
      <4> QED
        BY <2>3, <3>1, <4>1, Sizes
    <3>4. AvailableData(rCachedTail, rHead) = visible - HeaderSize
      BY <3>1, DistancesSubtract
    <3> QED
      BY <2>3, <3>1, <3>3, <3>4, Sizes
  <2>7. rPc' = "copy" /\ rSize' = got[1] /\ ~rInvalidated' /\ got' = got
    <3>1. AvailableData(rCachedTail, rHead) \in Nat /\ got[1] \in Nat
      <4>1. rCachedTail \in Index /\ rHead \in Index
        BY DEF IInv, TypeOK
      <4> QED
        BY <2>3, <4>1, Sizes, DataRange
    <3>2. ~(got[1] > AvailableData(rCachedTail, rHead))
      BY <2>6, <3>1
    <3> QED
      BY <1>3, <2>1, <2>4, <3>2 DEF Read
  <2>8. got # <<>>
    BY <2>1, EmptySeq, Sizes
  <2> QED
    BY <1>1, <2>1, <2>3, <2>5, <2>7, <2>8 DEF ReceiverInv
<1> QED
  BY <1>2, <1>3

\* The transaction ends: the message is taken, or will be read again.
LEMMA ReceiveCheckKeeps ==
  ASSUME TransferInv, ReceiveCheck
  PROVE  SenderInv' /\ ReceiverInv' /\ EndInv' /\ Messages'
<1> USE DEF TransferInv
<1>1. /\ ReadEnd  /\ rPc = "open"  /\ xPc = "check"  /\ xPc' \in {"loop", "done"}
      /\ UNCHANGED <<size, transmitter, result>>
  BY DEF ReceiveCheck, ReadEnd
<1>2. /\ UNCHANGED <<Pending, wtx>>  /\ rPc' = "none"  /\ got' = <<>>
      /\ rInvalidated => Queue' = Queue /\ Seen' \subseteq Seen
  BY <1>1, ReadEndGives
<1>3. SenderInv' /\ ReceiverInv'
  BY <1>1, <1>2, SenderStays DEF ReceiverInv
<1>4. result' = "running"
  BY <1>1 DEF EndInv
<1>5. CASE rInvalidated
  <2>1. UNCHANGED <<received, xHash>> /\ xPc' = "loop"
    BY <1>5 DEF ReceiveCheck
  <2> QED
    BY <1>1, <1>2, <1>3, <1>4, <1>5, <2>1, MessagesStay DEF EndInv, transmitter
<1>6. CASE ~rInvalidated
  <2>1. /\ got # <<>>  /\ got[1] = size  /\ Len(got) = HeaderSize + got[1]
        /\ size \in 0 .. MaxChunk
    BY <1>1, <1>6 DEF ReceiverInv
  <2>2. Len(got) >= HeaderSize
    BY <2>1, Sizes
  <2>3. /\ IF got[1] = 0 THEN UNCHANGED <<received, xHash>> ELSE Take
        /\ xPc' = "done" => got[1] = 0
    BY <1>6, <2>1 DEF ReceiveCheck
  <2>4. UNCHANGED <<tPc, sent, tHash>> /\ sent \in 0 .. Len(Source)
    BY <1>1 DEF transmitter, SenderInv
  <2>5. /\ Messages'
        /\ received' \in Seq(Byte)
        /\ \A k \in 1 .. Len(received') : received'[k] = Source[k]
        /\ got[1] = 0 => tPc = "done" /\ Queue' = <<>>
    BY <1>1, <1>6, <2>1, <2>2, <2>3, <2>4, MessagesReceive
  <2> QED
    BY <1>3, <1>4, <2>3, <2>4, <2>5 DEF EndInv
<1> QED
  BY <1>5, <1>6

--------------------------------------------------------------------------------
\* The invariant of the transfer

\* The store buffers drain, or main compares the hashes, once both jobs have
\* come to their end: the queue is empty and both have hashed the same bytes.
LEMMA OthersKeep ==
  ASSUME TransferInv, HeadArrives \/ TailArrives \/ Compare \/ UNCHANGED allvars
  PROVE  SenderInv' /\ ReceiverInv' /\ EndInv' /\ Messages'
<1> USE DEF TransferInv
<1>1. /\ HeadVisible \/ TailVisible \/ UNCHANGED vars
      /\ UNCHANGED <<transmitter, xPc, size, received, xHash>>
  BY DEF HeadArrives, TailArrives, Compare, allvars, jobs, receiver
<1>2. UNCHANGED <<Queue, Pending, wtx, rtx>> /\ Seen' \subseteq Seen
  BY <1>1, MemoryKeepsBytes
<1>3. SenderInv'
  BY <1>1, <1>2, SenderStays
<1>4. ReceiverInv'
  BY <1>1, <1>2 DEF ReceiverInv, rtx
<1>5. Messages'
  BY <1>1, <1>2, MessagesStay DEF transmitter
<1>6. EndInv'
  <2>1. CASE Compare
    <3>1. xPc = "done" /\ Queue = <<>> /\ Len(Queue) = 0
      BY <2>1, EmptySeq DEF Compare, EndInv
    <3>2. tHash = xHash
      BY <3>1 DEF Messages
    <3> QED
      BY <1>1, <1>2, <2>1, <3>1, <3>2 DEF Compare, EndInv, transmitter
  <2>2. CASE HeadArrives \/ TailArrives \/ UNCHANGED allvars
    <3>1. result' = result
      BY <2>2 DEF HeadArrives, TailArrives, allvars, jobs
    <3> QED
      BY <1>1, <1>2, <3>1 DEF EndInv, transmitter
  <2> QED
    BY <2>1, <2>2
<1> QED
  BY <1>3, <1>4, <1>5, <1>6

LEMMA TransferBegins ==
  TransferInit => TransferInv
<1> SUFFICES ASSUME TransferInit PROVE TransferInv
  OBVIOUS
<1>1. Init /\ IInv /\ CallsAreValid
  BY InitIsInvariant DEF TransferInit, Init, CallsAreValid
<1>2. Queue = <<>> /\ Pending = <<>> /\ Len(Queue) = 0
  BY <1>1, InitMaps, EmptySeq DEF Fifo!Init
<1>3. SenderInv /\ ReceiverInv
  BY <1>1, Sizes DEF TransferInit, Init, SenderInv, ReceiverInv
<1>4. EndInv
  BY <1>2, EmptySeq DEF TransferInit, EndInv
<1>5. Messages
  <2> DEFINE B == {0}
             f == [b \in {0} |-> 0]
  <2>1. Laid(Queue, B, f, f, tPc)
    BY <1>2 DEF Laid
  <2>2. Seen \subseteq B
    <3>1. /\ tails = <<0>>  /\ head = 0  /\ rPc = "none"  /\ 0 \in Index
          /\ Len(tails) = 1  /\ tails[1] = 0
      <4>1. tails = <<0>> /\ head = 0 /\ rPc = "none"
        BY <1>1 DEF Init, head, Last
      <4> QED
        BY <4>1, CapacityAssumption DEF Index
    <3>2. AvailableData(0, 0) = 0
      BY <3>1, DataRange
    <3> QED
      BY <3>1, <3>2 DEF Seen
  <2>3. /\ f[0] = Len(received)  /\ f[Len(Queue)] = sent
        /\ f[0] = xHash          /\ f[Len(Queue)] = tHash
    BY <1>2, EmptySeq DEF TransferInit
  <2> QED
    BY <2>1, <2>2, <2>3 DEF Messages
<1> QED
  BY <1>1, <1>3, <1>4, <1>5 DEF TransferInv

LEMMA TransferStep ==
  TransferInv /\ [TransferNext]_allvars => TransferInv' /\ [Next]_vars
<1> SUFFICES ASSUME TransferInv, [TransferNext]_allvars PROVE TransferInv' /\ [Next]_vars
  OBVIOUS
<1>1. [Next]_vars
  BY StepIsUse
<1>2. IInv' /\ CallsAreValid'
  BY <1>1, StepKeepsInvariant, CallsValidStep DEF TransferInv
<1>3. CASE Transmitter
  BY <1>1, <1>2, <1>3, TransmitterKeeps DEF TransferInv
<1>4. CASE Receiver
  BY <1>1, <1>2, <1>4, ReceiveBeginKeeps, ReadStepKeeps, ReceivePayloadKeeps, ReceiveCheckKeeps
  DEF TransferInv, Receiver
<1>5. CASE HeadArrives \/ TailArrives \/ Compare \/ UNCHANGED allvars
  BY <1>1, <1>2, <1>5, OthersKeep DEF TransferInv
<1> QED
  BY <1>3, <1>4, <1>5 DEF TransferNext

\* The queue is a row of whole messages, those that were sent and have not been
\* received, and both jobs are where the row says.
THEOREM TransferInvariant ==
  TransferSpec => []TransferInv
BY TransferBegins, TransferStep, PTL DEF TransferSpec

\* The jobs use the queue as TxQueue assumes of its callers (utest_jobs.inl
\* calls nothing but the transactions of tx-queue.inl), so that whatever holds
\* of the queue holds of the transfer.
THEOREM TransferUsesQueue ==
  TransferSpec => Spec
<1>1. TransferInit => Init
  BY DEF TransferInit
<1> QED
  BY <1>1, TransferBegins, TransferStep, PTL DEF TransferSpec, Spec

--------------------------------------------------------------------------------
\* What the invariant says of the jobs

\* The receiver takes the bytes of the buffer in their order, and none that
\* the transmitter has not counted as sent.
THEOREM ReceivedInOrder ==
  TransferSpec => []InOrder
<1>1. ASSUME TransferInv PROVE InOrder
  <2>1. /\ received \in Seq(Byte)  /\ Source \in Seq(Byte)  /\ sent <= Len(Source)
        /\ \A k \in 1 .. Len(received) : received[k] = Source[k]
    BY <1>1, Sizes DEF TransferInv, EndInv, SenderInv
  <2>2. Len(received) <= sent
    BY <1>1 DEF TransferInv, Messages, Laid
  <2>3. Len(received) \in Nat /\ Len(Source) \in Nat /\ Len(received) <= Len(Source) /\ sent \in Nat
    BY <1>1, <2>1, <2>2, Sizes, LenProperties DEF TransferInv, SenderInv
  <2>4. SubSeq(received, 1, Len(received)) = SubSeq(Source, 1, Len(received))
    <3> DEFINE l == Len(received)
               r == SubSeq(received, 1, l)
               s == SubSeq(Source, 1, l)
    <3>1. /\ r \in Seq(Byte)  /\ Len(r) = l
          /\ \A k \in 1 .. l : r[k] = received[k]
      BY <2>1, <2>3, Beginning
    <3>2. /\ s \in Seq(Byte)  /\ Len(s) = l
          /\ \A k \in 1 .. l : s[k] = Source[k]
      BY <2>1, <2>3, Beginning
    <3> HIDE DEF r, s
    <3>3. r = s
      BY <2>1, <3>1, <3>2, SeqEqual
    <3> QED
      BY <3>3 DEF r, s
  <2> QED
    BY <2>2, <2>3, <2>4 DEF InOrder, IsPrefix
<1> QED
  BY <1>1, TransferInvariant, PTL

\* What the receiver takes for a header is one (read(chunk_size)), and no
\* longer than its buffer.
THEOREM HeadersIntact ==
  TransferSpec => []HeaderIntact
<1>1. ASSUME TransferInv PROVE HeaderIntact
  <2> SUFFICES ASSUME Len(got) >= HeaderSize
               PROVE  \E n \in 0 .. MaxChunk : SubSeq(got, 1, HeaderSize) = Encode(n)
    BY DEF HeaderIntact
  <2>1. IInv /\ \E B, f, h : Laid(Queue, B, f, h, tPc)
    BY <1>1 DEF TransferInv, Messages
  <2>2. PICK n \in 0 .. MaxChunk : n = got[1] /\ \A k \in 1 .. HeaderSize : got[k] = n
    BY <2>1, HeaderRead
  <2>3. /\ got \in Seq(Byte)  /\ Len(got) \in Nat
        /\ Encode(n) \in Seq(Byte)  /\ Len(Encode(n)) = HeaderSize
        /\ \A k \in 1 .. HeaderSize : Encode(n)[k] = n
    BY <2>1, GotIs, HeaderIs
  <2> DEFINE u == SubSeq(got, 1, HeaderSize)
  <2>4. /\ u \in Seq(Byte)  /\ Len(u) = HeaderSize
        /\ \A k \in 1 .. HeaderSize : u[k] = got[k]
    BY <2>1, <2>3, Beginning, Sizes
  <2> HIDE DEF u
  <2>5. u = Encode(n)
    BY <2>2, <2>3, <2>4, SeqEqual
  <2> QED
    BY <2>5 DEF u
<1> QED
  BY <1>1, TransferInvariant, PTL

\* The read of a payload, after the one of its header, never fails.
THEOREM ChunksAreWhole ==
  TransferSpec => []ChunkIsWhole
<1>1. ASSUME TransferInv PROVE ChunkIsWhole
  BY <1>1 DEF TransferInv, ReceiverInv, ChunkIsWhole
<1> QED
  BY <1>1, TransferInvariant, PTL

\* The receiver's loop ends with the whole buffer, and an empty queue.
THEOREM StopsWithAll ==
  TransferSpec => []StopsAtTheEnd
<1>1. ASSUME TransferInv, xPc = "done" PROVE received = Source /\ Queue = <<>>
  <2>1. /\ tPc = "done"  /\ Queue = <<>>  /\ sent = Len(Source)  /\ Len(Queue) = 0
    BY <1>1, EmptySeq DEF TransferInv, EndInv, SenderInv
  <2>2. Len(received) = Len(Source)
    BY <1>1, <2>1 DEF TransferInv, Messages
  <2>3. received = Source
    BY <1>1, <2>2, Sizes, SeqEqual DEF TransferInv, EndInv
  <2> QED
    BY <2>1, <2>3
<1>2. TransferInv => StopsAtTheEnd
  BY <1>1 DEF StopsAtTheEnd
<1> QED
  BY <1>2, TransferInvariant, PTL

\* main of utests/intra never reports different hashes, whatever the width of
\* the sum.
THEOREM HashesAlwaysAgree ==
  TransferSpec => []HashesAgree
<1>1. TransferInv => HashesAgree
  BY DEF TransferInv, EndInv, HashesAgree
<1> QED
  BY <1>1, TransferInvariant, PTL

================================================================================
