------------------------ MODULE InteractiveSessionProofs -----------------------
(***************************************************************************)
(* The interactive jobs of utest_jobs.inl over the queue, for every        *)
(* capacity, every size of a number and of a stamp, and whenever the two   *)
(* processes die and are launched again: what is printed was sent, in that *)
(* order, and nothing leaves the queue of a section unprinted.             *)
(*                                                                         *)
(* The queue is a row of messages of one size, the accepted ones from some *)
(* place on; the receiver has consumed the p before it.  A receiver that   *)
(* died prints message p + 1 again, so that is how far printing may be.    *)
(***************************************************************************)
EXTENDS InteractiveSession, TxQueueRefinement

Pair == Number \X (1 .. MaxSends)

\* Where the message behind n others begins
Place(n) == n * MessageSize

\* A message as its bytes lie in q from place b on
MessageAt(q, b, m) ==
  /\ \A k \in 1 .. NumberSize : q[b + k] = m[1]
  /\ \A k \in 1 .. StampSize : q[b + NumberSize + k] = m[2]

\* q holds the messages of s but for the first p.
Row(q, s, p) ==
  /\ p \in 0 .. Len(s)  /\ Len(q) = Place(Len(s) - p)
  /\ \A i \in p + 1 .. Len(s) : MessageAt(q, Place(i - p - 1), s[i])

\* The p messages consumed were printed, and of the others at most the first.
Messages ==
  \E p \in 0 .. Len(accepted) :
    /\ Row(Queue, accepted, p)
    /\ \A i \in 1 .. p : \E j \in 1 .. Len(printed) : printed[j] = accepted[i]
    /\ \A j \in 1 .. Len(printed) : \E i \in 1 .. Len(accepted) :
         i <= p + 1 /\ printed[j] = accepted[i]

\* Messages are accepted in the order of the key presses, and so printed.
InOrder ==
  /\ accepted \in Seq(Pair)  /\ printed \in Seq(Pair)
  /\ \A i, j \in 1 .. Len(accepted) : i <= j => accepted[i][2] <= accepted[j][2]
  /\ \A i \in 1 .. Len(accepted) : accepted[i][2] <= sends
  /\ \A i, j \in 1 .. Len(printed) : i <= j => printed[i][2] <= printed[j][2]

SenderInv ==
  /\ iPc \in {"key", "number", "stamp", "end"}
  /\ number \in Number  /\ sends \in 0 .. MaxSends
  /\ iPc # "key" => sends # 0
  /\ iPc = "key" => wPc = "none"
  /\ iPc = "number" => wPc = "open" /\ ~wInvalidated /\ Pending = <<>>
  /\ iPc = "stamp" => Writing(<<>>, Encode(number, NumberSize))
  /\ iPc = "end" => Writing(Encode(number, NumberSize), Encode(sends, StampSize))

ReceiverInv ==
  /\ jPc \in {"loop", "number", "stamp", "print", "end"}
  /\ jPc = "loop" => rPc = "none"
  /\ jPc = "number" => rPc = "open" /\ ~rInvalidated /\ got = <<>>
  /\ jPc = "stamp" =>
       /\ rPc # "none"
       /\ rPc = "open" => rInvalidated \/ Len(got) = NumberSize
       /\ rPc # "open" => got = <<>> /\ rSize = NumberSize
  /\ jPc = "print" =>
       /\ rPc # "none"
       /\ rPc = "open" => rInvalidated \/ Len(got) = MessageSize
       /\ rPc # "open" => Len(got) = NumberSize /\ rSize = StampSize
  /\ jPc = "end" =>
       /\ rPc = "open"
       /\ rInvalidated \/
            /\ Len(got) = MessageSize
            /\ \E j \in 1 .. Len(printed) : printed[j] = <<got[1], got[NumberSize + 1]>>

SessionInv ==
  /\ IInv /\ CallsAreValid
  /\ SenderInv /\ ReceiverInv /\ InOrder /\ Messages

--------------------------------------------------------------------------------
\* The sizes, and what the transmitter writes

\* What the assumptions on the constants say of the numbers.
LEMMA Sizes ==
  /\ NumberSize \in Nat  /\ NumberSize >= 1  /\ NumberSize <= MaxSize
  /\ StampSize \in Nat  /\ StampSize >= 1  /\ StampSize <= MaxSize
  /\ MessageSize = NumberSize + StampSize  /\ MessageSize \in Nat \ {0}
  /\ MaxSize \in Nat  /\ MaxSends \in Nat
  /\ \A v \in Number : v \in Byte
  /\ \A v \in 1 .. MaxSends : v \in Byte
BY InteractiveAssumption, MaxSizeAssumption DEF MessageSize

\* A number or a stamp is a block that the queue takes.
LEMMA EncodeIs ==
  ASSUME NEW v \in Byte, NEW length \in Nat, length <= MaxSize
  PROVE  /\ Encode(v, length) \in Seq(Byte)  /\ Encode(v, length) \in Buffers
         /\ Len(Encode(v, length)) = length
         /\ \A k \in 1 .. length : Encode(v, length)[k] = v
<1>1. Encode(v, length) \in [1 .. length -> Byte]
  BY DEF Encode
<1>2. Encode(v, length) \in Seq(Byte) /\ Len(Encode(v, length)) = length
  BY <1>1, IsASeq, LenProperties
<1> QED
  BY <1>2, BufferIsSeq DEF Encode

\* The places of the messages in the row.
LEMMA Places ==
  ASSUME NEW n \in Nat
  PROVE  /\ Place(n) \in Nat  /\ Place(0) = 0
         /\ Place(n + 1) = Place(n) + MessageSize
         /\ Place(n) \div MessageSize = n
<1>1. MessageSize \in Nat \ {0}
  BY Sizes
<1>2. Place(n) \in Nat /\ Place(0) = 0 /\ Place(n + 1) = Place(n) + MessageSize
  BY <1>1 DEF Place
<1>3. (n * MessageSize) \div MessageSize = n
  BY <1>1
<1> QED
  BY <1>2, <1>3 DEF Place

LEMMA PlacesAscend ==
  ASSUME NEW m \in Nat, NEW n \in Nat, m < n
  PROVE  Place(m) + MessageSize <= Place(n)
<1>1. PICK d \in Nat : n = m + 1 + d
  <2>1. n - m - 1 \in Nat /\ n = m + 1 + (n - m - 1)
    OBVIOUS
  <2> QED
    BY <2>1
<1>2. MessageSize \in Nat
  BY Sizes
<1>3. n * MessageSize = m * MessageSize + MessageSize + d * MessageSize /\ d * MessageSize \in Nat
  BY <1>1, <1>2
<1>4. m * MessageSize \in Nat
  BY <1>2
<1> QED
  BY <1>2, <1>3, <1>4 DEF Place

--------------------------------------------------------------------------------
\* Rows of messages

\* A message behind a row
LEMMA RowAppend ==
  ASSUME NEW q \in Seq(Byte), NEW s \in Seq(Pair), NEW p, Row(q, s, p),
         NEW m \in Pair, NEW r \in Seq(Byte), Len(r) = Len(q) + MessageSize,
         \A i \in 1 .. Len(q) : r[i] = q[i], MessageAt(r, Len(q), m)
  PROVE  Row(r, Append(s, m), p)
<1> DEFINE t == Append(s, m)
<1>1. /\ Len(s) \in Nat  /\ Len(t) = Len(s) + 1  /\ t[Len(s) + 1] = m
      /\ \A i \in 1 .. Len(s) : t[i] = s[i]
  BY LenProperties, AppendProperties
<1> HIDE DEF t
<1>2. /\ p \in 0 .. Len(s)  /\ p \in Nat  /\ Len(s) - p \in Nat  /\ Len(q) = Place(Len(s) - p)
      /\ Len(t) - p = Len(s) - p + 1
  BY <1>1 DEF Row
<1>3. p \in 0 .. Len(t) /\ Len(r) = Place(Len(t) - p)
  BY <1>1, <1>2, Places
<1>4. ASSUME NEW i \in p + 1 .. Len(t)
      PROVE  MessageAt(r, Place(i - p - 1), t[i])
  <2>1. CASE i <= Len(s)
    <3> DEFINE b == Place(i - p - 1)
    <3>1. i \in p + 1 .. Len(s) /\ i \in 1 .. Len(s) /\ i - p - 1 \in Nat /\ i - p - 1 < Len(s) - p
      BY <1>1, <1>2, <2>1
    <3>2. MessageAt(q, b, s[i]) /\ t[i] = s[i]
      BY <1>1, <3>1 DEF Row
    <3>3. b \in Nat /\ b + MessageSize <= Len(q) /\ Len(q) \in Nat
      BY <1>2, <3>1, Places, PlacesAscend
    <3> HIDE DEF b
    <3>4. ASSUME NEW k \in 1 .. NumberSize PROVE r[b + k] = t[i][1]
      <4>1. b + k \in 1 .. Len(q)
        BY <3>3, Sizes
      <4> QED
        BY <3>2, <4>1 DEF MessageAt
    <3>5. ASSUME NEW k \in 1 .. StampSize PROVE r[b + NumberSize + k] = t[i][2]
      <4>1. b + NumberSize + k \in 1 .. Len(q)
        <5>1. NumberSize + k \in 1 .. MessageSize
          BY Sizes
        <5>2. b + (NumberSize + k) \in 1 .. Len(q) /\ b + (NumberSize + k) = b + NumberSize + k
          BY <3>3, <5>1, Sizes
        <5> QED
          BY <5>2
      <4> QED
        BY <3>2, <4>1 DEF MessageAt
    <3>6. MessageAt(r, b, t[i])
      BY <3>4, <3>5 DEF MessageAt
    <3> QED
      BY <3>6 DEF b
  <2>2. CASE i = Len(s) + 1
    <3>1. i - p - 1 = Len(s) - p
      BY <1>1, <1>2, <2>2
    <3> QED
      BY <1>1, <1>2, <2>2, <3>1
  <2> QED
    BY <1>1, <1>2, <2>1, <2>2
<1>5. Row(r, t, p)
  BY <1>3, <1>4 DEF Row
<1> QED
  BY <1>5 DEF t

\* A row that is long enough for a message begins with one.
LEMMA RowBegins ==
  ASSUME NEW q \in Seq(Byte), NEW s \in Seq(Pair), NEW p, Row(q, s, p), Len(q) >= MessageSize
  PROVE  p + 1 \in 1 .. Len(s) /\ p \in Nat /\ MessageAt(q, 0, s[p + 1])
<1>1. Len(s) \in Nat /\ p \in 0 .. Len(s) /\ Len(q) = Place(Len(s) - p)
  BY LenProperties DEF Row
<1>2. p # Len(s)
  <2>1. p = Len(s) => Len(s) - p = 0 /\ Place(0) = 0
    BY <1>1, Places
  <2> QED
    BY <1>1, <2>1, Sizes
<1>3. p + 1 \in p + 1 .. Len(s) /\ p + 1 - p - 1 = 0
  BY <1>1, <1>2
<1>4. Place(0) = 0
  BY Places
<1> QED
  BY <1>1, <1>3, <1>4 DEF Row

\* Dropping the first message of a row
LEMMA RowDrop ==
  ASSUME NEW q \in Seq(Byte), NEW s \in Seq(Pair), NEW p, Row(q, s, p), Len(q) >= MessageSize,
         NEW r \in Seq(Byte), Len(r) = Len(q) - MessageSize,
         \A i \in 1 .. Len(r) : r[i] = q[MessageSize + i]
  PROVE  Row(r, s, p + 1)
<1>1. /\ Len(s) \in Nat  /\ p \in Nat  /\ p + 1 \in 1 .. Len(s)  /\ Len(s) - (p + 1) \in Nat
      /\ Len(s) - p = Len(s) - (p + 1) + 1
  BY RowBegins, LenProperties
<1>2. Len(r) = Place(Len(s) - (p + 1)) /\ Len(r) \in Nat
  <2>1. Place(Len(s) - p) = Place(Len(s) - (p + 1)) + MessageSize /\ Place(Len(s) - (p + 1)) \in Nat
    BY <1>1, Places
  <2> QED
    BY <2>1, Sizes DEF Row
<1>3. ASSUME NEW i \in p + 1 + 1 .. Len(s)
      PROVE  MessageAt(r, Place(i - (p + 1) - 1), s[i])
  <2> DEFINE b == Place(i - (p + 1) - 1)
             c == Place(i - p - 1)
  <2>1. /\ i \in p + 1 .. Len(s)  /\ i - (p + 1) - 1 \in Nat
        /\ i - p - 1 = i - (p + 1) - 1 + 1  /\ i - (p + 1) - 1 < Len(s) - (p + 1)
    BY <1>1
  <2>2. /\ c = b + MessageSize  /\ b \in Nat  /\ b + MessageSize <= Len(r)
    BY <1>1, <1>2, <2>1, Places, PlacesAscend
  <2>3. MessageAt(q, c, s[i])
    BY <2>1 DEF Row
  <2> HIDE DEF b, c
  <2>4. ASSUME NEW k \in 1 .. NumberSize PROVE r[b + k] = s[i][1]
    <3>1. b + k \in 1 .. Len(r) /\ MessageSize + (b + k) = c + k
      BY <1>2, <2>2, Sizes
    <3> QED
      BY <2>3, <3>1 DEF MessageAt
  <2>5. ASSUME NEW k \in 1 .. StampSize PROVE r[b + NumberSize + k] = s[i][2]
    <3>1. b + NumberSize + k \in 1 .. Len(r) /\ MessageSize + (b + NumberSize + k) = c + NumberSize + k
      BY <1>2, <2>2, Sizes
    <3> QED
      BY <2>3, <3>1 DEF MessageAt
  <2>6. MessageAt(r, b, s[i])
    BY <2>4, <2>5 DEF MessageAt
  <2> QED
    BY <2>6 DEF b
<1> QED
  BY <1>1, <1>2, <1>3 DEF Row

--------------------------------------------------------------------------------
\* The jobs are users of the queue

\* A new section holds an empty queue.
LEMMA CreatesQueue ==
  TransmitterCreates => Init'
BY InteractiveAssumption DEF TransmitterCreates, Init, DropWriteTx, DropReadTx

\* Every other step of the session is a step of the queue or leaves it alone.
LEMMA StepIsUse ==
  ASSUME SessionInv, [SessionNext]_allvars
  PROVE  TransmitterCreates \/ [Next]_vars
<1>1. CASE SendNumber
  <2>1. Encode(number, NumberSize) \in Buffers
    BY EncodeIs, Sizes DEF SessionInv, SenderInv
  <2> QED
    BY <1>1, <2>1 DEF SendNumber, Next, Producer
<1>2. CASE SendStamp
  <2>1. sends \in 1 .. MaxSends
    BY <1>2, Sizes DEF SessionInv, SenderInv, SendStamp
  <2>2. Encode(sends, StampSize) \in Buffers
    BY <2>1, EncodeIs, Sizes
  <2> QED
    BY <1>2, <2>2 DEF SendStamp, Next, Producer
<1>3. CASE KeyRelease \/ SendEnd \/ WriteStep \/ TransmitterLaunch
  BY <1>3 DEF KeyRelease, SendEnd, TransmitterLaunch, Next, Producer
<1>4. CASE ReceiveNumber \/ ReceiveStamp
  <2>1. NumberSize \in 0 .. MaxSize /\ StampSize \in 0 .. MaxSize
    BY Sizes
  <2> QED
    BY <1>4, <2>1 DEF ReceiveNumber, ReceiveStamp, Next, Consumer
<1>5. CASE ReceiveBegin \/ PrintPair \/ ReceiveEnd \/ ReadStep \/ ReceiverLaunch
  BY <1>5 DEF ReceiveBegin, PrintPair, ReceiveEnd, ReceiverLaunch, Next, Consumer
<1>6. CASE HeadArrives \/ TailArrives \/ UNCHANGED allvars
  BY <1>6 DEF HeadArrives, TailArrives, Next, allvars
<1>7. CASE TransmitterDies \/ ReceiverDies
  BY <1>7 DEF TransmitterDies, ReceiverDies
<1> QED
  BY <1>1, <1>2, <1>3, <1>4, <1>5, <1>6, <1>7
  DEF SessionNext, Transmitter, Receiver, Lifecycle

--------------------------------------------------------------------------------
\* The row of the queue, step by step

LEMMA MessagesStay ==
  ASSUME Messages, UNCHANGED <<Queue, accepted, printed>>
  PROVE  Messages'
<1>1. Queue' = Queue /\ accepted' = accepted /\ printed' = printed
  OBVIOUS
<1>2. PICK p \in 0 .. Len(accepted) :
        /\ Row(Queue, accepted, p)
        /\ \A i \in 1 .. p : \E j \in 1 .. Len(printed) : printed[j] = accepted[i]
        /\ \A j \in 1 .. Len(printed) : \E i \in 1 .. Len(accepted) :
             i <= p + 1 /\ printed[j] = accepted[i]
  BY DEF Messages
<1>3. Row(Queue', accepted', p)
  BY <1>1, <1>2, Zenon
<1>4. p \in 0 .. Len(accepted')
  BY <1>1, <1>2, Zenon
<1>5. \A i \in 1 .. p : \E j \in 1 .. Len(printed') : printed'[j] = accepted'[i]
  BY <1>1, <1>2, Zenon
<1>6. \A j \in 1 .. Len(printed') : \E i \in 1 .. Len(accepted') :
        i <= p + 1 /\ printed'[j] = accepted'[i]
  BY <1>1, <1>2, Zenon
<1> QED
  BY <1>3, <1>4, <1>5, <1>6, Zenon DEF Messages

\* The stamps of the messages are numbers.
LEMMA StampsAre ==
  ASSUME InOrder
  PROVE  /\ \A i \in 1 .. Len(accepted) : accepted[i][2] \in Nat /\ accepted[i][2] <= sends
         /\ \A i \in 1 .. Len(printed) : printed[i][2] \in Nat
<1>1. \A m \in Pair : m[2] \in Nat
  BY Sizes DEF Pair
<1>2. accepted \in Seq(Pair) /\ printed \in Seq(Pair)
  BY DEF InOrder
<1>3. /\ \A i \in 1 .. Len(accepted) : accepted[i] \in Pair
      /\ \A i \in 1 .. Len(printed) : printed[i] \in Pair
  BY <1>2, ElementOfSeq
<1> QED
  BY <1>1, <1>3 DEF InOrder

LEMMA OrderStays ==
  ASSUME InOrder, UNCHANGED <<accepted, printed>>, sends \in Nat, sends' \in Nat, sends <= sends'
  PROVE  InOrder'
<1>1. \A i \in 1 .. Len(accepted) : accepted[i][2] \in Nat /\ accepted[i][2] <= sends
  BY StampsAre
<1>2. \A i \in 1 .. Len(accepted) : accepted[i][2] <= sends'
  BY <1>1
<1> QED
  BY <1>2 DEF InOrder

\* A pair enters the queue.
LEMMA MessagesSend ==
  ASSUME IInv, Messages, InOrder, number \in Number, sends \in 1 .. MaxSends,
         Pending = Encode(number, NumberSize) \o Encode(sends, StampSize),
         Queue' = Queue \o Pending, accepted' = Append(accepted, Message),
         UNCHANGED <<printed, sends>>
  PROVE  Messages' /\ InOrder'
<1>1. PICK p \in 0 .. Len(accepted) :
        /\ Row(Queue, accepted, p)
        /\ \A i \in 1 .. p : \E j \in 1 .. Len(printed) : printed[j] = accepted[i]
        /\ \A j \in 1 .. Len(printed) : \E i \in 1 .. Len(accepted) :
             i <= p + 1 /\ printed[j] = accepted[i]
  BY DEF Messages
<1>2. /\ Pending \in Seq(Byte)  /\ Len(Pending) = MessageSize
      /\ \A k \in 1 .. NumberSize : Pending[k] = number
      /\ \A k \in 1 .. StampSize : Pending[NumberSize + k] = sends
  <2> DEFINE a == Encode(number, NumberSize)
             b == Encode(sends, StampSize)
  <2>1. /\ a \in Seq(Byte)  /\ Len(a) = NumberSize  /\ \A k \in 1 .. NumberSize : a[k] = number
    BY EncodeIs, Sizes
  <2>2. /\ b \in Seq(Byte)  /\ Len(b) = StampSize  /\ \A k \in 1 .. StampSize : b[k] = sends
    BY EncodeIs, Sizes
  <2>3. Pending = a \o b
    OBVIOUS
  <2> HIDE DEF a, b
  <2>4. /\ a \o b \in Seq(Byte)  /\ Len(a \o b) = Len(a) + Len(b)
        /\ \A i \in 1 .. Len(a) : (a \o b)[i] = a[i]
        /\ \A i \in 1 .. Len(b) : (a \o b)[Len(a) + i] = b[i]
    BY <2>1, <2>2, Joined
  <2> QED
    BY <2>1, <2>2, <2>3, <2>4, Sizes
<1>3. PICK q \in Seq(Byte), s \in Seq(Pair) : q = Queue /\ s = accepted
  BY GotIs DEF InOrder
<1>4. PICK r \in Seq(Byte) :
        /\ r = Queue'  /\ Len(r) = Len(q) + MessageSize
        /\ \A i \in 1 .. Len(q) : r[i] = q[i]
        /\ \A k \in 1 .. MessageSize : r[Len(q) + k] = Pending[k]
  <2> DEFINE row == q \o Pending
  <2>1. /\ row \in Seq(Byte)  /\ Len(row) = Len(q) + MessageSize
        /\ \A i \in 1 .. Len(q) : row[i] = q[i]
        /\ \A k \in 1 .. MessageSize : row[Len(q) + k] = Pending[k]
    BY <1>2, Joined
  <2>2. row = Queue'
    BY <1>3
  <2> HIDE DEF row
  <2> QED
    BY <2>1, <2>2
<1>5. PICK m \in Pair : m = Message /\ m[1] = number /\ m[2] = sends
  <2>1. Message \in Pair /\ Message[1] = number /\ Message[2] = sends
    BY DEF Message, Pair
  <2> QED
    BY <2>1
<1>6. MessageAt(r, Len(q), m)
  <2>1. Len(q) \in Nat
    BY LenProperties
  <2>2. m[1] = number /\ m[2] = sends
    BY <1>5
  <2>3. \A k \in 1 .. NumberSize : r[Len(q) + k] = m[1]
    <3> TAKE k \in 1 .. NumberSize
    <3>1. k \in 1 .. MessageSize
      BY Sizes
    <3>2. r[Len(q) + k] = Pending[k]
      BY <1>4, <3>1
    <3>3. Pending[k] = number
      BY <1>2
    <3> QED
      BY <2>2, <3>2, <3>3, Zenon
  <2>4. \A k \in 1 .. StampSize : r[Len(q) + NumberSize + k] = m[2]
    <3> TAKE k \in 1 .. StampSize
    <3>1. NumberSize + k \in 1 .. MessageSize /\ Len(q) + (NumberSize + k) = Len(q) + NumberSize + k
      BY <2>1, Sizes
    <3>2. r[Len(q) + (NumberSize + k)] = Pending[NumberSize + k]
      BY <1>4, <3>1
    <3>3. Pending[NumberSize + k] = sends
      BY <1>2
    <3> QED
      BY <2>2, <3>1, <3>2, <3>3
  <2> QED
    BY <2>3, <2>4 DEF MessageAt
<1>7. Row(r, Append(s, m), p)
  BY <1>1, <1>3, <1>4, <1>6, RowAppend
<1>8. /\ Len(accepted) \in Nat  /\ Len(accepted') = Len(accepted) + 1
      /\ accepted' \in Seq(Pair)  /\ accepted'[Len(accepted) + 1] = m
      /\ \A i \in 1 .. Len(accepted) : accepted'[i] = accepted[i]
  BY <1>3, <1>5, LenProperties, AppendProperties
<1>9. Messages'
  <2>1. Row(Queue', accepted', p) /\ p \in 0 .. Len(accepted')
    BY <1>3, <1>4, <1>5, <1>7, <1>8
  <2>2. \A i \in 1 .. p : \E j \in 1 .. Len(printed') : printed'[j] = accepted'[i]
    BY <1>1, <1>8
  <2>3. \A j \in 1 .. Len(printed') : \E i \in 1 .. Len(accepted') :
          i <= p + 1 /\ printed'[j] = accepted'[i]
    <3> TAKE j \in 1 .. Len(printed')
    <3>1. PICK i \in 1 .. Len(accepted) : i <= p + 1 /\ printed[j] = accepted[i]
      BY <1>1
    <3>2. i \in 1 .. Len(accepted') /\ accepted'[i] = accepted[i]
      BY <1>8
    <3> QED
      BY <3>1, <3>2
  <2> QED
    BY <2>1, <2>2, <2>3 DEF Messages
<1>10. InOrder'
  <2>1. \A i \in 1 .. Len(accepted) : accepted[i][2] \in Nat /\ accepted[i][2] <= sends
    BY StampsAre
  <2>2. \A i \in 1 .. Len(accepted') : accepted'[i][2] <= sends
    <3> TAKE i \in 1 .. Len(accepted')
    <3>1. m[2] <= sends
      BY <1>5, Sizes
    <3>2. CASE i = Len(accepted) + 1
      BY <1>8, <3>1, <3>2
    <3>3. CASE i # Len(accepted) + 1
      <4>1. i \in 1 .. Len(accepted)
        BY <1>8, <3>3
      <4> QED
        BY <1>8, <2>1, <4>1
    <3> QED
      BY <3>2, <3>3
  <2>3. ASSUME NEW i \in 1 .. Len(accepted'), NEW j \in 1 .. Len(accepted'), i <= j
        PROVE  accepted'[i][2] <= accepted'[j][2]
    <3>1. CASE j = Len(accepted) + 1
      BY <1>5, <1>8, <2>2, <3>1
    <3>2. CASE j # Len(accepted) + 1
      BY <1>8, <2>3, <3>2 DEF InOrder
    <3> QED
      BY <3>1, <3>2
  <2> QED
    BY <1>8, <2>2, <2>3 DEF InOrder
<1> QED
  BY <1>9, <1>10

\* What a receiver with a number and a stamp in its hands holds is the first
\* message of the row.
LEMMA PairIsFirst ==
  ASSUME IInv, InOrder, NEW p, Row(Queue, accepted, p), Len(got) = MessageSize
  PROVE  /\ p \in Nat  /\ p + 1 \in 1 .. Len(accepted)  /\ Len(Queue) >= MessageSize
         /\ accepted[p + 1] \in Pair
         /\ <<got[1], got[NumberSize + 1]>> = accepted[p + 1]
<1>1. PICK q \in Seq(Byte), s \in Seq(Pair) : q = Queue /\ s = accepted
  BY GotIs DEF InOrder
<1>2. Len(q) >= MessageSize
  BY <1>1, GotIs, Sizes
<1>3. p \in Nat /\ p + 1 \in 1 .. Len(s) /\ MessageAt(q, 0, s[p + 1])
  BY <1>1, <1>2, RowBegins
<1>4. s[p + 1] \in Pair
  BY <1>3, ElementOfSeq
<1>5. got[1] = q[1] /\ got[NumberSize + 1] = q[NumberSize + 1]
  <2>1. 1 \in 1 .. Len(got) /\ NumberSize + 1 \in 1 .. Len(got)
    BY Sizes
  <2> QED
    BY <1>1, <2>1, GotIs
<1>6. q[1] = s[p + 1][1] /\ q[NumberSize + 1] = s[p + 1][2]
  <2>1. /\ 0 + 1 = 1  /\ 1 \in 1 .. NumberSize  /\ 1 \in 1 .. StampSize
        /\ 0 + NumberSize + 1 = NumberSize + 1
    BY Sizes
  <2>2. q[0 + 1] = s[p + 1][1] /\ q[0 + NumberSize + 1] = s[p + 1][2]
    BY <1>3, <2>1 DEF MessageAt
  <2> QED
    BY <2>1, <2>2
<1>7. \A m \in Pair : <<m[1], m[2]>> = m
  BY DEF Pair
<1> QED
  BY <1>1, <1>2, <1>3, <1>4, <1>5, <1>6, <1>7

\* The pair is printed: again, when the receiver before this one died between
\* printing and committing.
LEMMA MessagesPrint ==
  ASSUME IInv, Messages, InOrder, Len(got) = MessageSize,
         printed' = Append(printed, <<got[1], got[NumberSize + 1]>>),
         UNCHANGED <<Queue, accepted, sends>>
  PROVE  /\ Messages' /\ InOrder'
         /\ \E j \in 1 .. Len(printed') : printed'[j] = <<got[1], got[NumberSize + 1]>>
<1>1. PICK p \in 0 .. Len(accepted) :
        /\ Row(Queue, accepted, p)
        /\ \A i \in 1 .. p : \E j \in 1 .. Len(printed) : printed[j] = accepted[i]
        /\ \A j \in 1 .. Len(printed) : \E i \in 1 .. Len(accepted) :
             i <= p + 1 /\ printed[j] = accepted[i]
  BY DEF Messages
<1>2. PICK m \in Pair : m = accepted[p + 1] /\ m = <<got[1], got[NumberSize + 1]>>
  BY <1>1, PairIsFirst
<1>3. p \in Nat /\ p + 1 \in 1 .. Len(accepted)
  BY <1>1, PairIsFirst
<1>4. /\ Len(printed) \in Nat  /\ Len(printed') = Len(printed) + 1
      /\ printed' \in Seq(Pair)  /\ printed'[Len(printed) + 1] = m
      /\ \A i \in 1 .. Len(printed) : printed'[i] = printed[i]
  <2> DEFINE t == Append(printed, m)
  <2>1. printed \in Seq(Pair)
    BY DEF InOrder
  <2>2. /\ Len(printed) \in Nat  /\ Len(t) = Len(printed) + 1
        /\ t \in Seq(Pair)  /\ t[Len(printed) + 1] = m
        /\ \A i \in 1 .. Len(printed) : t[i] = printed[i]
    BY <2>1, LenProperties, AppendProperties
  <2>3. printed' = t
    BY <1>2
  <2> HIDE DEF t
  <2> QED
    BY <2>2, <2>3
<1>5. \A j \in 1 .. Len(printed') : j \in 1 .. Len(printed) \/ j = Len(printed) + 1
  BY <1>4
<1>6. Messages'
  <2>1. Row(Queue', accepted', p)
    BY <1>1
  <2>2. \A i \in 1 .. p : \E j \in 1 .. Len(printed') : printed'[j] = accepted'[i]
    <3> TAKE i \in 1 .. p
    <3>1. PICK j \in 1 .. Len(printed) : printed[j] = accepted[i]
      BY <1>1
    <3>2. j \in 1 .. Len(printed') /\ printed'[j] = printed[j]
      BY <1>4
    <3> QED
      BY <3>1, <3>2
  <2>3. \A j \in 1 .. Len(printed') : \E i \in 1 .. Len(accepted') :
          i <= p + 1 /\ printed'[j] = accepted'[i]
    <3> TAKE j \in 1 .. Len(printed')
    <3>1. CASE j \in 1 .. Len(printed)
      BY <1>1, <1>4, <3>1
    <3>2. CASE j = Len(printed) + 1
      <4>1. p + 1 \in 1 .. Len(accepted') /\ p + 1 <= p + 1 /\ printed'[j] = accepted'[p + 1]
        BY <1>2, <1>3, <1>4, <3>2
      <4> QED
        BY <4>1
    <3> QED
      BY <1>5, <3>1, <3>2
  <2> QED
    BY <1>1, <2>1, <2>2, <2>3 DEF Messages
<1>7. InOrder'
  <2>1. \A i \in 1 .. Len(printed) : printed[i][2] <= m[2]
    <3> TAKE i \in 1 .. Len(printed)
    <3>1. PICK k \in 1 .. Len(accepted) : k <= p + 1 /\ printed[i] = accepted[k]
      BY <1>1
    <3>2. accepted[k][2] <= accepted[p + 1][2]
      BY <1>3, <3>1 DEF InOrder
    <3> QED
      BY <1>2, <3>1, <3>2
  <2>2. m[2] \in Nat
    BY Sizes DEF Pair
  <2>3. ASSUME NEW i \in 1 .. Len(printed'), NEW j \in 1 .. Len(printed'), i <= j
        PROVE  printed'[i][2] <= printed'[j][2]
    <3>1. CASE j = Len(printed) + 1
      <4>1. printed'[j] = m
        BY <1>4, <3>1
      <4>2. CASE i = Len(printed) + 1
        BY <1>4, <2>2, <4>1, <4>2
      <4>3. CASE i \in 1 .. Len(printed)
        BY <1>4, <2>1, <4>1, <4>3
      <4> QED
        BY <1>5, <4>2, <4>3
    <3>2. CASE j \in 1 .. Len(printed)
      <4>1. i \in 1 .. Len(printed)
        BY <1>4, <2>3, <3>2
      <4> QED
        BY <1>4, <2>3, <3>2, <4>1 DEF InOrder
    <3> QED
      BY <1>5, <3>1, <3>2
  <2> QED
    BY <1>4, <2>3 DEF InOrder
<1>8. \E j \in 1 .. Len(printed') : printed'[j] = <<got[1], got[NumberSize + 1]>>
  <2>1. Len(printed) + 1 \in 1 .. Len(printed') /\ printed'[Len(printed) + 1] = m
    BY <1>4
  <2> QED
    BY <1>2, <2>1
<1> QED
  BY <1>6, <1>7, <1>8

\* The pair leaves the queue, once it was printed.
LEMMA MessagesReceive ==
  ASSUME IInv, Messages, InOrder, ReadEnd, ~rInvalidated, Len(got) = MessageSize,
         \E j \in 1 .. Len(printed) : printed[j] = <<got[1], got[NumberSize + 1]>>,
         UNCHANGED <<accepted, printed>>
  PROVE  Messages'
<1>1. PICK p \in 0 .. Len(accepted) :
        /\ Row(Queue, accepted, p)
        /\ \A i \in 1 .. p : \E j \in 1 .. Len(printed) : printed[j] = accepted[i]
        /\ \A j \in 1 .. Len(printed) : \E i \in 1 .. Len(accepted) :
             i <= p + 1 /\ printed[j] = accepted[i]
  BY DEF Messages
<1>2. /\ p \in Nat  /\ p + 1 \in 1 .. Len(accepted)  /\ Len(Queue) >= MessageSize
      /\ <<got[1], got[NumberSize + 1]>> = accepted[p + 1]
  BY <1>1, PairIsFirst
<1>3. PICK q \in Seq(Byte), s \in Seq(Pair) : q = Queue /\ s = accepted
  BY GotIs DEF InOrder
<1>4. PICK r \in Seq(Byte) :
        /\ r = Queue'  /\ Len(r) = Len(q) - MessageSize
        /\ \A i \in 1 .. Len(r) : r[i] = q[MessageSize + i]
  <2> DEFINE rest == SubSeq(q, MessageSize + 1, Len(q))
  <2>1. MessageSize \in Nat /\ Len(q) \in Nat /\ MessageSize <= Len(q) /\ Len(q) <= Len(q)
    BY <1>2, <1>3, LenProperties, Sizes
  <2>2. /\ rest \in Seq(Byte)  /\ Len(rest) = Len(q) - MessageSize
        /\ \A i \in 1 .. Len(q) - MessageSize : rest[i] = q[MessageSize + i]
    BY <2>1, Piece
  <2>3. rest = Queue'
    BY <1>3, ReadEndGives
  <2> HIDE DEF rest
  <2> QED
    BY <2>2, <2>3
<1>5. Row(r, s, p + 1)
  BY <1>1, <1>2, <1>3, <1>4, RowDrop
<1>6. Row(Queue', accepted', p + 1) /\ p + 1 \in 0 .. Len(accepted')
  BY <1>2, <1>3, <1>4, <1>5
<1>7. \A i \in 1 .. p + 1 : \E j \in 1 .. Len(printed') : printed'[j] = accepted'[i]
  <2> TAKE i \in 1 .. p + 1
  <2>1. CASE i = p + 1
    BY <1>2, <2>1
  <2>2. CASE i # p + 1
    <3>1. i \in 1 .. p
      BY <1>2, <2>2
    <3> QED
      BY <1>1, <3>1
  <2> QED
    BY <2>1, <2>2
<1>8. \A j \in 1 .. Len(printed') : \E i \in 1 .. Len(accepted') :
        i <= p + 1 + 1 /\ printed'[j] = accepted'[i]
  <2> TAKE j \in 1 .. Len(printed')
  <2>1. PICK i \in 1 .. Len(accepted) : i <= p + 1 /\ printed[j] = accepted[i]
    BY <1>1
  <2>2. i <= p + 1 + 1
    BY <1>2, <2>1
  <2> QED
    BY <2>1, <2>2
<1> QED
  BY <1>6, <1>7, <1>8 DEF Messages

--------------------------------------------------------------------------------
\* The transmitter, action by action

LEMMA SenderStays ==
  ASSUME SenderInv, UNCHANGED <<Pending, wtx, transmitter>>
  PROVE  SenderInv'
<1>1. UNCHANGED <<iPc, number, sends, wPc, wInvalidated, wBuf>>
  BY DEF wtx, transmitter
<1>2. /\ Encode(number, NumberSize)' = Encode(number, NumberSize)
      /\ Encode(sends, StampSize)' = Encode(sends, StampSize)
  BY <1>1 DEF Encode
<1> QED
  BY <1>1, <1>2 DEF SenderInv, Writing

LEMMA ReceiverStays ==
  ASSUME ReceiverInv, UNCHANGED <<rtx, receiver>>
  PROVE  ReceiverInv'
BY DEF ReceiverInv, rtx, receiver

\* A key was pressed, and a transaction opens.
LEMMA KeyReleaseKeeps ==
  ASSUME SessionInv, KeyRelease
  PROVE  SenderInv' /\ ReceiverInv' /\ InOrder' /\ Messages'
<1> USE DEF SessionInv
<1>1. /\ UNCHANGED <<Queue, Seen, rtx>>
      /\ wPc' = "open" /\ ~wInvalidated' /\ Pending' = <<>>
  BY WriteBeginGives DEF KeyRelease
<1>2. /\ iPc' = "number"  /\ number' \in Number  /\ sends' = sends + 1
      /\ sends \in Nat  /\ sends < MaxSends
      /\ UNCHANGED <<accepted, receiver>>
  BY Sizes DEF KeyRelease, SenderInv
<1>3. SenderInv'
  <2>1. sends' \in 0 .. MaxSends /\ sends' # 0
    BY <1>2, Sizes
  <2> QED
    BY <1>1, <1>2, <2>1 DEF SenderInv
<1>4. InOrder' /\ Messages'
  BY <1>1, <1>2, MessagesStay, OrderStays DEF receiver
<1> QED
  BY <1>1, <1>2, <1>3, <1>4, ReceiverStays

\* The write of the number begins.
LEMMA SendNumberKeeps ==
  ASSUME SessionInv, IInv', SendNumber
  PROVE  SenderInv' /\ ReceiverInv' /\ InOrder' /\ Messages'
<1> USE DEF SessionInv
<1>1. Write(Encode(number, NumberSize)) /\ Encode(number, NumberSize) \in Buffers
  BY EncodeIs, Sizes DEF SendNumber, SenderInv
<1>2. UNCHANGED <<Queue, Pending, Seen, rtx>>
  BY <1>1, WriteKeepsBytes
<1>3. wPc' \in {"sync", "copy"} /\ wBuf' = Encode(number, NumberSize)
  BY <1>1 DEF Write
<1>4. /\ iPc = "number"  /\ iPc' = "stamp"
      /\ UNCHANGED <<number, sends, accepted, receiver>>
  BY DEF SendNumber
<1>5. Pending' = <<>>
  BY <1>2, <1>4 DEF SenderInv
<1>6. SenderInv'
  <2>1. Encode(number, NumberSize)' = Encode(number, NumberSize)
    BY <1>4 DEF Encode
  <2>2. Writing(<<>>, Encode(number, NumberSize))'
    BY <1>3, <1>5, <2>1 DEF Writing
  <2> QED
    BY <1>4, <2>2 DEF SenderInv
<1>7. InOrder' /\ Messages'
  BY <1>2, <1>4, MessagesStay, OrderStays DEF SenderInv, receiver
<1> QED
  BY <1>2, <1>4, <1>6, <1>7, ReceiverStays

\* The write of the stamp begins, when that of the number was served.
LEMMA SendStampKeeps ==
  ASSUME SessionInv, IInv', SendStamp
  PROVE  SenderInv' /\ ReceiverInv' /\ InOrder' /\ Messages'
<1> USE DEF SessionInv
<1>1. /\ iPc = "stamp"  /\ iPc' = "end"  /\ wPc = "open"
      /\ UNCHANGED <<number, sends, accepted, receiver>>
  BY DEF SendStamp
<1>2. sends \in 1 .. MaxSends /\ number \in Number
  BY <1>1, Sizes DEF SenderInv
<1>3. /\ Encode(number, NumberSize)' = Encode(number, NumberSize)
      /\ Encode(sends, StampSize)' = Encode(sends, StampSize)
  BY <1>1 DEF Encode
<1>4. CASE wInvalidated
  <2>1. UNCHANGED vars
    BY <1>4 DEF SendStamp
  <2>2. UNCHANGED <<Queue, Pending, wtx, rtx>>
    BY <2>1, MemoryKeepsBytes
  <2>3. wPc' = "open" /\ wInvalidated'
    BY <1>1, <1>4, <2>2 DEF wtx
  <2>4. SenderInv'
    BY <1>1, <2>3 DEF SenderInv, Writing
  <2>5. InOrder' /\ Messages'
    BY <1>1, <2>2, MessagesStay, OrderStays DEF SenderInv, receiver
  <2> QED
    BY <1>1, <2>2, <2>4, <2>5, ReceiverStays
<1>5. CASE ~wInvalidated
  <2>1. Write(Encode(sends, StampSize)) /\ Encode(sends, StampSize) \in Buffers
    BY <1>2, <1>5, EncodeIs, Sizes DEF SendStamp
  <2>2. UNCHANGED <<Queue, Pending, Seen, rtx>>
    BY <2>1, WriteKeepsBytes
  <2>3. wPc' \in {"sync", "copy"} /\ wBuf' = Encode(sends, StampSize)
    BY <2>1 DEF Write
  <2>4. Pending = Encode(number, NumberSize)
    <3>1. Pending = <<>> \o Encode(number, NumberSize)
      BY <1>1, <1>5 DEF SenderInv, Writing
    <3>2. Encode(number, NumberSize) \in Seq(Byte)
      BY <1>2, EncodeIs, Sizes
    <3> QED
      BY <3>1, <3>2, ConcatEmptySeq
  <2>5. Writing(Encode(number, NumberSize), Encode(sends, StampSize))'
    BY <1>3, <2>2, <2>3, <2>4 DEF Writing
  <2>6. SenderInv'
    BY <1>1, <2>5 DEF SenderInv
  <2>7. InOrder' /\ Messages'
    BY <1>1, <2>2, MessagesStay, OrderStays DEF SenderInv, receiver
  <2> QED
    BY <1>1, <2>2, <2>6, <2>7, ReceiverStays
<1> QED
  BY <1>4, <1>5

\* The transaction ends: the pair enters the queue, or nothing does.
LEMMA SendEndKeeps ==
  ASSUME SessionInv, SendEnd
  PROVE  SenderInv' /\ ReceiverInv' /\ InOrder' /\ Messages'
<1> USE DEF SessionInv
<1>1. /\ UNCHANGED rtx  /\ wPc' = "none"  /\ wPc = "open"
      /\ wInvalidated => Queue' = Queue
      /\ ~wInvalidated => Queue' = Queue \o Pending
  BY WriteEndGives DEF SendEnd, WriteEnd
<1>2. /\ iPc = "end"  /\ iPc' = "key"
      /\ UNCHANGED <<number, sends, receiver>>
      /\ accepted' = IF wInvalidated THEN accepted ELSE Append(accepted, Message)
  BY DEF SendEnd
<1>3. sends \in 1 .. MaxSends /\ number \in Number
  BY <1>2, Sizes DEF SenderInv
<1>4. SenderInv' /\ ReceiverInv'
  BY <1>1, <1>2, ReceiverStays DEF SenderInv
<1>5. CASE wInvalidated
  BY <1>1, <1>2, <1>3, <1>4, <1>5, MessagesStay, OrderStays DEF receiver
<1>6. CASE ~wInvalidated
  <2>1. Pending = Encode(number, NumberSize) \o Encode(sends, StampSize)
    BY <1>1, <1>2, <1>6 DEF SenderInv, Writing
  <2>2. InOrder' /\ Messages'
    BY <1>1, <1>2, <1>3, <1>6, <2>1, MessagesSend DEF receiver
  <2> QED
    BY <1>4, <2>2
<1> QED
  BY <1>5, <1>6

\* Inside a call of write: what it is asked to write stays the same.
LEMMA WriteStepKeeps ==
  ASSUME SessionInv, IInv', WriteStep, UNCHANGED <<transmitter, receiver, lifetime>>
  PROVE  SenderInv' /\ ReceiverInv' /\ InOrder' /\ Messages'
<1> USE DEF SessionInv
<1>1. /\ UNCHANGED <<Queue, Seen, rtx>>  /\ wPc \notin {"none", "open"}
      /\ wPc' # "none"
      /\ wPc' = "open" => wInvalidated' \/ Pending' = Pending \o wBuf
      /\ wPc' # "open" => Pending' = Pending /\ wBuf' = wBuf
  BY WritingStays
<1>2. UNCHANGED <<iPc, number, sends, accepted, printed>> /\ iPc \in {"stamp", "end"}
  BY <1>1 DEF transmitter, receiver, SenderInv
<1>3. /\ Encode(number, NumberSize)' = Encode(number, NumberSize)
      /\ Encode(sends, StampSize)' = Encode(sends, StampSize)
  BY <1>2 DEF Encode
<1>4. (iPc = "stamp" => Writing(<<>>, Encode(number, NumberSize)))'
  BY <1>1, <1>2, <1>3 DEF SenderInv, Writing
<1>5. (iPc = "end" => Writing(Encode(number, NumberSize), Encode(sends, StampSize)))'
  BY <1>1, <1>2, <1>3 DEF SenderInv, Writing
<1>6. SenderInv'
  BY <1>2, <1>4, <1>5 DEF SenderInv
<1>7. InOrder' /\ Messages'
  BY <1>1, <1>2, MessagesStay, OrderStays DEF SenderInv
<1> QED
  BY <1>1, <1>6, <1>7, ReceiverStays

\* A dead transmitter is launched again, on the section that the receiver held.
LEMMA TransmitterLaunchKeeps ==
  ASSUME SessionInv, TransmitterLaunch
  PROVE  SenderInv' /\ ReceiverInv' /\ InOrder' /\ Messages'
<1> USE DEF SessionInv
<1>1. UNCHANGED <<Queue, Seen, rtx>> /\ wPc' = "none"
  BY ProducerRelaunchGives DEF TransmitterLaunch
<1>2. iPc' = "key" /\ UNCHANGED <<number, sends, accepted, receiver>>
  BY DEF TransmitterLaunch
<1>3. SenderInv'
  BY <1>1, <1>2 DEF SenderInv
<1>4. InOrder' /\ Messages'
  BY <1>1, <1>2, MessagesStay, OrderStays DEF SenderInv, receiver
<1> QED
  BY <1>1, <1>2, <1>3, <1>4, ReceiverStays

--------------------------------------------------------------------------------
\* The receiver, action by action

\* A read transaction opens.
LEMMA ReceiveBeginKeeps ==
  ASSUME SessionInv, ReceiveBegin
  PROVE  SenderInv' /\ ReceiverInv' /\ InOrder' /\ Messages'
<1> USE DEF SessionInv
<1>1. /\ ReadBegin  /\ jPc = "loop"  /\ jPc' = "number"
      /\ UNCHANGED <<printed, transmitter>>
  BY DEF ReceiveBegin
<1>2. UNCHANGED <<Queue, Pending, got, wtx>>
  BY <1>1, ReadKeepsBytes
<1>3. rPc = "none" /\ rPc' = "open" /\ ~rInvalidated' /\ got' = <<>>
  BY <1>1, <1>2 DEF ReadBegin, CallsAreValid, IInv, NothingGotOutside
<1>4. ReceiverInv'
  BY <1>1, <1>3 DEF ReceiverInv
<1>5. InOrder' /\ Messages'
  BY <1>1, <1>2, MessagesStay, OrderStays DEF SenderInv, transmitter
<1> QED
  BY <1>1, <1>2, <1>4, <1>5, SenderStays

\* The read of the number begins.
LEMMA ReceiveNumberKeeps ==
  ASSUME SessionInv, ReceiveNumber
  PROVE  SenderInv' /\ ReceiverInv' /\ InOrder' /\ Messages'
<1> USE DEF SessionInv
<1>1. /\ Read(NumberSize)  /\ jPc = "number"  /\ jPc' = "stamp"
      /\ UNCHANGED <<printed, transmitter>>
  BY DEF ReceiveNumber
<1>2. NumberSize \in 0 .. MaxSize
  BY Sizes
<1>3. UNCHANGED <<Queue, Pending, got, wtx>>
  BY <1>1, <1>2, ReadKeepsBytes
<1>4. rPc' \in {"sync", "copy"} /\ rSize' = NumberSize /\ got' = <<>>
  BY <1>1, <1>3 DEF Read, ReceiverInv
<1>5. ReceiverInv'
  BY <1>1, <1>4 DEF ReceiverInv
<1>6. InOrder' /\ Messages'
  BY <1>1, <1>3, MessagesStay, OrderStays DEF SenderInv, transmitter
<1> QED
  BY <1>1, <1>3, <1>5, <1>6, SenderStays

\* The read of the stamp begins, when that of the number was served.
LEMMA ReceiveStampKeeps ==
  ASSUME SessionInv, ReceiveStamp
  PROVE  SenderInv' /\ ReceiverInv' /\ InOrder' /\ Messages'
<1> USE DEF SessionInv
<1>1. /\ jPc = "stamp"  /\ jPc' = "print"  /\ rPc = "open"
      /\ UNCHANGED <<printed, transmitter>>
  BY DEF ReceiveStamp
<1>2. CASE rInvalidated
  <2>1. UNCHANGED vars
    BY <1>2 DEF ReceiveStamp
  <2>2. UNCHANGED <<Queue, Pending, wtx, rtx>>
    BY <2>1, MemoryKeepsBytes
  <2>3. rPc' = "open" /\ rInvalidated'
    BY <1>1, <1>2, <2>2 DEF rtx
  <2>4. ReceiverInv'
    BY <1>1, <2>3 DEF ReceiverInv
  <2>5. InOrder' /\ Messages'
    BY <1>1, <2>2, MessagesStay, OrderStays DEF SenderInv, transmitter
  <2> QED
    BY <1>1, <2>2, <2>4, <2>5, SenderStays
<1>3. CASE ~rInvalidated
  <2>1. Read(StampSize) /\ StampSize \in 0 .. MaxSize
    BY <1>3, Sizes DEF ReceiveStamp
  <2>2. UNCHANGED <<Queue, Pending, got, wtx>>
    BY <2>1, ReadKeepsBytes
  <2>3. rPc' \in {"sync", "copy"} /\ rSize' = StampSize /\ Len(got') = NumberSize
    BY <1>1, <1>3, <2>1, <2>2 DEF Read, ReceiverInv
  <2>4. ReceiverInv'
    BY <1>1, <2>3 DEF ReceiverInv
  <2>5. InOrder' /\ Messages'
    BY <1>1, <2>2, MessagesStay, OrderStays DEF SenderInv, transmitter
  <2> QED
    BY <1>1, <2>2, <2>4, <2>5, SenderStays
<1> QED
  BY <1>2, <1>3

\* The pair is printed, while it is still in the queue.
LEMMA PrintPairKeeps ==
  ASSUME SessionInv, PrintPair
  PROVE  SenderInv' /\ ReceiverInv' /\ InOrder' /\ Messages'
<1> USE DEF SessionInv
<1>1. /\ jPc = "print"  /\ jPc' = "end"  /\ rPc = "open"
      /\ UNCHANGED <<vars, transmitter>>
      /\ printed' = IF rInvalidated THEN printed
                    ELSE Append(printed, <<got[1], got[NumberSize + 1]>>)
  BY DEF PrintPair
<1>2. UNCHANGED <<Queue, Pending, wtx, rtx>>
  BY <1>1, MemoryKeepsBytes
<1>3. UNCHANGED <<accepted, sends, rPc, rInvalidated, got>>
  BY <1>1, <1>2 DEF transmitter, rtx
<1>4. CASE rInvalidated
  <2>1. ReceiverInv'
    BY <1>1, <1>3, <1>4 DEF ReceiverInv
  <2>2. InOrder' /\ Messages'
    BY <1>1, <1>2, <1>3, <1>4, MessagesStay, OrderStays DEF SenderInv
  <2> QED
    BY <1>1, <1>2, <2>1, <2>2, SenderStays
<1>5. CASE ~rInvalidated
  <2>1. Len(got) = MessageSize
    BY <1>1, <1>5 DEF ReceiverInv
  <2>2. /\ Messages' /\ InOrder'
        /\ \E j \in 1 .. Len(printed') : printed'[j] = <<got[1], got[NumberSize + 1]>>
    BY <1>1, <1>2, <1>3, <1>5, <2>1, MessagesPrint
  <2>3. ReceiverInv'
    BY <1>1, <1>3, <2>1, <2>2 DEF ReceiverInv
  <2> QED
    BY <1>1, <1>2, <2>2, <2>3, SenderStays
<1> QED
  BY <1>4, <1>5

\* The transaction ends: the pair leaves the queue, or nothing does.
LEMMA ReceiveEndKeeps ==
  ASSUME SessionInv, ReceiveEnd
  PROVE  SenderInv' /\ ReceiverInv' /\ InOrder' /\ Messages'
<1> USE DEF SessionInv
<1>1. /\ ReadEnd  /\ jPc = "end"  /\ jPc' = "loop"
      /\ UNCHANGED <<printed, transmitter>>
  BY DEF ReceiveEnd
<1>2. /\ UNCHANGED <<Pending, wtx>>  /\ rPc' = "none"  /\ got' = <<>>
      /\ rInvalidated => Queue' = Queue
  BY <1>1, ReadEndGives
<1>3. UNCHANGED <<accepted, sends>>
  BY <1>1 DEF transmitter
<1>4. ReceiverInv'
  BY <1>1, <1>2 DEF ReceiverInv
<1>5. InOrder'
  BY <1>1, <1>3, OrderStays DEF SenderInv
<1>6. Messages'
  <2>1. CASE rInvalidated
    BY <1>1, <1>2, <1>3, <2>1, MessagesStay
  <2>2. CASE ~rInvalidated
    BY <1>1, <1>3, <2>2, MessagesReceive DEF ReceiverInv
  <2> QED
    BY <2>1, <2>2
<1> QED
  BY <1>1, <1>2, <1>4, <1>5, <1>6, SenderStays

\* Inside a call of read.
LEMMA ReadStepKeeps ==
  ASSUME SessionInv, IInv', ReadStep, UNCHANGED <<transmitter, receiver, lifetime>>
  PROVE  SenderInv' /\ ReceiverInv' /\ InOrder' /\ Messages'
<1> USE DEF SessionInv
<1>1. /\ UNCHANGED <<transmitter, accepted, sends, jPc, printed>>
      /\ jPc \in {"stamp", "print"}  /\ rPc \notin {"none", "open"}  /\ ~rInvalidated
  BY DEF ReadStep, ReadSync, ReadRefuse, CopyOut, ReadDone, transmitter, receiver, ReceiverInv,
         CallsAreValid
<1>2. UNCHANGED <<Queue, Pending, wtx>>
  BY ReadKeepsBytes, ReadDoneGives DEF ReadStep
<1>3. \/ rPc' = "open" /\ rInvalidated'
      \/ rPc' \notin {"none", "open"} /\ UNCHANGED <<got, rSize>>
      \/ rPc' = "open" /\ Len(got') = Len(got) + rSize
  <2>1. CASE ReadDone
    BY <2>1, ReadDoneGives
  <2>2. CASE ReadSync \/ CopyOut
    BY <1>1, <2>2 DEF ReadSync, CopyOut
  <2>3. CASE \E core \in Core : ReadRefuse(core)
    BY <2>3 DEF ReadRefuse
  <2> QED
    BY <2>1, <2>2, <2>3 DEF ReadStep
<1>4. ReceiverInv'
  <2>1. CASE jPc = "stamp"
    <3>1. got = <<>> /\ rSize = NumberSize /\ Len(got) + rSize = NumberSize
      <4>1. got = <<>> /\ rSize = NumberSize
        BY <1>1, <2>1 DEF ReceiverInv
      <4>2. Len(got) = 0
        BY <4>1, EmptySeq
      <4> QED
        BY <4>1, <4>2, Sizes
    <3> QED
      BY <1>1, <1>3, <2>1, <3>1 DEF ReceiverInv
  <2>2. CASE jPc = "print"
    <3>1. Len(got) = NumberSize /\ rSize = StampSize /\ Len(got) + rSize = MessageSize
      BY <1>1, <2>2, Sizes DEF ReceiverInv
    <3> QED
      BY <1>1, <1>3, <2>2, <3>1 DEF ReceiverInv
  <2> QED
    BY <1>1, <2>1, <2>2
<1>5. InOrder' /\ Messages'
  BY <1>1, <1>2, MessagesStay, OrderStays DEF SenderInv
<1> QED
  BY <1>1, <1>2, <1>4, <1>5, SenderStays

\* A dead receiver is launched again, on the section that the transmitter held:
\* what it had read and not committed is still in the queue.
LEMMA ReceiverLaunchKeeps ==
  ASSUME SessionInv, ReceiverLaunch
  PROVE  SenderInv' /\ ReceiverInv' /\ InOrder' /\ Messages'
<1> USE DEF SessionInv
<1>1. /\ UNCHANGED <<Queue, Pending, wtx>>  /\ rPc' = "none"
      /\ jPc' = "loop"  /\ UNCHANGED <<printed, transmitter>>
  BY ConsumerRelaunchGives DEF ReceiverLaunch
<1>2. ReceiverInv'
  BY <1>1 DEF ReceiverInv
<1>3. InOrder' /\ Messages'
  BY <1>1, MessagesStay, OrderStays DEF SenderInv, transmitter
<1> QED
  BY <1>1, <1>2, <1>3, SenderStays

--------------------------------------------------------------------------------
\* The invariant

\* The memory catches up, a process dies, or nothing happens.
LEMMA OthersKeep ==
  ASSUME SessionInv,
         HeadArrives \/ TailArrives \/ TransmitterDies \/ ReceiverDies \/ UNCHANGED allvars
  PROVE  SenderInv' /\ ReceiverInv' /\ InOrder' /\ Messages'
<1> USE DEF SessionInv
<1>1. /\ UNCHANGED <<Queue, Pending, wtx, rtx>>
      /\ UNCHANGED <<transmitter, receiver>>
  BY MemoryKeepsBytes DEF HeadArrives, TailArrives, TransmitterDies, ReceiverDies, allvars
<1>2. UNCHANGED <<accepted, printed, sends>>
  BY <1>1 DEF transmitter, receiver
<1>3. InOrder' /\ Messages'
  BY <1>1, <1>2, MessagesStay, OrderStays DEF SenderInv
<1> QED
  BY <1>1, <1>3, SenderStays, ReceiverStays

\* A section just created, with both jobs where they begin
Fresh ==
  /\ Init
  /\ iPc = "key"  /\ number \in Number  /\ sends \in 0 .. MaxSends
  /\ accepted = <<>>  /\ jPc = "loop"  /\ printed = <<>>

LEMMA FreshIsInvariant ==
  Fresh => SessionInv
<1> SUFFICES ASSUME Fresh PROVE SessionInv
  OBVIOUS
<1>1. Init /\ IInv /\ CallsAreValid
  BY InitIsInvariant DEF Fresh, Init, CallsAreValid
<1>2. Queue = <<>> /\ Len(Queue) = 0
  BY <1>1, InitMaps, EmptySeq DEF Fifo!Init
<1>3. /\ accepted = <<>>  /\ printed = <<>>  /\ Len(accepted) = 0  /\ Len(printed) = 0
      /\ accepted \in Seq(Pair)  /\ printed \in Seq(Pair)
  BY EmptySeq DEF Fresh
<1>4. SenderInv /\ ReceiverInv
  BY <1>1 DEF Fresh, Init, SenderInv, ReceiverInv
<1>5. InOrder
  BY <1>3 DEF InOrder
<1>6. Row(Queue, accepted, 0)
  <2>1. Place(0) = 0
    BY Places
  <2> QED
    BY <1>2, <1>3, <2>1 DEF Row
<1>7. Messages
  BY <1>3, <1>6 DEF Messages
<1> QED
  BY <1>1, <1>4, <1>5, <1>7 DEF SessionInv

LEMMA SessionBegins ==
  SessionInit => SessionInv
<1>1. SessionInit => Fresh
  BY Sizes DEF SessionInit, Fresh
<1> QED
  BY <1>1, FreshIsInvariant

LEMMA FreshNext ==
  Fresh' => SessionInv'
BY FreshIsInvariant, PTL

\* Both processes are dead, and a transmitter begins with a new section.
LEMMA TransmitterCreatesKeeps ==
  ASSUME SessionInv, TransmitterCreates
  PROVE  SessionInv'
<1>1. /\ iPc' = "key"  /\ number' \in Number  /\ sends' \in 0 .. MaxSends
      /\ accepted' = <<>>  /\ jPc' = "loop"  /\ printed' = <<>>
  BY DEF TransmitterCreates, SessionInv, SenderInv
<1>2. Fresh'
  BY <1>1, CreatesQueue DEF Fresh
<1> QED
  BY <1>2, FreshNext

LEMMA SessionStep ==
  SessionInv /\ [SessionNext]_allvars => SessionInv' /\ [Next \/ Init']_vars
<1> SUFFICES ASSUME SessionInv, [SessionNext]_allvars
             PROVE  SessionInv' /\ [Next \/ Init']_vars
  OBVIOUS
<1>1. CASE TransmitterCreates
  BY <1>1, CreatesQueue, TransmitterCreatesKeeps
<1>2. CASE ~TransmitterCreates
  <2>1. [Next]_vars
    BY <1>2, StepIsUse
  <2>2. IInv' /\ CallsAreValid'
    BY <2>1, StepKeepsInvariant, CallsValidStep DEF SessionInv
  <2>3. CASE Transmitter \/ TransmitterLaunch
    BY <2>1, <2>2, <2>3, KeyReleaseKeeps, SendNumberKeeps, SendStampKeeps, SendEndKeeps,
       WriteStepKeeps, TransmitterLaunchKeeps
    DEF SessionInv, Transmitter
  <2>4. CASE Receiver \/ ReceiverLaunch
    BY <2>1, <2>2, <2>4, ReceiveBeginKeeps, ReceiveNumberKeeps, ReceiveStampKeeps, PrintPairKeeps,
       ReceiveEndKeeps, ReadStepKeeps, ReceiverLaunchKeeps
    DEF SessionInv, Receiver
  <2>5. CASE HeadArrives \/ TailArrives \/ TransmitterDies \/ ReceiverDies \/ UNCHANGED allvars
    BY <2>1, <2>2, <2>5, OthersKeep DEF SessionInv
  <2> QED
    BY <1>2, <2>3, <2>4, <2>5 DEF SessionNext, Lifecycle
<1> QED
  BY <1>1, <1>2

\* The queue is a row of the pairs accepted in its section from some place on,
\* the pairs before it were printed, and both jobs are where the row says: after
\* a death of one process, which leaves the section to the other, and after the
\* deaths of both, which end it (shared-memory.inl), and the start of a new one.
THEOREM SessionInvariant ==
  SessionSpec => []SessionInv
BY SessionBegins, SessionStep, PTL DEF SessionSpec

\* The jobs use the queue as TxQueue assumes of its callers (utest_jobs.inl
\* calls nothing but the transactions of tx-queue.inl), and start with an empty
\* one when the section was lost: a behaviour of the session is, section by
\* section, one of TxQueue.
THEOREM SessionUsesQueue ==
  SessionSpec => Init /\ [][Next \/ Init']_vars
<1>1. SessionInit => Init
  BY DEF SessionInit
<1> QED
  BY <1>1, SessionBegins, SessionStep, PTL DEF SessionSpec

--------------------------------------------------------------------------------
\* What the invariant says of the jobs

\* The receiver reports ("Just received") only pairs that were committed, number
\* and stamp of the same one, in the order of the key presses, whoever died.
THEOREM PairsAlwaysIntact ==
  SessionSpec => []PairsIntact
<1>1. ASSUME SessionInv PROVE PairsIntact
  <2>1. /\ DOMAIN accepted = 1 .. Len(accepted)
        /\ DOMAIN printed = 1 .. Len(printed)
    BY <1>1, LenProperties DEF SessionInv, InOrder
  <2>2. \A i \in 1 .. Len(printed) : \E j \in 1 .. Len(accepted) : printed[i] = accepted[j]
    BY <1>1 DEF SessionInv, Messages
  <2>3. \A i, j \in 1 .. Len(printed) : i <= j => printed[i][2] <= printed[j][2]
    BY <1>1 DEF SessionInv, InOrder
  <2> QED
    BY <2>1, <2>2, <2>3 DEF PairsIntact
<1> QED
  BY <1>1, SessionInvariant, PTL

\* The receiver commits a read only after it reported the pair: none leaves the
\* queue unseen while its section lives, though either process may die between
\* any two steps.  Only the end of the section takes pairs that nobody saw.
THEOREM NoneEverSkipped ==
  SessionSpec => []NoneSkipped
<1>1. ASSUME SessionInv PROVE NoneSkipped
  <2>1. PICK p \in 0 .. Len(accepted) :
          /\ Row(Queue, accepted, p)
          /\ \A i \in 1 .. p : \E j \in 1 .. Len(printed) : printed[j] = accepted[i]
    BY <1>1 DEF SessionInv, Messages
  <2>2. /\ DOMAIN printed = 1 .. Len(printed)  /\ Len(accepted) \in Nat
    BY <1>1, LenProperties DEF SessionInv, InOrder
  <2>3. Len(accepted) - Len(Queue) \div MessageSize = p
    <3>1. Len(accepted) - p \in Nat /\ Len(Queue) = Place(Len(accepted) - p)
      BY <2>1, <2>2 DEF Row
    <3>2. Len(Queue) \div MessageSize = Len(accepted) - p
      BY <3>1, Places
    <3> QED
      BY <2>1, <2>2, <3>2
  <2> QED
    BY <2>1, <2>2, <2>3 DEF NoneSkipped
<1> QED
  BY <1>1, SessionInvariant, PTL

================================================================================
