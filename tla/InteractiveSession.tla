-------------------------- MODULE InteractiveSession ---------------------------
(***************************************************************************)
(* The interactive jobs of utest_jobs.inl on TxQueue: on a key press the   *)
(* transmitter sends a number and a time stamp in one transaction and      *)
(* reports it; the receiver spins and prints every pair it gets.  On a     *)
(* tx_queue_mp_t each runs in a process of its own (producer.cpp,          *)
(* consumer.cpp), which may die anywhere and be launched again later.      *)
(*                                                                         *)
(* The queue lives in a section of shared memory, and that lives as long   *)
(* as a process holds it (shared-memory.inl): one process may die and find *)
(* the queue again, but when both are dead the queue is lost with all that *)
(* is in it, and the next transmitter begins with a new one.  accepted,    *)
(* reported and printed are about the section that exists, or, when none   *)
(* does, about the last one.                                               *)
(***************************************************************************)
EXTENDS TxQueue

CONSTANTS Number,                  \* what get_random<uint16_t> returns
          NumberSize, StampSize,   \* sizeof(uint16_t), sizeof(int64_t)
          Blank,                   \* a byte of memory that was never written
          MaxSends,                \* bound: how often the key is pressed
          MaxDeaths                \* bound: how often a process dies

MessageSize == NumberSize + StampSize

ASSUME InteractiveAssumption ==
  /\ NumberSize \in 1 .. MaxSize /\ StampSize \in 1 .. MaxSize
  /\ MaxSends \in Nat /\ MaxDeaths \in Nat
  /\ Number \subseteq Byte /\ 1 .. MaxSends \subseteq Byte /\ Blank \in Byte
  /\ MessageSize < Capacity

VARIABLES
  iPc,          \* the transmitter: "key", "number", "stamp" or "end"
  number,       \* number
  sends,        \* key presses so far; the time stamp of a message is its press
  reported,     \* the messages reported as "Just sent"
  accepted,     \* the messages whose transaction was committed
  jPc,          \* the receiver: "loop", "number", "stamp", "print" or "end"
  printed,      \* the messages reported as "Just received"
  holders,      \* the processes that hold the section: those alive
  deaths        \* how often a process died

transmitter == <<iPc, number, sends, reported, accepted>>
receiver    == <<jPc, printed>>
lifetime    == <<holders, deaths>>
allvars     == <<vars, transmitter, receiver, lifetime>>

\* A value as the bytes a write copies
Encode(v, length) == [k \in 1 .. length |-> v]

Message == <<number, sends>>

--------------------------------------------------------------------------------
\* utest_job_interactive_transmitter::run

KeyRelease ==
  /\ iPc = "key"  /\ sends < MaxSends
  /\ WriteBegin
  /\ sends' = sends + 1
  /\ number' \in Number
  /\ iPc' = "number"
  /\ UNCHANGED <<reported, accepted, receiver, lifetime>>

SendNumber ==
  /\ iPc = "number"
  /\ Write(Encode(number, NumberSize))
  /\ iPc' = "stamp"
  /\ UNCHANGED <<number, sends, reported, accepted, receiver, lifetime>>

\* The variadic write goes on only when the first one was served.
SendStamp ==
  /\ iPc = "stamp"  /\ wPc = "open"
  /\ IF wInvalidated THEN UNCHANGED vars ELSE Write(Encode(sends, StampSize))
  /\ iPc' = "end"
  /\ UNCHANGED <<number, sends, reported, accepted, receiver, lifetime>>

\* The transaction ends; ok was set whatever write returned.
SendEnd ==
  /\ iPc = "end"
  /\ WriteEnd
  /\ reported' = Append(reported, Message)
  /\ accepted' = IF wInvalidated THEN accepted ELSE Append(accepted, Message)
  /\ iPc' = "key"
  /\ UNCHANGED <<number, sends, receiver, lifetime>>

Transmitter ==
  /\ "producer" \in holders
  /\ \/ KeyRelease \/ SendNumber \/ SendStamp \/ SendEnd
     \/ WriteStep /\ UNCHANGED <<transmitter, receiver, lifetime>>

--------------------------------------------------------------------------------
\* utest_job_interactive_receiver::run

ReceiveBegin ==
  /\ jPc = "loop"
  /\ ReadBegin
  /\ jPc' = "number"
  /\ UNCHANGED <<printed, transmitter, lifetime>>

ReceiveNumber ==
  /\ jPc = "number"
  /\ Read(NumberSize)
  /\ jPc' = "stamp"
  /\ UNCHANGED <<printed, transmitter, lifetime>>

\* The fold over && stops at the first read that is refused.
ReceiveStamp ==
  /\ jPc = "stamp"  /\ rPc = "open"
  /\ IF rInvalidated THEN UNCHANGED vars ELSE Read(StampSize)
  /\ jPc' = "print"
  /\ UNCHANGED <<printed, transmitter, lifetime>>

\* The pair is printed inside the transaction.
PrintPair ==
  /\ jPc = "print"  /\ rPc = "open"
  /\ printed' = IF rInvalidated THEN printed
                ELSE Append(printed, <<got[1], got[NumberSize + 1]>>)
  /\ jPc' = "end"
  /\ UNCHANGED <<vars, transmitter, lifetime>>

ReceiveEnd ==
  /\ jPc = "end"
  /\ ReadEnd
  /\ jPc' = "loop"
  /\ UNCHANGED <<printed, transmitter, lifetime>>

Receiver ==
  /\ "consumer" \in holders
  /\ \/ ReceiveBegin \/ ReceiveNumber \/ ReceiveStamp \/ PrintPair \/ ReceiveEnd
     \/ ReadStep /\ UNCHANGED <<transmitter, receiver, lifetime>>

--------------------------------------------------------------------------------
\* Deaths and launches

Dies(process) ==
  /\ MultiProcess
  /\ process \in holders  /\ deaths < MaxDeaths
  /\ holders' = holders \ {process}
  /\ deaths' = deaths + 1

\* What the process was doing stays undone.  What its locals hold is never
\* looked at again.
TransmitterDies == Dies("producer") /\ UNCHANGED <<vars, transmitter, receiver>>
ReceiverDies    == Dies("consumer") /\ UNCHANGED <<vars, transmitter, receiver>>

\* The section of the dead transmitter is there if the receiver holds it.
TransmitterLaunch ==
  /\ holders = {"consumer"}
  /\ ProducerRelaunch
  /\ holders' = {"producer", "consumer"}
  /\ iPc' = "key"
  /\ UNCHANGED <<number, sends, reported, accepted, receiver, deaths>>

\* A new section: zeroed memory, and the constructor finds empty indices in it.
TransmitterCreates ==
  /\ holders = {}
  /\ storage' = [i \in Index |-> Blank]
  /\ tails' = <<0>>  /\ heads' = <<0>>
  /\ producer_core' = NoCore  /\ consumer_core' = NoCore
  /\ DropWriteTx  /\ DropReadTx
  /\ holders' = {"producer"}
  /\ iPc' = "key"  /\ jPc' = "loop"
  /\ reported' = <<>>  /\ accepted' = <<>>  /\ printed' = <<>>
  /\ UNCHANGED <<number, sends, deaths>>

\* A receiver only opens the section that is there, and waits for one otherwise.
ReceiverLaunch ==
  /\ holders = {"producer"}
  /\ ConsumerRelaunch
  /\ holders' = {"producer", "consumer"}
  /\ jPc' = "loop"
  /\ UNCHANGED <<printed, transmitter, deaths>>

Lifecycle ==
  \/ TransmitterDies \/ TransmitterLaunch \/ TransmitterCreates
  \/ ReceiverDies \/ ReceiverLaunch

--------------------------------------------------------------------------------
\* The programs have met (InterSession), or are the two threads of one.
SessionInit ==
  /\ Init
  /\ storage = [i \in Index |-> Blank]
  /\ iPc = "key"  /\ number \in Number  /\ sends = 0
  /\ reported = <<>>  /\ accepted = <<>>
  /\ jPc = "loop"  /\ printed = <<>>
  /\ holders = {"producer", "consumer"}  /\ deaths = 0

HeadArrives == HeadVisible /\ UNCHANGED <<transmitter, receiver, lifetime>>
TailArrives == TailVisible /\ UNCHANGED <<transmitter, receiver, lifetime>>

SessionNext ==
  \/ Transmitter \/ Receiver
  \/ Lifecycle
  \/ HeadArrives \/ TailArrives

\* The operating system runs the receiver, and what the transmitter stores
\* reaches it in the end.  Nobody has to press a key, or to launch what died.
SessionSpec ==
  /\ SessionInit /\ [][SessionNext]_allvars
  /\ WF_allvars(Receiver) /\ WF_allvars(TailArrives)

--------------------------------------------------------------------------------
\* Properties

\* What is printed is a message that was committed, number and stamp of the
\* same one, and they come in the order they were sent.  (A receiver that
\* dies between printing and committing prints the message again.)
PairsIntact ==
  /\ \A i \in DOMAIN printed : \E j \in DOMAIN accepted : printed[i] = accepted[j]
  /\ \A i, j \in DOMAIN printed : i <= j => printed[i][2] <= printed[j][2]

\* As long as the section lives, no message leaves the queue unprinted, wherever
\* one of the processes dies.  (When both are dead, the messages that are still
\* in the queue are lost with the section.)
NoneSkipped ==
  LET consumed == Len(accepted) - Len(Queue) \div MessageSize
  IN  \A i \in 1 .. consumed : \E j \in DOMAIN printed : printed[j] = accepted[i]

\* The message of the nth key press is committed, and is printed as well.
Committed(n) == \E i \in DOMAIN accepted : accepted[i][2] = n
Printed(n)   == \E i \in DOMAIN accepted, j \in DOMAIN printed :
                  accepted[i][2] = n /\ printed[j] = accepted[i]

\* Every committed message is printed in the end, after any deaths and launches,
\* unless its section is lost or the receiver is dead for good.
AllPrinted ==
  \A n \in 1 .. MaxSends :
    Committed(n) ~> (Printed(n) \/ holders = {} \/ []("consumer" \notin holders))

\* "Just sent number" (utest_jobs.inl:237): a message reported as sent was sent.
ReportedIsSent ==
  \A i \in DOMAIN reported : \E j \in DOMAIN accepted : reported[i] = accepted[j]

================================================================================
