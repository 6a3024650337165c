\* A consumer that comes before the size header is stored does not wait
SPECIFICATION Spec
CHECK_DEADLOCK FALSE
CONSTANTS
  Size = 7
  Room = 4
  Length = 5
  MaxChunk = 2
  MaxWait = 2
  MaxLaunches = 2
INVARIANTS FailsOnlyByTimeOut
