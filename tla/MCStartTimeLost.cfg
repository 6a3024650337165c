\* A producer goes on without its start time in the queue
SPECIFICATION Spec
CHECK_DEADLOCK FALSE
CONSTANTS
  Size = 7
  Room = 4
  Length = 5
  MaxChunk = 2
  MaxWait = 2
  MaxLaunches = 2
PROPERTIES StartTimeIsSent
