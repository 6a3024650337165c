\* The two programs meet, transfer and part; each is launched up to twice
SPECIFICATION Spec
CHECK_DEADLOCK FALSE
CONSTANTS
  Size = 7
  Room = 4
  Length = 5
  MaxChunk = 2
  MaxWait = 2
  MaxLaunches = 2
INVARIANTS TypeOK AttachedIsLive InTransit Framed EndsComplete
PROPERTIES Completes
