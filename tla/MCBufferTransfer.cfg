\* Both jobs stop at the end of the buffer
SPECIFICATION TransferSpec
CHECK_DEADLOCK FALSE
CONSTANTS
  Capacity = 8
  Byte = {0, 1, 2, 3, 4, 5, 6, 7}
  MaxSize = 3
  Core = {0}
  MultiProcess = FALSE
  Source <- FiveBytes
  MinChunk = 1
  MaxChunk = 3
  HeaderSize = 2
  HashWord = 16
INVARIANTS InOrder HeaderIntact ChunkIsWhole StopsAtTheEnd HashesAgree
PROPERTIES Completes
