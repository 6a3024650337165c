\* One process, four bytes of storage, blocks of up to two bytes
SPECIFICATION Spec
SYMMETRY Symmetry
CONSTANTS
  Capacity = 4
  Byte = {b1, b2}
  MaxSize = 2
  Core = {0}
  MultiProcess = FALSE
INVARIANTS TypeOK NoOverwrite ReadsCommitted NeverOptimistic
PROPERTIES RefusalIsReal EmptinessIsReal IsFifo
