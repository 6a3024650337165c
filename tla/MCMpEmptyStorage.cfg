\* A constructor returns and nothing follows
SPECIFICATION Spec
CHECK_DEADLOCK FALSE
CONSTANTS
  Width = 6
  CacheLine = 4
  Shifts <- ShiftsOfSixBits
INVARIANTS CapacityIsPowerOfTwo
