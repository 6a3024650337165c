\* Blocks and padding, for every way of cutting a message
SPECIFICATION Spec
CHECK_DEADLOCK FALSE
CONSTANTS
  BlockSize = 8
  LengthSize = 2
  Word = 256
  MaxLength = 28
INVARIANTS TypeOK BlocksHoldMessage LengthFits DigestIsStandard
