\* Two processes that may die and be launched again at any point; a block can
\* be as long as the whole storage, which never fits
SPECIFICATION Spec
SYMMETRY Symmetry
CONSTANTS
  Capacity = 2
  Byte = {b1, b2}
  MaxSize = 2
  Core = {0, 1}
  MultiProcess = TRUE
INVARIANTS IInv
PROPERTIES IsFifo
