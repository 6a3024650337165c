\* Two deaths, of either process or of both
SPECIFICATION SessionSpec
CONSTANTS
  Capacity = 8
  Byte = {1, 2, 3, 8, 9}
  MaxSize = 2
  Core = {0}
  MultiProcess = TRUE
  Number = {8, 9}
  NumberSize = 1
  StampSize = 2
  Blank = 1
  MaxSends = 3
  MaxDeaths = 2
INVARIANTS ReportedIsSent
