\* Removing the head of a list with other transfers on it.
CONSTANTS
  Workers = {w1, w2}
  Blocks = {b1, b2}
  Sessions = {s1, s2}
  Ranges <- FiveBytes
  FileSize = 6
  HeaderSize = 2
  WordSize = 64
  MaxRequests = 2
SPECIFICATION Spec
INVARIANTS NoCrash
CHECK_DEADLOCK FALSE
