\* A child that joins after the split waits forever.
CONSTANTS
  Workers = {w1, w2}
  Blocks = {b1, b2}
  Sessions = {s1}
  Ranges <- FiveBytes
  FileSize = 6
  HeaderSize = 2
  WordSize = 64
  MaxRequests = 2
SPECIFICATION FairSpec
PROPERTIES EveryChildServed
CHECK_DEADLOCK FALSE
