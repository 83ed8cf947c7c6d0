\* Three workers, two sessions, a range within the file, one beyond it, two
\* whose end wraps around, and a name that is refused; a fourth request finds
\* blocks that come back from malloc with the next field of their last request.
\* A child may wait for its segment forever, so deadlock is not checked.
CONSTANTS
  Workers = {w1, w2, w3}
  Blocks = {b1, b2, b3}
  Sessions = {s1, s2}
  Ranges <- AllRanges
  FileSize = 6
  HeaderSize = 2
  WordSize = 64
  MaxRequests = 4
SPECIFICATION Spec
SYMMETRY Symmetry
CONSTRAINT FourthIsPlain
INVARIANTS TypeOK SegmentsDisjoint SegmentsTile CutWithinFile ListHoldsTransfers
CHECK_DEADLOCK FALSE
