\* Two workers, six numbers and three connections.
CONSTANTS
  Workers = {w1, w2}
  Numbers = {5, 6, 7, 8, 9, 10}
  NumConns = 3
  Kinds = {"end", "file", "differs", "last"}
SPECIFICATION Spec
INVARIANT NoForeignClose
CHECK_DEADLOCK FALSE
