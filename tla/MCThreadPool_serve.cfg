\* Three workers and four connections, until a number that was closed twice gives a
\* shutdown nobody sent; the server stops at the bound on connections, so deadlock is
\* not checked.
CONSTANTS
  Workers = {w1, w2, w3}
  Main = main
  Nobody = nobody
  NumConns = 4
  Kinds = {"end", "last", "plain"}
  Spurious = TRUE
SPECIFICATION Spec
SYMMETRY WorkerSymmetry
INVARIANTS ListShape OneHandler NoLostWakeup TablesReady SocketsReleased
CHECK_DEADLOCK FALSE
