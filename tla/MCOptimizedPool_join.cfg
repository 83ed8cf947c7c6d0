\* A worker misses the wakeup of a shutdown.
CONSTANTS
  Workers = {w1, w2}
  Main = main
  Nobody = nobody
  QueueSize = 2
  NumConns = 2
  Kinds = {"end", "shutdown"}
  Spurious = FALSE
SPECIFICATION FairSpec
PROPERTIES ShutdownCompletes
CHECK_DEADLOCK FALSE
