\* A shutdown need not end the process.
CONSTANTS
  Workers = {w1, w2}
  Main = main
  Nobody = nobody
  NumConns = 2
  Kinds = {"shutdown"}
  Spurious = FALSE
SPECIFICATION FairSpec
PROPERTIES ShutdownEndsProcess
CHECK_DEADLOCK FALSE
