\* Two workers, a ring of two slots, every message; the server stops after a
\* shutdown and at the bound on connections, so deadlock is not checked.
CONSTANTS
  Workers = {w1, w2}
  Main = main
  Nobody = nobody
  QueueSize = 2
  NumConns = 4
  Kinds = {"end", "request", "file", "shutdown", "unknown"}
  Spurious = TRUE
SPECIFICATION FairSpec
INVARIANTS TypeOK OpenAreOwned NoUseAfterFree WakeupsSuffice
PROPERTIES RingImplementsQueue EveryClientLeaves ShutdownLeavesLoop
CHECK_DEADLOCK FALSE
