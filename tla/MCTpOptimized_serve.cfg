\* Two workers, a ring of two slots, three connections, every message; the server
\* stops after a shutdown, at a fault and at the bound on connections.
CONSTANTS
  Workers = {w1, w2}
  Main = main
  QueueSize = 2
  NumConns = 3
  Kinds = {"end", "cut", "request", "compressed", "file", "last", "shutdown"}
  MessageSize = 24
  IntSize = 4
  BlockSize <- Sizes
  BlockCount <- Counts
SPECIFICATION FairSpec
INVARIANTS TypeOK MemoryOwned OpenAreOwned NoSleeperAfterShutdown
PROPERTIES QueueUntilShutdown EveryConnectionClosed
CHECK_DEADLOCK FALSE
