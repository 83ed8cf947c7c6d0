\* Three clients that hang up, ask, retrieve files and shut the server down; the server
\* may hang in the shutdown, so deadlock is not checked.
CONSTANTS
  Workers = {w1, w2}
  Main = main
  Nobody = nobody
  NumConns = 3
  Kinds = {"end", "plain", "file", "shutdown"}
  Spurious = FALSE
SPECIFICATION FairSpec
INVARIANTS TypeOK LockDiscipline
PROPERTIES QueueUntilShutdown EveryClientServed ShutdownStopsListening
CHECK_DEADLOCK FALSE
