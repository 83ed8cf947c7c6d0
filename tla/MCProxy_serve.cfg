\* Two WebSockets, two TCP connections and two requests of every kind; the user
\* stops at the bounds.
CONSTANTS
  NumSockets = 2
  NumTcp = 2
  NumRequests = 2
  Kinds = {"text", "wide", "retrieve"}
  HeaderUnits = 2
SPECIFICATION FairSpec
INVARIANTS TypeOK AnsweredInOrder MapLeadsToLive SavedUnderItsName
PROPERTIES EveryRequestAnswered
CHECK_DEADLOCK FALSE
