\* three tokens, a queue of one, three connections, one failure, every strategy
SPECIFICATION FairSpec
CONSTANTS
  c1 = c1
  c2 = c2
  Conns = {c1, c2}
  Tokens = 3
  QueueSize = 1
  Window = 2
  Strategies = {"BLOCK", "DROP_OLDEST", "DROP_NEWEST", "DISCONNECT"}
  MaxConnects = 3
  MaxFailures = 1
INVARIANTS
  NothingSkipped
PROPERTIES
  ConnectionsEnd
CHECK_DEADLOCK FALSE
