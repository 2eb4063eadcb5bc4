\* Two commands at a time and the daemons they start, or find.
SPECIFICATION FairSpec
CONSTANTS
  Daemons = {d1, d2, d3}
  Clients = {c1, c2}
  NoDaemon = NoDaemon
INVARIANTS
  OwnershipHolds
  
  OneDaemonServes
PROPERTIES
  AnswersShutdown
  CommandsEnd
\* All commands may have ended.
CHECK_DEADLOCK FALSE
