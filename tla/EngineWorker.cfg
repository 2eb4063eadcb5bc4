\* Four callers, a channel of two slots: senders block, and die blocked.
SPECIFICATION FairSpec
CONSTANTS
  Callers = {c1, c2, c3, c4}
  Owner = owner
  QueueLimit = 2
INVARIANTS
  EveryWaiterServed
  LetGoOnce
PROPERTIES
  CloseEnds
  Serialized
\* A worker whose owner has gone does nothing more.
CHECK_DEADLOCK FALSE
