\* Two threads, one breakpoint, outputs that meet every limit at once.
SPECIFICATION Spec
CONSTANTS
  MaxRecords = 2
  MaxChars = 2
  MaxTotal = 3
  Threads = {t1, t2}
  BreakpointIds = {1}
  MaxStops = 2
  MaxWrites = 4
  MaxText = 3
  Processes = {p1, p2}
  MaxRedirects = 1
  MaxCrashes = 1
INVARIANTS
  NothingUncounted
  OutputRestored
  StopThreadIsCurrent
  ArmedIsKnown
  QueriesAreExact
  CacheIsSound
PROPERTY NoOverwriteKeepsFile
\* The dump of a target that cannot go on.
CHECK_DEADLOCK FALSE
