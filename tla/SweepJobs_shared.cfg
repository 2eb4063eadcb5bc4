\* Two sweeps and the clients share one cursor; two positions of a sequence.
SPECIFICATION FairSpec
CONSTANTS
  MaxSession = 1
  MaxCursor = 1
  MaxPosition = 2
  MaxJob = 2
  MaxHits = 2
  StepsPerSequence = 2
  NoRequest = NoRequest
INVARIANTS
  RecordsMatchTasks
  HitsAreSound
PROPERTIES
  CancelStopsReplay
  Lifecycle
\* Every trace may be closed and every id used up.
CHECK_DEADLOCK FALSE
