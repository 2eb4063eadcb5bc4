SPECIFICATION Spec
CONSTANTS
  MaxRuns = 1
  MaxEvents = 3
  Timeout = 2
  MaxSettle = 1
  MaxRankedGaps = 2
INVARIANT CompletedMeansReached
