SPECIFICATION Spec
CONSTANTS
  MaxRuns = 2
  MaxEvents = 4
  Timeout = 4
  MaxSettle = 2
  MaxRankedGaps = 2
INVARIANTS
  QuietWasObserved
  ExitIsRetained
  RankedGapsAreComplete
  BudgetIsPositive
  TargetsDoNotOverlap
PROPERTY ProfileEnds
