\* Two sessions of one cursor each, three positions, sweeps of two hits;
\* two installers and two versions.
SPECIFICATION Spec
CONSTANTS
  MaxSession = 2
  MaxCursor = 1
  MaxPosition = 2
  MaxHits = 2
  StepsPerSequence = 2
  Installers = {i1, i2}
  MaxVersion = 2
INVARIANTS
  ReadingsAgree
  GoneStaysGone
  ReportsMatchTheCursor
  StaleOnlyAfterLeak
  AnswersAreExact
  RecordingsAreFinal
  InstallsAreWhole
\* Every id may be used up.
CHECK_DEADLOCK FALSE
