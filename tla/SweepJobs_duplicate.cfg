\* One sweep alone on a cursor, three hits allowed.
SPECIFICATION Spec
CONSTANTS
  MaxSession = 1
  MaxCursor = 1
  MaxPosition = 2
  MaxJob = 1
  MaxHits = 2
  StepsPerSequence = 2
  NoRequest = NoRequest
INVARIANT DuplicateIsARepeat
CHECK_DEADLOCK FALSE
