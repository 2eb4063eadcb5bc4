\* Three targets of either kind, opened, used and let go in any order.
SPECIFICATION Spec
CONSTANTS MaxTarget = 3
INVARIANTS
  AttachedIffServed
  NeverAbandoned
PROPERTY FatesAreFinal
\* The daemon may stop.
CHECK_DEADLOCK FALSE
