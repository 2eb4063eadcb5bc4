SPECIFICATION Spec
CONSTANT MaxNotifications = 3
INVARIANTS
  AcknowledgedExactly
  WritesNeedPermission
  SuccessIsExact
PROPERTY CommandEnds
