SPECIFICATION Spec
CONSTANTS
  i1 = i1
  k1 = k1
  v1 = v1
  u1 = u1
  None = None
PROPERTIES EventsSettle WarnedInTime
CHECK_DEADLOCK FALSE
