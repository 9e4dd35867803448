SPECIFICATION Spec
CONSTANTS
  i1 = i1
  k1 = k1
  v1 = v1
  u1 = u1
  None = None
PROPERTY NeverWalksBack
CHECK_DEADLOCK FALSE
