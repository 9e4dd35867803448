SPECIFICATION Spec
CONSTANTS
  p1 = p1
  p2 = p2
  Photos <- MCPhotos
  TypeOf <- MCTypeOf
  None = None
  Visits = {v1}
  AdHoc = {}
  Requests = {r1, r2}
  Required = 2
  RequiredTypes = {}
SYMMETRY MCSymmetry
INVARIANT CountIsHonest
CHECK_DEADLOCK FALSE
