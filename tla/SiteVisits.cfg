SPECIFICATION Spec
CONSTANTS
  p1 = p1
  p2 = p2
  Photos <- MCPhotos
  TypeOf <- MCTypeOf
  None = None
  Visits = {v1, a1}
  AdHoc = {a1}
  Requests = {r1, r2, r3}
  Required = 1
  RequiredTypes = {"completed_work"}
SYMMETRY MCSymmetry
INVARIANTS TypeOK FilesOutliveRetention
PROPERTIES ImplementsVisitPlan SignOffStands
CHECK_DEADLOCK FALSE
