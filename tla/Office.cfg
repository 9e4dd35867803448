SPECIFICATION Spec
CONSTANTS
  Pair = {x1, x2}
  Single = {k0}
  i0 = i0
  i1 = i1
  i2 = i2
  k0 = k0
  v1 = v1
  d1 = d1
  Amounts = {1, 2}
  Price = 2
  Faults = 0
  Actions = {1, 2, 3}
  VisitOf <- OneVisit
  KindOf <- Kinds
  Required = 1
  ManySends = 2
  MaxVersions = 3
  MaxInline = 2
  MaxRequests = 3
  MaxMailings = 1
  Attempts = 2
  Days = 2
  Notaries = {d1}
  MaxPrice = 2
  MaxRevisions = 2
  Drawings = {d1}
  MaxHeld = 3
  Checks = {d1}
  Writes = {v1}
  None = None
SYMMETRY Symmetry
INVARIANTS TypeOK PaidIsCovered MoneyIsThere OutboxKept FilesAreThere NoFalseRecord RulesAgree
PROPERTIES ChargedOnce AgreementsStand
CHECK_DEADLOCK FALSE
