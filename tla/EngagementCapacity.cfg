SPECIFICATION Spec
CONSTANTS
  e1 = e1
  l1 = l1
  t1 = t1
  t2 = t2
  Engagements = {e1, e2, e3}
  Licences = {l2}
  Supervisors = {s1}
  Trades = {t1, t2}
  TradeOf <- MCTradeOf
  Covers <- MCCovers
  Milestones = {m1}
  Template <- MCTemplate
  Mandatory = {m1}
  None = None
  Limit <- MCLimit
  Limits = {2}
  Connections = 2
SYMMETRY MCSymmetry
INVARIANT CapacityKept
CHECK_DEADLOCK FALSE
