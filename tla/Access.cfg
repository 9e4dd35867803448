SPECIFICATION Spec
CONSTANTS
  Pair = {x1, x2}
  Single = {a1}
  Users = {x1, x2, u3}
  Browsers = {b1}
  BrowserOf <- OneBrowser
  FewTokens = {k1, k2}
  ManyTokens = {k1, k2, k3}
  MaxTries = 1
  MaxEnds = 1
  MaxFactors = 2
  Employers = {c1}
  MaxAccountRequests = 2
  MaxMemberRequests = 3
  MaxSubs = 2
  Runs = {r1}
  MaxCycles = 2
  Used = {"draft", "corrections_required", "issued", "closed"}
  Corrections = {c1}
  MaxInspections = 2
  MaxRequirements = 2
  MaxVersions = 2
  Days = 2
  MaxPermits = 1
  Companies = {c1, c2}
  Numbered = {"project", "invoice"}
  Base = 4
  MaxRows = 2
  Files = 3
  AppConns = {a1}
  ServiceConns = {b1}
  MaxWrites = 1
  None = None
SYMMETRY Symmetry
INVARIANTS TypeOK SessionsEnd CookieIsFresh FailureIsRebooked HappensOnce DecisionsHold OwnRowsOnly
PROPERTIES AccountsKept HistoryKept
CHECK_DEADLOCK FALSE
