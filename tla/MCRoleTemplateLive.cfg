\* Users alter the Role and the RoleBinding, or change the rules; all informers lag; fairness.
SPECIFICATION EntriesSpec
CONSTANTS
  Name = Name
  None = None
  o1 = o1
  v1 = v1
  r1 = r1
  r2 = r2
  Orgs = {o1}
  ProjectNames = {}
  Owners = {v1}
  Rules = {r1, r2}
  Specs <- ManySpecs
  Holds = {TRUE}
  RoleLag = TRUE
  Alterations = TRUE
INVARIANTS RestsOnlyWhenReported
PROPERTIES OnlyOutdatedIsNeglected OnlyOutdatedIsMisreported
PROPERTIES EventuallyGranted EventuallyCollected
CHECK_DEADLOCK FALSE
