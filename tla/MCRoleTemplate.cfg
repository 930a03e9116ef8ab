\* One Organization and a template that changes its rules, its scopes, goes and
\* returns; or one Organization with a Project; both come and go, and the owners change.
SPECIFICATION MCSpec
CONSTANTS
  Name = Name
  None = None
  o1 = o1
  p1 = p1
  v1 = v1
  v2 = v2
  r1 = r1
  r2 = r2
  Orgs = {o1}
  ProjectNames = {p1}
  Owners = {v1, v2}
  Rules = {r1, r2}
  Specs <- ManySpecs
  Holds = {FALSE, TRUE}
  RoleLag = FALSE
  Alterations = FALSE
INVARIANTS TypeOK RestsOnlyWhenGranted ReadyMeansWritten
CHECK_DEADLOCK FALSE
