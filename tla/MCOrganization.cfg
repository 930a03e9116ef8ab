\* One Organization with everything that happens around it; all informers lag.
SPECIFICATION Spec
CONSTANTS
  s1 = s1
  p1 = p1
  t1 = t1
  o1 = o1
  Subjects = {s1}
  OwnerSets = {{s1}}
  Orgs = {o1}
  Projects = {p1}
  Templates = {t1}
  MaxWorkers = 1
  Holds = {FALSE, TRUE}
  NamespaceLag = TRUE
INVARIANTS TypeOK ReadyMeansSetUp RestsOnlyWhenConverged
PROPERTIES OnlyUnshownIsLeft TerminatingIsFinal
CHECK_DEADLOCK FALSE
