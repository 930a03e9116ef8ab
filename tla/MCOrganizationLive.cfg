\* One Organization whose owners change, lagging informers, fairness.
SPECIFICATION OwnersSpec
CONSTANTS
  s1 = s1
  s2 = s2
  t1 = t1
  o1 = o1
  Subjects = {s1, s2}
  OwnerSets = {{s1}, {s1, s2}}
  Orgs = {o1}
  Projects = {}
  Templates = {t1}
  MaxWorkers = 1
  Holds = {FALSE, TRUE}
  NamespaceLag = TRUE
PROPERTIES KeepsOwnership NamespaceUnderFinalizer KeepsOthersWrites EventuallyConverged
CHECK_DEADLOCK FALSE
