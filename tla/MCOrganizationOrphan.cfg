\* All informers lag, as in the deployed manager.
SPECIFICATION Spec
CONSTANTS
  s1 = s1
  t1 = t1
  o1 = o1
  Subjects = {s1}
  OwnerSets = {{s1}}
  Orgs = {o1}
  Projects = {}
  Templates = {t1}
  MaxWorkers = 1
  Holds = {FALSE}
  NamespaceLag = TRUE
INVARIANT NoOrphanNamespace
CHECK_DEADLOCK FALSE
