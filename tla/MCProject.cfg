\* One Project whose owners change, or the RoleBindings in its namespace; all
\* informers lag; fairness.
SPECIFICATION MCSpec
CONSTANTS
  s1 = s1
  s2 = s2
  p1 = p1
  Subjects = {s1, s2}
  OwnerSets = {{s1}, {s2}}
  Projects = {p1}
  Invited = {s1}
  MaxWorkers = 1
  Holds = {FALSE, TRUE}
  NamespaceLag = TRUE
INVARIANTS TypeOK ReadyMeansSetUp RestsOnlyWhenConverged
PROPERTIES KeepsOwnership OnlyUnshownIsLeft EventuallyConverged
CHECK_DEADLOCK FALSE
