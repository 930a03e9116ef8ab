\* One Project whose Namespace informer lags, looking for the panic.
SPECIFICATION Spec
CONSTANTS
  s1 = s1
  p1 = p1
  Subjects = {s1}
  OwnerSets = {{s1}}
  Projects = {p1}
  Invited = {s1}
  MaxWorkers = 1
  Holds = {FALSE}
  NamespaceLag = TRUE
PROPERTY NeverPanics
CHECK_DEADLOCK FALSE
