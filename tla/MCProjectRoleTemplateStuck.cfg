\* The same instance, without lag.
SPECIFICATION MCSpec
CONSTANTS
  Name = Name
  None = None
  p1 = p1
  l1 = l1
  l2 = l2
  r1 = r1
  r2 = r2
  Projects = {p1}
  Subjects = {1, 2, 3}
  Invited = {1}
  OwnerLists <- TwoOwnerLists
  Labels = {l1, l2}
  Rules = {r1, r2}
  Specs <- TwoSpecs
  Holds = {FALSE, TRUE}
  Lagging = {}
INVARIANT DeletionCompletes
CHECK_DEADLOCK FALSE
