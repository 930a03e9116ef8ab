\* One Project and a template; the events of the RoleBindings that users make lag, and
\* with a template that somebody holds those of the Role as well.
SPECIFICATION MCSpec
CONSTANTS
  Name = Name
  None = None
  p1 = p1
  l1 = l1
  l2 = l2
  r1 = r1
  r2 = r2
  Projects = {p1}
  Subjects = {1, 2, 3}
  Invited = {1}
  OwnerLists <- TwoOwnerLists
  Labels = {l1, l2}
  Rules = {r1, r2}
  Specs <- TwoSpecs
  Holds = {FALSE, TRUE}
  Lagging = {"Role", "others"}
INVARIANTS TypeOK RestsOnlyWhenReported
PROPERTIES OnlyOutdatedIsNeglected OnlyOutdatedIsLeft EventuallySettled
CHECK_DEADLOCK FALSE
