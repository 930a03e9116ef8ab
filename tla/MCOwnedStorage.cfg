\* Two callers and two names.
SPECIFICATION Spec
CONSTANTS
  None = None
  u1 = u1
  u2 = u2
  n1 = n1
  n2 = n2
  Users = {u1, u2}
  Names = {n1, n2}
INVARIANT TypeOK
PROPERTIES UpdatesWhatItChecked DeletesWhatItChecked
SYMMETRY Symmetry
