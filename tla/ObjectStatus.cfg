\* One object through four generations and four moments.
SPECIFICATION Spec
CONSTANTS
  ConditionTypes = {"Ready", "Other"}
  MaxGeneration = 4
  MaxTime = 4
INVARIANTS TypeOK PhaseTells OneEntryPerType
PROPERTIES TimesTransitions Represents
CHECK_DEADLOCK FALSE
