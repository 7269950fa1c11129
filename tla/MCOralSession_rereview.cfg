SPECIFICATION Spec
CONSTANTS
  QuestionCount <- OneSlot
  MaxCrashes = 1
INVARIANT CoveredExactlyOnce
CHECK_DEADLOCK FALSE
