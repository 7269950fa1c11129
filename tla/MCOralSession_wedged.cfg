SPECIFICATION Spec
CONSTANTS
  QuestionCount <- TwoSlots
  MaxCrashes = 0
INVARIANT NeverWedged
CHECK_DEADLOCK FALSE
