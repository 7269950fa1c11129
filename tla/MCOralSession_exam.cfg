SPECIFICATION FairSpec
CONSTANTS
  QuestionCount <- TwoSlots
  MaxCrashes = 1
INVARIANTS
  TypeOK
  LockHeldByItsCall
  OneOpenQuestion
  BlueprintFollowed
  PromptStaysCurrent
  CoveredDespiteCrash
  ReportAgrees
PROPERTIES
  ReviewedExamIsFrozen
  LockReleased
CHECK_DEADLOCK FALSE
