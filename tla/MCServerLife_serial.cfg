SPECIFICATION FairSpec
CONSTANTS
  Processes = {p1, p2}
  Pids = {n1, n2}
  NoPid = noPid
  NoProcess = noProcess
  BootsOverlap = FALSE
  Builds = {1, 2, 3}
  Found = {1}
  NonAdditive <- Destructive
  NoFile = noFile
  Calls = {c1}
INVARIANTS
  LifeTypeOK
  DatabaseGuarded
  SchemaFits
  Restorable
  OnlyAbandonedCallsOutlive
PROPERTIES
  DatabaseIsExclusive
  ShutdownEnds
  CallsSettle
CHECK_DEADLOCK FALSE
