SPECIFICATION Spec
CONSTANTS
  Processes = {p1, p2, p3}
  NoProcess = noProcess
  Builds = {3, 4}
  Found = {1}
  NonAdditive <- Destructive
  NoFile = noFile
INVARIANTS
  MigratedOnce
  OpenIsMigrated
CHECK_DEADLOCK FALSE
