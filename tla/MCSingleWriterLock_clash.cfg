SPECIFICATION Spec
CONSTANTS
  Processes = {p1, p2}
  Pids = {n1, n2}
  NoPid = noPid
  NoProcess = noProcess
  BootsOverlap = TRUE
INVARIANT OneWriter
CHECK_DEADLOCK FALSE
