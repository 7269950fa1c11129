SPECIFICATION Spec
CONSTANTS
  Processes = {p1, p2}
  Pids = {n1}
  NoPid = noPid
  NoProcess = noProcess
  BootsOverlap = FALSE
PROPERTY RefusedByAnother
CHECK_DEADLOCK FALSE
