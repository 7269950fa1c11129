SPECIFICATION Spec
CONSTANTS
  Questions = {q1, q2, q3}
  NoQuestion = none
  Prefetched = {q1, q2, q3}
  Requests = {r1}
  MaxJobs = 3
  MaxRetries = 1
  MaxChunks = 0
  MaxPendingBackground = 1
  MaxCacheBytes = 1
  MaxCacheCount = 2
SYMMETRY Symmetry
INVARIANTS
  TypeOK
  OneSynthesisAtATime
  ForegroundFirst
  NoStall
  NoLostJob
PROPERTIES
  OverflowHurtsNobody
  AdmissionTrimsBacklog
CHECK_DEADLOCK FALSE
