SPECIFICATION FairSpec
CONSTANTS
  Questions = {q1}
  NoQuestion = none
  Prefetched = {q1}
  Requests = {r1, r2}
  MaxJobs = 2
  MaxRetries = 1
  MaxChunks = 1
  MaxPendingBackground = 1
  MaxCacheBytes = 1
  MaxCacheCount = 2
INVARIANTS
  OneLiveJobPerQuestion
  RenderedOnce
  FailuresAreForgotten
PROPERTIES
  EveryJobSettles
CHECK_DEADLOCK FALSE
