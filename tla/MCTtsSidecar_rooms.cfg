SPECIFICATION FairSpec
CONSTANTS
  Streams = {s1}
  Plains = {p1, p2}
  MaxConcurrent = 2
  MaxFrames = 2
INVARIANTS
  TypeOK
  OneInference
  PermitsConserved
  StreamsEndOnce
PROPERTIES
  RequestsEnd
CHECK_DEADLOCK FALSE
