SPECIFICATION FairSpec
CONSTANTS
  Base = 5
  LengthBytes = 2
  MaxFrameBytes = 1
  Payloads <- Audio
  MaxFrames = 2
  Listeners = {l1}
  MaxAttempts = 2
INVARIANTS
  TypeOK
  HeardAsSent
PROPERTIES
  ImplementsLogReader
  PumpsReturn
CHECK_DEADLOCK FALSE
