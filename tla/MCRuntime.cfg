SPECIFICATION SceneSpec
CONSTANTS
  MaxTick = 2
  MaxSequence = 2
  max_events_per_phase = 1
  Payload = {p}
  NoKey = NoKey
  NoSnapshot = NoSnapshot
  Components = 2
  SendPhases = {0}
  Observers = TRUE
  Points = {1}
  MaxSessions = 2
  NoTrace = NoTrace
INVARIANT RefusedSendFaults
INVARIANT TraceMatchesDigest
PROPERTY PointsBetweenEvents
PROPERTY CallsReturn
CHECK_DEADLOCK FALSE
