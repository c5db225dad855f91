SPECIFICATION ForeignSpec
CONSTANTS
  MaxTick = 1
  MaxSequence = 4
  max_events_per_phase = 2
  Payload = {p}
  NoKey = NoKey
  NoSnapshot = NoSnapshot
  ForeignSequence = {0, 1, 2}
INVARIANT ResumedInOrder
CHECK_DEADLOCK FALSE
