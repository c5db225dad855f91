SPECIFICATION Spec
CONSTANTS
  MaxTick = 1
  MaxSequence = 3
  max_events_per_phase = 2
  Payload = {p, q}
  NoKey = NoKey
  NoSnapshot = NoSnapshot
INVARIANT RestoreAccepts
INVARIANT PhaseLimit
PROPERTY DispatchInOrder
PROPERTY ImplementsCalendar
CHECK_DEADLOCK FALSE
