SPECIFICATION SceneSpec
CONSTANTS
  Masters = 3
  Regions = 1
  Txns = {0}
  Gaps = {0, 1}
  Latencies = {0, 1}
  Budget = 6
  Writes = {FALSE}
  MaxDownstream = 6
  Conformant = TRUE
  Empty = Empty
  Unmapped = Unmapped
  NoTxn = NoTxn
INVARIANT Arbitration
INVARIANT Restorable
INVARIANT Accounted
PROPERTY EveryAnswer
\* Sessions end when the budget is used up, or fault.
CHECK_DEADLOCK FALSE
