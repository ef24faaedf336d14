\* The cap on the number of buffers evicts by insertion order.
SPECIFICATION Spec
CONSTANTS
  CorrelationIds = {a, b}
  NullId = null
  Unset = unset
  TtlSeconds = 1
  Capacity = 2
  MaxCorrelations = 2
  ClockMayStepBack = FALSE
  TargetMayRaise = FALSE
  MaxNesting = 0
  MaxClock = 2
  MaxRecords = 6
PROPERTIES EvictsOldestByInsertion
