\* A target that logs below flush_level while a trail is drained into it.
SPECIFICATION Spec
CONSTANTS
  CorrelationIds = {a, b}
  NullId = null
  Unset = unset
  TtlSeconds = 1
  Capacity = 2
  MaxCorrelations = 2
  ClockMayStepBack = FALSE
  TargetMayRaise = FALSE
  MaxNesting = 1
  MaxClock = 1
  MaxRecords = 4
PROPERTIES WarningAlwaysEmitted
