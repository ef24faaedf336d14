\* One thread after the other, a target that may raise but does not log.
SPECIFICATION Spec
CONSTANTS
  CorrelationIds = {a, b}
  NullId = null
  Unset = unset
  TtlSeconds = 1
  Capacity = 2
  MaxCorrelations = 2
  ClockMayStepBack = FALSE
  TargetMayRaise = TRUE
  MaxNesting = 0
  MaxClock = 3
  MaxRecords = 5
PROPERTIES ImplementsFallibleStore LockReleased
