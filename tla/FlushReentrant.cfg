\* A target that may raise or log, and a clock that may step back.
SPECIFICATION Spec
CONSTANTS
  CorrelationIds = {a, b}
  NullId = null
  Unset = unset
  TtlSeconds = 1
  Capacity = 2
  MaxCorrelations = 1
  ClockMayStepBack = TRUE
  TargetMayRaise = TRUE
  MaxNesting = 2
  MaxClock = 2
  MaxRecords = 5
SYMMETRY IdSymmetry
INVARIANTS TypeOK OrderCoversBuffers TrailsBounded OwnTrailOnly UnsentTrailStaysBuffered
PROPERTIES NoSilentLoss NothingStaleSurvivesEmit
