\* Two threads, two loggers, two records.
SPECIFICATION Spec
CONSTANTS
  Contexts = {c1, c2}
  Null = null
  Missing = missing
  Ids = {i1, null_id}
  NullId = null_id
  UnsetId = unset_id
  Capacity = 2
  ServiceLogger = service_logger
  AmbientLogger = ambient_logger
  Loggers <- MCLoggers
  ClassLoggers = {service_logger}
  Correlation = correlation_id
  UserPassword = user_password
  Token_ = token_
  Message = message
  Patient = patient
  Password = password
  Token = token
  Name = name
  Ssn = ssn
  Phi = phi
  Kinds = {phi}
  FieldNames = {name, ssn}
  NoMarker = no_marker
  NoKind = no_kind
  MaskedRepr = masked_repr
  Secret = secret
  Plain = plain
  Forged = forged
  Reserved <- MCReserved
  PatternSets <- MCPatternSets
  IdPattern = id_pattern
  CorrelationFilter = correlation_filter
  PatternsIn <- MCPatternsIn
  PrivateNames = {token_}
  MASK = mask
  Names <- MCNames
  Values <- MCValues
  Extras <- MCExtras
  Objects <- MCObjects
  NoCall = no_call
  MaxRecords = 2
  MaxFilters = 2
SYMMETRY ThreadSymmetry
INVARIANTS LineShowsItsFlow SecretsMasked ClassifiedStaysHidden
