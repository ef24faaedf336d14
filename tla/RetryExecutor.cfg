\* One call under every policy of MCPolicies and every sequence of outcomes.
\* The call ends, and with it the behaviour: no deadlock.
SPECIFICATION Spec
CONSTANTS
  Transient = transient
  Fatal = fatal
  Interrupt = interrupt
  Errors <- MCErrors
  Interrupts <- MCInterrupts
  Policies <- MCPolicies
  PredicateError = predicate_error
  OverflowError = overflow_error
  MissingPolicy = missing_policy
  NoPolicy = no_policy
  NoPredicate = no_predicate
  NoError = no_error
  FloatMax = 20
CHECK_DEADLOCK FALSE
INVARIANTS TypeOK AttemptsBounded RaisesLastError
PROPERTIES RetriesOnlyWhatIsAdmitted DelaysCappedAndGrowing Ends
