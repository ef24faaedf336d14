\* One send() under every policy of MCPolicies, with and without a dead-letter
\* backend, every kind of inner backend, and every sequence of outcomes of the
\* two backends.  The send ends, and with it the behaviour: no deadlock.
SPECIFICATION SendSpec
CONSTANTS
  Delivery = delivery
  AttributeError = attribute_error
  Transient = transient
  Fatal = fatal
  Interrupt = interrupt
  Errors <- MCErrors
  Interrupts <- MCInterrupts
  Policies <- MCPolicies
  PredicateError = predicate_error
  OverflowError = overflow_error
  MissingPolicy = missing_policy
  NoPolicy = no_policy
  NoPredicate = no_predicate
  NoError = no_error
  FloatMax = 20
CHECK_DEADLOCK FALSE
INVARIANTS SendTypeOK ResendsOnlyRetryable DeadLetterIsLastResort DetailTellsWhatHappened ReportsDelivery FailuresBecomeResults RepublishesOnTransientCode ConfirmedIsTheEnd TransientIsNotTheEnd
PROPERTY SendEnds
