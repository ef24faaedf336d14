------------------------- MODULE MCRetryingBackend --------------------------
(***************************************************************************)
(* RetryingBackend for TLC: policies with and without a predicate, with a  *)
(* predicate that fails, with retry_on, and with a multiplier that leaves  *)
(* the range of floats at the third attempt.                               *)
(***************************************************************************)
EXTENDS RetryingBackend

CONSTANTS Transient, Fatal, Interrupt

MCErrors == {Delivery, AttributeError, Transient, Fatal, Interrupt}
MCInterrupts == {Interrupt}

\* a predicate that admits the errors of S and fails on those of F
Admitting(S, F) ==
  [e \in MCErrors \cup {PredicateError, OverflowError} |->
     IF e \in F THEN "raises" ELSE IF e \in S THEN "retry" ELSE "stop"]

Predicates == {NoPredicate, Admitting({Transient}, {}),
               Admitting({Transient, AttributeError, Interrupt}, {Fatal}),
               Admitting({Transient, PredicateError, OverflowError}, {Fatal})}

MCPolicies ==
  {[max_attempts |-> n, backoff_base |-> 1, multiplier |-> [num |-> m, den |-> 1],
    backoff_max |-> 3, jitter |-> FALSE, should_retry |-> q, retry_on |-> r] :
     n \in {1, 2, 4}, m \in {2, 5}, q \in Predicates, r \in {{}, {Transient}}}
=============================================================================
