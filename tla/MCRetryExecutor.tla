-------------------------- MODULE MCRetryExecutor ---------------------------
(***************************************************************************)
(* RetryExecutor for TLC: policies with and without a predicate, retry_on, *)
(* jitter, growing, constant and shrinking delays, and one whose multiplier *)
(* leaves the range of floats before the attempts are used up.             *)
(***************************************************************************)
EXTENDS RetryExecutor

CONSTANTS Transient, Fatal, Interrupt

MCErrors == {Transient, Fatal, Interrupt}
MCInterrupts == {Interrupt}

Ratio(n, d) == [num |-> n, den |-> d]

\* a predicate that admits the errors of S and fails on those of F
Admitting(S, F) == [e \in MCErrors \cup {PredicateError, OverflowError} |->
                      IF e \in F THEN "raises" ELSE IF e \in S THEN "retry" ELSE "stop"]

Predicates == {NoPredicate, Admitting({Transient}, {}), Admitting({}, {}),
               Admitting(MCErrors, {}), Admitting({Transient}, {Fatal})}

MCPolicies ==
  {[max_attempts |-> n, backoff_base |-> 1, multiplier |-> m, backoff_max |-> 3,
    jitter |-> j, should_retry |-> q, retry_on |-> r] :
     n \in {1, 2, 4}, m \in {Ratio(2, 1), Ratio(1, 1), Ratio(1, 2), Ratio(5, 1)},
     j \in BOOLEAN, q \in Predicates, r \in {{}, {Fatal}}}
=============================================================================
