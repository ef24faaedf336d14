--------------------------- MODULE RetryExecutor ----------------------------
(***************************************************************************)
(* mixin_retry/executor.py and mixin_retry/policy.py                       *)
(*                                                                         *)
(* One call of a function that RetryExecutor.wrap has wrapped, or of       *)
(* RetryExecutor.call.  _wrap_sync and _wrap_async are the same loop; what  *)
(* happens around it differs only in what an interruption is called        *)
(* (KeyboardInterrupt, CancelledError) and it can arrive in the operation   *)
(* or in the sleep between two attempts of either.  The executor has no    *)
(* state of its own, so concurrent calls do not meet.                      *)
(***************************************************************************)
EXTENDS Integers, Sequences

CONSTANTS Policies,      \* the RetryPolicy objects a caller may pass
          Errors,        \* what the operation may raise
          Interrupts,    \* those of them that are BaseException only
          PredicateError,\* what a should_retry predicate raises when it fails
          OverflowError, \* what float ** raises when the result is too large
          MissingPolicy, \* the ValueError of call() without a policy
          NoPolicy, NoPredicate, NoError,
          FloatMax       \* bound: the largest float

Raisable == Errors \cup {PredicateError, OverflowError}
Verdicts == {"retry", "stop", "raises"}

\* RetryPolicy.__post_init__ refuses every other policy.  The multiplier is a
\* ratio of integers; should_retry is what the predicate answers for each error.
ValidPolicy(p) ==
  p \in [max_attempts : Nat \ {0},
         backoff_base : Nat,
         multiplier : [num : Nat \ {0}, den : Nat \ {0}],
         backoff_max : Nat,
         jitter : BOOLEAN,
         should_retry : [Raisable -> Verdicts] \cup {NoPredicate},
         retry_on : SUBSET Raisable]

ASSUME PolicyAssumption == /\ \A p \in Policies : ValidPolicy(p)
                           /\ NoPolicy \notin Policies

ASSUME ErrorsAssumption == /\ Interrupts \subseteq Errors
                           /\ {PredicateError, OverflowError} \cap Errors = {}
                           /\ NoError \notin Raisable \cup {MissingPolicy}
                           /\ NoPredicate \notin [Raisable -> Verdicts]
                           /\ FloatMax \in Nat

VARIABLES policy,   \* the policy of this call
          pc,       \* where the wrapper is
          attempt,  \* the loop variable
          error,    \* last_error
          raised,   \* what the wrapper raises
          delay     \* the last delay slept, in tenths of the policy's unit

executorVars == <<policy, pc, attempt, error, raised, delay>>

ExecutorInit ==
  /\ policy = NoPolicy
  /\ pc = "idle"
  /\ attempt = 0
  /\ error = NoError
  /\ raised = NoError
  /\ delay = 0

-----------------------------------------------------------------------------
(* What the loop consults                                                  *)

\* seeded bug: retry_on takes precedence over the predicate
RetryOnFirst(p, e) ==
  IF e \in p.retry_on THEN "retry"
  ELSE IF p.should_retry # NoPredicate THEN p.should_retry[e] ELSE "stop"

\* _should_retry: the predicate takes precedence over retry_on
ShouldRetry(p, e) ==
  IF p.should_retry # NoPredicate THEN p.should_retry[e]
  ELSE IF e \in p.retry_on THEN "retry" ELSE "stop"

\* ** of _calculate_backoff, for one side of the ratio: Power(b)[n] is b ** n
Power(b) == LET power[n \in Nat] == IF n = 0 THEN 1 ELSE b * power[n - 1]
            IN  power

\* multiplier ** attempt is beyond what a float holds: Python raises
BackoffOverflows(p, n) ==
  Power(p.multiplier.num)[n] > FloatMax * Power(p.multiplier.den)[n]

\* _calculate_backoff before the cap
Exponential(p, n) ==
  (p.backoff_base * Power(p.multiplier.num)[n]) \div Power(p.multiplier.den)[n]

\* seeded bug: the cap is a floor
CappedBelow(p, n) == IF Exponential(p, n) > p.backoff_max THEN Exponential(p, n)
                                                          ELSE p.backoff_max

\* _calculate_backoff before jitter
Capped(p, n) == IF Exponential(p, n) < p.backoff_max THEN Exponential(p, n)
                                                     ELSE p.backoff_max

\* _calculate_backoff: jitter multiplies the capped delay by 0.9 to 1.1.  In
\* tenths, the two ends of the range and its middle.
Backoff(p, n) ==
  {Capped(p, n) * f : f \in IF p.jitter THEN {9, 10, 11} ELSE {10}}

\* seeded bug: one attempt too many
OneAttemptMore == attempt = policy.max_attempts

LastAttempt == attempt = policy.max_attempts - 1

-----------------------------------------------------------------------------
(* The wrapper                                                             *)

\* the wrapper enters its loop
Start(p) ==
  /\ pc = "idle"
  /\ policy' = p
  /\ pc' = "calling"
  /\ UNCHANGED <<attempt, error, raised, delay>>

\* seeded bug: call() does not look whether there is a policy
StartWithoutLooking ==
  /\ pc = "idle"
  /\ pc' = "calling"
  /\ UNCHANGED <<policy, attempt, error, raised, delay>>

\* call() without a policy raises before anything is called
StartWithoutPolicy ==
  /\ pc = "idle"
  /\ pc' = "raised"
  /\ raised' = MissingPolicy
  /\ UNCHANGED <<policy, attempt, error, delay>>

OperationReturns ==
  /\ pc = "calling"
  /\ pc' = "returned"
  /\ UNCHANGED <<policy, attempt, error, raised, delay>>

\* seeded bug: the error of the first attempt is the one that is kept
RaiseOutFirst(e, x) ==
  /\ pc' = "raised"
  /\ error' = e
  /\ raised' = IF x = e /\ error # NoError THEN error ELSE x
  /\ UNCHANGED <<policy, attempt, delay>>

\* the operation raises e, the handler of the loop raises x out of the wrapper
RaiseOut(e, x) ==
  /\ pc' = "raised"
  /\ error' = e
  /\ raised' = x
  /\ UNCHANGED <<policy, attempt, delay>>

\* the last attempt: nothing is consulted
RaisesOnLastAttempt(e) ==
  /\ pc = "calling"
  /\ LastAttempt
  /\ RaiseOut(e, e)

RaisesNotRetryable(e) ==
  /\ pc = "calling"
  /\ ~LastAttempt
  /\ ShouldRetry(policy, e) = "stop"
  /\ RaiseOut(e, e)

\* the predicate itself raises: its exception replaces the one it was asked about
RaisesPredicateError(e) ==
  /\ pc = "calling"
  /\ ~LastAttempt
  /\ ShouldRetry(policy, e) = "raises"
  /\ RaiseOut(e, PredicateError)

RaisesOverflow(e) ==
  /\ pc = "calling"
  /\ ~LastAttempt
  /\ ShouldRetry(policy, e) = "retry"
  /\ BackoffOverflows(policy, attempt)
  /\ RaiseOut(e, OverflowError)

\* a retryable error with attempts left: sleep
BacksOff(e) ==
  /\ pc = "calling"
  /\ ~LastAttempt
  /\ ShouldRetry(policy, e) = "retry"
  /\ ~BackoffOverflows(policy, attempt)
  /\ pc' = "sleeping"
  /\ error' = e
  /\ delay' \in Backoff(policy, attempt)
  /\ UNCHANGED <<policy, attempt, raised>>

\* seeded bug: the attempt that is retried is not counted
SleepEndsUncounted ==
  /\ pc = "sleeping"
  /\ pc' = "calling"
  /\ UNCHANGED <<policy, attempt, error, raised, delay>>

\* the sleep is over: the loop makes the next attempt
SleepEnds ==
  /\ pc = "sleeping"
  /\ attempt' = attempt + 1
  /\ pc' = "calling"
  /\ UNCHANGED <<policy, error, raised, delay>>

\* cancelled, or interrupted, while it sleeps: the sleep is outside the try
SleepInterrupted(x) ==
  /\ pc = "sleeping"
  /\ pc' = "raised"
  /\ raised' = x
  /\ UNCHANGED <<policy, attempt, error, delay>>

OperationRaises(e) == \/ RaisesOnLastAttempt(e)
                      \/ RaisesNotRetryable(e)
                      \/ RaisesPredicateError(e)
                      \/ RaisesOverflow(e)
                      \/ BacksOff(e)

Over == pc \in {"returned", "raised"}

Init == ExecutorInit

Next == \/ \E p \in Policies : Start(p)
        \/ StartWithoutPolicy
        \/ OperationReturns
        \/ \E e \in Errors : RaisesOnLastAttempt(e)
        \/ \E e \in Errors : RaisesNotRetryable(e)
        \/ \E e \in Errors : RaisesPredicateError(e)
        \/ \E e \in Errors : RaisesOverflow(e)
        \/ \E e \in Errors : BacksOff(e)
        \/ SleepEnds
        \/ \E x \in Interrupts : SleepInterrupted(x)

\* the operation and the sleep come to an end; whatever the operation does then
Fairness == /\ WF_executorVars(OperationReturns \/ \E e \in Errors : OperationRaises(e))
            /\ WF_executorVars(SleepEnds)

Spec == Init /\ [][Next]_executorVars /\ Fairness

-----------------------------------------------------------------------------
(* Properties                                                              *)

\* Every variable keeps its type; a loop that runs has a policy, and what it slept
\* is a delay of that policy.
TypeOK ==
  /\ pc \in {"idle", "calling", "sleeping", "returned", "raised"}
  /\ policy \in Policies \cup {NoPolicy}
  /\ pc \in {"calling", "sleeping", "returned"} => policy \in Policies
  /\ attempt \in Nat
  /\ error \in Errors \cup {NoError}
  /\ raised \in Raisable \cup {NoError, MissingPolicy}
  /\ delay = 0 \/ \E n \in 0..attempt : delay \in Backoff(policy, n)

\* "max_attempts ensures bounded retries": the operation is never called more
\* than max_attempts times, and no delay follows the last attempt.
AttemptsBounded ==
  policy \in Policies => /\ attempt < policy.max_attempts
                         /\ pc = "sleeping" => attempt + 1 < policy.max_attempts

\* The caller sees the error of the last attempt, never that of an earlier one,
\* unless the predicate or the backoff failed on it, or the sleep after it was
\* interrupted.
RaisesLastError ==
  pc = "raised" => \/ raised = error
                   \/ raised = PredicateError /\ policy.should_retry # NoPredicate
                   \/ raised = OverflowError
                   \/ raised \in Interrupts
                   \/ raised = MissingPolicy /\ error = NoError

\* Another attempt is made only after an error the predicate admits, or, without
\* a predicate, one of retry_on.
Admits(p, e) == IF p.should_retry = NoPredicate THEN e \in p.retry_on
                                                ELSE p.should_retry[e] = "retry"
RetriesOnlyWhatIsAdmitted ==
  [][attempt' > attempt => /\ Admits(policy, error)
                           /\ raised = NoError]_executorVars

\* The delays keep the cap: without jitter it is never exceeded, with it by no more
\* than the ten percent of the jitter.  With a multiplier of one or more no delay is
\* shorter than the one before it, but for the jitter of the two; with a smaller one
\* they may shrink.
DelaysCappedAndGrowing ==
  [][pc' = "sleeping" =>
       /\ delay' <= (IF policy.jitter THEN 11 ELSE 10) * policy.backoff_max
       /\ policy.multiplier.num >= policy.multiplier.den =>
            IF policy.jitter THEN 11 * delay' >= 9 * delay ELSE delay' >= delay
    ]_executorVars

\* A call that has started ends, whatever the operation keeps doing.
Ends == (pc = "calling") ~> Over

=============================================================================
