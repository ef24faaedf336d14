------------------------- MODULE RetryExecutorProofs ------------------------
(***************************************************************************)
(* Proofs about RetryExecutor, for any policies, errors and predicates.    *)
(* The invariant of the loop does not say where the policy comes from, so  *)
(* that RetryingBackend, which makes one of its own, can use the same      *)
(* lemmas.                                                                 *)
(***************************************************************************)
EXTENDS RetryExecutor, WellFoundedInduction, TLAPS

-----------------------------------------------------------------------------
(* Numbers: powers by their recursion, and quotients                       *)

\* A set of naturals that is not empty has a least element.
LEMMA LeastNumber ==
  ASSUME NEW T \in SUBSET Nat, T # {}
  PROVE  \E n \in T : \A m \in T : n <= m
  <1> DEFINE R == OpToRel(<, Nat)
  <1>1. IsWellFoundedOn(R, Nat)
    BY NatLessThanWellFounded
  <1>2. \A x, y \in Nat : x < y => <<x, y>> \in R
    BY DEF OpToRel
  <1> HIDE DEF R
  <1>3. PICK n \in T : \A m \in T : ~(<<m, n>> \in R)
    BY <1>1, WFMin
  <1>4. \A m \in T : ~(m < n)
    BY <1>2, <1>3
  <1>5. \A m \in T : n <= m
    BY <1>4
  <1> QED BY <1>5

\* Induction, over a set: the smallest number outside it would have its predecessor in
\* it.
LEMMA Induction ==
  ASSUME NEW S, 0 \in S, \A n \in Nat : n \in S => n + 1 \in S
  PROVE  Nat \subseteq S
  <1> DEFINE T == Nat \ S
  <1> SUFFICES ASSUME T # {} PROVE FALSE
    OBVIOUS
  <1>1. PICK n \in T : \A m \in T : n <= m
    BY LeastNumber
  <1>2. n # 0 /\ n \in Nat
    OBVIOUS
  <1>3. n - 1 \in Nat /\ n - 1 \notin T
    BY <1>1, <1>2
  <1>4. n - 1 + 1 \in S
    BY <1>3
  <1> QED BY <1>2, <1>4, n - 1 + 1 = n

\* The recursion that defines Power has a solution: the functions that solve it up to a
\* number exist for every number, and agree.
LEMMA PowerEquation ==
  ASSUME NEW b \in Nat
  PROVE  Power(b) = [n \in Nat |-> IF n = 0 THEN 1 ELSE b * Power(b)[n - 1]]
  <1> DEFINE Upto(n) == {g \in [0..n -> Nat] :
                           /\ g[0] = 1
                           /\ \A i \in 0..n : i # 0 => g[i] = b * g[i - 1]}
             Defined == {n \in Nat : Upto(n) # {}}
             F == [n \in Nat |-> (CHOOSE g \in Upto(n) : TRUE)[n]]
  <1>1. 0 \in Defined
    <2>1. [i \in 0..0 |-> 1] \in Upto(0)
      OBVIOUS
    <2> QED BY <2>1
  <1>2. ASSUME NEW n \in Nat, n \in Defined
        PROVE  n + 1 \in Defined
    <2>1. PICK g : g \in Upto(n)
      BY <1>2
    <2> DEFINE h == [i \in 0..(n + 1) |-> IF i = n + 1 THEN b * g[n] ELSE g[i]]
    <2>2. h \in [0..(n + 1) -> Nat] /\ h[0] = 1
      BY <2>1
    <2>3. ASSUME NEW i \in 0..(n + 1), i # 0
          PROVE  h[i] = b * h[i - 1]
      <3>1. CASE i = n + 1
        BY <3>1
      <3>2. CASE i # n + 1
        BY <2>1, <2>3, <3>2
      <3> QED BY <3>1, <3>2
    <2>4. h \in Upto(n + 1)
      BY <2>2, <2>3
    <2> HIDE DEF h, Upto
    <2>5. n + 1 \in Nat /\ Upto(n + 1) # {}
      BY <2>4
    <2> QED BY <2>5
  <1>3. ASSUME NEW m \in Nat, NEW n \in Nat, m <= n,
               NEW g \in Upto(m), NEW h \in Upto(n)
        PROVE  g[m] = h[m]
    <2> DEFINE Same == {i \in Nat : i <= m => g[i] = h[i]}
    <2>1. 0 \in Same
      OBVIOUS
    <2>2. ASSUME NEW i \in Nat, i \in Same PROVE i + 1 \in Same
      <3> SUFFICES ASSUME i + 1 <= m PROVE g[i + 1] = h[i + 1]
        OBVIOUS
      <3>1. i + 1 \in 0..m /\ i + 1 \in 0..n /\ i + 1 # 0 /\ i + 1 - 1 = i
        BY <1>3
      <3>2. g[i] = h[i]
        BY <2>2
      <3> QED BY <3>1, <3>2
    <2> HIDE DEF Same
    <2>3. m \in Same
      BY <2>1, <2>2, Induction
    <2> QED BY <2>3 DEF Same
  <1> HIDE DEF Defined
  <1>4. Nat \subseteq Defined
    BY <1>1, <1>2, Induction
  <1> USE DEF Defined
  <1>5. ASSUME NEW n \in Nat
        PROVE  F[n] = IF n = 0 THEN 1 ELSE b * F[n - 1]
    <2> DEFINE g == CHOOSE g \in Upto(n) : TRUE
    <2>1. g \in Upto(n) /\ F[n] = g[n]
      BY <1>4
    <2>2. CASE n = 0
      BY <2>1, <2>2
    <2>3. CASE n # 0
      <3> DEFINE h == CHOOSE h \in Upto(n - 1) : TRUE
      <3>1. n - 1 \in Nat /\ n - 1 <= n /\ n \in 0..n
        BY <2>3
      <3>2. h \in Upto(n - 1) /\ F[n - 1] = h[n - 1]
        BY <1>4, <3>1
      <3> HIDE DEF Upto, g, h, F, Defined
      <3>3. h[n - 1] = g[n - 1]
        BY <1>3, <2>1, <3>1, <3>2
      <3> USE DEF Upto
      <3> QED BY <2>1, <2>3, <3>1, <3>2, <3>3
    <2> QED BY <2>2, <2>3
  <1> HIDE DEF Upto, Defined
  <1>6. F = [n \in Nat |-> F[n]]
    OBVIOUS
  <1> HIDE DEF F
  <1>7. F = [n \in Nat |-> IF n = 0 THEN 1 ELSE b * F[n - 1]]
    BY <1>5, <1>6
  <1> QED BY <1>7 DEF Power

\* Powers of a positive number: the first, the next, and that none is zero.
LEMMA PowerStep ==
  ASSUME NEW b \in Nat \ {0}
  PROVE  /\ Power(b)[0] = 1
         /\ \A n \in Nat : /\ Power(b)[n] \in Nat \ {0}
                          /\ Power(b)[n + 1] = b * Power(b)[n]
  <1> DEFINE f == Power(b)
             S == {n \in Nat : f[n] \in Nat \ {0}}
  <1>1. f = [n \in Nat |-> IF n = 0 THEN 1 ELSE b * f[n - 1]]
    BY PowerEquation
  <1> HIDE DEF f
  <1>2. f[0] = 1
    BY <1>1
  <1>3. ASSUME NEW n \in Nat PROVE f[n + 1] = b * f[n]
    <2>1. n + 1 \in Nat /\ n + 1 # 0 /\ n + 1 - 1 = n
      OBVIOUS
    <2> QED BY <1>1, <2>1
  <1>4. 0 \in S /\ \A n \in Nat : n \in S => n + 1 \in S
    BY <1>2, <1>3
  <1> HIDE DEF S
  <1>5. Nat \subseteq S
    BY <1>4, Induction
  <1> QED BY <1>2, <1>3, <1>5 DEF f, S

\* What integer division leaves.
LEMMA Quotient ==
  ASSUME NEW a \in Nat, NEW d \in Nat \ {0}
  PROVE  /\ a \div d \in Nat
         /\ (a \div d) * d <= a
         /\ a < (a \div d + 1) * d
  OBVIOUS

\* A quotient does not shrink when its numerator grows by a larger factor.
LEMMA QuotientGrows ==
  ASSUME NEW a \in Nat, NEW d \in Nat \ {0}, NEW n \in Nat \ {0}, NEW m \in Nat \ {0},
         m <= n
  PROVE  a \div d <= (a * n) \div (d * m)
  <1> DEFINE q == a \div d
             r == (a * n) \div (d * m)
  <1>1. q \in Nat /\ q * d <= a
    BY Quotient
  <1>2. a * n \in Nat /\ d * m \in Nat \ {0}
    OBVIOUS
  <1>3. r \in Nat /\ a * n < (r + 1) * (d * m)
    BY <1>2, Quotient
  <1> HIDE DEF q, r
  <1>4. (q * d) * m <= a * m /\ a * m <= a * n
    BY <1>1
  <1>5. q * (d * m) < (r + 1) * (d * m)
    BY <1>1, <1>2, <1>3, <1>4
  <1>6. q < r + 1
    BY <1>1, <1>2, <1>3, <1>5
  <1> QED BY <1>1, <1>3, <1>6 DEF q, r

\* The delay before jitter is a number up to backoff_max, and with a multiplier of one or
\* more a later attempt has no shorter one.
LEMMA CappedBounds ==
  ASSUME NEW p, ValidPolicy(p), NEW n \in Nat
  PROVE  /\ Exponential(p, n) \in Nat
         /\ Capped(p, n) \in 0..p.backoff_max
  <1>1. /\ p.backoff_base \in Nat /\ p.backoff_max \in Nat
        /\ p.multiplier.num \in Nat \ {0} /\ p.multiplier.den \in Nat \ {0}
    BY DEF ValidPolicy
  <1>2. /\ Power(p.multiplier.num)[n] \in Nat \ {0}
        /\ Power(p.multiplier.den)[n] \in Nat \ {0}
    BY <1>1, PowerStep
  <1>3. p.backoff_base * Power(p.multiplier.num)[n] \in Nat
    BY <1>1, <1>2
  <1>4. Exponential(p, n) \in Nat
    BY <1>2, <1>3, Quotient DEF Exponential
  <1> QED BY <1>1, <1>4 DEF Capped

LEMMA CappedGrows ==
  ASSUME NEW p, ValidPolicy(p), NEW n \in Nat, p.multiplier.num >= p.multiplier.den
  PROVE  Capped(p, n) <= Capped(p, n + 1)
  <1> DEFINE num == p.multiplier.num
             den == p.multiplier.den
             a == p.backoff_base * Power(num)[n]
  <1>1. /\ p.backoff_base \in Nat /\ p.backoff_max \in Nat
        /\ num \in Nat \ {0} /\ den \in Nat \ {0} /\ den <= num
    BY DEF ValidPolicy
  <1> HIDE DEF num, den
  <1>2. /\ Power(num)[n] \in Nat \ {0} /\ Power(den)[n] \in Nat \ {0}
        /\ Power(num)[n + 1] = num * Power(num)[n]
        /\ Power(den)[n + 1] = den * Power(den)[n]
    BY <1>1, PowerStep
  <1>3. /\ p.backoff_base * Power(num)[n + 1] = a * num
        /\ Power(den)[n + 1] = Power(den)[n] * den
    BY <1>1, <1>2
  <1>4. a \in Nat
    BY <1>1, <1>2
  <1> HIDE DEF a
  <1>5. a \div Power(den)[n] <= (a * num) \div (Power(den)[n] * den)
    BY <1>1, <1>2, <1>4, QuotientGrows
  <1>6. Exponential(p, n) <= Exponential(p, n + 1)
    BY <1>3, <1>5 DEF Exponential, a, num, den
  <1>7. /\ Exponential(p, n) \in Nat /\ Exponential(p, n + 1) \in Nat
    BY CappedBounds
  <1> QED BY <1>1, <1>6, <1>7 DEF Capped

-----------------------------------------------------------------------------
(* The inductive invariant                                                 *)

Running == pc \in {"calling", "sleeping", "returned"}

\* What the wrapper knows once it is in its loop.
LoopTypes ==
  /\ pc \in {"idle", "calling", "sleeping", "returned", "raised"}
  /\ attempt \in Nat
  /\ error \in Errors \cup {NoError}
  /\ raised \in Raisable \cup {NoError, MissingPolicy}
  /\ delay = 0 \/ \E n \in 0..attempt : delay \in Backoff(policy, n)

\* Why the handler let an error out, or the sleep did not end.
WhyRaised ==
  \/ raised = error /\ (LastAttempt \/ ShouldRetry(policy, error) = "stop")
  \/ /\ ~LastAttempt
     /\ \/ raised = PredicateError /\ ShouldRetry(policy, error) = "raises"
        \/ /\ raised \in Interrupts \cup {OverflowError}
           /\ ShouldRetry(policy, error) = "retry"

LoopInv ==
  /\ LoopTypes
  /\ pc = "idle" => attempt = 0 /\ error = NoError /\ delay = 0
  /\ pc # "raised" => raised = NoError
  /\ Running \/ error # NoError => ValidPolicy(policy) /\ attempt < policy.max_attempts
  /\ pc = "sleeping" => /\ attempt + 1 < policy.max_attempts
                        /\ error \in Errors /\ ShouldRetry(policy, error) = "retry"
  /\ pc = "raised" => \/ raised = MissingPolicy /\ error = NoError
                      \/ error \in Errors /\ WhyRaised

\* The policy is one that was passed, and without one nothing runs.
PolicyInv ==
  /\ policy \in Policies \cup {NoPolicy}
  /\ Running \/ error # NoError => policy \in Policies
  /\ pc = "idle" \/ (pc = "raised" /\ error = NoError) => policy = NoPolicy

IInv == LoopInv /\ PolicyInv

-----------------------------------------------------------------------------
(* The predicate                                                           *)

\* What _should_retry answers, in the terms of the policy.
LEMMA ShouldRetryAdmits ==
  ASSUME NEW p, NEW e
  PROVE  /\ ShouldRetry(p, e) = "retry" => Admits(p, e)
         /\ ShouldRetry(p, e) = "raises" => p.should_retry # NoPredicate
         /\ ShouldRetry(p, e) = "stop" => ~Admits(p, e)
  BY DEF ShouldRetry, Admits

-----------------------------------------------------------------------------
(* The steps of the loop                                                   *)

LEMMA ExecutorInitInv == ExecutorInit => LoopInv
  BY DEF ExecutorInit, LoopInv, LoopTypes, Running

LEMMA StartStep ==
  ASSUME LoopInv, NEW p, ValidPolicy(p), Start(p)
  PROVE  LoopInv'
  <1>1. 0 < p.max_attempts
    BY DEF ValidPolicy
  <1> QED BY <1>1 DEF Start, LoopInv, LoopTypes, Running

LEMMA OperationReturnsStep ==
  ASSUME LoopInv, OperationReturns
  PROVE  LoopInv'
  BY DEF OperationReturns, LoopInv, LoopTypes, Running

\* Whatever way the handler lets an error out.
LEMMA RaiseOutStep ==
  ASSUME LoopInv, pc = "calling", NEW e \in Errors, NEW x \in Raisable, RaiseOut(e, x),
         \/ x = e /\ (LastAttempt \/ ShouldRetry(policy, e) = "stop")
         \/ x = PredicateError /\ ~LastAttempt /\ ShouldRetry(policy, e) = "raises"
         \/ x = OverflowError /\ ~LastAttempt /\ ShouldRetry(policy, e) = "retry"
  PROVE  LoopInv'
  <1>1. WhyRaised'
    BY DEF RaiseOut, WhyRaised, LastAttempt, ShouldRetry
  <1> QED BY <1>1 DEF RaiseOut, LoopInv, LoopTypes, Running

LEMMA BacksOffStep ==
  ASSUME LoopInv, NEW e \in Errors, BacksOff(e)
  PROVE  LoopInv'
  <1>1. /\ pc = "calling" /\ pc' = "sleeping" /\ error' = e
        /\ delay' \in Backoff(policy, attempt)
        /\ UNCHANGED <<policy, attempt, raised>>
    BY DEF BacksOff
  <1>2. ValidPolicy(policy) /\ attempt < policy.max_attempts /\ attempt \in Nat
    BY <1>1 DEF LoopInv, LoopTypes, Running
  <1>3. attempt + 1 < policy.max_attempts
    BY <1>2 DEF BacksOff, LastAttempt, ValidPolicy
  <1>4. LoopTypes'
    BY <1>1, <1>2 DEF LoopInv, LoopTypes
  <1>5. (ShouldRetry(policy, error) = "retry")'
    BY <1>1 DEF BacksOff, ShouldRetry
  <1> QED BY <1>1, <1>2, <1>3, <1>4, <1>5 DEF LoopInv, Running

LEMMA OperationRaisesStep ==
  ASSUME LoopInv, NEW e \in Errors, OperationRaises(e)
  PROVE  LoopInv'
  <1>1. CASE RaisesOnLastAttempt(e)
    BY <1>1, RaiseOutStep DEF RaisesOnLastAttempt, Raisable
  <1>2. CASE RaisesNotRetryable(e)
    BY <1>2, RaiseOutStep DEF RaisesNotRetryable, Raisable
  <1>3. CASE RaisesPredicateError(e)
    BY <1>3, RaiseOutStep, ShouldRetryAdmits DEF RaisesPredicateError, Raisable
  <1>4. CASE RaisesOverflow(e)
    BY <1>4, RaiseOutStep DEF RaisesOverflow, Raisable
  <1>5. CASE BacksOff(e)
    BY <1>5, BacksOffStep
  <1> QED BY <1>1, <1>2, <1>3, <1>4, <1>5 DEF OperationRaises

LEMMA SleepEndsStep ==
  ASSUME LoopInv, SleepEnds
  PROVE  LoopInv'
  <1>1. 0..attempt \subseteq 0..(attempt + 1)
    BY DEF LoopInv, LoopTypes
  <1> QED BY <1>1 DEF SleepEnds, LoopInv, LoopTypes, Running

LEMMA SleepInterruptedStep ==
  ASSUME LoopInv, NEW x \in Interrupts, SleepInterrupted(x)
  PROVE  LoopInv'
  <1>1. x \in Raisable /\ error \in Errors /\ pc = "sleeping"
    BY ErrorsAssumption DEF SleepInterrupted, LoopInv, Raisable
  <1>2. ~LastAttempt
    BY <1>1 DEF LoopInv, LoopTypes, Running, ValidPolicy, LastAttempt
  <1>3. WhyRaised'
    BY <1>1, <1>2 DEF SleepInterrupted, LoopInv, WhyRaised, LastAttempt, ShouldRetry
  <1> QED BY <1>1, <1>3 DEF SleepInterrupted, LoopInv, LoopTypes, Running

LEMMA StartWithoutPolicyStep ==
  ASSUME LoopInv, StartWithoutPolicy
  PROVE  LoopInv'
  BY DEF StartWithoutPolicy, LoopInv, LoopTypes, Running

-----------------------------------------------------------------------------
(* The invariant                                                           *)

LEMMA InitInv == Init => IInv
  BY ExecutorInitInv DEF Init, ExecutorInit, IInv, PolicyInv, Running

LEMMA NextLoopInv == IInv /\ [Next]_executorVars => LoopInv'
  <1> SUFFICES ASSUME IInv, [Next]_executorVars PROVE LoopInv'
    OBVIOUS
  <1> USE DEF IInv
  <1>1. CASE \E p \in Policies : Start(p)
    BY <1>1, StartStep, PolicyAssumption
  <1>2. CASE StartWithoutPolicy
    BY <1>2, StartWithoutPolicyStep
  <1>3. CASE OperationReturns
    BY <1>3, OperationReturnsStep
  <1>4. CASE \E e \in Errors : OperationRaises(e)
    BY <1>4, OperationRaisesStep
  <1>5. CASE SleepEnds
    BY <1>5, SleepEndsStep
  <1>6. CASE \E x \in Interrupts : SleepInterrupted(x)
    BY <1>6, SleepInterruptedStep
  <1>7. CASE UNCHANGED executorVars
    BY <1>7 DEF executorVars, LoopInv, LoopTypes, Running, WhyRaised, LastAttempt, ShouldRetry
  <1> QED BY <1>1, <1>2, <1>3, <1>4, <1>5, <1>6, <1>7 DEF Next, OperationRaises

LEMMA NextPolicyInv == IInv /\ [Next]_executorVars => PolicyInv'
  <1> SUFFICES ASSUME IInv, [Next]_executorVars PROVE PolicyInv'
    OBVIOUS
  <1> USE DEF IInv, PolicyInv, Running
  <1>1. CASE \E p \in Policies : Start(p)
    BY <1>1 DEF Start
  <1>2. CASE StartWithoutPolicy
    BY <1>2 DEF StartWithoutPolicy, LoopInv
  <1>3. CASE OperationReturns
    BY <1>3 DEF OperationReturns
  <1>4. ASSUME NEW e \in Errors, OperationRaises(e) PROVE PolicyInv'
    <2>1. error' = e /\ UNCHANGED policy /\ pc = "calling" /\ pc' \in {"sleeping", "raised"}
      BY <1>4 DEF OperationRaises, RaisesOnLastAttempt, RaisesNotRetryable,
                  RaisesPredicateError, RaisesOverflow, BacksOff, RaiseOut
    <2>2. e # NoError
      BY ErrorsAssumption DEF Raisable
    <2> QED BY <2>1, <2>2
  <1>5. CASE SleepEnds
    BY <1>5 DEF SleepEnds
  <1>6. CASE \E x \in Interrupts : SleepInterrupted(x)
    <2>1. error # NoError
      BY <1>6, ErrorsAssumption DEF SleepInterrupted, LoopInv, Raisable
    <2> QED BY <2>1, <1>6 DEF SleepInterrupted
  <1>7. CASE UNCHANGED executorVars
    BY <1>7 DEF executorVars
  <1> QED BY <1>1, <1>2, <1>3, <1>4, <1>5, <1>6, <1>7 DEF Next, OperationRaises

LEMMA Invariance == Spec => []IInv
  <1>1. IInv /\ [Next]_executorVars => IInv'
    BY NextLoopInv, NextPolicyInv DEF IInv
  <1> QED BY <1>1, InitInv, PTL DEF Spec

-----------------------------------------------------------------------------
(* The delays                                                              *)

\* The last delay is one of the last attempt that was followed by one.
DelayOfAttempt ==
  /\ pc = "calling" => IF attempt = 0 THEN delay = 0
                                      ELSE delay \in Backoff(policy, attempt - 1)
  /\ pc = "sleeping" => delay \in Backoff(policy, attempt)

LEMMA BackoffBounds ==
  ASSUME NEW p, ValidPolicy(p), NEW n \in Nat, NEW d \in Backoff(p, n)
  PROVE  /\ d \in 0..(11 * p.backoff_max)
         /\ 9 * Capped(p, n) <= d /\ d <= 11 * Capped(p, n)
         /\ ~p.jitter => d = 10 * Capped(p, n) /\ d <= 10 * p.backoff_max
  <1>1. Capped(p, n) \in 0..p.backoff_max /\ p.backoff_max \in Nat
    BY CappedBounds DEF ValidPolicy
  <1>2. PICK f \in IF p.jitter THEN {9, 10, 11} ELSE {10} : d = Capped(p, n) * f
    BY DEF Backoff
  <1> QED BY <1>1, <1>2

\* Two delays in the ten percent around two bases of which the second is no smaller.
LEMMA JitteredApart ==
  ASSUME NEW b \in Nat, NEW c \in Nat, b <= c, NEW d \in Int, NEW e \in Nat,
         d <= 11 * b, 9 * c <= e
  PROVE  11 * e >= 9 * d
  OBVIOUS

LEMMA DelayStep ==
  ASSUME IInv, DelayOfAttempt, [Next]_executorVars
  PROVE  DelayOfAttempt'
  <1> USE DEF DelayOfAttempt
  <1>1. CASE \E p \in Policies : Start(p)
    BY <1>1 DEF Start, IInv, LoopInv
  <1>2. CASE SleepEnds
    <2>1. attempt \in Nat /\ attempt + 1 # 0 /\ attempt + 1 - 1 = attempt
      BY DEF IInv, LoopInv, LoopTypes
    <2> QED BY <1>2, <2>1 DEF SleepEnds
  <1>3. CASE \E e \in Errors : BacksOff(e)
    <2> QED BY <1>3 DEF BacksOff
  <1>4. CASE pc' \notin {"calling", "sleeping"}
    BY <1>4
  <1>5. CASE UNCHANGED executorVars
    BY <1>5 DEF executorVars
  <1> QED BY <1>1, <1>2, <1>3, <1>4, <1>5
          DEF Next, StartWithoutPolicy, OperationReturns, RaisesOnLastAttempt,
              RaisesNotRetryable, RaisesPredicateError, RaisesOverflow, RaiseOut,
              SleepInterrupted

-----------------------------------------------------------------------------
(* Theorems                                                                *)

\* Every variable of the wrapper keeps its type, for all policies and errors.
THEOREM TypeCorrect == Spec => []TypeOK
  <1>1. IInv => TypeOK
    BY DEF IInv, LoopInv, LoopTypes, PolicyInv, Running, TypeOK
  <1> QED BY <1>1, Invariance, PTL

\* The operation is called at most max_attempts times and no delay follows the last
\* call, for every policy that __post_init__ admits.
THEOREM Bounded == Spec => []AttemptsBounded
  <1>1. IInv => AttemptsBounded
    BY PolicyAssumption DEF IInv, LoopInv, LoopTypes, PolicyInv, Running, AttemptsBounded
  <1> QED BY <1>1, Invariance, PTL

\* What the caller sees is the error of the last attempt, or what the predicate, the
\* backoff or an interruption put in its place.
THEOREM LastErrorRaised == Spec => []RaisesLastError
  <1>1. IInv => RaisesLastError
    BY ShouldRetryAdmits DEF IInv, LoopInv, WhyRaised, RaisesLastError
  <1> QED BY <1>1, Invariance, PTL

\* Another attempt follows only an error that the policy admits, and none follows
\* what the wrapper raises.
THEOREM OnlyAdmittedRetried == Spec => RetriesOnlyWhatIsAdmitted
  <1>1. IInv /\ [Next]_executorVars =>
          [attempt' > attempt => Admits(policy, error) /\ raised = NoError]_executorVars
    <2> SUFFICES ASSUME IInv, Next, attempt' > attempt
                 PROVE  Admits(policy, error) /\ raised = NoError
      OBVIOUS
    <2>1. attempt \in Nat /\ attempt' # attempt
      BY DEF IInv, LoopInv, LoopTypes
    <2>2. SleepEnds
      BY <2>1 DEF Next, Start, StartWithoutPolicy, OperationReturns, RaisesOnLastAttempt,
                  RaisesNotRetryable, RaisesPredicateError, RaisesOverflow, BacksOff,
                  RaiseOut, SleepInterrupted
    <2> QED BY <2>2, ShouldRetryAdmits DEF SleepEnds, IInv, LoopInv
  <1> QED BY <1>1, Invariance, PTL DEF Spec, RetriesOnlyWhatIsAdmitted

\* The delays keep the cap, within the ten percent of the jitter where there is one; and
\* with a multiplier of one or more none is shorter than the one before it, but for the
\* jitter of the two, however large the powers get.
THEOREM DelaysGrowToTheCap == Spec => DelaysCappedAndGrowing
  <1>1. Init => DelayOfAttempt
    BY DEF Init, ExecutorInit, DelayOfAttempt
  <1>2. IInv /\ DelayOfAttempt /\ [Next]_executorVars => DelayOfAttempt'
    BY DelayStep
  <1>3. IInv /\ DelayOfAttempt /\ [Next]_executorVars =>
          [pc' = "sleeping" =>
             /\ delay' <= (IF policy.jitter THEN 11 ELSE 10) * policy.backoff_max
             /\ policy.multiplier.num >= policy.multiplier.den =>
                  IF policy.jitter THEN 11 * delay' >= 9 * delay ELSE delay' >= delay
          ]_executorVars
    <2> SUFFICES ASSUME IInv, DelayOfAttempt, Next, pc' = "sleeping"
                 PROVE  /\ delay' <= (IF policy.jitter THEN 11 ELSE 10) * policy.backoff_max
                        /\ policy.multiplier.num >= policy.multiplier.den =>
                             IF policy.jitter THEN 11 * delay' >= 9 * delay
                                              ELSE delay' >= delay
      OBVIOUS
    <2>1. PICK e \in Errors : BacksOff(e)
      BY DEF Next, Start, StartWithoutPolicy, OperationReturns, RaisesOnLastAttempt,
             RaisesNotRetryable, RaisesPredicateError, RaisesOverflow, RaiseOut,
             SleepEnds, SleepInterrupted
    <2>2. /\ ValidPolicy(policy) /\ attempt \in Nat /\ pc = "calling"
          /\ delay' \in Backoff(policy, attempt)
      BY <2>1 DEF BacksOff, IInv, LoopInv, LoopTypes, Running
    <2>3. /\ Capped(policy, attempt) \in Nat
          /\ delay' \in 0..(11 * policy.backoff_max)
          /\ 9 * Capped(policy, attempt) <= delay'
          /\ ~policy.jitter => /\ delay' = 10 * Capped(policy, attempt)
                               /\ delay' <= 10 * policy.backoff_max
      BY <2>2, BackoffBounds, CappedBounds
    <2>4. delay' <= (IF policy.jitter THEN 11 ELSE 10) * policy.backoff_max
      BY <2>2, <2>3 DEF ValidPolicy
    <2> DEFINE c == Capped(policy, attempt)
               b == Capped(policy, attempt - 1)
    <2>5. delay' \in Nat /\ c \in Nat /\ 9 * c <= delay'
      BY <2>2, <2>3 DEF ValidPolicy
    <2>6. ASSUME policy.multiplier.num >= policy.multiplier.den
          PROVE  IF policy.jitter THEN 11 * delay' >= 9 * delay ELSE delay' >= delay
      <3>1. CASE attempt = 0
        <4>1. delay = 0
          BY <2>2, <3>1 DEF DelayOfAttempt
        <4>2. \A x \in Nat : 11 * x >= 9 * 0 /\ x >= 0
          OBVIOUS
        <4> QED BY <2>5, <4>1, <4>2, Zenon
      <3>2. CASE attempt # 0
        <4>1. attempt - 1 \in Nat /\ attempt - 1 + 1 = attempt
          BY <2>2, <3>2
        <4>2. b <= c /\ b \in Nat
          BY <2>2, <2>6, <4>1, CappedGrows, CappedBounds
        <4>3. delay \in Backoff(policy, attempt - 1)
          BY <2>2, <3>2 DEF DelayOfAttempt
        <4>4. delay \in Int /\ delay <= 11 * b
          BY <2>2, <4>1, <4>3, BackoffBounds
        <4>5. 11 * delay' >= 9 * delay
          <5> HIDE DEF b, c
          <5> QED BY <2>5, <4>2, <4>4, JitteredApart, Zenon
        <4>6. ASSUME ~policy.jitter PROVE delay' >= delay
          <5>1. delay' = 10 * c /\ delay = 10 * b
            BY <2>2, <2>3, <4>1, <4>3, <4>6, BackoffBounds
          <5>2. \A x, y \in Nat : x <= y => 10 * y >= 10 * x
            OBVIOUS
          <5> HIDE DEF b, c
          <5> QED BY <2>5, <4>2, <5>1, <5>2, Zenon
        <4> QED BY <4>5, <4>6, Zenon
      <3> QED BY <3>1, <3>2
    <2> QED BY <2>4, <2>6
  <1> QED BY <1>1, <1>2, <1>3, Invariance, PTL DEF Spec, DelaysCappedAndGrowing

-----------------------------------------------------------------------------
(* The loop comes to its end                                               *)

\* How many steps the wrapper has left, at most: every attempt that is left may call
\* and sleep once.
StepsLeft == IF pc = "calling" THEN 2 * (policy.max_attempts - attempt)
             ELSE IF pc = "sleeping" THEN 2 * (policy.max_attempts - attempt) - 1
             ELSE 0

\* Each step of the loop uses up one of them.
LEMMA LoopMovesOn ==
  ASSUME LoopInv,
         \/ OperationReturns
         \/ \E e \in Errors : OperationRaises(e)
         \/ SleepEnds
         \/ \E x \in Interrupts : SleepInterrupted(x)
  PROVE  StepsLeft \in Nat /\ StepsLeft' \in Nat /\ StepsLeft' < StepsLeft
  <1> DEFINE m == policy.max_attempts
             a == attempt
  <1>1. CASE pc = "calling"
    <2>1. m \in Nat /\ a \in Nat /\ a < m
      BY <1>1 DEF LoopInv, LoopTypes, Running, ValidPolicy
    <2>2. \/ pc' \in {"returned", "raised"}
          \/ pc' = "sleeping" /\ policy' = policy /\ attempt' = attempt
      BY <1>1 DEF OperationReturns, OperationRaises, RaisesOnLastAttempt, RaisesNotRetryable,
                  RaisesPredicateError, RaisesOverflow, BacksOff, RaiseOut, SleepEnds,
                  SleepInterrupted
    <2>3. StepsLeft = 2 * (m - a) /\ (StepsLeft' = 0 \/ StepsLeft' = 2 * (m - a) - 1)
      BY <1>1, <2>2 DEF StepsLeft
    <2> HIDE DEF m, a
    <2>4. 2 * (m - a) \in Nat /\ 0 < 2 * (m - a) /\ 2 * (m - a) - 1 \in Nat
      BY <2>1
    <2> QED BY <2>1, <2>3, <2>4
  <1>2. CASE pc = "sleeping"
    <2>1. m \in Nat /\ a \in Nat /\ a + 1 < m
      BY <1>2 DEF LoopInv, LoopTypes, Running, ValidPolicy
    <2>2. \/ pc' = "raised"
          \/ pc' = "calling" /\ policy' = policy /\ attempt' = attempt + 1
      BY <1>2 DEF OperationReturns, OperationRaises, RaisesOnLastAttempt, RaisesNotRetryable,
                  RaisesPredicateError, RaisesOverflow, BacksOff, SleepEnds,
                  SleepInterrupted
    <2>3. StepsLeft = 2 * (m - a) - 1 /\ (StepsLeft' = 0 \/ StepsLeft' = 2 * (m - (a + 1)))
      BY <1>2, <2>2 DEF StepsLeft
    <2> HIDE DEF m, a
    <2>4. /\ 2 * (m - a) - 1 \in Nat /\ 0 < 2 * (m - a) - 1
          /\ 2 * (m - (a + 1)) \in Nat /\ 2 * (m - (a + 1)) < 2 * (m - a) - 1
      BY <2>1
    <2> QED BY <2>3, <2>4
  <1>3. pc \in {"calling", "sleeping"}
    BY DEF OperationReturns, OperationRaises, RaisesOnLastAttempt, RaisesNotRetryable,
           RaisesPredicateError, RaisesOverflow, BacksOff, SleepEnds, SleepInterrupted
  <1> QED BY <1>1, <1>2, <1>3

\* "max_attempts ensures bounded retries": a call that has started has at most two
\* steps for each attempt of its policy before it, every step it makes is one less,
\* and when none is left it is over.
THEOREM CallsRunOut ==
  Spec => [][IF pc = "idle"
             THEN pc' = "calling" => StepsLeft' = 2 * policy'.max_attempts
             ELSE StepsLeft' \in Nat /\ StepsLeft' < StepsLeft]_executorVars
  <1>1. IInv /\ [Next]_executorVars =>
          [IF pc = "idle"
           THEN pc' = "calling" => StepsLeft' = 2 * policy'.max_attempts
           ELSE StepsLeft' \in Nat /\ StepsLeft' < StepsLeft]_executorVars
    <2> SUFFICES ASSUME IInv, Next
                 PROVE  IF pc = "idle"
                        THEN pc' = "calling" => StepsLeft' = 2 * policy'.max_attempts
                        ELSE StepsLeft' \in Nat /\ StepsLeft' < StepsLeft
      OBVIOUS
    <2>1. CASE pc = "idle"
      <3>1. ASSUME NEW p \in Policies, Start(p)
            PROVE  StepsLeft' = 2 * policy'.max_attempts
        <4>1. pc' = "calling" /\ attempt' = 0 /\ policy' = p /\ p.max_attempts \in Nat
          BY <2>1, <3>1, PolicyAssumption DEF Start, IInv, LoopInv, ValidPolicy
        <4> QED BY <4>1 DEF StepsLeft
      <3>2. pc' = "calling" => \E p \in Policies : Start(p)
        BY <2>1 DEF Next, StartWithoutPolicy, OperationReturns, RaisesOnLastAttempt,
                    RaisesNotRetryable, RaisesPredicateError, RaisesOverflow, BacksOff,
                    SleepEnds, SleepInterrupted
      <3> QED BY <2>1, <3>1, <3>2
    <2>2. CASE pc # "idle"
      <3>1. \/ OperationReturns
            \/ \E e \in Errors : OperationRaises(e)
            \/ SleepEnds
            \/ \E x \in Interrupts : SleepInterrupted(x)
        BY <2>2 DEF Next, Start, StartWithoutPolicy, OperationRaises
      <3> QED BY <2>2, <3>1, LoopMovesOn DEF IInv
    <2> QED BY <2>1, <2>2
  <1> QED BY <1>1, Invariance, PTL DEF Spec
=============================================================================
