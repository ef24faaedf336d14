------------------------ MODULE RetryingBackendProofs -----------------------
(***************************************************************************)
(* Proofs about RetryingBackend, for any policy, errors and backends: the  *)
(* executor's part comes from RetryExecutorProofs, what the library's own  *)
(* backends answer from BuiltinBackends.                                   *)
(***************************************************************************)
EXTENDS RetryingBackend, RetryExecutorProofs, SequenceFacts

-----------------------------------------------------------------------------
(* What a send may come to                                                 *)

LEMMA OutcomesType ==
  /\ \A r \in DeliveryResult : Returned(r) \in Outcomes
  /\ \A e \in Errors : RaisedBy(e) \in Outcomes
  /\ \A o \in Outcomes : /\ o.raised \in Errors \cup {NoError}
                         /\ o.result \in DeliveryResult
  <1>1. \A r \in DeliveryResult : Returned(r).raised = NoError /\ Returned(r).result = r
    BY DEF Returned
  <1>2. \A e \in Errors : RaisedBy(e).raised = e /\ RaisedBy(e).result \in DeliveryResult
    BY DEF RaisedBy, DeliveryResult
  <1> QED BY <1>1, <1>2 DEF Outcomes

Answered == Answers \cup {"none"}

Way == [answer : Answered, outcome : Outcomes]

LEMMA UnaskedType ==
  ASSUME NEW o \in Outcomes, NEW s \in Unasked(o)
  PROVE  s \in Way /\ s.answer = "none" /\ s.outcome = o
  BY DEF Unasked, Way, Answered

\* Without a provider that answers, any error and any result.
LEMMA UnaskedWays ==
  /\ \A r \in BOOLEAN : NotDelivered(r) \in Outcomes
  /\ Delivered \in Outcomes
  /\ AttributeError \in Errors /\ RaisedBy(AttributeError) \in Outcomes
  /\ \A x \in Interrupts : RaisedBy(x) \in Outcomes
  BY OutcomesType, ErrorsAssumption, DeliveryAssumption
     DEF NotDelivered, Delivered, DeliveryResult

LEMMA PublishedType ==
  ASSUME NEW a \in Answers
  PROVE  Published(a) \in Outcomes
  BY UnaskedWays DEF Published, Classified

LEMMA AskedType ==
  ASSUME NEW s \in Asked
  PROVE  /\ s \in Way
         /\ \/ s.answer \in Answers /\ s.outcome = Published(s.answer)
            \/ s.answer = "none" /\ \E x \in Interrupts : s.outcome = RaisedBy(x)
  <1>1. CASE s \in {[answer |-> a, outcome |-> Published(a)] : a \in Answers}
    BY <1>1, PublishedType DEF Way, Answered
  <1>2. CASE \E x \in Interrupts : s \in Unasked(RaisedBy(x))
    BY <1>2, UnaskedWays, UnaskedType
  <1> QED BY <1>1, <1>2 DEF Asked, Interrupted

\* A provider's send: its answer decides, or nothing was asked.
LEMMA ProviderSends ==
  ASSUME NEW kind \in Providers, NEW e, NEW s \in Sends(kind, e)
  PROVE  /\ s \in Way
         /\ \/ s.answer \in Answers /\ s.outcome = Published(s.answer)
            \/ s.answer = "none" /\ \E x \in Interrupts \cup {AttributeError} :
                                      s.outcome = RaisedBy(x)
            \/ s.answer = "none" /\ s.outcome = Classified("no code")
  <1>1. CASE s \in Asked
    BY <1>1, AskedType
  <1>2. CASE s \in Unasked(Classified("no code"))
    BY <1>2, UnaskedWays, UnaskedType DEF Classified
  <1>3. CASE s \in Unasked(RaisedBy(AttributeError))
    BY <1>3, UnaskedWays, UnaskedType
  <1>4. Sends(kind, e) \in {SendSES(e), SendSNS(e)}
    BY DEF Sends, Providers
  <1> QED BY <1>1, <1>2, <1>3, <1>4 DEF SendSES, SendSNS

\* Any other backend: no answer, and any outcome.
LEMMA OtherSends ==
  ASSUME NEW kind \in Kinds \ Providers, NEW e, NEW s \in Sends(kind, e)
  PROVE  s \in Way /\ s.answer = "none"
  <1>1. Sends(kind, e) \in {SendLogging(e), SendCollecting(e), SendNull(e), SendCustom(e)}
    BY DEF Sends, Kinds, Providers
  <1>2. \E o \in Outcomes : s \in Unasked(o)
    <2>1. CASE s \in SendLogging(e)
      BY <2>1, UnaskedWays, OutcomesType DEF SendLogging
    <2>2. CASE s \in SendCollecting(e)
      BY <2>2, UnaskedWays DEF SendCollecting
    <2>3. CASE s \in SendNull(e)
      BY <2>3, UnaskedWays DEF SendNull
    <2>4. CASE s \in SendCustom(e)
      BY <2>4 DEF SendCustom
    <2> QED BY <1>1, <2>1, <2>2, <2>3, <2>4
  <1> QED BY <1>2, UnaskedType

LEMMA SendsType ==
  ASSUME NEW kind \in Kinds, NEW e, NEW s \in Sends(kind, e)
  PROVE  s \in Way
  BY ProviderSends, OtherSends

\* What the answers lead to.
LEMMA AnswersTell ==
  ASSUME NEW kind \in Kinds, NEW e, NEW s \in Sends(kind, e)
  PROVE  /\ s.answer = "confirmed" => s.outcome = Delivered
         /\ s.answer = "transient code" => s.outcome = NotDelivered(TRUE)
         /\ kind \in Providers =>
              \/ s.answer = "transient code"
              \/ Final(s.outcome)
              \/ s.outcome.raised \in {AttributeError} \cup Interrupts
  <1>1. CASE kind \in Providers
    <2>1. CASE s.answer \in Answers /\ s.outcome = Published(s.answer)
      <3>1. s.answer = "confirmed" => s.outcome = Delivered
        BY <2>1 DEF Published
      <3>2. s.answer = "transient code" => s.outcome = NotDelivered(TRUE)
        BY <2>1 DEF Published, Classified
      <3>3. Final(Delivered) /\ Final(NotDelivered(FALSE))
        BY DEF Final, Delivered, NotDelivered, Returned
      <3>4. s.answer = "None" => s.outcome.raised = AttributeError
        BY <2>1 DEF Published, RaisedBy
      <3>5. s.answer \in {"other code", "no code"} => s.outcome = NotDelivered(FALSE)
        BY <2>1 DEF Published, Classified
      <3> QED BY <2>1, <3>1, <3>2, <3>3, <3>4, <3>5 DEF Answers
    <2>2. CASE s.answer = "none" /\ \E x \in Interrupts \cup {AttributeError} :
                                      s.outcome = RaisedBy(x)
      BY <2>2 DEF RaisedBy
    <2>3. CASE s.answer = "none" /\ s.outcome = Classified("no code")
      <3>1. s.outcome = NotDelivered(FALSE)
        BY <2>3 DEF Classified
      <3>2. Final(NotDelivered(FALSE))
        BY DEF Final, NotDelivered, Returned
      <3> QED BY <2>3, <3>1, <3>2
    <2> QED BY <1>1, <2>1, <2>2, <2>3, ProviderSends
  <1>2. CASE kind \notin Providers
    BY <1>2, OtherSends
  <1> QED BY <1>1, <1>2

-----------------------------------------------------------------------------
(* The policy send() makes                                                 *)

LEMMA WithPredicateType ==
  ASSUME NEW p \in Policies
  PROVE  /\ ValidPolicy(WithPredicate(p))
         /\ WithPredicate(p).max_attempts = p.max_attempts
         /\ p.max_attempts \in Nat \ {0}
         /\ WrappedPredicate(p) \in [Raisable -> Verdicts]
         /\ \A e \in Raisable :
              /\ ShouldRetry(WithPredicate(p), e) = WrappedPredicate(p)[e]
              /\ e # Delivery => WrappedPredicate(p)[e] = ShouldRetry(p, e)
         /\ Delivery \in Raisable /\ WrappedPredicate(p)[Delivery] = "retry"
  <1>1. ValidPolicy(p)
    BY PolicyAssumption
  <1>2. \A e \in Raisable : ShouldRetry(p, e) \in Verdicts
    BY <1>1 DEF ValidPolicy, ShouldRetry, Verdicts
  <1>3. WrappedPredicate(p) \in [Raisable -> Verdicts]
    BY <1>2 DEF WrappedPredicate, Verdicts
  <1>4. /\ WithPredicate(p).should_retry = WrappedPredicate(p)
        /\ WithPredicate(p).max_attempts = p.max_attempts
        /\ ValidPolicy(WithPredicate(p)) /\ p.max_attempts \in Nat \ {0}
    BY <1>1, <1>3 DEF WithPredicate, ValidPolicy
  <1>5. ASSUME NEW e \in Raisable
        PROVE  ShouldRetry(WithPredicate(p), e) = WrappedPredicate(p)[e]
    BY <1>3, <1>4, ErrorsAssumption DEF ShouldRetry
  <1>6. Delivery \in Raisable
    BY DeliveryAssumption DEF Raisable
  <1>7. \A e \in Raisable : WrappedPredicate(p)[e] =
                              IF e = Delivery THEN "retry" ELSE ShouldRetry(p, e)
    BY DEF WrappedPredicate
  <1> QED BY <1>3, <1>4, <1>5, <1>6, <1>7

-----------------------------------------------------------------------------
(* The inductive invariant                                                 *)

\* The error attempt_send makes of an outcome that is not final.
Led(o, e) == IF o.raised = NoError THEN o.result.retryable /\ e = Delivery
                                   ELSE e = o.raised /\ e # Delivery

\* What was sent so far, against where the executor is.
SentInv ==
  /\ pc = "idle" => sent = <<>>
  /\ pc = "calling" => Len(sent) = attempt
  /\ pc \in {"sleeping", "returned", "raised"} => Len(sent) = attempt + 1
  /\ pc # "idle" => policy = WithPredicate(given)
  /\ pc = "raised" => error \in Errors
  /\ \A i \in 1..Len(sent) :
       [answer |-> answers[i], outcome |-> sent[i]] \in Sends(inner, event)
  /\ \A i \in 1..Len(sent) :
       i < Len(sent) \/ pc = "calling" => Retryable(given, sent[i])
  /\ pc \in {"sleeping", "raised"} => Led(sent[Len(sent)], error)
  /\ pc = "returned" => Final(sent[Len(sent)])

\* The executor gave up with an error that is one to fall back on.
GaveUp ==
  /\ pc = "raised" /\ raised \in Raisable \ Interrupts
  /\ WrappedPredicate(given)[raised] # "raises"
  /\ detail = IF WrappedPredicate(given)[raised] = "retry"
              THEN "exhausted retries" ELSE "non-retryable exception"

InnerReturned ==
  /\ pc = "returned" /\ dead_sent = <<>> /\ detail = "inner"
  /\ delivered = sent[Len(sent)].result.delivered

\* How send() came to the phase it is in.
PhaseInv ==
  /\ phase = "sending" => dead_sent = <<>> /\ detail = "inner" /\ delivered = FALSE
  /\ phase # "sending" => pc \in {"returned", "raised"}
  /\ phase \in {"sending", "dead_letter"} => warned = "no"
  /\ phase = "dead_letter" => GaveUp /\ dead_letter /\ dead_sent = <<>> /\ delivered = FALSE
  /\ phase = "returned" =>
       \/ InnerReturned
       \/ GaveUp /\ ~dead_letter /\ dead_sent = <<>> /\ delivered = FALSE
       \/ GaveUp /\ dead_letter /\ \E o \in Outcomes : /\ dead_sent = <<o>>
                                                     /\ delivered = o.result.delivered
  /\ phase = "raised" =>
       \/ /\ pc = "raised" /\ dead_sent = <<>> /\ detail = "inner"
          /\ \/ raised \in Interrupts
             \/ /\ raised \in Raisable \ {Delivery}
                /\ WrappedPredicate(given)[raised] = "raises"
       \/ /\ GaveUp /\ dead_letter
          /\ \E e \in Errors : /\ dead_sent = <<RaisedBy(e)>>
                               /\ e \in Interrupts \/ warned = "raised"

SendInv == SendTypeOK /\ LoopInv /\ SentInv /\ PhaseInv

\* An outcome whose error the made policy retries is one the given policy retries.
LEMMA LedRetryable ==
  ASSUME NEW p \in Policies, NEW o, NEW e \in Errors, Led(o, e),
         ShouldRetry(WithPredicate(p), e) = "retry"
  PROVE  Retryable(p, o)
  <1>1. CASE o.raised = NoError
    BY <1>1 DEF Led, Retryable
  <1>2. CASE o.raised # NoError
    <2>1. e = o.raised /\ e # Delivery /\ e \in Raisable
      BY <1>2 DEF Led, Raisable
    <2>2. ShouldRetry(p, e) = "retry"
      BY <2>1, WithPredicateType
    <2> QED BY <1>2, <2>1, <2>2, ShouldRetryAdmits DEF Retryable
  <1> QED BY <1>1, <1>2

\* ... and one that it stops at is not.
LEMMA LedNotRetryable ==
  ASSUME NEW p \in Policies, NEW o, NEW e \in Errors, Led(o, e),
         ShouldRetry(WithPredicate(p), e) = "stop"
  PROVE  ~Retryable(p, o) /\ o.raised = e /\ e # Delivery
  <1>1. e \in Raisable /\ e # Delivery
    BY WithPredicateType DEF Raisable
  <1>2. ShouldRetry(p, e) = "stop" /\ o.raised = e /\ e # NoError
    BY <1>1, WithPredicateType, ErrorsAssumption DEF Led
  <1> QED BY <1>1, <1>2, ShouldRetryAdmits DEF Retryable

LEMMA LedNotFinal ==
  ASSUME NEW o, NEW e, Led(o, e)
  PROVE  ~Final(o)
  BY DEF Led, Final

-----------------------------------------------------------------------------
(* The steps of the loop                                                   *)

LEMMA SendInitInv == SendInit => SendInv
  <1> SUFFICES ASSUME SendInit PROVE SendInv
    OBVIOUS
  <1>1. LoopInv
    BY ExecutorInitInv DEF SendInit
  <1>2. SendTypeOK
    <2>1. /\ sent \in Seq(Outcomes) /\ dead_sent \in Seq(Outcomes)
          /\ answers \in Seq(Answers \cup {"none"}) /\ Len(answers) = Len(sent)
      BY DEF SendInit
    <2>2. detail \in Details
      BY DEF SendInit, Details
    <2> QED BY <2>1, <2>2 DEF SendInit, ExecutorInit, SendTypeOK
  <1>3. SentInv /\ PhaseInv
    BY DEF SendInit, ExecutorInit, SentInv, PhaseInv
  <1> QED BY <1>1, <1>2, <1>3 DEF SendInv

LEMMA SendStartsStep ==
  ASSUME SendInv, SendStarts
  PROVE  SendInv'
  <1> DEFINE p == WithPredicate(given)
  <1>1. given \in Policies /\ LoopInv /\ Start(p) /\ UNCHANGED backendVars
    BY DEF SendInv, SendTypeOK, SendStarts
  <1>2. LoopInv'
    BY <1>1, WithPredicateType, StartStep
  <1>3. /\ pc = "idle" /\ pc' = "calling" /\ policy' = p /\ attempt' = 0 /\ sent = <<>>
        /\ Len(sent) = 0
    BY <1>1 DEF Start, LoopInv, SendInv, SentInv
  <1>4. SendTypeOK'
    BY <1>1, <1>3 DEF SendInv, SendTypeOK, backendVars, config
  <1>5. SentInv'
    BY <1>1, <1>3 DEF SentInv, backendVars, config
  <1>6. phase = "sending"
    BY <1>3 DEF SendInv, PhaseInv
  <1>7. PhaseInv'
    BY <1>1, <1>6 DEF SendInv, PhaseInv, backendVars
  <1> QED BY <1>2, <1>4, <1>5, <1>7 DEF SendInv

\* inner.send has gone some way, and the executor knows.
LEMMA TakesStep ==
  ASSUME SendInv, NEW s \in Sends(inner, event), Takes(s), pc = "calling", LoopInv',
         UNCHANGED <<policy, attempt>>,
         \/ pc' = "returned" /\ Final(s.outcome)
         \/ pc' \in {"sleeping", "raised"} /\ error' \in Errors /\ Led(s.outcome, error')
  PROVE  SendInv'
  <1>1. s \in Way /\ s = [answer |-> s.answer, outcome |-> s.outcome]
    BY SendsType DEF SendInv, SendTypeOK, Way
  <1>2. /\ sent \in Seq(Outcomes) /\ answers \in Seq(Answered) /\ Len(answers) = Len(sent)
        /\ s.outcome \in Outcomes /\ s.answer \in Answered
    BY <1>1 DEF SendInv, SendTypeOK, Way, Answered
  <1>3. /\ sent' \in Seq(Outcomes) /\ answers' \in Seq(Answered)
        /\ Len(sent') = Len(sent) + 1 /\ Len(answers') = Len(sent) + 1
        /\ Len(sent) \in Nat
        /\ sent'[Len(sent) + 1] = s.outcome /\ answers'[Len(sent) + 1] = s.answer
        /\ \A i \in 1..Len(sent) : sent'[i] = sent[i] /\ answers'[i] = answers[i]
    BY <1>2 DEF Takes
  <1>4. /\ UNCHANGED <<given, inner, dead_letter, event, phase, detail, dead_sent, delivered, warned>>
    BY DEF Takes, config
  <1>5. SendTypeOK'
    BY <1>2, <1>3, <1>4 DEF SendInv, SendTypeOK, Answered
  <1>6. policy = WithPredicate(given) /\ Len(sent) = attempt
    BY DEF SendInv, SentInv
  <1>7. \A i \in 1..Len(sent') : i \in 1..Len(sent) \/ i = Len(sent) + 1
    BY <1>3
  <1>8. \A i \in 1..Len(sent') :
          [answer |-> answers'[i], outcome |-> sent'[i]] \in Sends(inner, event)
    BY <1>1, <1>3, <1>7 DEF SendInv, SentInv
  <1>9. \A i \in 1..Len(sent') : i < Len(sent') => Retryable(given, sent'[i])
    BY <1>3, <1>7 DEF SendInv, SentInv
  <1>10. SentInv'
    BY <1>3, <1>4, <1>6, <1>8, <1>9 DEF SentInv
  <1>11. PhaseInv'
    BY <1>4 DEF SendInv, PhaseInv
  <1> QED BY <1>5, <1>10, <1>11 DEF SendInv

LEMMA RaisesFacts ==
  ASSUME NEW e \in Errors, OperationRaises(e)
  PROVE  /\ pc = "calling" /\ pc' \in {"sleeping", "raised"} /\ error' = e
         /\ UNCHANGED <<policy, attempt>>
  BY DEF OperationRaises, RaisesOnLastAttempt, RaisesNotRetryable, RaisesPredicateError,
         RaisesOverflow, BacksOff, RaiseOut

LEMMA InnerReturnsRetryableStep ==
  ASSUME SendInv, NEW s \in Sends(inner, event), InnerReturnsRetryable(s)
  PROVE  SendInv'
  <1>1. Delivery \in Errors
    BY DeliveryAssumption
  <1>2. LoopInv'
    BY <1>1, OperationRaisesStep DEF SendInv, InnerReturnsRetryable
  <1>3. Led(s.outcome, Delivery)
    BY DEF InnerReturnsRetryable, Led
  <1> QED BY <1>1, <1>2, <1>3, RaisesFacts, TakesStep DEF InnerReturnsRetryable

LEMMA InnerReturnsFinalStep ==
  ASSUME SendInv, NEW s \in Sends(inner, event), InnerReturnsFinal(s)
  PROVE  SendInv'
  <1>1. LoopInv'
    BY OperationReturnsStep DEF SendInv, InnerReturnsFinal
  <1>2. Final(s.outcome)
    BY DEF InnerReturnsFinal, Final
  <1>3. pc = "calling" /\ pc' = "returned" /\ UNCHANGED <<policy, attempt>>
    BY DEF InnerReturnsFinal, OperationReturns
  <1> QED BY <1>1, <1>2, <1>3, TakesStep DEF InnerReturnsFinal

LEMMA InnerRaisesStep ==
  ASSUME SendInv, NEW s \in Sends(inner, event), InnerRaises(s)
  PROVE  SendInv'
  <1> DEFINE e == s.outcome.raised
  <1>1. e \in Errors /\ Led(s.outcome, e)
    BY SendsType, OutcomesType DEF SendInv, SendTypeOK, Way, InnerRaises, Led
  <1>2. LoopInv'
    BY <1>1, OperationRaisesStep DEF SendInv, InnerRaises
  <1> QED BY <1>1, <1>2, RaisesFacts, TakesStep DEF InnerRaises

LEMMA SleepsStep ==
  ASSUME SendInv, Sleeps
  PROVE  SendInv'
  <1>1. /\ pc = "sleeping" /\ error \in Errors /\ policy = WithPredicate(given)
        /\ Len(sent) = attempt + 1 /\ attempt \in Nat /\ given \in Policies
        /\ Led(sent[Len(sent)], error) /\ ShouldRetry(policy, error) = "retry"
    BY DEF Sleeps, SleepEnds, SleepInterrupted, SendInv, LoopInv, LoopTypes, SentInv, SendTypeOK
  <1>2. Retryable(given, sent[Len(sent)])
    BY <1>1, LedRetryable
  <1>3. UNCHANGED <<given, inner, dead_letter, event, phase, sent, answers, detail,
                    dead_sent, delivered, warned, policy, error>>
    BY DEF Sleeps, SleepEnds, SleepInterrupted, backendVars, config
  <1>4. SendTypeOK'
    BY <1>3 DEF SendInv, SendTypeOK
  <1>5. phase = "sending"
    BY <1>1 DEF SendInv, PhaseInv
  <1>6. PhaseInv'
    BY <1>3, <1>5 DEF SendInv, PhaseInv
  <1>7. CASE SleepEnds
    <2>1. LoopInv' /\ pc' = "calling" /\ attempt' = attempt + 1
      BY <1>7, SleepEndsStep DEF SendInv, SleepEnds
    <2>2. \A i \in 1..Len(sent) : Retryable(given, sent[i])
      BY <1>1, <1>2 DEF SendInv, SentInv
    <2>3. SentInv'
      BY <1>1, <1>3, <2>1, <2>2 DEF SendInv, SentInv
    <2> QED BY <1>4, <1>6, <2>1, <2>3 DEF SendInv
  <1>8. ASSUME NEW x \in Interrupts, SleepInterrupted(x) PROVE SendInv'
    <2>1. LoopInv' /\ pc' = "raised" /\ attempt' = attempt
      BY <1>8, SleepInterruptedStep DEF SendInv, SleepInterrupted
    <2>2. SentInv'
      BY <1>1, <1>3, <2>1 DEF SendInv, SentInv
    <2> QED BY <1>4, <1>6, <2>1, <2>2 DEF SendInv
  <1> QED BY <1>7, <1>8 DEF Sleeps

-----------------------------------------------------------------------------
(* The executor has ended                                                  *)

\* What the executor knows stays when only send() moves on.
LEMMA LoopStays ==
  ASSUME SendInv, UNCHANGED <<executorVars, config, sent, answers>>
  PROVE  /\ LoopInv' /\ SentInv'
         /\ UNCHANGED <<pc, raised, given, inner, dead_letter, event, policy, sent, answers>>
  BY DEF SendInv, LoopInv, LoopTypes, Running, WhyRaised, LastAttempt, SentInv,
         executorVars, config

LEMMA RaisedWhere ==
  ASSUME SendInv, pc = "raised"
  PROVE  raised \in Raisable /\ error \in Errors /\ WhyRaised
  BY ErrorsAssumption DEF SendInv, LoopInv, SentInv, WhyRaised, Raisable

LEMMA ReturnsInnerResultStep ==
  ASSUME SendInv, ReturnsInnerResult
  PROVE  SendInv'
  <1>1. /\ phase = "sending" /\ pc = "returned" /\ phase' = "returned"
        /\ delivered' = sent[Len(sent)].result.delivered /\ detail' = "inner"
        /\ UNCHANGED <<executorVars, config, sent, answers, dead_sent, warned>>
    BY DEF ReturnsInnerResult, Return, Last
  <1>2. /\ LoopInv' /\ SentInv'
        /\ UNCHANGED <<pc, raised, given, inner, dead_letter, event, policy, sent, answers>>
    BY <1>1, LoopStays
  <1>3. sent[Len(sent)] \in Outcomes
    <2>1. /\ sent \in Seq(Outcomes) /\ Len(sent) = attempt + 1 /\ attempt \in Nat
      BY <1>1 DEF SendInv, SendTypeOK, SentInv, LoopInv, LoopTypes
    <2> QED BY <2>1, ElementOfSeq
  <1>4. delivered' \in BOOLEAN
    BY <1>1, <1>3, OutcomesType DEF DeliveryResult
  <1>5. SendTypeOK'
    BY <1>1, <1>2, <1>4 DEF SendInv, SendTypeOK, Details
  <1>6. PhaseInv'
    BY <1>1, <1>2 DEF SendInv, PhaseInv, InnerReturned
  <1> QED BY <1>2, <1>5, <1>6 DEF SendInv

\* The dead-letter backend is next, or there is a result that says not delivered.
LEMMA FallBackStep ==
  ASSUME SendInv, phase = "sending", pc = "raised", raised \in Raisable \ Interrupts,
         WrappedPredicate(given)[raised] # "raises",
         NEW text, text = IF WrappedPredicate(given)[raised] = "retry"
                          THEN "exhausted retries" ELSE "non-retryable exception",
         FallBack(text)
  PROVE  SendInv'
  <1>1. /\ detail' = text /\ UNCHANGED <<executorVars, config, sent, answers, dead_sent, warned>>
        /\ delivered = FALSE /\ dead_sent = <<>> /\ warned = "no"
        /\ delivered' = FALSE
        /\ phase' = IF dead_letter THEN "dead_letter" ELSE "returned"
    BY DEF FallBack, Return, SendInv, PhaseInv
  <1>2. /\ LoopInv' /\ SentInv'
        /\ UNCHANGED <<pc, raised, given, inner, dead_letter, event, policy, sent, answers>>
    BY <1>1, LoopStays
  <1>3. GaveUp'
    BY <1>1, <1>2 DEF GaveUp
  <1>4. detail' \in Details
    BY <1>1 DEF Details
  <1>5. SendTypeOK'
    BY <1>1, <1>2, <1>4 DEF SendInv, SendTypeOK
  <1>6. PhaseInv'
    BY <1>1, <1>2, <1>3 DEF PhaseInv
  <1> QED BY <1>2, <1>5, <1>6 DEF SendInv

LEMMA GivesUpOnDeliveryStep ==
  ASSUME SendInv, GivesUpOnDelivery
  PROVE  SendInv'
  <1>1. Delivery \in Raisable \ Interrupts /\ WrappedPredicate(given)[Delivery] = "retry"
    BY WithPredicateType, DeliveryAssumption DEF SendInv, SendTypeOK
  <1> QED BY <1>1, FallBackStep DEF GivesUpOnDelivery

LEMMA GivesUpOnExceptionStep ==
  ASSUME SendInv, GivesUpOnException
  PROVE  SendInv'
  BY RaisedWhere, FallBackStep DEF GivesUpOnException

\* What send() itself raises.
LEMMA RaisesOutStep ==
  ASSUME SendInv, phase = "sending", pc = "raised",
         \/ raised \in Interrupts
         \/ raised \in Raisable \ {Delivery} /\ WrappedPredicate(given)[raised] = "raises",
         phase' = "raised",
         UNCHANGED <<executorVars, config, sent, answers, detail, dead_sent, delivered, warned>>
  PROVE  SendInv'
  <1>1. /\ LoopInv' /\ SentInv'
        /\ UNCHANGED <<pc, raised, given, inner, dead_letter, event, policy, sent, answers>>
    BY LoopStays
  <1>2. SendTypeOK'
    BY <1>1 DEF SendInv, SendTypeOK
  <1>3. PhaseInv'
    BY <1>1 DEF SendInv, PhaseInv
  <1> QED BY <1>1, <1>2, <1>3 DEF SendInv

LEMMA GivesUpPredicateRaisesStep ==
  ASSUME SendInv, GivesUpPredicateRaises
  PROVE  SendInv'
  BY RaisedWhere, RaisesOutStep DEF GivesUpPredicateRaises

LEMMA InterruptPassesStep ==
  ASSUME SendInv, InterruptPasses
  PROVE  SendInv'
  BY RaisesOutStep DEF InterruptPasses

-----------------------------------------------------------------------------
(* The dead-letter backend                                                 *)

LEMMA DeadLetterStep ==
  ASSUME SendInv, phase = "dead_letter", NEW o \in Outcomes,
         dead_sent' = Append(dead_sent, o), delivered' = o.result.delivered,
         warned' \in {"no", "yes", "raised"},
         \/ phase' = "returned"
         \/ /\ phase' = "raised"
            /\ \E e \in Errors : o = RaisedBy(e) /\ (e \in Interrupts \/ warned' = "raised"),
         UNCHANGED <<executorVars, config, sent, answers, detail>>
  PROVE  SendInv'
  <1>1. /\ LoopInv' /\ SentInv'
        /\ UNCHANGED <<pc, raised, given, inner, dead_letter, event, policy, sent, answers>>
    BY LoopStays
  <1>2. GaveUp /\ dead_letter /\ dead_sent = <<>>
    BY DEF SendInv, PhaseInv
  <1>3. dead_sent' = <<o>>
    BY <1>2
  <1>4. delivered' \in BOOLEAN
    BY OutcomesType DEF DeliveryResult
  <1>5. dead_sent' \in Seq(Outcomes)
    BY <1>3
  <1>6. SendTypeOK'
    BY <1>1, <1>4, <1>5 DEF SendInv, SendTypeOK
  <1>7. GaveUp'
    BY <1>1, <1>2 DEF GaveUp
  <1>8. PhaseInv'
    <2>1. CASE phase' = "returned"
      BY <1>1, <1>2, <1>3, <1>7, <2>1 DEF PhaseInv, GaveUp
    <2>2. CASE phase' = "raised"
      <3>1. PICK e \in Errors : o = RaisedBy(e) /\ (e \in Interrupts \/ warned' = "raised")
        BY <2>2
      <3>2. (dead_sent = <<RaisedBy(e)>> /\ (e \in Interrupts \/ warned = "raised"))'
        BY <1>3, <3>1 DEF RaisedBy
      <3> QED BY <1>1, <1>2, <1>7, <2>2, <3>2 DEF PhaseInv, GaveUp
    <2> QED BY <2>1, <2>2
  <1> QED BY <1>1, <1>6, <1>8 DEF SendInv

LEMMA DeadLetterReturnsStep ==
  ASSUME SendInv, NEW r \in DeliveryResult, DeadLetterReturns(r)
  PROVE  SendInv'
  <1>1. Returned(r) \in Outcomes /\ Returned(r).result.delivered = r.delivered
    BY OutcomesType DEF Returned
  <1>2. warned' = "no"
    BY DEF DeadLetterReturns, SendInv, PhaseInv
  <1> QED BY <1>1, <1>2, DeadLetterStep DEF DeadLetterReturns

LEMMA DeadLetterFailsStep ==
  ASSUME SendInv, NEW e \in Errors,
         \/ DeadLetterRaises(e) \/ WarningRaises(e)
         \/ e \in Interrupts /\ DeadLetterInterrupted(e)
  PROVE  SendInv'
  <1>1. RaisedBy(e) \in Outcomes /\ RaisedBy(e).result.delivered = FALSE
    BY OutcomesType DEF RaisedBy
  <1>2. /\ phase = "dead_letter" /\ dead_sent' = Append(dead_sent, RaisedBy(e))
        /\ warned' \in {"no", "yes", "raised"}
        /\ phase' = "returned" \/ (phase' = "raised" /\ (e \in Interrupts \/ warned' = "raised"))
        /\ UNCHANGED <<executorVars, config, sent, answers, detail, delivered>>
    BY DEF DeadLetterRaises, WarningRaises, DeadLetterInterrupted, DeadLetterFails
  <1>3. delivered = FALSE
    BY <1>2 DEF SendInv, PhaseInv
  <1> QED BY <1>1, <1>2, <1>3, DeadLetterStep

-----------------------------------------------------------------------------
(* The invariant                                                           *)

LEMMA SendNextInv == SendInv /\ [SendNext]_sendVars => SendInv'
  <1> SUFFICES ASSUME SendInv, [SendNext]_sendVars PROVE SendInv'
    OBVIOUS
  <1>1. CASE SendStarts
    BY <1>1, SendStartsStep
  <1>2. CASE \E s \in Sends(inner, event) : InnerReturnsRetryable(s)
    BY <1>2, InnerReturnsRetryableStep
  <1>3. CASE \E s \in Sends(inner, event) : InnerReturnsFinal(s)
    BY <1>3, InnerReturnsFinalStep
  <1>4. CASE \E s \in Sends(inner, event) : InnerRaises(s)
    BY <1>4, InnerRaisesStep
  <1>5. CASE Sleeps
    BY <1>5, SleepsStep
  <1>6. CASE ReturnsInnerResult
    BY <1>6, ReturnsInnerResultStep
  <1>7. CASE GivesUpOnDelivery
    BY <1>7, GivesUpOnDeliveryStep
  <1>8. CASE GivesUpOnException
    BY <1>8, GivesUpOnExceptionStep
  <1>9. CASE GivesUpPredicateRaises
    BY <1>9, GivesUpPredicateRaisesStep
  <1>10. CASE InterruptPasses
    BY <1>10, InterruptPassesStep
  <1>11. CASE \E r \in DeliveryResult : DeadLetterReturns(r)
    BY <1>11, DeadLetterReturnsStep
  <1>12. CASE \E e \in Errors : DeadLetterRaises(e)
    BY <1>12, DeadLetterFailsStep
  <1>13. CASE \E e \in Errors : WarningRaises(e)
    BY <1>13, DeadLetterFailsStep
  <1>14. CASE \E x \in Interrupts : DeadLetterInterrupted(x)
    BY <1>14, DeadLetterFailsStep, ErrorsAssumption
  <1>15. CASE UNCHANGED sendVars
    <2>1. UNCHANGED <<executorVars, config, sent, answers>>
      BY <1>15 DEF sendVars, backendVars
    <2>2. /\ LoopInv' /\ SentInv'
          /\ UNCHANGED <<pc, raised, given, inner, dead_letter, event, policy, sent, answers>>
      BY <2>1, LoopStays
    <2>3. UNCHANGED <<phase, detail, dead_sent, delivered, warned>>
      BY <1>15 DEF sendVars, backendVars
    <2>4. SendTypeOK'
      BY <2>2, <2>3 DEF SendInv, SendTypeOK
    <2>5. GaveUp' = GaveUp /\ InnerReturned' = InnerReturned
      BY <2>2, <2>3 DEF GaveUp, InnerReturned
    <2>6. PhaseInv'
      BY <2>2, <2>3, <2>5 DEF SendInv, PhaseInv
    <2> QED BY <2>2, <2>4, <2>6 DEF SendInv
  <1> QED BY <1>1, <1>2, <1>3, <1>4, <1>5, <1>6, <1>7, <1>8, <1>9, <1>10, <1>11,
             <1>12, <1>13, <1>14, <1>15 DEF SendNext

LEMMA SendInvariance == SendSpec => []SendInv
  BY SendInitInv, SendNextInv, PTL DEF SendSpec

-----------------------------------------------------------------------------
(* Theorems                                                                *)

\* Every variable of send() keeps its type; the dead-letter backend is used only
\* where there is one.
THEOREM SendTypeCorrect == SendSpec => []SendTypeOK
  <1>1. SendInv => SendTypeOK
    BY DEF SendInv
  <1> QED BY <1>1, SendInvariance, PTL

\* The sends to the inner backend, in the terms of the sequences.
LEMMA SentFacts ==
  ASSUME SendInv
  PROVE  /\ sent \in Seq(Outcomes) /\ Len(sent) \in Nat /\ given \in Policies
         /\ inner \in Kinds /\ Len(answers) = Len(sent) /\ DOMAIN answers = 1..Len(sent)
         /\ pc \in {"idle", "calling", "sleeping", "returned", "raised"}
         /\ pc \in {"sleeping", "returned", "raised"} =>
              Len(sent) = attempt + 1 /\ Len(sent) \in 1..Len(sent)
  BY DEF SendInv, SendTypeOK, SentInv, LoopInv, LoopTypes

LEMMA ResendsInv ==
  ASSUME SendInv
  PROVE  ResendsOnlyRetryable
  <1>1. given \in Policies /\ given.max_attempts \in Nat \ {0}
    BY WithPredicateType, SentFacts
  <1>2. CASE pc = "idle"
    <2>1. Len(sent) = 0
      BY <1>2 DEF SendInv, SentInv
    <2> QED BY <1>1, <2>1 DEF ResendsOnlyRetryable
  <1>3. CASE pc # "idle"
    <2>1. /\ policy = WithPredicate(given) /\ attempt \in Nat
          /\ Len(sent) = attempt \/ Len(sent) = attempt + 1
      BY <1>3 DEF SendInv, SentInv, LoopInv, LoopTypes
    <2>2. Running \/ error # NoError
      BY <1>3, RaisedWhere, ErrorsAssumption DEF Running, Raisable, SendInv, LoopInv, LoopTypes
    <2>3. attempt < policy.max_attempts
      BY <2>2 DEF SendInv, LoopInv
    <2>4. policy.max_attempts = given.max_attempts
      BY <1>1, <2>1, WithPredicateType
    <2>5. Len(sent) <= given.max_attempts
      BY <1>1, <2>1, <2>3, <2>4
    <2>6. \A i \in 1..Len(sent) - 1 : i \in 1..Len(sent) /\ i < Len(sent)
      BY SentFacts
    <2> QED BY <2>5, <2>6 DEF SendInv, SentInv, ResendsOnlyRetryable
  <1> QED BY <1>2, <1>3

\* The inner backend gets the event again only after a failure that the policy, as
\* the application wrote it, retries, and never more than max_attempts times.
THEOREM OnlyRetryableResent == SendSpec => []ResendsOnlyRetryable
  <1>1. SendInv => ResendsOnlyRetryable
    BY ResendsInv
  <1> QED BY <1>1, SendInvariance, PTL

\* How an executor that gave up left the last outcome.
LEMMA GaveUpAfter ==
  ASSUME SendInv, GaveUp
  PROVE  LET last == sent[Len(sent)] IN
         /\ ~Final(last) /\ Led(last, error) /\ error \in Errors
         /\ \/ raised = error /\ Len(sent) = given.max_attempts
            \/ raised = error /\ ~Retryable(given, last) /\ last.raised = error
               /\ error # Delivery
            \/ raised \in {PredicateError, OverflowError} /\ Len(sent) < given.max_attempts
  <1> DEFINE last == sent[Len(sent)]
  <1>1. /\ pc = "raised" /\ raised \notin Interrupts /\ given \in Policies
        /\ policy = WithPredicate(given) /\ Led(last, error) /\ Len(sent) = attempt + 1
        /\ attempt \in Nat
    BY DEF GaveUp, SendInv, SentInv, SendTypeOK, LoopInv, LoopTypes
  <1>2. error \in Errors /\ WhyRaised
    BY <1>1, RaisedWhere
  <1>3. policy.max_attempts = given.max_attempts /\ given.max_attempts \in Nat
    BY <1>1, WithPredicateType
  <1>4. ~Final(last)
    BY <1>1, LedNotFinal
  <1>5. CASE raised = error /\ LastAttempt
    <2>1. Len(sent) = given.max_attempts
      BY <1>1, <1>3, <1>5 DEF LastAttempt
    <2> QED BY <2>1, <1>1, <1>2, <1>4, <1>5
  <1>6. CASE raised = error /\ ShouldRetry(policy, error) = "stop"
    <2>1. ~Retryable(given, last) /\ last.raised = error /\ error # Delivery
      BY <1>1, <1>2, <1>6, LedNotRetryable
    <2> QED BY <2>1, <1>1, <1>2, <1>4, <1>6
  <1>7. CASE ~LastAttempt /\ raised \in {PredicateError, OverflowError}
    <2>1. attempt < policy.max_attempts
      BY <1>1, <1>2, ErrorsAssumption DEF SendInv, LoopInv, Raisable
    <2>2. Len(sent) < given.max_attempts
      BY <1>1, <1>3, <1>7, <2>1 DEF LastAttempt
    <2> QED BY <2>2, <1>1, <1>2, <1>4, <1>7
  <1> QED BY <1>1, <1>2, <1>5, <1>6, <1>7 DEF WhyRaised

LEMMA DeadLetterInv ==
  ASSUME SendInv
  PROVE  DeadLetterIsLastResort
  <1> SUFFICES ASSUME phase = "dead_letter" \/ dead_sent # <<>>
               PROVE  /\ Len(dead_sent) = IF phase = "dead_letter" THEN 0 ELSE 1
                      /\ sent # <<>> /\ ~Final(Last(sent))
                      /\ \/ Len(sent) = given.max_attempts
                         \/ ~Retryable(given, Last(sent))
                         \/ raised \in {PredicateError, OverflowError}
    BY DEF DeadLetterIsLastResort
  <1>1. GaveUp /\ Len(dead_sent) = IF phase = "dead_letter" THEN 0 ELSE 1
    <2>1. CASE phase = "dead_letter"
      BY <2>1 DEF SendInv, PhaseInv
    <2>2. CASE phase # "dead_letter"
      <3>1. phase \in {"returned", "raised"}
        BY <2>2 DEF SendInv, SendTypeOK, PhaseInv
      <3>2. GaveUp /\ \E o : dead_sent = <<o>>
        BY <2>2, <3>1 DEF SendInv, PhaseInv, InnerReturned
      <3> QED BY <2>2, <3>2
    <2> QED BY <2>1, <2>2
  <1>2. Len(sent) # 0
    <2>1. pc \in {"sleeping", "returned", "raised"}
      BY <1>1 DEF GaveUp
    <2>2. Len(sent) \in 1..Len(sent) /\ Len(sent) \in Nat
      BY <2>1, SentFacts
    <2> QED BY <2>2
  <1>3. sent # <<>>
    BY <1>2, EmptySeq
  <1> QED BY <1>1, <1>3, GaveUpAfter DEF Last

\* The dead-letter backend gets the event at most once, and when the policy leaves
\* no further attempt at the inner one.
THEOREM DeadLetterLast == SendSpec => []DeadLetterIsLastResort
  <1>1. SendInv => DeadLetterIsLastResort
    BY DeadLetterInv
  <1> QED BY <1>1, SendInvariance, PTL

\* What the second answer of the predicate says of the error that it is asked about.
LEMMA SecondAnswer ==
  ASSUME SendInv, GaveUp
  PROVE  /\ raised \in Raisable /\ given \in Policies
         /\ detail = "exhausted retries" =>
              ShouldRetry(WithPredicate(given), raised) = "retry"
         /\ detail = "non-retryable exception" =>
              ShouldRetry(WithPredicate(given), raised) = "stop" /\ raised # Delivery
  <1>1. raised \in Raisable /\ given \in Policies
    BY DEF GaveUp, SendInv, SendTypeOK
  <1>2. WrappedPredicate(given)[raised] \in Verdicts
    BY <1>1, WithPredicateType
  <1>3. ShouldRetry(WithPredicate(given), raised) = WrappedPredicate(given)[raised]
    BY <1>1, WithPredicateType
  <1>4. WrappedPredicate(given)[Delivery] = "retry"
    BY <1>1, WithPredicateType
  <1> QED BY <1>1, <1>2, <1>3, <1>4 DEF GaveUp, Verdicts

\* ... and what that means for the last outcome, or for the failure that ended the retries.
LEMMA GaveUpDetail ==
  ASSUME SendInv, GaveUp
  PROVE  LET last == sent[Len(sent)] IN
         /\ detail = "exhausted retries" =>
              \/ Len(sent) = given.max_attempts /\ Retryable(given, last)
              \/ DecidingFailed /\ Admits(given, raised)
         /\ detail = "non-retryable exception" =>
              \/ last.raised # NoError /\ ~Retryable(given, last)
              \/ DecidingFailed /\ ~Admits(given, raised)
  <1> DEFINE last == sent[Len(sent)]
  <1>1. Led(last, error) /\ error \in Errors /\ error # NoError
    BY GaveUpAfter, ErrorsAssumption DEF Raisable
  <1>2. CASE raised = error
    <2>1. ASSUME detail = "exhausted retries"
          PROVE  Len(sent) = given.max_attempts /\ Retryable(given, last)
      <3>1. Retryable(given, last)
        BY <1>1, <1>2, <2>1, SecondAnswer, LedRetryable
      <3> QED BY <1>1, <1>2, <3>1, GaveUpAfter, ErrorsAssumption
    <2>2. ASSUME detail = "non-retryable exception"
          PROVE  last.raised # NoError /\ ~Retryable(given, last)
      <3>1. ~Retryable(given, last) /\ last.raised = error
        BY <1>1, <1>2, <2>2, SecondAnswer, LedNotRetryable
      <3> QED BY <1>1, <3>1
    <2> QED BY <2>1, <2>2
  <1>3. CASE raised # error
    <2>1. DecidingFailed
      BY <1>3, GaveUpAfter DEF DecidingFailed
    <2>2. raised # Delivery
      BY <2>1, DeliveryAssumption, ErrorsAssumption DEF DecidingFailed, Raisable
    <2>3. ShouldRetry(WithPredicate(given), raised) = ShouldRetry(given, raised)
      <3>1. raised \in Raisable /\ given \in Policies
        BY SecondAnswer
      <3> QED BY <2>2, <3>1, WithPredicateType
    <2>4. /\ detail = "exhausted retries" => Admits(given, raised)
          /\ detail = "non-retryable exception" => ~Admits(given, raised)
      BY <2>3, SecondAnswer, ShouldRetryAdmits
    <2> QED BY <2>1, <2>4
  <1> QED BY <1>2, <1>3

LEMMA DetailInv ==
  ASSUME SendInv
  PROVE  DetailTellsWhatHappened
  <1> SUFFICES ASSUME phase \in {"dead_letter", "returned"}
               PROVE  /\ detail = "exhausted retries" =>
                           \/ Len(sent) = given.max_attempts /\ Retryable(given, Last(sent))
                           \/ DecidingFailed /\ Admits(given, raised)
                      /\ detail = "non-retryable exception" =>
                           \/ Last(sent).raised # NoError /\ ~Retryable(given, Last(sent))
                           \/ DecidingFailed /\ ~Admits(given, raised)
    BY DEF DetailTellsWhatHappened
  <1>1. CASE detail = "inner"
    BY <1>1
  <1>2. CASE GaveUp
    BY <1>2, GaveUpDetail DEF Last
  <1>3. detail = "inner" \/ GaveUp
    BY DEF SendInv, SendTypeOK, PhaseInv, InnerReturned
  <1> QED BY <1>1, <1>2, <1>3

\* The wording of the result is that of the last failure of the inner backend; or, where
\* the predicate or the backoff failed while attempts were left, that of their own error.
THEOREM DetailIsTrue == SendSpec => []DetailTellsWhatHappened
  <1>1. SendInv => DetailTellsWhatHappened
    BY DetailInv
  <1> QED BY <1>1, SendInvariance, PTL

LEMMA LastOutcome ==
  ASSUME SendInv, pc \in {"sleeping", "returned", "raised"}
  PROVE  /\ Last(sent) = sent[Len(sent)] /\ Last(answers) = answers[Len(sent)]
         /\ Len(sent) \in 1..Len(sent) /\ Last(sent) \in Outcomes
         /\ [answer |-> Last(answers), outcome |-> Last(sent)] \in Sends(inner, event)
  <1>1. Len(sent) \in 1..Len(sent) /\ Len(answers) = Len(sent) /\ sent \in Seq(Outcomes)
    BY SentFacts
  <1>2. sent[Len(sent)] \in Outcomes
    BY <1>1, ElementOfSeq
  <1> QED BY <1>1, <1>2 DEF Last, SendInv, SentInv

\* What was retried, or given up, said nothing of a delivery but as retryable.
LEMMA DeliveredOnlyRetryable ==
  ASSUME SendInv, NEW i \in 1..Len(sent), i < Len(sent) \/ ~Final(sent[i]),
         sent[i].result.delivered
  PROVE  sent[i].result.retryable
  <1>1. sent[i] \in Outcomes
    BY SentFacts, ElementOfSeq
  <1>2. CASE sent[i].raised # NoError
    <2>1. sent[i].result.delivered = FALSE
      BY <1>1, <1>2 DEF Outcomes, Returned, RaisedBy
    <2> QED BY <2>1
  <1>3. CASE sent[i].raised = NoError
    <2>1. Retryable(given, sent[i]) \/ ~Final(sent[i])
      BY DEF SendInv, SentInv
    <2> QED BY <1>3, <2>1 DEF Retryable, Final
  <1> QED BY <1>2, <1>3

LEMMA ReportsInv ==
  ASSUME SendInv
  PROVE  ReportsDelivery
  <1> DEFINE last == Last(IF dead_sent = <<>> THEN sent ELSE dead_sent)
             Undelivered == /\ \A i \in 1..Len(sent) :
                                 sent[i].result.delivered => sent[i].result.retryable
                            /\ \A i \in 1..Len(dead_sent) : ~dead_sent[i].result.delivered
  <1> SUFFICES ASSUME phase = "returned"
               PROVE  (delivered => last.result.delivered) /\ (~delivered => Undelivered)
    BY DEF ReportsDelivery
  <1>1. CASE InnerReturned
    <2>1. pc = "returned" /\ dead_sent = <<>> /\ delivered = sent[Len(sent)].result.delivered
      BY <1>1 DEF InnerReturned
    <2>2. Len(sent) \in Nat
      BY SentFacts
    <2>3. ASSUME ~delivered, NEW i \in 1..Len(sent), sent[i].result.delivered
          PROVE  sent[i].result.retryable
      <3>1. i < Len(sent)
        BY <2>1, <2>2, <2>3
      <3> QED BY <2>3, <3>1, DeliveredOnlyRetryable
    <2> QED BY <2>1, <2>3 DEF Last
  <1>2. CASE GaveUp
    <2>1. ~Final(sent[Len(sent)]) /\ Len(sent) \in Nat
      BY <1>2, GaveUpAfter, SentFacts
    <2>2. ASSUME NEW i \in 1..Len(sent), sent[i].result.delivered
          PROVE  sent[i].result.retryable
      <3>1. i < Len(sent) \/ ~Final(sent[i])
        BY <2>1
      <3> QED BY <2>2, <3>1, DeliveredOnlyRetryable
    <2>3. CASE dead_sent = <<>> /\ delivered = FALSE
      BY <2>2, <2>3
    <2>4. ASSUME NEW o \in Outcomes, dead_sent = <<o>>, delivered = o.result.delivered
          PROVE  (delivered => last.result.delivered) /\ (~delivered => Undelivered)
      <3>1. dead_sent # <<>> /\ Last(dead_sent) = o /\ Len(dead_sent) = 1 /\ dead_sent[1] = o
        BY <2>4 DEF Last
      <3> QED BY <2>2, <2>4, <3>1
    <2>5. \/ dead_sent = <<>> /\ delivered = FALSE
          \/ \E o \in Outcomes : dead_sent = <<o>> /\ delivered = o.result.delivered
      BY <1>2 DEF SendInv, PhaseInv, GaveUp, InnerReturned
    <2> QED BY <2>3, <2>4, <2>5
  <1> QED BY <1>1, <1>2 DEF SendInv, PhaseInv

\* The result says delivered only where the last backend that was tried said so, and not
\* delivered only where none said delivered but as something to retry.
THEOREM DeliveryReported == SendSpec => []ReportsDelivery
  <1>1. SendInv => ReportsDelivery
    BY ReportsInv
  <1> QED BY <1>1, SendInvariance, PTL

LEMMA FailuresInv ==
  ASSUME SendInv
  PROVE  FailuresBecomeResults
  <1> SUFFICES ASSUME phase = "raised"
               PROVE  \/ raised \in Interrupts
                      \/ dead_sent # <<>> /\ Last(dead_sent).raised \in Interrupts
                      \/ dead_sent # <<>> /\ warned = "raised"
                      \/ /\ given.should_retry # NoPredicate
                         /\ given.should_retry[raised] = "raises"
    BY DEF FailuresBecomeResults
  <1>1. CASE raised \in Raisable \ {Delivery} /\ WrappedPredicate(given)[raised] = "raises"
    <2>1. ShouldRetry(given, raised) = "raises"
      BY <1>1, WithPredicateType, SentFacts
    <2> QED BY <2>1 DEF ShouldRetry
  <1>2. ASSUME NEW x \in Errors, dead_sent = <<RaisedBy(x)>>
        PROVE  dead_sent # <<>> /\ Last(dead_sent).raised = x
    <2>1. dead_sent # <<>> /\ Last(dead_sent) = RaisedBy(x)
      BY <1>2 DEF Last
    <2>2. RaisedBy(x).raised = x
      BY DEF RaisedBy
    <2> QED BY <2>1, <2>2
  <1> QED BY <1>1, <1>2 DEF SendInv, PhaseInv

\* Nothing a backend raises gets out of send() but an interruption, or what the
\* predicate fails on when it is asked for the wording; an error of the dead-letter
\* backend takes the logger's with it.
THEOREM FailuresReturned == SendSpec => []FailuresBecomeResults
  <1>1. SendInv => FailuresBecomeResults
    BY FailuresInv
  <1> QED BY <1>1, SendInvariance, PTL

-----------------------------------------------------------------------------
(* What the answers of a provider lead to                                  *)

LEMMA RepublishesInv ==
  ASSUME SendInv
  PROVE  RepublishesOnTransientCode
  <1> SUFFICES ASSUME inner \in Providers, NEW i \in 1..Len(answers) - 1
               PROVE  \/ answers[i] = "transient code"
                      \/ /\ sent[i].raised \in {AttributeError} \cup Interrupts
                         /\ Admits(given, sent[i].raised)
    BY DEF RepublishesOnTransientCode
  <1> DEFINE s == [answer |-> answers[i], outcome |-> sent[i]]
  <1>1. i \in 1..Len(sent) /\ i < Len(sent)
    BY SentFacts
  <1>2. s \in Sends(inner, event) /\ Retryable(given, sent[i]) /\ inner \in Kinds
    BY <1>1, SentFacts DEF SendInv, SentInv
  <1>3. s.answer = answers[i] /\ s.outcome = sent[i]
    OBVIOUS
  <1> HIDE DEF s
  <1>4. \/ s.answer = "transient code"
        \/ Final(s.outcome)
        \/ s.outcome.raised \in {AttributeError} \cup Interrupts
    BY <1>2, AnswersTell
  <1>5. ~Final(sent[i])
    BY <1>2, ErrorsAssumption DEF Final, Retryable
  <1>6. AttributeError # NoError /\ NoError \notin Interrupts
    BY ErrorsAssumption, DeliveryAssumption DEF Raisable
  <1> QED BY <1>2, <1>3, <1>4, <1>5, <1>6 DEF Retryable

\* With SES or SNS inside, another publish follows a transient code, or what the
\* backend raises and the policy retries; no other answer of the provider.
THEOREM RepublishesOnlyTransient == SendSpec => []RepublishesOnTransientCode
  <1>1. SendInv => RepublishesOnTransientCode
    BY RepublishesInv
  <1> QED BY <1>1, SendInvariance, PTL

LEMMA ConfirmedInv ==
  ASSUME SendInv
  PROVE  ConfirmedIsTheEnd
  <1> SUFFICES ASSUME NEW i \in DOMAIN answers, answers[i] = "confirmed"
               PROVE  /\ i = Len(answers) /\ dead_sent = <<>>
                      /\ phase = "returned" => delivered
    BY DEF ConfirmedIsTheEnd
  <1> DEFINE s == [answer |-> answers[i], outcome |-> sent[i]]
  <1>1. i \in 1..Len(sent) /\ Len(answers) = Len(sent) /\ Len(sent) \in Nat
    BY SentFacts
  <1>2. s \in Sends(inner, event) /\ inner \in Kinds
    BY <1>1, SentFacts DEF SendInv, SentInv
  <1>3. s.answer = "confirmed" /\ s.outcome = sent[i]
    OBVIOUS
  <1> HIDE DEF s
  <1>4. sent[i] = Delivered
    BY <1>2, <1>3, AnswersTell
  <1>5. Final(sent[i]) /\ sent[i].result.delivered = TRUE /\ ~Retryable(given, sent[i])
    BY <1>4 DEF Delivered, Returned, Final, Retryable
  <1>6. i = Len(sent) /\ pc # "calling" /\ pc # "idle"
    <2>1. ~(i < Len(sent)) /\ pc # "calling"
      BY <1>1, <1>5 DEF SendInv, SentInv
    <2>2. ASSUME pc = "idle" PROVE FALSE
      <3>1. Len(sent) = 0
        BY <2>2 DEF SendInv, SentInv
      <3> QED BY <1>1, <3>1
    <2> QED BY <1>1, <2>1, <2>2
  <1>7. pc = "returned"
    <2>1. pc \in {"sleeping", "returned", "raised"}
      BY <1>6, SentFacts
    <2> QED BY <1>5, <1>6, <2>1, LedNotFinal DEF SendInv, SentInv
  <1>8. dead_sent = <<>> /\ (phase = "returned" => delivered)
    BY <1>5, <1>6, <1>7 DEF SendInv, SendTypeOK, PhaseInv, GaveUp, InnerReturned
  <1> QED BY <1>1, <1>6, <1>8

\* A publish that the provider has confirmed is the last thing send() does with the
\* event, and its result says so.
THEOREM ConfirmedEnds == SendSpec => []ConfirmedIsTheEnd
  <1>1. SendInv => ConfirmedIsTheEnd
    BY ConfirmedInv
  <1> QED BY <1>1, SendInvariance, PTL

LEMMA TransientInv ==
  ASSUME SendInv
  PROVE  TransientIsNotTheEnd
  <1> SUFFICES ASSUME phase = "returned", Last(answers) = "transient code"
               PROVE  /\ Len(answers) = given.max_attempts \/ raised = OverflowError
                      /\ dead_letter => dead_sent # <<>>
    BY DEF TransientIsNotTheEnd
  <1>1. pc \in {"returned", "raised"}
    BY DEF SendInv, PhaseInv
  <1> DEFINE s == [answer |-> Last(answers), outcome |-> Last(sent)]
  <1>2. s \in Sends(inner, event) /\ inner \in Kinds /\ Last(sent) = sent[Len(sent)]
    BY <1>1, LastOutcome, SentFacts
  <1>3. s.answer = "transient code" /\ s.outcome = Last(sent)
    OBVIOUS
  <1> HIDE DEF s
  <1>4. Last(sent) = NotDelivered(TRUE)
    BY <1>2, <1>3, AnswersTell
  <1>5. Last(sent).raised = NoError /\ Last(sent).result.retryable
    <2>1. NotDelivered(TRUE).raised = NoError
      BY DEF NotDelivered, Returned
    <2>2. NotDelivered(TRUE).result = [delivered |-> FALSE, retryable |-> TRUE]
      BY DEF NotDelivered, Returned
    <2>3. [delivered |-> FALSE, retryable |-> TRUE].retryable = TRUE
      OBVIOUS
    <2>4. Last(sent).result.retryable = TRUE
      BY <1>4, <2>2, <2>3
    <2> QED BY <1>4, <2>1, <2>4
  <1> DEFINE last == sent[Len(sent)]
  <1>6. last.raised = NoError /\ last.result.retryable
    BY <1>2, <1>5
  <1>7. pc = "returned" => Final(last)
    BY DEF SendInv, SentInv
  <1>8. pc = "raised" => Led(last, error)
    BY DEF SendInv, SentInv
  <1> HIDE DEF last
  <1>9. pc = "raised"
    BY <1>1, <1>6, <1>7 DEF Final
  <1>10. GaveUp /\ (dead_letter => dead_sent # <<>>)
    <2>1. \/ GaveUp /\ ~dead_letter
          \/ GaveUp /\ dead_letter /\ \E o \in Outcomes : dead_sent = <<o>>
      BY <1>9 DEF SendInv, PhaseInv, InnerReturned
    <2>2. \A o : <<o>> # <<>>
      OBVIOUS
    <2> QED BY <2>1, <2>2
  <1>11. error = Delivery /\ policy = WithPredicate(given) /\ given \in Policies
    BY <1>9, <1>6, <1>8 DEF SendInv, SentInv, SendTypeOK, Led
  <1>12. ShouldRetry(policy, error) = "retry"
    BY <1>11, WithPredicateType
  <1>13. raised # PredicateError \/ raised = OverflowError
    BY <1>9, <1>12, RaisedWhere, ErrorsAssumption DEF WhyRaised
  <1>14. Len(sent) = given.max_attempts \/ raised = OverflowError
    BY <1>10, <1>11, <1>13, GaveUpAfter
  <1> QED BY <1>10, <1>14, SentFacts

\* While attempts are left a transient answer is not the last word, and after it
\* comes the dead-letter backend.
THEOREM TransientGoesOn == SendSpec => []TransientIsNotTheEnd
  <1>1. SendInv => TransientIsNotTheEnd
    BY TransientInv
  <1> QED BY <1>1, SendInvariance, PTL

-----------------------------------------------------------------------------
(* The send comes to its end                                               *)

\* How many steps send() has left, at most: those of the loop, what follows it, and
\* the dead-letter backend.
SendStepsLeft ==
  IF phase = "sending"
  THEN 2 + IF pc = "idle" THEN 2 * given.max_attempts + 1 ELSE StepsLeft
  ELSE IF phase = "dead_letter" THEN 1 ELSE 0

\* Every step of a send brings it nearer to its end, whatever the backends answer: there
\* are two for each attempt the policy allows, and three more.
THEOREM SendsRunOut ==
  SendSpec => [][SendStepsLeft' \in Nat /\ SendStepsLeft' < SendStepsLeft]_sendVars
  <1>1. SendInv /\ [SendNext]_sendVars =>
          [SendStepsLeft' \in Nat /\ SendStepsLeft' < SendStepsLeft]_sendVars
    <2> SUFFICES ASSUME SendInv, SendNext
                 PROVE  SendStepsLeft' \in Nat /\ SendStepsLeft' < SendStepsLeft
      OBVIOUS
    <2>1. LoopInv /\ PhaseInv /\ given \in Policies
      BY DEF SendInv, SendTypeOK
    <2>2. CASE SendStarts
      <3> DEFINE m == given.max_attempts
      <3>1. /\ pc = "idle" /\ pc' = "calling" /\ attempt' = 0 /\ given' = given /\ phase' = phase
            /\ policy'.max_attempts = m /\ m \in Nat
        BY <2>1, <2>2, WithPredicateType DEF SendStarts, Start, LoopInv, backendVars, config
      <3>2. phase = "sending"
        BY <2>1, <3>1 DEF PhaseInv
      <3>3. SendStepsLeft = 2 + (2 * m + 1) /\ SendStepsLeft' = 2 + 2 * (m - 0)
        BY <3>1, <3>2 DEF SendStepsLeft, StepsLeft
      <3> HIDE DEF m
      <3> QED BY <3>1, <3>3
    <2>3. ASSUME \/ OperationReturns
                 \/ \E e \in Errors : OperationRaises(e)
                 \/ SleepEnds
                 \/ \E x \in Interrupts : SleepInterrupted(x),
                 phase' = phase
          PROVE  SendStepsLeft' \in Nat /\ SendStepsLeft' < SendStepsLeft
      <3>1. StepsLeft \in Nat /\ StepsLeft' \in Nat /\ StepsLeft' < StepsLeft
        BY <2>1, <2>3, LoopMovesOn
      <3>2. pc \in {"calling", "sleeping"} /\ pc' # "idle"
        BY <2>3 DEF OperationReturns, OperationRaises, RaisesOnLastAttempt, RaisesNotRetryable,
                    RaisesPredicateError, RaisesOverflow, BacksOff, RaiseOut, SleepEnds,
                    SleepInterrupted
      <3>3. phase = "sending"
        BY <2>1, <3>2 DEF PhaseInv
      <3>4. SendStepsLeft = 2 + StepsLeft /\ SendStepsLeft' = 2 + StepsLeft'
        BY <2>3, <3>2, <3>3 DEF SendStepsLeft
      <3>5. \A a, b \in Nat : b < a => 2 + b \in Nat /\ 2 + b < 2 + a
        OBVIOUS
      <3>6. 2 + StepsLeft' \in Nat /\ 2 + StepsLeft' < 2 + StepsLeft
        BY <3>1, <3>5, Zenon
      <3> QED BY <3>4, <3>6, Zenon
    <2>4. ASSUME NEW s \in Sends(inner, event),
                 InnerReturnsRetryable(s) \/ InnerReturnsFinal(s) \/ InnerRaises(s)
          PROVE  SendStepsLeft' \in Nat /\ SendStepsLeft' < SendStepsLeft
      <3>1. phase' = phase
        BY <2>4 DEF InnerReturnsRetryable, InnerReturnsFinal, InnerRaises, Takes
      <3>2. s.outcome.raised \in Errors \cup {NoError}
        BY SendsType, OutcomesType DEF SendInv, SendTypeOK, Way
      <3>3. OperationReturns \/ \E e \in Errors : OperationRaises(e)
        BY <2>4, <3>2, DeliveryAssumption
           DEF InnerReturnsRetryable, InnerReturnsFinal, InnerRaises
      <3> QED BY <2>3, <3>1, <3>3
    <2>5. CASE Sleeps
      <3>1. phase' = phase /\ (SleepEnds \/ \E x \in Interrupts : SleepInterrupted(x))
        BY <2>5 DEF Sleeps, backendVars
      <3> QED BY <2>3, <3>1
    <2>6. CASE \/ ReturnsInnerResult \/ GivesUpOnDelivery \/ GivesUpOnException
               \/ GivesUpPredicateRaises \/ InterruptPasses
      <3>1. /\ phase = "sending" /\ pc \in {"returned", "raised"}
            /\ phase' \in {"dead_letter", "returned", "raised"}
        BY <2>6 DEF ReturnsInnerResult, GivesUpOnDelivery, GivesUpOnException, FallBack,
                    Return, GivesUpPredicateRaises, InterruptPasses
      <3>2. SendStepsLeft = 2 + 0 /\ SendStepsLeft' \in {0, 1}
        BY <3>1 DEF SendStepsLeft, StepsLeft
      <3> QED BY <3>2
    <2>7. CASE \/ \E r \in DeliveryResult : DeadLetterReturns(r)
               \/ \E e \in Errors : DeadLetterRaises(e)
               \/ \E e \in Errors : WarningRaises(e)
               \/ \E x \in Interrupts : DeadLetterInterrupted(x)
      <3>1. phase = "dead_letter" /\ phase' \in {"returned", "raised"}
        BY <2>7 DEF DeadLetterReturns, DeadLetterRaises, WarningRaises, DeadLetterInterrupted,
                    DeadLetterFails
      <3> QED BY <3>1 DEF SendStepsLeft
    <2> QED BY <2>2, <2>4, <2>5, <2>6, <2>7 DEF SendNext
  <1> QED BY <1>1, SendInvariance, PTL DEF SendSpec
=============================================================================
