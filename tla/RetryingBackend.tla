-------------------------- MODULE RetryingBackend ---------------------------
(***************************************************************************)
(* mixin_notifications/backends/_client.py, RetryingBackend.send           *)
(*                                                                         *)
(* send() runs a RetryExecutor whose operation is one inner.send, and      *)
(* falls back to the dead-letter backend when the executor gives up.  The   *)
(* executor is the module RetryExecutor: its actions are the steps of the  *)
(* loop, and the actions below say what inner.send does at each of them and *)
(* what send() does with how the executor ends.  What the sends of the     *)
(* library's own backends come to is in the module BuiltinBackends.        *)
(***************************************************************************)
EXTENDS RetryExecutor, SequencesExt

CONSTANTS Delivery,  \* RetryableDeliveryError: its class is local to one call of
                     \* send(), so only that call's attempt_send raises it
          AttributeError

INSTANCE BuiltinBackends

ASSUME DeliveryAssumption ==
  /\ Delivery \in Errors \ Interrupts
  /\ AttributeError \in Errors \ (Interrupts \cup {Delivery})

\* what send() returns: whether the event was delivered, and what detail says:
\* the inner result as it is, that the retries are used up, or that an exception
\* was not one to retry
Details == {"inner", "exhausted retries", "non-retryable exception"}

VARIABLES given,        \* self.policy
          inner,        \* the kind of self.inner
          dead_letter,  \* whether self.dead_letter is set
          event,        \* the event to send
          phase,        \* "sending", "dead_letter", "returned" or "raised"
          sent,         \* the outcome of each inner.send, in order
          answers,      \* what the provider answered to each of them
          detail,       \* how the fallback, or the result, describes the failure
          dead_sent,    \* the outcome of each dead_letter.send
          delivered,    \* result.delivered, once there is a result
          warned        \* whether logger.warning was called, "raised" if it raised

config == <<given, inner, dead_letter, event>>
backendVars == <<config, phase, sent, answers, detail, dead_sent, delivered,
                 warned>>
sendVars == <<executorVars, backendVars>>

SendInit ==
  /\ ExecutorInit
  /\ given \in Policies
  /\ inner \in Kinds
  /\ dead_letter \in BOOLEAN
  /\ event \in Events
  /\ phase = "sending"
  /\ sent = <<>>
  /\ answers = <<>>
  /\ detail = "inner"
  /\ dead_sent = <<>>
  /\ delivered = FALSE
  /\ warned = "no"

-----------------------------------------------------------------------------
(* The retry loop around inner.send                                        *)

\* the predicate send() builds: a RetryableDeliveryError is always retried, any
\* other error as the policy says
WrappedPredicate(p) ==
  [e \in Raisable |-> IF e = Delivery THEN "retry" ELSE ShouldRetry(p, e)]

\* policy_with_predicate: the policy with that predicate, and without retry_on
WithPredicate(p) ==
  [p EXCEPT !.should_retry = WrappedPredicate(p), !.retry_on = {}]

SendStarts ==
  /\ Start(WithPredicate(given))
  /\ UNCHANGED backendVars

\* inner.send(event) goes the way s
Takes(s) ==
  /\ sent' = Append(sent, s.outcome)
  /\ answers' = Append(answers, s.answer)
  /\ UNCHANGED <<config, phase, detail, dead_sent, delivered, warned>>

\* seeded bug: only a failure that is not delivered and not retryable ends it
InnerReturnsFinalOnlyDelivered(s) ==
  /\ s.outcome.raised = NoError
  /\ IF s.outcome.result.delivered THEN OperationReturns ELSE OperationRaises(Delivery)
  /\ Takes(s)

\* inner.send returns: attempt_send turns a retryable result into an exception
\* (whatever the result says of delivery)
InnerReturnsRetryable(s) ==
  /\ s.outcome.raised = NoError /\ s.outcome.result.retryable
  /\ OperationRaises(Delivery)
  /\ Takes(s)
InnerReturnsFinal(s) ==
  /\ s.outcome.raised = NoError /\ ~s.outcome.result.retryable
  /\ OperationReturns
  /\ Takes(s)

\* inner.send raises; what it had to deliver may have been delivered or not
InnerRaises(s) ==
  /\ s.outcome.raised \notin {NoError, Delivery}
  /\ OperationRaises(s.outcome.raised)
  /\ Takes(s)

\* the executor sleeps between two attempts, or is interrupted there
Sleeps ==
  /\ SleepEnds \/ \E x \in Interrupts : SleepInterrupted(x)
  /\ UNCHANGED backendVars

-----------------------------------------------------------------------------
(* The executor has ended                                                  *)

Return(d, text) ==
  /\ phase' = "returned"
  /\ delivered' = d
  /\ detail' = text
  /\ UNCHANGED <<executorVars, config, sent, answers, dead_sent, warned>>

\* seeded bug: a result of the inner backend that says not delivered falls back
ReturnsInnerOrFallsBack ==
  /\ phase = "sending" /\ pc = "returned"
  /\ IF Last(sent).result.delivered \/ ~dead_letter
     THEN Return(Last(sent).result.delivered, "inner")
     ELSE /\ phase' = "dead_letter"
          /\ UNCHANGED <<executorVars, config, sent, answers, detail, dead_sent,
                         delivered, warned>>

\* inner.send has returned a result that is not retryable: it is send()'s too
ReturnsInnerResult ==
  /\ phase = "sending" /\ pc = "returned"
  /\ Return(Last(sent).result.delivered, "inner")

\* seeded bug: the dead-letter backend is used without asking whether there is one
FallBackUnasked(text) ==
  /\ phase' = "dead_letter"
  /\ detail' = text
  /\ UNCHANGED <<executorVars, config, sent, answers, dead_sent, delivered, warned>>

\* seeded bug: nothing is returned when there is no dead-letter backend
FallBackToDeadLetterOnly(text) ==
  /\ dead_letter
  /\ phase' = "dead_letter"
  /\ detail' = text
  /\ UNCHANGED <<executorVars, config, sent, answers, dead_sent, delivered, warned>>

\* the executor gave up: the dead-letter backend is next, if there is one
FallBack(text) ==
  IF dead_letter
  THEN /\ phase' = "dead_letter"
       /\ detail' = text
       /\ UNCHANGED <<executorVars, config, sent, answers, dead_sent, delivered, warned>>
  ELSE Return(FALSE, text)

\* except RetryableDeliveryError
GivesUpOnDelivery ==
  /\ phase = "sending" /\ pc = "raised"
  /\ raised = Delivery
  /\ FallBack("exhausted retries")

\* seeded bug: every exception is described as retried
GivesUpAsExhausted ==
  /\ phase = "sending" /\ pc = "raised"
  /\ raised \notin Interrupts \cup {Delivery}
  /\ WrappedPredicate(given)[raised] # "raises"
  /\ FallBack("exhausted retries")

\* except Exception: the predicate is asked once more, for the wording
GivesUpOnException ==
  /\ phase = "sending" /\ pc = "raised"
  /\ raised \notin Interrupts \cup {Delivery}
  /\ WrappedPredicate(given)[raised] # "raises"
  /\ FallBack(IF WrappedPredicate(given)[raised] = "retry"
              THEN "exhausted retries" ELSE "non-retryable exception")

\* ... and raises, out of send()
GivesUpPredicateRaises ==
  /\ phase = "sending" /\ pc = "raised"
  /\ raised \notin Interrupts \cup {Delivery}
  /\ WrappedPredicate(given)[raised] = "raises"
  /\ phase' = "raised"
  /\ UNCHANGED <<executorVars, config, sent, answers, detail, dead_sent,
                 delivered, warned>>

\* what is no Exception passes through
InterruptPasses ==
  /\ phase = "sending" /\ pc = "raised"
  /\ raised \in Interrupts
  /\ phase' = "raised"
  /\ UNCHANGED <<executorVars, config, sent, answers, detail, dead_sent,
                 delivered, warned>>

-----------------------------------------------------------------------------
(* The dead-letter backend                                                 *)

\* seeded bug: what was handed to the dead-letter backend counts as delivered
DeadLetterReturnsAssumed(r) ==
  /\ phase = "dead_letter"
  /\ phase' = "returned"
  /\ dead_sent' = Append(dead_sent, Returned(r))
  /\ delivered' = TRUE
  /\ UNCHANGED <<executorVars, config, sent, answers, detail, warned>>

DeadLetterReturns(r) ==
  /\ phase = "dead_letter"
  /\ phase' = "returned"
  /\ dead_sent' = Append(dead_sent, Returned(r))
  /\ delivered' = r.delivered
  /\ UNCHANGED <<executorVars, config, sent, answers, detail, warned>>

\* the dead-letter backend raises e: the logger is given w to do, and send() is in phase p
DeadLetterFails(e, w, p) ==
  /\ phase = "dead_letter"
  /\ phase' = p
  /\ dead_sent' = Append(dead_sent, RaisedBy(e))
  /\ warned' = w
  /\ UNCHANGED <<executorVars, config, sent, answers, detail, delivered>>

\* seeded bug: an exception of the dead-letter backend passes through
DeadLetterRaisesOut(e) == DeadLetterFails(e, "no", "raised")

\* its exceptions are logged and swallowed
DeadLetterRaises(e) ==
  /\ e \notin Interrupts \cup {Delivery}
  /\ DeadLetterFails(e, "yes", "returned")

\* ... unless the logger's filters or handlers raise, from logger.warning
WarningRaises(e) ==
  /\ e \notin Interrupts \cup {Delivery}
  /\ DeadLetterFails(e, "raised", "raised")

\* what is no Exception passes through here too
DeadLetterInterrupted(x) == DeadLetterFails(x, "no", "raised")

-----------------------------------------------------------------------------
SendNext == \/ SendStarts
            \/ \E s \in Sends(inner, event) : InnerReturnsRetryable(s)
            \/ \E s \in Sends(inner, event) : InnerReturnsFinal(s)
            \/ \E s \in Sends(inner, event) : InnerRaises(s)
            \/ Sleeps
            \/ ReturnsInnerResult
            \/ GivesUpOnDelivery
            \/ GivesUpOnException
            \/ GivesUpPredicateRaises
            \/ InterruptPasses
            \/ \E r \in DeliveryResult : DeadLetterReturns(r)
            \/ \E e \in Errors : DeadLetterRaises(e)
            \/ \E e \in Errors : WarningRaises(e)
            \/ \E x \in Interrupts : DeadLetterInterrupted(x)

\* a backend comes back from a send, a sleep ends, and the thread inside send()
\* keeps running
SendSpec == SendInit /\ [][SendNext]_sendVars /\ WF_sendVars(SendNext)

-----------------------------------------------------------------------------
(* Properties                                                              *)

\* Every variable keeps its type; a dead-letter backend is used only when set.
SendTypeOK ==
  /\ given \in Policies
  /\ policy \in {WithPredicate(given), NoPolicy}
  /\ inner \in Kinds
  /\ dead_letter \in BOOLEAN
  /\ event \in Events
  /\ phase \in {"sending", "dead_letter", "returned", "raised"}
  /\ phase = "dead_letter" => dead_letter
  /\ sent \in Seq(Outcomes)
  /\ answers \in Seq(Answers \cup {"none"})
  /\ Len(answers) = Len(sent)
  /\ dead_sent \in Seq(Outcomes)
  /\ detail \in Details
  /\ delivered \in BOOLEAN
  /\ warned \in {"no", "yes", "raised"}

\* a result attempt_send hands on: send() returns it
Final(o) == o.raised = NoError /\ ~o.result.retryable

\* whether another attempt may follow outcome o under policy p, as the caller
\* wrote p (executor.py and policy.py: the predicate, or else retry_on)
Retryable(p, o) ==
  IF o.raised = NoError THEN o.result.retryable ELSE Admits(p, o.raised)

\* The event goes to the inner backend again only after a failure the given
\* policy retries, and never more than max_attempts times in all: replacing the
\* policy's predicate must not lose or add a retry.
ResendsOnlyRetryable ==
  /\ Len(sent) <= given.max_attempts
  /\ \A i \in 1..Len(sent) - 1 : Retryable(given, sent[i])

\* The dead-letter backend gets the event at most once, and only when the inner
\* backend has been tried, its last outcome was a failure, and no attempt that
\* the policy allows is left (unless the predicate or the backoff failed).
DeadLetterIsLastResort ==
  phase = "dead_letter" \/ dead_sent # <<>> =>
    /\ Len(dead_sent) = IF phase = "dead_letter" THEN 0 ELSE 1
    /\ sent # <<>> /\ ~Final(Last(sent))
    /\ \/ Len(sent) = given.max_attempts
       \/ ~Retryable(given, Last(sent))
       \/ raised \in {PredicateError, OverflowError}

\* the predicate failed on the last outcome, or the backoff did, with attempts left:
\* what the executor raised is that failure, and not one of the inner backend
DecidingFailed ==
  raised \in {PredicateError, OverflowError} /\ Len(sent) < given.max_attempts

\* The result says "exhausted retries" only when as many attempts as the policy
\* allows were made and the last failure was one to retry; "non-retryable
\* exception" only when an exception ended it that the policy does not retry.
\* Neither is so where the predicate or the backoff failed: the wording is then that
\* of their own error under the policy, and "exhausted retries" is said of attempts
\* that are left.
DetailTellsWhatHappened ==
  phase \in {"dead_letter", "returned"} =>
    /\ detail = "exhausted retries" =>
         \/ Len(sent) = given.max_attempts /\ Retryable(given, Last(sent))
         \/ DecidingFailed /\ Admits(given, raised)
    /\ detail = "non-retryable exception" =>
         \/ Last(sent).raised # NoError /\ ~Retryable(given, Last(sent))
         \/ DecidingFailed /\ ~Admits(given, raised)

\* send() reports a delivery only where the last backend it went to reported one.
\* Where it reports none, the dead-letter backend has reported none, and the inner
\* one none but in results that are retryable as well: such a result counts as a
\* failure, on the last attempt too, and send() then reports as not delivered what
\* the inner backend says it has delivered.
ReportsDelivery ==
  phase = "returned" =>
    /\ delivered => Last(IF dead_sent = <<>> THEN sent ELSE dead_sent).result.delivered
    /\ ~delivered =>
         /\ \A i \in 1..Len(sent) : sent[i].result.delivered => sent[i].result.retryable
         /\ \A i \in 1..Len(dead_sent) : ~dead_sent[i].result.delivered

\* What gets out of send() is an interruption, an error the predicate failed on when
\* it was asked for the wording, or what the logger raised when it was told that the
\* dead-letter backend had failed.  All else a backend raises becomes a result.
FailuresBecomeResults ==
  phase = "raised" =>
    \/ raised \in Interrupts
    \/ dead_sent # <<>> /\ Last(dead_sent).raised \in Interrupts
    \/ dead_sent # <<>> /\ warned = "raised"
    \/ given.should_retry # NoPredicate /\ given.should_retry[raised] = "raises"

\* With SES or SNS inside, the event is published again only after an answer with
\* a transient code, whatever errors the policy retries; or where the backend
\* raises, which it does for no error that has a code, and the policy retries that.
RepublishesOnTransientCode ==
  inner \in Providers =>
    \A i \in 1..Len(answers) - 1 :
      \/ answers[i] = "transient code"
      \/ /\ sent[i].raised \in {AttributeError} \cup Interrupts
         /\ Admits(given, sent[i].raised)

\* What the provider has confirmed is not published again, goes to no dead-letter
\* backend, and send() reports it delivered.
ConfirmedIsTheEnd ==
  \A i \in DOMAIN answers : answers[i] = "confirmed" =>
    /\ i = Len(answers)
    /\ dead_sent = <<>>
    /\ phase = "returned" => delivered

\* A transient answer is never the last word while the policy has attempts left,
\* and then there is the dead-letter backend: send() does not return before,
\* unless the backoff fails.
TransientIsNotTheEnd ==
  phase = "returned" /\ Last(answers) = "transient code" =>
    /\ Len(answers) = given.max_attempts \/ raised = OverflowError
    /\ dead_letter => dead_sent # <<>>

\* A send comes to an end, whatever the backends keep answering.
SendEnds == <>(phase \in {"returned", "raised"})
=============================================================================
