-------------------------- MODULE BuiltinBackends ---------------------------
(***************************************************************************)
(* mixin_notifications/backends/: _objects.py, what a send may come to, and *)
(* _client.py, ses.py and sns.py, the backends of the library but           *)
(* RetryingBackend.  None of them keeps anything that a later send looks at, *)
(* so a send is a set of the ways it may go.                               *)
(***************************************************************************)
CONSTANTS Errors,         \* what a send may raise
          Interrupts,     \* those of them that are BaseException only
          NoError,
          AttributeError  \* of an object that is not what the code takes it for

\* nothing relates the two flags
DeliveryResult == [delivered : BOOLEAN, retryable : BOOLEAN]

\* the outcome of a send: a result, or what it raised
Returned(r) == [raised |-> NoError, result |-> r]
RaisedBy(e) == [raised |-> e, result |-> [delivered |-> FALSE, retryable |-> FALSE]]
Outcomes == {Returned(r) : r \in DeliveryResult} \cup {RaisedBy(e) : e \in Errors}

Delivered == Returned([delivered |-> TRUE, retryable |-> FALSE])
NotDelivered(retryable) == Returned([delivered |-> FALSE, retryable |-> retryable])

-----------------------------------------------------------------------------
(* Events, by what makes a backend fail on them                            *)

\* NotificationEventClient.create resolves a severity given as a string
Created == [severity : {"Severity"}, mime : BOOLEAN]

\* NotificationEvent itself keeps what it is given: a string has no `value'.
\* mime: whether the title, body and attachments make a MIME message.
Events == Created \cup [severity : {"Severity", "string"}, mime : BOOLEAN]

-----------------------------------------------------------------------------
(* What AWS answers, and what a backend makes of it                        *)

\* A confirmation, a ClientError with a code, or an error that has no response
\* (or one without a code), or one whose response is None (botocore raises such
\* errors when a connection breaks).  Only a confirmation says what became of the
\* event.
Answers == {"confirmed", "transient code", "other code", "no code", "None"}

\* seeded bugs: every code is one to retry; no code is
ClassifiedLoosely(answer) == NotDelivered(answer \in {"transient code", "other code"})
ClassifiedStrictly(answer) == NotDelivered(FALSE)

\* error_code in retryable_codes: Throttling, ThrottledException,
\* TooManyRequestsException, ServiceUnavailable, InternalError
Classified(answer) == NotDelivered(answer = "transient code")

\* seeded bug: a confirmation leaves the flag as for an unknown fate
PublishedUncertain(answer) ==
  IF answer = "confirmed" THEN Returned([delivered |-> TRUE, retryable |-> TRUE])
  ELSE IF answer = "None" THEN RaisedBy(AttributeError) ELSE Classified(answer)

\* publish, send_raw_email: the handler looks for a code in error.response, and
\* raises where that is None
Published(answer) ==
  IF answer = "confirmed" THEN Delivered
  ELSE IF answer = "None" THEN RaisedBy(AttributeError) ELSE Classified(answer)

\* a send with an outcome and no answer: it got to no provider, or was interrupted
Unasked(outcome) == {[answer |-> "none", outcome |-> outcome]}
Interrupted == UNION {Unasked(RaisedBy(x)) : x \in Interrupts}

Asked == {[answer |-> a, outcome |-> Published(a)] : a \in Answers} \cup Interrupted

-----------------------------------------------------------------------------
(* The ways a send may go                                                  *)

\* the message is built inside the try
SendSES(event) == IF event.mime THEN Asked ELSE Unasked(Classified("no code"))

\* the attributes are built outside the try
SendSNS(event) ==
  IF event.severity = "Severity" THEN Asked ELSE Unasked(RaisedBy(AttributeError))

\* the level of the record comes from the severity; filters and handlers of the
\* logger may raise
SendLogging(event) ==
  IF event.severity = "Severity"
  THEN Unasked(Delivered) \cup UNION {Unasked(RaisedBy(e)) : e \in Errors}
  ELSE Unasked(RaisedBy(AttributeError))

SendCollecting(event) == Unasked(Delivered)

SendNull(event) == Unasked(NotDelivered(FALSE))

\* a backend of the application: anything
SendCustom(event) == UNION {Unasked(o) : o \in Outcomes}

Providers == {"ses", "sns"}
Kinds == Providers \cup {"logging", "collecting", "null", "custom"}

Sends(kind, event) ==
  CASE kind = "ses"        -> SendSES(event)
    [] kind = "sns"        -> SendSNS(event)
    [] kind = "logging"    -> SendLogging(event)
    [] kind = "collecting" -> SendCollecting(event)
    [] kind = "null"       -> SendNull(event)
    [] kind = "custom"     -> SendCustom(event)
=============================================================================
