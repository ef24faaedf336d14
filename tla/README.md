# Verification of mixin-suite

TLA+ models of the parts of mixin-suite that keep state, their model-checking
configurations, and machine-checked proofs. Paths are relative to the
repository; `adapters/` stands for `mixin_logging/adapters/`.

## 1. The system

mixin-suite is a set of independent Python libraries. None of them starts a
thread or an event loop of its own: concurrency, re-entry and failure come from
the application, from the handlers, backends and predicates it plugs in, and
from the servers and workers that call the adapters.

| component | state | operations | what is hard |
|---|---|---|---|
| flush-on-warning handler, `adapters/stdlib/flush_handler_client.py` | `_buffers`, `_timestamps`, `_correlation_order`, all under the lock of `logging.Handler` | `emit` | the target handler may raise or log while it is drained into; the lock is reentrant; three limits act on three containers that are not kept in step; the clock may step back |
| retry executor, `mixin_retry/executor.py`, `policy.py` | one loop per call: attempt, delay | `wrap`, `call` | which error leaves, what a predicate or the backoff raises inside an `except`, the last attempt, the cap |
| retrying backend, `mixin_notifications/backends/_client.py` | one `send` in progress | `send`, `external_egress` | composed of the executor, an inner and a dead-letter backend, each of which may return, return retryably or raise |
| suppression tracker, `mixin_notifications/suppression/_objects.py` | `_seen` | `is_suppressed`, `record` | no lock: look-up, write, `min` and `del` of several threads interleave |
| dispatcher, `mixin_notifications/dispatch/_client.py` | none besides the tracker | `notify`, the egress gate | check, record and send are separate steps; a backend may raise; what may leave the system |
| correlation context, `mixin_logging/context/correlation/` | a `ContextVar` | `set_id`, `clear`, `current_id` | a value per thread and task, copied by tasks, missing in threads; `clear` forgets rather than restores |
| inbound adapters (ASGI, FastAPI, WebSocket, WSGI, gRPC, Celery, cloud) | the context | resolve, set, run the application, add the response header, clear | nesting, reuse of contexts, cancellation, paths that never clear or clear too early |
| outbound adapters (httpx, requests, urllib3, aiohttp, botocore, Celery, GraphQL) | the context | read the id, add a header or a key | what arrives must be what was sent, however late and wherever, and whatever the application put under the name |
| log filter, redaction filter, `adapters/stdlib/stdlib_client.py`, `mixin_logging/redaction/` | `Logger.filters` | `add_correlation_filter`, `attach_default`, `filter` | they change one record in place, in the order they were attached, and are attached while other threads log |
| logging mixin, ambient logger, `mixin_logging/mixin/`, `ambient/` | none | `log_debug` to `log_exception` | the id is read here, again by the filter and again by the handler, each on its own |
| sensitivity, `mixin_sensitivity/services/classify/`, `repr/` | none | `from_dataclass`, `sensitivity_of`, the `__post_init__` guard, `__repr__` | two readers of the same metadata, and a mask that a generated `__repr__` would bypass |
| SES, SNS, logging, collecting, null backends | none a later send looks at | `send` | what an error answer says of delivery, and what its classification makes the retries do |
| events, `mixin_notifications/events/` | none that changes | `create`, validation | the id is read when the event is made, and kept however late it is sent |
| latency | none that changes | two clock readings and a difference | - |

Interaction: `Dispatcher.notify` calls the tracker, then each backend;
`RetryingBackend.send` hands a closure to `RetryExecutor`; the flush handler
asks the correlation context for the current id and calls a target handler,
which may log again; the adapters read and write the correlation context. A log
call reads it up to three times: the mixin or the ambient logger when it makes
the record, the filter of the logger, and the flush handler that files it.

## 2. The modules

| module | models | role |
|---|---|---|
| `TrailStore` | what the flush handler promises of a target that never raises | abstract specification |
| `FallibleStore` | what it promises of one that may | EXTENDS `TrailStore`; abstract specification |
| `FlushHandler`, `FlushHandlerProofs` | `FlushOnWarningHandler` | implements `TrailStore` and `FallibleStore`; proved about |
| `RetryExecutor`, `RetryExecutorProofs` | `RetryExecutor`, `RetryPolicy` | one wrapped call; proved about |
| `BuiltinBackends` | the `send` of SES, SNS, logging, collecting, null | ways a send may go |
| `RetryingBackend`, `RetryingBackendProofs` | `RetryingBackend.send` | EXTENDS and composes `RetryExecutor`, over `BuiltinBackends`; proved about |
| `DuplicateFilter` | what the tracker promises one caller | abstract specification |
| `SuppressionTracker` | `SuppressionTracker` | actions of one thread inside the tracker |
| `Dispatcher`, `DispatcherProofs`, `DispatcherAloneProofs` | `Dispatcher.notify` | EXTENDS and composes `SuppressionTracker`; implements `DuplicateFilter` for one caller; proved about, for any number of callers and for one |
| `CorrelationContext` | `ContextVarClient` | operations on the variable |
| `CorrelationFlow`, `CorrelationProofs` | inbound and outbound adapters, `NotificationEventClient.create` | EXTENDS and composes `CorrelationContext`; proved about |
| `SensitiveData` | classification and repr | operators on classes and objects |
| `LogPipeline`, `LogPipelineProofs` | mixin, ambient logger, log filter, redaction filter, and the way to the flush handler | composes `CorrelationContext`, `SensitiveData` and `TrailStore`; proved about |
| `SequenceFacts` | - | lemmas on sequences that the proof modules share |
| `MC*` | - | values for TLC |

Every module names seeded bugs next to the definition they are variants of
(`DeadLetterReturnsAssumed`, `LeaveWithoutClear`): the mutants of PROJECT.json put one in place of
the definition and the property named there must then fail. No specification
uses them.

### FlushHandler

`buffers`, `timestamps` and `correlation_order` are the three containers.
`delivered` is what the target has been given, `logged` numbers the records.
`stack` holds the `emit()` calls that are inside `target.emit`, innermost last:
each frame has the records its loop still has to pass on, the triggering record
last, and what has become of the deque its `for` loop iterates: live, mutated
(the loop raises at its next step), or detached (dropped from the dictionary;
the loop keeps it).

* `EmitBuffered` and `EmitFlush` are the two branches of `emit` up to the point
  where control leaves the handler; the eviction of expired buffers, which comes
  first, is part of both.
* `EvictOldestCorrelation` is one round of the `while` loop of the cap. It is a
  step of its own so that its termination is a liveness property; nothing else
  is enabled while the cap is exceeded.
* `TargetReturnsMidTrail`, `...EndOfTrail`, `...TrailMutated`, `...Record` and
  `TargetRaises` are what may happen when the target comes back.
* A nested `EmitBuffered`/`EmitFlush` while `stack` is not empty is a record that
  the target logs itself. Other threads wait for the lock: they are the
  `emit()`s between which the correlation id changes freely.

A thread in which the correlation variable was never set raises `LookupError`
out of `emit` before anything is changed; the model has no action for it.

### RetryExecutor and RetryingBackend

A behaviour is one call. `_wrap_sync` and `_wrap_async` have the same control;
the model has `SleepInterrupted` besides `SleepEnds`, because a cancellation or
a KeyboardInterrupt leaves `sleep` and is not caught. Delays are integers
scaled to tenths, so that jitter (a tenth either way, after the cap) is exact
at its two ends. Predicates are functions from errors to retry, stop or raises.

`RetryingBackend` instantiates the operation with the closure `attempt_send`:
the inner backend returns a result, retryable or final, or raises. `Sends` of
`BuiltinBackends` are the ways its `send` may go, by its kind and by what the event
has that makes a backend fail; a backend of the application may do anything.
`answers` is what the provider said each time. When the executor raises, the
handlers of `send` run in the order of the code: the dead-letter backend, its
result or its exception, or a result that says what happened. `InterruptPasses`
is a BaseException. When the dead-letter backend raises, `logger.warning` is called before
the result is made, and may raise itself (a filter or handler of the application's, or the
log filter in a thread without an id): `warned` says so, and `WarningRaises` ends the send.

### SuppressionTracker and Dispatcher

There is no lock, so each step of a thread is what the interpreter executes
between two possible switches: the look-up (`key in`, then the read), the write,
the size test, the start of `min`, every key that it visits, every weight it computes, the
`del`. An iterator fails when the size has changed, `min` when it finds no key at all; a
look-up fails when the key has gone. The specification runs any number of threads, each of which makes
`notify` calls; `history` variables of the notifies (what they did, when they
read the clock, what each backend was handed) are what the properties are about.
Backends are values: a leaf, or a RetryingBackend over two leaves. A leaf may be
external, and its `external_egress` may raise; the gate also raises at the first
backend outside when the event's severity is a plain string (`GateRaises`). A send may end
`notify` with a BaseException, or with what `logger.warning` raises when it is told of
the backend's exception (`SendEndsNotify`). The backends and the threads that
call the Dispatcher (`callers`) are chosen at the start from `Deployments`, so
that what needs a single caller (`Alone`) and what survives several are asked of
one specification.

### CorrelationContext and CorrelationFlow

A context is a thread or an asyncio task. `frames[c]` are the adapter calls it is
inside, each with the request whose id its code is to find (`holds`: none once an
adapter entered inside it has cleared the variable); `inherited[c]` the requests a task or
thread was started for, and `origin[c]` the one whose id a task was started with, so that
what a task sends (FastAPI's handler runs in one) is tied to its request too. A request
is one call of an inbound adapter, with the id that was resolved and, as a
history variable, the request whose message started it. Messages are never
removed: each may arrive late, several times, or never, at any adapter of its
kind.

* `FromScope`, `FromHeaders`, `FromEnviron` and `FromHandshake` say what an
  adapter makes of a header that is absent, empty, unsafe or not UTF-8. They
  differ: FastAPI and WSGI get Latin-1 text from their server, WebSocket drops
  what it cannot decode, and WSGI takes the empty header for safe and raises
  `ValueError`. An id that is not ASCII (`NonAscii`; FastAPI and WSGI make one of bytes
  that are not UTF-8) is written one way and read another: it may arrive as a different
  such id, or not be decoded and be replaced by a fresh one. Celery keeps it.
* `EnterRequest`, `EnterTask`, `EnterCloud` set the id; `Leave` is the `finally`
  of ASGI, FastAPI, WebSocket and WSGI, and `clear_on_postrun`.
* The gRPC interceptor clears the id when `continuation()` has looked the handler up
  (`InterceptorReturns`); the handler runs after that, until `LeaveHandler`. The
  model runs it in the same context, which favours the code: in a pool thread it
  would have no value of the variable at all.
* A cloud function never clears: `LeaveHandler` leaves the id as it is.
* `SendRequest` and `PublishTask` are the clients and `inject_on_publish`: they write
  the id over a header that the application has put there (`Overwritten`), and leave
  that header alone where `from_context` is None. `SendRespelt` is what `urlopen` of
  urllib3 alone does when the application has spelt the header's name otherwise: a
  plain dict keeps both, the application's first. `ReadOf` says what a server makes of
  a header that is there twice: ASGI adapters read the first, WSGI servers and gateways hand
  on one of the two or both joined. Such a request is tied to its own as any other is.
* `CreateEvent` and `InjectResolver` keep the id in an event or a GraphQL context to
  be read later; `Respond` adds it to a response, from the id that was resolved
  rather than from the variable. All of these are `messages`, with the request they
  come from as a history variable, and only requests and tasks arrive anywhere.

The application calls `set` and `clear` through the adapters only
(`docs/mixin_logging/apps/adapters/asgi.md:314`).

### SensitiveData and LogPipeline

`SensitiveData` has no state. A class is a record of what decides: whether it is a
dataclass, whether a `__repr__` of its own shadows the mixin's, what becomes of the
`__post_init__` guard, and the marker of each field: a member of `Sensitivity`, the
plain string that equals one, something else, or none. `FromDataclass` and `Masks` are
the two readers; `Constructs` is the guard.

`LogPipeline` follows a record. `filters` are the filters of each logger, in the order
attached; a redaction filter is its set of patterns. `call[c]` is the log call thread `c`
is in: its record's fields and the filters it has met. A call takes one step to make the record, one per filter, one
to be handled, between which other threads log, change their ids and attach filters:

* `MixinLogs`, `AmbientLogs`, `OthersLog` make it: the first two put the current id under
  `correlation_id` unless the caller's `extra` has one; a name that LogRecord
  reserves raises KeyError, for which there is no step, since nothing has changed.
* `StampRecord` is `CorrelationLogFilter.filter`, which overwrites the field; `RedactRecord`
  is the redaction filter, which masks by name, whatever the value, and skips private names;
  its patterns may hit `correlation_id`, and then the later of the two wins. Python walks
  the live list, so that a filter attached meanwhile is met (`Meets`).
* `Buffers` and `Flushes` are the handler. It is `TrailStore` here, which `FlushHandler`
  is proved to implement while its target behaves, so that a record may be handed over
  now, later or never.
* `StampFails` and `HandlerRaises` are `current_id` raising in a thread without a value.
  Nothing between it and the application catches that.
* `AddCorrelationFilter` always adds one more; `AttachRedaction` (`attach_default`, and
  `addFilter` with patterns of an application's own) adds none where an equal one is found,
  since redaction filters compare by their patterns.
* An id may be the handler's own `-buffered-`: it shares the bucket of the records without
  one (`BucketOf`), and the trail of either drains both.

Which patterns the lower case form of a name has in it is the constant `PatternsIn`.

## 3. The runs

| run | asks | bounds |
|---|---|---|
| `FlushSequential` | does the handler implement `FallibleStore` while its target may raise but does not log; does every `emit` end | two ids and the bucket without one, capacity 2, cap 2, ttl 1, clock to 3, 5 records |
| `FlushReentrant` | what survives a target that raises or logs at any point, nested, and a clock that steps back | two ids, capacity 2, cap 1, nesting 2, 5 records |
| `FlushStaleEviction` (violation) | is the oldest buffer evicted | as `FlushSequential`, 6 records |
| `FlushTargetLogs` (violation) | is a warning always emitted | nesting 1, 4 records |
| `RetryExecutor` | bounds, admission, delays, the error that leaves, termination | 240 policies: 1, 2 or 4 attempts, four growths (one overflows), jitter, five predicates, two `retry_on` |
| `RetryingBackend` | resending, dead letter, result, termination | 48 policies, six kinds of inner backend, with and without a dead-letter backend |
| `Dispatcher` | suppression and the tracker's own bounds with one caller, and does it implement `DuplicateFilter`; the egress gate, the loop over the backends and what survives without a lock with one and with two | two threads, two keys, capacity 1, window 2, clock to 2 and back, 3 notifies; one caller with each of three pairs of backends, or two callers of a Dispatcher without backends |
| `DispatcherDuplicates` (violation) | are duplicates discarded with two threads | two threads, two keys, capacity 2 |
| `CorrelationFlow` | ids stay with their work and survive every hop | a worker behind any of six adapters, eager Celery tasks inside them, a task or thread beside it, nesting 2, 3 requests, 1 message of any of six kinds, an ASCII and a non-ASCII client id |
| `LogPipeline` | does a line show the id of its trail, and nothing it has to hide | two threads; the logger of a class that adopts the mixin and the ambient one, each also used directly; an ordinary id and `-buffered-`; 2 filters of three kinds (log filter, default patterns, one that hits `correlation_id`), 2 records; extras with a sensitive name, a private one, a forged id, a reserved name, and an object with a classified field |
| `ThreadHasNoId` (violation) | can code read the id wherever it runs | behind ASGI |
| `GrpcHandler` (violation) | does an RPC handler have the id | the same |

Why these bounds are enough: every limit of the code (capacity, cap, ttl,
window, attempts, tracker capacity) is at most 2 and is exceeded in the run, so
that each branch on a limit is taken from both sides; nesting of 2 puts a
re-entrant call inside a re-entrant call; two ids, keys, threads or contexts are
one to act and one to be disturbed, and the properties relate pairs. Three
requests are a request, the one it causes, and the one that causes or one beside
it. Where a theorem exists (section 5) the bounds do not matter.

Symmetry is used over ids, keys and threads, only in runs without liveness.
Deadlock is checked, except in the runs of the executor and the backend, in
which the one call ends and the behaviour with it; in `LogPipeline` the ids can
always change; `BoundsReached` steps in the other modules stand for a process that idles once the bounds are used up.

## 4. What the properties say

*Flush handler.* `OrderCoversBuffers`: every buffer can be reached from
`_correlation_order`, although ids that are flushed or expire stay in it; without
it the cap's loop spins for ever with the lock in hand. `TrailsBounded`,
`OwnTrailOnly`, `UnsentTrailStaysBuffered` (what a target that raised has not
taken is still there, in order), `NoSilentLoss` (a record leaves a buffer only for
one of the reasons the documentation gives, or the two that re-entry adds),
`NothingStaleSurvivesEmit`, `LockReleased`, and `ImplementsFallibleStore`, the
refinement: a warning hands over its trail whole and then itself; when the target
fails, a trail it has not taken whole is still held whole.

*Executor.* `AttemptsBounded`, `RaisesLastError`, `RetriesOnlyWhatIsAdmitted`,
`DelaysCappedAndGrowing` (the cap, which jitter exceeds by ten percent at most; and no
delay shorter than the one before it, but for jitter, where the multiplier is at least
one: the code accepts smaller ones, of which nothing is said), `Ends`.

*Retrying backend.* `ResendsOnlyRetryable`, `DeadLetterIsLastResort`,
`ReportsDelivery` (what `send` reports against what the backends reported: an inner
backend that reports a delivery and, in the same result, that it may be retried is
reported as not delivered when attempts run out, `_client.py:172-177`),
`DetailTellsWhatHappened` (the wording is true of the attempts made, except where the
predicate or the backoff failed with attempts left: it then says what the policy would do
with *their* error, and `exhausted retries` may be said of attempts that were not made),
`FailuresBecomeResults` (what may still leave `send`: an interrupt, a predicate that
raises again, the logger told of a failed dead letter), `SendEnds`. With SES or SNS inside, three more tie the provider's answers to the
other end of the chain (classification, `attempt_send`, the replaced predicate,
the executor, the dead letter): `RepublishesOnTransientCode`, `ConfirmedIsTheEnd`
and `TransientIsNotTheEnd`.

*Dispatcher.* For any number of callers: `SuppressedOnlyAsDuplicate`,
`EveryBackendServed`, `EgressIsGated`. With one caller, besides (each says `Alone =>`):
`AloneDiscardsDuplicates`, `TrackerBounded`, `TrackerNeverRaises`, and the refinement
`ImplementsDuplicateFilter`: lookup, read, write, weighing and deletion show no more from
outside than one decision, and only a key recorded longest ago is forgotten. With several
these do not survive: the tracker may raise `KeyError` or `RuntimeError` into
`notify`, and duplicates go out (`DispatcherDuplicates`).

*Correlation.* `IdOfOwnWork`: an id is read only by code that works for its
request; `IdThroughoutScope`: from set to clear the id is there, in the context and in
the tasks started from it, whatever other contexts do (an adapter that is left inside
clears it, and none is promised from there on); `HopsKeepId`: whatever is sent or kept for
a request (message, event, resolver context, response), by its context or by a task that
has its id, has that id, and what is sent arrives with it. Its two exceptions are part
of the formula: an id that is not ASCII may change in an HTTP hop, and so may any id that
urllib3 sends beside a header the application has spelt in its own way.

*Log pipeline.* `LineShowsItsFlow`: a line shows the id it is filed and handed over
under, although the record's maker, the filter and the handler each read it, other
threads change theirs meanwhile, and callers pass ids of their own; unless a redaction
filter that comes later masks it. In the bucket `-buffered-` a line shows `-`, or that
id where a client has sent it. `SecretsMasked`: a
record shows no value under a name that a redaction filter of its logger finds sensitive,
in whatever order filters were attached; a log filter that comes later may put the flow's
own id back under `correlation_id`, and nothing else. `ClassifiedStaysHidden`: where the
markers are members of `Sensitivity` and the guard runs, what a line shows of an object
is masked for exactly the fields `from_dataclass` classifies.

### Fairness

* FlushHandler: weak fairness of the target returning and of the cap's loop. A
  thread inside `emit` keeps running; a target that never returns holds the lock,
  and no property can be expected then.
* RetryExecutor: weak fairness of the operation ending and of the sleep ending.
* RetryingBackend: weak fairness of the next step of the one `send`.
* Dispatcher, CorrelationFlow and LogPipeline have no liveness property and no fairness.

### Disagreements between documentation and code

Shown by a violation run (PROJECT.json quotes the lines):

1. An id that was flushed and comes back is evicted by the place of its first
   buffer, not of the one it has (`FlushStaleEviction`).
2. A target that logs below `flush_level` while it is drained makes the flush
   raise `RuntimeError`, and the warning is not emitted (`FlushTargetLogs`).
3. Two threads notify the same key and both events go out (`DispatcherDuplicates`).
4. `current_id`, documented to return None if unset, raises LookupError in a new
   thread; the log filter and the outbound adapters raise with it (`ThreadHasNoId`).
5. The gRPC handler runs without an id (`GrpcHandler`).

Met while reading, without a run:

* `_correlation_order` grows by one entry per buffer created and shrinks only when
  the cap is exceeded (`flush_handler_client.py:76-91`), while
  `docs/mixin_logging/reviews/2026-07-21-flush-handler-review.md:75` says it
  prevents unbounded memory growth.
* A record that the target logs during a flush whose buffer has expired is
  dropped by the eviction that ends the flush (line 100).
* `docs/mixin_retry/README.md:135` says BaseException-only types are never retried;
  `executor.py:55-62` catches BaseException and asks the predicate. The same
  README's cap (line 82) is applied before the jitter (`executor.py:148-150`), and
  `multiplier ** attempt` may raise OverflowError first (line 145).
* `docs/mixin_logging/apps/adapters/cloud.md:111` says the context of a cloud
  function is cleared implicitly; nothing clears it in a warm process.
* httpx `event_hooks()` returns the synchronous and the asynchronous hook
  together (`httpx_client.py:20`). An AsyncClient awaits what each returns, and
  `await None` is a TypeError, although `docs/mixin_logging/apps/adapters/httpx.md:44`
  uses it so.
* `docs/mixin_notifications/audits/2026-07-29-0.6.0-delivery-security-audit.md:32`
  says no exception leaves a backend. A `should_retry` that raises is asked again
  in the `except` (`backends/_client.py:180`) and raises out of `send`
  (`FailuresBecomeResults` says exactly what may), and SNS reads `severity.value`
  outside its `try`.
* `CHANGELOG.md:18` lists the errors of SNS that are retryable and calls the
  others non-retryable; an error whose `response` is None makes the handler raise
  AttributeError instead (`sns.py:77`), which a policy may well retry.
* `CHANGELOG.md:18` has SNS take its topic from the metadata of the event; the
  egress gate replaces the metadata (`dispatch/_client.py:130`), so that an event
  that comes through a Dispatcher always goes to the default topic.
* `docs/mixin_logging/apps/adapters/stdlib.md:11` and `:21` promise the id on every log
  record, third-party libraries' included, and `docs/mixin_logging/redaction/README.md:16` says
  that the redaction filter examines every LogRecord. Both are filters of a logger, and a
  logger's filters see the records made on it and not those that reach its handlers from
  another one. `LineShowsItsFlow` and `SecretsMasked` speak of the record's own logger.
* `docs/mixin_logging/reviews/2026-06-19-urllib3-adapter-review.md:186` says that the context
  takes precedence over a header the caller passes. It does not when the caller spells
  the header otherwise: both go out, and the receiver may read the caller's (`SendRespelt`;
  the exception for it in `HopsKeepId` is this disagreement).
* `docs/mixin_logging/redaction/README.md:178` says that values that are not strings pass
  unchanged, and line 11 that numeric values are preserved; `redaction_objects.py:55-60`
  masks whatever value a sensitive name has, as `Redacted` does. Line 177 says that the
  standard fields of a record are unchanged: no default pattern hits one, but a
  pattern of one's own may.
* `docs/mixin_logging/audits/2026-07-21-flush-handler-security-audit.md:75` says that the
  sentinel `-buffered-` keeps the records without an id apart. The adapters accept it as an
  id like any other, so that such a request shares that bucket: its warning
  hands over records that show `-`, and a trail shows two ids (`IdsOfFlow`).
* `docs/mixin_notifications/architecture/flow-trace.md:173` says `notify` never
  raises into its caller; the tracker and the egress gate may.

## 5. The proofs

TLAPS checks them for every value of the constants that satisfies the named
assumptions (`ConfigAssumption`, `IdsAssumption`, ... in the modules).

*FlushHandlerProofs.* `IInv == Dictionaries /\ Order /\ Others`. TypeOK alone is not
inductive: the two dictionaries must have the same keys, and `OrderCoversBuffers`
needs the type of the order. `Dictionaries` holds the types, equal domains and
`TrailsBounded`; `Order` says that every buffer's id is in `_correlation_order`. One
lemma per action shows that it is kept; evictions restrict both dictionaries alike
(`EvictIInv`), and an append adds an id to the order exactly when it adds a
buffer. From it follow `TypeCorrect`, `OrderCovers`, `Bounded` and `CapLoopNeverStuck`
(whenever the cap is exceeded there is an id to pop: the buffers exceed a cap that is
at least one, so one of them is in the order). `FlowsIsolated` has an induction
of its own on top: buffers and frames hold one flow each.

`LoopsInPlace` says where a flush is: the loop of a frame that is still live has passed
by what it delivered and has the rest of its buffer to go. It is inductive because
whatever else takes or changes a buffer (expiry, the cap, an append, the end of a
nested flush of the same id) makes its loops detached or mutated (`NotEvicted`,
`NotMutated`). It gives `UnsentIsKept`, and `NothingLost`, whose hard case is the
eviction that ends a flush: all but the last record are out, and the last goes out
now. `StaleIsGone` needs besides that a record is numbered after those in the buffers.
`HandlerIsAStore` is the refinement, under `MaxNesting = 0` and `~TargetMayRaise`, which
is what its run has too: the invariant `OneAtATime` adds that one flush at most is under
way, its loop never fails, and its buffer is gone when only the warning is left.
Buffering maps to `Hold`, the start of a flush to `Release` of the whole trail, the cap
to `Discard`, and the rest to no step.

`HandlerIsAFallibleStore` is the refinement without that second hypothesis. A flush can no
longer be mapped to one step, since it may fail half-way: its start maps to `Arrive`, the end
of its loop to `HandTrail`, its return to `HandWarning`, an exception to `Fail(k)`, and a record
in the middle to no step. In between, what was delivered is mapped without the records of the
flush under way, which `Taking` identifies: the last `p` records delivered are the first `p` of
its buffer (`EndsWithFirst`). `RecordsInOrder` uses the same facts: a buffer holds its records
in the order logged (`TrailInOrder`), so what a flush delivers is in order, and newer than what
was delivered of its flow, unless it was delivered before, by a flush that failed. It is false
where the target logs (`MaxNesting = 1`): a nested flush of another record goes out first.

`EmitsRunOut` is the safety half of `LockReleased`, for any nesting: every step of a
flush shortens the first of three lengths that it changes, that of `_correlation_order`, of
the stack of flushes, and of what the innermost has to pass on.

*RetryExecutorProofs.* `LoopInv` says what the wrapper knows at each point of its loop:
an attempt under way is below `max_attempts`, a sleep follows an error the predicate
retries, and what was raised is explained by the last error (`WhyRaised`: no attempt or
no wish to retry was left, the predicate raised, or the backoff or the sleep did).
`PolicyInv` says which policy that is. They are apart so that `RetryingBackend`, which
makes a policy of its own, uses the same lemmas. Four theorems follow from it.
`DelaysGrowToTheCap` needs that the delay of a sleep is the backoff of the attempt just
made (`DelayOfAttempt`), which two successive delays are compared by. It is about powers of the multiplier: `Power` is a recursive function, and
what is needed of it, that it grows with its argument, is proved by taking the least
number that would be an exception, the induction theorems being out of reach. `CallsRunOut` is the
safety half of `Ends`: `StepsLeft`, two for each attempt left and one less during
a sleep, goes down at every step.

*RetryingBackendProofs.* `SendInv` is `LoopInv` of the executor, without `PolicyInv`, with
`SentInv`, which ties what was sent to the attempt the executor is at and each outcome
to the error `attempt_send` makes of it (`Led`), and `PhaseInv`, which says how `send` came
to the phase it is in, and what of it the executor raised. The bridge between the two policies is a lemma: an error that
the predicate of the made policy retries comes from an outcome the given policy
retries. Ten theorems follow: one for each safety property of the run, for any
policy, inner backend, event and dead letter, and `SendsRunOut`, the safety half of `SendEnds`,
from the executor's.

*DispatcherProofs.* `IInv` adds to TypeOK: notifies are numbered apart (`Numbered`);
every entry of the dictionary was recorded by a dispatched notify (`SeenRecorded`), which
is what survives races, since the write and the history are one step; a call
before its write has recorded nothing (`Unrecorded`); a call that suppresses has a
duplicate within the window (`Duplicates`); and what each backend was handed is what
the gate makes of the event, in order (`HandedInOrder`). `SuppressionSound`,
`EgressGated` and `BackendsServed` follow for any number of threads and any tuple of
backends. `CallsRunOut` says that nobody can hold a call of `notify` up: no step of another
thread is noticed by it, and each of its own brings it to a later part, or leaves fewer
keys to weigh or backends to serve. It needs `ScanBounded`, that `min` never meets more
keys than there were when it started, which is what the iterator's own check guarantees
while other threads write.

*DispatcherAloneProofs.* With one caller, what a call finds in the dictionary is what it
left there. `TrackerSound` says so step by step: the key it found is there to be read, and
`min`, which visits and weighs the keys one at a time, has the oldest of those it weighed
in a dictionary that has not changed under it. `Capacity` says when one key too many is
there. `NeverRaises`, `Bounded` and `OldestEvicted` follow. `DiscardsDuplicates` needs a
fact about the whole past (`Kept`): what was recorded is still in the dictionary, with its
time or a later one, unless as many other keys as it holds were recorded no earlier. It
assumes that the window is not negative, which the code does not check: with a negative
one nothing is a duplicate, and a clock that steps back would set the time of a key back.

`AloneIsADuplicateFilter` is the refinement. While there is a key too many the dictionary is
mapped without the key just written, so that a record that makes room takes effect when the
oldest key is deleted, and any other at its write; everything else maps to no step. It needs
besides that a call finds its key as it wrote it (`Written`).

*CorrelationProofs.* The three properties relate a context to the requests it works
for; none is kept by a step without more. `IInv` holds, for each context
(`Context`): a context that does not run is inside no adapter, a worker has inherited
nothing, a task or thread has (`Started`); gRPC and cloud frames are only at the
bottom of a worker reached through that adapter (`Outermost`), without which a
cloud call could end inside another request and leave its id there; and for one that
runs, the id it has is one of its own work (`OwnId`), is that of the request it is to
find (`ScopeId`, by `Holder`: the innermost call's `holds`, or a task's `origin`), and is gone once an RPC's handler runs (`HandlerId`). Every adapter but
Celery's, which may find no header, has resolved an id (`Resolved`): a response can only
then be said to carry it. `MessagesKeepId` says the same of what is sent or kept (messages,
events, resolver contexts, responses), and `RequestsKeepId` of what a message started
(`Carried`: the same id, or one of the two exceptions). The lemma `ApartKeeps` shows once that a
step leaves every context it does not touch as it was, so that each action is
checked for its own context only. From it follow `TypeCorrect`, `OwnWork`,
`ThroughoutScope` and `HopsKept`, for any number of workers, tasks, threads, requests
and messages and any nesting.

*LogPipelineProofs.* `Underway` says what a record shows on its way (`ShowsWhatItMet`): what
the filters it has met, in their order, make of it; they are the first ones of its logger's
list, so that the others are still ahead, whatever was attached since. The lemmas
`RedactedFields` and `StampedFields` say what one filter more does, for any patterns: a later
mask ends what a stamp promised (`IdLastsBefore`), a later stamp replaces one mask. No
assumption keeps ids apart from `-buffered-` and `-`, or patterns from
`correlation_id`. `SoundEntries` are
the entries of a trail whose record shows what it should; that `held` and `delivered`
hold no others is kept by any step of `TrailStore`, since a step of it only moves entries
and adds the one of the record that is handled. From it follow `LinesShowTheirFlow` and
`SecretsStayMasked`; `ClassifiedFieldsStayHidden` also needs that the objects in the
fields passed the guard when they were made (`Made`).

*SequenceFacts* holds what these proofs need of sequences (the range of an append
and of a tail, the front and the last element, prefixes, passing on a head), proved from the library's theorems.

## 6. What is only model-checked, and what is not modelled

Liveness under fairness (`Ends`, `SendEnds`, `LockReleased`) is out of the prover's
reach and checked by TLC only; that the steps run out is proved (`CallsRunOut`,
`SendsRunOut`, `EmitsRunOut`), that one is always taken is not, since it is about what is enabled and about
fairness. Every other property of a passing run is a theorem too.

Abstracted: a record in the flush handler is its number and its flow, and in the log
pipeline its fields; text, formatting and levels other than whether they flush are left
out; a fresh id is the number of its request (uuid4 does not collide); which of the ids
that are not ASCII one arrives as is left open; ASGI scopes that are not HTTP pass through and
change nothing; a WSGI generator is closed in the context that started it; a name has
in it the patterns that `PatternsIn` says, and none is in the names LogRecord itself uses
(no default one is; one of an application's own that hit `levelno` would make the handler
raise).

Not modelled:

* what a request to SES or SNS holds (topic, attributes, MIME parts): pure construction;
* the validations in the constructors of events and configurations: each refuses a value
  and changes nothing;
* `is_empty`, `has` and `fields_of` of a classification, which nothing in the repository
  calls;
* filters attached to a handler rather than to a logger: the library attaches none;
* objects inside objects: `__repr__` masks the fields of its own class, and what the
  `repr` of a field's value shows is that value's affair;
* the registration of hooks of the outbound adapters, which happens once, before requests;
* the latency clock: two readings and a difference.

## 7. Plan

The order in which the modules were written, the most important behaviour first:

1. `TrailStore`, `FallibleStore`, `FlushHandler`: checked, safety and both refinements proved.
2. `RetryExecutor`: checked, proved.
3. `RetryingBackend`, on top of 2, and `BuiltinBackends` under it: checked, proved.
4. `SuppressionTracker`, `Dispatcher`, `DuplicateFilter`: checked, proved for any number of
   threads and for one, for which the refinement is proved too.
5. `CorrelationContext`, `CorrelationFlow`: checked, proved; with the headers an
   application sets itself, urllib3's second spelling, events, the GraphQL context and
   responses.
6. `SensitiveData`, and `LogPipeline` over it, `CorrelationContext` and `TrailStore`: checked,
   proved.

Left: `BuiltinBackends` composed with `Dispatcher` (what the gate leaves of the metadata
SNS reads; a delivery over several notifies, in which the event was recorded before it
failed); the refinement of `TrailStore` by a handler whose target logs on another logger;
the flush handler's own dictionaries under `LogPipeline`, in place of `TrailStore`, where
threads take its lock; a bound on `_correlation_order`, should the code come to have one.
To prove: that a record reaches a target that neither raises nor logs once at most; what
`DuplicateFilter` and `FallibleStore` promise, as invariants of theirs that the
implementations inherit; a refinement for the correlation context.
