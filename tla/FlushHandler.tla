---------------------------- MODULE FlushHandler ----------------------------
(***************************************************************************)
(* mixin_logging/adapters/stdlib/flush_handler_client.py                   *)
(*                                                                         *)
(* FlushOnWarningHandler keeps one buffer per correlation id.  A record    *)
(* below flush_level is buffered; a record at or above it drains the       *)
(* buffer of its own correlation into the target handler and follows it.   *)
(* emit() runs under the reentrant lock of logging.Handler, so threads are *)
(* serialised: while `stack' is not empty one thread is inside emit(), and *)
(* the only thing that can log is the target handler itself, on that same  *)
(* thread and so with that same correlation id.                            *)
(*                                                                         *)
(* A call of target.emit is the one point of emit() where other things     *)
(* happen: time passes, the target raises, or the target logs (a nested    *)
(* emit).  The rest of emit() is one step.  The while loop of              *)
(* _evict_oldest_correlation_if_exceeded is one step per iteration, since  *)
(* whether it ends is one of the questions.                                *)
(***************************************************************************)
EXTENDS Integers, Sequences, FiniteSets, SequencesExt

CONSTANTS CorrelationIds,     \* ids a context may carry
          NullId,             \* NULL_CORRELATION_ID
          Unset,              \* what get_correlation_id returns when there is none
          TtlSeconds, Capacity, MaxCorrelations, \* FlushOnWarningConfig
          ClockMayStepBack,   \* time.time() is not monotonic
          TargetMayRaise,     \* target.emit may raise
          MaxNesting,         \* bound: emits the target may start inside an emit
          MaxClock,           \* bound: readings of the clock
          MaxRecords          \* bound: records logged

\* FlushOnWarningConfig.__post_init__ refuses every other configuration.  (Time
\* is counted in ticks; the level a record is compared with is in the choice
\* between EmitBuffered and EmitFlush.)
ValidConfig == /\ TtlSeconds \in Nat \ {0}
               /\ Capacity \in Nat \ {0}
               /\ MaxCorrelations \in Nat \ {0}

ASSUME ConfigAssumption == ValidConfig

ASSUME IdsAssumption == /\ IsFiniteSet(CorrelationIds)
                        /\ Unset \notin CorrelationIds

ASSUME BoundsAssumption == /\ MaxNesting \in Nat
                           /\ MaxClock \in Nat
                           /\ MaxRecords \in Nat
                           /\ ClockMayStepBack \in BOOLEAN
                           /\ TargetMayRaise \in BOOLEAN

VARIABLES buffers,            \* _buffers : id -> deque of records
          timestamps,         \* _timestamps : id -> when its buffer was created
          correlation_order,  \* _correlation_order : deque of ids
          clock,              \* time.time()
          stack,              \* emit() calls that are inside target.emit, innermost last
          delivered,          \* records target.emit has accepted, in order
          logged              \* records logged so far; numbers them

vars ==
  <<buffers, timestamps, correlation_order, clock, stack, delivered, logged>>

Flows == CorrelationIds \cup {NullId}
Contexts == CorrelationIds \cup {Unset}
Record == [n : Nat \ {0}, flow : Flows]

\* A call of emit() that drains a buffer.  todo: the records it has still to
\* pass to the target, the one being passed first, the record that triggered
\* the flush last.  iter: what became of the deque the `for' loop iterates.
\* It is still the buffer ("live"), it was appended to ("mutated"), or it is no
\* longer the buffer of the id ("detached").
Frame == [id : Flows, todo : Seq(Record) \ {<<>>},
          iter : {"live", "mutated", "detached"}]

Init ==
  /\ buffers = [c \in {} |-> <<>>]
  /\ timestamps = [c \in {} |-> 0]
  /\ correlation_order = <<>>
  /\ clock = 0
  /\ stack = <<>>
  /\ delivered = <<>>
  /\ logged = 0

-----------------------------------------------------------------------------
(* The steps emit() is made of                                             *)

BucketNotReplaced(ctx) == ctx  \* seeded bug: an unset id is used as it is

\* _get_correlation_id: the ContextVar at emit time, or the null bucket
BucketOf(ctx) == IF ctx = Unset THEN NullId ELSE ctx

\* seeded bugs: the comparison with ttl_seconds is off by one, either way
ExpiredEarly == {c \in DOMAIN timestamps : clock - timestamps[c] >= TtlSeconds}
ExpiredLate == {c \in DOMAIN timestamps : clock - timestamps[c] > TtlSeconds + 1}

\* _evict_expired_buffers: the ids whose buffer is older than ttl_seconds
Expired == {c \in DOMAIN timestamps : clock - timestamps[c] > TtlSeconds}

\* _evict_correlation, of a set of ids: pops _buffers and _timestamps and
\* leaves _correlation_order alone
Evict(map, ids) == [c \in DOMAIN map \ ids |-> map[c]]

\* seeded bug: one record more than capacity is kept
AppendOneMore(deque, record) ==
  LET longer == Append(deque, record)
  IN  IF Len(longer) > Capacity + 1 THEN Tail(longer) ELSE longer

\* deque(maxlen=capacity).append
AppendTo(deque, record) ==
  LET longer == Append(deque, record)
  IN  IF Len(longer) > Capacity THEN Tail(longer) ELSE longer

\* seeded bug: an id without a buffer drains the null bucket instead
TrailOrNullBucket(map, id) ==
  IF id \in DOMAIN map THEN map[id]
  ELSE IF NullId \in DOMAIN map THEN map[NullId] ELSE <<>>

\* the buffer that is drained for an id
TrailOf(map, id) == IF id \in DOMAIN map THEN map[id] ELSE <<>>

\* what an eviction, or an append, does to the loops that iterate the deque
Detach(frames, ids) ==
  [i \in DOMAIN frames |->
     IF frames[i].id \in ids /\ frames[i].iter = "live"
     THEN [frames[i] EXCEPT !.iter = "detached"] ELSE frames[i]]
Mutate(frames, id) ==
  [i \in DOMAIN frames |->
     IF frames[i].id = id /\ frames[i].iter = "live"
     THEN [frames[i] EXCEPT !.iter = "mutated"] ELSE frames[i]]

\* the condition of the while loop in _evict_oldest_correlation_if_exceeded
Exceeded == Cardinality(DOMAIN buffers) > MaxCorrelations

Top == Last(stack)
Pop(frames) == Front(frames)
Push(frames, frame) == Append(frames, frame)

\* seeded bug: nothing is ever entered into _correlation_order
OrderForgotten(id, fresh) == correlation_order

\* a buffer that is created is entered into _correlation_order
OrderAfter(id, fresh) == IF fresh THEN Append(correlation_order, id)
                                  ELSE correlation_order

NewRecord(id) == [n |-> logged + 1, flow |-> id]

\* emit() can be entered: the lock is free, or its holder is in target.emit
CanEnter(id) ==
  /\ ~Exceeded
  /\ logged < MaxRecords
  /\ Len(stack) <= MaxNesting
  /\ stack # <<>> => Top.id = id

-----------------------------------------------------------------------------
(* emit()                                                                  *)

\* a record below flush_level: evict what expired, then buffer the record
EmitBuffered(ctx) ==
  LET id    == BucketOf(ctx)
      kept  == Evict(buffers, Expired)
      fresh == id \notin DOMAIN kept
      old   == IF fresh THEN <<>> ELSE kept[id]
  IN  /\ CanEnter(id)
      /\ logged' = logged + 1
      /\ buffers' = [c \in DOMAIN kept \cup {id} |->
                       IF c = id THEN AppendTo(old, NewRecord(id)) ELSE kept[c]]
      /\ timestamps' = [c \in DOMAIN kept \cup {id} |->
                          IF c = id /\ fresh THEN clock ELSE timestamps[c]]
      /\ correlation_order' = OrderAfter(id, fresh)
      /\ stack' = Mutate(Detach(stack, Expired), id)
      /\ UNCHANGED <<clock, delivered>>

\* seeded bug: the buffer is cleared before it is emitted, not after
EmitFlushClearsFirst(ctx) ==
  LET id    == BucketOf(ctx)
      kept  == Evict(buffers, Expired)
  IN  /\ CanEnter(id)
      /\ logged' = logged + 1
      /\ buffers' = Evict(kept, {id})
      /\ timestamps' = Evict(timestamps, Expired \cup {id})
      /\ stack' = Push(Detach(stack, Expired),
                       [id |-> id, todo |-> Append(TrailOf(kept, id), NewRecord(id)),
                        iter |-> "live"])
      /\ UNCHANGED <<correlation_order, clock, delivered>>

\* a record at flush_level or above: evict what expired, then start to drain
\* the buffer of its id, the record itself coming last
EmitFlush(ctx) ==
  LET id    == BucketOf(ctx)
      kept  == Evict(buffers, Expired)
      trail == TrailOf(kept, id)
  IN  /\ CanEnter(id)
      /\ logged' = logged + 1
      /\ buffers' = kept
      /\ timestamps' = Evict(timestamps, Expired)
      /\ stack' = Push(Detach(stack, Expired),
                       [id |-> id, todo |-> Append(trail, NewRecord(id)),
                        iter |-> IF trail = <<>> THEN "detached" ELSE "live"])
      /\ UNCHANGED <<correlation_order, clock, delivered>>

\* target.emit accepts the record that was being passed to it
Deliver == /\ stack # <<>>
           /\ ~Exceeded
           /\ delivered' = Append(delivered, Head(Top.todo))

Advance(frames) ==
  [frames EXCEPT ![Len(frames)].todo = Tail(@)]

\* ... a record of the trail, with more of the trail to come
TargetReturnsMidTrail ==
  /\ Deliver
  /\ Len(Top.todo) > 2 /\ Top.iter # "mutated"
  /\ stack' = Advance(stack)
  /\ UNCHANGED <<buffers, timestamps, correlation_order, clock, logged>>

\* seeded bug: the buffer that was drained is kept
TargetReturnsTrailKept ==
  /\ Deliver
  /\ Len(Top.todo) = 2 /\ Top.iter # "mutated"
  /\ stack' = Advance(stack)
  /\ UNCHANGED <<buffers, timestamps, correlation_order, clock, logged>>

\* ... the last record of the trail: the loop ends, the id is evicted, and the
\* record that triggered the flush is next
TargetReturnsEndOfTrail ==
  /\ Deliver
  /\ Len(Top.todo) = 2 /\ Top.iter # "mutated"
  /\ buffers' = Evict(buffers, {Top.id})
  /\ timestamps' = Evict(timestamps, {Top.id})
  /\ stack' = Advance(Detach(stack, {Top.id}))
  /\ UNCHANGED <<correlation_order, clock, logged>>

\* ... a record of the trail, and the deque changed meanwhile: the loop raises
\* RuntimeError (deque mutated during iteration) out of emit()
TargetReturnsTrailMutated ==
  /\ Deliver
  /\ Len(Top.todo) > 1 /\ Top.iter = "mutated"
  /\ stack' = Pop(stack)
  /\ UNCHANGED <<buffers, timestamps, correlation_order, clock, logged>>

\* ... the record that triggered the flush: emit() returns
TargetReturnsRecord ==
  /\ Deliver
  /\ Len(Top.todo) = 1
  /\ stack' = Pop(stack)
  /\ UNCHANGED <<buffers, timestamps, correlation_order, clock, logged>>

\* target.emit raises: so does emit(), and the buffer is as it was
TargetRaises ==
  /\ TargetMayRaise
  /\ stack # <<>>
  /\ ~Exceeded
  /\ stack' = Pop(stack)
  /\ UNCHANGED <<buffers, timestamps, correlation_order, clock, delivered, logged>>

\* one iteration of the loop in _evict_oldest_correlation_if_exceeded.  With an
\* empty _correlation_order the loop would spin for ever, lock in hand.
EvictOldestCorrelation ==
  /\ Exceeded
  /\ correlation_order # <<>>
  /\ correlation_order' = Tail(correlation_order)
  /\ buffers' = Evict(buffers, {Head(correlation_order)})
  /\ timestamps' = Evict(timestamps, {Head(correlation_order)})
  /\ stack' = Detach(stack, {Head(correlation_order)})
  /\ UNCHANGED <<clock, delivered, logged>>

-----------------------------------------------------------------------------
(* The environment                                                         *)

Tick == /\ clock < MaxClock
        /\ clock' = clock + 1
        /\ UNCHANGED <<buffers, timestamps, correlation_order, stack, delivered,
                       logged>>

ClockStepsBack == /\ ClockMayStepBack
                  /\ clock > 0
                  /\ clock' = clock - 1
                  /\ UNCHANGED <<buffers, timestamps, correlation_order, stack,
                                 delivered, logged>>

\* every bound is reached and nobody is in emit(): the run ends here, and a
\* state that ends anywhere else is a deadlock
BoundsReached == /\ logged = MaxRecords
                 /\ clock = MaxClock
                 /\ stack = <<>>
                 /\ ~Exceeded
                 /\ UNCHANGED vars

TargetReturns == \/ TargetReturnsMidTrail
                 \/ TargetReturnsEndOfTrail
                 \/ TargetReturnsTrailMutated
                 \/ TargetReturnsRecord

Next == \/ \E ctx \in Contexts : EmitBuffered(ctx)
        \/ \E ctx \in Contexts : EmitFlush(ctx)
        \/ TargetReturnsMidTrail
        \/ TargetReturnsEndOfTrail
        \/ TargetReturnsTrailMutated
        \/ TargetReturnsRecord
        \/ TargetRaises
        \/ EvictOldestCorrelation
        \/ Tick
        \/ ClockStepsBack
        \/ BoundsReached

\* a thread inside emit() keeps running: its own loop goes on, and the target
\* handler, which writes one record, comes back
Fairness == /\ WF_vars(TargetReturns)
            /\ WF_vars(EvictOldestCorrelation)

Spec == Init /\ [][Next]_vars /\ Fairness
-----------------------------------------------------------------------------
(* Properties                                                              *)

\* Every variable keeps its type; in particular a flush that is under way
\* always has at least the record that triggered it left to emit.
TypeOK ==
  /\ DOMAIN buffers \subseteq Flows
  /\ buffers \in [DOMAIN buffers -> Seq(Record)]
  /\ DOMAIN timestamps \subseteq Flows
  /\ timestamps \in [DOMAIN timestamps -> Nat]
  /\ correlation_order \in Seq(Flows)
  /\ clock \in Nat
  /\ stack \in Seq(Frame)
  /\ delivered \in Seq(Record)
  /\ logged \in Nat

\* Ids are removed from _buffers by flush, TTL and cap, and only the cap removes
\* them from _correlation_order.  Still every buffer can be reached from
\* _correlation_order, so that the while loop of the cap never finds it empty
\* (it would spin for ever), and every buffer has the timestamp that lets it
\* expire.
OrderCoversBuffers == /\ DOMAIN buffers \subseteq Range(correlation_order)
                      /\ DOMAIN timestamps = DOMAIN buffers

\* A buffer is never empty, never over capacity, and the number of buffers is
\* over max_correlations by one at most, inside the call that creates the one
\* too many, whatever the target raises or logs in between.
TrailsBounded == /\ \A c \in DOMAIN buffers : Len(buffers[c]) \in 1..Capacity
                 /\ Cardinality(DOMAIN buffers) <= MaxCorrelations + 1

\* Request A's warning does not bring request B's records out: what a flush has
\* still to emit, and what a buffer holds, are records of one flow only.
OwnTrailOnly ==
  /\ \A c \in DOMAIN buffers : \A r \in Range(buffers[c]) : r.flow = c
  /\ \A f \in Range(stack) : \A r \in Range(f.todo) : r.flow = f.id

\* While a flush goes on, the records it has not emitted yet are still the tail
\* end of the buffer: if the target raises now, none of them is lost.
UnsentTrailStaysBuffered ==
  \A f \in Range(stack) :
    f.iter = "live" => /\ f.id \in DOMAIN buffers
                       /\ IsSuffix(Front(f.todo), buffers[f.id])

\* A record leaves the buffers only when the target gets it, when its buffer
\* has expired, when the cap evicts the buffer, or when it is the oldest of a
\* full buffer.  (The eviction that ends a flush also takes the records the
\* target logged meanwhile if the buffer being drained had expired under it.)
Buffered(r) == r.flow \in DOMAIN buffers /\ r \in Range(buffers[r.flow])
NoSilentLoss ==
  [][\A c \in DOMAIN buffers : \A r \in Range(buffers[c]) :
       Buffered(r)' \/ r \in Range(delivered')
         \/ (logged' > logged /\ clock - timestamps[c] > TtlSeconds)
         \/ Exceeded
         \/ (logged' > logged /\ Len(buffers[c]) = Capacity /\ r = Head(buffers[c]))
         \/ (stack # <<>> /\ Top.id = c /\ Top.iter = "detached")]_vars

\* "lazily evicted on the next record emission": once emit() has looked at the
\* clock no buffer of any flow is older than ttl_seconds, and no expired record
\* is drained.
NothingStaleSurvivesEmit ==
  [][logged' > logged =>
       /\ \A c \in DOMAIN timestamps' : clock - timestamps'[c] <= TtlSeconds
       /\ Len(stack') > Len(stack) =>
            \A c \in DOMAIN buffers : clock - timestamps[c] > TtlSeconds =>
              \A r \in Range(buffers[c]) : r \notin Range(Top'.todo)]_vars

\* emit() always comes to an end and gives the handler lock back: no loop of
\* the handler spins, whatever ids are left behind in _correlation_order.
InEmit == stack # <<>> \/ Exceeded
LockReleased == InEmit ~> ~InEmit

\* The handler is the store of TrailStore as long as the target neither raises
\* nor logs.  A trail counts as handed over when its flush begins.
Draining(c) == stack # <<>> /\ Top.id = c
Trails == INSTANCE TrailStore
            WITH held <- [c \in Flows |-> IF c \in DOMAIN buffers /\ ~Draining(c)
                                          THEN buffers[c] ELSE <<>>],
                 delivered <- IF stack = <<>> THEN delivered
                                              ELSE delivered \o Top.todo
ImplementsTrailStore == Trails!Spec

\* The handler is the store of FallibleStore as long as the target does not log,
\* whenever it raises.  The trail of a flush counts as handed over when the target has
\* its last record, or has raised.
PassedBy(f) == IF f.id \in DOMAIN buffers THEN Len(buffers[f.id]) - (Len(f.todo) - 1) ELSE 0
Fallible == INSTANCE FallibleStore
              WITH held <- [c \in Flows |-> TrailOf(buffers, c)],
                   delivered <- IF stack = <<>> THEN delivered
                                ELSE SubSeq(delivered, 1, Len(delivered) - PassedBy(Top)),
                   flushing <- IF stack = <<>> THEN <<>> ELSE <<Last(Top.todo)>>
ImplementsFallibleStore == Fallible!FallibleSpec

-----------------------------------------------------------------------------
(* What the documentation says and the code does not do                    *)

\* flush-handler.md: the cap "evicts the oldest correlation by insertion
\* order".  A buffer the cap evicts was created no later than those it keeps.
EvictsOldestByInsertion ==
  [][Exceeded => \A c \in DOMAIN buffers \ DOMAIN buffers' :
                   \A d \in DOMAIN buffers' : timestamps[c] <= timestamps[d]]_vars

\* flush-handler.md: records at or above flush_level "are always emitted
\* immediately to the target handler (after any flushed trail)".  With a target
\* that never raises, an emit() that ends has emitted its record.
WarningAlwaysEmitted ==
  [][Len(stack') < Len(stack) => Last(Top.todo) \in Range(delivered')]_vars

=============================================================================
