------------------------- MODULE FlushHandlerProofs -------------------------
(***************************************************************************)
(* Proofs about FlushHandler, for every value of its constants.            *)
(***************************************************************************)
EXTENDS FlushHandler, SequenceFacts, FiniteSetTheorems

-----------------------------------------------------------------------------
(* The steps emit() is made of                                             *)

\* Evicting ids restricts a dictionary.
LEMMA EvictType ==
  ASSUME NEW D, NEW S, NEW map \in [D -> S], NEW ids
  PROVE  /\ DOMAIN Evict(map, ids) = D \ ids
         /\ Evict(map, ids) \in [D \ ids -> S]
         /\ \A c \in D \ ids : Evict(map, ids)[c] = map[c]
  BY DEF Evict

\* deque.append keeps a deque within its maxlen.
LEMMA AppendToType ==
  ASSUME ValidConfig, NEW deque \in Seq(Record), NEW r \in Record
  PROVE  /\ AppendTo(deque, r) \in Seq(Record)
         /\ Len(deque) <= Capacity => Len(AppendTo(deque, r)) \in 1..Capacity
  <1> DEFINE longer == Append(deque, r)
  <1>1. longer \in Seq(Record) /\ Len(longer) = Len(deque) + 1 /\ longer # <<>>
    BY AppendProperties
  <1>2. Tail(longer) \in Seq(Record) /\ Len(Tail(longer)) = Len(longer) - 1
    BY <1>1, HeadTailProperties
  <1>3. Len(deque) \in Nat /\ Capacity \in Nat \ {0}
    BY DEF ValidConfig
  <1> QED BY <1>1, <1>2, <1>3 DEF AppendTo

\* Evictions and appends change nothing of a frame but what became of its deque.
LEMMA DetachType ==
  ASSUME NEW frames \in Seq(Frame), NEW ids
  PROVE  /\ Detach(frames, ids) \in Seq(Frame)
         /\ Len(Detach(frames, ids)) = Len(frames)
  <1>1. \A f \in Frame : [f EXCEPT !.iter = "detached"] \in Frame
    BY DEF Frame
  <1>2. DOMAIN frames = 1..Len(frames) /\ Len(frames) \in Nat
    OBVIOUS
  <1>3. \A i \in 1..Len(frames) : frames[i] \in Frame
    BY ElementOfSeq
  <1>4. Detach(frames, ids) \in [1..Len(frames) -> Frame]
    BY <1>1, <1>2, <1>3 DEF Detach
  <1> QED BY <1>2, <1>4, IsASeq, LenProperties

\* An append marks the frames that iterate the deque, and changes no type.
LEMMA MutateType ==
  ASSUME NEW frames \in Seq(Frame), NEW id
  PROVE  /\ Mutate(frames, id) \in Seq(Frame)
         /\ Len(Mutate(frames, id)) = Len(frames)
  <1>1. \A f \in Frame : [f EXCEPT !.iter = "mutated"] \in Frame
    BY DEF Frame
  <1>2. DOMAIN frames = 1..Len(frames) /\ Len(frames) \in Nat
    OBVIOUS
  <1>3. \A i \in 1..Len(frames) : frames[i] \in Frame
    BY ElementOfSeq
  <1>4. Mutate(frames, id) \in [1..Len(frames) -> Frame]
    BY <1>1, <1>2, <1>3 DEF Mutate
  <1> QED BY <1>2, <1>4, IsASeq, LenProperties

\* The innermost emit() that is inside target.emit, and the record it passes.
LEMMA TopType ==
  ASSUME NEW frames \in Seq(Frame), frames # <<>>
  PROVE  /\ Last(frames) \in Frame
         /\ Last(frames) = frames[Len(frames)]
         /\ Pop(frames) \in Seq(Frame)
         /\ Head(Last(frames).todo) \in Record
         /\ Tail(Last(frames).todo) \in Seq(Record)
         /\ Len(Last(frames).todo) \in Nat
  <1>1. Last(frames) \in Frame /\ Last(frames) = frames[Len(frames)] /\ Pop(frames) \in Seq(Frame)
    BY FrontLast DEF Pop
  <1>2. Last(frames).todo \in Seq(Record) /\ Last(frames).todo # <<>>
    BY <1>1 DEF Frame
  <1> QED BY <1>1, <1>2, HeadTailProperties

\* The loop goes on to the next record.
LEMMA AdvanceType ==
  ASSUME NEW frames \in Seq(Frame), frames # <<>>,
         Len(Last(frames).todo) > 1
  PROVE  Advance(frames) \in Seq(Frame)
  <1>1. Len(frames) \in 1..Len(frames)
    BY EmptySeq
  <1>2. Last(frames) \in Frame /\ Last(frames) = frames[Len(frames)]
    BY TopType
  <1>3. Last(frames).todo \in Seq(Record) /\ Last(frames).todo # <<>>
    BY <1>2 DEF Frame
  <1>4. /\ Tail(Last(frames).todo) \in Seq(Record)
        /\ Len(Tail(Last(frames).todo)) = Len(Last(frames).todo) - 1
    BY <1>3, HeadTailProperties
  <1>5. Tail(Last(frames).todo) # <<>>
    BY <1>3, TailNotEmpty
  <1>6. [Last(frames) EXCEPT !.todo = Tail(@)] \in Frame
    BY <1>2, <1>4, <1>5 DEF Frame
  <1>7. Advance(frames) = [frames EXCEPT ![Len(frames)] = [Last(frames) EXCEPT !.todo = Tail(@)]]
    BY <1>1, <1>2 DEF Advance
  <1> QED BY <1>1, <1>6, <1>7, ExceptSeq
-----------------------------------------------------------------------------
(* The inductive invariant                                                 *)

\* TypeOK is not inductive without the timestamps of the buffers, nor
\* OrderCoversBuffers without the types, nor TrailsBounded without either: the
\* three are proved together, sorted here by the variables they are about.
Dictionaries ==
  /\ DOMAIN buffers \subseteq Flows
  /\ buffers \in [DOMAIN buffers -> Seq(Record)]
  /\ DOMAIN timestamps = DOMAIN buffers
  /\ timestamps \in [DOMAIN timestamps -> Nat]
  /\ TrailsBounded

Order == /\ correlation_order \in Seq(Flows)
         /\ DOMAIN buffers \subseteq Range(correlation_order)

Others == /\ clock \in Nat
          /\ stack \in Seq(Frame)
          /\ delivered \in Seq(Record)
          /\ logged \in Nat

IInv == Dictionaries /\ Order /\ Others

\* Only finitely many ids exist, so that the buffers can be counted.
LEMMA BuffersFinite ==
  ASSUME NEW S \in SUBSET Flows
  PROVE  IsFiniteSet(S) /\ Cardinality(S) \in Nat
  <1>1. IsFiniteSet(Flows)
    BY IdsAssumption, FS_AddElement DEF Flows
  <1> QED BY <1>1, FS_Subset, FS_CardinalityType

\* The handler as __init__ leaves it satisfies the inductive invariant.
LEMMA InitIInv == Init => IInv
  <1> SUFFICES ASSUME Init PROVE IInv
    OBVIOUS
  <1>1. DOMAIN buffers = {} /\ DOMAIN timestamps = {}
    BY DEF Init
  <1>2. Cardinality({}) = 0 /\ MaxCorrelations \in Nat
    BY FS_EmptySet, ConfigAssumption DEF ValidConfig
  <1>3. Dictionaries
    BY <1>1, <1>2 DEF Init, Dictionaries, TrailsBounded
  <1> QED BY <1>1, <1>3, EmptySeq DEF Init, IInv, Order, Others

\* Evicting ids from both dictionaries keeps what holds of them.
LEMMA EvictIInv ==
  ASSUME Dictionaries, NEW ids,
         buffers' = Evict(buffers, ids),
         timestamps' = Evict(timestamps, ids)
  PROVE  /\ Dictionaries'
         /\ DOMAIN buffers' = DOMAIN buffers \ ids
  <1>1. /\ DOMAIN buffers' = DOMAIN buffers \ ids
        /\ DOMAIN timestamps' = DOMAIN timestamps \ ids
        /\ \A c \in DOMAIN buffers' : buffers'[c] = buffers[c]
        /\ \A c \in DOMAIN timestamps' : timestamps'[c] = timestamps[c]
    BY DEF Evict
  <1>2. /\ buffers' \in [DOMAIN buffers' -> Seq(Record)]
        /\ timestamps' \in [DOMAIN timestamps' -> Nat]
    BY <1>1 DEF Dictionaries, Evict
  <1>3. DOMAIN buffers' \subseteq DOMAIN buffers /\ DOMAIN buffers \subseteq Flows
    BY <1>1 DEF Dictionaries
  <1>4. Cardinality(DOMAIN buffers') <= MaxCorrelations + 1
    <2>1. /\ Cardinality(DOMAIN buffers') <= Cardinality(DOMAIN buffers)
          /\ Cardinality(DOMAIN buffers') \in Nat
          /\ Cardinality(DOMAIN buffers) \in Nat
      BY <1>3, BuffersFinite, FS_Subset
    <2>2. Cardinality(DOMAIN buffers) <= MaxCorrelations + 1 /\ MaxCorrelations \in Nat
      BY ConfigAssumption DEF Dictionaries, TrailsBounded, ValidConfig
    <2> QED BY <2>1, <2>2
  <1>5. TrailsBounded'
    BY <1>1, <1>4 DEF Dictionaries, TrailsBounded
  <1>6. DOMAIN timestamps' = DOMAIN buffers'
    BY <1>1 DEF Dictionaries
  <1> QED BY <1>1, <1>2, <1>3, <1>5, <1>6 DEF Dictionaries

\* A record below flush_level is buffered.
LEMMA EmitBufferedIInv ==
  ASSUME IInv, NEW ctx \in Contexts, EmitBuffered(ctx)
  PROVE  IInv'
  <1> DEFINE id    == BucketOf(ctx)
             kept  == Evict(buffers, Expired)
             fresh == id \notin DOMAIN kept
             old   == IF fresh THEN <<>> ELSE kept[id]
             both  == DOMAIN kept \cup {id}
             deque == AppendTo(old, NewRecord(id))
  <1> USE DEF IInv
  <1>1. id \in Flows /\ NewRecord(id) \in Record
    BY DEF Contexts, Flows, BucketOf, NewRecord, Record, Others
  <1>2. /\ DOMAIN kept \subseteq DOMAIN buffers
        /\ DOMAIN kept \subseteq Flows
        /\ \A c \in DOMAIN kept : kept[c] = buffers[c] /\ kept[c] \in Seq(Record)
    BY DEF Dictionaries, Evict
  <1>3. old \in Seq(Record) /\ Len(old) <= Capacity
    <2>1. CASE fresh
      BY <2>1, EmptySeq, ConfigAssumption DEF ValidConfig
    <2>2. CASE ~fresh
      BY <2>2, <1>2 DEF Dictionaries, TrailsBounded
    <2> QED BY <2>1, <2>2
  <1>4. deque \in Seq(Record) /\ Len(deque) \in 1..Capacity
    BY <1>1, <1>3, AppendToType, ConfigAssumption
  <1>5. /\ ~Exceeded
        /\ logged' = logged + 1
        /\ buffers' = [c \in both |-> IF c = id THEN deque ELSE kept[c]]
        /\ timestamps' = [c \in both |->
                            IF c = id /\ fresh THEN clock ELSE timestamps[c]]
        /\ correlation_order' = OrderAfter(id, fresh)
        /\ stack' = Mutate(Detach(stack, Expired), id)
        /\ UNCHANGED <<clock, delivered>>
    BY DEF EmitBuffered, CanEnter
  <1> HIDE DEF deque, old
  <1>6. Dictionaries'
    <2>1. both \subseteq Flows /\ DOMAIN buffers' = both /\ DOMAIN timestamps' = both
      BY <1>1, <1>2, <1>5
    <2>2. buffers' \in [both -> Seq(Record)]
      BY <1>2, <1>4, <1>5
    <2>3. \A c \in both : ~(c = id /\ fresh) => c \in DOMAIN timestamps
      BY <1>2 DEF Dictionaries
    <2>4. timestamps' \in [both -> Nat]
      BY <2>3, <1>5 DEF Dictionaries, Others
    <2>5. \A c \in both : Len(buffers'[c]) \in 1..Capacity
      BY <1>2, <1>4, <1>5 DEF Dictionaries, TrailsBounded
    <2>6. Cardinality(both) <= MaxCorrelations + 1
      <3>1. /\ IsFiniteSet(DOMAIN kept)
            /\ Cardinality(DOMAIN kept) \in Nat
            /\ Cardinality(DOMAIN buffers) \in Nat
            /\ Cardinality(DOMAIN kept) <= Cardinality(DOMAIN buffers)
        BY <1>2, BuffersFinite, FS_Subset DEF Dictionaries
      <3>2. Cardinality(DOMAIN buffers) <= MaxCorrelations /\ MaxCorrelations \in Nat
        BY <3>1, <1>5, ConfigAssumption DEF Exceeded, ValidConfig
      <3>3. Cardinality(both) <= Cardinality(DOMAIN kept) + 1
        BY <3>1, FS_AddElement
      <3>4. Cardinality(both) \in Nat
        BY <2>1, BuffersFinite
      <3> QED BY <3>1, <3>2, <3>3, <3>4
    <2> QED BY <2>1, <2>2, <2>4, <2>5, <2>6 DEF Dictionaries, TrailsBounded
  <1>7. Order'
    <2>1. CASE fresh
      <3>1. correlation_order' = Append(correlation_order, id)
        BY <2>1, <1>5 DEF OrderAfter
      <3>2. /\ correlation_order' \in Seq(Flows)
            /\ Range(correlation_order') = Range(correlation_order) \cup {id}
        BY <3>1, <1>1, RangeAppend, AppendProperties DEF Order
      <3>3. DOMAIN buffers' = both
        BY <1>5
      <3> QED BY <3>2, <3>3, <1>2 DEF Order
    <2>2. CASE ~fresh
      <3>1. correlation_order' = correlation_order /\ DOMAIN buffers' \subseteq DOMAIN buffers
        BY <2>2, <1>2, <1>5 DEF OrderAfter
      <3> QED BY <3>1 DEF Order
    <2> QED BY <2>1, <2>2
  <1>8. Others'
    <2>1. stack' \in Seq(Frame)
      BY <1>5, DetachType, MutateType DEF Others
    <2> QED BY <2>1, <1>5 DEF Others
  <1> QED BY <1>6, <1>7, <1>8

\* What a step that leaves the dictionaries and their order alone keeps.
LEMMA SameBuffers ==
  ASSUME Dictionaries, Order, UNCHANGED <<buffers, timestamps, correlation_order>>
  PROVE  Dictionaries' /\ Order'
  BY DEF Dictionaries, Order, TrailsBounded

\* A record at flush_level or above starts to drain its buffer.
LEMMA EmitFlushIInv ==
  ASSUME IInv, NEW ctx \in Contexts, EmitFlush(ctx)
  PROVE  IInv'
  <1> DEFINE id    == BucketOf(ctx)
             kept  == Evict(buffers, Expired)
             trail == TrailOf(kept, id)
             frame == [id |-> id, todo |-> Append(trail, NewRecord(id)),
                       iter |-> IF trail = <<>> THEN "detached" ELSE "live"]
  <1> USE DEF IInv
  <1>1. id \in Flows /\ NewRecord(id) \in Record
    BY DEF Contexts, Flows, BucketOf, NewRecord, Record, Others
  <1>2. /\ logged' = logged + 1
        /\ buffers' = kept
        /\ timestamps' = Evict(timestamps, Expired)
        /\ stack' = Push(Detach(stack, Expired), frame)
        /\ UNCHANGED <<correlation_order, clock, delivered>>
    BY DEF EmitFlush
  <1>3. Dictionaries' /\ DOMAIN buffers' = DOMAIN buffers \ Expired
    BY <1>2, EvictIInv
  <1>4. Order'
    BY <1>2, <1>3 DEF Order
  <1>5. Others'
    <2>1. trail \in Seq(Record)
      BY EmptySeq DEF Dictionaries, Evict, TrailOf
    <2>2. Append(trail, NewRecord(id)) \in Seq(Record) \ {<<>>}
      BY <1>1, <2>1, AppendProperties
    <2>3. frame \in Frame
      BY <1>1, <2>2 DEF Frame
    <2>4. stack' \in Seq(Frame)
      BY <1>2, <2>3, DetachType, AppendProperties DEF Push, Others
    <2> QED BY <1>2, <2>4 DEF Others
  <1> QED BY <1>3, <1>4, <1>5

\* The target accepts a record of a trail that goes on.
LEMMA TargetReturnsMidTrailIInv ==
  ASSUME IInv, TargetReturnsMidTrail
  PROVE  IInv'
  <1> USE DEF IInv
  <1>1. /\ stack # <<>> /\ stack \in Seq(Frame)
        /\ Len(Top.todo) > 2
        /\ delivered' = Append(delivered, Head(Top.todo))
        /\ stack' = Advance(stack)
        /\ UNCHANGED <<buffers, timestamps, correlation_order, clock, logged>>
    BY DEF TargetReturnsMidTrail, Deliver, Others
  <1>2. Head(Top.todo) \in Record /\ Len(Top.todo) \in Nat
    BY <1>1, TopType DEF Top
  <1>3. stack' \in Seq(Frame)
    BY <1>1, <1>2, AdvanceType DEF Top
  <1>4. Others'
    BY <1>1, <1>2, <1>3, AppendProperties DEF Others
  <1> QED BY <1>1, <1>4, SameBuffers

\* The target accepts the last record of a trail: its id is evicted.
LEMMA TargetReturnsEndOfTrailIInv ==
  ASSUME IInv, TargetReturnsEndOfTrail
  PROVE  IInv'
  <1> USE DEF IInv
  <1> DEFINE frames == Detach(stack, {Top.id})
  <1>1. /\ stack # <<>> /\ stack \in Seq(Frame)
        /\ Len(Top.todo) = 2
        /\ delivered' = Append(delivered, Head(Top.todo))
        /\ buffers' = Evict(buffers, {Top.id})
        /\ timestamps' = Evict(timestamps, {Top.id})
        /\ stack' = Advance(frames)
        /\ UNCHANGED <<correlation_order, clock, logged>>
    BY DEF TargetReturnsEndOfTrail, Deliver, Others
  <1>2. Dictionaries' /\ DOMAIN buffers' = DOMAIN buffers \ {Top.id}
    BY <1>1, EvictIInv
  <1>3. Order'
    BY <1>1, <1>2 DEF Order
  <1>4. Head(Top.todo) \in Record /\ Top = stack[Len(stack)] /\ Top \in Frame
    BY <1>1, TopType DEF Top
  <1>5. frames \in Seq(Frame) /\ Len(frames) = Len(stack) /\ frames # <<>>
    BY <1>1, DetachType, EmptySeq
  <1>6. Last(frames).todo = Top.todo
    <2>1. Last(frames) = frames[Len(stack)]
      BY <1>5, TopType
    <2>2. Len(stack) \in DOMAIN stack
      BY <1>1, EmptySeq, LenProperties
    <2>3. frames[Len(stack)] = Top \/ frames[Len(stack)] = [Top EXCEPT !.iter = "detached"]
      BY <1>4, <2>2 DEF Detach
    <2>4. [Top EXCEPT !.iter = "detached"].todo = Top.todo
      BY <1>4 DEF Frame
    <2> QED BY <2>1, <2>3, <2>4
  <1> HIDE DEF frames
  <1>7. stack' \in Seq(Frame)
    <2>1. Len(Last(frames).todo) > 1
      <3>1. Len(Last(frames).todo) = 2 /\ 2 > 1
        BY <1>1, <1>6
      <3> QED BY <3>1
    <2>2. Advance(frames) \in Seq(Frame)
      BY <1>5, <2>1, AdvanceType
    <2> QED BY <1>1, <2>2
  <1>8. Others'
    BY <1>1, <1>4, <1>7, AppendProperties DEF Others
  <1> QED BY <1>2, <1>3, <1>8

\* emit() is left: the target has accepted the record that triggered the flush,
\* the loop raises, or the target raises.
LEMMA LeaveEmitIInv ==
  ASSUME IInv, stack # <<>>, stack' = Pop(stack),
         delivered' = Append(delivered, Head(Top.todo)) \/ delivered' = delivered,
         UNCHANGED <<buffers, timestamps, correlation_order, clock, logged>>
  PROVE  IInv'
  <1> USE DEF IInv
  <1>1. Head(Top.todo) \in Record /\ stack' \in Seq(Frame)
    BY TopType DEF Top, Others
  <1>2. delivered' \in Seq(Record)
    <2>1. delivered \in Seq(Record)
      BY DEF Others
    <2>2. Append(delivered, Head(Top.todo)) \in Seq(Record)
      BY <1>1, <2>1, AppendProperties
    <2> QED BY <2>1, <2>2
  <1>3. Others'
    BY <1>1, <1>2 DEF Others
  <1> QED BY <1>3, SameBuffers

\* One iteration of the loop of the cap.
LEMMA EvictOldestIInv ==
  ASSUME IInv, EvictOldestCorrelation
  PROVE  IInv'
  <1> USE DEF IInv
  <1> DEFINE oldest == Head(correlation_order)
  <1>1. /\ correlation_order # <<>>
        /\ correlation_order' = Tail(correlation_order)
        /\ buffers' = Evict(buffers, {oldest})
        /\ timestamps' = Evict(timestamps, {oldest})
        /\ stack' = Detach(stack, {oldest})
        /\ UNCHANGED <<clock, delivered, logged>>
    BY DEF EvictOldestCorrelation
  <1>2. Dictionaries' /\ DOMAIN buffers' = DOMAIN buffers \ {oldest}
    BY <1>1, EvictIInv
  <1>3. Order'
    <2>1. /\ correlation_order' \in Seq(Flows)
          /\ Range(correlation_order) = Range(correlation_order') \cup {oldest}
      BY <1>1, RangeTail DEF Order
    <2> QED BY <1>2, <2>1 DEF Order
  <1>4. Others'
    BY <1>1, DetachType DEF Others
  <1> QED BY <1>2, <1>3, <1>4

\* Every step of the handler, its target and the clock keeps the inductive
\* invariant: one step of the proof per action.
LEMMA StepIInv == IInv /\ [Next]_vars => IInv'
  <1> SUFFICES ASSUME IInv, [Next]_vars
               PROVE  IInv'
    OBVIOUS
  <1>1. ASSUME NEW ctx \in Contexts, EmitBuffered(ctx) PROVE IInv'
    BY <1>1, EmitBufferedIInv
  <1>2. ASSUME NEW ctx \in Contexts, EmitFlush(ctx) PROVE IInv'
    BY <1>2, EmitFlushIInv
  <1>3. CASE TargetReturnsMidTrail
    BY <1>3, TargetReturnsMidTrailIInv
  <1>4. CASE TargetReturnsEndOfTrail
    BY <1>4, TargetReturnsEndOfTrailIInv
  <1>5. CASE TargetReturnsTrailMutated
    BY <1>5, LeaveEmitIInv DEF TargetReturnsTrailMutated, Deliver
  <1>6. CASE TargetReturnsRecord
    BY <1>6, LeaveEmitIInv DEF TargetReturnsRecord, Deliver
  <1>7. CASE TargetRaises
    BY <1>7, LeaveEmitIInv DEF TargetRaises
  <1>8. CASE EvictOldestCorrelation
    BY <1>8, EvictOldestIInv
  <1>9. CASE Tick \/ ClockStepsBack
    <2>1. clock' \in Nat /\ UNCHANGED <<stack, delivered, logged>>
      BY <1>9 DEF Tick, ClockStepsBack, IInv, Others
    <2>2. UNCHANGED <<buffers, timestamps, correlation_order>>
      BY <1>9 DEF Tick, ClockStepsBack
    <2> QED BY <2>1, <2>2, SameBuffers DEF IInv, Others
  <1>10. CASE BoundsReached \/ UNCHANGED vars
    <2>1. UNCHANGED vars
      BY <1>10 DEF BoundsReached
    <2> QED BY <2>1, SameBuffers DEF vars, IInv, Others
  <1> QED BY <1>1, <1>2, <1>3, <1>4, <1>5, <1>6, <1>7, <1>8, <1>9, <1>10 DEF Next

-----------------------------------------------------------------------------
(* The theorems                                                            *)

\* The invariant holds in every state of every behaviour: however the calls,
\* the target and the clock behave, and for every configuration.
THEOREM Invariance == Spec => []IInv
  <1>1. Init => IInv
    BY InitIInv
  <1>2. IInv /\ [Next]_vars => IInv'
    BY StepIInv
  <1> QED BY <1>1, <1>2, PTL DEF Spec

\* Every variable of the handler keeps its type.
THEOREM TypeCorrect == Spec => []TypeOK
  <1>1. IInv => TypeOK
    BY DEF IInv, Dictionaries, Order, Others, TypeOK
  <1> QED BY <1>1, Invariance, PTL

\* _correlation_order reaches every buffer, so that the loop of the cap never
\* finds it empty, however many stale ids flushes and the TTL leave in it.
THEOREM OrderCovers == Spec => []OrderCoversBuffers
  <1>1. IInv => OrderCoversBuffers
    BY DEF IInv, Dictionaries, Order, OrderCoversBuffers
  <1> QED BY <1>1, Invariance, PTL

\* capacity and max_correlations bound what is buffered.
THEOREM Bounded == Spec => []TrailsBounded
  <1>1. IInv => TrailsBounded
    BY DEF IInv, Dictionaries
  <1> QED BY <1>1, Invariance, PTL

\* The loop of the cap always has an iteration to make: it cannot spin.
THEOREM CapLoopNeverStuck == Spec => [](Exceeded => correlation_order # <<>>)
  <1>1. IInv => (Exceeded => correlation_order # <<>>)
    <2> SUFFICES ASSUME IInv, Exceeded, correlation_order = <<>>
                 PROVE  FALSE
      OBVIOUS
    <2>1. Range(correlation_order) = {}
      BY DEF Range
    <2>2. DOMAIN buffers = {}
      BY <2>1 DEF IInv, Order
    <2>3. Cardinality(DOMAIN buffers) = 0 /\ MaxCorrelations \in Nat
      BY <2>2, FS_EmptySet, ConfigAssumption DEF ValidConfig
    <2> QED BY <2>3 DEF Exceeded
  <1> QED BY <1>1, Invariance, PTL

-----------------------------------------------------------------------------
(* Flows do not mix                                                        *)

OwnBuffers(map) == \A c \in DOMAIN map : \A r \in Range(map[c]) : r.flow = c
OwnFrames(frames) == \A f \in Range(frames) : \A r \in Range(f.todo) : r.flow = f.id

\* Evictions and appends do not touch what a flush has still to emit.
LEMMA OwnDetach ==
  ASSUME NEW frames \in Seq(Frame), OwnFrames(frames), NEW ids
  PROVE  OwnFrames(Detach(frames, ids))
  <1>1. \A f \in Frame : /\ [f EXCEPT !.iter = "detached"].id = f.id
                         /\ [f EXCEPT !.iter = "detached"].todo = f.todo
    BY DEF Frame
  <1>2. \A i \in DOMAIN frames : frames[i] \in Frame
    BY ElementOfSeq, LenProperties
  <1>3. /\ DOMAIN Detach(frames, ids) = DOMAIN frames
        /\ \A i \in DOMAIN frames : /\ Detach(frames, ids)[i].id = frames[i].id
                                    /\ Detach(frames, ids)[i].todo = frames[i].todo
    BY <1>1, <1>2 DEF Detach
  <1>4. \A i \in DOMAIN frames : \A r \in Range(frames[i].todo) : r.flow = frames[i].id
    BY DEF OwnFrames, Range
  <1>5. \A f \in Range(Detach(frames, ids)) :
           \E i \in DOMAIN frames : f = Detach(frames, ids)[i]
    BY <1>3 DEF Range
  <1> QED BY <1>3, <1>4, <1>5 DEF OwnFrames

\* An append leaves what each flush has still to emit as it is.
LEMMA OwnMutate ==
  ASSUME NEW frames \in Seq(Frame), OwnFrames(frames), NEW id
  PROVE  OwnFrames(Mutate(frames, id))
  <1>1. \A f \in Frame : /\ [f EXCEPT !.iter = "mutated"].id = f.id
                         /\ [f EXCEPT !.iter = "mutated"].todo = f.todo
    BY DEF Frame
  <1>2. \A i \in DOMAIN frames : frames[i] \in Frame
    BY ElementOfSeq, LenProperties
  <1>3. /\ DOMAIN Mutate(frames, id) = DOMAIN frames
        /\ \A i \in DOMAIN frames : /\ Mutate(frames, id)[i].id = frames[i].id
                                    /\ Mutate(frames, id)[i].todo = frames[i].todo
    BY <1>1, <1>2 DEF Mutate
  <1>4. \A i \in DOMAIN frames : \A r \in Range(frames[i].todo) : r.flow = frames[i].id
    BY DEF OwnFrames, Range
  <1>5. \A f \in Range(Mutate(frames, id)) :
           \E i \in DOMAIN frames : f = Mutate(frames, id)[i]
    BY <1>3 DEF Range
  <1> QED BY <1>3, <1>4, <1>5 DEF OwnFrames

\* The loop goes on: what is left to emit was to be emitted before.
LEMMA OwnAdvance ==
  ASSUME NEW frames \in Seq(Frame), frames # <<>>, OwnFrames(frames)
  PROVE  OwnFrames(Advance(frames))
  <1> DEFINE top == frames[Len(frames)]
             next == [top EXCEPT !.todo = Tail(@)]
  <1>1. Len(frames) \in DOMAIN frames
    BY EmptySeq, LenProperties
  <1>2. top \in Frame /\ top.todo \in Seq(Record) /\ top.todo # <<>>
    BY TopType DEF Frame
  <1>3. next.id = top.id /\ next.todo = Tail(top.todo)
    BY <1>2 DEF Frame
  <1>4. Range(next.todo) \subseteq Range(top.todo)
    BY <1>2, <1>3, RangeTail
  <1>5. \A r \in Range(next.todo) : r.flow = next.id
    BY <1>1, <1>3, <1>4 DEF OwnFrames, Range
  <1>6. Advance(frames) = [frames EXCEPT ![Len(frames)] = next]
    BY <1>1 DEF Advance
  <1> HIDE DEF next
  <1>7. \A f \in Range(Advance(frames)) : f = next \/ f \in Range(frames)
    BY <1>1, <1>6 DEF Range
  <1> QED BY <1>5, <1>7 DEF OwnFrames

\* emit() is left: fewer frames.
LEMMA OwnPop ==
  ASSUME NEW frames \in Seq(Frame), frames # <<>>, OwnFrames(frames)
  PROVE  OwnFrames(Pop(frames))
  <1>1. /\ Pop(frames) \in Seq(Frame)
        /\ Len(Pop(frames)) = Len(frames) - 1
        /\ \A i \in 1..(Len(frames) - 1) : Pop(frames)[i] = frames[i]
    BY FrontLast DEF Pop
  <1>2. Len(frames) \in Nat /\ DOMAIN frames = 1..Len(frames)
    BY LenProperties
  <1>3. DOMAIN Pop(frames) = 1..(Len(frames) - 1)
    BY <1>1, LenProperties
  <1>4. \A i \in 1..(Len(frames) - 1) : i \in 1..Len(frames)
    BY <1>2
  <1>5. Range(Pop(frames)) \subseteq Range(frames)
    BY <1>1, <1>2, <1>3, <1>4 DEF Range
  <1> QED BY <1>5 DEF OwnFrames

\* An eviction moves no record from one buffer to another.
LEMMA OwnEvict ==
  ASSUME NEW map, OwnBuffers(map), NEW ids
  PROVE  OwnBuffers(Evict(map, ids))
  BY DEF OwnBuffers, Evict

\* deque.append brings the new record in, and no other.
LEMMA OwnAppendTo ==
  ASSUME NEW deque \in Seq(Record), NEW r \in Record
  PROVE  Range(AppendTo(deque, r)) \subseteq Range(deque) \cup {r}
  <1> DEFINE longer == Append(deque, r)
  <1>1. longer \in Seq(Record) /\ longer # <<>> /\ Range(longer) = Range(deque) \cup {r}
    BY AppendProperties, RangeAppend
  <1> HIDE DEF longer
  <1>2. Range(Tail(longer)) \subseteq Range(longer)
    BY <1>1, RangeTail
  <1> QED BY <1>1, <1>2 DEF AppendTo, longer

\* A record below flush_level is buffered under its own id.
LEMMA OwnEmitBuffered ==
  ASSUME IInv, OwnTrailOnly, NEW ctx \in Contexts, EmitBuffered(ctx)
  PROVE  OwnTrailOnly'
  <1> DEFINE id    == BucketOf(ctx)
             kept  == Evict(buffers, Expired)
             old   == IF id \notin DOMAIN kept THEN <<>> ELSE kept[id]
             deque == AppendTo(old, NewRecord(id))
  <1>1. id \in Flows /\ NewRecord(id) \in Record /\ NewRecord(id).flow = id
    BY DEF Contexts, Flows, BucketOf, NewRecord, Record, IInv, Others
  <1>2. /\ buffers' = [c \in DOMAIN kept \cup {id} |-> IF c = id THEN deque ELSE kept[c]]
        /\ stack' = Mutate(Detach(stack, Expired), id)
    BY DEF EmitBuffered
  <1>3. OwnBuffers(kept)
    BY OwnEvict DEF OwnBuffers, OwnTrailOnly
  <1>4. old \in Seq(Record) /\ \A r \in Range(old) : r.flow = id
    <2>1. CASE id \notin DOMAIN kept
      BY <2>1, EmptySeq DEF Range
    <2>2. CASE id \in DOMAIN kept
      BY <2>2, <1>3 DEF OwnBuffers, Evict, IInv, Dictionaries
    <2> QED BY <2>1, <2>2
  <1>5. \A r \in Range(deque) : r.flow = id
    BY <1>1, <1>4, OwnAppendTo
  <1> HIDE DEF deque, kept
  <1>6. OwnBuffers(buffers')
    BY <1>2, <1>3, <1>5 DEF OwnBuffers
  <1>7. OwnFrames(stack')
    <2>1. stack \in Seq(Frame) /\ OwnFrames(stack)
      BY DEF OwnTrailOnly, OwnFrames, IInv, Others
    <2> QED BY <2>1, <1>2, OwnDetach, OwnMutate, DetachType
  <1> QED BY <1>6, <1>7 DEF OwnTrailOnly, OwnBuffers, OwnFrames

\* A flush takes the records of its own id, and the record that triggered it.
LEMMA OwnEmitFlush ==
  ASSUME IInv, OwnTrailOnly, NEW ctx \in Contexts, EmitFlush(ctx)
  PROVE  OwnTrailOnly'
  <1> DEFINE id    == BucketOf(ctx)
             kept  == Evict(buffers, Expired)
             trail == TrailOf(kept, id)
             todo  == Append(trail, NewRecord(id))
             frame == [id |-> id, todo |-> todo,
                       iter |-> IF trail = <<>> THEN "detached" ELSE "live"]
             frames == Detach(stack, Expired)
  <1>1. id \in Flows /\ NewRecord(id) \in Record /\ NewRecord(id).flow = id
    BY DEF Contexts, Flows, BucketOf, NewRecord, Record, IInv, Others
  <1>2. buffers' = kept /\ stack' = Append(frames, frame)
    BY DEF EmitFlush, Push
  <1>3. OwnBuffers(kept)
    BY OwnEvict DEF OwnBuffers, OwnTrailOnly
  <1>4. trail \in Seq(Record) /\ \A r \in Range(trail) : r.flow = id
    <2>1. CASE id \notin DOMAIN kept
      BY <2>1, EmptySeq DEF Range, TrailOf
    <2>2. CASE id \in DOMAIN kept
      BY <2>2, <1>3 DEF OwnBuffers, Evict, IInv, Dictionaries, TrailOf
    <2> QED BY <2>1, <2>2
  <1>5. todo \in Seq(Record) \ {<<>>} /\ Range(todo) = Range(trail) \cup {NewRecord(id)}
    BY <1>1, <1>4, RangeAppend, AppendProperties
  <1>6. \A r \in Range(todo) : r.flow = id
    BY <1>1, <1>4, <1>5
  <1>7. OwnFrames(frames) /\ frames \in Seq(Frame)
    BY OwnDetach, DetachType DEF OwnTrailOnly, OwnFrames, IInv, Others
  <1>8. frame \in Frame /\ frame.id = id /\ frame.todo = todo
    BY <1>1, <1>5 DEF Frame
  <1> HIDE DEF frame, frames, kept, todo
  <1>9. Range(stack') = Range(frames) \cup {frame}
    BY <1>2, <1>7, <1>8, RangeAppend
  <1>10. OwnFrames(stack')
    BY <1>6, <1>7, <1>8, <1>9 DEF OwnFrames
  <1> QED BY <1>2, <1>3, <1>10 DEF OwnTrailOnly, OwnBuffers, OwnFrames

\* Every step keeps the flows apart.
LEMMA OwnStep == IInv /\ OwnTrailOnly /\ [Next]_vars => OwnTrailOnly'
  <1> SUFFICES ASSUME IInv, OwnTrailOnly, [Next]_vars
               PROVE  OwnTrailOnly'
    OBVIOUS
  <1>1. OwnBuffers(buffers) /\ OwnFrames(stack) /\ stack \in Seq(Frame)
    BY DEF OwnTrailOnly, OwnBuffers, OwnFrames, IInv, Others
  <1>2. SUFFICES OwnBuffers(buffers') /\ OwnFrames(stack')
    BY DEF OwnTrailOnly, OwnBuffers, OwnFrames
  <1>3. ASSUME NEW ctx \in Contexts, EmitBuffered(ctx) \/ EmitFlush(ctx)
        PROVE  OwnBuffers(buffers') /\ OwnFrames(stack')
    BY <1>3, OwnEmitBuffered, OwnEmitFlush DEF OwnTrailOnly, OwnBuffers, OwnFrames
  <1>4. CASE TargetReturnsMidTrail
    BY <1>1, <1>4, OwnAdvance DEF TargetReturnsMidTrail, Deliver
  <1>5. CASE TargetReturnsEndOfTrail
    <2> DEFINE frames == Detach(stack, {Top.id})
    <2>1. /\ stack # <<>>
          /\ buffers' = Evict(buffers, {Top.id})
          /\ stack' = Advance(frames)
      BY <1>5 DEF TargetReturnsEndOfTrail, Deliver
    <2>2. frames \in Seq(Frame) /\ frames # <<>> /\ OwnFrames(frames)
      BY <1>1, <2>1, OwnDetach, DetachType, EmptySeq
    <2> HIDE DEF frames
    <2> QED BY <1>1, <2>1, <2>2, OwnEvict, OwnAdvance
  <1>6. CASE TargetReturnsTrailMutated \/ TargetReturnsRecord \/ TargetRaises
    <2>1. stack # <<>> /\ stack' = Pop(stack) /\ buffers' = buffers
      BY <1>6 DEF TargetReturnsTrailMutated, TargetReturnsRecord, TargetRaises, Deliver
    <2> QED BY <1>1, <2>1, OwnPop
  <1>7. CASE EvictOldestCorrelation
    BY <1>1, <1>7, OwnEvict, OwnDetach DEF EvictOldestCorrelation
  <1>8. CASE Tick \/ ClockStepsBack \/ BoundsReached \/ UNCHANGED vars
    BY <1>1, <1>8 DEF Tick, ClockStepsBack, BoundsReached, vars
  <1> QED BY <1>3, <1>4, <1>5, <1>6, <1>7, <1>8 DEF Next

\* A warning brings out records of its own correlation only, and no buffer ever
\* holds a record of another one.
THEOREM FlowsIsolated == Spec => []OwnTrailOnly
  <1>1. Init => OwnTrailOnly
    BY DEF Init, OwnTrailOnly, Range
  <1>2. IInv /\ OwnTrailOnly /\ [Next]_vars => OwnTrailOnly'
    BY OwnStep
  <1> QED BY <1>1, <1>2, Invariance, PTL DEF Spec

-----------------------------------------------------------------------------
(* What a flush has not emitted is still there                             *)

\* The loop of flush f is somewhere in the deque it drains: what follows is what it
\* has still to emit, and what it has passed by is out.
InItsDeque(f, map, out) ==
  LET deque == map[f.id]
      left  == Len(f.todo) - 1
  IN  /\ f.id \in DOMAIN map
      /\ left <= Len(deque)
      /\ \A j \in 1..left : f.todo[j] = deque[Len(deque) - left + j]
      /\ \A j \in 1..Len(deque) - left : deque[j] \in Range(out)

LoopsInPlace ==
  \A i \in 1..Len(stack) :
    stack[i].iter = "live" => InItsDeque(stack[i], buffers, delivered)

\* A loop that goes on over the deque it had is one no eviction has met ...
LEMMA NotEvicted ==
  ASSUME NEW frames \in Seq(Frame), NEW ids, NEW i \in 1..Len(frames),
         Detach(frames, ids)[i].iter = "live"
  PROVE  Detach(frames, ids)[i] = frames[i] /\ frames[i].id \notin ids
  <1>1. DOMAIN frames = 1..Len(frames) /\ frames[i] \in Frame
    BY ElementOfSeq, LenProperties
  <1>2. [frames[i] EXCEPT !.iter = "detached"].iter = "detached"
    BY <1>1 DEF Frame
  <1> QED BY <1>1, <1>2 DEF Detach

\* ... nor any append.
LEMMA NotMutated ==
  ASSUME NEW frames \in Seq(Frame), NEW id, NEW i \in 1..Len(frames),
         Mutate(frames, id)[i].iter = "live"
  PROVE  Mutate(frames, id)[i] = frames[i] /\ frames[i].id # id
  <1>1. DOMAIN frames = 1..Len(frames) /\ frames[i] \in Frame
    BY ElementOfSeq, LenProperties
  <1>2. [frames[i] EXCEPT !.iter = "mutated"].iter = "mutated"
    BY <1>1 DEF Frame
  <1> QED BY <1>1, <1>2 DEF Mutate

\* Nothing changes for a loop whose deque is as it was.
LEMMA SameDeque ==
  ASSUME NEW f, NEW map, NEW map2, NEW out, NEW out2, InItsDeque(f, map, out),
         f.id \in DOMAIN map2, map2[f.id] = map[f.id], Range(out) \subseteq Range(out2)
  PROVE  InItsDeque(f, map2, out2)
  BY DEF InItsDeque

\* The loop passes the next record on.
LEMMA NextInDeque ==
  ASSUME NEW f \in Frame, NEW map, map \in [DOMAIN map -> Seq(Record)], NEW out \in Seq(Record),
         InItsDeque(f, map, out), Len(f.todo) > 1
  PROVE  InItsDeque([f EXCEPT !.todo = Tail(@)], map, Append(out, Head(f.todo)))
  <1> DEFINE g == [f EXCEPT !.todo = Tail(@)]
             deque == map[f.id]
             left  == Len(f.todo) - 1
             out2  == Append(out, Head(f.todo))
  <1>1. /\ f.todo \in Seq(Record) /\ f.todo # <<>>
        /\ g.id = f.id /\ g.todo = Tail(f.todo)
    BY DEF Frame
  <1>2. /\ Head(f.todo) = f.todo[1] /\ Head(f.todo) \in Record
        /\ Len(f.todo) \in Nat
        /\ Len(g.todo) = Len(f.todo) - 1
        /\ \A j \in 1..Len(g.todo) : g.todo[j] = f.todo[j + 1]
    BY <1>1, HeadTailProperties
  <1>3. deque \in Seq(Record) /\ Len(deque) \in Nat
    BY DEF InItsDeque
  <1>4. Range(out2) = Range(out) \cup {Head(f.todo)}
    BY <1>2, RangeAppend
  <1>11. left \in Nat /\ left >= 1
    BY <1>2
  <1>5. /\ f.id \in DOMAIN map /\ left <= Len(deque)
        /\ \A j \in 1..left : f.todo[j] = deque[Len(deque) - left + j]
        /\ \A j \in 1..Len(deque) - left : deque[j] \in Range(out)
    BY DEF InItsDeque
  <1>12. Len(g.todo) = left
    BY <1>2
  <1> HIDE DEF g, deque, out2, left
  <1>6. \A j \in 1..left - 1 : g.todo[j] = deque[Len(deque) - (left - 1) + j]
    <2> TAKE j \in 1..left - 1
    <2>1. j \in 1..Len(g.todo) /\ j + 1 \in 1..left
      BY <1>11, <1>12
    <2>3. g.todo[j] = f.todo[j + 1]
      BY <1>2, <2>1
    <2>2. Len(deque) - left + (j + 1) = Len(deque) - (left - 1) + j
      BY <1>3, <1>5, <1>11
    <2> QED BY <1>5, <2>1, <2>2, <2>3
  <1>7. \A j \in 1..Len(deque) - (left - 1) : deque[j] \in Range(out2)
    <2> TAKE j \in 1..Len(deque) - (left - 1)
    <2>1. CASE j \in 1..Len(deque) - left
      BY <1>4, <1>5, <1>11, <2>1
    <2>2. CASE j = Len(deque) - left + 1
      <3>1. 1 \in 1..left /\ Len(deque) - left + 1 = j
        BY <1>11, <2>2
      <3>2. f.todo[1] = deque[j]
        BY <1>5, <3>1
      <3> QED BY <1>2, <1>4, <3>2
    <2> QED BY <1>3, <1>5, <1>11, <2>1, <2>2
  <1>8. Len(g.todo) - 1 = left - 1 /\ left - 1 <= Len(deque)
    BY <1>3, <1>5, <1>11, <1>12
  <1>9. map[g.id] = deque /\ g.id \in DOMAIN map
    BY <1>1, <1>5, <1>11 DEF deque
  <1>10. InItsDeque(g, map, out2)
    BY <1>6, <1>7, <1>8, <1>9 DEF InItsDeque
  <1> QED BY <1>10 DEF g, out2

\* What the loop has left is a suffix of its deque.
LEMMA LeftIsSuffix ==
  ASSUME NEW f \in Frame, NEW map, map \in [DOMAIN map -> Seq(Record)], NEW out,
         InItsDeque(f, map, out)
  PROVE  IsSuffix(Front(f.todo), map[f.id])
  <1> DEFINE s == Front(f.todo)
             t == map[f.id]
  <1>1. f.todo \in Seq(Record) /\ f.todo # <<>>
    BY DEF Frame
  <1>2. /\ s \in Seq(Record) /\ Len(s) = Len(f.todo) - 1
        /\ \A j \in 1..Len(s) : s[j] = f.todo[j]
    BY <1>1, FrontLast
  <1>3. t \in Seq(Record) /\ Len(t) \in Nat /\ Len(s) \in Nat
    BY <1>2 DEF InItsDeque
  <1>4. Len(s) <= Len(t) /\ \A j \in 1..Len(s) : s[j] = t[Len(t) - Len(s) + j]
    BY <1>2 DEF InItsDeque
  <1> HIDE DEF s, t
  <1> DEFINE rs == Reverse(s)
             rt == Reverse(t)
  <1>5. /\ rs = [i \in 1..Len(s) |-> s[Len(s) - i + 1]]
        /\ rt = [i \in 1..Len(t) |-> t[Len(t) - i + 1]]
    BY DEF Reverse
  <1>6. rs \in Seq(Record) /\ Len(rs) = Len(s) /\ rt \in Seq(Record) /\ Len(rt) = Len(t)
    <2>1. \A i \in 1..Len(s) : Len(s) - i + 1 \in 1..Len(s)
      BY <1>3
    <2>2. \A i \in 1..Len(t) : Len(t) - i + 1 \in 1..Len(t)
      BY <1>3
    <2>3. rs \in [1..Len(s) -> Record] /\ rt \in [1..Len(t) -> Record]
      BY <1>2, <1>3, <1>5, <2>1, <2>2, ElementOfSeq
    <2>4. rs \in Seq(Record)
      BY <1>3, <2>3, IsASeq
    <2>6. rt \in Seq(Record)
      BY <1>3, <2>3, IsASeq
    <2>5. DOMAIN rs = 1..Len(s) /\ DOMAIN rt = 1..Len(t)
      BY <1>5
    <2> QED BY <1>3, <2>4, <2>5, <2>6, LenProperties
  <1>7. \A i \in 1..Len(s) : rs[i] = rt[i]
    <2> TAKE i \in 1..Len(s)
    <2>1. Len(s) - i + 1 \in 1..Len(s) /\ i \in 1..Len(t)
      BY <1>3, <1>4
    <2>2. Len(t) - Len(s) + (Len(s) - i + 1) = Len(t) - i + 1
      BY <1>3
    <2>3. s[Len(s) - i + 1] = t[Len(t) - i + 1]
      BY <1>4, <2>1, <2>2
    <2> QED BY <1>5, <2>1, <2>3
  <1> HIDE DEF rs, rt
  <1>8. SubSeq(rs, 1, Len(s)) = SubSeq(rt, 1, Len(s))
    <2>1. \A i \in 1..Len(s) : rs[i] \in Record /\ rt[i] \in Record
      BY <1>3, <1>4, <1>6, ElementOfSeq
    <2>2. /\ SubSeq(rs, 1, Len(s)) = [i \in 1..Len(s) |-> rs[i]]
          /\ SubSeq(rt, 1, Len(s)) = [i \in 1..Len(s) |-> rt[i]]
      BY <1>3, <1>4, <1>6
    <2> QED BY <1>7, <2>2
  <1> QED BY <1>4, <1>6, <1>8 DEF IsSuffix, IsPrefix, rs, rt, s, t

\* What emit() is in the middle of: every frame, and which of them is the top one.
LEMMA StackPlaces ==
  ASSUME NEW frames \in Seq(Frame), frames # <<>>
  PROVE  /\ Len(frames) \in 1..Len(frames)
         /\ \A i \in 1..Len(frames) : frames[i] \in Frame
         /\ Last(frames) = frames[Len(frames)]
         /\ Len(Advance(frames)) = Len(frames)
         /\ \A i \in 1..Len(frames) - 1 : Advance(frames)[i] = frames[i]
         /\ Advance(frames)[Len(frames)] = [Last(frames) EXCEPT !.todo = Tail(@)]
         /\ Len(Pop(frames)) = Len(frames) - 1
         /\ \A i \in 1..Len(frames) - 1 : Pop(frames)[i] = frames[i]
  <1>1. Len(frames) \in Nat \ {0} /\ DOMAIN frames = 1..Len(frames)
    BY EmptySeq, LenProperties
  <1>2. Last(frames) = frames[Len(frames)] /\ \A i \in 1..Len(frames) : frames[i] \in Frame
    BY <1>1, TopType, ElementOfSeq
  <1>3. /\ Advance(frames) = [frames EXCEPT ![Len(frames)].todo = Tail(@)]
        /\ DOMAIN Advance(frames) = 1..Len(frames)
    BY <1>1 DEF Advance
  <1>4. Len(Advance(frames)) = Len(frames)
    BY <1>1, <1>3
  <1>5. /\ \A i \in 1..Len(frames) - 1 : Advance(frames)[i] = frames[i]
        /\ Advance(frames)[Len(frames)] = [Last(frames) EXCEPT !.todo = Tail(@)]
    <2> DEFINE n == Len(frames)
    <2>1. n \in DOMAIN frames /\ n \in Nat
      BY <1>1
    <2>2. /\ Advance(frames) = [frames EXCEPT ![n].todo = Tail(@)]
          /\ DOMAIN frames = 1..n /\ Last(frames) = frames[n]
      BY <1>1, <1>2, <1>3
    <2> HIDE DEF n
    <2>3. Advance(frames)[n] = [Last(frames) EXCEPT !.todo = Tail(@)]
      BY <2>1, <2>2
    <2>4. \A i \in 1..n - 1 : Advance(frames)[i] = frames[i]
      BY <2>1, <2>2
    <2> QED BY <2>3, <2>4 DEF n
  <1>6. /\ Len(Pop(frames)) = Len(frames) - 1
        /\ \A i \in 1..Len(frames) - 1 : Pop(frames)[i] = frames[i]
    BY FrontLast DEF Pop
  <1> QED BY <1>1, <1>2, <1>4, <1>5, <1>6

\* A step that keeps some frames as they were, with the deques they iterate.
LEMMA KeptInPlace ==
  ASSUME IInv, LoopsInPlace, NEW i \in 1..Len(stack), NEW f, f = stack[i], f.iter = "live",
         f.id \in DOMAIN buffers', buffers'[f.id] = buffers[f.id],
         Range(delivered) \subseteq Range(delivered')
  PROVE  InItsDeque(f, buffers', delivered')
  <1>1. InItsDeque(f, buffers, delivered)
    BY DEF LoopsInPlace
  <1> QED BY <1>1, SameDeque

\* A record that is buffered makes the loops over its deque fail, and no other.
LEMMA PlaceEmitBuffered ==
  ASSUME IInv, LoopsInPlace, NEW ctx \in Contexts, EmitBuffered(ctx)
  PROVE  LoopsInPlace'
  <1> DEFINE id     == BucketOf(ctx)
             kept   == Evict(buffers, Expired)
             frames == Detach(stack, Expired)
  <1>1. stack \in Seq(Frame) /\ frames \in Seq(Frame) /\ Len(frames) = Len(stack)
    BY DetachType DEF IInv, Others
  <1>2. /\ stack' = Mutate(frames, id)
        /\ delivered' = delivered
        /\ DOMAIN buffers' = DOMAIN kept \cup {id}
        /\ \A c \in DOMAIN kept : c # id => buffers'[c] = kept[c]
    BY DEF EmitBuffered
  <1>3. Len(stack') = Len(stack)
    BY <1>1, <1>2, MutateType
  <1> SUFFICES ASSUME NEW i \in 1..Len(stack), stack'[i].iter = "live"
               PROVE  InItsDeque(stack'[i], buffers', delivered')
    BY <1>3 DEF LoopsInPlace
  <1>4. stack'[i] = frames[i] /\ frames[i].id # id
    BY <1>1, <1>2, NotMutated
  <1>5. frames[i] = stack[i] /\ stack[i].id \notin Expired /\ stack[i].iter = "live"
    BY <1>1, <1>4, NotEvicted
  <1>6. stack[i].id \in DOMAIN buffers
    BY <1>5 DEF LoopsInPlace, InItsDeque
  <1>7. stack[i].id \in DOMAIN buffers' /\ buffers'[stack[i].id] = buffers[stack[i].id]
    BY <1>2, <1>4, <1>5, <1>6 DEF Evict
  <1> QED BY <1>2, <1>4, <1>5, <1>7, KeptInPlace

\* A flush begins at the start of its deque; the loops over deques that expired are
\* no longer over a buffer.
LEMMA PlaceEmitFlush ==
  ASSUME IInv, LoopsInPlace, NEW ctx \in Contexts, EmitFlush(ctx)
  PROVE  LoopsInPlace'
  <1> DEFINE id     == BucketOf(ctx)
             kept   == Evict(buffers, Expired)
             trail  == TrailOf(kept, id)
             frame  == [id |-> id, todo |-> Append(trail, NewRecord(id)),
                        iter |-> IF trail = <<>> THEN "detached" ELSE "live"]
             frames == Detach(stack, Expired)
  <1>1. stack \in Seq(Frame) /\ frames \in Seq(Frame) /\ Len(frames) = Len(stack)
    BY DetachType DEF IInv, Others
  <1>2. stack' = Append(frames, frame) /\ buffers' = kept /\ delivered' = delivered
    BY DEF EmitFlush, Push
  <1>3. trail \in Seq(Record)
    BY EmptySeq DEF IInv, Dictionaries, Evict, TrailOf
  <1>4. NewRecord(id) \in Record
    BY DEF Contexts, Flows, BucketOf, NewRecord, Record, IInv, Others
  <1>5. /\ Append(trail, NewRecord(id)) \in Seq(Record) \ {<<>>}
        /\ Len(Append(trail, NewRecord(id))) = Len(trail) + 1
        /\ \A j \in 1..Len(trail) : Append(trail, NewRecord(id))[j] = trail[j]
        /\ Len(trail) \in Nat
    BY <1>3, <1>4, AppendProperties
  <1>6. frame \in Frame
    BY <1>5 DEF Frame, Contexts, Flows, BucketOf
  <1>7. /\ Len(stack') = Len(stack) + 1 /\ Len(stack) \in Nat
        /\ \A i \in 1..Len(stack) : stack'[i] = frames[i]
        /\ stack'[Len(stack) + 1] = frame
    BY <1>1, <1>2, <1>6, AppendProperties
  <1>8. /\ frame.id = id /\ frame.todo = Append(trail, NewRecord(id))
        /\ frame.iter = IF trail = <<>> THEN "detached" ELSE "live"
    OBVIOUS
  <1> HIDE DEF frame, frames
  <1>9. frame.iter = "live" => InItsDeque(frame, buffers', delivered')
    <2> SUFFICES ASSUME frame.iter = "live"
                 PROVE  InItsDeque(frame, kept, delivered)
      BY <1>2
    <2>1. id \in DOMAIN kept /\ trail = kept[id]
      BY <1>8 DEF TrailOf
    <2>2. Len(frame.todo) - 1 = Len(trail) /\ \A j \in 1..Len(trail) : frame.todo[j] = trail[j]
      BY <1>5, <1>8
    <2> HIDE DEF trail, kept
    <2>3. Len(trail) - Len(trail) = 0 /\ 1..0 = {} /\ \A j \in 1..Len(trail) : 0 + j = j
      BY <1>5
    <2> QED BY <1>5, <1>8, <2>1, <2>2, <2>3 DEF InItsDeque
  <1> SUFFICES ASSUME NEW i \in 1..Len(stack) + 1, stack'[i].iter = "live"
               PROVE  InItsDeque(stack'[i], buffers', delivered')
    BY <1>7 DEF LoopsInPlace
  <1>10. CASE i = Len(stack) + 1
    BY <1>7, <1>9, <1>10
  <1>11. CASE i \in 1..Len(stack)
    <2>1. frames[i].iter = "live"
      BY <1>7, <1>11
    <2>2. frames[i] = stack[i] /\ stack[i].id \notin Expired /\ stack[i].iter = "live"
      BY <1>1, <1>11, <2>1, NotEvicted DEF frames
    <2>3. stack[i].id \in DOMAIN buffers
      BY <1>11, <2>2 DEF LoopsInPlace, InItsDeque
    <2>4. stack[i].id \in DOMAIN buffers' /\ buffers'[stack[i].id] = buffers[stack[i].id]
      BY <1>2, <2>2, <2>3 DEF Evict
    <2> QED BY <1>2, <1>7, <1>11, <2>2, <2>4, KeptInPlace
  <1> QED BY <1>7, <1>10, <1>11

\* The target has accepted the record of the innermost loop.
LEMMA PlaceMidTrail ==
  ASSUME IInv, LoopsInPlace, TargetReturnsMidTrail
  PROVE  LoopsInPlace'
  <1>1. /\ stack # <<>> /\ stack \in Seq(Frame) /\ delivered \in Seq(Record)
        /\ delivered' = Append(delivered, Head(Top.todo))
        /\ Len(Top.todo) > 2 /\ stack' = Advance(stack) /\ buffers' = buffers
    BY DEF TargetReturnsMidTrail, Deliver, IInv, Others
  <1>2. /\ Head(Top.todo) \in Record /\ Len(Top.todo) \in Nat /\ Top \in Frame
        /\ Top = stack[Len(stack)]
    BY <1>1, TopType DEF Top
  <1>3. Range(delivered) \subseteq Range(delivered')
    BY <1>1, <1>2, RangeAppend
  <1>4. /\ Len(stack') = Len(stack) /\ Len(stack) \in 1..Len(stack)
        /\ \A i \in 1..Len(stack) - 1 : stack'[i] = stack[i]
        /\ stack'[Len(stack)] = [Top EXCEPT !.todo = Tail(@)]
    BY <1>1, StackPlaces DEF Top
  <1> SUFFICES ASSUME NEW i \in 1..Len(stack), stack'[i].iter = "live"
               PROVE  InItsDeque(stack'[i], buffers', delivered')
    BY <1>4 DEF LoopsInPlace
  <1>5. CASE i = Len(stack)
    <2>1. Top.iter = "live"
      BY <1>2, <1>4, <1>5 DEF Frame
    <2>2. InItsDeque(Top, buffers, delivered)
      BY <1>2, <1>5, <2>1 DEF LoopsInPlace
    <2>3. Len(Top.todo) > 1 /\ buffers \in [DOMAIN buffers -> Seq(Record)]
      BY <1>1, <1>2 DEF IInv, Dictionaries
    <2>4. InItsDeque([Top EXCEPT !.todo = Tail(@)], buffers, Append(delivered, Head(Top.todo)))
      BY <1>1, <1>2, <2>2, <2>3, NextInDeque
    <2> QED BY <1>1, <1>4, <1>5, <2>4
  <1>6. CASE i \in 1..Len(stack) - 1
    <2>1. stack'[i] = stack[i] /\ stack[i].iter = "live"
      BY <1>4, <1>6
    <2>2. stack[i].id \in DOMAIN buffers
      BY <2>1 DEF LoopsInPlace, InItsDeque
    <2> QED BY <1>1, <1>3, <2>1, <2>2, KeptInPlace
  <1>7. i = Len(stack) \/ i \in 1..Len(stack) - 1
    BY <1>1, LenProperties
  <1> QED BY <1>5, <1>6, <1>7

\* The innermost loop is over: the buffer goes, and no loop iterates it any more.
LEMMA PlaceEndOfTrail ==
  ASSUME IInv, LoopsInPlace, TargetReturnsEndOfTrail
  PROVE  LoopsInPlace'
  <1> DEFINE frames == Detach(stack, {Top.id})
  <1>1. /\ stack # <<>> /\ stack \in Seq(Frame) /\ delivered \in Seq(Record)
        /\ delivered' = Append(delivered, Head(Top.todo))
        /\ stack' = Advance(frames) /\ buffers' = Evict(buffers, {Top.id})
    BY DEF TargetReturnsEndOfTrail, Deliver, IInv, Others
  <1>2. Head(Top.todo) \in Record /\ Top = stack[Len(stack)]
    BY <1>1, TopType DEF Top
  <1>3. Range(delivered) \subseteq Range(delivered')
    BY <1>1, <1>2, RangeAppend
  <1>4. frames \in Seq(Frame) /\ Len(frames) = Len(stack) /\ frames # <<>>
    BY <1>1, DetachType, EmptySeq
  <1>5. Last(frames) \in Frame
    BY <1>4, TopType
  <1>6. /\ Len(stack') = Len(stack) /\ Len(stack) \in 1..Len(stack)
        /\ \A i \in 1..Len(stack) - 1 : stack'[i] = frames[i]
        /\ stack'[Len(stack)].iter = frames[Len(stack)].iter
    <2>1. /\ Len(Advance(frames)) = Len(frames) /\ Len(frames) \in 1..Len(frames)
          /\ \A i \in 1..Len(frames) - 1 : Advance(frames)[i] = frames[i]
          /\ Advance(frames)[Len(frames)] = [Last(frames) EXCEPT !.todo = Tail(@)]
          /\ Last(frames) = frames[Len(frames)]
      BY <1>4, StackPlaces
    <2>2. [Last(frames) EXCEPT !.todo = Tail(@)].iter = Last(frames).iter
      BY <1>5 DEF Frame
    <2> QED BY <1>1, <1>4, <2>1, <2>2
  <1> SUFFICES ASSUME NEW i \in 1..Len(stack), stack'[i].iter = "live"
               PROVE  InItsDeque(stack'[i], buffers', delivered')
    BY <1>6 DEF LoopsInPlace
  <1>7. frames[i].iter = "live"
    <2>1. i = Len(stack) \/ i \in 1..Len(stack) - 1
      BY <1>1, LenProperties
    <2> QED BY <2>1, <1>6
  <1>8. frames[i] = stack[i] /\ stack[i].id # Top.id
    <2>1. stack \in Seq(Frame) /\ Detach(stack, {Top.id})[i].iter = "live"
      BY <1>1, <1>7
    <2>2. Detach(stack, {Top.id})[i] = stack[i] /\ stack[i].id \notin {Top.id}
      BY <2>1, NotEvicted
    <2> QED BY <2>2
  <1>9. i \in 1..Len(stack) - 1
    BY <1>1, <1>2, <1>8, LenProperties
  <1>10. stack[i].id \in DOMAIN buffers /\ stack[i].iter = "live"
    BY <1>7, <1>8 DEF LoopsInPlace, InItsDeque
  <1>11. stack[i].id \in DOMAIN buffers' /\ buffers'[stack[i].id] = buffers[stack[i].id]
    BY <1>1, <1>8, <1>10 DEF Evict
  <1> QED BY <1>3, <1>6, <1>8, <1>9, <1>10, <1>11, KeptInPlace

\* emit() is left: the loops outside it are where they were.
LEMMA PlacePop ==
  ASSUME IInv, LoopsInPlace, TargetReturnsTrailMutated \/ TargetReturnsRecord \/ TargetRaises
  PROVE  LoopsInPlace'
  <1>1. /\ stack # <<>> /\ stack \in Seq(Frame) /\ delivered \in Seq(Record)
        /\ delivered' = Append(delivered, Head(Top.todo)) \/ delivered' = delivered
        /\ stack' = Pop(stack) /\ buffers' = buffers
    BY DEF TargetReturnsTrailMutated, TargetReturnsRecord, TargetRaises, Deliver, IInv, Others
  <1>2. Head(Top.todo) \in Record
    BY <1>1, TopType DEF Top
  <1>3. Range(delivered) \subseteq Range(delivered')
    <2>1. Range(Append(delivered, Head(Top.todo))) = Range(delivered) \cup {Head(Top.todo)}
      BY <1>1, <1>2, RangeAppend
    <2> QED BY <1>1, <2>1
  <1>4. /\ Len(stack') = Len(stack) - 1 /\ Len(stack) \in 1..Len(stack)
        /\ \A i \in 1..Len(stack) - 1 : stack'[i] = stack[i]
    BY <1>1, StackPlaces
  <1> SUFFICES ASSUME NEW i \in 1..Len(stack) - 1, stack[i].iter = "live"
               PROVE  InItsDeque(stack[i], buffers', delivered')
    BY <1>4 DEF LoopsInPlace
  <1>5. i \in 1..Len(stack)
    BY <1>1, LenProperties
  <1>6. stack[i].id \in DOMAIN buffers
    BY <1>5 DEF LoopsInPlace, InItsDeque
  <1> QED BY <1>1, <1>3, <1>5, <1>6, KeptInPlace

\* The cap takes a buffer: no loop iterates it any more.
LEMMA PlaceEvictOldest ==
  ASSUME IInv, LoopsInPlace, EvictOldestCorrelation
  PROVE  LoopsInPlace'
  <1> DEFINE id == Head(correlation_order)
  <1>1. /\ stack \in Seq(Frame) /\ delivered' = delivered
        /\ stack' = Detach(stack, {id}) /\ buffers' = Evict(buffers, {id})
    BY DEF EvictOldestCorrelation, IInv, Others
  <1>2. Len(stack') = Len(stack)
    BY <1>1, DetachType
  <1> SUFFICES ASSUME NEW i \in 1..Len(stack), stack'[i].iter = "live"
               PROVE  InItsDeque(stack'[i], buffers', delivered')
    BY <1>2 DEF LoopsInPlace
  <1>3. stack'[i] = stack[i] /\ stack[i].id # id /\ stack[i].iter = "live"
    BY <1>1, NotEvicted
  <1>4. stack[i].id \in DOMAIN buffers
    BY <1>3 DEF LoopsInPlace, InItsDeque
  <1>5. stack[i].id \in DOMAIN buffers' /\ buffers'[stack[i].id] = buffers[stack[i].id]
    BY <1>1, <1>3, <1>4 DEF Evict
  <1> QED BY <1>1, <1>3, <1>5, KeptInPlace

\* Every step leaves the loops in their places.
LEMMA PlaceStep == IInv /\ LoopsInPlace /\ [Next]_vars => LoopsInPlace'
  <1> SUFFICES ASSUME IInv, LoopsInPlace, [Next]_vars
               PROVE  LoopsInPlace'
    OBVIOUS
  <1>1. ASSUME NEW ctx \in Contexts, EmitBuffered(ctx) PROVE LoopsInPlace'
    BY <1>1, PlaceEmitBuffered
  <1>2. ASSUME NEW ctx \in Contexts, EmitFlush(ctx) PROVE LoopsInPlace'
    BY <1>2, PlaceEmitFlush
  <1>3. CASE TargetReturnsMidTrail
    BY <1>3, PlaceMidTrail
  <1>4. CASE TargetReturnsEndOfTrail
    BY <1>4, PlaceEndOfTrail
  <1>5. CASE TargetReturnsTrailMutated \/ TargetReturnsRecord \/ TargetRaises
    BY <1>5, PlacePop
  <1>6. CASE EvictOldestCorrelation
    BY <1>6, PlaceEvictOldest
  <1>7. CASE Tick \/ ClockStepsBack \/ BoundsReached \/ UNCHANGED vars
    BY <1>7 DEF Tick, ClockStepsBack, BoundsReached, vars, LoopsInPlace
  <1> QED BY <1>1, <1>2, <1>3, <1>4, <1>5, <1>6, <1>7 DEF Next

\* At every moment a loop that has not failed is somewhere in the buffer it drains.
LEMMA InPlace == Spec => []LoopsInPlace
  <1>1. Init => LoopsInPlace
    BY EmptySeq DEF Init, LoopsInPlace
  <1>2. IInv /\ LoopsInPlace /\ [Next]_vars => LoopsInPlace'
    BY PlaceStep
  <1> QED BY <1>1, <1>2, Invariance, PTL DEF Spec

\* The records a flush has not emitted yet are the tail end of the buffer, whatever
\* expired, was evicted or was logged by the target meanwhile: a target that raises
\* now loses none of them.
THEOREM UnsentIsKept == Spec => []UnsentTrailStaysBuffered
  <1>1. IInv /\ LoopsInPlace => UnsentTrailStaysBuffered
    <2> SUFFICES ASSUME IInv, LoopsInPlace, NEW f \in Range(stack), f.iter = "live"
                 PROVE  /\ f.id \in DOMAIN buffers
                        /\ IsSuffix(Front(f.todo), buffers[f.id])
      BY DEF UnsentTrailStaysBuffered
    <2>1. stack \in Seq(Frame) /\ buffers \in [DOMAIN buffers -> Seq(Record)]
      BY DEF IInv, Others, Dictionaries
    <2>2. PICK i \in 1..Len(stack) : stack[i] = f
      BY <2>1, ElementsOfSeq
    <2>3. f \in Frame /\ InItsDeque(f, buffers, delivered)
      BY <2>1, <2>2, ElementsOfSeq DEF LoopsInPlace
    <2> QED BY <2>1, <2>3, LeftIsSuffix DEF InItsDeque
  <1> QED BY <1>1, Invariance, InPlace, PTL
-----------------------------------------------------------------------------
(* Where a record goes, and what is drained                                *)

\* A full deque loses its oldest record to an append, and no other.
LEMMA AppendToLoses ==
  ASSUME ValidConfig, NEW deque \in Seq(Record), NEW new \in Record,
         Len(deque) \in 1..Capacity, NEW r \in Range(deque)
  PROVE  r \in Range(AppendTo(deque, new)) \/ (Len(deque) = Capacity /\ r = Head(deque))
  <1> DEFINE longer == Append(deque, new)
  <1>1. /\ longer \in Seq(Record) /\ longer # <<>> /\ Len(longer) = Len(deque) + 1
        /\ longer[1] = deque[1]
        /\ Range(longer) = Range(deque) \cup {new}
    BY AppendProperties, RangeAppend
  <1>2. Head(longer) = longer[1] /\ Head(deque) = deque[1]
    BY <1>1, EmptySeq, HeadTailProperties
  <1> HIDE DEF longer
  <1>3. Range(longer) = Range(Tail(longer)) \cup {Head(longer)}
    BY <1>1, RangeTail
  <1>4. CASE Len(longer) > Capacity
    <2>1. Len(deque) = Capacity
      BY <1>1, <1>4 DEF ValidConfig
    <2> QED BY <1>1, <1>2, <1>3, <1>4, <2>1 DEF AppendTo, longer
  <1>5. CASE ~(Len(longer) > Capacity)
    BY <1>1, <1>5 DEF AppendTo, longer
  <1> QED BY <1>4, <1>5

\* Records leave the buffers only by delivery, expiry, the cap on correlations, or
\* the capacity of their own buffer: nothing is lost by the way flushes, nested
\* flushes and evictions interleave.
THEOREM NothingLost == Spec => NoSilentLoss
  <1> DEFINE Accounted(c, r) ==
        \/ Buffered(r)' \/ r \in Range(delivered')
        \/ (logged' > logged /\ clock - timestamps[c] > TtlSeconds)
        \/ Exceeded
        \/ (logged' > logged /\ Len(buffers[c]) = Capacity /\ r = Head(buffers[c]))
        \/ (stack # <<>> /\ Top.id = c /\ Top.iter = "detached")
  <1>1. ASSUME IInv, OwnTrailOnly, LoopsInPlace, Next,
               NEW c \in DOMAIN buffers, NEW r \in Range(buffers[c])
        PROVE  Accounted(c, r)
    <2>1. r.flow = c /\ buffers[c] \in Seq(Record) /\ Len(buffers[c]) \in 1..Capacity
      BY <1>1 DEF OwnTrailOnly, IInv, Dictionaries, TrailsBounded
    <2>2. logged \in Nat /\ DOMAIN timestamps = DOMAIN buffers
      BY <1>1 DEF IInv, Others, Dictionaries
    <2>3. ASSUME c \in DOMAIN buffers', buffers'[c] = buffers[c]
          PROVE  Accounted(c, r)
      BY <1>1, <2>1, <2>3 DEF Buffered
    <2>4. ASSUME NEW ctx \in Contexts, EmitBuffered(ctx)
          PROVE  Accounted(c, r)
      <3> DEFINE id    == BucketOf(ctx)
                 kept  == Evict(buffers, Expired)
                 old   == IF id \notin DOMAIN kept THEN <<>> ELSE kept[id]
      <3>1. /\ logged' = logged + 1
            /\ buffers' = [d \in DOMAIN kept \cup {id} |->
                             IF d = id THEN AppendTo(old, NewRecord(id)) ELSE kept[d]]
        BY <2>4 DEF EmitBuffered
      <3>2. logged' > logged
        BY <2>2, <3>1
      <3>3. CASE c \in Expired
        BY <3>2, <3>3 DEF Expired
      <3>4. CASE c \notin Expired /\ c # id
        BY <1>1, <2>3, <3>1, <3>4 DEF Evict
      <3>5. CASE c \notin Expired /\ c = id
        <4>1. old = buffers[c] /\ NewRecord(id) \in Record
          BY <1>1, <3>5 DEF Evict, NewRecord, Record, IInv, Others, Dictionaries
        <4>2. c \in DOMAIN buffers' /\ buffers'[c] = AppendTo(buffers[c], NewRecord(id))
          BY <3>1, <3>5, <4>1
        <4>3. \/ r \in Range(AppendTo(buffers[c], NewRecord(id)))
              \/ Len(buffers[c]) = Capacity /\ r = Head(buffers[c])
          BY <1>1, <2>1, <4>1, AppendToLoses, ConfigAssumption
        <4> QED BY <2>1, <3>2, <4>2, <4>3 DEF Buffered
      <3> QED BY <3>3, <3>4, <3>5
    <2>5. ASSUME NEW ctx \in Contexts, EmitFlush(ctx)
          PROVE  Accounted(c, r)
      <3>1. logged' = logged + 1 /\ buffers' = Evict(buffers, Expired)
        BY <2>5 DEF EmitFlush
      <3>2. CASE c \in Expired
        BY <2>2, <3>1, <3>2 DEF Expired
      <3>3. CASE c \notin Expired
        BY <1>1, <2>3, <3>1, <3>3 DEF Evict
      <3> QED BY <3>2, <3>3
    <2>6. CASE TargetReturnsEndOfTrail
      <3>1. /\ stack # <<>> /\ stack \in Seq(Frame) /\ delivered \in Seq(Record)
            /\ Len(Top.todo) = 2 /\ Top.iter # "mutated"
            /\ delivered' = Append(delivered, Head(Top.todo))
            /\ buffers' = Evict(buffers, {Top.id})
        BY <1>1, <2>6 DEF TargetReturnsEndOfTrail, Deliver, IInv, Others
      <3>2. /\ Top \in Frame /\ Top = stack[Len(stack)] /\ Len(stack) \in 1..Len(stack)
            /\ Head(Top.todo) \in Record
        BY <3>1, TopType, StackPlaces DEF Top
      <3>3. Head(Top.todo) = Top.todo[1]
        BY <3>2, HeadTailProperties DEF Frame
      <3>4. Range(delivered') = Range(delivered) \cup {Top.todo[1]}
        BY <3>1, <3>2, <3>3, RangeAppend
      <3>5. CASE c # Top.id
        BY <1>1, <2>3, <3>1, <3>5 DEF Evict
      <3>6. CASE c = Top.id /\ Top.iter = "live"
        <4>1. InItsDeque(Top, buffers, delivered)
          BY <1>1, <3>2, <3>6 DEF LoopsInPlace
        <4>2. /\ Top.todo[1] = buffers[c][Len(buffers[c])]
              /\ \A j \in 1..Len(buffers[c]) - 1 : buffers[c][j] \in Range(delivered)
          BY <2>1, <3>1, <3>6, <4>1 DEF InItsDeque
        <4>3. PICK j \in 1..Len(buffers[c]) : buffers[c][j] = r
          BY <1>1, <2>1, ElementsOfSeq
        <4>4. j = Len(buffers[c]) \/ j \in 1..Len(buffers[c]) - 1
          BY <2>1
        <4> QED BY <3>4, <4>2, <4>3, <4>4
      <3> QED BY <3>1, <3>2, <3>5, <3>6 DEF Frame
    <2>7. CASE EvictOldestCorrelation
      BY <2>7 DEF EvictOldestCorrelation
    <2>8. CASE \/ TargetReturnsMidTrail \/ TargetReturnsTrailMutated \/ TargetReturnsRecord
               \/ TargetRaises \/ Tick \/ ClockStepsBack \/ BoundsReached
      <3>1. buffers' = buffers
        BY <2>8 DEF TargetReturnsMidTrail, TargetReturnsTrailMutated, TargetReturnsRecord,
                    TargetRaises, Tick, ClockStepsBack, BoundsReached, vars
      <3> QED BY <1>1, <2>3, <3>1
    <2> QED BY <1>1, <2>4, <2>5, <2>6, <2>7, <2>8 DEF Next
  <1>2. IInv /\ OwnTrailOnly /\ LoopsInPlace /\ [Next]_vars =>
          [\A c \in DOMAIN buffers : \A r \in Range(buffers[c]) :
             Buffered(r)' \/ r \in Range(delivered')
               \/ (logged' > logged /\ clock - timestamps[c] > TtlSeconds)
               \/ Exceeded
               \/ (logged' > logged /\ Len(buffers[c]) = Capacity /\ r = Head(buffers[c]))
               \/ (stack # <<>> /\ Top.id = c /\ Top.iter = "detached")]_vars
    BY <1>1
  <1> QED BY <1>2, Invariance, FlowsIsolated, InPlace, PTL DEF Spec, NoSilentLoss

\* The records in the buffers are older than the one that is logged next.
Numbered == \A c \in DOMAIN buffers : \A r \in Range(buffers[c]) : r.n <= logged

\* What is appended is the record logged last; nothing else enters a buffer.
LEMMA NumberedStep == IInv /\ Numbered /\ [Next]_vars => Numbered'
  <1> SUFFICES ASSUME IInv, Numbered, [Next]_vars
               PROVE  Numbered'
    OBVIOUS
  <1>1. logged \in Nat /\ buffers \in [DOMAIN buffers -> Seq(Record)]
    BY DEF IInv, Others, Dictionaries
  <1>2. \A c \in DOMAIN buffers : \A r \in Range(buffers[c]) : r.n \in Nat
    <2> SUFFICES ASSUME NEW c \in DOMAIN buffers, NEW r \in Range(buffers[c])
                 PROVE  r.n \in Nat
      OBVIOUS
    <2>1. Range(buffers[c]) \subseteq Record
      BY <1>1, ElementsOfSeq
    <2> QED BY <2>1 DEF Record
  <1>3. ASSUME \A c \in DOMAIN buffers' : c \in DOMAIN buffers /\ buffers'[c] = buffers[c],
               logged' = logged \/ logged' = logged + 1
        PROVE  Numbered'
    BY <1>1, <1>2, <1>3 DEF Numbered
  <1>4. ASSUME NEW ctx \in Contexts, EmitBuffered(ctx)
        PROVE  Numbered'
    <2> DEFINE id    == BucketOf(ctx)
               kept  == Evict(buffers, Expired)
               old   == IF id \notin DOMAIN kept THEN <<>> ELSE kept[id]
               deque == AppendTo(old, NewRecord(id))
    <2>1. /\ logged' = logged + 1
          /\ buffers' = [d \in DOMAIN kept \cup {id} |-> IF d = id THEN deque ELSE kept[d]]
      BY <1>4 DEF EmitBuffered
    <2>2. id \in Flows /\ NewRecord(id) \in Record /\ NewRecord(id).n = logged + 1
      BY <1>1 DEF Contexts, Flows, BucketOf, NewRecord, Record
    <2>3. old \in Seq(Record) /\ \A r \in Range(old) : r.n <= logged
      <3>1. CASE id \notin DOMAIN kept
        BY <3>1, EmptySeq DEF Range
      <3>2. CASE id \in DOMAIN kept
        <4>1. old = buffers[id] /\ id \in DOMAIN buffers
          BY <3>2 DEF Evict
        <4> QED BY <1>1, <4>1 DEF Numbered
      <3> QED BY <3>1, <3>2
    <2>4. Range(deque) \subseteq Range(old) \cup {NewRecord(id)}
      BY <2>2, <2>3, OwnAppendTo
    <2>5. \A r \in Range(old) : r.n \in Nat
      <3>1. Range(old) \subseteq Record
        BY <2>3, ElementsOfSeq
      <3> QED BY <3>1 DEF Record
    <2>6. \A r \in Range(deque) : r.n <= logged + 1
      BY <1>1, <2>2, <2>3, <2>4, <2>5
    <2> HIDE DEF deque, old
    <2>7. \A c \in DOMAIN buffers' : c # id => c \in DOMAIN buffers /\ buffers'[c] = buffers[c]
      BY <2>1 DEF Evict
    <2>8. \A c \in DOMAIN buffers : \A r \in Range(buffers[c]) : r.n <= logged + 1
      BY <1>1, <1>2 DEF Numbered
    <2>9. buffers'[id] = deque
      BY <2>1
    <2> QED BY <2>1, <2>6, <2>7, <2>8, <2>9 DEF Numbered
  <1>5. ASSUME NEW ctx \in Contexts, EmitFlush(ctx)
        PROVE  Numbered'
    BY <1>3, <1>5 DEF EmitFlush, Evict
  <1>6. CASE TargetReturnsEndOfTrail \/ EvictOldestCorrelation
    BY <1>3, <1>6 DEF TargetReturnsEndOfTrail, EvictOldestCorrelation, Evict
  <1>7. CASE \/ TargetReturnsMidTrail \/ TargetReturnsTrailMutated \/ TargetReturnsRecord
             \/ TargetRaises \/ Tick \/ ClockStepsBack \/ BoundsReached \/ UNCHANGED vars
    BY <1>3, <1>7 DEF TargetReturnsMidTrail, TargetReturnsTrailMutated, TargetReturnsRecord,
                      TargetRaises, Tick, ClockStepsBack, BoundsReached, vars
  <1> QED BY <1>4, <1>5, <1>6, <1>7 DEF Next

\* Once emit() has read the clock no trail older than ttl_seconds is left, and none
\* is drained, though every flow's trail is looked at only when some flow logs.
THEOREM StaleIsGone == Spec => NothingStaleSurvivesEmit
  <1> DEFINE Fresh == \A c \in DOMAIN timestamps' : clock - timestamps'[c] <= TtlSeconds
             Undrained ==
               Len(stack') > Len(stack) =>
                 \A c \in DOMAIN buffers : clock - timestamps[c] > TtlSeconds =>
                   \A r \in Range(buffers[c]) : r \notin Range(Top'.todo)
  <1>1. ASSUME IInv, OwnTrailOnly, Numbered, Next, logged' > logged
        PROVE  Fresh /\ Undrained
    <2>1. /\ logged \in Nat /\ clock \in Nat /\ stack \in Seq(Frame)
          /\ DOMAIN timestamps = DOMAIN buffers /\ timestamps \in [DOMAIN timestamps -> Nat]
          /\ TtlSeconds \in Nat \ {0}
      BY <1>1, ConfigAssumption DEF IInv, Others, Dictionaries, ValidConfig
    <2>2. \A c \in DOMAIN timestamps \ Expired : clock - timestamps[c] <= TtlSeconds
      BY <2>1 DEF Expired
    <2>3. ASSUME NEW ctx \in Contexts, EmitBuffered(ctx)
          PROVE  Fresh /\ Undrained
      <3> DEFINE id     == BucketOf(ctx)
                 kept   == Evict(buffers, Expired)
                 fresh  == id \notin DOMAIN kept
                 frames == Detach(stack, Expired)
      <3>1. /\ timestamps' = [c \in DOMAIN kept \cup {id} |->
                                IF c = id /\ fresh THEN clock ELSE timestamps[c]]
            /\ stack' = Mutate(frames, id)
        BY <2>3 DEF EmitBuffered
      <3>2. DOMAIN kept = DOMAIN timestamps \ Expired
        BY <2>1 DEF Evict
      <3>3. Len(stack') = Len(stack) /\ Len(stack) \in Nat
        BY <2>1, <3>1, DetachType, MutateType
      <3>4. Fresh
        <4> SUFFICES ASSUME NEW c \in DOMAIN kept \cup {id}
                     PROVE  clock - timestamps'[c] <= TtlSeconds
          BY <3>1
        <4>1. CASE c = id /\ fresh
          <5>1. timestamps'[c] = clock
            BY <3>1, <4>1
          <5> QED BY <2>1, <5>1
        <4>2. CASE ~(c = id /\ fresh)
          <5>1. timestamps'[c] = timestamps[c] /\ c \in DOMAIN kept
            BY <3>1, <4>2
          <5> QED BY <2>2, <3>2, <5>1
        <4> QED BY <4>1, <4>2
      <3> QED BY <3>3, <3>4
    <2>4. ASSUME NEW ctx \in Contexts, EmitFlush(ctx)
          PROVE  Fresh /\ Undrained
      <3> DEFINE id    == BucketOf(ctx)
                 kept  == Evict(buffers, Expired)
                 trail == TrailOf(kept, id)
                 frame == [id |-> id, todo |-> Append(trail, NewRecord(id)),
                           iter |-> IF trail = <<>> THEN "detached" ELSE "live"]
                 frames == Detach(stack, Expired)
      <3>1. timestamps' = Evict(timestamps, Expired) /\ stack' = Append(frames, frame)
        BY <2>4 DEF EmitFlush, Push
      <3>2. Fresh
        BY <2>2, <3>1 DEF Evict
      <3>3. /\ id \in Flows /\ NewRecord(id) \in Record
            /\ NewRecord(id).n = logged + 1
        BY <2>1 DEF Contexts, Flows, BucketOf, NewRecord, Record
      <3>4. trail \in Seq(Record) /\ (id \notin DOMAIN kept => trail = <<>>)
            /\ (id \in DOMAIN kept => id \in DOMAIN buffers /\ id \notin Expired
                                      /\ trail = buffers[id])
        BY <1>1, EmptySeq DEF IInv, Dictionaries, Evict, TrailOf
      <3>5. /\ Append(trail, NewRecord(id)) \in Seq(Record) \ {<<>>}
            /\ Range(Append(trail, NewRecord(id))) = Range(trail) \cup {NewRecord(id)}
        BY <3>3, <3>4, AppendProperties, RangeAppend
      <3>6. frame \in Frame /\ frame.todo = Append(trail, NewRecord(id))
        BY <3>3, <3>5 DEF Frame
      <3> HIDE DEF frame, trail
      <3>7. Top' = frame
        <4>1. frames \in Seq(Frame)
          BY <2>1, DetachType
        <4> HIDE DEF frames
        <4>2. /\ stack' \in Seq(Frame) /\ stack' # <<>>
              /\ Len(stack') = Len(frames) + 1 /\ stack'[Len(frames) + 1] = frame
          BY <3>1, <3>6, <4>1, AppendProperties
        <4> QED BY <4>2, TopType DEF Top
      <3>8. ASSUME NEW c \in DOMAIN buffers, clock - timestamps[c] > TtlSeconds,
                   NEW r \in Range(buffers[c]), r \in Range(trail) \cup {NewRecord(id)}
            PROVE  FALSE
        <4>1. r.n <= logged /\ r.flow = c
          BY <1>1 DEF Numbered, OwnTrailOnly
        <4>2. r # NewRecord(id)
          BY <2>1, <3>3, <4>1
        <4>3. id \in DOMAIN kept
          BY <3>4, <3>8, <4>2, EmptySeq DEF Range
        <4>4. c = id
          BY <1>1, <3>4, <3>8, <4>1, <4>2, <4>3 DEF OwnTrailOnly
        <4>5. c \in Expired
          BY <2>1, <3>8 DEF Expired
        <4> QED BY <3>4, <4>3, <4>4, <4>5
      <3> QED BY <3>2, <3>5, <3>6, <3>7, <3>8
    <2>5. CASE \/ TargetReturnsMidTrail \/ TargetReturnsEndOfTrail \/ TargetReturnsTrailMutated
               \/ TargetReturnsRecord \/ TargetRaises \/ EvictOldestCorrelation
               \/ Tick \/ ClockStepsBack \/ BoundsReached
      <3>1. logged' = logged
        BY <2>5 DEF TargetReturnsMidTrail, TargetReturnsEndOfTrail, TargetReturnsTrailMutated,
                    TargetReturnsRecord, TargetRaises, EvictOldestCorrelation, Tick,
                    ClockStepsBack, BoundsReached, vars
      <3> QED BY <1>1, <2>1, <3>1
    <2> QED BY <1>1, <2>3, <2>4, <2>5 DEF Next
  <1>2. IInv /\ OwnTrailOnly /\ Numbered /\ [Next]_vars =>
          [logged' > logged =>
             /\ \A c \in DOMAIN timestamps' : clock - timestamps'[c] <= TtlSeconds
             /\ Len(stack') > Len(stack) =>
                  \A c \in DOMAIN buffers : clock - timestamps[c] > TtlSeconds =>
                    \A r \in Range(buffers[c]) : r \notin Range(Top'.todo)]_vars
    BY <1>1
  <1>3. Init => Numbered
    BY DEF Init, Numbered
  <1>4. Spec => []Numbered
    BY <1>3, NumberedStep, Invariance, PTL DEF Spec
  <1> QED BY <1>2, <1>4, Invariance, FlowsIsolated, PTL DEF Spec, NothingStaleSurvivesEmit

-----------------------------------------------------------------------------
(* The handler implements the store                                        *)

\* A stack of one frame.
LEMMA OneFrame ==
  ASSUME NEW f \in Frame
  PROVE  /\ <<f>> # <<>> /\ Len(<<f>>) = 1
         /\ Last(<<f>>) = f
         /\ Pop(<<f>>) = <<>>
         /\ Advance(<<f>>) = <<[f EXCEPT !.todo = Tail(@)]>>
         /\ \A ids : Detach(<<f>>, ids) =
                       <<IF f.id \in ids /\ f.iter = "live"
                         THEN [f EXCEPT !.iter = "detached"] ELSE f>>
  <1>1. <<f>> \in Seq(Frame) /\ <<f>> # <<>> /\ Len(<<f>>) = 1 /\ <<f>>[1] = f
    OBVIOUS
  <1>2. Last(<<f>>) = f
    BY <1>1 DEF Last
  <1>3. Pop(<<f>>) = <<>>
    <2>1. Pop(<<f>>) \in Seq(Frame) /\ Len(Pop(<<f>>)) = Len(<<f>>) - 1
      BY <1>1, FrontLast DEF Pop
    <2>2. Len(Pop(<<f>>)) = 0
      BY <1>1, <2>1
    <2> QED BY <2>1, <2>2, EmptySeq
  <1>4. Advance(<<f>>) = <<[f EXCEPT !.todo = Tail(@)]>>
    <2> DEFINE g == [f EXCEPT !.todo = Tail(@)]
               fs == <<f>>
    <2>1. fs \in Seq({f, g}) /\ 1 \in 1..Len(fs) /\ <<g>> \in Seq({f, g})
      OBVIOUS
    <2>2. Len(fs) = 1 /\ fs[1] = f /\ Len(<<g>>) = 1 /\ <<g>>[1] = g
      OBVIOUS
    <2>3. Advance(fs) = [fs EXCEPT ![1] = g]
      BY <2>2 DEF Advance
    <2> HIDE DEF g, fs
    <2>4. /\ Advance(fs) \in Seq({f, g}) /\ Len(Advance(fs)) = 1
          /\ Advance(fs)[1] = g
      BY <2>1, <2>2, <2>3, ExceptSeq
    <2>5. Advance(fs) = <<g>>
      BY <2>1, <2>2, <2>4, SeqEqual
    <2> QED BY <2>5 DEF g, fs
  <1>5. ASSUME NEW ids
        PROVE  Detach(<<f>>, ids) = <<IF f.id \in ids /\ f.iter = "live"
                                      THEN [f EXCEPT !.iter = "detached"] ELSE f>>
    BY DEF Detach
  <1> QED BY <1>1, <1>2, <1>3, <1>4, <1>5

\* With a target that neither raises nor logs one emit() at most drains, its loop
\* never fails, and the buffer is gone when only the warning is left.
Alone(f) == /\ f \in Frame
            /\ stack = <<f>>
            /\ f.iter # "mutated"
            /\ Len(f.todo) = 1 => f.id \notin DOMAIN buffers

OneAtATime == stack = <<>> \/ \E f \in Frame : Alone(f)

\* What the store of TrailStore is for a state of the handler, under the mapping.
Held == [c \in Flows |-> IF c \in DOMAIN buffers /\ ~Draining(c) THEN buffers[c] ELSE <<>>]
Out == IF stack = <<>> THEN delivered ELSE delivered \o Top.todo

\* A state in which nothing is drained, and one in which a flush is under way.
LEMMA Idle ==
  ASSUME stack = <<>>
  PROVE  /\ Out = delivered
         /\ Held = [c \in Flows |-> IF c \in DOMAIN buffers THEN buffers[c] ELSE <<>>]
  BY DEF Held, Out, Draining

LEMMA Flushing ==
  ASSUME NEW f \in Frame, stack = <<f>>
  PROVE  /\ Top = f
         /\ Out = delivered \o f.todo
         /\ Held = [c \in Flows |-> IF c \in DOMAIN buffers /\ c # f.id
                                    THEN buffers[c] ELSE <<>>]
  <1>1. stack # <<>> /\ Top = f
    BY OneFrame DEF Top
  <1> QED BY <1>1 DEF Held, Out, Draining

\* A record below flush_level joins its trail, and the trails that expired go.
LEMMA HoldStep ==
  ASSUME IInv, OneAtATime, MaxNesting = 0, NEW ctx \in Contexts, EmitBuffered(ctx)
  PROVE  /\ stack = <<>> /\ stack' = <<>>
         /\ BucketOf(ctx) \in Flows
         /\ \E D \in SUBSET Flows : Trails!Hold(BucketOf(ctx), D)
  <1> DEFINE id   == BucketOf(ctx)
             kept == Evict(buffers, Expired)
             old  == IF id \notin DOMAIN kept THEN <<>> ELSE kept[id]
  <1>1. /\ id \in Flows
        /\ Len(stack) <= 0
        /\ logged' = logged + 1
        /\ buffers' = [c \in DOMAIN kept \cup {id} |->
                         IF c = id THEN AppendTo(old, NewRecord(id)) ELSE kept[c]]
        /\ stack' = Mutate(Detach(stack, Expired), id)
        /\ delivered' = delivered
    BY DEF EmitBuffered, CanEnter, Contexts, Flows, BucketOf
  <1>2. stack = <<>>
    <2>1. ASSUME NEW f \in Frame, stack = <<f>> PROVE FALSE
      BY <1>1, <2>1, OneFrame
    <2> QED BY <2>1 DEF OneAtATime, Alone
  <1>3. stack' = <<>>
    BY <1>1, <1>2 DEF Detach, Mutate
  <1>4. DOMAIN buffers \subseteq Flows /\ Expired \subseteq DOMAIN buffers
    BY DEF IInv, Dictionaries, Expired
  <1>5. Held = [c \in Flows |-> IF c \in DOMAIN buffers THEN buffers[c] ELSE <<>>]
    BY <1>2, Idle
  <1>6. Held' = [c \in Flows |-> IF c \in DOMAIN buffers' THEN buffers'[c] ELSE <<>>]
    BY <1>3 DEF Held, Draining
  <1> DEFINE W == [c \in Flows |-> IF c \in Expired THEN <<>> ELSE Held[c]]
  <1>7. W[id] = old /\ \A c \in Flows : W[c] = IF c \in DOMAIN kept THEN kept[c] ELSE <<>>
    BY <1>1, <1>4, <1>5 DEF Evict
  <1>8. Held' = [W EXCEPT ![id] = AppendTo(W[id], NewRecord(id))]
    <2> HIDE DEF W, kept, old
    <2>1. DOMAIN W = Flows
      BY DEF W
    <2> QED BY <1>1, <1>6, <1>7, <2>1 DEF W
  <1>9. PICK D \in SUBSET Flows : D = Expired
    BY <1>4
  <1>10. Trails!Hold(id, D)
    <2>1. Trails!Without(D) = W
      BY <1>9 DEF Trails!Without, Trails!NoTrail, Held
    <2>2. Trails!Newest(Append(W[id], NewRecord(id))) = AppendTo(W[id], NewRecord(id))
      BY DEF Trails!Newest, AppendTo
    <2>3. Trails!NewRecord(id) = NewRecord(id)
      BY DEF Trails!NewRecord, NewRecord
    <2>4. Out' = Out
      BY <1>1, <1>2, <1>3 DEF Out
    <2> HIDE DEF W
    <2>5. Held' = [Trails!Without(D) EXCEPT ![id] =
                     Trails!Newest(Append(@, Trails!NewRecord(id)))]
      BY <1>8, <2>1, <2>2, <2>3
    <2> QED BY <1>1, <2>4, <2>5 DEF Trails!Hold, Held, Out
  <1> QED BY <1>1, <1>2, <1>3, <1>10

\* A flush begins: nothing else was under way, and it has its whole trail to emit.
LEMMA FlushBegins ==
  ASSUME IInv, OneAtATime, MaxNesting = 0, NEW ctx \in Contexts, EmitFlush(ctx)
  PROVE  LET id    == BucketOf(ctx)
             kept  == Evict(buffers, Expired)
             trail == TrailOf(kept, id)
         IN  /\ id \in Flows /\ NewRecord(id) \in Record
             /\ trail \in Seq(Record)
             /\ trail = <<>> <=> id \notin DOMAIN kept
             /\ logged' = logged + 1 /\ buffers' = kept /\ delivered' = delivered
             /\ stack = <<>>
             /\ \E f \in Frame : /\ stack' = <<f>> /\ f.id = id
                                 /\ f.todo = Append(trail, NewRecord(id))
                                 /\ f.iter = IF trail = <<>> THEN "detached" ELSE "live"
  <1> DEFINE id    == BucketOf(ctx)
             kept  == Evict(buffers, Expired)
             trail == TrailOf(kept, id)
             frame == [id |-> id, todo |-> Append(trail, NewRecord(id)),
                       iter |-> IF trail = <<>> THEN "detached" ELSE "live"]
  <1>1. /\ id \in Flows
        /\ Len(stack) <= 0
        /\ logged' = logged + 1
        /\ buffers' = kept
        /\ stack' = Append(Detach(stack, Expired), frame)
        /\ delivered' = delivered
    BY DEF EmitFlush, CanEnter, Contexts, Flows, BucketOf, Push
  <1>2. stack = <<>>
    <2>1. ASSUME NEW f \in Frame, stack = <<f>> PROVE FALSE
      BY <1>1, <2>1, OneFrame
    <2> QED BY <2>1 DEF OneAtATime, Alone
  <1>3. stack' = <<frame>>
    <2>1. Detach(stack, Expired) = <<>>
      BY <1>2 DEF Detach
    <2> HIDE DEF frame
    <2> QED BY <1>1, <2>1
  <1>4. /\ DOMAIN buffers \subseteq Flows /\ Expired \subseteq DOMAIN buffers
        /\ logged \in Nat
        /\ \A c \in DOMAIN buffers : buffers[c] \in Seq(Record) /\ Len(buffers[c]) \in 1..Capacity
    BY DEF IInv, Dictionaries, Expired, TrailsBounded, Others
  <1>5. /\ trail \in Seq(Record)
        /\ trail = <<>> <=> id \notin DOMAIN kept
    <2>1. CASE id \in DOMAIN kept
      <3>1. trail = buffers[id] /\ id \in DOMAIN buffers
        BY <2>1 DEF TrailOf, Evict
      <3>2. trail \in Seq(Record) /\ Len(trail) # 0
        BY <1>4, <3>1
      <3> QED BY <2>1, <3>2, EmptySeq
    <2>2. CASE id \notin DOMAIN kept
      BY <2>2, EmptySeq DEF TrailOf
    <2> QED BY <2>1, <2>2
  <1>6. NewRecord(id) \in Record
    BY <1>1, <1>4 DEF NewRecord, Record
  <1>7. Append(trail, NewRecord(id)) \in Seq(Record) \ {<<>>}
    BY <1>5, <1>6, AppendProperties
  <1>8. frame \in Frame /\ frame.id = id /\ frame.todo = Append(trail, NewRecord(id))
        /\ frame.iter = IF trail = <<>> THEN "detached" ELSE "live"
    BY <1>1, <1>7 DEF Frame
  <1> HIDE DEF frame
  <1> QED BY <1>1, <1>2, <1>3, <1>5, <1>6, <1>8

\* A record at flush_level or above takes its trail with it, all at once for a store.
LEMMA ReleaseStep ==
  ASSUME IInv, OneAtATime, MaxNesting = 0, NEW ctx \in Contexts, EmitFlush(ctx)
  PROVE  OneAtATime' /\ Trails!Next
  <1> DEFINE id    == BucketOf(ctx)
             kept  == Evict(buffers, Expired)
             trail == TrailOf(kept, id)
  <1>1. /\ id \in Flows
        /\ trail \in Seq(Record) /\ (trail = <<>> <=> id \notin DOMAIN kept)
        /\ NewRecord(id) \in Record
        /\ logged' = logged + 1 /\ buffers' = kept /\ delivered' = delivered
        /\ stack = <<>>
    BY FlushBegins
  <1>2. PICK f \in Frame : /\ stack' = <<f>> /\ f.id = id
                          /\ f.todo = Append(trail, NewRecord(id))
                          /\ f.iter = IF trail = <<>> THEN "detached" ELSE "live"
    BY FlushBegins
  <1>4. DOMAIN buffers \subseteq Flows /\ Expired \subseteq DOMAIN buffers
    BY DEF IInv, Dictionaries, Expired
  <1>8. Len(f.todo) = 1 => id \notin DOMAIN buffers'
    <2> DEFINE k == Len(trail)
               n == Len(f.todo)
    <2>1. n = k + 1 /\ k \in Nat
      BY <1>1, <1>2, AppendProperties
    <2>2. ASSUME n = 1 PROVE trail = <<>>
      <3> HIDE DEF k, n
      <3>1. k = 0
        BY <2>1, <2>2
      <3> QED BY <1>1, <3>1, EmptySeq DEF k
    <2> QED BY <1>1, <2>2
  <1>9. OneAtATime'
    BY <1>2, <1>8 DEF OneAtATime, Alone
  <1>10. PICK D \in SUBSET Flows : D = Expired
    BY <1>4
  <1>11. /\ Held = [c \in Flows |-> IF c \in DOMAIN buffers THEN buffers[c] ELSE <<>>]
         /\ Out = delivered
    BY <1>1, Idle
  <1>12. /\ Held' = [c \in Flows |-> IF c \in DOMAIN buffers' /\ c # id THEN buffers'[c] ELSE <<>>]
         /\ Out' = delivered' \o f.todo
    <2>1. /\ Top' = f /\ stack' # <<>>
      BY <1>2, OneFrame DEF Top
    <2> QED BY <1>2, <2>1 DEF Held, Out, Draining
  <1>13. Trails!Without(D)[id] = trail
    BY <1>1, <1>4, <1>10, <1>11 DEF Trails!Without, Trails!NoTrail, Held, TrailOf, Evict
  <1>14. Held' = Trails!Without(D \cup {id})
    <2>1. \A c \in Flows : (IF c \in DOMAIN buffers' /\ c # id THEN buffers'[c] ELSE <<>>)
                         = IF c \in D \cup {id} THEN <<>> ELSE Held[c]
      BY <1>1, <1>4, <1>10, <1>11 DEF Evict
    <2> QED BY <1>12, <2>1 DEF Trails!Without, Trails!NoTrail, Held
  <1>15. Trails!Release(id, D)
    <2>1. Trails!NewRecord(id) = NewRecord(id)
      BY DEF Trails!NewRecord, NewRecord
    <2>2. Out' = Out \o Append(Trails!Without(D)[id], Trails!NewRecord(id))
      BY <1>1, <1>2, <1>11, <1>12, <1>13, <2>1
    <2> QED BY <1>1, <1>14, <2>2 DEF Trails!Release, Held, Out
  <1>16. Trails!Next
    BY <1>1, <1>15 DEF Trails!Next
  <1> QED BY <1>9, <1>16

\* A flush that is alone goes on to its next record, or ends with the warning.
LEMMA PassesOn ==
  ASSUME IInv, NEW f \in Frame, Alone(f), TargetReturns
  PROVE  /\ logged' = logged /\ delivered' = Append(delivered, Head(f.todo))
         /\ \/ /\ Len(f.todo) > 1
               /\ \E g \in Frame : /\ stack' = <<g>> /\ g.id = f.id /\ g.todo = Tail(f.todo)
                                   /\ g.iter # "mutated"
                                   /\ Len(f.todo) > 2 => g.iter = f.iter
               /\ buffers' = IF Len(f.todo) = 2 THEN Evict(buffers, {f.id}) ELSE buffers
            \/ Len(f.todo) = 1 /\ stack' = <<>> /\ buffers' = buffers
  <1>1. /\ stack # <<>> /\ logged' = logged /\ delivered' = Append(delivered, Head(Top.todo))
    BY DEF TargetReturns, TargetReturnsMidTrail, TargetReturnsEndOfTrail,
           TargetReturnsTrailMutated, TargetReturnsRecord, Deliver
  <1>2. stack = <<f>> /\ Top = f
    BY Flushing DEF Alone
  <1>3. /\ f.todo \in Seq(Record) /\ f.todo # <<>> /\ Len(f.todo) \in Nat
        /\ Tail(f.todo) \in Seq(Record) /\ Len(Tail(f.todo)) = Len(f.todo) - 1
        /\ Len(f.todo) > 1 => Tail(f.todo) # <<>>
    <2>1. f.todo \in Seq(Record) /\ f.todo # <<>>
      BY DEF Frame
    <2> QED BY <2>1, HeadTailProperties, LenProperties, TailNotEmpty
  <1>4. CASE TargetReturnsMidTrail
    <2> DEFINE g == [f EXCEPT !.todo = Tail(@)]
    <2>1. /\ Len(f.todo) > 2 /\ f.iter # "mutated" /\ stack' = Advance(<<f>>) /\ buffers' = buffers
      BY <1>2, <1>4 DEF TargetReturnsMidTrail
    <2>2. Len(f.todo) > 1 /\ Len(f.todo) # 2
      <3> DEFINE n == Len(f.todo)
      <3>1. n \in Nat /\ n > 2
        BY <1>3, <2>1
      <3> HIDE DEF n
      <3>2. n > 1 /\ n # 2
        BY <3>1
      <3> QED BY <3>2 DEF n
    <2>3. g \in Frame /\ g.id = f.id /\ g.todo = Tail(f.todo) /\ g.iter = f.iter
      BY <1>3, <2>2 DEF Frame
    <2>4. stack' = <<g>>
      BY <2>1, OneFrame
    <2> HIDE DEF g
    <2> QED BY <1>1, <1>2, <2>1, <2>2, <2>3, <2>4
  <1>5. CASE TargetReturnsEndOfTrail
    <2> DEFINE e == IF f.id \in {f.id} /\ f.iter = "live"
                    THEN [f EXCEPT !.iter = "detached"] ELSE f
               g == [e EXCEPT !.todo = Tail(@)]
    <2>1. /\ Len(f.todo) = 2 /\ f.iter # "mutated" /\ buffers' = Evict(buffers, {f.id})
          /\ stack' = Advance(Detach(<<f>>, {f.id}))
      BY <1>2, <1>5 DEF TargetReturnsEndOfTrail
    <2>2. Len(f.todo) > 1 /\ ~(Len(f.todo) > 2)
      BY <2>1
    <2>3. e \in Frame /\ e.id = f.id /\ e.todo = f.todo /\ e.iter # "mutated"
      BY <2>1 DEF Frame
    <2>4. Detach(<<f>>, {f.id}) = <<e>>
      BY OneFrame
    <2> HIDE DEF e
    <2>5. stack' = <<g>>
      BY <2>1, <2>3, <2>4, OneFrame
    <2>6. g \in Frame /\ g.id = f.id /\ g.todo = Tail(f.todo) /\ g.iter # "mutated"
      BY <1>3, <2>2, <2>3 DEF Frame
    <2> HIDE DEF g
    <2> QED BY <1>1, <1>2, <2>1, <2>2, <2>5, <2>6
  <1>6. CASE TargetReturnsRecord
    <2>1. Len(f.todo) = 1 /\ stack' = <<>> /\ buffers' = buffers
      BY <1>2, <1>6, OneFrame DEF TargetReturnsRecord
    <2> QED BY <1>1, <1>2, <2>1
  <1>7. CASE TargetReturnsTrailMutated
    BY <1>2, <1>7 DEF TargetReturnsTrailMutated, Alone
  <1> QED BY <1>4, <1>5, <1>6, <1>7 DEF TargetReturns

\* The steps by which a flush that has begun goes on.  Nothing happens to the store.
LEMMA DrainStep ==
  ASSUME IInv, OneAtATime, TargetReturns
  PROVE  OneAtATime' /\ UNCHANGED <<logged, Held, Out>>
  <1>1. stack # <<>> /\ delivered \in Seq(Record)
    BY DEF TargetReturns, TargetReturnsMidTrail, TargetReturnsEndOfTrail,
           TargetReturnsTrailMutated, TargetReturnsRecord, Deliver, IInv, Others
  <1>2. PICK f \in Frame : Alone(f)
    BY <1>1 DEF OneAtATime
  <1>3. /\ stack = <<f>> /\ Top = f /\ Out = delivered \o f.todo
        /\ Held = [c \in Flows |-> IF c \in DOMAIN buffers /\ c # f.id
                                   THEN buffers[c] ELSE <<>>]
    BY <1>2, Flushing DEF Alone
  <1>4. /\ f.todo \in Seq(Record) /\ Len(f.todo) \in Nat
        /\ Len(Tail(f.todo)) = Len(f.todo) - 1
        /\ Append(delivered, Head(f.todo)) \o Tail(f.todo) = delivered \o f.todo
        /\ Len(f.todo) = 1 => Append(delivered, Head(f.todo)) = delivered \o f.todo
    <2>1. f.todo \in Seq(Record) /\ f.todo # <<>>
      BY DEF Frame
    <2> QED BY <1>1, <2>1, PassOn, HeadTailProperties, LenProperties
  <1>5. logged' = logged /\ delivered' = Append(delivered, Head(f.todo))
    BY <1>2, PassesOn
  <1>6. ASSUME Len(f.todo) > 1,
               NEW g \in Frame, stack' = <<g>>, g.id = f.id, g.todo = Tail(f.todo),
               g.iter # "mutated",
               buffers' = IF Len(f.todo) = 2 THEN Evict(buffers, {f.id}) ELSE buffers
        PROVE  OneAtATime' /\ UNCHANGED <<logged, Held, Out>>
    <2>1. Top' = g /\ stack' # <<>>
      BY <1>6, OneFrame DEF Top
    <2>2. /\ Held' = [c \in Flows |-> IF c \in DOMAIN buffers' /\ c # f.id
                                      THEN buffers'[c] ELSE <<>>]
          /\ Out' = delivered' \o Tail(f.todo)
      BY <1>6, <2>1 DEF Held, Out, Draining
    <2>3. \A c \in Flows \ {f.id} : /\ c \in DOMAIN buffers' <=> c \in DOMAIN buffers
                                    /\ c \in DOMAIN buffers => buffers'[c] = buffers[c]
      BY <1>6 DEF Evict
    <2>4. Held' = Held
      BY <1>3, <2>2, <2>3
    <2>5. Out' = Out
      BY <1>3, <1>4, <1>5, <2>2
    <2>6. Len(g.todo) = 1 => f.id \notin DOMAIN buffers'
      <3>1. ASSUME Len(g.todo) = 1 PROVE Len(f.todo) = 2
        BY <1>4, <1>6, <3>1
      <3> QED BY <1>6, <3>1 DEF Evict
    <2>7. OneAtATime'
      BY <1>6, <2>6 DEF OneAtATime, Alone
    <2> QED BY <1>5, <2>4, <2>5, <2>7
  <1>7. CASE Len(f.todo) = 1 /\ stack' = <<>> /\ buffers' = buffers
    <2>1. f.id \notin DOMAIN buffers
      BY <1>2, <1>7 DEF Alone
    <2>2. Out' = delivered' /\ Held' = [c \in Flows |-> IF c \in DOMAIN buffers'
                                                        THEN buffers'[c] ELSE <<>>]
      BY <1>7 DEF Held, Out, Draining
    <2>3. Held' = Held
      BY <1>3, <1>7, <2>1, <2>2
    <2>4. Out' = Out
      BY <1>3, <1>4, <1>5, <1>7, <2>2
    <2> QED BY <1>5, <1>7, <2>3, <2>4 DEF OneAtATime
  <1>8. \/ /\ Len(f.todo) > 1
           /\ \E g \in Frame : /\ stack' = <<g>> /\ g.id = f.id /\ g.todo = Tail(f.todo)
                               /\ g.iter # "mutated"
                               /\ Len(f.todo) > 2 => g.iter = f.iter
           /\ buffers' = IF Len(f.todo) = 2 THEN Evict(buffers, {f.id}) ELSE buffers
        \/ Len(f.todo) = 1 /\ stack' = <<>> /\ buffers' = buffers
    BY <1>2, PassesOn
  <1> QED BY <1>6, <1>7, <1>8

\* The cap discards the trail of the id that _correlation_order has first.
LEMMA DiscardStep ==
  ASSUME IInv, OneAtATime, EvictOldestCorrelation
  PROVE  OneAtATime' /\ Trails!Next
  <1> DEFINE id == Head(correlation_order)
  <1>1. /\ logged' = logged /\ delivered' = delivered
        /\ buffers' = Evict(buffers, {id}) /\ stack' = Detach(stack, {id})
        /\ id \in Flows
    BY HeadTailProperties DEF EvictOldestCorrelation, IInv, Order
  <1> HIDE DEF id
  <1>2. PICK D \in SUBSET Flows : D = {id}
    BY <1>1
  <1>3. /\ \A c \in Flows : c \in DOMAIN buffers' <=> c \in DOMAIN buffers /\ c # id
        /\ \A c \in DOMAIN buffers' : buffers'[c] = buffers[c]
        /\ DOMAIN buffers \subseteq Flows
    BY <1>1 DEF Evict, IInv, Dictionaries
  <1>4. /\ OneAtATime'
        /\ Held' = Trails!Without(D)
        /\ Out' = Out
    <2>1. CASE stack = <<>>
      <3>1. stack' = <<>>
        BY <1>1, <2>1 DEF Detach
      <3>2. /\ Out = delivered /\ Out' = delivered'
            /\ Held = [c \in Flows |-> IF c \in DOMAIN buffers THEN buffers[c] ELSE <<>>]
            /\ Held' = [c \in Flows |-> IF c \in DOMAIN buffers' THEN buffers'[c] ELSE <<>>]
        BY <2>1, <3>1 DEF Held, Out, Draining
      <3>3. \A c \in Flows : (IF c \in DOMAIN buffers' THEN buffers'[c] ELSE <<>>)
                           = IF c \in D THEN <<>> ELSE Held[c]
        BY <1>2, <1>3, <3>2
      <3> QED BY <1>1, <3>1, <3>2, <3>3 DEF OneAtATime, Trails!Without, Trails!NoTrail, Held
    <2>2. ASSUME NEW f \in Frame, Alone(f)
          PROVE  OneAtATime' /\ Held' = Trails!Without(D) /\ Out' = Out
      <3> DEFINE g == IF f.id \in {id} /\ f.iter = "live"
                      THEN [f EXCEPT !.iter = "detached"] ELSE f
      <3>1. stack' = <<g>>
        BY <1>1, <2>2, OneFrame DEF Alone
      <3>2. g \in Frame /\ g.id = f.id /\ g.todo = f.todo /\ g.iter # "mutated"
        BY <2>2 DEF Frame, Alone
      <3> HIDE DEF g
      <3>3. /\ Out = delivered \o f.todo
            /\ Held = [c \in Flows |-> IF c \in DOMAIN buffers /\ c # f.id
                                       THEN buffers[c] ELSE <<>>]
        BY <2>2, Flushing DEF Alone
      <3>4. Top' = g /\ stack' # <<>>
        BY <3>1, <3>2, OneFrame DEF Top
      <3>5. /\ Out' = delivered' \o f.todo
            /\ Held' = [c \in Flows |-> IF c \in DOMAIN buffers' /\ c # f.id
                                        THEN buffers'[c] ELSE <<>>]
        BY <3>2, <3>4 DEF Held, Out, Draining
      <3>6. \A c \in Flows : (IF c \in DOMAIN buffers' /\ c # f.id THEN buffers'[c] ELSE <<>>)
                           = IF c \in D THEN <<>> ELSE Held[c]
        BY <1>2, <1>3, <3>3
      <3>7. Held' = Trails!Without(D)
        BY <3>5, <3>6 DEF Trails!Without, Trails!NoTrail, Held
      <3>8. f.id \in Flows /\ (Len(f.todo) = 1 => f.id \notin DOMAIN buffers)
        BY <2>2 DEF Alone, Frame
      <3>9. OneAtATime'
        BY <1>3, <3>1, <3>2, <3>8 DEF OneAtATime, Alone
      <3> QED BY <1>1, <3>3, <3>5, <3>7, <3>9
    <2> QED BY <2>1, <2>2 DEF OneAtATime
  <1>5. Trails!Discard(D)
    BY <1>1, <1>4 DEF Trails!Discard, Held, Out
  <1> QED BY <1>4, <1>5 DEF Trails!Next

\* Every step of the handler is one of the store's, or none.
LEMMA StoreStep ==
  ASSUME MaxNesting = 0, ~TargetMayRaise, IInv, OneAtATime, [Next]_vars
  PROVE  OneAtATime' /\ [Trails!Next]_(Trails!absVars)
  <1>1. ASSUME OneAtATime', UNCHANGED <<logged, Held, Out>>
        PROVE  OneAtATime' /\ [Trails!Next]_(Trails!absVars)
    BY <1>1 DEF Trails!absVars, Held, Out
  <1>2. ASSUME NEW ctx \in Contexts, EmitBuffered(ctx)
        PROVE  OneAtATime' /\ [Trails!Next]_(Trails!absVars)
    <2>1. stack' = <<>> /\ \E c \in Flows, D \in SUBSET Flows : Trails!Hold(c, D)
      BY <1>2, HoldStep
    <2> QED BY <2>1 DEF OneAtATime, Trails!Next
  <1>3. ASSUME NEW ctx \in Contexts, EmitFlush(ctx)
        PROVE  OneAtATime' /\ [Trails!Next]_(Trails!absVars)
    BY <1>3, ReleaseStep
  <1>4. CASE \/ TargetReturnsMidTrail \/ TargetReturnsEndOfTrail
             \/ TargetReturnsTrailMutated \/ TargetReturnsRecord
    BY <1>1, <1>4, DrainStep DEF TargetReturns
  <1>5. CASE EvictOldestCorrelation
    BY <1>5, DiscardStep
  <1>6. CASE TargetRaises
    BY <1>6 DEF TargetRaises
  <1>7. CASE Tick \/ ClockStepsBack \/ BoundsReached \/ UNCHANGED vars
    <2>1. UNCHANGED <<buffers, stack, delivered, logged>>
      BY <1>7 DEF Tick, ClockStepsBack, BoundsReached, vars
    <2>2. OneAtATime' /\ UNCHANGED <<logged, Held, Out>>
      BY <2>1 DEF OneAtATime, Alone, Held, Out, Draining, Top
    <2> QED BY <1>1, <2>2
  <1> QED BY <1>2, <1>3, <1>4, <1>5, <1>6, <1>7 DEF Next

\* While the target neither raises nor logs, the handler is the store of TrailStore:
\* the dictionaries, the two kinds of eviction and the step-by-step flush come to a
\* store that hands whole trails over in one step and loses none in part.
THEOREM HandlerIsAStore ==
  ASSUME MaxNesting = 0, ~TargetMayRaise
  PROVE  Spec => ImplementsTrailStore
  <1>1. Init => OneAtATime /\ Trails!Init
    BY DEF Init, OneAtATime, Trails!Init, Trails!NoTrail
  <1>2. IInv /\ OneAtATime /\ [Next]_vars => OneAtATime' /\ [Trails!Next]_(Trails!absVars)
    BY StoreStep
  <1> QED BY <1>1, <1>2, Invariance, PTL DEF Spec, ImplementsTrailStore, Trails!Spec

-----------------------------------------------------------------------------
(* The handler implements the store, whenever the target raises            *)

\* A flush takes its trail record by record: what the target has last accepted is
\* the first part of the trail, which is in its buffer until the loop has ended.
Taking(f) ==
  /\ Alone(f)
  /\ ~Exceeded
  /\ IF f.id \in DOMAIN buffers
     THEN /\ f.iter = "live"
          /\ EndsWithFirst(delivered, buffers[f.id], PassedBy(f))
     ELSE Len(f.todo) = 1

OneTaken == stack = <<>> \/ \E f \in Frame : Taking(f)

\* What the store of FallibleStore is for a state of the handler, under the mapping.
AllHeld == [c \in Flows |-> TrailOf(buffers, c)]
WholeOut == IF stack = <<>> THEN delivered
            ELSE SubSeq(delivered, 1, Len(delivered) - PassedBy(Top))
Pending == IF stack = <<>> THEN <<>> ELSE <<Last(Top.todo)>>

\* The cap is still respected when buffers go.
LEMMA FewerBuffers ==
  ASSUME IInv, ~Exceeded, NEW S \in SUBSET DOMAIN buffers
  PROVE  ~(Cardinality(S) > MaxCorrelations)
  <1>1. IsFiniteSet(DOMAIN buffers) /\ Cardinality(DOMAIN buffers) \in Nat
    BY BuffersFinite DEF IInv, Dictionaries
  <1>2. Cardinality(S) <= Cardinality(DOMAIN buffers) /\ Cardinality(S) \in Nat
    BY <1>1, FS_Subset, FS_CardinalityType
  <1> QED BY <1>1, <1>2, ConfigAssumption DEF ValidConfig, Exceeded

\* Where a flush is in its trail, and what it owes.
LEMMA TakingFacts ==
  ASSUME IInv, OwnTrailOnly, NEW f \in Frame, Taking(f)
  PROVE  /\ stack = <<f>> /\ Top = f
         /\ f.id \in Flows /\ f.todo \in Seq(Record) /\ f.todo # <<>>
         /\ WholeOut = SubSeq(delivered, 1, Len(delivered) - PassedBy(f))
         /\ Pending = <<Last(f.todo)>> /\ Last(f.todo).flow = f.id
         /\ f.id \in DOMAIN buffers =>
              /\ buffers[f.id] \in Seq(Record) /\ Len(buffers[f.id]) \in 1..Capacity
              /\ PassedBy(f) \in Nat /\ PassedBy(f) < Len(buffers[f.id])
              /\ Len(f.todo) = Len(buffers[f.id]) - PassedBy(f) + 1
         /\ f.id \notin DOMAIN buffers =>
              PassedBy(f) = 0 /\ WholeOut = delivered /\ Len(f.todo) = 1
  <1>1. stack = <<f>> /\ stack # <<>> /\ Top = f
    BY Flushing, OneFrame DEF Taking, Alone
  <1>2. f.id \in Flows /\ f.todo \in Seq(Record) /\ f.todo # <<>> /\ Len(f.todo) \in Nat \ {0}
    BY EmptySeq DEF Frame
  <1>3. /\ WholeOut = SubSeq(delivered, 1, Len(delivered) - PassedBy(f))
        /\ Pending = <<Last(f.todo)>>
    BY <1>1 DEF WholeOut, Pending
  <1>4. Last(f.todo).flow = f.id
    <2>1. Last(f.todo) \in Range(f.todo)
      <3> DEFINE n == Len(f.todo)
      <3>1. n \in Nat \ {0} /\ Last(f.todo) = f.todo[n]
        BY <1>2, FrontLast
      <3>2. n \in 1..n
        <4> HIDE DEF n
        <4> QED BY <3>1
      <3> QED BY <1>2, <3>1, <3>2, ElementsOfSeq
    <2>2. f \in Range(stack)
      <3>1. stack \in Seq(Frame) /\ Len(stack) = 1 /\ stack[1] = f
        BY <1>1, OneFrame
      <3>2. 1 \in 1..Len(stack)
        BY <3>1
      <3> QED BY <3>1, <3>2, ElementsOfSeq
    <2> QED BY <2>1, <2>2 DEF OwnTrailOnly
  <1>5. ASSUME f.id \in DOMAIN buffers
        PROVE  /\ buffers[f.id] \in Seq(Record) /\ Len(buffers[f.id]) \in 1..Capacity
               /\ PassedBy(f) \in Nat /\ PassedBy(f) < Len(buffers[f.id])
               /\ Len(f.todo) = Len(buffers[f.id]) - PassedBy(f) + 1
    <2> DEFINE n == Len(f.todo)
               m == Len(buffers[f.id])
               p == PassedBy(f)
    <2>1. buffers[f.id] \in Seq(Record) /\ m \in 1..Capacity /\ Capacity \in Nat
      BY <1>5, ConfigAssumption DEF IInv, Dictionaries, TrailsBounded, ValidConfig
    <2>2. n # 1 /\ n \in Nat \ {0}
      BY <1>2, <1>5 DEF Taking, Alone
    <2>3. p = m - (n - 1) /\ p \in 0..Len(delivered) /\ Len(delivered) \in Nat
      BY <1>5, LenProperties DEF PassedBy, Taking, EndsWithFirst, IInv, Others
    <2> HIDE DEF n, m, p
    <2>4. p \in Nat /\ p < m /\ n = m - p + 1
      BY <2>1, <2>2, <2>3
    <2> QED BY <2>1, <2>4 DEF n, m, p
  <1>6. ASSUME f.id \notin DOMAIN buffers
        PROVE  PassedBy(f) = 0 /\ WholeOut = delivered /\ Len(f.todo) = 1
    <2>1. PassedBy(f) = 0 /\ Len(f.todo) = 1
      BY <1>6 DEF PassedBy, Taking
    <2> DEFINE n == Len(delivered)
    <2>2. n \in Nat /\ delivered \in Seq(Record)
      BY LenProperties DEF IInv, Others
    <2>3. n - 0 = n /\ n \in 0..n
      <3> HIDE DEF n
      <3> QED BY <2>2
    <2>4. SubSeq(delivered, 1, n) = delivered
      BY <2>2, <2>3, Prefix
    <2> QED BY <1>3, <2>1, <2>3, <2>4
  <1> QED BY <1>1, <1>2, <1>3, <1>4, <1>5, <1>6

\* A record below flush_level joins its trail.
LEMMA HoldsBetween ==
  ASSUME IInv, OneTaken, MaxNesting = 0, NEW ctx \in Contexts, EmitBuffered(ctx)
  PROVE  OneTaken' /\ Fallible!FallibleNext
  <1>1. OneAtATime
    BY DEF OneTaken, OneAtATime, Taking
  <1>2. /\ stack = <<>> /\ stack' = <<>> /\ BucketOf(ctx) \in Flows
    BY <1>1, HoldStep
  <1>3. PICK D \in SUBSET Flows : Trails!Hold(BucketOf(ctx), D)
    BY <1>1, HoldStep
  <1>4. /\ AllHeld = Held /\ AllHeld' = Held'
        /\ WholeOut = Out /\ WholeOut' = Out'
        /\ Pending = <<>> /\ Pending' = <<>>
    BY <1>2 DEF AllHeld, Held, TrailOf, Draining, WholeOut, Out, Pending
  <1>5. Fallible!Without(D) = Trails!Without(D)
    BY <1>4 DEF Fallible!Without, Fallible!NoTrail, Trails!Without, Trails!NoTrail, AllHeld, Held
  <1>6. Fallible!Hold(BucketOf(ctx), D)
    <2>1. Fallible!NewRecord(BucketOf(ctx)) = Trails!NewRecord(BucketOf(ctx))
      BY DEF Fallible!NewRecord, Trails!NewRecord
    <2>2. \A s : Fallible!Newest(s) = Trails!Newest(s)
      BY DEF Fallible!Newest, Trails!Newest
    <2>3. /\ logged' = logged + 1
          /\ Held' = [Trails!Without(D) EXCEPT ![BucketOf(ctx)] =
                        Trails!Newest(Append(@, Trails!NewRecord(BucketOf(ctx))))]
          /\ Out' = Out
      BY <1>3 DEF Trails!Hold, Held, Out
    <2>4. AllHeld' = [Fallible!Without(D) EXCEPT ![BucketOf(ctx)] =
                        Fallible!Newest(Append(@, Fallible!NewRecord(BucketOf(ctx))))]
      BY <1>4, <1>5, <2>1, <2>2, <2>3
    <2> QED BY <1>4, <2>3, <2>4 DEF Fallible!Hold, AllHeld, WholeOut
  <1>7. Fallible!HoldBetween(BucketOf(ctx), D)
    BY <1>4, <1>6 DEF Fallible!HoldBetween, Pending
  <1> QED BY <1>2, <1>7 DEF OneTaken, Fallible!FallibleNext

\* A record at flush_level or above arrives, and its trail is still all there.
LEMMA Arrives ==
  ASSUME IInv, OneTaken, MaxNesting = 0, NEW ctx \in Contexts, EmitFlush(ctx)
  PROVE  OneTaken' /\ Fallible!FallibleNext
  <1> DEFINE id    == BucketOf(ctx)
             kept  == Evict(buffers, Expired)
             trail == TrailOf(kept, id)
  <1>1. OneAtATime
    BY DEF OneTaken, OneAtATime, Taking
  <1>2. /\ id \in Flows /\ NewRecord(id) \in Record
        /\ trail \in Seq(Record)
        /\ trail = <<>> <=> id \notin DOMAIN kept
        /\ logged' = logged + 1 /\ buffers' = kept /\ delivered' = delivered
        /\ stack = <<>>
    BY <1>1, FlushBegins
  <1>3. PICK f \in Frame : /\ stack' = <<f>> /\ f.id = id
                          /\ f.todo = Append(trail, NewRecord(id))
                          /\ f.iter = IF trail = <<>> THEN "detached" ELSE "live"
    BY <1>1, FlushBegins
  <1>4. /\ ~Exceeded /\ delivered \in Seq(Record)
        /\ DOMAIN buffers' \in SUBSET DOMAIN buffers
        /\ DOMAIN buffers \subseteq Flows /\ Expired \subseteq DOMAIN buffers
    BY <1>2 DEF EmitFlush, CanEnter, Evict, IInv, Others, Dictionaries, Expired
  <1>5. ~Exceeded'
    BY <1>4, FewerBuffers DEF Exceeded
  <1>6. Top' = f /\ stack' # <<>>
    BY <1>3, OneFrame DEF Top
  <1> DEFINE k == Len(trail)
             n == Len(f.todo)
             m == Len(delivered)
  <1>7. n = k + 1 /\ k \in Nat /\ (k = 0 <=> trail = <<>>) /\ m \in Nat
    BY <1>2, <1>3, <1>4, AppendProperties, LenProperties, EmptySeq
  <1>8. PassedBy(f)' = 0
    <2>1. id \in DOMAIN buffers' => Len(buffers'[id]) = k
      BY <1>2 DEF TrailOf
    <2>2. PassedBy(f)' = IF id \in DOMAIN buffers' THEN Len(buffers'[id]) - (n - 1) ELSE 0
      BY <1>3 DEF PassedBy
    <2> HIDE DEF n, k
    <2> QED BY <1>7, <2>1, <2>2
  <1>9. Taking(f)'
    <2>1. n = 1 => id \notin DOMAIN buffers'
      <3> HIDE DEF n, k
      <3> QED BY <1>2, <1>7
    <2>2. Alone(f)'
      BY <1>3, <2>1 DEF Alone
    <2>3. ASSUME id \in DOMAIN buffers'
          PROVE  f.iter = "live" /\ EndsWithFirst(delivered', buffers'[id], 0)
      <3>1. trail = buffers'[id]
        BY <1>2, <2>3 DEF TrailOf
      <3> HIDE DEF m, k
      <3>2. 0 \in 0..m /\ 0 <= k
        BY <1>7
      <3> QED BY <1>2, <1>3, <2>3, <3>1, <3>2 DEF EndsWithFirst, m, k
    <2>4. ASSUME id \notin DOMAIN buffers' PROVE n = 1
      <3> HIDE DEF n, k
      <3> QED BY <1>2, <1>7, <2>4
    <2> QED BY <1>3, <1>5, <1>8, <2>2, <2>3, <2>4 DEF Taking
  <1>10. PICK D \in SUBSET Flows : D = Expired
    BY <1>4
  <1>11. AllHeld' = Fallible!Without(D)
    BY <1>2, <1>4, <1>10 DEF AllHeld, Fallible!Without, Fallible!NoTrail, TrailOf, Evict
  <1>12. WholeOut' = WholeOut
    <2>1. m - 0 = m /\ m \in 0..m
      <3> HIDE DEF m
      <3> QED BY <1>7
    <2>2. SubSeq(delivered, 1, m - 0) = delivered
      BY <1>4, <2>1, Prefix
    <2>3. WholeOut' = SubSeq(delivered', 1, Len(delivered') - PassedBy(f)')
      BY <1>6 DEF WholeOut
    <2> QED BY <1>2, <1>8, <2>2, <2>3 DEF WholeOut
  <1>13. Pending = <<>> /\ Pending' = <<NewRecord(id)>>
    <2>1. Last(f.todo) = NewRecord(id)
      BY <1>2, <1>3, LastOf
    <2> QED BY <1>2, <1>6, <2>1 DEF Pending
  <1>14. Fallible!Arrive(id, D)
    <2>1. Fallible!NewRecord(id) = NewRecord(id)
      BY DEF Fallible!NewRecord, NewRecord
    <2> QED BY <1>2, <1>11, <1>12, <1>13, <2>1 DEF Fallible!Arrive, AllHeld, WholeOut, Pending
  <1>15. Fallible!FallibleNext
    BY <1>2, <1>14 DEF Fallible!FallibleNext
  <1> QED BY <1>3, <1>9, <1>15 DEF OneTaken

\* The cap discards the trail of one flow, and only when no flush is under way.
LEMMA DiscardsBetween ==
  ASSUME IInv, OneTaken, EvictOldestCorrelation
  PROVE  OneTaken' /\ Fallible!FallibleNext
  <1> DEFINE id == Head(correlation_order)
  <1>1. /\ logged' = logged /\ delivered' = delivered
        /\ buffers' = Evict(buffers, {id}) /\ stack' = Detach(stack, {id})
        /\ id \in Flows /\ Exceeded
    BY HeadTailProperties DEF EvictOldestCorrelation, IInv, Order
  <1> HIDE DEF id
  <1>2. stack = <<>> /\ stack' = <<>>
    <2>1. stack = <<>>
      BY <1>1 DEF OneTaken, Taking
    <2> QED BY <1>1, <2>1 DEF Detach
  <1>3. PICK D \in SUBSET Flows : D = {id}
    BY <1>1
  <1>4. AllHeld' = Fallible!Without(D) /\ WholeOut' = WholeOut /\ Pending = <<>> /\ Pending' = <<>>
    BY <1>1, <1>2, <1>3
       DEF AllHeld, WholeOut, Pending, Fallible!Without, Fallible!NoTrail, TrailOf, Evict
  <1>5. Fallible!DiscardBetween(D)
    BY <1>1, <1>4 DEF Fallible!DiscardBetween, Fallible!Discard, AllHeld, WholeOut, Pending
  <1> QED BY <1>2, <1>5 DEF OneTaken, Fallible!FallibleNext

\* The record that is being passed is the one that comes next in the buffer.
LEMMA NextOfTrail ==
  ASSUME IInv, OwnTrailOnly, LoopsInPlace, NEW f \in Frame, Taking(f), f.id \in DOMAIN buffers
  PROVE  LET deque == buffers[f.id]
             p     == PassedBy(f)
             s     == Append(delivered, Head(f.todo))
         IN  /\ EndsWithFirst(s, deque, p + 1)
             /\ SubSeq(s, 1, Len(s) - (p + 1)) = SubSeq(delivered, 1, Len(delivered) - p)
  <1> DEFINE deque == buffers[f.id]
             p     == PassedBy(f)
             n     == Len(f.todo)
             m     == Len(deque)
  <1>1. /\ stack = <<f>> /\ f.todo \in Seq(Record) /\ f.todo # <<>>
        /\ deque \in Seq(Record) /\ m \in 1..Capacity
        /\ p \in Nat /\ p < m /\ n = m - p + 1
    BY TakingFacts
  <1>2. f.iter = "live" /\ EndsWithFirst(delivered, deque, p) /\ delivered \in Seq(Record)
    BY DEF Taking, IInv, Others
  <1>3. Head(f.todo) = f.todo[1] /\ m \in Nat
    BY <1>1, HeadTailProperties, LenProperties
  <1>4. InItsDeque(f, buffers, delivered)
    <2>1. Len(stack) = 1 /\ stack[1] = f
      BY <1>1, OneFrame
    <2>2. 1 \in 1..Len(stack)
      BY <2>1
    <2> QED BY <1>2, <2>1, <2>2 DEF LoopsInPlace
  <1>5. \A j \in 1..(n - 1) : f.todo[j] = deque[m - (n - 1) + j]
    BY <1>4 DEF InItsDeque
  <1>6. f.todo[1] = deque[p + 1]
    <2> HIDE DEF deque, p, n, m
    <2>1. 1 \in 1..(n - 1) /\ m - (n - 1) + 1 = p + 1
      BY <1>1, <1>3
    <2> QED BY <1>5, <2>1
  <1> HIDE DEF deque, p
  <1>7. /\ EndsWithFirst(Append(delivered, deque[p + 1]), deque, p + 1)
        /\ SubSeq(Append(delivered, deque[p + 1]), 1,
                  Len(Append(delivered, deque[p + 1])) - (p + 1))
             = SubSeq(delivered, 1, Len(delivered) - p)
    BY <1>1, <1>2, NextOfFirst
  <1> QED BY <1>3, <1>6, <1>7 DEF deque, p

\* The target accepts a record of the trail that is not the last: nothing is handed
\* over yet.
LEMMA TakesOneOfTrail ==
  ASSUME IInv, OwnTrailOnly, LoopsInPlace, NEW f \in Frame, Taking(f), NEW g \in Frame,
         Len(f.todo) > 2, stack' = <<g>>, g.id = f.id, g.todo = Tail(f.todo),
         g.iter = f.iter, buffers' = buffers, logged' = logged,
         delivered' = Append(delivered, Head(f.todo))
  PROVE  Taking(g)' /\ UNCHANGED <<logged, AllHeld, WholeOut, Pending>>
  <1> DEFINE deque == buffers[f.id]
             p     == PassedBy(f)
             n     == Len(f.todo)
             m     == Len(deque)
  <1>1. /\ f.todo \in Seq(Record) /\ f.todo # <<>>
        /\ f.id \in DOMAIN buffers => p \in Nat /\ m \in 1..Capacity /\ n = m - p + 1
        /\ f.id \notin DOMAIN buffers => n = 1
        /\ WholeOut = SubSeq(delivered, 1, Len(delivered) - p)
        /\ Pending = <<Last(f.todo)>>
    BY TakingFacts
  <1>2. /\ n \in Nat /\ Len(Tail(f.todo)) = n - 1 /\ n > 2
        /\ n > 1 => Last(Tail(f.todo)) = Last(f.todo)
    BY <1>1, HeadTailProperties, LenProperties, LastOf
  <1>3. f.id \in DOMAIN buffers
    <2> HIDE DEF n
    <2>1. n # 1
      BY <1>2
    <2> QED BY <1>1, <2>1
  <1>4. /\ EndsWithFirst(delivered', deque, p + 1)
        /\ SubSeq(delivered', 1, Len(delivered') - (p + 1))
             = SubSeq(delivered, 1, Len(delivered) - p)
    BY <1>3, NextOfTrail
  <1>5. f.iter = "live" /\ ~Exceeded
    BY <1>3 DEF Taking
  <1>6. PassedBy(g)' = p + 1
    <2>1. PassedBy(g)' = m - (Len(g.todo) - 1) /\ m \in Nat
      BY <1>3 DEF PassedBy, IInv, Dictionaries, TrailsBounded
    <2> HIDE DEF n, m, p
    <2>2. m - ((n - 1) - 1) = p + 1
      BY <1>1, <1>2, <1>3, <2>1
    <2> QED BY <1>2, <2>1, <2>2
  <1>7. Len(g.todo) # 1
    <2> HIDE DEF n
    <2>1. n - 1 # 1
      BY <1>2
    <2> QED BY <1>2, <2>1
  <1>8. Taking(g)'
    <2>1. Alone(g)' /\ ~Exceeded'
      BY <1>5, <1>7 DEF Alone, Exceeded
    <2>2. f.id \in DOMAIN buffers' /\ EndsWithFirst(delivered', buffers'[g.id], PassedBy(g)')
      BY <1>3, <1>4, <1>6
    <2> QED BY <1>5, <2>1, <2>2 DEF Taking
  <1>9. Top' = g /\ stack' # <<>>
    BY OneFrame DEF Top
  <1>10. WholeOut' = WholeOut
    BY <1>1, <1>4, <1>6, <1>9 DEF WholeOut
  <1>11. Pending' = Pending
    <2>1. n > 1
      <3> HIDE DEF n
      <3> QED BY <1>2
    <2> QED BY <1>1, <1>2, <1>9, <2>1 DEF Pending
  <1> QED BY <1>8, <1>10, <1>11 DEF AllHeld, TrailOf

\* The target accepts the last record of the trail: the trail is handed over, whole.
LEMMA TakesTrail ==
  ASSUME IInv, OwnTrailOnly, LoopsInPlace, NEW f \in Frame, Taking(f), NEW g \in Frame,
         Len(f.todo) = 2, stack' = <<g>>, g.id = f.id, g.todo = Tail(f.todo),
         g.iter # "mutated", buffers' = Evict(buffers, {f.id}), logged' = logged,
         delivered' = Append(delivered, Head(f.todo))
  PROVE  Taking(g)' /\ Fallible!HandTrail
  <1> DEFINE deque == buffers[f.id]
             p     == PassedBy(f)
             n     == Len(f.todo)
             m     == Len(deque)
  <1>1. /\ f.id \in Flows /\ f.todo \in Seq(Record) /\ f.todo # <<>>
        /\ f.id \in DOMAIN buffers => /\ deque \in Seq(Record)
                                      /\ p \in Nat /\ m \in 1..Capacity /\ n = m - p + 1
        /\ f.id \notin DOMAIN buffers => n = 1
        /\ WholeOut = SubSeq(delivered, 1, Len(delivered) - p)
        /\ Pending = <<Last(f.todo)>> /\ Last(f.todo).flow = f.id
    BY TakingFacts
  <1>2. Len(Tail(f.todo)) = 1 /\ Last(Tail(f.todo)) = Last(f.todo)
    <2>1. /\ n \in Nat /\ Len(Tail(f.todo)) = n - 1 /\ n = 2
          /\ n > 1 => Last(Tail(f.todo)) = Last(f.todo)
      BY <1>1, HeadTailProperties, LenProperties, LastOf
    <2> HIDE DEF n
    <2> QED BY <2>1
  <1>3. f.id \in DOMAIN buffers
    <2>1. n # 1
      OBVIOUS
    <2> QED BY <1>1, <2>1
  <1>4. /\ EndsWithFirst(delivered', deque, p + 1)
        /\ SubSeq(delivered', 1, Len(delivered') - (p + 1)) = WholeOut
    BY <1>1, <1>3, NextOfTrail
  <1>5. p + 1 = m /\ m \in Nat /\ m > 0
    <2>1. n = 2 /\ p \in Nat /\ m \in 1..Capacity /\ n = m - p + 1 /\ Capacity \in Nat
      BY <1>1, <1>3, ConfigAssumption DEF ValidConfig
    <2> HIDE DEF n, m, p
    <2> QED BY <2>1
  <1>6. delivered' = WholeOut \o deque
    <2>1. delivered \in Seq(Record) /\ Head(f.todo) \in Record
      BY <1>1, HeadTailProperties DEF IInv, Others
    <2>2. delivered' \in Seq(Record)
      BY <2>1, AppendProperties
    <2>3. SubSeq(deque, 1, m) = deque
      <3>1. m \in 0..m
        BY <1>5
      <3> QED BY <1>1, <1>3, <3>1, Prefix
    <2> HIDE DEF deque, p
    <2>4. delivered' = SubSeq(delivered', 1, Len(delivered') - (p + 1)) \o SubSeq(deque, 1, p + 1)
      BY <1>1, <1>3, <1>4, <2>2, BeforeAndAfter
    <2> QED BY <1>4, <1>5, <2>3, <2>4
  <1>7. /\ f.id \notin DOMAIN buffers'
        /\ DOMAIN buffers' \in SUBSET DOMAIN buffers
        /\ PassedBy(g)' = 0
    BY DEF Evict, PassedBy
  <1>8. Taking(g)'
    <2>1. ~Exceeded'
      BY <1>7, FewerBuffers DEF Exceeded, Taking
    <2> QED BY <1>2, <1>7, <2>1 DEF Taking, Alone
  <1>9. Top' = g /\ stack' # <<>>
    BY OneFrame DEF Top
  <1>10. WholeOut' = delivered'
    <2> DEFINE k == Len(delivered')
    <2>1. delivered' \in Seq(Record)
      BY <1>1, HeadTailProperties, AppendProperties DEF IInv, Others
    <2>2. k \in Nat
      BY <2>1, LenProperties
    <2>3. k - 0 = k /\ k \in 0..k
      <3> HIDE DEF k
      <3> QED BY <2>2
    <2>4. SubSeq(delivered', 1, k - 0) = delivered'
      BY <2>1, <2>3, Prefix
    <2>5. WholeOut' = SubSeq(delivered', 1, Len(delivered') - PassedBy(g)')
      BY <1>9 DEF WholeOut
    <2> QED BY <1>7, <2>4, <2>5
  <1>11. Pending' = Pending /\ Pending # <<>> /\ Pending[1].flow = f.id
    BY <1>1, <1>2, <1>9 DEF Pending
  <1>12. AllHeld[f.id] = deque /\ deque # <<>>
    <2>1. m # 0
      <3> HIDE DEF m
      <3> QED BY <1>5
    <2> QED BY <1>1, <1>3, <2>1, EmptySeq DEF AllHeld, TrailOf
  <1>13. AllHeld' = Fallible!Without({f.id})
    BY DEF AllHeld, Fallible!Without, Fallible!NoTrail, TrailOf, Evict
  <1>14. Fallible!Due = f.id
    BY <1>11 DEF Fallible!Due, Pending
  <1>15. Fallible!HandTrail
    BY <1>6, <1>10, <1>11, <1>12, <1>13, <1>14
       DEF Fallible!HandTrail, Fallible!NoTrail, AllHeld, WholeOut, Pending
  <1> QED BY <1>8, <1>15

\* The target accepts the warning, whose trail is gone.
LEMMA TakesWarning ==
  ASSUME IInv, OwnTrailOnly, NEW f \in Frame, Taking(f),
         Len(f.todo) = 1, stack' = <<>>, buffers' = buffers, logged' = logged,
         delivered' = Append(delivered, Head(f.todo))
  PROVE  Fallible!HandWarning
  <1>1. /\ f.id \in Flows /\ f.todo \in Seq(Record) /\ f.todo # <<>>
        /\ f.id \notin DOMAIN buffers => WholeOut = delivered
        /\ Pending = <<Last(f.todo)>> /\ Last(f.todo).flow = f.id
    BY TakingFacts
  <1>2. f.id \notin DOMAIN buffers
    BY DEF Taking, Alone
  <1>3. /\ Head(f.todo) \in Record /\ Last(f.todo) = Head(f.todo) /\ delivered \in Seq(Record)
    BY <1>1, HeadTailProperties, LastOf DEF IInv, Others
  <1>4. delivered' = delivered \o <<Last(f.todo)>>
    BY <1>3, AppendIsConcat
  <1>5. Pending' = <<>> /\ WholeOut' = delivered' /\ AllHeld' = AllHeld
    BY DEF Pending, WholeOut, AllHeld, TrailOf
  <1>6. Pending # <<>> /\ Pending[1].flow = f.id
    BY <1>1
  <1>7. AllHeld[f.id] = <<>>
    BY <1>1, <1>2 DEF AllHeld, TrailOf
  <1>8. Fallible!Due = f.id
    BY <1>6 DEF Fallible!Due, Pending
  <1>9. WholeOut' = WholeOut \o Pending
    BY <1>1, <1>2, <1>4, <1>5
  <1> QED BY <1>5, <1>6, <1>7, <1>8, <1>9
          DEF Fallible!HandWarning, Fallible!NoTrail, AllHeld, WholeOut, Pending

\* The target raises: what it had accepted of the trail it has for good, and all of
\* the trail is still held.
LEMMA Raises ==
  ASSUME IInv, OwnTrailOnly, NEW f \in Frame, Taking(f), TargetRaises
  PROVE  stack' = <<>> /\ Fallible!FallibleNext
  <1> DEFINE deque == buffers[f.id]
             p     == PassedBy(f)
  <1>1. /\ stack = <<f>> /\ f.id \in Flows
        /\ f.id \in DOMAIN buffers => /\ deque \in Seq(Record) /\ Len(deque) \in 1..Capacity
                                      /\ p \in Nat /\ p < Len(deque)
        /\ f.id \notin DOMAIN buffers => p = 0 /\ WholeOut = delivered
        /\ WholeOut = SubSeq(delivered, 1, Len(delivered) - p)
        /\ Pending = <<Last(f.todo)>> /\ Last(f.todo).flow = f.id
    BY TakingFacts
  <1>2. /\ stack' = <<>> /\ buffers' = buffers /\ delivered' = delivered /\ logged' = logged
    BY <1>1, OneFrame DEF TargetRaises
  <1>3. Pending' = <<>> /\ WholeOut' = delivered /\ AllHeld' = AllHeld
    BY <1>2 DEF Pending, WholeOut, AllHeld, TrailOf
  <1>4. Pending # <<>> /\ Pending[1].flow = f.id
    BY <1>1
  <1>5. delivered \in Seq(Record)
    BY DEF IInv, Others
  <1>6. Fallible!Due = f.id
    BY <1>4 DEF Fallible!Due, Pending
  <1>7. ASSUME f.id \in DOMAIN buffers
        PROVE  p \in 0..Capacity /\ Fallible!Fail(p)
    <2>1. AllHeld[f.id] = deque
      BY <1>1, <1>7 DEF AllHeld, TrailOf
    <2>2. EndsWithFirst(delivered, deque, p)
      BY <1>7 DEF Taking
    <2>3. p \in 0..Capacity
      <3> DEFINE m == Len(deque)
      <3>1. p \in Nat /\ p < m /\ m \in 1..Capacity /\ Capacity \in Nat
        BY <1>1, <1>7, ConfigAssumption DEF ValidConfig
      <3> HIDE DEF m, p
      <3> QED BY <3>1
    <2> HIDE DEF p, deque
    <2>4. delivered = WholeOut \o SubSeq(deque, 1, p)
      BY <1>1, <1>5, <1>7, <2>2, BeforeAndAfter
    <2>5. Fallible!Fail(p)
      BY <1>1, <1>2, <1>3, <1>4, <1>6, <1>7, <2>1, <2>4
         DEF Fallible!Fail, AllHeld, WholeOut, Pending
    <2> QED BY <2>3, <2>5
  <1>8. ASSUME f.id \notin DOMAIN buffers
        PROVE  0 \in 0..Capacity /\ Fallible!Fail(0)
    <2>1. AllHeld[f.id] = <<>>
      BY <1>1, <1>8 DEF AllHeld, TrailOf
    <2>2. SubSeq(<<>>, 1, 0) = <<>>
      <3>1. <<>> \in Seq(Record) /\ 0 \in 0..Len(<<>>)
        BY EmptySeq
      <3> QED BY <3>1, Prefix
    <2>3. delivered = WholeOut \o SubSeq(AllHeld[f.id], 1, 0)
      BY <1>1, <1>5, <1>8, <2>1, <2>2, ConcatEmptySeq
    <2>4. Fallible!Fail(0)
      BY <1>2, <1>3, <1>4, <1>6, <2>3 DEF Fallible!Fail, AllHeld, WholeOut, Pending
    <2> QED BY <2>4, ConfigAssumption DEF ValidConfig
  <1> QED BY <1>2, <1>7, <1>8 DEF Fallible!FallibleNext

\* Every step of the handler is one of that store's, or none.
LEMMA FallibleStep ==
  ASSUME MaxNesting = 0, IInv, OwnTrailOnly, LoopsInPlace, OneTaken, [Next]_vars
  PROVE  OneTaken' /\ [Fallible!FallibleNext]_(Fallible!fallibleVars)
  <1>1. ASSUME NEW ctx \in Contexts, EmitBuffered(ctx)
        PROVE  OneTaken' /\ Fallible!FallibleNext
    BY <1>1, HoldsBetween
  <1>2. ASSUME NEW ctx \in Contexts, EmitFlush(ctx)
        PROVE  OneTaken' /\ Fallible!FallibleNext
    BY <1>2, Arrives
  <1>3. CASE EvictOldestCorrelation
    BY <1>3, DiscardsBetween
  <1>4. CASE \/ TargetReturnsMidTrail \/ TargetReturnsEndOfTrail
             \/ TargetReturnsTrailMutated \/ TargetReturnsRecord
    <2>1. TargetReturns /\ stack # <<>>
      BY <1>4 DEF TargetReturns, TargetReturnsMidTrail, TargetReturnsEndOfTrail,
                  TargetReturnsTrailMutated, TargetReturnsRecord, Deliver
    <2>2. PICK f \in Frame : Taking(f)
      BY <2>1 DEF OneTaken
    <2>3. /\ logged' = logged /\ delivered' = Append(delivered, Head(f.todo))
          /\ \/ /\ Len(f.todo) > 1
                /\ \E g \in Frame : /\ stack' = <<g>> /\ g.id = f.id /\ g.todo = Tail(f.todo)
                                    /\ g.iter # "mutated"
                                    /\ Len(f.todo) > 2 => g.iter = f.iter
                /\ buffers' = IF Len(f.todo) = 2 THEN Evict(buffers, {f.id}) ELSE buffers
             \/ Len(f.todo) = 1 /\ stack' = <<>> /\ buffers' = buffers
      BY <2>1, <2>2, PassesOn DEF Taking
    <2>4. ASSUME Len(f.todo) > 1,
                 NEW g \in Frame, stack' = <<g>>, g.id = f.id, g.todo = Tail(f.todo),
                 g.iter # "mutated", Len(f.todo) > 2 => g.iter = f.iter,
                 buffers' = IF Len(f.todo) = 2 THEN Evict(buffers, {f.id}) ELSE buffers
          PROVE  OneTaken' /\ [Fallible!FallibleNext]_(Fallible!fallibleVars)
      <3>1. CASE Len(f.todo) = 2
        BY <2>2, <2>3, <2>4, <3>1, TakesTrail DEF OneTaken, Fallible!FallibleNext
      <3>2. CASE Len(f.todo) # 2
        <4>1. Len(f.todo) > 2
          <5> DEFINE n == Len(f.todo)
          <5>1. n \in Nat /\ n > 1 /\ n # 2
            BY <2>4, <3>2, LenProperties DEF Frame
          <5> HIDE DEF n
          <5>2. n > 2
            BY <5>1
          <5> QED BY <5>2 DEF n
        <4>2. Taking(g)' /\ UNCHANGED <<logged, AllHeld, WholeOut, Pending>>
          BY <2>2, <2>3, <2>4, <3>2, <4>1, TakesOneOfTrail
        <4> QED BY <4>2 DEF OneTaken, Fallible!fallibleVars, Fallible!absVars,
                            AllHeld, WholeOut, Pending
      <3> QED BY <3>1, <3>2
    <2>5. CASE Len(f.todo) = 1 /\ stack' = <<>> /\ buffers' = buffers
      BY <2>2, <2>3, <2>5, TakesWarning DEF OneTaken, Fallible!FallibleNext
    <2> QED BY <2>3, <2>4, <2>5
  <1>5. CASE TargetRaises
    <2>1. PICK f \in Frame : Taking(f)
      BY <1>5 DEF OneTaken, TargetRaises
    <2> QED BY <1>5, <2>1, Raises DEF OneTaken
  <1>6. CASE Tick \/ ClockStepsBack \/ BoundsReached \/ UNCHANGED vars
    <2>1. UNCHANGED <<buffers, stack, delivered, logged>>
      BY <1>6 DEF Tick, ClockStepsBack, BoundsReached, vars
    <2>2. OneTaken'
      BY <2>1 DEF OneTaken, Taking, Alone, Exceeded, PassedBy
    <2>3. UNCHANGED <<logged, AllHeld, WholeOut, Pending>>
      BY <2>1 DEF AllHeld, TrailOf, WholeOut, Pending, Top, PassedBy
    <2> QED BY <2>2, <2>3 DEF Fallible!fallibleVars, Fallible!absVars, AllHeld, WholeOut, Pending
  <1> QED BY <1>1, <1>2, <1>3, <1>4, <1>5, <1>6 DEF Next

\* While the target does not log, and wherever it raises, the handler is the store of
\* FallibleStore: a trail whose flush fails is still held whole, what the target had
\* accepted of it comes again with the next warning, and the warning alone is lost.
THEOREM HandlerIsAFallibleStore ==
  ASSUME MaxNesting = 0
  PROVE  Spec => ImplementsFallibleStore
  <1>1. Init => OneTaken /\ Fallible!FallibleInit
    <2> SUFFICES ASSUME Init PROVE OneTaken /\ Fallible!FallibleInit
      OBVIOUS
    <2>1. OneTaken
      BY DEF Init, OneTaken
    <2>2. Fallible!FallibleInit
      BY DEF Init, Fallible!FallibleInit, Fallible!Init, Fallible!NoTrail, TrailOf
    <2> QED BY <2>1, <2>2
  <1>2. IInv /\ OwnTrailOnly /\ LoopsInPlace /\ OneTaken /\ [Next]_vars =>
          OneTaken' /\ [Fallible!FallibleNext]_(Fallible!fallibleVars)
    BY FallibleStep
  <1> QED BY <1>1, <1>2, Invariance, FlowsIsolated, InPlace, PTL
          DEF Spec, ImplementsFallibleStore, Fallible!FallibleSpec

-----------------------------------------------------------------------------
(* The order in which records reach the target                             *)

\* Sequence s has no record before an older one of t of its flow, unless it has that
\* one still earlier.
OldestFirst(s, t) ==
  \A i \in 1..Len(s), j \in 1..Len(t) :
    s[i].flow = t[j].flow /\ t[j].n < s[i].n =>
      \E k \in 1..Len(s) : k < i /\ s[k] = t[j]

\* A trail: the records of one flow, each logged after the one before.
TrailOfFlow(t, c) ==
  /\ \A i \in 1..Len(t) : t[i].flow = c
  /\ \A i, j \in 1..Len(t) : i < j => t[i].n < t[j].n

LoggedBy(s, number) == \A i \in 1..Len(s) : s[i].n <= number

\* Records are numbered.
LEMMA NumbersOf ==
  ASSUME NEW s \in Seq(Record)
  PROVE  \A i \in 1..Len(s) : s[i].n \in Nat
  <1>1. \A i \in 1..Len(s) : s[i] \in Record
    BY ElementOfSeq
  <1>2. \A r \in Record : r.n \in Nat
    BY DEF Record
  <1> QED BY <1>1, <1>2

\* Two sequences in which the records of t come in order, one after the other.
LEMMA OldestFirstConcat ==
  ASSUME NEW s \in Seq(Record), NEW u \in Seq(Record), NEW t \in Seq(Record),
         OldestFirst(s, t), OldestFirst(u, t)
  PROVE  OldestFirst(s \o u, t)
  <1> DEFINE l == Len(s)
             m == Len(u)
             v == s \o u
  <1>1. /\ l \in Nat /\ m \in Nat /\ Len(v) = l + m
        /\ \A i \in 1..(l + m) : v[i] = IF i <= l THEN s[i] ELSE u[i - l]
    BY ConcatProperties, LenProperties
  <1> SUFFICES ASSUME NEW i \in 1..Len(v), NEW j \in 1..Len(t),
                      v[i].flow = t[j].flow, t[j].n < v[i].n
               PROVE  \E k \in 1..Len(v) : k < i /\ v[k] = t[j]
    BY DEF OldestFirst
  <1>2. l = Len(s) /\ m = Len(u)
    OBVIOUS
  <1> HIDE DEF l, m, v
  <1>3. CASE i <= l
    <2>1. i \in 1..l /\ v[i] = s[i]
      BY <1>1, <1>3
    <2>2. PICK k \in 1..l : k < i /\ s[k] = t[j]
      BY <1>2, <2>1 DEF OldestFirst
    <2>3. k \in 1..Len(v) /\ v[k] = s[k]
      BY <1>1
    <2> QED BY <2>2, <2>3
  <1>4. CASE ~(i <= l)
    <2>1. i - l \in 1..m /\ v[i] = u[i - l]
      BY <1>1, <1>4
    <2>2. PICK k \in 1..m : k < i - l /\ u[k] = t[j]
      BY <1>2, <2>1 DEF OldestFirst
    <2>3. l + k \in 1..Len(v) /\ v[l + k] = u[k] /\ l + k < i
      <3>1. l + k \in 1..(l + m) /\ ~(l + k <= l) /\ (l + k) - l = k
        BY <1>1
      <3>2. l + k < i
        BY <1>1, <2>2
      <3> QED BY <1>1, <3>1, <3>2
    <2> QED BY <2>2, <2>3
  <1> QED BY <1>3, <1>4

\* What is in order stays so when something in order, and older by nothing, follows.
LEMMA InOrderConcat ==
  ASSUME NEW s \in Seq(Record), NEW u \in Seq(Record),
         OldestFirst(s, s), OldestFirst(s, u), OldestFirst(u, u)
  PROVE  OldestFirst(s \o u, s \o u)
  <1> DEFINE l == Len(s)
             m == Len(u)
             v == s \o u
  <1>1. /\ l \in Nat /\ m \in Nat /\ Len(v) = l + m
        /\ \A i \in 1..(l + m) : v[i] = IF i <= l THEN s[i] ELSE u[i - l]
    BY ConcatProperties, LenProperties
  <1>2. OldestFirst(v, u)
    BY OldestFirstConcat
  <1> SUFFICES ASSUME NEW i \in 1..Len(v), NEW j \in 1..Len(v),
                      v[i].flow = v[j].flow, v[j].n < v[i].n
               PROVE  \E k \in 1..Len(v) : k < i /\ v[k] = v[j]
    BY DEF OldestFirst
  <1>3. l = Len(s) /\ m = Len(u)
    OBVIOUS
  <1> HIDE DEF l, m, v
  <1>4. CASE ~(j <= l)
    <2>1. j - l \in 1..m /\ v[j] = u[j - l]
      BY <1>1, <1>4
    <2> QED BY <1>2, <1>3, <2>1 DEF OldestFirst
  <1>5. CASE j <= l /\ i <= l
    <2>1. i \in 1..l /\ j \in 1..l /\ v[i] = s[i] /\ v[j] = s[j]
      BY <1>1, <1>5
    <2>2. PICK k \in 1..l : k < i /\ s[k] = s[j]
      BY <1>3, <2>1 DEF OldestFirst
    <2>3. k \in 1..Len(v) /\ v[k] = s[k]
      BY <1>1
    <2> QED BY <2>1, <2>2, <2>3
  <1>6. CASE j <= l /\ ~(i <= l)
    <2>1. j < i
      BY <1>1, <1>6
    <2> QED BY <2>1
  <1> QED BY <1>4, <1>5, <1>6

\* The first part of a trail, before the whole of it and in itself.
LEMMA TrailInOrder ==
  ASSUME NEW t \in Seq(Record), NEW c, TrailOfFlow(t, c), NEW k \in 0..Len(t)
  PROVE  /\ SubSeq(t, 1, k) \in Seq(Record)
         /\ OldestFirst(SubSeq(t, 1, k), t)
         /\ OldestFirst(SubSeq(t, 1, k), SubSeq(t, 1, k))
         /\ \A s \in Seq(Record) : OldestFirst(s, t) => OldestFirst(s, SubSeq(t, 1, k))
  <1> DEFINE u == SubSeq(t, 1, k)
             m == Len(t)
  <1>1. u \in Seq(Record) /\ Len(u) = k /\ \A i \in 1..k : u[i] = t[i]
    BY Prefix
  <1>2. m \in Nat /\ m = Len(t) /\ k \in Nat /\ \A i \in 1..k : i \in 1..m
    BY LenProperties
  <1> HIDE DEF u, m
  <1>3. \A i \in 1..m : t[i].n \in Nat
    BY <1>2, NumbersOf
  <1>4. OldestFirst(u, t)
    <2> SUFFICES ASSUME NEW i \in 1..k, NEW j \in 1..m, t[j].n < t[i].n
                 PROVE  j \in 1..k /\ j < i
      BY <1>1, <1>2 DEF OldestFirst
    <2>1. ~(i < j) /\ i # j
      BY <1>2, <1>3 DEF TrailOfFlow
    <2> QED BY <1>2, <2>1
  <1>5. \A s \in Seq(Record) : OldestFirst(s, t) => OldestFirst(s, u)
    BY <1>1, <1>2 DEF OldestFirst
  <1>6. OldestFirst(u, u)
    BY <1>1, <1>4, <1>5
  <1> QED BY <1>1, <1>4, <1>5, <1>6 DEF u

\* A trail grows by a record that is newer than all, or loses its oldest.
LEMMA TrailGrows ==
  ASSUME NEW t \in Seq(Record), NEW c \in Flows, NEW number \in Nat,
         TrailOfFlow(t, c), LoggedBy(t, number),
         NEW r \in Record, r.flow = c, r.n = number + 1
  PROVE  LET longer == Append(t, r)
             newest == Fallible!Newest(longer)
         IN  /\ newest \in Seq(Record)
             /\ TrailOfFlow(newest, c) /\ LoggedBy(newest, number + 1)
             /\ \A s \in Seq(Record) :
                  OldestFirst(s, t) /\ LoggedBy(s, number) => OldestFirst(s, newest)
  <1> DEFINE m      == Len(t)
             longer == Append(t, r)
             newest == Fallible!Newest(longer)
  <1>1. /\ longer \in Seq(Record) /\ Len(longer) = m + 1 /\ m \in Nat /\ longer # <<>>
        /\ \A i \in 1..m : longer[i] = t[i]
        /\ longer[m + 1] = r
    BY AppendProperties, LenProperties
  <1>2. m = Len(t)
    OBVIOUS
  <1> HIDE DEF m, longer
  <1>3. \A i \in 1..m : t[i].n \in Nat /\ t[i].n <= number /\ t[i].flow = c
    BY <1>2, NumbersOf DEF TrailOfFlow, LoggedBy
  <1>4. TrailOfFlow(longer, c)
    <2>1. ASSUME NEW i \in 1..(m + 1) PROVE longer[i].flow = c
      BY <1>1, <1>3
    <2>2. ASSUME NEW i \in 1..(m + 1), NEW j \in 1..(m + 1), i < j
          PROVE  longer[i].n < longer[j].n
      <3>1. i \in 1..m
        BY <1>1, <2>2
      <3>2. CASE j \in 1..m
        BY <1>1, <1>2, <2>2, <3>1, <3>2 DEF TrailOfFlow
      <3>3. CASE j = m + 1
        <4>1. t[i].n < number + 1
          BY <1>3, <3>1
        <4> QED BY <1>1, <3>1, <3>3, <4>1
      <3> QED BY <1>1, <3>2, <3>3
    <2> QED BY <1>1, <2>1, <2>2 DEF TrailOfFlow
  <1>5. LoggedBy(longer, number + 1)
    <2>1. ASSUME NEW i \in 1..(m + 1) PROVE longer[i].n <= number + 1
      <3>1. CASE i \in 1..m
        BY <1>1, <1>3, <3>1
      <3>2. CASE i = m + 1
        BY <1>1, <3>2
      <3> QED BY <1>1, <3>1, <3>2
    <2> QED BY <1>1, <2>1 DEF LoggedBy
  <1>6. ASSUME NEW s \in Seq(Record), OldestFirst(s, t), LoggedBy(s, number)
        PROVE  OldestFirst(s, longer)
    <2>1. \A i \in 1..Len(s) : s[i].n \in Nat /\ s[i].n <= number
      BY <1>6, NumbersOf DEF LoggedBy
    <2> SUFFICES ASSUME NEW i \in 1..Len(s), NEW j \in 1..(m + 1),
                        s[i].flow = longer[j].flow, longer[j].n < s[i].n
                 PROVE  \E k \in 1..Len(s) : k < i /\ s[k] = longer[j]
      BY <1>1 DEF OldestFirst
    <2>2. j # m + 1
      <3>1. ~(number + 1 < s[i].n)
        BY <2>1
      <3> QED BY <1>1, <3>1
    <2>3. j \in 1..m
      BY <1>1, <2>2
    <2> QED BY <1>1, <1>2, <1>6, <2>3 DEF OldestFirst
  <1>7. CASE newest = longer
    BY <1>1, <1>4, <1>5, <1>6, <1>7 DEF longer
  <1>8. CASE newest = Tail(longer)
    <2> DEFINE u == Tail(longer)
    <2>1. u \in Seq(Record) /\ Len(u) = m /\ \A i \in 1..m : u[i] = longer[i + 1]
      <3>1. /\ u \in Seq(Record) /\ Len(u) = Len(longer) - 1
            /\ \A i \in 1..Len(u) : u[i] = longer[i + 1]
        BY <1>1, HeadTailProperties
      <3>2. Len(longer) - 1 = m
        BY <1>1
      <3> QED BY <3>1, <3>2
    <2>2. \A i \in 1..m : i + 1 \in 1..(m + 1)
      BY <1>1
    <2> HIDE DEF u
    <2>3. \A i, j \in 1..m : i < j => i + 1 < j + 1
      BY <1>1
    <2>4. TrailOfFlow(u, c) /\ LoggedBy(u, number + 1)
      BY <1>1, <1>4, <1>5, <2>1, <2>2, <2>3 DEF TrailOfFlow, LoggedBy
    <2>5. ASSUME NEW s \in Seq(Record), OldestFirst(s, t), LoggedBy(s, number)
          PROVE  OldestFirst(s, u)
      <3>1. OldestFirst(s, longer)
        BY <1>6, <2>5
      <3>2. \A j \in 1..m : u[j] = longer[j + 1] /\ j + 1 \in 1..Len(longer)
        BY <1>1, <2>1, <2>2
      <3> SUFFICES ASSUME NEW i \in 1..Len(s), NEW j \in 1..m,
                          s[i].flow = u[j].flow, u[j].n < s[i].n
                   PROVE  \E k \in 1..Len(s) : k < i /\ s[k] = u[j]
        BY <2>1 DEF OldestFirst
      <3>3. u[j] = longer[j + 1] /\ j + 1 \in 1..Len(longer)
        BY <3>2
      <3> QED BY <3>1, <3>3 DEF OldestFirst
    <2> QED BY <1>8, <2>1, <2>4, <2>5 DEF u, longer
  <1>9. newest = longer \/ newest = Tail(longer)
    BY DEF Fallible!Newest
  <1> QED BY <1>7, <1>8, <1>9 DEF longer

\* The invariant of the order: what is out is in order, each trail is, and what is out
\* has nothing of a flow before a record still held of it that it did not have earlier.
\* The warning of a flush under way is newer than all of its flow.
OutInOrder(out, number) ==
  out \in Seq(Record) /\ LoggedBy(out, number) /\ OldestFirst(out, out)

HeldInOrder(t, c, out, number) ==
  t \in Seq(Record) /\ TrailOfFlow(t, c) /\ LoggedBy(t, number) /\ OldestFirst(out, t)

NewerThan(w, s) == \A i \in 1..Len(s) : s[i].flow = w.flow => s[i].n < w.n

OrderKept ==
  /\ OutInOrder(WholeOut, logged)
  /\ \A c \in Flows : HeldInOrder(AllHeld[c], c, WholeOut, logged)
  /\ Pending = <<>> \/ \E w \in Record : /\ Pending = <<w>> /\ w.n <= logged
                                         /\ NewerThan(w, WholeOut)
                                         /\ NewerThan(w, AllHeld[w.flow])

\* No trail is in order, and keeps everything so.
LEMMA NothingInOrder ==
  ASSUME NEW c, NEW number, NEW out \in Seq(Record)
  PROVE  /\ HeldInOrder(<<>>, c, out, number) /\ OldestFirst(<<>>, out)
         /\ \A w : NewerThan(w, <<>>)
  <1>1. <<>> \in Seq(Record) /\ \A i \in 1..Len(<<>>) : FALSE
    BY EmptySeq
  <1> QED BY <1>1 DEF HeldInOrder, TrailOfFlow, LoggedBy, OldestFirst, NewerThan

\* What was logged by a time was logged by a later one.
LEMMA LoggedLater ==
  ASSUME NEW s \in Seq(Record), NEW number \in Nat, LoggedBy(s, number)
  PROVE  LoggedBy(s, number + 1)
  <1>1. \A i \in 1..Len(s) : s[i].n \in Nat /\ s[i].n <= number
    BY NumbersOf DEF LoggedBy
  <1>2. \A x \in Nat : x <= number => x <= number + 1
    OBVIOUS
  <1> QED BY <1>1, <1>2 DEF LoggedBy

\* Handing over the first part of a trail keeps the order, of all trails.
LEMMA HandsInOrder ==
  ASSUME NEW number \in Nat, NEW out, OutInOrder(out, number),
         NEW c \in Flows, NEW t, HeldInOrder(t, c, out, number), NEW k \in 0..Len(t)
  PROVE  LET more == out \o SubSeq(t, 1, k)
         IN  /\ OutInOrder(more, number)
             /\ HeldInOrder(t, c, more, number)
             /\ \A d \in Flows \ {c} : \A u :
                  HeldInOrder(u, d, out, number) => HeldInOrder(u, d, more, number)
  <1> DEFINE a    == SubSeq(t, 1, k)
             more == out \o a
             l    == Len(out)
  <1>1. /\ out \in Seq(Record) /\ LoggedBy(out, number) /\ OldestFirst(out, out)
        /\ t \in Seq(Record) /\ TrailOfFlow(t, c) /\ LoggedBy(t, number) /\ OldestFirst(out, t)
    BY DEF OutInOrder, HeldInOrder
  <1>2. /\ a \in Seq(Record) /\ OldestFirst(a, t) /\ OldestFirst(a, a) /\ OldestFirst(out, a)
        /\ Len(a) = k /\ \A i \in 1..k : a[i] = t[i]
    BY <1>1, TrailInOrder, Prefix
  <1>3. k \in Nat /\ \A i \in 1..k : i \in 1..Len(t)
    BY <1>1, LenProperties
  <1> HIDE DEF a
  <1>4. /\ more \in Seq(Record) /\ l \in Nat /\ Len(more) = l + k
        /\ \A i \in 1..(l + k) : more[i] = IF i <= l THEN out[i] ELSE a[i - l]
    BY <1>1, <1>2, ConcatProperties, LenProperties
  <1>5. l = Len(out)
    OBVIOUS
  <1> HIDE DEF l
  <1>6. LoggedBy(more, number)
    <2>1. ASSUME NEW i \in 1..(l + k) PROVE more[i].n <= number
      <3>1. CASE i <= l
        <4>1. i \in 1..l
          BY <1>4, <3>1
        <4> QED BY <1>1, <1>4, <1>5, <3>1, <4>1 DEF LoggedBy
      <3>2. CASE ~(i <= l)
        <4>1. i - l \in 1..k
          BY <1>3, <1>4, <3>2
        <4> QED BY <1>1, <1>2, <1>3, <1>4, <3>2, <4>1 DEF LoggedBy
      <3> QED BY <3>1, <3>2
    <2> QED BY <1>4, <2>1 DEF LoggedBy
  <1>7. OldestFirst(more, more)
    BY <1>1, <1>2, InOrderConcat
  <1>8. OldestFirst(more, t)
    BY <1>1, <1>2, OldestFirstConcat
  <1>9. ASSUME NEW d \in Flows \ {c}, NEW u, HeldInOrder(u, d, out, number)
        PROVE  HeldInOrder(u, d, more, number)
    <2>1. /\ u \in Seq(Record) /\ TrailOfFlow(u, d) /\ LoggedBy(u, number) /\ OldestFirst(out, u)
      BY <1>9 DEF HeldInOrder
    <2>2. OldestFirst(a, u)
      BY <1>1, <1>2, <1>3, <2>1 DEF OldestFirst, TrailOfFlow
    <2>3. OldestFirst(more, u)
      BY <1>1, <1>2, <2>1, <2>2, OldestFirstConcat
    <2> QED BY <2>1, <2>3 DEF HeldInOrder
  <1> QED BY <1>1, <1>4, <1>6, <1>7, <1>8, <1>9 DEF OutInOrder, HeldInOrder, a

\* A warning that is newer than all of its flow, and whose trail is gone, may follow.
LEMMA WarningInOrder ==
  ASSUME NEW number \in Nat, NEW out, OutInOrder(out, number),
         NEW w \in Record, w.n <= number, NewerThan(w, out)
  PROVE  LET more == out \o <<w>>
         IN  /\ OutInOrder(more, number)
             /\ \A d \in Flows : \A u :
                  HeldInOrder(u, d, out, number) /\ (d = w.flow => u = <<>>) =>
                    HeldInOrder(u, d, more, number)
  <1> DEFINE a    == <<w>>
             more == out \o a
             l    == Len(out)
  <1>1. out \in Seq(Record) /\ LoggedBy(out, number) /\ OldestFirst(out, out)
    BY DEF OutInOrder
  <1>2. a \in Seq(Record) /\ Len(a) = 1 /\ a[1] = w /\ w.n \in Nat
    BY DEF Record
  <1> HIDE DEF a
  <1>3. /\ more \in Seq(Record) /\ l \in Nat /\ Len(more) = l + 1
        /\ \A i \in 1..(l + 1) : more[i] = IF i <= l THEN out[i] ELSE a[i - l]
    <2>1. /\ more \in Seq(Record) /\ l \in Nat /\ Len(more) = l + Len(a)
          /\ \A i \in 1..(l + Len(a)) : more[i] = IF i <= l THEN out[i] ELSE a[i - l]
      BY <1>1, <1>2, ConcatProperties, LenProperties
    <2> HIDE DEF more, l
    <2> QED BY <1>2, <2>1
  <1>4. l = Len(out) /\ \A i \in 1..l : out[i].n \in Nat
    BY <1>1, NumbersOf
  <1> HIDE DEF l
  <1>5. LoggedBy(more, number)
    <2>1. ASSUME NEW i \in 1..(l + 1) PROVE more[i].n <= number
      <3>1. CASE i <= l
        <4>1. i \in 1..l
          BY <1>3, <3>1
        <4> QED BY <1>1, <1>3, <1>4, <3>1, <4>1 DEF LoggedBy
      <3>2. CASE ~(i <= l)
        <4>1. i - l = 1
          BY <1>3, <3>2
        <4> QED BY <1>2, <1>3, <3>2, <4>1
      <3> QED BY <3>1, <3>2
    <2> QED BY <1>3, <2>1 DEF LoggedBy
  <1>6. OldestFirst(a, a)
    <2>1. \A i \in 1..1 : i = 1
      OBVIOUS
    <2>2. ~(w.n < w.n)
      BY <1>2
    <2> QED BY <1>2, <2>1, <2>2 DEF OldestFirst
  <1>7. OldestFirst(out, a)
    <2>1. \A i \in 1..l : out[i].flow = w.flow => ~(w.n < out[i].n)
      BY <1>2, <1>4 DEF NewerThan
    <2>2. \A j \in 1..1 : a[j] = w
      BY <1>2
    <2> QED BY <1>2, <1>4, <2>1, <2>2 DEF OldestFirst
  <1>8. OldestFirst(more, more)
    BY <1>1, <1>2, <1>6, <1>7, InOrderConcat
  <1>9. ASSUME NEW d \in Flows, NEW u, HeldInOrder(u, d, out, number), d = w.flow => u = <<>>
        PROVE  HeldInOrder(u, d, more, number)
    <2>1. /\ u \in Seq(Record) /\ TrailOfFlow(u, d) /\ LoggedBy(u, number) /\ OldestFirst(out, u)
      BY <1>9 DEF HeldInOrder
    <2>2. CASE d = w.flow
      BY <1>3, <1>9, <2>2, NothingInOrder
    <2>3. CASE d # w.flow
      <3>1. \A i \in 1..1 : a[i].flow = w.flow
        BY <1>2
      <3>2. OldestFirst(a, u)
        BY <1>2, <2>1, <2>3, <3>1 DEF OldestFirst, TrailOfFlow
      <3>3. OldestFirst(more, u)
        BY <1>1, <1>2, <2>1, <3>2, OldestFirstConcat
      <3> QED BY <2>1, <3>3 DEF HeldInOrder
    <2> QED BY <2>2, <2>3
  <1> QED BY <1>3, <1>5, <1>8, <1>9 DEF OutInOrder, a

\* No step of FallibleStore disturbs the order.
LEMMA OrderHolds ==
  ASSUME OrderKept, logged \in Nat, NEW c \in Flows, NEW D \in SUBSET Flows,
         Fallible!HoldBetween(c, D)
  PROVE  OrderKept'
  <1> DEFINE r == Fallible!NewRecord(c)
             W == Fallible!Without(D)
  <1>1. /\ Pending = <<>> /\ Pending' = <<>> /\ logged' = logged + 1 /\ WholeOut' = WholeOut
        /\ AllHeld' = [W EXCEPT ![c] = Fallible!Newest(Append(@, r))]
    BY DEF Fallible!HoldBetween, Fallible!Hold, AllHeld, WholeOut, Pending
  <1>2. r \in Record /\ r.flow = c /\ r.n = logged + 1
    BY DEF Fallible!NewRecord, Record
  <1>3. W = [d \in Flows |-> IF d \in D THEN <<>> ELSE AllHeld[d]]
    BY DEF Fallible!Without, Fallible!NoTrail, AllHeld
  <1>4. /\ WholeOut \in Seq(Record) /\ LoggedBy(WholeOut, logged) /\ OldestFirst(WholeOut, WholeOut)
        /\ \A d \in Flows : HeldInOrder(W[d], d, WholeOut, logged)
    BY <1>3, NothingInOrder DEF OrderKept, OutInOrder
  <1> HIDE DEF r, W
  <1>5. OutInOrder(WholeOut', logged')
    BY <1>1, <1>4, LoggedLater DEF OutInOrder
  <1>6. ASSUME NEW d \in Flows PROVE HeldInOrder(AllHeld'[d], d, WholeOut', logged')
    <2>1. /\ W[d] \in Seq(Record) /\ TrailOfFlow(W[d], d) /\ LoggedBy(W[d], logged)
          /\ OldestFirst(WholeOut, W[d])
      BY <1>4 DEF HeldInOrder
    <2>2. CASE d = c
      <3>1. AllHeld'[d] = Fallible!Newest(Append(W[d], r))
        BY <1>1, <1>3, <2>2
      <3> DEFINE t == W[d]
      <3> HIDE DEF t
      <3>2. LET newest == Fallible!Newest(Append(t, r))
            IN  /\ newest \in Seq(Record)
                /\ TrailOfFlow(newest, d) /\ LoggedBy(newest, logged + 1)
                /\ OldestFirst(WholeOut, newest)
        BY <1>2, <1>4, <2>1, <2>2, TrailGrows DEF t
      <3> QED BY <1>1, <3>1, <3>2 DEF HeldInOrder, t
    <2>3. CASE d # c
      <3>1. AllHeld'[d] = W[d]
        BY <1>1, <1>3, <2>3
      <3>2. LoggedBy(W[d], logged + 1)
        BY <2>1, LoggedLater
      <3> QED BY <1>1, <2>1, <3>1, <3>2 DEF HeldInOrder
    <2> QED BY <2>2, <2>3
  <1> QED BY <1>1, <1>5, <1>6 DEF OrderKept

LEMMA OrderDiscards ==
  ASSUME OrderKept, NEW D \in SUBSET Flows, Fallible!DiscardBetween(D)
  PROVE  OrderKept'
  <1>1. /\ Pending = <<>> /\ Pending' = <<>> /\ logged' = logged /\ WholeOut' = WholeOut
        /\ AllHeld' = Fallible!Without(D)
    BY DEF Fallible!DiscardBetween, Fallible!Discard, AllHeld, WholeOut, Pending
  <1>2. Fallible!Without(D) = [d \in Flows |-> IF d \in D THEN <<>> ELSE AllHeld[d]]
    BY DEF Fallible!Without, Fallible!NoTrail, AllHeld
  <1>3. WholeOut \in Seq(Record)
    BY DEF OrderKept, OutInOrder
  <1> QED BY <1>1, <1>2, <1>3, NothingInOrder DEF OrderKept

LEMMA OrderArrives ==
  ASSUME OrderKept, logged \in Nat, NEW c \in Flows, NEW D \in SUBSET Flows,
         Fallible!Arrive(c, D)
  PROVE  OrderKept'
  <1> DEFINE w == Fallible!NewRecord(c)
  <1>1. /\ Pending' = <<w>> /\ logged' = logged + 1 /\ WholeOut' = WholeOut
        /\ AllHeld' = Fallible!Without(D)
    BY DEF Fallible!Arrive, AllHeld, WholeOut, Pending
  <1>2. w \in Record /\ w.flow = c /\ w.n = logged + 1
    BY DEF Fallible!NewRecord, Record
  <1>3. Fallible!Without(D) = [d \in Flows |-> IF d \in D THEN <<>> ELSE AllHeld[d]]
    BY DEF Fallible!Without, Fallible!NoTrail, AllHeld
  <1>4. /\ WholeOut \in Seq(Record) /\ LoggedBy(WholeOut, logged) /\ OldestFirst(WholeOut, WholeOut)
        /\ \A d \in Flows : HeldInOrder(AllHeld'[d], d, WholeOut, logged)
    BY <1>1, <1>3, NothingInOrder DEF OrderKept, OutInOrder
  <1> HIDE DEF w
  <1>5. OutInOrder(WholeOut', logged')
    BY <1>1, <1>4, LoggedLater DEF OutInOrder
  <1>6. ASSUME NEW d \in Flows PROVE HeldInOrder(AllHeld'[d], d, WholeOut', logged')
    BY <1>1, <1>4, LoggedLater DEF HeldInOrder
  <1>7. ASSUME NEW s \in Seq(Record), LoggedBy(s, logged) PROVE NewerThan(w, s)
    <2>1. \A i \in 1..Len(s) : s[i].n \in Nat /\ s[i].n <= logged
      BY <1>7, NumbersOf DEF LoggedBy
    <2>2. \A x \in Nat : x <= logged => x < logged + 1
      OBVIOUS
    <2> QED BY <1>2, <2>1, <2>2 DEF NewerThan
  <1>8. NewerThan(w, WholeOut') /\ NewerThan(w, AllHeld'[w.flow])
    BY <1>1, <1>2, <1>4, <1>7 DEF HeldInOrder
  <1>9. w.n <= logged'
    BY <1>1, <1>2
  <1> QED BY <1>1, <1>2, <1>5, <1>6, <1>8, <1>9 DEF OrderKept

LEMMA OrderHandsOver ==
  ASSUME OrderKept, logged \in Nat,
         Fallible!HandTrail \/ Fallible!HandWarning \/ \E k \in 0..Capacity : Fallible!Fail(k)
  PROVE  OrderKept'
  <1>1. Pending # <<>> /\ logged' = logged
    BY DEF Fallible!HandTrail, Fallible!HandWarning, Fallible!Fail, Pending
  <1>2. PICK w \in Record : /\ Pending = <<w>> /\ w.n <= logged
                           /\ NewerThan(w, WholeOut) /\ NewerThan(w, AllHeld[w.flow])
    BY <1>1 DEF OrderKept
  <1> DEFINE c == w.flow
             t == AllHeld[c]
  <1>3. c \in Flows /\ Fallible!Due = c
    <2>1. Pending[1] = w
      BY <1>2
    <2> QED BY <2>1 DEF Fallible!Due, Pending, Record
  <1>4. /\ OutInOrder(WholeOut, logged) /\ WholeOut \in Seq(Record)
        /\ \A d \in Flows : HeldInOrder(AllHeld[d], d, WholeOut, logged)
        /\ t \in Seq(Record) /\ Len(t) \in Nat
    BY <1>3, LenProperties DEF OrderKept, OutInOrder, HeldInOrder
  <1>5. CASE Fallible!HandTrail
    <2>1. /\ WholeOut' = WholeOut \o t /\ Pending' = Pending
          /\ AllHeld' = Fallible!Without({c})
      BY <1>3, <1>5 DEF Fallible!HandTrail, AllHeld, WholeOut, Pending
    <2>2. Fallible!Without({c}) = [d \in Flows |-> IF d = c THEN <<>> ELSE AllHeld[d]]
      BY DEF Fallible!Without, Fallible!NoTrail, AllHeld
    <2> HIDE DEF t
    <2>3. Len(t) \in 0..Len(t) /\ SubSeq(t, 1, Len(t)) = t
      <3>1. Len(t) \in 0..Len(t)
        BY <1>4
      <3> QED BY <1>4, <3>1, Prefix
    <2>4. /\ OutInOrder(WholeOut \o t, logged)
          /\ \A d \in Flows \ {c} : HeldInOrder(AllHeld[d], d, WholeOut \o t, logged)
      BY <1>3, <1>4, <2>3, HandsInOrder DEF t
    <2>5. HeldInOrder(<<>>, c, WholeOut \o t, logged)
      BY <2>4, NothingInOrder DEF OutInOrder
    <2>6. NewerThan(w, WholeOut')
      <3> DEFINE l == Len(WholeOut)
                 m == Len(t)
                 v == WholeOut \o t
      <3>1. /\ l \in Nat /\ m \in Nat /\ Len(v) = l + m
            /\ \A i \in 1..(l + m) : v[i] = IF i <= l THEN WholeOut[i] ELSE t[i - l]
        BY <1>4, ConcatProperties, LenProperties
      <3>2. /\ \A i \in 1..l : WholeOut[i].flow = w.flow => WholeOut[i].n < w.n
            /\ \A i \in 1..m : t[i].flow = w.flow => t[i].n < w.n
        BY <1>2 DEF NewerThan, t
      <3> HIDE DEF l, m, v
      <3>3. ASSUME NEW i \in 1..(l + m), v[i].flow = w.flow PROVE v[i].n < w.n
        <4>1. CASE i <= l
          <5>1. i \in 1..l
            BY <3>1, <4>1
          <5> QED BY <3>1, <3>2, <3>3, <4>1, <5>1
        <4>2. CASE ~(i <= l)
          <5>1. i - l \in 1..m
            BY <3>1, <4>2
          <5> QED BY <3>1, <3>2, <3>3, <4>2, <5>1
        <4> QED BY <4>1, <4>2
      <3> QED BY <2>1, <3>1, <3>3 DEF NewerThan, v
    <2>7. NewerThan(w, AllHeld'[c])
      BY <1>3, <2>1, <2>2, <1>4, NothingInOrder
    <2>8. \A d \in Flows : HeldInOrder(AllHeld'[d], d, WholeOut', logged')
      BY <1>1, <2>1, <2>2, <2>4, <2>5
    <2> QED BY <1>1, <1>2, <2>1, <2>4, <2>6, <2>7, <2>8 DEF OrderKept
  <1>6. CASE Fallible!HandWarning
    <2>1. /\ WholeOut' = WholeOut \o <<w>> /\ Pending' = <<>> /\ AllHeld' = AllHeld /\ t = <<>>
      BY <1>2, <1>3, <1>6
         DEF Fallible!HandWarning, Fallible!NoTrail, AllHeld, WholeOut, Pending
    <2>2. /\ OutInOrder(WholeOut', logged)
          /\ \A d \in Flows : HeldInOrder(AllHeld[d], d, WholeOut', logged)
      BY <1>2, <1>4, <2>1, WarningInOrder
    <2> QED BY <1>1, <2>1, <2>2 DEF OrderKept
  <1>7. CASE \E k \in 0..Capacity : Fallible!Fail(k)
    <2>1. PICK k \in 0..Capacity : Fallible!Fail(k)
      BY <1>7
    <2>2. /\ WholeOut' = WholeOut \o SubSeq(t, 1, k) /\ Pending' = <<>> /\ AllHeld' = AllHeld
          /\ k = 0 \/ k < Len(t)
      BY <1>3, <2>1 DEF Fallible!Fail, AllHeld, WholeOut, Pending
    <2> HIDE DEF t
    <2>3. k \in 0..Len(t)
      BY <1>4, <2>2
    <2>4. /\ OutInOrder(WholeOut', logged)
          /\ \A d \in Flows : HeldInOrder(AllHeld[d], d, WholeOut', logged)
      <3>1. /\ HeldInOrder(t, c, WholeOut', logged) /\ OutInOrder(WholeOut', logged)
            /\ \A d \in Flows \ {c} : HeldInOrder(AllHeld[d], d, WholeOut', logged)
        BY <1>3, <1>4, <2>2, <2>3, HandsInOrder DEF t
      <3> QED BY <1>3, <3>1 DEF t
    <2> QED BY <1>1, <2>2, <2>4 DEF OrderKept
  <1> QED BY <1>5, <1>6, <1>7

\* As long as the target does not log, the records of one correlation reach it in the
\* order in which they were logged: one that comes after a newer one of its flow is a
\* repetition, after a flush that the target made fail.
THEOREM RecordsInOrder ==
  ASSUME MaxNesting = 0
  PROVE  Spec => []OldestFirst(delivered, delivered)
  <1>1. Init => OneTaken /\ OrderKept
    <2> SUFFICES ASSUME Init PROVE OneTaken /\ OrderKept
      OBVIOUS
    <2>1. /\ WholeOut = <<>> /\ Pending = <<>> /\ \A c \in Flows : AllHeld[c] = <<>>
      BY DEF Init, WholeOut, Pending, AllHeld, TrailOf
    <2>2. <<>> \in Seq(Record)
      BY EmptySeq
    <2>3. OneTaken
      BY DEF Init, OneTaken
    <2> QED BY <2>1, <2>2, <2>3, NothingInOrder DEF OrderKept, OutInOrder, HeldInOrder
  <1>2. IInv /\ OwnTrailOnly /\ LoopsInPlace /\ OneTaken /\ OrderKept /\ [Next]_vars
          => OneTaken' /\ OrderKept'
    <2> SUFFICES ASSUME IInv, OwnTrailOnly, LoopsInPlace, OneTaken, OrderKept, [Next]_vars
                 PROVE  OneTaken' /\ OrderKept'
      OBVIOUS
    <2>1. OneTaken' /\ [Fallible!FallibleNext]_(Fallible!fallibleVars)
      BY FallibleStep
    <2>2. logged \in Nat
      BY DEF IInv, Others
    <2>3. CASE UNCHANGED Fallible!fallibleVars
      <3>1. UNCHANGED <<logged, AllHeld, WholeOut, Pending>>
        BY <2>3 DEF Fallible!fallibleVars, Fallible!absVars, AllHeld, WholeOut, Pending
      <3> QED BY <2>1, <3>1 DEF OrderKept
    <2>4. CASE Fallible!FallibleNext
      BY <2>1, <2>2, <2>4, OrderHolds, OrderDiscards, OrderArrives, OrderHandsOver
         DEF Fallible!FallibleNext
    <2> QED BY <2>1, <2>3, <2>4
  <1>3. IInv /\ OwnTrailOnly /\ OneTaken /\ OrderKept => OldestFirst(delivered, delivered)
    <2> SUFFICES ASSUME IInv, OwnTrailOnly, OneTaken, OrderKept
                 PROVE  OldestFirst(delivered, delivered)
      OBVIOUS
    <2>1. CASE stack = <<>>
      BY <2>1 DEF WholeOut, OrderKept, OutInOrder
    <2>2. ASSUME NEW f \in Frame, Taking(f)
          PROVE  OldestFirst(delivered, delivered)
      <3> DEFINE deque == buffers[f.id]
                 p     == PassedBy(f)
      <3>1. /\ f.id \in Flows
            /\ WholeOut = SubSeq(delivered, 1, Len(delivered) - p)
            /\ f.id \in DOMAIN buffers =>
                 deque \in Seq(Record) /\ p \in Nat /\ p < Len(deque)
            /\ f.id \notin DOMAIN buffers => WholeOut = delivered
        BY <2>2, TakingFacts
      <3>2. CASE f.id \notin DOMAIN buffers
        BY <3>1, <3>2 DEF OrderKept, OutInOrder
      <3>3. CASE f.id \in DOMAIN buffers
        <4>1. EndsWithFirst(delivered, deque, p) /\ delivered \in Seq(Record) /\ logged \in Nat
          BY <2>2, <3>3 DEF Taking, IInv, Others
        <4>2. OutInOrder(WholeOut, logged) /\ HeldInOrder(deque, f.id, WholeOut, logged)
          BY <3>1, <3>3 DEF OrderKept, AllHeld, TrailOf
        <4> HIDE DEF deque, p
        <4>3. delivered = WholeOut \o SubSeq(deque, 1, p)
          BY <3>1, <3>3, <4>1, BeforeAndAfter
        <4>4. p \in 0..Len(deque)
          BY <3>1, <3>3
        <4>5. OutInOrder(delivered, logged)
          BY <3>1, <4>1, <4>2, <4>3, <4>4, HandsInOrder
        <4> QED BY <4>5 DEF OutInOrder
      <3> QED BY <3>2, <3>3
    <2> QED BY <2>1, <2>2 DEF OneTaken
  <1> QED BY <1>1, <1>2, <1>3, Invariance, FlowsIsolated, InPlace, PTL DEF Spec

-----------------------------------------------------------------------------
(* The lock is given back                                                  *)

\* A loop of the handler has moved on: the loop of the cap, or a flush that raised or
\* returned, or the flush that is innermost.
MovesOn ==
  \/ Len(correlation_order') < Len(correlation_order)
  \/ /\ correlation_order' = correlation_order
     /\ Len(stack') < Len(stack)
  \/ /\ correlation_order' = correlation_order
     /\ Len(stack') = Len(stack)
     /\ Len(Top'.todo) < Len(Top.todo)

\* Passing a record on leaves one less to the innermost flush.
LEMMA AdvanceShorter ==
  ASSUME NEW frames \in Seq(Frame), frames # <<>>
  PROVE  /\ Len(Advance(frames)) = Len(frames)
         /\ Advance(frames) # <<>>
         /\ Last(Advance(frames)).todo = Tail(Last(frames).todo)
         /\ Len(Tail(Last(frames).todo)) < Len(Last(frames).todo)
  <1> DEFINE n == Len(frames)
  <1>1. n \in Nat /\ n \in 1..n /\ DOMAIN frames = 1..n /\ Last(frames) = frames[n]
    BY EmptySeq, LenProperties, TopType
  <1>2. Last(frames) \in Frame /\ Last(frames).todo \in Seq(Record) /\ Last(frames).todo # <<>>
    BY TopType DEF Frame
  <1>3. Len(Tail(Last(frames).todo)) < Len(Last(frames).todo)
    BY <1>2, HeadTailProperties
  <1>4. DOMAIN Advance(frames) = 1..n
        /\ Advance(frames)[n].todo = Tail(Last(frames).todo)
    BY <1>1, <1>2 DEF Advance, Frame
  <1>5. Len(Advance(frames)) = n
    BY <1>1, <1>4
  <1>6. Last(Advance(frames)) = Advance(frames)[n]
    BY <1>5 DEF Last
  <1>7. Advance(frames) # <<>>
    BY <1>1, <1>5
  <1> QED BY <1>3, <1>4, <1>5, <1>6, <1>7

\* A deque that changed is no fewer records for the loops.
LEMMA DetachTodo ==
  ASSUME NEW frames \in Seq(Frame), frames # <<>>, NEW ids
  PROVE  /\ Detach(frames, ids) \in Seq(Frame) /\ Detach(frames, ids) # <<>>
         /\ Len(Detach(frames, ids)) = Len(frames)
         /\ Last(Detach(frames, ids)).todo = Last(frames).todo
  <1> DEFINE n == Len(frames)
  <1>1. n \in Nat /\ n \in 1..n /\ DOMAIN frames = 1..n /\ Last(frames) = frames[n]
    BY EmptySeq, LenProperties, TopType
  <1>2. Detach(frames, ids) \in Seq(Frame) /\ Len(Detach(frames, ids)) = n
    BY DetachType
  <1>3. Detach(frames, ids) # <<>>
    BY <1>1, <1>2
  <1>4. Last(Detach(frames, ids)) = Detach(frames, ids)[n]
    BY <1>2 DEF Last
  <1>5. frames[n] \in Frame
    BY <1>1, TopType
  <1>6. Detach(frames, ids)[n].todo = frames[n].todo
    BY <1>1, <1>5 DEF Detach, Frame
  <1> QED BY <1>1, <1>2, <1>3, <1>4, <1>6

\* Between two calls of emit() the handler takes finitely many steps, however deep the
\* calls are nested, wherever the target raises and whatever ids are left behind in
\* _correlation_order: each shortens one of its loops, and starts no outer one anew.
THEOREM EmitsRunOut ==
  Spec => [][\/ logged' # logged
             \/ UNCHANGED <<buffers, correlation_order, stack, delivered>>
             \/ MovesOn]_vars
  <1>1. ASSUME IInv, Next
        PROVE  \/ logged' # logged
               \/ UNCHANGED <<buffers, correlation_order, stack, delivered>>
               \/ MovesOn
    <2>0. stack \in Seq(Frame) /\ correlation_order \in Seq(Flows) /\ logged \in Nat
      BY <1>1 DEF IInv, Dictionaries, Order, Others
    <2>1. CASE \E ctx \in Contexts : EmitBuffered(ctx) \/ EmitFlush(ctx)
      <3>1. logged' = logged + 1
        BY <2>1 DEF EmitBuffered, EmitFlush
      <3> QED BY <2>0, <3>1
    <2>2. CASE TargetReturnsMidTrail
      <3>1. stack # <<>> /\ stack' = Advance(stack) /\ correlation_order' = correlation_order
        BY <2>2 DEF TargetReturnsMidTrail, Deliver
      <3> QED BY <2>0, <3>1, AdvanceShorter DEF MovesOn, Top
    <2>3. CASE TargetReturnsEndOfTrail
      <3> DEFINE frames == Detach(stack, {Top.id})
      <3>1. stack # <<>> /\ stack' = Advance(frames) /\ correlation_order' = correlation_order
        BY <2>3 DEF TargetReturnsEndOfTrail, Deliver
      <3>2. /\ frames \in Seq(Frame) /\ frames # <<>> /\ Len(frames) = Len(stack)
            /\ Last(frames).todo = Top.todo
        BY <2>0, <3>1, DetachTodo DEF Top
      <3> HIDE DEF frames
      <3> QED BY <3>1, <3>2, AdvanceShorter DEF MovesOn, Top
    <2>4. CASE TargetReturnsTrailMutated \/ TargetReturnsRecord \/ TargetRaises
      <3>1. stack # <<>> /\ stack' = Pop(stack) /\ correlation_order' = correlation_order
        BY <2>4 DEF TargetReturnsTrailMutated, TargetReturnsRecord, TargetRaises, Deliver
      <3>2. Len(Pop(stack)) = Len(stack) - 1 /\ Len(stack) \in Nat
        BY <2>0, <3>1, FrontLast DEF Pop
      <3>3. Len(stack') < Len(stack)
        BY <3>1, <3>2
      <3> QED BY <3>1, <3>3 DEF MovesOn
    <2>5. CASE EvictOldestCorrelation
      <3>1. correlation_order # <<>> /\ correlation_order' = Tail(correlation_order)
        BY <2>5 DEF EvictOldestCorrelation
      <3>2. /\ Len(Tail(correlation_order)) = Len(correlation_order) - 1
            /\ Len(correlation_order) \in Nat
        BY <2>0, <3>1, HeadTailProperties
      <3>3. Len(correlation_order') < Len(correlation_order)
        BY <3>1, <3>2
      <3> QED BY <3>3 DEF MovesOn
    <2>6. CASE Tick \/ ClockStepsBack \/ BoundsReached
      BY <2>6 DEF Tick, ClockStepsBack, BoundsReached, vars
    <2> QED BY <1>1, <2>1, <2>2, <2>3, <2>4, <2>5, <2>6 DEF Next
  <1>2. IInv /\ [Next]_vars =>
          [\/ logged' # logged
           \/ UNCHANGED <<buffers, correlation_order, stack, delivered>>
           \/ MovesOn]_vars
    BY <1>1
  <1> QED BY <1>2, Invariance, PTL DEF Spec

==============================================================================
