-------------------------- MODULE LogPipelineProofs -------------------------
(***************************************************************************)
(* Proofs about LogPipeline, for any number of threads, any loggers, ids,  *)
(* names, patterns and objects, and any order in which filters are         *)
(* attached and records logged.                                            *)
(***************************************************************************)
EXTENDS LogPipeline, SequenceFacts

-----------------------------------------------------------------------------
(* The inductive invariant                                                 *)

\* The objects among the fields passed the guard when they were made.
Made(fields) ==
  \A n \in DOMAIN fields : fields[n] \in Objects => Constructs(fields[n].class)

\* What a record shows once it has met these filters.
ShowsWhatItMet(fields, own, met, ids) ==
  /\ Made(fields)
  /\ IdLasts(own, met) => ShowsOneOf(fields, ids)
  /\ Hidden(fields, met, ids)

\* A record on its way shows what the filters it has met make of it, and these are
\* the first ones of its logger.
Underway(c) ==
  ~Idle(c) =>
    LET k == call[c] IN
    /\ ShowsWhatItMet(k.fields, k.own, k.met, {Stamp(c)})
    /\ Len(k.met) <= Len(filters[k.logger])
    /\ \A i \in 1..Len(k.met) : k.met[i] = filters[k.logger][i]

\* What an entry of a trail shows.
Clean(r, flow) == ShowsWhatItMet(r.fields, r.own, r.filters, IdsOfFlow(flow))

\* The entries whose record there is, and shows what it should.
SoundEntries == {e \in Entry : e.n \in 1..Len(records) /\ Clean(records[e.n], e.flow)}

IInv == /\ TypeOK
        /\ \A c \in Contexts : Underway(c)
        /\ held \in [Flows -> Seq(SoundEntries)]
        /\ delivered \in Seq(SoundEntries)

-----------------------------------------------------------------------------
(* Fields                                                                  *)

\* Adding a value for a name, and masking, keep the types.
LEMMA FieldsType ==
  ASSUME NEW fields \in Fields
  PROVE  /\ \A patterns \in PatternSets : Redacted(patterns, fields) \in Fields
         /\ \A n \in Names, v \in Values : With(fields, n, v) \in Fields
  <1>1. PICK N \in SUBSET Names : fields \in [N -> Values]
    BY DEF Fields
  <1>2. \A patterns \in PatternSets : Redacted(patterns, fields) \in [N -> Values]
    BY <1>1, PipelineAssumption DEF Redacted
  <1>3. ASSUME NEW n \in Names, NEW v \in Values
        PROVE  With(fields, n, v) \in Fields
    <2>1. With(fields, n, v) \in [N \cup {n} -> Values]
      BY <1>1 DEF With
    <2>2. N \cup {n} \in SUBSET Names
      OBVIOUS
    <2> QED BY <2>1, <2>2 DEF Fields
  <1> QED BY <1>2, <1>3 DEF Fields

\* The stamp is a value, and no object.
LEMMA StampType ==
  ASSUME TypeOK, NEW c \in Contexts
  PROVE  Stamp(c) \in Values \ Objects
  BY PipelineAssumption DEF TypeOK, Stamp, HasId

\* What one filter more means for the id.
LEMMA IdLastsBefore ==
  ASSUME NEW met \in Seq(Filter), NEW filter \in Filter, NEW own,
         IdLasts(own, Append(met, filter)), filter # CorrelationFilter
  PROVE  IdLasts(own, met) /\ ~SecretTo(filter, Correlation)
  <1> DEFINE more == Append(met, filter)
             n == Len(met)
  <1>1. /\ n \in Nat /\ Len(more) = n + 1 /\ more[n + 1] = filter
        /\ \A i \in 1..n : more[i] = met[i]
    OBVIOUS
  <1>2. PICK i \in 0..Len(more) : /\ IF i = 0 THEN own ELSE more[i] = CorrelationFilter
                                  /\ \A j \in i+1..Len(more) : ~HidesId(more[j])
    BY DEF IdLasts
  <1> HIDE DEF more
  <1>3. i # n + 1
    BY <1>1, <1>2
  <1>4. i \in 0..n /\ n + 1 \in i+1..n+1 /\ \A j \in i+1..n : j \in i+1..n+1 /\ j \in 1..n
    BY <1>1, <1>2, <1>3
  <1>5. ~HidesId(filter)
    BY <1>1, <1>2, <1>4
  <1>6. IF i = 0 THEN own ELSE met[i] = CorrelationFilter
    <2>1. i # 0 => i \in 1..n
      BY <1>1, <1>4
    <2> QED BY <1>1, <1>2, <2>1
  <1>7. \A j \in i+1..n : ~HidesId(met[j])
    BY <1>1, <1>2, <1>4
  <1> QED BY <1>4, <1>5, <1>6, <1>7 DEF IdLasts, HidesId

\* Masking hides what the filter finds sensitive and uncovers nothing; the id stays
\* unless it is sensitive, and no object is made.
LEMMA RedactedFields ==
  ASSUME NEW fields \in Fields, NEW met \in Seq(Filter), NEW own, NEW ids,
         NEW patterns \in PatternSets, ShowsWhatItMet(fields, own, met, ids)
  PROVE  ShowsWhatItMet(Redacted(patterns, fields), own, Append(met, patterns), ids)
  <1> DEFINE more == Append(met, patterns)
             n == Len(met)
             redacted == Redacted(patterns, fields)
  <1>1. patterns \in Filter /\ patterns # CorrelationFilter
    BY PipelineAssumption DEF Filter
  <1>2. /\ n \in Nat /\ DOMAIN met = 1..n /\ DOMAIN more = 1..n+1 /\ Len(more) = n + 1
        /\ more[n + 1] = patterns /\ \A i \in 1..n : more[i] = met[i]
    BY <1>1
  <1>3. /\ DOMAIN redacted = DOMAIN fields
        /\ \A x \in DOMAIN fields \ PrivateNames :
             redacted[x] = IF SecretTo(patterns, x) THEN MASK ELSE fields[x]
        /\ \A x \in DOMAIN fields : redacted[x] \in {MASK, fields[x]}
    BY DEF Redacted, IsSensitive, SecretTo
  <1>4. Made(redacted)
    BY <1>3, PipelineAssumption DEF ShowsWhatItMet, Made
  <1>5. IdLasts(own, more) => ShowsOneOf(redacted, ids)
    BY <1>1, <1>3, IdLastsBefore, PipelineAssumption DEF ShowsWhatItMet, ShowsOneOf
  <1> HIDE DEF more, redacted
  <1>6. Hidden(redacted, more, ids)
    <2>1. SUFFICES ASSUME NEW i \in 1..n+1, more[i] # CorrelationFilter,
                          NEW x \in DOMAIN fields \ PrivateNames, SecretTo(more[i], x)
                   PROVE  \/ redacted[x] = MASK
                          \/ /\ x = Correlation /\ redacted[x] \in ids
                             /\ \E j \in i+1..Len(more) : more[j] = CorrelationFilter
      BY <1>2, <1>3 DEF Hidden
    <2>2. CASE i = n + 1
      BY <1>2, <1>3, <2>1, <2>2
    <2>3. CASE i \in 1..n
      <3>1. \/ fields[x] = MASK
            \/ /\ x = Correlation /\ fields[x] \in ids
               /\ \E j \in i+1..n : met[j] = CorrelationFilter
        BY <1>2, <2>1, <2>3 DEF ShowsWhatItMet, Hidden
      <3>2. \A j \in i+1..n : j \in i+1..Len(more) /\ more[j] = met[j]
        BY <1>2, <2>3
      <3> QED BY <1>3, <3>1, <3>2
    <2> QED BY <1>2, <2>2, <2>3
  <1> QED BY <1>4, <1>5, <1>6 DEF ShowsWhatItMet, more, redacted

\* Stamping shows the id, and uncovers nothing else that is hidden.
LEMMA StampedFields ==
  ASSUME NEW fields \in Fields, NEW met \in Seq(Filter), NEW own, NEW id \in Values \ Objects,
         ShowsWhatItMet(fields, own, met, {id})
  PROVE  ShowsWhatItMet(With(fields, Correlation, id), own, Append(met, CorrelationFilter), {id})
  <1> DEFINE more == Append(met, CorrelationFilter)
             n == Len(met)
             stamped == With(fields, Correlation, id)
  <1>1. CorrelationFilter \in Filter
    BY DEF Filter
  <1>2. /\ n \in Nat /\ DOMAIN met = 1..n /\ DOMAIN more = 1..n+1 /\ Len(more) = n + 1
        /\ more[n + 1] = CorrelationFilter /\ \A i \in 1..n : more[i] = met[i]
    BY <1>1
  <1>3. /\ DOMAIN stamped = DOMAIN fields \cup {Correlation}
        /\ stamped[Correlation] = id
        /\ \A x \in DOMAIN fields \ {Correlation} : stamped[x] = fields[x]
    BY DEF With
  <1>4. Made(stamped) /\ ShowsOneOf(stamped, {id})
    BY <1>3 DEF ShowsWhatItMet, Made, ShowsOneOf
  <1> HIDE DEF more, stamped
  <1>5. Hidden(stamped, more, {id})
    <2>1. SUFFICES ASSUME NEW i \in 1..n+1, more[i] # CorrelationFilter,
                          NEW x \in DOMAIN stamped \ PrivateNames, SecretTo(more[i], x)
                   PROVE  \/ stamped[x] = MASK
                          \/ /\ x = Correlation /\ stamped[x] \in {id}
                             /\ \E j \in i+1..Len(more) : more[j] = CorrelationFilter
      BY <1>2 DEF Hidden
    <2>2. i \in 1..n
      BY <1>2, <2>1
    <2>3. CASE x = Correlation
      <3>1. n + 1 \in i+1..Len(more)
        BY <1>2, <2>2
      <3> QED BY <1>2, <1>3, <2>3, <3>1
    <2>4. CASE x # Correlation
      <3>1. fields[x] = MASK
        BY <1>2, <1>3, <2>1, <2>2, <2>4 DEF ShowsWhatItMet, Hidden
      <3> QED BY <1>3, <2>4, <3>1
    <2> QED BY <2>3, <2>4
  <1> QED BY <1>4, <1>5 DEF ShowsWhatItMet, more, stamped

-----------------------------------------------------------------------------
(* A record that is made                                                   *)

\* A step of one thread's call, which touches nothing else.
LEMMA CallStep ==
  ASSUME IInv, NEW c \in Contexts, NEW k \in Call \cup {NoCall},
         call' = [call EXCEPT ![c] = k], Underway(c)',
         UNCHANGED <<correlation_ctx, filters, records, held, delivered>>
  PROVE  IInv'
  <1>1. TypeOK'
    BY DEF IInv, TypeOK
  <1>2. ASSUME NEW x \in Contexts, x # c PROVE Underway(x)'
    BY <1>2 DEF IInv, TypeOK, Underway, Idle, Stamp, HasId
  <1>3. SoundEntries' = SoundEntries
    BY DEF SoundEntries, Clean
  <1> QED BY <1>1, <1>2, <1>3 DEF IInv

\* The record a log call makes has what is needed when it sets out.
LEMMA LogOnStep ==
  ASSUME IInv, NEW c \in Contexts, NEW l \in Loggers, NEW fields \in Fields,
         NEW own \in BOOLEAN, LogOn(c, l, fields, own),
         Made(fields), own => ShowsOneOf(fields, {Stamp(c)})
  PROVE  IInv'
  <1>1. PICK flushes \in BOOLEAN :
          call' = [call EXCEPT ![c] =
                     [logger |-> l, fields |-> fields, own |-> own, flushes |-> flushes,
                      met |-> <<>>]]
    BY DEF LogOn
  <1> DEFINE k == [logger |-> l, fields |-> fields, own |-> own, flushes |-> flushes,
                   met |-> <<>>]
  <1>2. UNCHANGED <<correlation_ctx, filters, records, held, delivered>>
    BY DEF LogOn
  <1>3. filters[l] \in Seq(Filter) /\ call \in [Contexts -> Call \cup {NoCall}]
    BY DEF IInv, TypeOK
  <1>4. /\ <<>> \in Seq(Filter) /\ Len(<<>>) = 0 /\ Len(filters[l]) \in Nat
        /\ 1..Len(<<>>) = {} /\ DOMAIN <<>> = {} /\ 0..Len(<<>>) = {0}
    BY <1>3
  <1>5. k \in Call
    BY <1>4 DEF Call
  <1>6. ShowsWhatItMet(fields, own, <<>>, {Stamp(c)})
    BY <1>4 DEF ShowsWhatItMet, IdLasts, Hidden
  <1>7. Underway(c)'
    <2>1. call'[c] = k /\ Stamp(c)' = Stamp(c) /\ filters' = filters
      BY <1>1, <1>2, <1>3 DEF Stamp, HasId
    <2> QED BY <2>1, <1>4, <1>6 DEF Underway
  <1> QED BY <1>1, <1>2, <1>5, <1>7, CallStep

\* A record the library makes: with the current id, unless the caller gives one.
LEMMA LogExtraFields ==
  ASSUME IInv, NEW c \in Contexts, NEW extra \in Extra
  PROVE  /\ extra \in Fields /\ Made(extra)
         /\ LogExtra(c, extra) \in Fields /\ Made(LogExtra(c, extra))
         /\ Correlation \notin DOMAIN extra => ShowsOneOf(LogExtra(c, extra), {Stamp(c)})
  <1>1. extra \in Fields /\ Made(extra)
    BY PipelineAssumption DEF Extra, Made
  <1>2. Stamp(c) \in Values \ Objects
    BY StampType DEF IInv
  <1>3. /\ Made(With(extra, Correlation, Stamp(c)))
        /\ ShowsOneOf(With(extra, Correlation, Stamp(c)), {Stamp(c)})
    BY <1>1, <1>2 DEF With, Made, ShowsOneOf
  <1> QED BY <1>1, <1>2, <1>3, FieldsType, PipelineAssumption DEF LogExtra

LEMMA MixinLogsStep ==
  ASSUME IInv, NEW c \in Contexts, NEW l \in Loggers, NEW extra \in Extra,
         MixinLogs(c, l, extra)
  PROVE  IInv'
  BY LogExtraFields, LogOnStep DEF MixinLogs

LEMMA AmbientLogsStep ==
  ASSUME IInv, NEW c \in Contexts, NEW extra \in Extra, AmbientLogs(c, extra)
  PROVE  IInv'
  BY LogExtraFields, LogOnStep, PipelineAssumption DEF AmbientLogs

LEMMA OthersLogStep ==
  ASSUME IInv, NEW c \in Contexts, NEW l \in Loggers, NEW extra \in Extra,
         OthersLog(c, l, extra)
  PROVE  IInv'
  BY LogExtraFields, LogOnStep DEF OthersLog

-----------------------------------------------------------------------------
(* Filters                                                                 *)

\* One filter more, at the end of a list: no record has met it.
LEMMA FilterAttached ==
  ASSUME IInv, NEW l \in Loggers, NEW filter \in Filter,
         filters' = [filters EXCEPT ![l] = Append(@, filter)],
         UNCHANGED <<correlation_ctx, call, records, held, delivered>>
  PROVE  IInv'
  <1>1. filters \in [Loggers -> Seq(Filter)]
    BY DEF IInv, TypeOK
  <1>2. /\ Append(filters[l], filter) \in Seq(Filter)
        /\ Len(Append(filters[l], filter)) = Len(filters[l]) + 1
        /\ \A i \in 1..Len(filters[l]) : Append(filters[l], filter)[i] = filters[l][i]
    BY <1>1
  <1>3. TypeOK'
    BY <1>1, <1>2 DEF IInv, TypeOK
  <1>4. \A x \in Loggers :
          /\ Len(filters[x]) \in Nat /\ Len(filters'[x]) \in Nat
          /\ Len(filters[x]) <= Len(filters'[x])
          /\ \A i \in 1..Len(filters[x]) : filters'[x][i] = filters[x][i]
    BY <1>1, <1>2
  <1>5. ASSUME NEW c \in Contexts PROVE Underway(c)'
    <2>1. CASE Idle(c)
      BY <2>1 DEF Underway, Idle
    <2>2. CASE ~Idle(c)
      <3> DEFINE k == call[c]
      <3>1. k.logger \in Loggers /\ k.met \in Seq(Filter) /\ Len(k.met) \in Nat
        BY <2>2 DEF IInv, TypeOK, Call, Idle
      <3>2. Underway(c) /\ Stamp(c)' = Stamp(c) /\ call' = call
        BY DEF IInv, Stamp, HasId
      <3>3. /\ Len(k.met) <= Len(filters[k.logger])
            /\ \A i \in 1..Len(k.met) : k.met[i] = filters[k.logger][i]
            /\ ShowsWhatItMet(k.fields, k.own, k.met, {Stamp(c)})
        BY <3>2, <2>2 DEF Underway
      <3>4. Len(k.met) <= Len(filters'[k.logger])
        BY <3>1, <3>3, <1>4
      <3>5. \A i \in 1..Len(k.met) : k.met[i] = filters'[k.logger][i]
        <4>1. \A i \in 1..Len(k.met) : i \in 1..Len(filters[k.logger])
          BY <3>1, <3>3, <1>4
        <4> QED BY <4>1, <3>1, <3>3, <1>4
      <3> QED BY <3>2, <3>3, <3>4, <3>5 DEF Underway
    <2> QED BY <2>1, <2>2
  <1>6. SoundEntries' = SoundEntries
    BY DEF SoundEntries, Clean
  <1> QED BY <1>3, <1>5, <1>6 DEF IInv

LEMMA AddCorrelationFilterStep ==
  ASSUME IInv, NEW l \in Loggers, AddCorrelationFilter(l)
  PROVE  IInv'
  BY FilterAttached DEF AddCorrelationFilter, Filter

LEMMA AttachRedactionStep ==
  ASSUME IInv, NEW l \in Loggers, NEW patterns \in PatternSets, AttachRedaction(l, patterns)
  PROVE  IInv'
  BY FilterAttached DEF AttachRedaction, Filter

\* A filter leaves a record as it should be.
LEMMA ChangedStep ==
  ASSUME IInv, NEW c \in Contexts, NEW fields \in Fields, NEW filter \in Filter,
         Meets(c, filter), Changed(c, filter, fields),
         ShowsWhatItMet(fields, call[c].own, Append(call[c].met, filter), {Stamp(c)})
  PROVE  IInv'
  <1> DEFINE met == Append(call[c].met, filter)
             k == [call[c] EXCEPT !.fields = fields, !.met = Append(@, filter)]
  <1>1. call[c] \in Call /\ call \in [Contexts -> Call \cup {NoCall}]
    BY DEF IInv, TypeOK, Meets, Idle
  <1>2. call[c].met \in Seq(Filter) /\ met \in Seq(Filter)
    BY <1>1 DEF Call
  <1>3. /\ k \in Call /\ k.fields = fields /\ k.met = met
        /\ k.logger = call[c].logger /\ k.own = call[c].own
    BY <1>1, <1>2 DEF Call
  <1>4. /\ call' = [call EXCEPT ![c] = k]
        /\ UNCHANGED <<correlation_ctx, filters, records, held, delivered>>
    BY <1>1 DEF Changed
  <1>5. Underway(c)'
    <2> DEFINE f == filters[k.logger]
               n == Len(call[c].met)
    <2>1. call'[c] = k /\ Stamp(c)' = Stamp(c) /\ f' = f /\ Len(f) \in Nat
      BY <1>1, <1>3, <1>4 DEF Stamp, HasId, Call, IInv, TypeOK
    <2>2. n \in Nat /\ n < Len(f) /\ f[n + 1] = filter
      BY <1>2, <1>3 DEF Meets
    <2>3. /\ Len(met) = n + 1 /\ met[n + 1] = filter
          /\ \A i \in 1..n : met[i] = call[c].met[i]
      BY <1>2
    <2>4. \A i \in 1..n : call[c].met[i] = f[i]
      BY <1>3 DEF IInv, Underway, Meets
    <2> HIDE DEF met
    <2>5. Len(met) <= Len(f) /\ \A i \in 1..Len(met) : met[i] = f[i]
      <3>1. Len(met) <= Len(f)
        BY <2>1, <2>2, <2>3
      <3>2. \A i \in 1..n + 1 : i = n + 1 \/ i \in 1..n
        BY <2>2
      <3> QED BY <3>1, <3>2, <2>2, <2>3, <2>4
    <2> HIDE DEF k
    <2> QED BY <1>3, <2>1, <2>5, <1>4 DEF Underway, met
  <1> HIDE DEF k
  <1> QED BY <1>3, <1>4, <1>5, CallStep

\* What the next filter gets.
LEMMA MeetsType ==
  ASSUME IInv, NEW c \in Contexts, NEW filter, Meets(c, filter)
  PROVE  /\ call[c].fields \in Fields /\ call[c].met \in Seq(Filter)
         /\ ShowsWhatItMet(call[c].fields, call[c].own, call[c].met, {Stamp(c)})
  BY DEF IInv, TypeOK, Meets, Idle, Call, Underway

LEMMA StampRecordStep ==
  ASSUME IInv, NEW c \in Contexts, StampRecord(c)
  PROVE  IInv'
  <1>1. Meets(c, CorrelationFilter) /\ CorrelationFilter \in Filter
    BY DEF StampRecord, Filter
  <1>2. Stamp(c) \in Values \ Objects
    BY StampType DEF IInv
  <1> DEFINE stamped == Stamped(c, call[c].fields)
  <1>3. stamped \in Fields
    BY <1>1, <1>2, MeetsType, FieldsType, PipelineAssumption DEF Stamped
  <1>4. ShowsWhatItMet(stamped, call[c].own, Append(call[c].met, CorrelationFilter),
                       {Stamp(c)})
    BY <1>1, <1>2, MeetsType, StampedFields DEF Stamped
  <1>5. Changed(c, CorrelationFilter, stamped)
    BY DEF StampRecord
  <1> HIDE DEF stamped
  <1> QED BY <1>1, <1>3, <1>4, <1>5, ChangedStep

LEMMA RedactRecordStep ==
  ASSUME IInv, NEW c \in Contexts, NEW patterns \in PatternSets, RedactRecord(c, patterns)
  PROVE  IInv'
  <1>1. Meets(c, patterns) /\ patterns \in Filter
    BY DEF RedactRecord, Filter
  <1> DEFINE redacted == Redacted(patterns, call[c].fields)
  <1>2. redacted \in Fields
    BY <1>1, MeetsType, FieldsType
  <1>3. ShowsWhatItMet(redacted, call[c].own, Append(call[c].met, patterns), {Stamp(c)})
    BY <1>1, MeetsType, RedactedFields
  <1>4. Changed(c, patterns, redacted)
    BY DEF RedactRecord
  <1> HIDE DEF redacted
  <1> QED BY <1>1, <1>2, <1>3, <1>4, ChangedStep

\* A call that raises leaves nothing of its record.
LEMMA LogRaisesStep ==
  ASSUME IInv, NEW c \in Contexts, LogRaises(c)
  PROVE  IInv'
  <1>1. call \in [Contexts -> Call \cup {NoCall}]
    BY DEF IInv, TypeOK
  <1>2. Underway(c)'
    BY <1>1 DEF LogRaises, Over, Underway, Idle
  <1> QED BY <1>2, CallStep DEF LogRaises, Over

-----------------------------------------------------------------------------
(* A record that arrives                                                   *)

\* What a record shows does not depend on how its id is told.
LEMMA ShownByFlow ==
  ASSUME NEW fields, NEW own, NEW met, NEW ids, NEW more, ids \subseteq more,
         ShowsWhatItMet(fields, own, met, ids)
  PROVE  ShowsWhatItMet(fields, own, met, more)
  BY DEF ShowsWhatItMet, ShowsOneOf, Hidden

\* It shows what the flow it is filed under asks for, since it has met every
\* filter and the id has not changed meanwhile.
LEMMA FiledIsClean ==
  ASSUME IInv, NEW c \in Contexts, Filtered(c), ~LookUpFails(c)
  PROVE  /\ Filed(c) \in Record /\ BucketOf(c) \in Flows
         /\ Clean(Filed(c), BucketOf(c))
  <1> DEFINE k == call[c]  f == filters[k.logger]
  <1>1. k \in Call /\ ~Idle(c) /\ Underway(c) /\ Len(k.met) >= Len(f)
    BY DEF IInv, TypeOK, Filtered, Idle
  <1>2. k.met \in Seq(Filter) /\ f \in Seq(Filter)
    BY <1>1 DEF Call, IInv, TypeOK
  <1>3. Filed(c) \in Record
    BY <1>1, <1>2 DEF Filed, Record, Call
  <1>4. correlation_ctx[c] \in Ids \cup {Null, Missing}
    BY DEF IInv, TypeOK
  <1>5. BucketOf(c) \in Flows /\ {Stamp(c)} \subseteq IdsOfFlow(BucketOf(c))
    BY <1>4 DEF BucketOf, IdsOfFlow, Stamp, HasId, Flows
  <1>6. /\ Len(k.met) <= Len(f) /\ \A i \in 1..Len(k.met) : k.met[i] = f[i]
        /\ ShowsWhatItMet(k.fields, k.own, k.met, {Stamp(c)})
    BY <1>1 DEF Underway
  <1>7. k.met = f
    <2>1. Len(k.met) \in Nat /\ Len(f) \in Nat
      BY <1>2
    <2>2. Len(k.met) = Len(f)
      BY <2>1, <1>1, <1>6
    <2> HIDE DEF k, f
    <2> QED BY <2>2, <1>2, <1>6, SeqEqual
  <1>8. ShowsWhatItMet(k.fields, k.own, f, IdsOfFlow(BucketOf(c)))
    BY <1>5, <1>6, <1>7, ShownByFlow
  <1> QED BY <1>3, <1>5, <1>8 DEF Clean, Filed

\* What handing a record to the handler adds, and that it takes nothing away.
LEMMA HandledStep ==
  ASSUME IInv, NEW c \in Contexts, Handled(c)
  PROVE  /\ SoundEntries \subseteq SoundEntries'
         /\ [n |-> Len(records) + 1, flow |-> BucketOf(c)] \in SoundEntries'
         /\ BucketOf(c) \in Flows
         /\ correlation_ctx' \in [Contexts -> Ids \cup {Null, Missing}]
         /\ filters' \in [Loggers -> Seq(Filter)]
         /\ call' \in [Contexts -> Call \cup {NoCall}]
         /\ records' \in Seq(Record)
         /\ \A x \in Contexts : Underway(x)'
  <1>1. /\ records' = Append(records, Filed(c)) /\ call' = [call EXCEPT ![c] = NoCall]
        /\ UNCHANGED <<correlation_ctx, filters>> /\ Filtered(c) /\ ~LookUpFails(c)
    BY DEF Handled, Over
  <1>2. TypeOK
    BY DEF IInv
  <1>3. Filed(c) \in Record /\ BucketOf(c) \in Flows /\ Clean(Filed(c), BucketOf(c))
    BY <1>1, FiledIsClean
  <1>4. /\ records' \in Seq(Record) /\ Len(records') = Len(records) + 1
        /\ Len(records) \in Nat /\ records'[Len(records) + 1] = Filed(c)
        /\ \A i \in 1..Len(records) : records'[i] = records[i] /\ i \in 1..Len(records')
        /\ Len(records) + 1 \in 1..Len(records')
    <2>1. records \in Seq(Record)
      BY <1>2 DEF TypeOK
    <2> QED BY <2>1, <1>1, <1>3
  <1>5. SoundEntries \subseteq SoundEntries'
    BY <1>4 DEF SoundEntries, Clean
  <1>6. [n |-> Len(records) + 1, flow |-> BucketOf(c)] \in SoundEntries'
    <2> DEFINE e == [n |-> Len(records) + 1, flow |-> BucketOf(c)]
    <2>1. e \in Entry /\ e.n = Len(records) + 1 /\ e.flow = BucketOf(c)
      BY <1>3, <1>4 DEF Entry
    <2> HIDE DEF e
    <2>2. records'[e.n] = Filed(c) /\ e.n \in 1..Len(records')
      BY <2>1, <1>4
    <2>3. e \in SoundEntries'
      BY <2>1, <2>2, <1>3 DEF SoundEntries, Clean
    <2> QED BY <2>3 DEF e
  <1>7. ASSUME NEW x \in Contexts PROVE Underway(x)'
    <2>1. CASE x = c
      BY <2>1, <1>1, <1>2 DEF Underway, Idle, TypeOK
    <2>2. CASE x # c
      <3>1. call'[x] = call[x]
        BY <2>2, <1>1, <1>2 DEF TypeOK
      <3>2. Stamp(x)' = Stamp(x) /\ UNCHANGED filters
        BY <1>1 DEF Stamp, HasId
      <3>3. Underway(x)
        BY DEF IInv
      <3> QED BY <3>1, <3>2, <3>3 DEF Underway, Idle
    <2> QED BY <2>1, <2>2
  <1>8. call' \in [Contexts -> Call \cup {NoCall}]
    BY <1>1, <1>2 DEF TypeOK
  <1> QED BY <1>1, <1>2, <1>3, <1>4, <1>5, <1>6, <1>7, <1>8 DEF TypeOK

\* The trails, once some were discarded, in the terms of the state after a step.
LEMMA WithoutType ==
  ASSUME NEW S, held \in [Flows -> Seq(S)], NEW T, S \subseteq T, NEW D
  PROVE  Trail!Without(D) \in [Flows -> Seq(T)]
  <1>1. \A f \in Flows : held[f] \in Seq(T)
    BY SeqMonotonic
  <1>2. <<>> \in Seq(T)
    OBVIOUS
  <1> QED BY <1>1, <1>2 DEF Trail!Without, Trail!NoTrail

LEMMA SoundIsEntry == SoundEntries' \subseteq Entry
  BY DEF SoundEntries, Entry

LEMMA BuffersStep ==
  ASSUME IInv, NEW c \in Contexts, NEW D \in SUBSET Flows, Buffers(c, D)
  PROVE  IInv'
  <1> DEFINE S == SoundEntries'
             b == BucketOf(c)
             e == [n |-> Len(records) + 1, flow |-> b]
             W == Trail!Without(D)
  <1>1. Handled(c) /\ Trail!Hold(b, D)
    BY DEF Buffers
  <1>2. SoundEntries \subseteq S /\ e \in S /\ b \in Flows
    BY <1>1, HandledStep
  <1>3. held \in [Flows -> Seq(SoundEntries)] /\ delivered \in Seq(SoundEntries)
    BY DEF IInv
  <1>4. W \in [Flows -> Seq(S)] /\ delivered \in Seq(S)
    BY <1>2, <1>3, WithoutType, SeqMonotonic
  <1>5. held' = [W EXCEPT ![b] = Trail!Newest(Append(W[b], e))] /\ delivered' = delivered
    BY <1>1 DEF Trail!Hold, Trail!NewRecord
  <1> HIDE DEF S, b, e, W
  <1>6. Append(W[b], e) \in Seq(S) /\ Append(W[b], e) # <<>>
    BY <1>2, <1>4
  <1>7. Trail!Newest(Append(W[b], e)) \in Seq(S)
    BY <1>6, RangeTail DEF Trail!Newest
  <1>8. held' \in [Flows -> Seq(S)] /\ delivered' \in Seq(S)
    BY <1>2, <1>4, <1>5, <1>7
  <1>9. held' \in [Flows -> Seq(Entry)] /\ delivered' \in Seq(Entry)
    <2>1. \A s \in Seq(S) : s \in Seq(Entry)
      BY SoundIsEntry, SeqMonotonic DEF S
    <2> QED BY <2>1, <1>8
  <1>10. IInv'
    BY <1>1, <1>8, <1>9, HandledStep DEF IInv, TypeOK, S
  <1> QED BY <1>10

LEMMA FlushesStep ==
  ASSUME IInv, NEW c \in Contexts, NEW D \in SUBSET Flows, Flushes(c, D)
  PROVE  IInv'
  <1> DEFINE S == SoundEntries'
             b == BucketOf(c)
             e == [n |-> Len(records) + 1, flow |-> b]
             W == Trail!Without(D)
  <1>1. Handled(c) /\ Trail!Release(b, D)
    BY DEF Flushes
  <1>2. SoundEntries \subseteq S /\ e \in S /\ b \in Flows
    BY <1>1, HandledStep
  <1>3. held \in [Flows -> Seq(SoundEntries)] /\ delivered \in Seq(SoundEntries)
    BY DEF IInv
  <1>4. /\ W \in [Flows -> Seq(S)] /\ delivered \in Seq(S)
        /\ Trail!Without(D \cup {b}) \in [Flows -> Seq(S)]
    BY <1>2, <1>3, WithoutType, SeqMonotonic
  <1>5. /\ held' = Trail!Without(D \cup {b})
        /\ delivered' = delivered \o Append(W[b], e)
    BY <1>1 DEF Trail!Release, Trail!NewRecord
  <1>6. held' \in [Flows -> Seq(S)]
    BY <1>4, <1>5
  <1> HIDE DEF S, b, e, W
  <1>7. Append(W[b], e) \in Seq(S)
    BY <1>2, <1>4
  <1>8. delivered' \in Seq(S)
    BY <1>4, <1>5, <1>7, ConcatProperties
  <1>9. held' \in [Flows -> Seq(Entry)] /\ delivered' \in Seq(Entry)
    <2>1. \A s \in Seq(S) : s \in Seq(Entry)
      BY SoundIsEntry, SeqMonotonic DEF S
    <2> QED BY <2>1, <1>6, <1>8
  <1>10. IInv'
    BY <1>1, <1>6, <1>8, <1>9, HandledStep DEF IInv, TypeOK, S
  <1> QED BY <1>10

\* The id of a thread changes only when no record of it is on its way.
LEMMA IdStep ==
  ASSUME IInv, NEW c \in Contexts, Idle(c), NEW id \in Ids \cup {Null},
         correlation_ctx' = [correlation_ctx EXCEPT ![c] = id],
         UNCHANGED <<filters, call, records, held, delivered>>
  PROVE  IInv'
  <1>1. TypeOK'
    BY DEF IInv, TypeOK
  <1>2. ASSUME NEW x \in Contexts PROVE Underway(x)'
    BY DEF IInv, TypeOK, Underway, Idle, Stamp, HasId
  <1>3. SoundEntries' = SoundEntries
    BY DEF SoundEntries, Clean
  <1> QED BY <1>1, <1>2, <1>3 DEF IInv

-----------------------------------------------------------------------------
(* The invariant                                                           *)

LEMMA InitInv == Init => IInv
  <1> SUFFICES ASSUME Init PROVE IInv
    OBVIOUS
  <1>1. \A S : <<>> \in Seq(S)
    OBVIOUS
  <1>2. TypeOK
    BY <1>1 DEF Init, TypeOK
  <1>3. \A c \in Contexts : Underway(c)
    BY DEF Init, Underway, Idle
  <1>4. held \in [Flows -> Seq(SoundEntries)] /\ delivered \in Seq(SoundEntries)
    BY <1>1 DEF Init
  <1> QED BY <1>2, <1>3, <1>4 DEF IInv

LEMMA NextInv == IInv /\ [Next]_vars => IInv'
  <1> SUFFICES ASSUME IInv, [Next]_vars PROVE IInv'
    OBVIOUS
  <1>1. CASE \E l \in Loggers : AddCorrelationFilter(l)
    BY <1>1, AddCorrelationFilterStep
  <1>2. CASE \E l \in Loggers, patterns \in PatternSets : AttachRedaction(l, patterns)
    BY <1>2, AttachRedactionStep
  <1>3. CASE \E c \in Contexts, l \in Loggers, extra \in Extra : MixinLogs(c, l, extra)
    BY <1>3, MixinLogsStep
  <1>4. CASE \E c \in Contexts, extra \in Extra : AmbientLogs(c, extra)
    BY <1>4, AmbientLogsStep
  <1>5. CASE \E c \in Contexts, l \in Loggers, extra \in Extra : OthersLog(c, l, extra)
    BY <1>5, OthersLogStep
  <1>6. CASE \E c \in Contexts : StampRecord(c)
    BY <1>6, StampRecordStep
  <1>7. CASE \E c \in Contexts : StampFails(c)
    BY <1>7, LogRaisesStep DEF StampFails
  <1>8. CASE \E c \in Contexts, patterns \in PatternSets : RedactRecord(c, patterns)
    BY <1>8, RedactRecordStep
  <1>9. CASE \E c \in Contexts, D \in SUBSET Flows : Buffers(c, D)
    BY <1>9, BuffersStep
  <1>10. CASE \E c \in Contexts, D \in SUBSET Flows : Flushes(c, D)
    BY <1>10, FlushesStep
  <1>11. CASE \E c \in Contexts : HandlerRaises(c)
    BY <1>11, LogRaisesStep DEF HandlerRaises
  <1>12. CASE \E c \in Contexts, id \in Ids : Enters(c, id)
    BY <1>12, IdStep DEF Enters, SetId
  <1>13. CASE \E c \in Contexts : Leaves(c)
    BY <1>13, IdStep DEF Leaves, Clear
  <1>14. CASE UNCHANGED vars
    <2>1. UNCHANGED <<correlation_ctx, filters, call, records, held, delivered>>
      BY <1>14 DEF vars
    <2>2. TypeOK'
      BY <2>1 DEF IInv, TypeOK
    <2>3. \A c \in Contexts : Underway(c)'
      BY <2>1 DEF IInv, Underway, Idle, Stamp, HasId
    <2>4. SoundEntries' = SoundEntries
      BY <2>1 DEF SoundEntries, Clean
    <2> QED BY <2>1, <2>2, <2>3, <2>4 DEF IInv
  <1> QED BY <1>1, <1>2, <1>3, <1>4, <1>5, <1>6, <1>7, <1>8, <1>9, <1>10, <1>11,
             <1>12, <1>13, <1>14 DEF Next

LEMMA Invariance == Spec => []IInv
  BY InitInv, NextInv, PTL DEF Spec

\* Every entry of the trails and of the output is a sound one.
LEMMA EntriesAreSound ==
  ASSUME IInv, NEW e \in Entries
  PROVE  /\ records[e.n] \in Record
         /\ Clean(records[e.n], e.flow)
  <1>1. e \in SoundEntries
    <2>1. CASE e \in Range(delivered)
      BY <2>1, ElementsOfSeq DEF IInv
    <2>2. ASSUME NEW f \in Flows, e \in Range(held[f]) PROVE e \in SoundEntries
      <3>1. held[f] \in Seq(SoundEntries)
        BY DEF IInv
      <3>2. Range(held[f]) \subseteq SoundEntries
        BY <3>1, ElementsOfSeq
      <3> QED BY <2>2, <3>2
    <2> QED BY <2>1, <2>2 DEF Entries
  <1> QED BY <1>1, ElementOfSeq DEF SoundEntries, IInv, TypeOK

-----------------------------------------------------------------------------
(* What the two readings of the markers have in common                     *)

\* A class whose markers are members and whose own __post_init__ calls the guard: what
\* is printed is masked where from_dataclass finds a class, and nowhere else.
LEMMA ReprAgreesWithProfile ==
  ASSUME NEW object \in [class : Class, values : Seq(Values)],
         Constructs(object.class), Adopts(object.class), HasProfile(object.class),
         NEW i \in DOMAIN object.class.fields
  PROVE  Shown(object)[i] =
           IF SensitivityOf(FromDataclass(object.class), object.class.fields[i].name) = NoKind
           THEN object.values[i] ELSE MaskedRepr
  <1> DEFINE class == object.class
             fs == class.fields
             f == fs[i]
             profile == FromDataclass(class)
  <1>1. /\ fs \in Seq(Field) /\ DOMAIN fs = 1..Len(fs) /\ class.dataclass
        /\ ~class.shadowed
        /\ \A j, k \in DOMAIN fs : fs[j].name = fs[k].name => j = k
    BY DEF Class, Constructs, Adopts, HasProfile
  <1>2. /\ \A x \in Range(fs) : \E j \in 1..Len(fs) : fs[j] = x
        /\ f \in Range(fs)
    BY <1>1, ElementsOfSeq
  <1>3. \A x \in Range(fs) : x.name = f.name => x = f
    BY <1>1, <1>2
  <1>4. f.marker # NoMarker => f.marker.member /\ f.marker.kind \in Kinds
    BY <1>2 DEF Adopts, HasProfile
  <1>5. Shown(object)[i] = IF f.marker # NoMarker THEN MaskedRepr ELSE object.values[i]
    BY <1>1, <1>4 DEF Shown, Masks
  <1>6. ASSUME f.marker = NoMarker PROVE SensitivityOf(profile, f.name) = NoKind
    <2>1. ~ \E p \in profile : p.name = f.name
      BY <1>3, <1>6 DEF FromDataclass
    <2> QED BY <2>1 DEF SensitivityOf
  <1>7. ASSUME f.marker # NoMarker PROVE SensitivityOf(profile, f.name) # NoKind
    <2> DEFINE p == CHOOSE q \in profile : q.name = f.name
    <2>1. [name |-> f.name, kind |-> f.marker.kind] \in profile
      BY <1>2, <1>7 DEF FromDataclass
    <2>2. \E q \in profile : q.name = f.name
      BY <2>1
    <2>3. p \in profile /\ p.name = f.name
      BY <2>2
    <2>4. \A q \in profile : q.name = f.name => q.kind = f.marker.kind
      BY <1>3 DEF FromDataclass
    <2>5. SensitivityOf(profile, f.name) = p.kind
      BY <2>2 DEF SensitivityOf
    <2> HIDE DEF p, profile
    <2> QED BY <2>3, <2>4, <2>5, <1>4, <1>7, KindAssumption
  <1> QED BY <1>5, <1>6, <1>7

-----------------------------------------------------------------------------
(* Theorems                                                                *)

\* Every variable of the pipeline keeps its type: so do the records and the
\* entries of the handler's trails, whatever callers pass.
THEOREM TypeCorrect == Spec => []TypeOK
  <1>1. IInv => TypeOK
    BY DEF IInv
  <1> QED BY <1>1, Invariance, PTL

\* A line shows the id of the flow it is filed and handed over with, though the id
\* is read anew on each stage of a record's way; whatever ids there are, the ones that
\* look like the handler's own bucket included.
THEOREM LinesShowTheirFlow == Spec => []LineShowsItsFlow
  <1>1. IInv => LineShowsItsFlow
    BY EntriesAreSound DEF LineShowsItsFlow, Clean, ShowsWhatItMet
  <1> QED BY <1>1, Invariance, PTL

\* What a record has under a name that a filter of its logger finds sensitive is masked
\* before the handler has it, whatever the patterns, the other filters and their order:
\* the one thing that is shown again is the flow's own id.
THEOREM SecretsStayMasked == Spec => []SecretsMasked
  <1>1. IInv => SecretsMasked
    BY EntriesAreSound DEF SecretsMasked, Clean, ShowsWhatItMet
  <1> QED BY <1>1, Invariance, PTL

\* An object that gets into a line shows exactly what its class leaves unclassified.
THEOREM ClassifiedFieldsStayHidden == Spec => []ClassifiedStaysHidden
  <1>1. IInv => ClassifiedStaysHidden
    <2> SUFFICES ASSUME IInv, NEW e \in Entries,
                        NEW n \in DOMAIN records[e.n].fields,
                        records[e.n].fields[n] \in Objects,
                        Adopts(records[e.n].fields[n].class),
                        HasProfile(records[e.n].fields[n].class),
                        NEW i \in DOMAIN records[e.n].fields[n].class.fields
                 PROVE  LET object  == records[e.n].fields[n]
                            profile == FromDataclass(object.class)
                        IN  Shown(object)[i] =
                              IF SensitivityOf(profile, object.class.fields[i].name) = NoKind
                              THEN object.values[i] ELSE MaskedRepr
      BY DEF ClassifiedStaysHidden
    <2> DEFINE object == records[e.n].fields[n]
    <2>1. object \in [class : Class, values : Seq(Values)]
      BY PipelineAssumption
    <2>2. Constructs(object.class)
      BY EntriesAreSound DEF Clean, ShowsWhatItMet, Made
    <2> QED BY <2>1, <2>2, ReprAgreesWithProfile
  <1> QED BY <1>1, Invariance, PTL
=============================================================================
