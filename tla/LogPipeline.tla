---------------------------- MODULE LogPipeline -----------------------------
(***************************************************************************)
(* A log record from the call that makes it to the handler that writes it: *)
(* mixin/mixin.py, ambient/ambient_client.py, adapters/stdlib/             *)
(* stdlib_client.py (CorrelationLogFilter) and redaction/.                 *)
(*                                                                         *)
(* LoggingMixin and AmbientLogger put the current correlation id into the  *)
(* record they make; other code makes records of its own.  The logger the  *)
(* record was made on passes it through its filters, in the order they     *)
(* were attached; they change the record in place.  What is left goes to   *)
(* the FlushOnWarningHandler of the root logger, which files it under the  *)
(* id current by then, and hands it on now, later or never.  That handler  *)
(* is the store of TrailStore here, which FlushHandler is shown to         *)
(* implement; the ids are those of CorrelationContext; an object that is   *)
(* logged and its repr are those of SensitiveData.                         *)
(*                                                                         *)
(* A log call takes several steps, between which other threads log, change *)
(* their ids and attach filters.                                           *)
(***************************************************************************)
EXTENDS CorrelationContext, SensitiveData, Naturals, FiniteSets

CONSTANTS Ids,           \* the correlation ids in use
          NullId,        \* NULL_CORRELATION_ID, the handler's bucket without an id
          UnsetId,       \* UNSET_CORRELATION_ID, "-"
          Capacity,      \* the length of a trail
          Loggers,
          ClassLoggers,  \* those called <module>.<class>, of adopters of the mixin
          AmbientLogger, \* mixin_logging.ambient
          Correlation,   \* the name of the record's attribute, "correlation_id"
          Reserved,      \* names a LogRecord has itself
          PatternSets,   \* the sensitive_patterns of the RedactionFilters in use
          PatternsIn(_), \* the patterns in the lower case form of a name
          CorrelationFilter, \* stands for every CorrelationLogFilter
          PrivateNames,  \* names that start with an underscore
          MASK,          \* MASK_TOKEN
          Names, Values, \* what the attributes of a record may be called and hold
          Extras,        \* what callers pass, a value for each of some names
          Objects,       \* those of the values that are instances of SensitiveRepr
          NoCall,
          MaxRecords, MaxFilters  \* bounds

Flows == Ids \cup {NullId}
Fields == UNION {[N -> Values] : N \in SUBSET Names}

ASSUME PipelineAssumption ==
  /\ Ids \cap {Null, Missing} = {}
  /\ ClassLoggers \cup {AmbientLogger} \subseteq Loggers
  /\ Correlation \in Names \ (Reserved \cup PrivateNames)
  /\ CorrelationFilter \notin PatternSets
  /\ Ids \cup {UnsetId, MASK} \subseteq Values \ Objects
  /\ Extras \subseteq Fields
  /\ Objects \subseteq [class : Class, values : Seq(Values)]
  /\ Capacity \in Nat \ {0} /\ MaxRecords \in Nat /\ MaxFilters \in Nat

VARIABLES filters,   \* Logger.filters, of each logger
          call,      \* the log call each thread is in
          records,   \* what the handler was given, in order
          held, delivered \* the trails and the output of TrailStore

vars == <<correlation_ctx, filters, call, records, held, delivered>>

Trail == INSTANCE TrailStore WITH logged <- Len(records)

Init ==
  /\ correlation_ctx \in [Contexts -> {Null, Missing}]
  /\ filters = [l \in Loggers |-> <<>>]
  /\ call = [c \in Contexts |-> NoCall]
  /\ records = <<>>
  /\ held = [f \in Flows |-> <<>>]
  /\ delivered = <<>>

Idle(c) == call[c] = NoCall

-----------------------------------------------------------------------------
(* Filters                                                                 *)

With(fields, name, value) ==
  [n \in DOMAIN fields \cup {name} |-> IF n = name THEN value ELSE fields[n]]

\* what a record is stamped with: the current id, or "-"
Stamp(c) == IF HasId(c) THEN correlation_ctx[c] ELSE UnsetId

\* A RedactionFilter is its sensitive_patterns.
Filter == {CorrelationFilter} \cup PatternSets

\* seeded bug: a name is sensitive only if it is a pattern
IsSensitiveExactly(patterns, name) == name \in patterns

\* _is_sensitive_field_name
IsSensitive(patterns, name) == PatternsIn(name) \cap patterns # {}

\* _redact_record, whatever the value is
Redacted(patterns, fields) ==
  [n \in DOMAIN fields |-> IF n \notin PrivateNames /\ IsSensitive(patterns, n)
                           THEN MASK ELSE fields[n]]

\* seeded bug: the filter leaves an id that is there
StampedIfAbsent(c, fields) ==
  IF Correlation \in DOMAIN fields THEN fields ELSE With(fields, Correlation, Stamp(c))

\* CorrelationLogFilter.filter, which overwrites what the caller gave
Stamped(c, fields) == With(fields, Correlation, Stamp(c))

Attached == FoldSet(LAMBDA l, sum : sum + Len(filters[l]), 0, Loggers)

\* add_correlation_filter: a filter of its own, and so one more
AddCorrelationFilter(l) ==
  /\ Attached < MaxFilters
  /\ filters' = [filters EXCEPT ![l] = Append(@, CorrelationFilter)]
  /\ UNCHANGED <<correlation_ctx, call, records, held, delivered>>

\* attach_default, or an application that attaches a filter with patterns of its own:
\* filters with the same patterns are equal, and addFilter does not add what it finds
AttachRedaction(l, patterns) ==
  /\ Attached < MaxFilters
  /\ patterns \notin Range(filters[l])
  /\ filters' = [filters EXCEPT ![l] = Append(@, patterns)]
  /\ UNCHANGED <<correlation_ctx, call, records, held, delivered>>

-----------------------------------------------------------------------------
(* Making a record                                                         *)

\* the call returns, or raises into the application
Over(c) == call' = [call EXCEPT ![c] = NoCall]

\* A log call that has made its record.  flushes: the record is at flush_level or
\* above.  own: its id was put there by the library, not by the caller.  met: the
\* filters it has passed, in order.
Call == [logger : Loggers, fields : Fields, own : BOOLEAN, flushes : BOOLEAN,
         met : Seq(Filter)]

\* Logger.debug and so on, at the logger's level or above.  makeRecord raises
\* KeyError when extra would replace an attribute of the record.
LogOn(c, l, fields, own) ==
  /\ Idle(c)
  /\ Len(records) + Cardinality({x \in Contexts : ~Idle(x)}) < MaxRecords
  /\ DOMAIN fields \cap Reserved = {}
  /\ \E flushes \in BOOLEAN :
       call' = [call EXCEPT ![c] =
                  [logger |-> l, fields |-> fields, own |-> own, flushes |-> flushes,
                   met |-> <<>>]]
  /\ UNCHANGED <<correlation_ctx, filters, records, held, delivered>>

\* what a caller passes, every object in it constructed
Extra == {extra \in Extras : \A n \in DOMAIN extra :
            extra[n] \in Objects => Constructs(extra[n].class)}

\* the current id, unless the caller gives one
LogExtra(c, extra) ==
  IF Correlation \in DOMAIN extra THEN extra ELSE With(extra, Correlation, Stamp(c))

\* LoggingMixin.log_debug to log_exception.  Where current_id raises they do.
MixinLogs(c, l, extra) ==
  /\ l \in ClassLoggers
  /\ ~LookUpFails(c)
  /\ LogOn(c, l, LogExtra(c, extra), Correlation \notin DOMAIN extra)

\* log_debug to log_exception of AmbientLogger
AmbientLogs(c, extra) ==
  /\ ~LookUpFails(c)
  /\ LogOn(c, AmbientLogger, LogExtra(c, extra), Correlation \notin DOMAIN extra)

\* the application or another library logs without the suite's help
OthersLog(c, l, extra) == LogOn(c, l, extra, FALSE)

-----------------------------------------------------------------------------
(* Filtering it                                                            *)

\* Filterer.filter takes the filters from the logger's list, one after the other,
\* and so meets one that was attached after it began
Meets(c, filter) == /\ ~Idle(c)
                    /\ Len(call[c].met) < Len(filters[call[c].logger])
                    /\ filters[call[c].logger][Len(call[c].met) + 1] = filter

Changed(c, filter, fields) ==
  /\ call' = [call EXCEPT ![c].fields = fields, ![c].met = Append(@, filter)]
  /\ UNCHANGED <<correlation_ctx, filters, records, held, delivered>>

StampRecord(c) == /\ Meets(c, CorrelationFilter)
                  /\ ~LookUpFails(c)
                  /\ Changed(c, CorrelationFilter, Stamped(c, call[c].fields))

\* nothing between current_id and the application catches what it raises
LogRaises(c) == /\ LookUpFails(c)
                /\ Over(c)
                /\ UNCHANGED <<correlation_ctx, filters, records, held, delivered>>

StampFails(c) == Meets(c, CorrelationFilter) /\ LogRaises(c)

RedactRecord(c, patterns) ==
  /\ Meets(c, patterns)
  /\ Changed(c, patterns, Redacted(patterns, call[c].fields))

-----------------------------------------------------------------------------
(* Handling it                                                             *)

Filtered(c) == ~Idle(c) /\ Len(call[c].met) >= Len(filters[call[c].logger])

\* FlushOnWarningHandler._get_correlation_id: a client may send NULL_CORRELATION_ID
\* as its id, and so share the bucket of what has none
BucketOf(c) == IF HasId(c) THEN correlation_ctx[c] ELSE NullId

Filed(c) == [fields |-> call[c].fields, own |-> call[c].own,
             filters |-> filters[call[c].logger]]

Handled(c) == /\ Filtered(c)
              /\ ~LookUpFails(c)
              /\ records' = Append(records, Filed(c))
              /\ Over(c)
              /\ UNCHANGED <<correlation_ctx, filters>>

\* D: the flows whose trails the limits of the handler discard meanwhile
Buffers(c, D) == /\ Handled(c) /\ ~call[c].flushes
                 /\ Trail!Hold(BucketOf(c), D)
Flushes(c, D) == /\ Handled(c) /\ call[c].flushes
                 /\ Trail!Release(BucketOf(c), D)

\* _get_correlation_id raises out of emit
HandlerRaises(c) == Filtered(c) /\ LogRaises(c)

-----------------------------------------------------------------------------
\* the adapters set and clear the id of a thread that is not in a log call
Enters(c, id) == /\ Idle(c)
                 /\ SetId(c, id)
                 /\ UNCHANGED <<filters, call, records, held, delivered>>
Leaves(c) == /\ Idle(c)
             /\ Clear(c)
             /\ UNCHANGED <<filters, call, records, held, delivered>>

Next == \/ \E l \in Loggers : AddCorrelationFilter(l)
        \/ \E l \in Loggers, patterns \in PatternSets : AttachRedaction(l, patterns)
        \/ \E c \in Contexts, l \in Loggers, extra \in Extra : MixinLogs(c, l, extra)
        \/ \E c \in Contexts, extra \in Extra : AmbientLogs(c, extra)
        \/ \E c \in Contexts, l \in Loggers, extra \in Extra : OthersLog(c, l, extra)
        \/ \E c \in Contexts : StampRecord(c)
        \/ \E c \in Contexts : StampFails(c)
        \/ \E c \in Contexts, patterns \in PatternSets : RedactRecord(c, patterns)
        \/ \E c \in Contexts, D \in SUBSET Flows : Buffers(c, D)
        \/ \E c \in Contexts, D \in SUBSET Flows : Flushes(c, D)
        \/ \E c \in Contexts : HandlerRaises(c)
        \/ \E c \in Contexts, id \in Ids : Enters(c, id)
        \/ \E c \in Contexts : Leaves(c)

Spec == Init /\ [][Next]_vars

-----------------------------------------------------------------------------
(* Properties                                                              *)

\* filters: those its logger has when the handler gets it
Record == [fields : Fields, own : BOOLEAN, filters : Seq(Filter)]
Entry == [n : Nat \ {0}, flow : Flows]

\* Every variable keeps its type.
TypeOK ==
  /\ correlation_ctx \in [Contexts -> Ids \cup {Null, Missing}]
  /\ filters \in [Loggers -> Seq(Filter)]
  /\ call \in [Contexts -> Call \cup {NoCall}]
  /\ records \in Seq(Record)
  /\ held \in [Flows -> Seq(Entry)]
  /\ delivered \in Seq(Entry)

\* the records in the trails and in the output
Entries == Range(delivered) \cup UNION {Range(held[f]) : f \in Flows}

\* The id that a record of a flow shows.  The bucket of the records without an id
\* may hold those of a client whose id is NULL_CORRELATION_ID too.
IdsOfFlow(flow) ==
  IF flow = NullId THEN {UnsetId} \cup (Ids \cap {NullId}) ELSE {flow}

\* A name is secret to a RedactionFilter that has a pattern which is in it.
SecretTo(filter, name) == \E pattern \in filter : pattern \in PatternsIn(name)

HidesId(filter) == filter # CorrelationFilter /\ SecretTo(filter, Correlation)

\* The library puts the id there, itself (0) or by a filter, and no RedactionFilter
\* after that takes the name of the attribute for a sensitive one.
IdLasts(own, met) ==
  \E i \in 0..Len(met) : /\ IF i = 0 THEN own ELSE met[i] = CorrelationFilter
                         /\ \A j \in i+1..Len(met) : ~HidesId(met[j])

ShowsOneOf(fields, ids) == Correlation \in DOMAIN fields /\ fields[Correlation] \in ids

\* A line shows the id of the flow it is filed and handed over with, so that the
\* trail of a warning shows one id, the warning's: when it was logged through the
\* mixin or the ambient logger, unless the caller gave another id, and whatever
\* the caller gave when its logger has a CorrelationLogFilter, unless a
\* RedactionFilter masks the id after that.  The id is read up to three times on the
\* way, by each on its own.  One trail may show two ids: an id '-buffered-' and none
\* have the same bucket.
LineShowsItsFlow ==
  \A e \in Entries :
    LET r == records[e.n]
    IN  IdLasts(r.own, r.filters) => ShowsOneOf(r.fields, IdsOfFlow(e.flow))

\* What a name that one of the filters finds sensitive has: the mask, or the id where a
\* CorrelationLogFilter that comes later puts it back.
Hidden(fields, met, ids) ==
  \A i \in DOMAIN met : met[i] # CorrelationFilter =>
    \A n \in DOMAIN fields \ PrivateNames : SecretTo(met[i], n) =>
      \/ fields[n] = MASK
      \/ /\ n = Correlation /\ fields[n] \in ids
         /\ \E j \in i+1..Len(met) : met[j] = CorrelationFilter

\* Nothing a caller passes under a name that is sensitive, however spelt, to any
\* RedactionFilter its logger has is written or kept for later, whatever kind of
\* value it is, whatever other filters there are, and in whichever order they were
\* attached, before the call or meanwhile.  (The id of the flow may be shown again.)
SecretsMasked ==
  \A e \in Entries :
    LET r == records[e.n] IN Hidden(r.fields, r.filters, IdsOfFlow(e.flow))

\* An object in a line shows MASKED for exactly the fields from_dataclass finds
\* classified, whatever is printed and when: classify and repr read the markers
\* each in its own way, and agree where every marker is a member of Sensitivity
\* and a __post_init__ of the class's own calls the guard.
Adopts(class) == /\ class.post_init # "own"
                 /\ \A f \in Range(class.fields) : f.marker # NoMarker => f.marker.member
ClassifiedStaysHidden ==
  \A e \in Entries : LET fields == records[e.n].fields IN
    \A n \in {m \in DOMAIN fields : fields[m] \in Objects} :
      LET object  == fields[n]
          profile == FromDataclass(object.class)
      IN  Adopts(object.class) /\ HasProfile(object.class) =>
            \A i \in DOMAIN object.class.fields :
              Shown(object)[i] =
                IF SensitivityOf(profile, object.class.fields[i].name) = NoKind
                THEN object.values[i] ELSE MaskedRepr
=============================================================================
