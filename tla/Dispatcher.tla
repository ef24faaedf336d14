----------------------------- MODULE Dispatcher -----------------------------
(***************************************************************************)
(* mixin_notifications/dispatch/_client.py                                 *)
(*                                                                         *)
(* Threads call notify() on one Dispatcher: it asks the tracker, records   *)
(* the event, and sends it to its backends one after the other, in the     *)
(* form the egress gate gives it.  The tracker is the module               *)
(* SuppressionTracker, whose actions are the steps of is_suppressed and    *)
(* record.                                                                 *)
(*                                                                         *)
(* A backend is a record of the backend it hands the event to and of the   *)
(* dead-letter backend it may hand it to as well: a RetryingBackend has    *)
(* both, a plain backend is its own inner one.                             *)
(***************************************************************************)
EXTENDS SuppressionTracker, Sequences, SequencesExt

CONSTANTS Leaves,          \* the backends that deliver
          ExternalLeaves,  \* those of them whose external_egress is True
          FaultyLeaves,    \* those of them whose external_egress raises
          NoBackend,
          Deployments,     \* the backends a Dispatcher may have, and the threads
                           \* that call it
          Attachments, EgressSafe, \* attachments, and those marked egress_safe
          ClockMayStepBack,\* time.time() is not monotonic
          MaxClock,        \* bound: readings of the clock
          MaxNotifies      \* bound: calls of notify

Backend == [inner : Leaves, dead_letter : Leaves \cup {NoBackend}]

ASSUME DispatcherAssumption ==
  /\ ExternalLeaves \subseteq Leaves
  /\ FaultyLeaves \subseteq Leaves \ ExternalLeaves
  /\ NoBackend \notin Leaves
  /\ Deployments \subseteq [backends : Seq(Backend), callers : SUBSET Threads]
  /\ EgressSafe \subseteq Attachments
  /\ MaxClock \in Nat /\ MaxNotifies \in Nat

\* what a backend is sent: the event's own title, body and metadata or what the
\* gate puts in their place, and attachments
Content == {"original", "masked"}
Sent == [content : Content, attachments : SUBSET Attachments]

\* a DeliveryResult: delivered, not delivered, or the one made of an exception
Results == {"delivered", "failed", "exception"}

VARIABLES backends,   \* self.backends
          callers,    \* the threads that call notify
          tracked,    \* whether there is a suppression policy, and so a tracker
          clock,      \* time.time()
          phase,      \* where each thread's notify() is
          results,    \* its results, backend by backend
          handed,     \* what each leaf was sent by the notify, backend by backend
          dispatched, \* the events recorded: key, current_time, and notify's number
          number,     \* the number of each thread's notify
          notifies    \* calls so far; numbers them

config == <<backends, callers, tracked>>
calls == <<number, notifies>>
dispatchVars == <<config, clock, phase, results, handed, dispatched, calls>>
vars == <<trackerVars, dispatchVars>>

Phases == {"idle", "tracking", "sending", "suppressed", "dispatched", "raised"}
Ended == {"suppressed", "dispatched", "raised"}

Init ==
  /\ TrackerInit
  /\ \E d \in Deployments : backends = d.backends /\ callers = d.callers
  /\ tracked \in BOOLEAN
  /\ clock = 0
  /\ phase = [t \in Threads |-> "idle"]
  /\ results = [t \in Threads |-> <<>>]
  /\ handed = [t \in Threads |-> <<>>]
  /\ dispatched = <<>>
  /\ number = [t \in Threads |-> 0]
  /\ notifies = 0

-----------------------------------------------------------------------------
(* The egress gate                                                         *)

\* seeded bug: RetryingBackend answers for its inner backend only
ExternalEgressOfInner(b) == b.inner \in ExternalLeaves

\* RetryingBackend.external_egress, and that of a plain backend
ExternalEgress(b) == b.inner \in ExternalLeaves \/ b.dead_letter \in ExternalLeaves

\* the property raises, unless `or' does not get there
EgressRaises(b) == \/ b.inner \in FaultyLeaves
                   \/ /\ b.inner \notin ExternalLeaves
                      /\ b.dead_letter \in FaultyLeaves

\* _apply_egress_gate
Gated(b) == IF ExternalEgress(b)
            THEN [content |-> "masked", attachments |-> EgressSafe]
            ELSE [content |-> "original", attachments |-> Attachments]

-----------------------------------------------------------------------------
(* notify                                                                  *)

\* thread t calls notify, and reads the clock
NotifyTracked(t, k) ==
  /\ t \in callers /\ phase[t] \in Ended \cup {"idle"} /\ notifies < MaxNotifies
  /\ tracked
  /\ CallIsSuppressed(t, k, clock)
  /\ phase' = [phase EXCEPT ![t] = "tracking"]
  /\ results' = [results EXCEPT ![t] = <<>>]
  /\ handed' = [handed EXCEPT ![t] = <<>>]
  /\ notifies' = notifies + 1
  /\ number' = [number EXCEPT ![t] = notifies']
  /\ UNCHANGED <<config, clock, dispatched>>

NotifyUntracked(t) ==
  /\ t \in callers /\ phase[t] \in Ended \cup {"idle"} /\ notifies < MaxNotifies
  /\ ~tracked
  /\ phase' = [phase EXCEPT ![t] = "sending"]
  /\ results' = [results EXCEPT ![t] = <<>>]
  /\ handed' = [handed EXCEPT ![t] = <<>>]
  /\ notifies' = notifies + 1
  /\ number' = [number EXCEPT ![t] = notifies']
  /\ UNCHANGED <<trackerVars, config, clock, dispatched>>

\* the steps of the tracker that leave notify where it is
Tracks(t) ==
  /\ LookUp(t) \/ ReadLastSeen(t) \/ Measure(t) \/ StartScan(t) \/ MeetKey(t)
     \/ ScanFails(t) \/ WeighKey(t) \/ ScanEnds(t) \/ DeleteOldest(t)
  /\ UNCHANGED dispatchVars

Records(t) ==
  /\ Write(t)
  /\ dispatched' = Append(dispatched, [key |-> key[t], at |-> now[t],
                                         by |-> number[t]])
  /\ UNCHANGED <<config, clock, phase, results, handed, calls>>

Suppresses(t) ==
  /\ step[t] = "suppressed"
  /\ Leave(t)
  /\ phase' = [phase EXCEPT ![t] = "suppressed"]
  /\ UNCHANGED <<config, clock, results, handed, dispatched, calls>>

StartsSending(t) ==
  /\ step[t] = "recorded"
  /\ Leave(t)
  /\ phase' = [phase EXCEPT ![t] = "sending"]
  /\ UNCHANGED <<config, clock, results, handed, dispatched, calls>>

\* nothing in notify catches what the tracker raises
TrackerRaises(t) ==
  /\ step[t] \in Errors
  /\ Leave(t)
  /\ phase' = [phase EXCEPT ![t] = "raised"]
  /\ UNCHANGED <<config, clock, results, handed, dispatched, calls>>

-----------------------------------------------------------------------------
(* The loop over the backends                                              *)

Following(t) == backends[Len(results[t]) + 1]
Sending(t) == phase[t] = "sending" /\ Len(results[t]) < Len(backends)

\* what backend.send does with the event before it returns or raises: the inner
\* backend is tried, and then the dead-letter backend, if any, may be
Handed(b) ==
  {[l \in L |-> Gated(b)] :
     L \in {{b.inner}, {b.inner, b.dead_letter} \ {NoBackend}}}

\* the first backend outside is the one for which the gate reads event.severity.value
FirstOutside(t) == /\ ExternalEgress(Following(t))
                   /\ \A i \in 1..Len(results[t]) : ~ExternalEgress(backends[i])

\* the gate is outside the try: what external_egress raises ends notify, and so does
\* the severity of the event, when that is a string
GateRaises(t) ==
  /\ Sending(t)
  /\ EgressRaises(Following(t)) \/ FirstOutside(t)
  /\ phase' = [phase EXCEPT ![t] = "raised"]
  /\ UNCHANGED <<trackerVars, config, clock, results, handed, dispatched, calls>>

BackendReturns(t, result) ==
  /\ Sending(t)
  /\ ~EgressRaises(Following(t))
  /\ \E h \in Handed(Following(t)) : handed' = [handed EXCEPT ![t] = Append(@, h)]
  /\ results' = [results EXCEPT ![t] = Append(@, result)]
  /\ UNCHANGED <<trackerVars, config, clock, phase, dispatched, calls>>

\* seeded bug: the backends after one that raises are left out
BackendRaisesEndsLoop(t) ==
  /\ Sending(t)
  /\ ~EgressRaises(Following(t))
  /\ \E h \in Handed(Following(t)) : handed' = [handed EXCEPT ![t] = Append(@, h)]
  /\ phase' = [phase EXCEPT ![t] = "dispatched"]
  /\ UNCHANGED <<trackerVars, config, clock, results, dispatched, calls>>

\* seeded bug: an exception is logged and nothing made of it
BackendRaisesNoResult(t) ==
  /\ Sending(t)
  /\ ~EgressRaises(Following(t))
  /\ \E h \in Handed(Following(t)) : handed' = [handed EXCEPT ![t] = Append(@, h)]
  /\ results' = [results EXCEPT ![t] = Append(@, "none")]
  /\ UNCHANGED <<trackerVars, config, clock, phase, dispatched, calls>>

\* an exception is logged and becomes a result
BackendRaises(t) ==
  /\ Sending(t)
  /\ ~EgressRaises(Following(t))
  /\ \E h \in Handed(Following(t)) : handed' = [handed EXCEPT ![t] = Append(@, h)]
  /\ results' = [results EXCEPT ![t] = Append(@, "exception")]
  /\ UNCHANGED <<trackerVars, config, clock, phase, dispatched, calls>>

\* KeyboardInterrupt, or another BaseException, passes; and where the backend has
\* raised, what the logger raises when it is to say so
SendEndsNotify(t) ==
  /\ Sending(t)
  /\ ~EgressRaises(Following(t))
  /\ \E h \in Handed(Following(t)) : handed' = [handed EXCEPT ![t] = Append(@, h)]
  /\ phase' = [phase EXCEPT ![t] = "raised"]
  /\ UNCHANGED <<trackerVars, config, clock, results, dispatched, calls>>

NotifyReturns(t) ==
  /\ phase[t] = "sending" /\ Len(results[t]) = Len(backends)
  /\ phase' = [phase EXCEPT ![t] = "dispatched"]
  /\ UNCHANGED <<trackerVars, config, clock, results, handed, dispatched, calls>>

-----------------------------------------------------------------------------
Tick == /\ clock < MaxClock
        /\ clock' = clock + 1
        /\ UNCHANGED <<trackerVars, config, phase, results, handed, dispatched, calls>>

ClockStepsBack == /\ ClockMayStepBack
                  /\ clock > 0
                  /\ clock' = clock - 1
                  /\ UNCHANGED <<trackerVars, config, phase, results, handed, dispatched,
                                 calls>>

\* the behaviour may stop where the bounds do
BoundsReached == /\ notifies = MaxNotifies
                 /\ \A t \in Threads : phase[t] \in Ended \cup {"idle"}
                 /\ UNCHANGED vars

Next == \/ \E t \in Threads, k \in Keys : NotifyTracked(t, k)
        \/ \E t \in Threads : NotifyUntracked(t)
        \/ \E t \in Threads : Tracks(t)
        \/ \E t \in Threads : Records(t)
        \/ \E t \in Threads : Suppresses(t)
        \/ \E t \in Threads : StartsSending(t)
        \/ \E t \in Threads : TrackerRaises(t)
        \/ \E t \in Threads : GateRaises(t)
        \/ \E t \in Threads, r \in {"delivered", "failed"} : BackendReturns(t, r)
        \/ \E t \in Threads : BackendRaises(t)
        \/ \E t \in Threads : SendEndsNotify(t)
        \/ \E t \in Threads : NotifyReturns(t)
        \/ Tick
        \/ ClockStepsBack
        \/ BoundsReached

Spec == Init /\ [][Next]_vars

-----------------------------------------------------------------------------
(* Properties                                                              *)

Handings == UNION {[L -> Sent] : L \in SUBSET Leaves}

\* Every variable keeps its type; a thread is in the tracker while notify is.
TypeOK ==
  /\ TrackerTypeOK
  /\ backends \in Seq(Backend) /\ callers \subseteq Threads
  /\ tracked \in BOOLEAN
  /\ clock \in Nat
  /\ phase \in [Threads -> Phases]
  /\ \A t \in Threads : IF phase[t] = "tracking" THEN step[t] # "out" /\ key[t] \in Keys
                                              ELSE step[t] = "out"
  /\ results \in [Threads -> Seq(Results)]
  /\ handed \in [Threads -> Seq(Handings)]
  /\ dispatched \in Seq([key : Keys, at : Int, by : Nat])
  /\ number \in [Threads -> Nat]
  /\ notifies \in Nat

\* No backend outside is ever sent the event's own content or an attachment not
\* marked egress_safe, not as a dead-letter backend behind one inside either;
\* and what nobody outside can receive is not masked.
EgressIsGated ==
  \A t \in Threads : \A i \in DOMAIN handed[t] :
    /\ \A l \in DOMAIN handed[t][i] \cap ExternalLeaves :
         /\ handed[t][i][l].content = "masked"
         /\ handed[t][i][l].attachments \subseteq EgressSafe
    /\ {backends[i].inner, backends[i].dead_letter} \cap ExternalLeaves = {} =>
         \A l \in DOMAIN handed[t][i] : handed[t][i][l] =
           [content |-> "original", attachments |-> Attachments]

\* When notify returns and did not suppress the event, every backend was handed
\* it and has a result, in order, whatever the others raised.
EveryBackendServed ==
  \A t \in Threads : phase[t] = "dispatched" =>
    /\ Len(results[t]) = Len(backends)
    /\ Len(handed[t]) = Len(backends)
    /\ \A i \in 1..Len(backends) : backends[i].inner \in DOMAIN handed[t][i]

\* An event is suppressed only when another call of notify recorded its key, less
\* than the window before the time its own read, whatever other threads do.
SuppressedOnlyAsDuplicate ==
  \A t \in Threads : phase[t] = "suppressed" =>
    \E d \in Range(dispatched) : /\ d.key = key[t] /\ d.by # number[t]
                                 /\ now[t] - d.at < WindowSeconds

\* "duplicates within window are discarded": of two events with one key, the
\* second is recorded within the window of the first only when as many other
\* keys as the tracker holds were recorded no earlier than the first.
DuplicatesDiscarded ==
  \A j \in 1..Len(dispatched) : \A i \in 1..j - 1 :
    /\ dispatched[i].key = dispatched[j].key
    /\ dispatched[j].at - dispatched[i].at < WindowSeconds
    => Cardinality({dispatched[h].key : h \in {g \in 1..j - 1 :
                      /\ dispatched[g].key # dispatched[i].key
                      /\ dispatched[g].at >= dispatched[i].at}}) >= MaxCapacity

\* A Dispatcher that no two threads call.
Alone == \A t, u \in callers : t = u

\* Called by one thread, the Dispatcher lets no duplicate through but those whose
\* key the tracker had to evict.
AloneDiscardsDuplicates == Alone => DuplicatesDiscarded

\* Between two calls the tracker keeps no more keys than its capacity, and one
\* more only inside record.
TrackerBounded ==
  Alone => /\ Cardinality(DOMAIN seen) <= MaxCapacity + 1
           /\ (\A t \in Threads : step[t] = "out") =>
                Cardinality(DOMAIN seen) <= MaxCapacity

\* Used by one thread, the tracker raises nothing into notify.
TrackerNeverRaises ==
  Alone => \A t \in Threads : step[t] \notin Errors

\* "Tracker evicts oldest entry when capacity exceeded": no key that stays was
\* recorded before the one that goes.
EvictsOldest ==
  [][Alone => \A k \in DOMAIN seen \ DOMAIN seen' : \A j \in DOMAIN seen :
                seen[k] <= seen[j]]_vars

-----------------------------------------------------------------------------
(* Refinement of DuplicateFilter                                           *)

\* One thread calls notify, and there is a tracker; who it is.
InUse == tracked /\ \E t \in Threads : callers = {t}
Caller == CHOOSE t \in callers : TRUE

\* While there is a key too many, the key just written has yet to make room.
Remembered == IF ~InUse THEN [k \in {} |-> 0]
              ELSE IF OverCapacity THEN Restrict(seen, DOMAIN seen \ {key[Caller]})
              ELSE seen

Asked == IF InUse /\ phase[Caller] # "idle" THEN <<key[Caller], now[Caller]>> ELSE <<>>

Verdict == IF ~InUse \/ phase[Caller] = "idle" THEN "none"
           ELSE IF "suppressed" \in {step[Caller], phase[Caller]} THEN "suppressed"
           ELSE IF step[Caller] \in {"looking", "reading", "writing"} \/ OverCapacity
                THEN "pending"
           ELSE "recorded"

Filter == INSTANCE DuplicateFilter WITH last <- Remembered, event <- Asked,
                                        verdict <- Verdict

\* Called by one thread, the tracker decides and records as if in one step, although
\* the key is looked up, read, written, weighed and deleted one after the other, and
\* forgets nothing but a key recorded longest ago when there is one too many.
ImplementsDuplicateFilter == Filter!FilterSpec
=============================================================================
