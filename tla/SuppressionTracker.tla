------------------------- MODULE SuppressionTracker -------------------------
(***************************************************************************)
(* mixin_notifications/suppression/_objects.py                             *)
(*                                                                         *)
(* The calls is_suppressed and record, made by any number of threads on    *)
(* one tracker.  Nothing locks the dictionary _seen, so another thread may *)
(* run wherever the interpreter may switch: between the test `key in       *)
(* _seen' and the read, between the write and the test of the length,      *)
(* between that and min(), and, since the key function of min() is Python  *)
(* code, at each key that min() weighs.  Each action is what runs between  *)
(* two such points.                                                        *)
(*                                                                         *)
(* The order in which min() meets the keys is left open: it is the order   *)
(* of insertion, and it decides only between keys recorded at one time.     *)
(***************************************************************************)
EXTENDS Integers, FiniteSets, Functions

CONSTANTS Threads, Keys,    \* a key is a (category, fingerprint)
          WindowSeconds, MaxCapacity,
          NoKey

ASSUME TrackerAssumption == /\ WindowSeconds \in Int
                            /\ MaxCapacity \in Nat
                            /\ NoKey \notin Keys

VARIABLES seen,   \* _seen : key -> when it was recorded last
          step,   \* where each thread is in the tracker
          key,    \* the key it asks about or records
          now,    \* its current_time
          scan    \* its min(): the keys at its start, those met, the best so far

trackerVars == <<seen, step, key, now, scan>>

\* what the tracker may raise, used by several threads
Errors == {"KeyError", "RuntimeError", "ValueError"}

Steps == {"out", "looking", "reading", "suppressed", "writing", "measuring",
          "starting", "scanning", "weighing", "deleting", "recorded"} \cup Errors

NoScan == [size |-> 0, met |-> {}, at |-> NoKey, oldest |-> NoKey, since |-> 0]

TrackerInit ==
  /\ seen = [k \in {} |-> 0]
  /\ step = [t \in Threads |-> "out"]
  /\ key = [t \in Threads |-> NoKey]
  /\ now = [t \in Threads |-> 0]
  /\ scan = [t \in Threads |-> NoScan]

\* thread t goes on at s, or leaves with the outcome s
Goto(t, s) == step' = [step EXCEPT ![t] = s]

\* seeded bug: an event exactly one window old is still suppressed
WithinWindowInclusive(time, since) == time - since <= WindowSeconds

WithinWindow(time, since) == time - since < WindowSeconds

-----------------------------------------------------------------------------
(* is_suppressed                                                           *)

\* the caller calls is_suppressed(k) with the time it has read
CallIsSuppressed(t, k, time) ==
  /\ step[t] = "out"
  /\ key' = [key EXCEPT ![t] = k]
  /\ now' = [now EXCEPT ![t] = time]
  /\ Goto(t, "looking")
  /\ UNCHANGED <<seen, scan>>

\* seeded bug: the key is read without asking whether it is there
LookUpUnasked(t) ==
  /\ step[t] = "looking"
  /\ Goto(t, "reading")
  /\ UNCHANGED <<seen, key, now, scan>>

\* if key in self._seen; False makes the caller record the key
LookUp(t) ==
  /\ step[t] = "looking"
  /\ Goto(t, IF key[t] \in DOMAIN seen THEN "reading" ELSE "writing")
  /\ UNCHANGED <<seen, key, now, scan>>

\* self._seen[key], which another thread may have evicted
ReadLastSeen(t) ==
  /\ step[t] = "reading"
  /\ Goto(t, IF key[t] \notin DOMAIN seen THEN "KeyError"
             ELSE IF WithinWindow(now[t], seen[key[t]]) THEN "suppressed"
             ELSE "writing")
  /\ UNCHANGED <<seen, key, now, scan>>

-----------------------------------------------------------------------------
(* record                                                                  *)

\* seeded bug: a key that is there keeps its time
WriteKeepsFirst(t) ==
  /\ step[t] = "writing"
  /\ seen' = [k \in DOMAIN seen \cup {key[t]} |->
                IF k \in DOMAIN seen THEN seen[k] ELSE now[t]]
  /\ Goto(t, "measuring")
  /\ UNCHANGED <<key, now, scan>>

\* self._seen[key] = current_time
Write(t) ==
  /\ step[t] = "writing"
  /\ seen' = [k \in DOMAIN seen \cup {key[t]} |->
                IF k = key[t] THEN now[t] ELSE seen[k]]
  /\ Goto(t, "measuring")
  /\ UNCHANGED <<key, now, scan>>

\* seeded bug: one key more than the capacity is kept
OverCapacityByTwo == Cardinality(DOMAIN seen) > MaxCapacity + 1

OverCapacity == Cardinality(DOMAIN seen) > MaxCapacity

\* len(self._seen) > self.max_capacity
Measure(t) ==
  /\ step[t] = "measuring"
  /\ Goto(t, IF OverCapacity THEN "starting" ELSE "recorded")
  /\ UNCHANGED <<seen, key, now, scan>>

\* min() asks for an iterator of the keys, and refuses when there are none any more
StartScan(t) ==
  /\ step[t] = "starting"
  /\ Goto(t, IF DOMAIN seen = {} THEN "ValueError" ELSE "scanning")
  /\ scan' = [scan EXCEPT ![t] = [NoScan EXCEPT !.size = Cardinality(DOMAIN seen)]]
  /\ UNCHANGED <<seen, key, now>>

\* the iterator of a dictionary refuses to go on once the length has changed, or
\* when it would meet more keys than there were at its start
IteratorFails(t) ==
  \/ Cardinality(DOMAIN seen) # scan[t].size
  \/ /\ Cardinality(scan[t].met) = scan[t].size
     /\ DOMAIN seen \ scan[t].met # {}

Met(s, k) == [s EXCEPT !.met = s.met \cup {k}, !.at = k]

\* the iterator meets a key, and hands it to the key function
MeetKey(t) ==
  /\ step[t] = "scanning"
  /\ ~IteratorFails(t)
  /\ \E k \in DOMAIN seen \ scan[t].met :
       /\ scan' = [scan EXCEPT ![t] = Met(@, k)]
       /\ Goto(t, "weighing")
  /\ UNCHANGED <<seen, key, now>>

ScanFails(t) ==
  /\ step[t] = "scanning"
  /\ IteratorFails(t)
  /\ Goto(t, "RuntimeError")
  /\ scan' = [scan EXCEPT ![t] = NoScan]
  /\ UNCHANGED <<seen, key, now>>

\* seeded bug: the key recorded last is taken for the oldest
OlderReversed(at, since, oldest) == oldest = NoKey \/ seen[at] > since

\* min keeps the smaller of two values, and the first of two equal ones
Older(at, since, oldest) == oldest = NoKey \/ seen[at] < since

Weighed(s) ==
  IF Older(s.at, s.since, s.oldest)
  THEN [s EXCEPT !.oldest = s.at, !.since = seen[s.at], !.at = NoKey]
  ELSE [s EXCEPT !.at = NoKey]

\* lambda k: self._seen[k]
WeighKey(t) ==
  /\ step[t] = "weighing"
  /\ IF scan[t].at \in DOMAIN seen
     THEN /\ Goto(t, "scanning")
          /\ scan' = [scan EXCEPT ![t] = Weighed(@)]
     ELSE /\ Goto(t, "KeyError")
          /\ scan' = [scan EXCEPT ![t] = NoScan]
  /\ UNCHANGED <<seen, key, now>>

ScanEnds(t) ==
  /\ step[t] = "scanning"
  /\ ~IteratorFails(t)
  /\ DOMAIN seen \subseteq scan[t].met
  /\ Goto(t, "deleting")
  /\ UNCHANGED <<seen, key, now, scan>>

\* del self._seen[oldest_key], which another thread may have evicted
DeleteOldest(t) ==
  /\ step[t] = "deleting"
  /\ LET oldest == scan[t].oldest IN
     IF oldest \notin DOMAIN seen
     THEN /\ Goto(t, "KeyError")
          /\ UNCHANGED seen
     ELSE /\ seen' = Restrict(seen, DOMAIN seen \ {oldest})
          /\ Goto(t, "recorded")
  /\ scan' = [scan EXCEPT ![t] = NoScan]
  /\ UNCHANGED <<key, now>>

-----------------------------------------------------------------------------
\* the caller takes the outcome, or the exception, and goes on
Leave(t) ==
  /\ Goto(t, "out")
  /\ UNCHANGED <<seen, key, now, scan>>

Scans == [size : Nat, met : SUBSET Keys, at : Keys \cup {NoKey},
          oldest : Keys \cup {NoKey}, since : Int]

TrackerTypeOK ==
  /\ DOMAIN seen \subseteq Keys /\ IsFiniteSet(DOMAIN seen)
  /\ \A k \in DOMAIN seen : seen[k] \in Int
  /\ step \in [Threads -> Steps]
  /\ key \in [Threads -> Keys \cup {NoKey}]
  /\ now \in [Threads -> Int]
  /\ scan \in [Threads -> Scans]
=============================================================================
