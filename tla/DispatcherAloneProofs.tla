------------------------ MODULE DispatcherAloneProofs -----------------------
(***************************************************************************)
(* Proofs of what Dispatcher and its tracker promise to a single caller,   *)
(* for any keys, capacity and tuples of backends, and a clock that may     *)
(* step back.                                                              *)
(***************************************************************************)
EXTENDS DispatcherProofs

-----------------------------------------------------------------------------
(* The inductive invariant                                                 *)

\* Only the callers are ever in the tracker.
InTracker == \A t \in Threads : step[t] # "out" => t \in callers

\* min() has weighed the keys W, and has the oldest of them.
HasWeighed(s, W) ==
  /\ s.size = Cardinality(DOMAIN seen)
  /\ W \subseteq DOMAIN seen
  /\ s.oldest = NoKey <=> W = {}
  /\ W # {} => /\ s.oldest \in W /\ s.since = seen[s.oldest]
               /\ \A k \in W : s.since <= seen[k]

\* What a call finds is what it left: the key it found is still there, and min()
\* sees the dictionary it started on.
TrackerSound(t) ==
  LET s == scan[t] IN
  /\ step[t] \notin Errors
  /\ step[t] = "reading" => key[t] \in DOMAIN seen
  /\ step[t] = "scanning" => HasWeighed(s, s.met)
  /\ step[t] = "weighing" => s.at \in DOMAIN seen \cap s.met
                             /\ HasWeighed(s, s.met \ {s.at})
  /\ step[t] = "deleting" => /\ s.oldest \in DOMAIN seen
                             /\ \A k \in DOMAIN seen : seen[s.oldest] <= seen[k]

\* One key too many is there from the write until the oldest is deleted.
Capacity ==
  LET n == Cardinality(DOMAIN seen) IN
  /\ n <= MaxCapacity + 1
  /\ \A t \in Threads : step[t] \in {"starting", "scanning", "weighing", "deleting"} => n = MaxCapacity + 1
  /\ \/ n <= MaxCapacity
     \/ \E t \in Threads : step[t] \in {"measuring", "starting", "scanning", "weighing", "deleting"}

\* A call that is about to record has found no duplicate.
Unexpired ==
  \A t \in Threads : step[t] = "writing" /\ key[t] \in DOMAIN seen =>
    now[t] - seen[key[t]] >= WindowSeconds

AloneInv == (\A t \in Threads : TrackerSound(t)) /\ Capacity /\ Unexpired

\* The keys other than its own that the first n events of d recorded no earlier than
\* event i.
Others(d, i, n) ==
  {d[h].key : h \in {g \in 1..n : d[g].key # d[i].key /\ d[g].at >= d[i].at}}

\* What was recorded is still in the dictionary, with its time or a later one,
\* unless as many other keys took its place.
Kept ==
  \A i \in 1..Len(dispatched) :
    \/ Cardinality(Others(dispatched, i, Len(dispatched))) >= MaxCapacity
    \/ /\ dispatched[i].key \in DOMAIN seen
       /\ seen[dispatched[i].key] >= dispatched[i].at

-----------------------------------------------------------------------------
(* One caller                                                              *)

\* Who calls the Dispatcher is settled, and who is in the tracker is a caller.
LEMMA InTrackerNext ==
  ASSUME TypeOK, InTracker, [Next]_vars
  PROVE  InTracker' /\ callers' = callers
  <1>1. callers' = callers
    BY DEF Next, vars, dispatchVars, config, Tracks, Records, Suppresses, StartsSending,
       TrackerRaises, GateRaises, BackendReturns, BackendRaises, SendEndsNotify,
       NotifyReturns, NotifyTracked, NotifyUntracked, Tick, ClockStepsBack, BoundsReached
  <1>2. ASSUME NEW t \in Threads, NEW k \in Keys, NotifyTracked(t, k)
        PROVE  InTracker'
    BY <1>1, <1>2 DEF NotifyTracked, CallIsSuppressed, Goto, InTracker, TypeOK,
                      TrackerTypeOK
  <1>3. ASSUME NEW t \in Threads, Tracks(t)
        PROVE  InTracker'
    <2>1. TrackerTypeOK /\ TrackerStep(t)
      BY <1>3, TracksFrame DEF TypeOK
    <2>2. step' = [step EXCEPT ![t] = step'[t]] /\ step[t] # "out"
      BY <2>1, TrackerStepType
    <2> QED BY <1>1, <2>1, <2>2 DEF InTracker, TrackerTypeOK
  <1>4. ASSUME NEW t \in Threads, Records(t)
        PROVE  InTracker'
    BY <1>1, <1>4 DEF Records, Write, Goto, InTracker, TypeOK, TrackerTypeOK
  <1>5. ASSUME NEW t \in Threads, LeavesTracker(t)
        PROVE  InTracker'
    BY <1>1, <1>5, LeavesFrame DEF Goto, InTracker, TypeOK, TrackerTypeOK
  <1>6. ASSUME step' = step
        PROVE  InTracker'
    BY <1>1, <1>6 DEF InTracker
  <1> QED BY <1>1, <1>2, <1>3, <1>4, <1>5, <1>6, NextCases, PhaseFrame, SendsFrame
          DEF NotifyUntracked, trackerVars

\* While the one caller is in the tracker nobody else is.
LEMMA NobodyElse ==
  ASSUME Alone, InTracker, NEW t \in callers
  PROVE  \A u \in Threads \ {t} : step[u] = "out"
  BY DEF Alone, InTracker

\* A step of the one caller is looked at on its own.
LEMMA OnlyOwn ==
  ASSUME TypeOK, Alone, InTracker, IsFiniteSet(DOMAIN seen'), NEW t \in callers,
         step' = [step EXCEPT ![t] = step'[t]], TrackerSound(t)',
         Cardinality(DOMAIN seen') <=
           IF step'[t] \in {"measuring", "starting", "scanning", "weighing", "deleting"}
           THEN MaxCapacity + 1 ELSE MaxCapacity,
         step'[t] \in {"starting", "scanning", "weighing", "deleting"} =>
           Cardinality(DOMAIN seen') = MaxCapacity + 1,
         step'[t] = "writing" /\ key'[t] \in DOMAIN seen' =>
           now'[t] - seen'[key'[t]] >= WindowSeconds
  PROVE  AloneInv'
  <1>0. t \in Threads
    BY DEF TypeOK
  <1>1. \A u \in Threads \ {t} : step'[u] = "out"
    BY NobodyElse DEF TypeOK, TrackerTypeOK
  <1>2. \A u \in Threads \ {t} : TrackerSound(u)'
    BY <1>1 DEF TrackerSound, Errors
  <1>3. Unexpired'
    BY <1>0, <1>1 DEF Unexpired
  <1>4. Cardinality(DOMAIN seen') \in Nat /\ MaxCapacity \in Nat
    BY FS_CardinalityType, TrackerAssumption
  <1>5. Capacity'
    BY <1>0, <1>1, <1>4 DEF Capacity
  <1> QED BY <1>2, <1>3, <1>5 DEF AloneInv

\* What holds where the one caller is.
LEMMA Where ==
  ASSUME TypeOK, Alone, InTracker, AloneInv, NEW t \in callers
  PROVE  /\ t \in Threads /\ TrackerSound(t)
         /\ MaxCapacity \in Nat /\ WindowSeconds \in Int /\ NoKey \notin Keys
         /\ IsFiniteSet(DOMAIN seen) /\ Cardinality(DOMAIN seen) \in Nat
         /\ Cardinality(DOMAIN seen) <= MaxCapacity + 1
         /\ step[t] \in {"starting", "scanning", "weighing", "deleting"} =>
              Cardinality(DOMAIN seen) = MaxCapacity + 1
         /\ step[t] \notin {"measuring", "starting", "scanning", "weighing", "deleting"} =>
              Cardinality(DOMAIN seen) <= MaxCapacity
         /\ step[t] = "writing" /\ key[t] \in DOMAIN seen =>
              now[t] - seen[key[t]] >= WindowSeconds
  <1>1. t \in Threads /\ IsFiniteSet(DOMAIN seen)
    BY DEF TypeOK, TrackerTypeOK
  <1>2. MaxCapacity \in Nat /\ WindowSeconds \in Int /\ NoKey \notin Keys
        /\ Cardinality(DOMAIN seen) \in Nat
    BY <1>1, FS_CardinalityType, TrackerAssumption
  <1>3. \A u \in Threads \ {t} : step[u] = "out"
    BY NobodyElse
  <1> QED BY <1>1, <1>2, <1>3 DEF AloneInv, Capacity, Unexpired

-----------------------------------------------------------------------------
(* Its steps in the tracker                                                *)

LEMMA LookUpAlone ==
  ASSUME TypeOK, Alone, InTracker, AloneInv, NEW t \in callers, LookUp(t)
  PROVE  AloneInv'
  <1>1. /\ step' = [step EXCEPT ![t] = step'[t]]
        /\ step[t] = "looking" /\ UNCHANGED <<seen, key, now, scan>>
        /\ step'[t] = IF key[t] \in DOMAIN seen THEN "reading" ELSE "writing"
    BY Where DEF LookUp, Goto, TypeOK, TrackerTypeOK
  <1>2. TrackerSound(t)'
    BY <1>1 DEF TrackerSound, Errors
  <1> QED BY <1>1, <1>2, Where, OnlyOwn

LEMMA ReadLastSeenAlone ==
  ASSUME TypeOK, Alone, InTracker, AloneInv, NEW t \in callers, ReadLastSeen(t)
  PROVE  AloneInv'
  <1>1. key[t] \in DOMAIN seen /\ step[t] = "reading"
    BY Where DEF ReadLastSeen, TrackerSound
  <1>2. /\ step' = [step EXCEPT ![t] = step'[t]]
        /\ UNCHANGED <<seen, key, now, scan>>
        /\ step'[t] = IF WithinWindow(now[t], seen[key[t]]) THEN "suppressed" ELSE "writing"
    BY <1>1, Where DEF ReadLastSeen, Goto, TypeOK, TrackerTypeOK
  <1>3. TrackerSound(t)'
    BY <1>2 DEF TrackerSound, Errors
  <1>4. now[t] \in Int /\ seen[key[t]] \in Int
    BY <1>1, Where DEF TypeOK, TrackerTypeOK
  <1>5. step'[t] = "writing" => now'[t] - seen'[key'[t]] >= WindowSeconds
    BY <1>2, <1>4, Where DEF WithinWindow
  <1> QED BY <1>1, <1>2, <1>3, <1>5, Where, OnlyOwn

LEMMA MeasureAlone ==
  ASSUME TypeOK, Alone, InTracker, AloneInv, NEW t \in callers, Measure(t)
  PROVE  AloneInv'
  <1>1. /\ step' = [step EXCEPT ![t] = step'[t]]
        /\ step[t] = "measuring" /\ UNCHANGED <<seen, key, now>>
        /\ step'[t] = IF OverCapacity THEN "starting" ELSE "recorded"
    BY Where DEF Measure, Goto, TypeOK, TrackerTypeOK
  <1>2. TrackerSound(t)'
    BY <1>1 DEF TrackerSound, Errors
  <1> QED BY <1>1, <1>2, Where, OnlyOwn DEF OverCapacity

LEMMA StartScanAlone ==
  ASSUME TypeOK, Alone, InTracker, AloneInv, NEW t \in callers, StartScan(t)
  PROVE  AloneInv'
  <1>1. step[t] = "starting" /\ DOMAIN seen # {}
    BY Where, FS_EmptySet DEF StartScan
  <1>2. /\ step' = [step EXCEPT ![t] = step'[t]]
        /\ UNCHANGED <<seen, key, now>>
        /\ step'[t] = "scanning"
        /\ scan'[t] = [NoScan EXCEPT !.size = Cardinality(DOMAIN seen)]
    BY <1>1, Where DEF StartScan, Goto, TypeOK, TrackerTypeOK
  <1>3. TrackerSound(t)'
    BY <1>2 DEF TrackerSound, HasWeighed, NoScan, Errors
  <1> QED BY <1>1, <1>2, <1>3, Where, OnlyOwn

\* min() does not meet its own iterator's error.
LEMMA IteratorGoesOn ==
  ASSUME TypeOK, Alone, InTracker, AloneInv, NEW t \in callers, step[t] = "scanning"
  PROVE  ~IteratorFails(t)
  <1>1. HasWeighed(scan[t], scan[t].met)
    BY Where DEF TrackerSound
  <1>2. Cardinality(scan[t].met) = scan[t].size => scan[t].met = DOMAIN seen
    BY <1>1, Where, FS_Subset DEF HasWeighed
  <1> QED BY <1>1, <1>2 DEF IteratorFails, HasWeighed

LEMMA MeetKeyAlone ==
  ASSUME TypeOK, Alone, InTracker, AloneInv, NEW t \in callers, MeetKey(t)
  PROVE  AloneInv'
  <1>1. PICK k \in DOMAIN seen \ scan[t].met :
          scan' = [scan EXCEPT ![t] = Met(@, k)]
    BY DEF MeetKey
  <1>2. /\ step' = [step EXCEPT ![t] = step'[t]] /\ step'[t] = "weighing"
        /\ step[t] = "scanning"
        /\ UNCHANGED <<seen, key, now>>
    BY Where DEF MeetKey, Goto, TypeOK, TrackerTypeOK
  <1>3. scan[t] \in Scans /\ scan'[t] = [scan[t] EXCEPT !.met = @ \cup {k}, !.at = k]
    BY <1>1, Where DEF Met, TypeOK, TrackerTypeOK
  <1>4. /\ scan'[t].at = k /\ scan'[t].met = scan[t].met \cup {k}
        /\ scan'[t].size = scan[t].size /\ scan'[t].oldest = scan[t].oldest
        /\ scan'[t].since = scan[t].since
    BY <1>3 DEF Scans
  <1>5. scan'[t].met \ {k} = scan[t].met
    BY <1>1, <1>4
  <1>6. HasWeighed(scan[t], scan[t].met)
    BY <1>2, Where DEF TrackerSound
  <1>7. TrackerSound(t)'
    BY <1>1, <1>2, <1>4, <1>5, <1>6 DEF TrackerSound, Errors, HasWeighed
  <1> QED BY <1>2, <1>7, Where, OnlyOwn

LEMMA WeighKeyAlone ==
  ASSUME TypeOK, Alone, InTracker, AloneInv, NEW t \in callers, WeighKey(t)
  PROVE  AloneInv'
  <1> DEFINE s == scan[t]
             W == s.met \ {s.at}
  <1>1. /\ step[t] = "weighing" /\ s.at \in DOMAIN seen \cap s.met
        /\ HasWeighed(s, W)
    BY Where DEF WeighKey, TrackerSound
  <1>2. /\ step' = [step EXCEPT ![t] = step'[t]] /\ step'[t] = "scanning"
        /\ scan' = [scan EXCEPT ![t] = Weighed(s)]
        /\ UNCHANGED <<seen, key, now>>
    BY <1>1, Where DEF WeighKey, Goto, TypeOK, TrackerTypeOK
  <1>3. s \in Scans /\ scan'[t] = Weighed(s) /\ \A k \in DOMAIN seen : k \in Keys /\ seen[k] \in Int
    BY <1>2, Where DEF TypeOK, TrackerTypeOK
  <1>4. Weighed(s).met = s.met /\ Weighed(s).size = s.size
    BY <1>3 DEF Weighed, Scans
  <1>5. CASE Older(s.at, s.since, s.oldest)
    <2>1. Weighed(s).oldest = s.at /\ Weighed(s).since = seen[s.at]
      BY <1>3, <1>5 DEF Weighed, Scans
    <2>2. \A k \in W : seen[s.at] <= seen[k]
      BY <1>1, <1>3, <1>5 DEF Older, HasWeighed
    <2>3. \A k \in s.met : seen[s.at] <= seen[k]
      BY <1>1, <1>3, <2>2
    <2>4. HasWeighed(Weighed(s), s.met)
      BY <1>1, <1>3, <1>4, <2>1, <2>3, Where DEF HasWeighed
    <2>5. TrackerSound(t)'
      BY <1>2, <1>3, <1>4, <2>4 DEF TrackerSound, Errors, HasWeighed
    <2> QED BY <1>1, <1>2, <2>5, Where, OnlyOwn
  <1>6. CASE ~Older(s.at, s.since, s.oldest)
    <2>1. Weighed(s).oldest = s.oldest /\ Weighed(s).since = s.since
      BY <1>3, <1>6 DEF Weighed, Scans
    <2>2. W # {} /\ s.since <= seen[s.at]
      BY <1>1, <1>3, <1>6 DEF Older, HasWeighed, Scans
    <2>3. HasWeighed(Weighed(s), s.met)
      BY <1>1, <1>4, <2>1, <2>2 DEF HasWeighed
    <2>4. TrackerSound(t)'
      BY <1>2, <1>3, <1>4, <2>3 DEF TrackerSound, Errors, HasWeighed
    <2> QED BY <1>1, <1>2, <2>4, Where, OnlyOwn
  <1> QED BY <1>5, <1>6

LEMMA ScanEndsAlone ==
  ASSUME TypeOK, Alone, InTracker, AloneInv, NEW t \in callers, ScanEnds(t)
  PROVE  AloneInv'
  <1> DEFINE s == scan[t]
  <1>1. /\ step[t] = "scanning" /\ HasWeighed(s, s.met) /\ s.met = DOMAIN seen
    BY Where DEF ScanEnds, TrackerSound, HasWeighed
  <1>2. /\ step' = [step EXCEPT ![t] = step'[t]] /\ step'[t] = "deleting"
        /\ UNCHANGED <<seen, key, now, scan>>
    BY Where DEF ScanEnds, Goto, TypeOK, TrackerTypeOK
  <1>3. DOMAIN seen # {}
    BY <1>1, Where, FS_EmptySet
  <1>4. TrackerSound(t)'
    BY <1>1, <1>2, <1>3 DEF TrackerSound, Errors, HasWeighed
  <1> QED BY <1>1, <1>2, <1>4, Where, OnlyOwn

\* The key that goes is the oldest, and as many stay as there may be.
LEMMA DeleteOldestAlone ==
  ASSUME TypeOK, Alone, InTracker, AloneInv, NEW t \in callers, DeleteOldest(t)
  PROVE  /\ AloneInv'
         /\ \E k \in DOMAIN seen : /\ DOMAIN seen' = DOMAIN seen \ {k}
                                   /\ \A j \in DOMAIN seen : seen[k] <= seen[j]
                                   /\ \A j \in DOMAIN seen' : seen'[j] = seen[j]
                                   /\ Cardinality(DOMAIN seen') = MaxCapacity
  <1> DEFINE k == scan[t].oldest
  <1>1. /\ step[t] = "deleting" /\ k \in DOMAIN seen
        /\ \A j \in DOMAIN seen : seen[k] <= seen[j]
    BY Where DEF DeleteOldest, TrackerSound
  <1>2. /\ step' = [step EXCEPT ![t] = step'[t]] /\ step'[t] = "recorded"
        /\ seen' = Restrict(seen, DOMAIN seen \ {k})
    BY <1>1, Where DEF DeleteOldest, Goto, TypeOK, TrackerTypeOK
  <1>3. /\ DOMAIN seen' = DOMAIN seen \ {k}
        /\ \A j \in DOMAIN seen' : seen'[j] = seen[j]
    BY <1>2 DEF Restrict
  <1>4. IsFiniteSet(DOMAIN seen') /\ Cardinality(DOMAIN seen') = MaxCapacity
    <2>1. /\ IsFiniteSet(DOMAIN seen) /\ Cardinality(DOMAIN seen) = MaxCapacity + 1
          /\ MaxCapacity \in Nat
      BY <1>1, Where
    <2>2. k \in DOMAIN seen
      BY <1>1
    <2> DEFINE S == DOMAIN seen
    <2> HIDE DEF k, S
    <2>3. IsFiniteSet(S) /\ k \in S
      BY <2>1, <2>2 DEF S
    <2>4. IsFiniteSet(S \ {k}) /\ Cardinality(S \ {k}) = Cardinality(S) - 1
      BY <2>3, FS_RemoveElement
    <2> QED BY <1>3, <2>1, <2>4 DEF S
  <1>5. TrackerSound(t)'
    BY <1>2 DEF TrackerSound, Errors
  <1>6. MaxCapacity <= MaxCapacity
    BY TrackerAssumption
  <1>7. AloneInv'
    BY <1>2, <1>4, <1>5, <1>6, OnlyOwn
  <1> QED BY <1>1, <1>3, <1>4, <1>7

\* A write adds one key at most.
LEMMA RecordsAlone ==
  ASSUME TypeOK, Alone, InTracker, AloneInv, NEW t \in callers, Records(t)
  PROVE  AloneInv'
  <1>1. /\ step' = [step EXCEPT ![t] = step'[t]] /\ step'[t] = "measuring"
        /\ step[t] = "writing"
    BY Where DEF Records, Write, Goto, TypeOK, TrackerTypeOK
  <1>2. DOMAIN seen' = DOMAIN seen \cup {key[t]}
    BY DEF Records, Write
  <1>3. /\ IsFiniteSet(DOMAIN seen) /\ Cardinality(DOMAIN seen) \in Nat
        /\ Cardinality(DOMAIN seen) <= MaxCapacity /\ MaxCapacity \in Nat
    BY <1>1, Where
  <1>4. IsFiniteSet(DOMAIN seen') /\ Cardinality(DOMAIN seen') <= MaxCapacity + 1
    <2> DEFINE S == DOMAIN seen
    <2>1. IsFiniteSet(S) /\ Cardinality(S) <= MaxCapacity /\ Cardinality(S) \in Nat
      BY <1>3
    <2> HIDE DEF S
    <2>2. /\ IsFiniteSet(S \cup {key[t]})
          /\ Cardinality(S \cup {key[t]}) <= Cardinality(S) + 1
      <3>1. Cardinality(S \cup {key[t]}) = IF key[t] \in S THEN Cardinality(S)
                                           ELSE Cardinality(S) + 1
        BY <2>1, FS_AddElement
      <3>2. IsFiniteSet(S \cup {key[t]})
        BY <2>1, FS_AddElement
      <3> QED BY <2>1, <3>1, <3>2
    <2>3. Cardinality(S \cup {key[t]}) \in Nat
      BY <2>2, FS_CardinalityType
    <2> QED BY <1>2, <1>3, <2>1, <2>2, <2>3 DEF S
  <1>5. TrackerSound(t)'
    BY <1>1 DEF TrackerSound, Errors
  <1> QED BY <1>1, <1>4, <1>5, OnlyOwn

-----------------------------------------------------------------------------
(* The invariant is kept                                                   *)

LEMMA TracksAlone ==
  ASSUME TypeOK, Alone, InTracker, AloneInv, NEW t \in Threads, Tracks(t)
  PROVE  AloneInv'
  <1>1. TrackerStep(t) /\ step[t] # "out"
    BY TracksFrame, TrackerStepType DEF TypeOK
  <1>2. t \in callers
    BY <1>1 DEF InTracker
  <1>3. ~ScanFails(t)
    BY <1>2, IteratorGoesOn DEF ScanFails
  <1> QED BY <1>1, <1>2, <1>3, LookUpAlone, ReadLastSeenAlone, MeasureAlone, StartScanAlone,
             MeetKeyAlone, WeighKeyAlone, ScanEndsAlone, DeleteOldestAlone DEF TrackerStep

LEMMA EntersAlone ==
  ASSUME TypeOK, Alone, InTracker, AloneInv, NEW t \in Threads, NEW k \in Keys,
         NotifyTracked(t, k)
  PROVE  AloneInv'
  <1>1. /\ t \in callers /\ step[t] = "out" /\ seen' = seen
        /\ step' = [step EXCEPT ![t] = step'[t]] /\ step'[t] = "looking"
    BY DEF NotifyTracked, CallIsSuppressed, Goto, TypeOK, TrackerTypeOK
  <1>2. TrackerSound(t)'
    BY <1>1 DEF TrackerSound, Errors
  <1> QED BY <1>1, <1>2, Where, OnlyOwn

LEMMA LeavesAlone ==
  ASSUME TypeOK, Alone, InTracker, AloneInv, NEW t \in Threads, LeavesTracker(t)
  PROVE  AloneInv'
  <1>1. step[t] \in {"suppressed", "recorded"} \cup Errors
    BY DEF LeavesTracker, Suppresses, StartsSending, TrackerRaises
  <1>2. t \in callers
    BY <1>1 DEF InTracker, Errors
  <1>3. /\ step' = [step EXCEPT ![t] = step'[t]] /\ step'[t] = "out" /\ seen' = seen
    BY LeavesFrame DEF Goto, TypeOK, TrackerTypeOK
  <1>4. TrackerSound(t)'
    BY <1>3 DEF TrackerSound, Errors
  <1> QED BY <1>1, <1>2, <1>3, <1>4, Where, OnlyOwn DEF Errors

LEMMA AloneNext ==
  ASSUME TypeOK, Alone, InTracker, AloneInv, [Next]_vars
  PROVE  AloneInv'
  <1>1. ASSUME UNCHANGED trackerVars
        PROVE  AloneInv'
    BY <1>1 DEF trackerVars, AloneInv, TrackerSound, HasWeighed, Capacity, Unexpired
  <1>2. ASSUME NEW t \in Threads, Records(t)
        PROVE  AloneInv'
    BY <1>2, RecordsAlone DEF InTracker, Records, Write
  <1>3. ASSUME NEW t \in Threads, GateRaises(t) \/ NotifyReturns(t) \/ Sends(t)
        PROVE  UNCHANGED trackerVars
    BY <1>3 DEF GateRaises, NotifyReturns, Sends, BackendReturns, BackendRaises,
                SendEndsNotify
  <1> QED BY <1>1, <1>2, <1>3, NextCases, TracksAlone, EntersAlone, LeavesAlone
          DEF NotifyUntracked

\* With one caller the tracker is always sound.
AloneIInv == IInv /\ InTracker /\ (Alone => AloneInv)

LEMMA AloneInit == Init => AloneIInv
  <1> SUFFICES ASSUME Init PROVE AloneIInv
    OBVIOUS
  <1>1. \A t \in Threads : step[t] = "out"
    BY DEF Init, TrackerInit
  <1>2. DOMAIN seen = {} /\ Cardinality({}) = 0
    BY FS_EmptySet DEF Init, TrackerInit
  <1>3. AloneInv
    BY <1>1, <1>2, TrackerAssumption DEF AloneInv, TrackerSound, Errors, Capacity, Unexpired
  <1> QED BY <1>1, <1>3, InitInvariant DEF AloneIInv, InTracker

LEMMA AloneInvariance == Spec => []AloneIInv
  <1>1. IInv => TypeOK
    BY DEF IInv
  <1>2. AloneIInv /\ [Next]_vars => (InTracker /\ (Alone => AloneInv))'
    <2> SUFFICES ASSUME AloneIInv, [Next]_vars
                 PROVE  InTracker' /\ (Alone' => AloneInv')
      OBVIOUS
    <2>1. InTracker' /\ (Alone' <=> Alone)
      BY <1>1, InTrackerNext DEF AloneIInv, Alone
    <2> QED BY <1>1, <2>1, AloneNext DEF AloneIInv
  <1>3. Init => InTracker /\ (Alone => AloneInv)
    BY AloneInit DEF AloneIInv
  <1>4. AloneIInv <=> IInv /\ InTracker /\ (Alone => AloneInv)
    BY DEF AloneIInv
  <1> QED BY <1>2, <1>3, <1>4, Invariance, PTL DEF Spec

\* Called by one thread, the tracker never raises into notify.
THEOREM NeverRaises == Spec => []TrackerNeverRaises
  <1>1. AloneIInv => TrackerNeverRaises
    BY DEF AloneIInv, AloneInv, TrackerSound, TrackerNeverRaises
  <1> QED BY <1>1, AloneInvariance, PTL

\* Called by one thread, the tracker exceeds its capacity only while it records.
THEOREM Bounded == Spec => []TrackerBounded
  <1>1. AloneIInv => TrackerBounded
    BY DEF AloneIInv, AloneInv, Capacity, TrackerBounded
  <1> QED BY <1>1, AloneInvariance, PTL

\* Called by one thread, the tracker evicts the key recorded longest ago.
THEOREM OldestEvicted == Spec => EvictsOldest
  <1>1. ASSUME AloneIInv, [Next]_vars, Alone,
               NEW k \in DOMAIN seen \ DOMAIN seen', NEW j \in DOMAIN seen
        PROVE  seen[k] <= seen[j]
    <2>1. TypeOK /\ InTracker /\ AloneInv
      BY <1>1 DEF AloneIInv, IInv
    <2>2. \A t \in Threads, x \in Keys : ~NotifyTracked(t, x)
      BY <1>1 DEF NotifyTracked, CallIsSuppressed
    <2>3. \A t \in Threads : ~NotifyUntracked(t) /\ ~Records(t) /\ ~LeavesTracker(t)
      BY <1>1, LeavesFrame DEF NotifyUntracked, Records, Write, trackerVars
    <2>4. PICK t \in Threads : Tracks(t)
      BY <1>1, <2>2, <2>3, NextCases, PhaseFrame, SendsFrame DEF trackerVars
    <2>5. DeleteOldest(t) /\ t \in callers
      BY <1>1, <2>1, <2>4 DEF Tracks, LookUp, ReadLastSeen, Measure, StartScan, MeetKey, ScanFails,
                              WeighKey, ScanEnds, DeleteOldest, InTracker
    <2> QED BY <1>1, <2>1, <2>5, DeleteOldestAlone
  <1>2. AloneIInv /\ [Next]_vars =>
          [Alone => \A k \in DOMAIN seen \ DOMAIN seen' : \A j \in DOMAIN seen :
                      seen[k] <= seen[j]]_vars
    BY <1>1
  <1> QED BY <1>2, AloneInvariance, PTL DEF Spec, EvictsOldest

-----------------------------------------------------------------------------
(* Duplicates                                                              *)

\* Finitely many keys were recorded, and as events are recorded they only grow.
LEMMA OthersFinite ==
  ASSUME NEW d, NEW i, NEW n \in Nat
  PROVE  IsFiniteSet(Others(d, i, n)) /\ Cardinality(Others(d, i, n)) \in Nat
  <1> DEFINE S == {g \in 1..n : d[g].key # d[i].key /\ d[g].at >= d[i].at}
             f == [h \in S |-> d[h].key]
  <1>1. IsFiniteSet(S)
    <2>1. IsFiniteSet(1..n)
      BY FS_Interval
    <2> QED BY <2>1, FS_Subset
  <1>2. f \in Surjection(S, Others(d, i, n))
    BY DEF Surjection, Others
  <1> QED BY <1>1, <1>2, FS_Surjection, FS_CardinalityType

LEMMA OthersGrow ==
  ASSUME NEW d, NEW e, NEW m \in Nat, NEW n \in Nat, m <= n, NEW i \in 1..m,
         \A h \in 1..m : e[h] = d[h]
  PROVE  Cardinality(Others(d, i, m)) <= Cardinality(Others(e, i, n))
  <1>1. Others(d, i, m) \subseteq Others(e, i, n)
    BY DEF Others
  <1>2. IsFiniteSet(Others(e, i, n))
    BY OthersFinite
  <1> QED BY <1>1, <1>2, FS_Subset

\* Times are integers.
LEMMA RecordedType ==
  ASSUME TypeOK
  PROVE  /\ Len(dispatched) \in Nat
         /\ \A h \in 1..Len(dispatched) : dispatched[h].at \in Int
         /\ \A j \in DOMAIN seen : seen[j] \in Int
         /\ \A t \in Threads : now[t] \in Int
  <1>1. dispatched \in Seq([key : Keys, at : Int, by : Nat])
    BY DEF TypeOK
  <1>2. \A h \in 1..Len(dispatched) : dispatched[h] \in [key : Keys, at : Int, by : Nat]
    BY <1>1, ElementOfSeq
  <1> QED BY <1>1, <1>2 DEF TypeOK, TrackerTypeOK

\* The dictionary the key was evicted from holds as many others, no older.
LEMMA EvictedForOthers ==
  ASSUME TypeOK, SeenRecorded, NEW i \in 1..Len(dispatched),
         NEW k, k = dispatched[i].key, k \in DOMAIN seen, seen[k] >= dispatched[i].at,
         \A j \in DOMAIN seen : seen[k] <= seen[j]
  PROVE  Cardinality(DOMAIN seen \ {k}) <=
           Cardinality(Others(dispatched, i, Len(dispatched)))
  <1>1. /\ Len(dispatched) \in Nat
        /\ \A h \in 1..Len(dispatched) : dispatched[h].at \in Int
        /\ \A j \in DOMAIN seen : seen[j] \in Int
    BY RecordedType
  <1>2. ASSUME NEW j \in DOMAIN seen \ {k}
        PROVE  j \in Others(dispatched, i, Len(dispatched))
    <2>1. PICK h \in 1..Len(dispatched) : dispatched[h].key = j
                                         /\ dispatched[h].at = seen[j]
      BY DEF SeenRecorded
    <2>2. dispatched[h].at >= dispatched[i].at
      BY <1>1, <2>1
    <2> QED BY <2>1, <2>2 DEF Others
  <1>3. DOMAIN seen \ {k} \subseteq Others(dispatched, i, Len(dispatched))
    BY <1>2
  <1> QED BY <1>1, <1>3, OthersFinite, FS_Subset

\* No duplicate so far, and what is needed to find the next one.
DiscardInv == Kept /\ DuplicatesDiscarded

\* What was recorded leaves the dictionary only for as many others.
LEMMA TracksKept ==
  ASSUME TypeOK, SeenRecorded, Alone, InTracker, AloneInv, Kept, NEW t \in Threads,
         Tracks(t)
  PROVE  Kept'
  <1>1. dispatched' = dispatched
    BY TracksFrame
  <1>2. CASE seen' = seen
    BY <1>1, <1>2 DEF Kept
  <1>3. CASE seen' # seen
    <2>1. DeleteOldest(t) /\ t \in callers
      BY <1>3 DEF Tracks, LookUp, ReadLastSeen, Measure, StartScan, MeetKey, ScanFails,
                  WeighKey, ScanEnds, DeleteOldest, InTracker
    <2>2. PICK k \in DOMAIN seen : /\ DOMAIN seen' = DOMAIN seen \ {k}
                                   /\ \A j \in DOMAIN seen : seen[k] <= seen[j]
                                   /\ \A j \in DOMAIN seen' : seen'[j] = seen[j]
                                   /\ Cardinality(DOMAIN seen') = MaxCapacity
      BY <2>1, DeleteOldestAlone
    <2>3. ASSUME NEW i \in 1..Len(dispatched)
          PROVE  \/ Cardinality(Others(dispatched, i, Len(dispatched))) >= MaxCapacity
                 \/ /\ dispatched[i].key \in DOMAIN seen'
                    /\ seen'[dispatched[i].key] >= dispatched[i].at
      <3>1. CASE dispatched[i].key # k
        BY <2>2, <3>1 DEF Kept
      <3>2. CASE dispatched[i].key = k /\ seen[k] >= dispatched[i].at
        <4>1. MaxCapacity <= Cardinality(Others(dispatched, i, Len(dispatched)))
          BY <2>2, <3>2, EvictedForOthers
        <4>2. Cardinality(Others(dispatched, i, Len(dispatched))) \in Nat
          BY OthersFinite DEF TypeOK
        <4> QED BY <4>1, <4>2, TrackerAssumption
      <3>3. CASE dispatched[i].key = k /\ ~(seen[k] >= dispatched[i].at)
        BY <3>3 DEF Kept
      <3> QED BY <3>1, <3>2, <3>3
    <2> QED BY <1>1, <2>3 DEF Kept
  <1> QED BY <1>2, <1>3

\* A key is recorded again only when its time is a window old, or it was evicted.
LEMMA RecordsKept ==
  ASSUME WindowSeconds >= 0, TypeOK, Alone, InTracker, AloneInv, DiscardInv,
         NEW t \in Threads, Records(t)
  PROVE  DiscardInv'
  <1> DEFINE n == Len(dispatched)
             k == key[t]
  <1>1. /\ n \in Nat /\ Len(dispatched') = n + 1
        /\ \A i \in 1..n : dispatched'[i] = dispatched[i]
        /\ dispatched'[n + 1].key = k /\ dispatched'[n + 1].at = now[t]
    BY RecordsGrow
  <1>2. /\ DOMAIN seen' = DOMAIN seen \cup {k}
        /\ \A j \in DOMAIN seen' : seen'[j] = IF j = k THEN now[t] ELSE seen[j]
    BY DEF Records, Write
  <1>3. t \in callers /\ step[t] = "writing"
    BY DEF Records, Write, InTracker
  <1>4. k \in DOMAIN seen => now[t] - seen[k] >= WindowSeconds
    BY <1>3, Where
  <1>5. /\ now[t] \in Int /\ WindowSeconds \in Int /\ MaxCapacity \in Nat
        /\ \A j \in DOMAIN seen : seen[j] \in Int
        /\ \A i \in 1..n : dispatched[i].at \in Int
    BY TrackerAssumption, RecordedType
  <1>6. ASSUME NEW i \in 1..n, NEW m \in Nat, n <= m,
               Cardinality(Others(dispatched, i, n)) >= MaxCapacity
        PROVE  Cardinality(Others(dispatched', i, m)) >= MaxCapacity
    <2>1. Cardinality(Others(dispatched, i, n)) <= Cardinality(Others(dispatched', i, m))
      BY <1>1, <1>6, OthersGrow
    <2>2. /\ Cardinality(Others(dispatched, i, n)) \in Nat
          /\ Cardinality(Others(dispatched', i, m)) \in Nat
      BY <1>1, OthersFinite
    <2> QED BY <1>5, <1>6, <2>1, <2>2
  <1>7. Kept'
    <2>1. ASSUME NEW i \in 1..n + 1
          PROVE  \/ Cardinality(Others(dispatched', i, n + 1)) >= MaxCapacity
                 \/ /\ dispatched'[i].key \in DOMAIN seen'
                    /\ seen'[dispatched'[i].key] >= dispatched'[i].at
      <3>1. CASE i = n + 1
        BY <1>1, <1>2, <1>5, <3>1
      <3>2. CASE i \in 1..n /\ Cardinality(Others(dispatched, i, n)) >= MaxCapacity
        BY <1>1, <1>6, <3>2
      <3>3. CASE /\ i \in 1..n /\ dispatched[i].key \in DOMAIN seen
                 /\ seen[dispatched[i].key] >= dispatched[i].at
        BY <1>1, <1>2, <1>4, <1>5, <3>3
      <3>4. i = n + 1 \/ i \in 1..n
        BY <1>1
      <3> QED BY <3>1, <3>2, <3>3, <3>4 DEF DiscardInv, Kept
    <2> QED BY <1>1, <2>1 DEF Kept
  <1>8. DuplicatesDiscarded'
    <2>1. SUFFICES ASSUME NEW j \in 1..n + 1, NEW i \in 1..j - 1,
                          dispatched'[i].key = dispatched'[j].key,
                          dispatched'[j].at - dispatched'[i].at < WindowSeconds
                   PROVE  Cardinality(Others(dispatched', i, j - 1)) >= MaxCapacity
      BY <1>1 DEF DuplicatesDiscarded, Others
    <2>2. i \in 1..n /\ dispatched'[i] = dispatched[i]
      BY <1>1
    <2>3. CASE j \in 1..n
      <3>1. dispatched'[j] = dispatched[j]
        BY <1>1, <2>3
      <3>2. Cardinality(Others(dispatched, i, j - 1)) >= MaxCapacity
        BY <2>1, <2>2, <2>3, <3>1 DEF DiscardInv, DuplicatesDiscarded, Others
      <3>3. j - 1 \in Nat /\ \A h \in 1..j - 1 : dispatched'[h] = dispatched[h]
        BY <1>1, <2>3
      <3>4. Others(dispatched', i, j - 1) = Others(dispatched, i, j - 1)
        BY <2>2, <3>3 DEF Others
      <3> QED BY <3>2, <3>4
    <2>4. CASE j = n + 1
      <3>1. dispatched[i].key = k /\ now[t] - dispatched[i].at < WindowSeconds
        BY <1>1, <2>1, <2>2, <2>4
      <3>2. ~(k \in DOMAIN seen /\ seen[k] >= dispatched[i].at)
        BY <1>4, <1>5, <2>2, <3>1
      <3>3. Cardinality(Others(dispatched, i, n)) >= MaxCapacity
        BY <2>2, <3>1, <3>2 DEF DiscardInv, Kept
      <3>4. j - 1 = n
        BY <1>1, <2>4
      <3> QED BY <1>1, <1>6, <2>2, <3>3, <3>4
    <2>5. j \in 1..n \/ j = n + 1
      BY <1>1
    <2> QED BY <2>3, <2>4, <2>5
  <1> QED BY <1>7, <1>8 DEF DiscardInv

LEMMA DiscardNext ==
  ASSUME WindowSeconds >= 0, AloneIInv, Alone, DiscardInv, [Next]_vars
  PROVE  DiscardInv'
  <1>1. TypeOK /\ SeenRecorded /\ InTracker /\ AloneInv
    BY DEF AloneIInv, IInv
  <1>2. ASSUME UNCHANGED <<seen, dispatched>>
        PROVE  DiscardInv'
    BY <1>2, SMTT(30) DEF DiscardInv, Kept, DuplicatesDiscarded
  <1>3. ASSUME NEW t \in Threads, Tracks(t)
        PROVE  DiscardInv'
    <2>1. Kept'
      BY <1>1, <1>3, TracksKept DEF DiscardInv
    <2>2. dispatched' = dispatched
      BY <1>3, TracksFrame
    <2> QED BY <2>1, <2>2 DEF DiscardInv, DuplicatesDiscarded
  <1>4. ASSUME NEW t \in Threads, Records(t)
        PROVE  DiscardInv'
    BY <1>1, <1>4, RecordsKept
  <1> QED BY <1>2, <1>3, <1>4, NextCases, LeavesFrame, PhaseFrame, SendsFrame
          DEF NotifyTracked, NotifyUntracked, CallIsSuppressed, trackerVars

\* Called by one thread, and with a window that is not negative, the Dispatcher lets
\* no duplicate through but those whose key had to make room for others.
THEOREM DiscardsDuplicates ==
  ASSUME WindowSeconds >= 0
  PROVE  Spec => []AloneDiscardsDuplicates
  <1>1. Init => (Alone => DiscardInv)
    <2>1. Init => Len(dispatched) = 0
      BY DEF Init
    <2> QED BY <2>1 DEF DiscardInv, Kept, DuplicatesDiscarded
  <1>2. AloneIInv /\ (Alone => DiscardInv) /\ [Next]_vars => (Alone => DiscardInv)'
    <2>1. AloneIInv /\ [Next]_vars => (Alone' <=> Alone)
      BY InTrackerNext DEF AloneIInv, IInv, Alone
    <2> QED BY <2>1, DiscardNext
  <1>3. (Alone => DiscardInv) => AloneDiscardsDuplicates
    BY DEF DiscardInv, AloneDiscardsDuplicates
  <1> QED BY <1>1, <1>2, <1>3, AloneInvariance, PTL DEF Spec

-----------------------------------------------------------------------------
(* Refinement of DuplicateFilter                                           *)

Recording == {"measuring", "starting", "scanning", "weighing", "deleting"}

\* A call that has written its key finds it as it wrote it.
Written ==
  \A t \in Threads : step[t] \in Recording =>
    key[t] \in DOMAIN seen /\ seen[key[t]] = now[t]

\* Who calls, and whether there is a tracker, is settled.
LEMMA Settled ==
  ASSUME [Next]_vars
  PROVE  callers' = callers /\ tracked' = tracked
  BY DEF Next, vars, dispatchVars, config, Tracks, Records, Suppresses, StartsSending,
     TrackerRaises, GateRaises, BackendReturns, BackendRaises, SendEndsNotify,
     NotifyReturns, NotifyTracked, NotifyUntracked, Tick, ClockStepsBack, BoundsReached

\* Nobody else writes between a call's write and its end.
LEMMA WrittenNext ==
  ASSUME TypeOK, Alone, InTracker, AloneInv, Written, [Next]_vars
  PROVE  Written'
  <1>0. step \in [Threads -> Steps]
    BY DEF TypeOK, TrackerTypeOK
  <1>1. ASSUME UNCHANGED <<seen, key, now>>,
               \A t \in Threads : step'[t] \in Recording => step[t] \in Recording
        PROVE  Written'
    BY <1>1 DEF Written
  <1>2. ASSUME NEW t \in Threads, NEW k \in Keys, NotifyTracked(t, k)
        PROVE  Written'
    <2>1. /\ step[t] = "out" /\ step' = [step EXCEPT ![t] = "looking"] /\ seen' = seen
          /\ key' = [key EXCEPT ![t] = k] /\ now' = [now EXCEPT ![t] = clock]
      BY <1>2 DEF NotifyTracked, CallIsSuppressed, Goto
    <2>2. ASSUME NEW u \in Threads, step'[u] \in Recording
          PROVE  key'[u] \in DOMAIN seen' /\ seen'[key'[u]] = now'[u]
      <3>1. u # t /\ step[u] \in Recording
        BY <1>0, <2>1, <2>2 DEF Recording
      <3>2. key'[u] = key[u] /\ now'[u] = now[u]
        BY <2>1, <3>1 DEF TypeOK, TrackerTypeOK
      <3> QED BY <2>1, <3>1, <3>2 DEF Written
    <2> QED BY <2>2 DEF Written
  <1>3. ASSUME NEW t \in Threads, Tracks(t)
        PROVE  Written'
    <2>1. CASE DeleteOldest(t)
      <3>1. t \in callers /\ step[t] = "deleting"
        BY <2>1 DEF DeleteOldest, InTracker
      <3>2. step'[t] = "recorded" /\ \A u \in Threads \ {t} : step'[u] = step[u]
        BY <1>0, <2>1, <3>1, Where DEF DeleteOldest, Goto, TrackerSound, Errors
      <3>3. \A u \in Threads \ {t} : step[u] = "out"
        BY <3>1, NobodyElse
      <3> QED BY <3>2, <3>3 DEF Written, Recording
    <2>2. CASE ~DeleteOldest(t)
      <3>1. UNCHANGED <<seen, key, now>>
        BY <1>3, <2>2 DEF Tracks, LookUp, ReadLastSeen, Measure, StartScan, MeetKey, ScanFails,
                          WeighKey, ScanEnds
      <3>2. step'[t] \in Recording => step[t] \in Recording
        BY <1>0, <1>3, <2>2 DEF Tracks, LookUp, ReadLastSeen, Measure, StartScan, MeetKey, ScanFails,
                                WeighKey, ScanEnds, Goto, Recording
      <3>3. \A u \in Threads \ {t} : step'[u] = step[u]
        BY <1>0, <1>3, <2>2 DEF Tracks, LookUp, ReadLastSeen, Measure, StartScan, MeetKey, ScanFails,
                                WeighKey, ScanEnds, Goto
      <3> QED BY <1>1, <3>1, <3>2, <3>3
    <2> QED BY <2>1, <2>2
  <1>4. ASSUME NEW t \in Threads, Records(t)
        PROVE  Written'
    <2>1. t \in callers /\ step[t] = "writing"
      BY <1>4 DEF Records, Write, InTracker
    <2>2. /\ \A u \in Threads \ {t} : step'[u] = "out"
          /\ key' = key /\ now' = now
          /\ key[t] \in DOMAIN seen' /\ seen'[key[t]] = now[t]
      BY <1>0, <1>4, <2>1, NobodyElse DEF Records, Write, Goto
    <2> QED BY <2>2 DEF Written, Recording
  <1>5. ASSUME NEW t \in Threads, LeavesTracker(t)
        PROVE  Written'
    BY <1>0, <1>1, <1>5, LeavesFrame DEF Goto, Recording
  <1> QED BY <1>1, <1>2, <1>3, <1>4, <1>5, NextCases, PhaseFrame, SendsFrame
          DEF NotifyUntracked, trackerVars


\* What the tracker of the caller t looks like from outside, while t calls.
Outside(t) ==
  /\ Remembered = IF OverCapacity THEN Restrict(seen, DOMAIN seen \ {key[t]}) ELSE seen
  /\ Asked = IF phase[t] # "idle" THEN <<key[t], now[t]>> ELSE <<>>
  /\ Verdict = IF phase[t] = "idle" THEN "none"
               ELSE IF "suppressed" \in {step[t], phase[t]} THEN "suppressed"
               ELSE IF step[t] \in {"looking", "reading", "writing"} \/ OverCapacity
                    THEN "pending"
               ELSE "recorded"

\* The dictionary is a function.
IsDictionary == seen = [k \in DOMAIN seen |-> seen[k]]

LEMMA DictionaryNext ==
  ASSUME IsDictionary, [Next]_vars
  PROVE  IsDictionary'
  <1>1. CASE seen' = seen
    BY <1>1 DEF IsDictionary
  <1>2. ASSUME NEW t \in Threads, Tracks(t)
        PROVE  IsDictionary'
    <2>1. seen' = seen \/ seen' = Restrict(seen, DOMAIN seen \ {scan[t].oldest})
      BY <1>2 DEF Tracks, LookUp, ReadLastSeen, Measure, StartScan, MeetKey, ScanFails, WeighKey,
                  ScanEnds, DeleteOldest
    <2> QED BY <1>1, <2>1 DEF IsDictionary, Restrict
  <1>3. ASSUME NEW t \in Threads, Records(t)
        PROVE  IsDictionary'
    BY <1>3 DEF Records, Write, IsDictionary
  <1> QED BY <1>1, <1>2, <1>3, NextCases, LeavesFrame, PhaseFrame, SendsFrame
          DEF NotifyTracked, NotifyUntracked, CallIsSuppressed, trackerVars

LEMMA FromOutside ==
  ASSUME InUse, [Next]_vars
  PROVE  \E t \in Threads : callers = {t} /\ Alone /\ tracked /\ Outside(t) /\ Outside(t)'
  <1>1. PICK t \in Threads : callers = {t}
    BY DEF InUse
  <1>2. tracked /\ tracked' /\ callers' = {t}
    BY <1>1, Settled DEF InUse
  <1>3. InUse' /\ Caller = t /\ Caller' = t
    BY <1>1, <1>2 DEF InUse, Caller
  <1>4. Outside(t)
    BY <1>3 DEF Outside, Remembered, Asked, Verdict
  <1>5. Outside(t)'
    BY <1>3 DEF Outside, Remembered, Asked, Verdict
  <1> QED BY <1>1, <1>2, <1>4, <1>5 DEF Alone

\* Where the one caller is outside the tracker, or has not got to its write, there is no
\* key too many.
LEMMA NotOver ==
  ASSUME TypeOK, Alone, InTracker, AloneInv, NEW t \in callers, callers = {t}
  PROVE  /\ OverCapacity => step[t] \in Recording
         /\ step[t] \in {"starting", "scanning", "weighing", "deleting"} => OverCapacity
         /\ step[t] # "out" <=> phase[t] = "tracking"
  BY Where DEF OverCapacity, Recording, TypeOK

\* An event comes.
LEMMA AsksOutside ==
  ASSUME AloneIInv, Alone, NEW t \in Threads, callers = {t}, Outside(t), Outside(t)',
         NEW k \in Keys, NotifyTracked(t, k)
  PROVE  Filter!Ask(k)
  <1>0. TypeOK /\ AloneInv /\ InTracker /\ t \in callers
    BY DEF AloneIInv, IInv
  <1>1. /\ step[t] = "out" /\ step'[t] = "looking" /\ key'[t] = k /\ now'[t] = clock
        /\ phase'[t] = "tracking" /\ phase[t] # "tracking" /\ UNCHANGED <<seen, clock>>
    BY <1>0 DEF NotifyTracked, CallIsSuppressed, Goto, TypeOK, TrackerTypeOK, Ended
  <1>2. ~OverCapacity /\ ~OverCapacity'
    BY <1>0, <1>1, NotOver DEF Recording, OverCapacity
  <1> QED BY <1>1, <1>2 DEF Filter!Ask, Outside

\* A step that shows nothing outside.
Quiet == UNCHANGED <<Remembered, Asked, Verdict>>

LEMMA QuietStep ==
  ASSUME NEW t \in Threads, Outside(t), Outside(t)', UNCHANGED <<seen, key, now>>,
         phase'[t] = phase[t],
         "suppressed" \notin {step[t], step'[t], phase[t]},
         OverCapacity \/ (step'[t] \in {"looking", "reading", "writing"}
                            <=> step[t] \in {"looking", "reading", "writing"})
  PROVE  Quiet
  BY DEF Quiet, Outside, OverCapacity

\* Looking the key up and reading its time shows nothing, until there is a duplicate.
LEMMA ReadsOutside ==
  ASSUME AloneIInv, Alone, NEW t \in Threads, callers = {t}, Outside(t), Outside(t)',
         Tracks(t), ReadLastSeen(t)
  PROVE  Filter!Suppress \/ Quiet
  <1>0. TypeOK /\ AloneInv /\ InTracker /\ t \in callers
    BY DEF AloneIInv, IInv
  <1>1. /\ step[t] = "reading" /\ key[t] \in DOMAIN seen
        /\ UNCHANGED <<seen, key, now, phase, clock>>
    BY <1>0, Where DEF ReadLastSeen, TrackerSound, Tracks, dispatchVars
  <1>2. step'[t] = IF now[t] - seen[key[t]] < WindowSeconds THEN "suppressed" ELSE "writing"
    BY <1>0, <1>1 DEF ReadLastSeen, Goto, TypeOK, TrackerTypeOK, WithinWindow
  <1>3. ~OverCapacity /\ ~OverCapacity' /\ phase[t] = "tracking"
    BY <1>0, <1>1, NotOver DEF Recording, OverCapacity
  <1>4. CASE now[t] - seen[key[t]] < WindowSeconds
    <2>1. Verdict = "pending" /\ Verdict' = "suppressed"
      BY <1>1, <1>2, <1>3, <1>4 DEF Outside
    <2>2. /\ Remembered = seen /\ Remembered' = seen
          /\ Asked = <<key[t], now[t]>> /\ Asked' = Asked
      BY <1>1, <1>3 DEF Outside
    <2> QED BY <1>1, <1>4, <2>1, <2>2 DEF Filter!Suppress, Filter!IsDuplicate
  <1>5. CASE ~(now[t] - seen[key[t]] < WindowSeconds)
    BY <1>1, <1>2, <1>3, <1>5, QuietStep
  <1> QED BY <1>4, <1>5

\* Sizes are the same there.
LEMMA SameSize == \A S : Filter!Cardinality(S) = Cardinality(S)
  BY DEF Filter!Cardinality, Cardinality

\* Deleting the oldest key makes room for the one that was written.
LEMMA DeletesOutside ==
  ASSUME AloneIInv, Written, IsDictionary, Alone, NEW t \in Threads, callers = {t},
         Outside(t), Outside(t)', Tracks(t), DeleteOldest(t)
  PROVE  Filter!LetThrough
  <1>0. TypeOK /\ AloneInv /\ InTracker /\ t \in callers
    BY DEF AloneIInv, IInv
  <1>1. /\ step[t] = "deleting" /\ UNCHANGED <<key, now, phase, clock>>
        /\ scan[t].oldest \in DOMAIN seen
        /\ \A j \in DOMAIN seen : seen[scan[t].oldest] <= seen[j]
    BY <1>0, Where DEF DeleteOldest, TrackerSound, Tracks, dispatchVars
  <1>2. /\ seen' = Restrict(seen, DOMAIN seen \ {scan[t].oldest})
        /\ step'[t] = "recorded"
    BY <1>0, <1>1 DEF DeleteOldest, Goto, TypeOK, TrackerTypeOK
  <1>3. OverCapacity /\ ~OverCapacity' /\ phase[t] = "tracking"
    <2>1. Cardinality(DOMAIN seen') = MaxCapacity /\ MaxCapacity \in Nat
      BY <1>0, DeleteOldestAlone, TrackerAssumption
    <2>2. ~OverCapacity'
      BY <2>1 DEF OverCapacity
    <2> QED BY <1>0, <1>1, <2>2, NotOver
  <1>4. Remembered = Restrict(seen, DOMAIN seen \ {key[t]}) /\ Remembered' = seen'
        /\ Asked = <<key[t], now[t]>> /\ Asked' = Asked
        /\ Verdict = "pending" /\ Verdict' = "recorded"
    BY <1>1, <1>2, <1>3 DEF Outside
  <1>5. Filter!Recorded(Remembered, key[t], now[t]) = seen
    <2>1. key[t] \in DOMAIN seen /\ seen[key[t]] = now[t]
      BY <1>1 DEF Written, Recording
    <2>2. /\ DOMAIN Remembered \cup {key[t]} = DOMAIN seen
          /\ \A j \in DOMAIN seen : (IF j = key[t] THEN now[t] ELSE Remembered[j]) = seen[j]
      BY <1>4, <2>1 DEF Restrict
    <2> QED BY <2>2 DEF Filter!Recorded, IsDictionary
  <1>6. seen' \in Filter!Trimmed(seen)
    <2>1. scan[t].oldest \in Filter!Oldest(seen)
      BY <1>1 DEF Filter!Oldest
    <2> QED BY <1>2, <1>3, <2>1, SameSize DEF Filter!Trimmed, Filter!Restrict, Restrict, OverCapacity
  <1> QED BY <1>1, <1>4, <1>5, <1>6 DEF Filter!LetThrough, Filter!IsDuplicate, Restrict

\* A key is recorded at its write, unless it has to wait for room.
LEMMA WritesOutside ==
  ASSUME AloneIInv, IsDictionary, Alone, NEW t \in Threads, callers = {t}, Outside(t),
         Outside(t)', Records(t)
  PROVE  Filter!LetThrough \/ Quiet
  <1>0. TypeOK /\ AloneInv /\ InTracker /\ t \in callers
    BY DEF AloneIInv, IInv
  <1>1. /\ step[t] = "writing" /\ UNCHANGED <<key, now, phase, clock>>
        /\ step'[t] = "measuring"
        /\ seen' = Filter!Recorded(seen, key[t], now[t])
        /\ DOMAIN seen' = DOMAIN seen \cup {key[t]}
    BY <1>0 DEF Records, Write, Goto, TypeOK, TrackerTypeOK, Filter!Recorded
  <1>2. ~OverCapacity /\ phase[t] = "tracking"
    BY <1>0, <1>1, NotOver DEF Recording
  <1>3. /\ Remembered = seen /\ Verdict = "pending"
        /\ Asked = <<key[t], now[t]>> /\ Asked' = Asked
    BY <1>1, <1>2 DEF Outside
  <1>4. CASE OverCapacity'
    <2>1. key[t] \notin DOMAIN seen
      <3>1. DOMAIN seen' # DOMAIN seen
        BY <1>2, <1>4 DEF OverCapacity
      <3> QED BY <1>1, <3>1
    <2>2. Restrict(seen', DOMAIN seen' \ {key[t]}) = seen
      <3>1. /\ DOMAIN seen' \ {key[t]} = DOMAIN seen
            /\ \A j \in DOMAIN seen : seen'[j] = seen[j]
        BY <1>1, <2>1 DEF Filter!Recorded
      <3> QED BY <3>1 DEF Restrict, IsDictionary
    <2>3. Remembered' = seen /\ Verdict' = "pending"
      BY <1>1, <1>2, <1>4, <2>2 DEF Outside
    <2> QED BY <1>3, <2>3 DEF Quiet
  <1>5. CASE ~OverCapacity'
    <2>1. Remembered' = seen' /\ Verdict' = "recorded"
      BY <1>1, <1>2, <1>5 DEF Outside
    <2>2. seen' \in Filter!Trimmed(seen')
      BY <1>5, SameSize DEF Filter!Trimmed, OverCapacity
    <2>3. ~Filter!IsDuplicate
      <3>1. key[t] \in DOMAIN seen => now[t] - seen[key[t]] >= WindowSeconds
        BY <1>0, <1>1, Where
      <3>2. \A k \in DOMAIN seen : seen[k] \in Int
        BY <1>0 DEF TypeOK, TrackerTypeOK
      <3>3. now[t] \in Int /\ WindowSeconds \in Int
        BY <1>0, TrackerAssumption DEF TypeOK, TrackerTypeOK
      <3> QED BY <1>3, <3>1, <3>2, <3>3 DEF Filter!IsDuplicate
    <2> QED BY <1>1, <1>3, <2>1, <2>2, <2>3 DEF Filter!LetThrough
  <1> QED BY <1>4, <1>5

\* Every step in the tracker is one of the abstract ones, or shows nothing.
LEMMA TracksOutside ==
  ASSUME AloneIInv, Written, IsDictionary, Alone, NEW t \in Threads, callers = {t},
         Outside(t), Outside(t)', Tracks(t)
  PROVE  Filter!Suppress \/ Filter!LetThrough \/ Quiet
  <1>0. TypeOK /\ AloneInv /\ InTracker /\ t \in callers
    BY DEF AloneIInv, IInv
  <1>1. UNCHANGED phase /\ step \in [Threads -> Steps]
    BY <1>0 DEF Tracks, dispatchVars, TypeOK, TrackerTypeOK
  <1>2. CASE LookUp(t)
    <2>1. /\ UNCHANGED <<seen, key, now>> /\ step[t] = "looking"
          /\ step'[t] \in {"reading", "writing"} /\ phase[t] = "tracking"
      BY <1>0, <1>1, <1>2, NotOver DEF LookUp, Goto
    <2> QED BY <1>1, <2>1, QuietStep
  <1>3. CASE Measure(t)
    <2>1. /\ UNCHANGED <<seen, key, now>> /\ step[t] = "measuring"
          /\ step'[t] \in {"starting", "recorded"} /\ phase[t] = "tracking"
      BY <1>0, <1>1, <1>3, NotOver DEF Measure, Goto
    <2> QED BY <1>1, <2>1, QuietStep
  <1>4. CASE StartScan(t) \/ MeetKey(t) \/ WeighKey(t) \/ ScanEnds(t)
    <2>1. /\ UNCHANGED <<seen, key, now>> /\ step[t] \in {"starting", "scanning", "weighing"}
          /\ step'[t] \in {"scanning", "weighing", "deleting", "KeyError", "ValueError"}
          /\ phase[t] = "tracking"
      BY <1>0, <1>1, <1>4, NotOver DEF StartScan, MeetKey, WeighKey, ScanEnds, Goto
    <2> QED BY <1>1, <2>1, QuietStep
  <1>5. CASE ScanFails(t)
    BY <1>0, <1>5, IteratorGoesOn DEF ScanFails
  <1> QED BY <1>2, <1>3, <1>4, <1>5, ReadsOutside, DeletesOutside DEF Tracks

\* A call that leaves the tracker has its verdict.
LEMMA LeavesOutside ==
  ASSUME AloneIInv, Alone, NEW t \in Threads, callers = {t}, Outside(t), Outside(t)',
         LeavesTracker(t)
  PROVE  Quiet
  <1>0. TypeOK /\ AloneInv /\ InTracker /\ t \in callers
    BY DEF AloneIInv, IInv
  <1>1. /\ step \in [Threads -> Steps] /\ phase \in [Threads -> Phases]
        /\ step[t] \notin Errors
    BY <1>0, Where DEF TypeOK, TrackerTypeOK, TrackerSound
  <1>2. /\ UNCHANGED <<seen, key, now>> /\ step'[t] = "out"
        /\ \/ step[t] = "suppressed" /\ phase'[t] = "suppressed"
           \/ step[t] = "recorded" /\ phase'[t] = "sending"
    BY <1>1 DEF LeavesTracker, Suppresses, StartsSending, TrackerRaises, Leave, Goto
  <1>3. ~OverCapacity /\ ~OverCapacity' /\ phase[t] = "tracking"
    BY <1>0, <1>2, NotOver DEF Recording, OverCapacity
  <1> QED BY <1>2, <1>3 DEF Quiet, Outside

\* What follows in notify is no business of the tracker.
LEMMA SendsOutside ==
  ASSUME AloneIInv, Alone, NEW t \in Threads, callers = {t}, Outside(t), Outside(t)',
         NEW u \in Threads, GateRaises(u) \/ NotifyReturns(u) \/ Sends(u)
  PROVE  Quiet
  <1>0. TypeOK /\ AloneInv /\ InTracker /\ t \in callers
    BY DEF AloneIInv, IInv
  <1>1. /\ UNCHANGED <<seen, step, key, now>> /\ phase[u] = "sending"
        /\ phase' = phase \/ \E p \in {"dispatched", "raised"} :
                               phase' = [phase EXCEPT ![u] = p]
    BY PhaseFrame, SendsFrame
  <1>2. phase \in [Threads -> Phases]
    BY <1>0 DEF TypeOK
  <1>3. \/ phase'[t] = phase[t]
        \/ phase[t] = "sending" /\ phase'[t] \in {"dispatched", "raised"}
    BY <1>1, <1>2
  <1>4. phase[t] = "sending" => step[t] = "out"
    BY <1>0, NotOver
  <1>5. OverCapacity' <=> OverCapacity
    BY <1>1 DEF OverCapacity
  <1>6. step'[t] = step[t]
    BY <1>1
  <1> QED BY <1>1, <1>3, <1>4, <1>5, <1>6 DEF Quiet, Outside

LEMMA FilterStep ==
  ASSUME AloneIInv, TypeOK', Alone => Written, IsDictionary, [Next]_vars
  PROVE  [Filter!FilterNext]_(Filter!filterVars)
  <1>0. clock' \in Int
    BY DEF TypeOK
  <1>1. Quiet => Filter!TimeChanges
    BY <1>0 DEF Quiet, Filter!TimeChanges
  <1>2. CASE ~InUse
    <2>1. ~InUse'
      BY <1>2, Settled DEF InUse
    <2>2. Quiet
      BY <1>2, <2>1 DEF Quiet, Remembered, Asked, Verdict
    <2> QED BY <1>1, <2>2 DEF Filter!FilterNext
  <1>3. CASE InUse
    <2>1. PICK t \in Threads : callers = {t} /\ Alone /\ tracked /\ Outside(t) /\ Outside(t)'
      BY <1>3, FromOutside
    <2>2. InTracker /\ TypeOK
      BY DEF AloneIInv, IInv
    <2>3. ASSUME NEW u \in Threads, NEW k \in Keys, NotifyTracked(u, k)
          PROVE  Filter!FilterNext
      <3>1. u = t
        BY <2>1, <2>3 DEF NotifyTracked
      <3> QED BY <2>1, <2>3, <3>1, AsksOutside DEF Filter!FilterNext
    <2>4. ASSUME NEW u \in Threads, Tracks(u)
          PROVE  Filter!FilterNext
      <3>1. u = t
        BY <2>1, <2>2, <2>4, TracksFrame, TrackerStepType DEF InTracker, TypeOK
      <3> QED BY <1>1, <2>1, <2>4, <3>1, TracksOutside DEF Filter!FilterNext
    <2>5. ASSUME NEW u \in Threads, Records(u)
          PROVE  Filter!FilterNext
      <3>1. u = t
        BY <2>1, <2>2, <2>5 DEF InTracker, Records, Write
      <3> QED BY <1>1, <2>1, <2>5, <3>1, WritesOutside DEF Filter!FilterNext
    <2>6. ASSUME NEW u \in Threads, LeavesTracker(u)
          PROVE  Filter!FilterNext
      <3>1. u = t
        BY <2>1, <2>2, <2>6
           DEF InTracker, LeavesTracker, Suppresses, StartsSending, TrackerRaises, Errors
      <3> QED BY <1>1, <2>1, <2>6, <3>1, LeavesOutside DEF Filter!FilterNext
    <2>7. ASSUME NEW u \in Threads, GateRaises(u) \/ NotifyReturns(u) \/ Sends(u)
          PROVE  Filter!FilterNext
      BY <1>1, <2>1, <2>7, SendsOutside DEF Filter!FilterNext
    <2>8. \A u \in Threads : ~NotifyUntracked(u)
      BY <2>1 DEF NotifyUntracked
    <2>9. ASSUME UNCHANGED <<trackerVars, phase>>
          PROVE  Filter!FilterNext
      <3>1. Quiet
        BY <2>1, <2>9 DEF trackerVars, Quiet, Outside, OverCapacity
      <3> QED BY <1>1, <3>1 DEF Filter!FilterNext
    <2> QED BY <2>3, <2>4, <2>5, <2>6, <2>7, <2>8, <2>9, NextCases
  <1> QED BY <1>2, <1>3

\* Called by one thread, the tracker is the atomic filter of duplicates it passes for.
THEOREM AloneIsADuplicateFilter == Spec => ImplementsDuplicateFilter
  <1> DEFINE Known == (Alone => Written) /\ IsDictionary
  <1>1. Init => Filter!FilterInit /\ Known
    <2> SUFFICES ASSUME Init PROVE Filter!FilterInit /\ Known
      OBVIOUS
    <2>1. /\ seen = [k \in {} |-> 0] /\ clock = 0
          /\ \A t \in Threads : step[t] = "out" /\ phase[t] = "idle"
      BY DEF Init, TrackerInit
    <2>2. Known
      BY <2>1 DEF Written, Recording, IsDictionary
    <2>3. ~OverCapacity
      BY <2>1, FS_EmptySet, TrackerAssumption DEF OverCapacity
    <2>4. InUse => phase[Caller] = "idle"
      BY <2>1 DEF InUse, Caller
    <2>5. Remembered = [k \in {} |-> 0] /\ Asked = <<>> /\ Verdict = "none"
      BY <2>1, <2>3, <2>4 DEF Remembered, Asked, Verdict
    <2> QED BY <2>1, <2>2, <2>5 DEF Filter!FilterInit
  <1>2. AloneIInv /\ Known /\ [Next]_vars => Known'
    <2>1. AloneIInv /\ [Next]_vars => (Alone' <=> Alone)
      BY Settled DEF Alone
    <2> QED BY <2>1, WrittenNext, DictionaryNext DEF AloneIInv, IInv
  <1>3. AloneIInv /\ AloneIInv' /\ Known /\ [Next]_vars =>
          [Filter!FilterNext]_(Filter!filterVars)
    BY FilterStep DEF AloneIInv, IInv
  <1> HIDE DEF Known
  <1> QED BY <1>1, <1>2, <1>3, AloneInvariance, PTL
          DEF Spec, ImplementsDuplicateFilter, Filter!FilterSpec

=============================================================================
