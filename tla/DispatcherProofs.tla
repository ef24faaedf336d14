-------------------------- MODULE DispatcherProofs --------------------------
(***************************************************************************)
(* Proofs about Dispatcher, for any number of threads, any keys, window    *)
(* and capacity, any tuples of backends, and a clock that may step back.   *)
(***************************************************************************)
EXTENDS Dispatcher, SequenceTheorems, FiniteSetTheorems, TLAPS

TrackerStep(t) == \/ LookUp(t) \/ ReadLastSeen(t) \/ Measure(t) \/ StartScan(t)
                  \/ MeetKey(t) \/ ScanFails(t) \/ WeighKey(t) \/ ScanEnds(t) \/ DeleteOldest(t)

\* A thread that only moves on keeps the types of the tracker.
LEMMA GotoType ==
  ASSUME TrackerTypeOK, NEW t \in Threads, NEW s \in Steps, Goto(t, s)
  PROVE  step' \in [Threads -> Steps]
  BY DEF TrackerTypeOK, Goto

\* Whatever a step of the tracker does, its variables keep their types.
LEMMA TrackerStepType ==
  ASSUME TrackerTypeOK, NEW t \in Threads, TrackerStep(t)
  PROVE  /\ TrackerTypeOK'
         /\ step' = [step EXCEPT ![t] = step'[t]]
         /\ step[t] # "out" /\ step'[t] # "out"
         /\ key' = key /\ now' = now
  <1>0. Cardinality(DOMAIN seen) \in Nat
    BY FS_CardinalityType DEF TrackerTypeOK
  <1>1. CASE LookUp(t)
    BY <1>1 DEF LookUp, Goto, TrackerTypeOK, Steps
  <1>2. CASE ReadLastSeen(t)
    BY <1>2 DEF ReadLastSeen, Goto, TrackerTypeOK, Steps, Errors
  <1>3. CASE Measure(t)
    BY <1>3 DEF Measure, Goto, TrackerTypeOK, Steps
  <1>9. CASE StartScan(t)
    BY <1>0, <1>9 DEF StartScan, Goto, TrackerTypeOK, Steps, Errors, Scans, NoScan
  <1>4. CASE MeetKey(t)
    <2>1. PICK k \in DOMAIN seen \ scan[t].met :
            /\ scan' = [scan EXCEPT ![t] = Met(@, k)]
            /\ Goto(t, "weighing")
      BY <1>4 DEF MeetKey
    <2>2. k \in Keys /\ scan \in [Threads -> Scans]
      BY DEF TrackerTypeOK
    <2>3. Met(scan[t], k) \in Scans
      BY <2>2 DEF Scans, Met
    <2>4. scan' \in [Threads -> Scans]
      BY <2>1, <2>2, <2>3
    <2> QED BY <1>4, <2>1, <2>4 DEF MeetKey, Goto, TrackerTypeOK, Steps
  <1>5. CASE ScanFails(t)
    BY <1>5 DEF ScanFails, Goto, TrackerTypeOK, Steps, Errors, Scans, NoScan
  <1>6. CASE WeighKey(t)
    <2>1. scan \in [Threads -> Scans] /\ NoScan \in Scans
      BY DEF TrackerTypeOK, Scans, NoScan
    <2>2. ASSUME scan[t].at \in DOMAIN seen
          PROVE  Weighed(scan[t]) \in Scans
      BY <2>1, <2>2 DEF TrackerTypeOK, Weighed, Scans
    <2>3. scan' \in [Threads -> Scans]
      BY <1>6, <2>1, <2>2 DEF WeighKey
    <2> QED BY <1>6, <2>3 DEF WeighKey, Goto, TrackerTypeOK, Steps, Errors
  <1>7. CASE ScanEnds(t)
    BY <1>7 DEF ScanEnds, Goto, TrackerTypeOK, Steps
  <1>8. CASE DeleteOldest(t)
    BY <1>8, FS_Subset 
    DEF DeleteOldest, Goto, TrackerTypeOK, Steps, Errors, Scans, NoScan, Restrict
  <1> QED BY <1>1, <1>2, <1>3, <1>4, <1>5, <1>6, <1>7, <1>8, <1>9 DEF TrackerStep

-----------------------------------------------------------------------------
(* The inductive invariant                                                 *)

\* Calls have numbers of their own, and what was recorded carries one of them.
Numbered ==
  /\ \A t \in Threads : /\ number[t] <= notifies
                        /\ phase[t] # "idle" => number[t] # 0
  /\ \A t, u \in Threads : t # u /\ number[t] = number[u] => number[t] = 0
  /\ \A i \in 1..Len(dispatched) : dispatched[i].by <= notifies

\* What the dictionary holds was recorded.
SeenRecorded ==
  \A k \in DOMAIN seen : \E i \in 1..Len(dispatched) :
    dispatched[i].key = k /\ dispatched[i].at = seen[k]

\* A call that has not got to its write has recorded nothing.
Unrecorded ==
  \A t \in Threads : step[t] \in {"looking", "reading", "suppressed", "writing"} =>
    \A i \in 1..Len(dispatched) : dispatched[i].by # number[t]

DuplicateOf(t, i) == /\ dispatched[i].key = key[t]
                     /\ dispatched[i].by # number[t]
                     /\ now[t] - dispatched[i].at < WindowSeconds

\* A call that suppresses its event, or is about to, has a duplicate.
Duplicates ==
  \A t \in Threads : step[t] = "suppressed" \/ phase[t] = "suppressed" =>
    \E i \in 1..Len(dispatched) : DuplicateOf(t, i)

\* Each backend was handed what the gate makes of the event for it, in order, and
\* has a result, unless the call raised at it.
Order(t) ==
  /\ Len(handed[t]) <= Len(backends)
  /\ \A i \in 1..Len(handed[t]) : handed[t][i] \in Handed(backends[i])
  /\ Len(results[t]) <= Len(backends)
  /\ phase[t] # "raised" => Len(handed[t]) = Len(results[t])
  /\ phase[t] = "dispatched" => Len(results[t]) = Len(backends)

HandedInOrder == \A t \in Threads : Order(t)

IInv == /\ TypeOK
        /\ Numbered
        /\ SeenRecorded
        /\ Unrecorded
        /\ Duplicates
        /\ HandedInOrder

-----------------------------------------------------------------------------
(* Types                                                                   *)

\* What a backend is handed.
LEMMA HandedType ==
  ASSUME NEW b \in Backend, NEW h \in Handed(b)
  PROVE  h \in Handings
  <1>1. Gated(b) \in Sent
    BY DispatcherAssumption DEF Gated, Sent, Content
  <1>2. PICK L \in {{b.inner}, {b.inner, b.dead_letter} \ {NoBackend}} :
          h = [l \in L |-> Gated(b)]
    BY DEF Handed
  <1>3. L \in SUBSET Leaves
    BY <1>2 DEF Backend
  <1>4. h \in [L -> Sent]
    BY <1>1, <1>2
  <1> QED BY <1>3, <1>4 DEF Handings

\* The backend that follows is one of the Dispatcher's.
LEMMA FollowingType ==
  ASSUME TypeOK, NEW t \in Threads, Sending(t)
  PROVE  /\ Len(results[t]) + 1 \in 1..Len(backends)
         /\ Following(t) = backends[Len(results[t]) + 1]
         /\ Following(t) \in Backend
  <1>1. backends \in Seq(Backend) /\ results[t] \in Seq(Results)
    BY DispatcherAssumption DEF TypeOK
  <1>2. Len(results[t]) \in Nat /\ Len(backends) \in Nat
    BY <1>1
  <1>3. Len(results[t]) + 1 \in 1..Len(backends)
    BY <1>2 DEF Sending
  <1> QED BY <1>1, <1>3 DEF Following

\* Initially every variable has its type.
LEMMA InitType == Init => TypeOK
  <1> SUFFICES ASSUME Init PROVE TypeOK
    OBVIOUS
  <1>1. TrackerTypeOK
    BY FS_EmptySet DEF Init, TrackerInit, TrackerTypeOK, Steps, Scans, NoScan
  <1> QED BY <1>1, DispatcherAssumption DEF Init, TrackerInit, TypeOK, Phases

\* What a call in the loop over the backends appends keeps the types.
LEMMA SendType ==
  ASSUME TypeOK, NEW t \in Threads, Sending(t), NEW h \in Handed(Following(t)),
         handed' = [handed EXCEPT ![t] = Append(@, h)]
  PROVE  handed' \in [Threads -> Seq(Handings)]
  <1>1. h \in Handings
    BY FollowingType, HandedType
  <1>2. handed \in [Threads -> Seq(Handings)]
    BY DEF TypeOK
  <1>3. Append(handed[t], h) \in Seq(Handings)
    BY <1>1, <1>2
  <1> QED BY <1>2, <1>3

\* Every step keeps the types.
LEMMA NextType == TypeOK /\ [Next]_vars => TypeOK'
  <1> SUFFICES ASSUME TypeOK, [Next]_vars PROVE TypeOK'
    OBVIOUS
  <1>1. ASSUME NEW t \in Threads, NEW k \in Keys, NotifyTracked(t, k)
        PROVE  TypeOK'
    BY <1>1, SMTT(30) DEF NotifyTracked, CallIsSuppressed, Goto, TypeOK, TrackerTypeOK, Steps,
                Phases, config
  <1>2. ASSUME NEW t \in Threads, NotifyUntracked(t)
        PROVE  TypeOK'
    BY <1>2, SMTT(30) DEF NotifyUntracked, Ended, TypeOK, TrackerTypeOK, trackerVars, Phases,
                config
  <1>3. ASSUME NEW t \in Threads, Tracks(t)
        PROVE  TypeOK'
    <2>1. TrackerStep(t) /\ TrackerTypeOK
      BY <1>3 DEF Tracks, TrackerStep, TypeOK
    <2>2. /\ TrackerTypeOK'
          /\ step' = [step EXCEPT ![t] = step'[t]]
          /\ step[t] # "out" /\ step'[t] # "out"
          /\ key' = key
      BY <2>1, TrackerStepType
    <2> QED BY <1>3, <2>1, <2>2 DEF Tracks, TypeOK, TrackerTypeOK, dispatchVars,
                                  config, calls
  <1>4. ASSUME NEW t \in Threads, Records(t)
        PROVE  TypeOK'
    <2>1. key[t] \in Keys /\ now[t] \in Int /\ number[t] \in Nat
      BY <1>4 DEF Records, Write, TypeOK, TrackerTypeOK
    <2>2. IsFiniteSet(DOMAIN seen \cup {key[t]})
      BY FS_AddElement DEF TypeOK, TrackerTypeOK
    <2>3. TrackerTypeOK'
      BY <1>4, <2>1, <2>2 DEF Records, Write, Goto, TypeOK, TrackerTypeOK, Steps
    <2>4. dispatched' \in Seq([key : Keys, at : Int, by : Nat])
      BY <1>4, <2>1 DEF Records, TypeOK
    <2> QED BY <1>4, <2>3, <2>4
            DEF Records, Write, Goto, TypeOK, TrackerTypeOK, config, calls
  <1>5. ASSUME NEW t \in Threads, Suppresses(t) \/ StartsSending(t) \/ TrackerRaises(t)
        PROVE  TypeOK'
    <2>1. /\ step' = [step EXCEPT ![t] = "out"]
          /\ UNCHANGED <<seen, key, now, scan, backends, callers, tracked, clock, results,
                         handed, dispatched, number, notifies>>
      BY <1>5 DEF Suppresses, StartsSending, TrackerRaises, Leave, Goto, config, calls
    <2>2. \E p \in {"suppressed", "sending", "raised"} : phase' = [phase EXCEPT ![t] = p]
      BY <1>5 DEF Suppresses, StartsSending, TrackerRaises
    <2>3. TrackerTypeOK'
      BY <2>1 DEF TypeOK, TrackerTypeOK, Steps
    <2>4. /\ phase' \in [Threads -> Phases]
          /\ \A u \in Threads : IF phase'[u] = "tracking" THEN step'[u] # "out" /\ key'[u] \in Keys
                                                         ELSE step'[u] = "out"
      BY <2>1, <2>2 DEF TypeOK, TrackerTypeOK, Phases
    <2> QED BY <2>1, <2>3, <2>4 DEF TypeOK
  <1>6. ASSUME NEW t \in Threads, GateRaises(t) \/ NotifyReturns(t)
        PROVE  TypeOK'
    BY <1>6 DEF GateRaises, NotifyReturns, Sending, TypeOK, TrackerTypeOK, trackerVars,
                Phases, config, calls
  <1>7. ASSUME NEW t \in Threads, NEW r \in {"delivered", "failed"},
               BackendReturns(t, r) \/ BackendRaises(t)
        PROVE  TypeOK'
    <2>1. handed' \in [Threads -> Seq(Handings)]
      BY <1>7, SendType DEF BackendReturns, BackendRaises
    <2>2. results' \in [Threads -> Seq(Results)]
      <3>1. results \in [Threads -> Seq(Results)]
        BY DEF TypeOK
      <3>2. PICK x \in Results : results' = [results EXCEPT ![t] = Append(@, x)]
        BY <1>7 DEF BackendReturns, BackendRaises, Results
      <3>3. Append(results[t], x) \in Seq(Results)
        BY <3>1
      <3> QED BY <3>1, <3>2, <3>3
    <2> QED BY <1>7, <2>1, <2>2 DEF BackendReturns, BackendRaises, TypeOK, TrackerTypeOK,
                                  trackerVars, config, calls
  <1>8. ASSUME NEW t \in Threads, SendEndsNotify(t)
        PROVE  TypeOK'
    <2>1. handed' \in [Threads -> Seq(Handings)]
      BY <1>8, SendType DEF SendEndsNotify
    <2> QED BY <1>8, <2>1 DEF SendEndsNotify, Sending, TypeOK, TrackerTypeOK,
                             trackerVars, Phases, config, calls
  <1>9. ASSUME Tick \/ ClockStepsBack \/ BoundsReached \/ UNCHANGED vars
        PROVE  TypeOK'
    BY <1>9 DEF Tick, ClockStepsBack, BoundsReached, vars, dispatchVars, trackerVars,
                TypeOK, TrackerTypeOK, config, calls
  <1> QED BY <1>1, <1>2, <1>3, <1>4, <1>5, <1>6, <1>7, <1>8, <1>9 DEF Next

-----------------------------------------------------------------------------
(* What the steps leave alone                                              *)

Sends(t) == \/ \E r \in {"delivered", "failed"} : BackendReturns(t, r)
            \/ BackendRaises(t)
            \/ SendEndsNotify(t)

LeavesTracker(t) == Suppresses(t) \/ StartsSending(t) \/ TrackerRaises(t)

\* The kinds of step there are.
LEMMA NextCases ==
  ASSUME [Next]_vars
  PROVE  \/ \E t \in Threads, k \in Keys : NotifyTracked(t, k)
         \/ \E t \in Threads : NotifyUntracked(t)
         \/ \E t \in Threads : Tracks(t)
         \/ \E t \in Threads : Records(t)
         \/ \E t \in Threads : LeavesTracker(t)
         \/ \E t \in Threads : GateRaises(t) \/ NotifyReturns(t)
         \/ \E t \in Threads : Sends(t)
         \/ UNCHANGED <<trackerVars, config, phase, results, handed, dispatched, calls>>
  BY DEF Next, LeavesTracker, Sends, Tick, ClockStepsBack, BoundsReached, vars, dispatchVars,
         config, calls

\* A step of the tracker leaves the calls as they are.
LEMMA TracksFrame ==
  ASSUME NEW t \in Threads, Tracks(t)
  PROVE  /\ TrackerStep(t)
         /\ UNCHANGED <<backends, phase, results, handed, dispatched, number, notifies>>
  BY DEF Tracks, TrackerStep, dispatchVars, config, calls

\* Leaving the tracker changes where the call is, and nothing it has done.
LEMMA LeavesFrame ==
  ASSUME NEW t \in Threads, LeavesTracker(t)
  PROVE  /\ Goto(t, "out")
         /\ \E p \in {"suppressed", "sending", "raised"} :
              phase' = [phase EXCEPT ![t] = p]
         /\ UNCHANGED <<backends, seen, key, now, results, handed, dispatched, number,
                      notifies>>
  BY DEF LeavesTracker, Suppresses, StartsSending, TrackerRaises, Leave, config, calls

\* Returning, or raising at the gate, changes where the call is only.
LEMMA PhaseFrame ==
  ASSUME NEW t \in Threads, GateRaises(t) \/ NotifyReturns(t)
  PROVE  /\ phase[t] = "sending"
         /\ \E p \in {"dispatched", "raised"} : phase' = [phase EXCEPT ![t] = p]
         /\ UNCHANGED <<backends, seen, step, key, now, results, handed, dispatched, number,
                      notifies>>
  BY DEF GateRaises, NotifyReturns, Sending, config, calls, trackerVars

\* Sending to a backend leaves the tracker as it is.
LEMMA SendsFrame ==
  ASSUME NEW t \in Threads, Sends(t)
  PROVE  /\ phase[t] = "sending"
         /\ phase' = phase \/ phase' = [phase EXCEPT ![t] = "raised"]
         /\ UNCHANGED <<backends, seen, step, key, now, dispatched, number, notifies>>
  BY DEF Sends, BackendReturns, BackendRaises, SendEndsNotify, Sending, config, calls,
         trackerVars

-----------------------------------------------------------------------------
(* The numbers of the calls                                                *)

\* Numbers stay distinct: a new call takes one that was never given.
LEMMA NumberedNext == TypeOK /\ Numbered /\ [Next]_vars => Numbered'
  <1> SUFFICES ASSUME TypeOK, Numbered, [Next]_vars PROVE Numbered'
    OBVIOUS
  <1> USE DEF Numbered
  <1>0. /\ number \in [Threads -> Nat] /\ notifies \in Nat
        /\ phase \in [Threads -> Phases]
        /\ dispatched \in Seq([key : Keys, at : Int, by : Nat])
    BY DEF TypeOK
  <1>1. ASSUME NEW t \in Threads,
               (\E k \in Keys : NotifyTracked(t, k)) \/ NotifyUntracked(t)
        PROVE  Numbered'
    <2>1. /\ notifies' = notifies + 1
          /\ number' = [number EXCEPT ![t] = notifies + 1]
          /\ dispatched' = dispatched
          /\ \E p \in {"tracking", "sending"} : phase' = [phase EXCEPT ![t] = p]
      BY <1>0, <1>1 DEF NotifyTracked, NotifyUntracked
    <2>2. \A i \in 1..Len(dispatched) : dispatched[i].by \in Nat
      <3>1. SUFFICES ASSUME NEW i \in 1..Len(dispatched)
                     PROVE  dispatched[i].by \in Nat
        OBVIOUS
      <3>2. dispatched[i] \in [key : Keys, at : Int, by : Nat]
        BY <1>0, ElementOfSeq
      <3> QED BY <3>2
    <2>3. /\ number'[t] = notifies + 1
          /\ \A u \in Threads \ {t} : /\ number'[u] = number[u] /\ phase'[u] = phase[u]
                                     /\ number[u] <= notifies /\ number[u] \in Nat
      BY <1>0, <2>1
    <2>4. \A u \in Threads :
            /\ number'[u] <= notifies'
            /\ phase'[u] # "idle" => number'[u] # 0
      BY <1>0, <2>1, <2>3
    <2>5. \A u, v \in Threads : u # v /\ number'[u] = number'[v] => number'[u] = 0
      BY <1>0, <2>3, SMTT(30)
    <2>6. \A i \in 1..Len(dispatched') : dispatched'[i].by <= notifies'
      <3>1. SUFFICES ASSUME NEW i \in 1..Len(dispatched)
                     PROVE  dispatched[i].by <= notifies + 1
        BY <2>1
      <3>2. dispatched[i].by \in Nat /\ dispatched[i].by <= notifies
        BY <2>2
      <3> QED BY <1>0, <3>2
    <2> QED BY <2>4, <2>5, <2>6
  <1>2. ASSUME NEW t \in Threads, Tracks(t)
        PROVE  Numbered'
    BY <1>2, TracksFrame
  <1>3. ASSUME NEW t \in Threads, Records(t)
        PROVE  Numbered'
    <2>1. /\ dispatched' = Append(dispatched, [key |-> key[t], at |-> now[t],
                                               by |-> number[t]])
          /\ UNCHANGED <<phase, number, notifies>>
          /\ key[t] \in Keys /\ now[t] \in Int
      BY <1>3 DEF Records, Write, calls, TypeOK, TrackerTypeOK
    <2>2. \A i \in 1..Len(dispatched') : dispatched'[i].by <= notifies
      <3> DEFINE d == [key |-> key[t], at |-> now[t], by |-> number[t]]
      <3>1. d \in [key : Keys, at : Int, by : Nat] /\ d.by <= notifies
        BY <1>0, <2>1
      <3> HIDE DEF d
      <3>2. dispatched' = Append(dispatched, d)
        BY <2>1 DEF d
      <3> QED BY <1>0, <3>1, <3>2, SMTT(30)
    <2> QED BY <2>1, <2>2
  <1>4. ASSUME NEW t \in Threads, LeavesTracker(t)
        PROVE  Numbered'
    <2>1. phase[t] = "tracking"
      BY <1>4 DEF LeavesTracker, Suppresses, StartsSending, TrackerRaises, Errors, TypeOK
    <2>2. \A u \in Threads : phase'[u] # "idle" => phase[u] # "idle"
      BY <1>0, <1>4, <2>1, LeavesFrame
    <2> QED BY <1>4, <2>2, LeavesFrame
  <1>5. ASSUME NEW t \in Threads, GateRaises(t) \/ NotifyReturns(t)
        PROVE  Numbered'
    <2>1. UNCHANGED <<number, notifies, dispatched>> /\ phase[t] = "sending"
      BY <1>5, PhaseFrame
    <2>2. \A u \in Threads : phase'[u] # "idle" => phase[u] # "idle"
      <3>1. PICK p \in {"dispatched", "raised"} : phase' = [phase EXCEPT ![t] = p]
        BY <1>5, PhaseFrame
      <3>2. \A u \in Threads : u # t => phase'[u] = phase[u]
        BY <1>0, <3>1
      <3> QED BY <2>1, <3>2
    <2> QED BY <2>1, <2>2
  <1>6. ASSUME NEW t \in Threads, Sends(t)
        PROVE  Numbered'
    <2>1. phase' = [phase EXCEPT ![t] = phase'[t]] /\ phase[t] = "sending"
      BY <1>0, <1>6, SendsFrame
    <2> QED BY <1>0, <1>6, <2>1, SendsFrame
  <1>7. ASSUME UNCHANGED <<trackerVars, config, phase, results, handed, dispatched, calls>>
        PROVE  Numbered'
    BY <1>7 DEF calls
  <1> QED BY <1>1, <1>2, <1>3, <1>4, <1>5, <1>6, <1>7, NextCases

-----------------------------------------------------------------------------
(* The dictionary and what was recorded                                    *)

\* A step of the tracker other than the write changes no time in the dictionary,
\* and only is_suppressed leads to its own outcomes.
LEMMA TrackerStepSeen ==
  ASSUME TrackerTypeOK, NEW t \in Threads, TrackerStep(t)
  PROVE  /\ DOMAIN seen' \subseteq DOMAIN seen
         /\ \A k \in DOMAIN seen' : seen'[k] = seen[k]
         /\ step'[t] \in {"looking", "reading", "suppressed", "writing"}
              => step[t] \in {"looking", "reading"}
         /\ step'[t] = "suppressed"
              => /\ step[t] = "reading"
                 /\ key[t] \in DOMAIN seen
                 /\ now[t] - seen[key[t]] < WindowSeconds
  BY DEF TrackerStep, LookUp, ReadLastSeen, Measure, StartScan, MeetKey, ScanFails, WeighKey,
         ScanEnds, DeleteOldest, Goto, TrackerTypeOK, Restrict, WithinWindow

\* What was recorded stays recorded, and one more may be.
LEMMA RecordsGrow ==
  ASSUME TypeOK, NEW t \in Threads, Records(t)
  PROVE  /\ Len(dispatched') = Len(dispatched) + 1
         /\ \A i \in 1..Len(dispatched) : dispatched'[i] = dispatched[i]
         /\ dispatched'[Len(dispatched) + 1].key = key[t]
         /\ dispatched'[Len(dispatched) + 1].at = now[t]
         /\ dispatched'[Len(dispatched) + 1].by = number[t]
         /\ Len(dispatched) \in Nat
  <1>1. dispatched \in Seq([key : Keys, at : Int, by : Nat])
    BY DEF TypeOK
  <1>2. key[t] \in Keys /\ now[t] \in Int /\ number[t] \in Nat
    BY DEF Records, Write, TypeOK, TrackerTypeOK
  <1> DEFINE d == [key |-> key[t], at |-> now[t], by |-> number[t]]
  <1>3. d \in [key : Keys, at : Int, by : Nat]
    BY <1>2
  <1>4. dispatched' = Append(dispatched, d)
    BY DEF Records
  <1> HIDE DEF d
  <1>5. /\ Len(dispatched') = Len(dispatched) + 1
        /\ \A i \in 1..Len(dispatched) : dispatched'[i] = dispatched[i]
        /\ dispatched'[Len(dispatched) + 1] = d
        /\ Len(dispatched) \in Nat
    BY <1>1, <1>3, <1>4
  <1> QED BY <1>5 DEF d

\* Only a write puts a time into the dictionary, and it is recorded with it.
LEMMA SeenRecordedNext == TypeOK /\ SeenRecorded /\ [Next]_vars => SeenRecorded'
  <1> SUFFICES ASSUME TypeOK, SeenRecorded, [Next]_vars PROVE SeenRecorded'
    OBVIOUS
  <1> USE DEF SeenRecorded
  <1>1. CASE UNCHANGED <<seen, dispatched>>
    BY <1>1
  <1>2. ASSUME NEW t \in Threads, Tracks(t)
        PROVE  SeenRecorded'
    <2>1. /\ DOMAIN seen' \subseteq DOMAIN seen
          /\ \A k \in DOMAIN seen' : seen'[k] = seen[k]
          /\ dispatched' = dispatched
      BY <1>2, TracksFrame, TrackerStepSeen DEF TypeOK
    <2> QED BY <2>1
  <1>3. ASSUME NEW t \in Threads, Records(t)
        PROVE  SeenRecorded'
    <2>1. SUFFICES ASSUME NEW k \in DOMAIN seen'
                   PROVE  \E i \in 1..Len(dispatched') :
                            dispatched'[i].key = k /\ dispatched'[i].at = seen'[k]
      OBVIOUS
    <2>2. /\ k \in DOMAIN seen \cup {key[t]}
          /\ seen'[k] = IF k = key[t] THEN now[t] ELSE seen[k]
      BY <1>3 DEF Records, Write
    <2>3. CASE k = key[t]
      <3>1. Len(dispatched) + 1 \in 1..Len(dispatched')
        BY <1>3, RecordsGrow
      <3>2. /\ dispatched'[Len(dispatched) + 1].key = k
            /\ dispatched'[Len(dispatched) + 1].at = seen'[k]
        BY <1>3, <2>2, <2>3, RecordsGrow
      <3> QED BY <3>1, <3>2
    <2>4. CASE k # key[t]
      <3>1. PICK i \in 1..Len(dispatched) : dispatched[i].key = k
                                           /\ dispatched[i].at = seen[k]
        BY <2>2, <2>4
      <3>2. dispatched'[i] = dispatched[i] /\ i \in 1..Len(dispatched')
        BY <1>3, RecordsGrow
      <3> QED BY <2>2, <2>4, <3>1, <3>2
    <2> QED BY <2>3, <2>4
  <1> QED BY <1>1, <1>2, <1>3, NextCases, LeavesFrame, PhaseFrame, SendsFrame
          DEF NotifyTracked, NotifyUntracked, CallIsSuppressed, trackerVars

\* A call records under its own number, which no other call has.
LEMMA UnrecordedNext ==
  TypeOK /\ Numbered /\ Unrecorded /\ [Next]_vars => Unrecorded'
  <1> SUFFICES ASSUME TypeOK, Numbered, Unrecorded, [Next]_vars PROVE Unrecorded'
    OBVIOUS
  <1> USE DEF Unrecorded
  <1>0. /\ number \in [Threads -> Nat] /\ notifies \in Nat
        /\ step \in [Threads -> Steps]
    BY DEF TypeOK, TrackerTypeOK
  <1>1. CASE UNCHANGED <<step, number, dispatched>>
    BY <1>1
  <1>2. ASSUME NEW t \in Threads, NEW k \in Keys, NotifyTracked(t, k)
        PROVE  Unrecorded'
    <2>1. /\ step' = [step EXCEPT ![t] = "looking"]
          /\ number' = [number EXCEPT ![t] = notifies + 1]
          /\ dispatched' = dispatched
      BY <1>2 DEF NotifyTracked, CallIsSuppressed, Goto
    <2>2. \A i \in 1..Len(dispatched) : dispatched[i].by # notifies + 1
      BY <1>0 DEF Numbered
    <2> QED BY <1>0, <2>1, <2>2
  <1>3. ASSUME NEW t \in Threads, NotifyUntracked(t)
        PROVE  Unrecorded'
    <2>1. step[t] = "out" /\ step' = step /\ dispatched' = dispatched
      BY <1>3 DEF NotifyUntracked, Ended, TypeOK, trackerVars
    <2>2. \A u \in Threads \ {t} : number'[u] = number[u]
      BY <1>0, <1>3 DEF NotifyUntracked
    <2> QED BY <2>1, <2>2
  <1>4. ASSUME NEW t \in Threads, Tracks(t)
        PROVE  Unrecorded'
    <2>1. /\ step' = [step EXCEPT ![t] = step'[t]]
          /\ step'[t] \in {"looking", "reading", "suppressed", "writing"}
               => step[t] \in {"looking", "reading"}
      BY <1>4, TracksFrame, TrackerStepType, TrackerStepSeen DEF TypeOK
    <2> QED BY <1>0, <1>4, <2>1, TracksFrame
  <1>5. ASSUME NEW t \in Threads, Records(t)
        PROVE  Unrecorded'
    <2>1. /\ step' = [step EXCEPT ![t] = "measuring"]
          /\ step[t] = "writing"
          /\ number' = number
      BY <1>5 DEF Records, Write, Goto, calls
    <2>2. SUFFICES ASSUME NEW u \in Threads,
                          step'[u] \in {"looking", "reading", "suppressed", "writing"},
                          NEW i \in 1..Len(dispatched')
                   PROVE  dispatched'[i].by # number[u]
      BY <2>1
    <2>3. u # t /\ step'[u] = step[u]
      BY <1>0, <2>1, <2>2
    <2>4. phase[u] # "idle"
      BY <2>2, <2>3 DEF TypeOK
    <2>5. number[u] # number[t]
      BY <2>3, <2>4 DEF Numbered
    <2>6. CASE i \in 1..Len(dispatched)
      <3>1. dispatched'[i] = dispatched[i]
        BY <1>5, <2>6, RecordsGrow
      <3>2. dispatched[i].by # number[u]
        BY <2>2, <2>3, <2>6
      <3> QED BY <3>1, <3>2
    <2>7. CASE i = Len(dispatched) + 1
      <3>1. dispatched'[i].by = number[t]
        BY <1>5, <2>7, RecordsGrow
      <3> QED BY <2>5, <3>1
    <2>8. i \in 1..Len(dispatched) \/ i = Len(dispatched) + 1
      BY <1>5, RecordsGrow
    <2> QED BY <2>6, <2>7, <2>8
  <1>6. ASSUME NEW t \in Threads, LeavesTracker(t)
        PROVE  Unrecorded'
    BY <1>0, <1>6, LeavesFrame DEF Goto
  <1> QED BY <1>1, <1>2, <1>3, <1>4, <1>5, <1>6, NextCases, PhaseFrame, SendsFrame
          DEF trackerVars, calls

\* A duplicate stays one while its call neither starts again nor records.
LEMMA DuplicatesKept ==
  ASSUME NEW t \in Threads, \E i \in 1..Len(dispatched) : DuplicateOf(t, i),
         key'[t] = key[t], now'[t] = now[t], number'[t] = number[t],
         1..Len(dispatched) \subseteq 1..Len(dispatched'),
         \A i \in 1..Len(dispatched) : dispatched'[i] = dispatched[i]
  PROVE  \E i \in 1..Len(dispatched') : DuplicateOf(t, i)'
  <1>1. PICK i \in 1..Len(dispatched) : DuplicateOf(t, i)
    OBVIOUS
  <1>2. i \in 1..Len(dispatched') /\ DuplicateOf(t, i)'
    BY <1>1 DEF DuplicateOf
  <1> QED BY <1>2

\* A call comes to suppress its event only by reading a time that was recorded, and
\* not by itself.
LEMMA DuplicatesNext ==
  TypeOK /\ SeenRecorded /\ Unrecorded /\ Duplicates /\ [Next]_vars => Duplicates'
  <1> SUFFICES ASSUME TypeOK, SeenRecorded, Unrecorded, Duplicates, [Next]_vars,
                      NEW u \in Threads, step'[u] = "suppressed" \/ phase'[u] = "suppressed"
               PROVE  \E i \in 1..Len(dispatched') : DuplicateOf(u, i)'
    BY DEF Duplicates
  <1>0. /\ step \in [Threads -> Steps] /\ phase \in [Threads -> Phases]
        /\ key \in [Threads -> Keys \cup {NoKey}] /\ now \in [Threads -> Int]
        /\ number \in [Threads -> Nat]
    BY DEF TypeOK, TrackerTypeOK
  <1>1. ASSUME step[u] = "suppressed" \/ phase[u] = "suppressed",
               UNCHANGED <<key, now, number, dispatched>>
        PROVE  \E i \in 1..Len(dispatched') : DuplicateOf(u, i)'
    BY <1>1, DuplicatesKept DEF Duplicates
  <1>2. ASSUME NEW t \in Threads,
               (\E k \in Keys : NotifyTracked(t, k)) \/ NotifyUntracked(t)
        PROVE  \E i \in 1..Len(dispatched') : DuplicateOf(u, i)'
    <2>1. /\ step[t] = "out"
          /\ \A v \in Threads \ {t} : /\ key'[v] = key[v] /\ now'[v] = now[v]
                                     /\ number'[v] = number[v]
                                     /\ step'[v] = step[v] /\ phase'[v] = phase[v]
          /\ step'[t] # "suppressed" /\ phase'[t] # "suppressed"
          /\ dispatched' = dispatched
      BY <1>0, <1>2, SMTT(30) DEF NotifyTracked, NotifyUntracked, CallIsSuppressed, Goto, Ended,
                        TypeOK, trackerVars
    <2>2. u # t
      BY <2>1
    <2>3. \E i \in 1..Len(dispatched) : DuplicateOf(u, i)
      BY <2>1, <2>2 DEF Duplicates
    <2> QED BY <2>1, <2>2, <2>3, DuplicatesKept
  <1>3. ASSUME NEW t \in Threads, Tracks(t)
        PROVE  \E i \in 1..Len(dispatched') : DuplicateOf(u, i)'
    <2>1. /\ step' = [step EXCEPT ![t] = step'[t]]
          /\ UNCHANGED <<key, now, number, phase, dispatched>>
          /\ step'[t] = "suppressed" => /\ step[t] = "reading"
                                        /\ key[t] \in DOMAIN seen
                                        /\ now[t] - seen[key[t]] < WindowSeconds
      BY <1>3, TracksFrame, TrackerStepType, TrackerStepSeen DEF TypeOK
    <2>2. CASE step[u] = "suppressed" \/ phase[u] = "suppressed"
      BY <1>1, <2>1, <2>2
    <2>3. CASE ~(step[u] = "suppressed" \/ phase[u] = "suppressed")
      <3>1. /\ u = t /\ step[u] = "reading" /\ key[u] \in DOMAIN seen
            /\ now[u] - seen[key[u]] < WindowSeconds
        BY <1>0, <2>1, <2>3
      <3>2. PICK i \in 1..Len(dispatched) : dispatched[i].key = key[u]
                                           /\ dispatched[i].at = seen[key[u]]
        BY <3>1 DEF SeenRecorded
      <3>3. dispatched[i].by # number[u]
        BY <3>1 DEF Unrecorded
      <3>4. DuplicateOf(u, i)
        BY <3>1, <3>2, <3>3 DEF DuplicateOf
      <3> QED BY <2>1, <3>4, DuplicatesKept
    <2> QED BY <2>2, <2>3
  <1>4. ASSUME NEW t \in Threads, Records(t)
        PROVE  \E i \in 1..Len(dispatched') : DuplicateOf(u, i)'
    <2>1. /\ step' = [step EXCEPT ![t] = "measuring"]
          /\ UNCHANGED <<key, now, number, phase>>
      BY <1>4 DEF Records, Write, Goto, calls
    <2>2. step[u] = "suppressed" \/ phase[u] = "suppressed"
      BY <1>0, <2>1
    <2>3. \E i \in 1..Len(dispatched) : DuplicateOf(u, i)
      BY <2>2 DEF Duplicates
    <2>4. /\ 1..Len(dispatched) \subseteq 1..Len(dispatched')
          /\ \A i \in 1..Len(dispatched) : dispatched'[i] = dispatched[i]
      BY <1>4, RecordsGrow
    <2> QED BY <2>1, <2>3, <2>4, DuplicatesKept
  <1>5. ASSUME NEW t \in Threads, LeavesTracker(t)
        PROVE  \E i \in 1..Len(dispatched') : DuplicateOf(u, i)'
    <2>1. step[u] = "suppressed" \/ phase[u] = "suppressed"
      BY <1>0, <1>5
      DEF LeavesTracker, Suppresses, StartsSending, TrackerRaises, Leave, Goto
    <2> QED BY <1>1, <1>5, <2>1, LeavesFrame
  <1>6. ASSUME NEW t \in Threads, GateRaises(t) \/ NotifyReturns(t)
        PROVE  \E i \in 1..Len(dispatched') : DuplicateOf(u, i)'
    <2>1. step[u] = "suppressed" \/ phase[u] = "suppressed"
      BY <1>0, <1>6, PhaseFrame
    <2> QED BY <1>1, <1>6, <2>1, PhaseFrame
  <1>7. ASSUME NEW t \in Threads, Sends(t)
        PROVE  \E i \in 1..Len(dispatched') : DuplicateOf(u, i)'
    <2>1. step[u] = "suppressed" \/ phase[u] = "suppressed"
      BY <1>0, <1>7, SendsFrame
    <2> QED BY <1>1, <1>7, <2>1, SendsFrame
  <1>8. ASSUME UNCHANGED <<trackerVars, config, phase, results, handed, dispatched, calls>>
        PROVE  \E i \in 1..Len(dispatched') : DuplicateOf(u, i)'
    BY <1>1, <1>8 DEF trackerVars, calls
  <1> QED BY <1>2, <1>3, <1>4, <1>5, <1>6, <1>7, <1>8, NextCases

-----------------------------------------------------------------------------
(* What the backends were handed                                           *)

\* Handing the event to the backend that follows keeps the order.
LEMMA HandsToFollowing ==
  ASSUME TypeOK, NEW t \in Threads, Order(t), Sending(t),
         NEW h \in Handed(Following(t)),
         handed' = [handed EXCEPT ![t] = Append(@, h)],
         backends' = backends
  PROVE  /\ Len(handed'[t]) = Len(results[t]) + 1
         /\ Len(handed'[t]) <= Len(backends')
         /\ \A i \in 1..Len(handed'[t]) : handed'[t][i] \in Handed(backends'[i])
  <1>1. handed[t] \in Seq(Handings) /\ h \in Handings /\ t \in DOMAIN handed
    BY FollowingType, HandedType DEF TypeOK
  <1>2. /\ Len(results[t]) + 1 \in 1..Len(backends)
        /\ Following(t) = backends[Len(results[t]) + 1]
    BY FollowingType
  <1>3. Len(handed[t]) = Len(results[t])
    BY DEF Order, Sending
  <1>4. /\ handed'[t] = Append(handed[t], h)
        /\ Len(handed'[t]) = Len(handed[t]) + 1
        /\ \A i \in 1..Len(handed[t]) : handed'[t][i] = handed[t][i]
        /\ handed'[t][Len(handed[t]) + 1] = h
        /\ Len(handed[t]) \in Nat
    BY <1>1
  <1>5. ASSUME NEW i \in 1..Len(handed'[t])
        PROVE  handed'[t][i] \in Handed(backends'[i])
    <2>1. CASE i \in 1..Len(handed[t])
      BY <1>4, <2>1 DEF Order
    <2>2. CASE i = Len(handed[t]) + 1
      <3>1. handed'[t][i] = h /\ i = Len(results[t]) + 1
        BY <1>3, <1>4, <2>2
      <3>2. backends'[i] = Following(t)
        BY <1>2, <3>1
      <3>3. Handed(backends'[i]) = Handed(Following(t))
        BY <3>2 DEF Handed, Gated, ExternalEgress
      <3> QED BY <3>1, <3>3
    <2> QED BY <1>4, <1>5, <2>1, <2>2
  <1>6. Len(handed'[t]) <= Len(backends')
    BY <1>2, <1>3, <1>4
  <1> QED BY <1>3, <1>4, <1>5, <1>6

\* A call none of whose variables change keeps its order.
LEMMA OrderKept ==
  ASSUME NEW t \in Threads, Order(t), backends' = backends,
         handed'[t] = handed[t], results'[t] = results[t],
         \/ phase'[t] = phase[t]
         \/ phase'[t] = "raised"
         \/ phase[t] # "raised" /\ phase'[t] \in {"tracking", "suppressed", "sending"}
  PROVE  Order(t)'
  <1>1. \A i \in 1..Len(handed'[t]) : handed'[t][i] \in Handed(backends'[i])
    BY DEF Order
  <1>2. /\ Len(handed'[t]) <= Len(backends')
        /\ Len(results'[t]) <= Len(backends')
        /\ phase'[t] # "raised" => Len(handed'[t]) = Len(results'[t])
        /\ phase'[t] = "dispatched" => Len(results'[t]) = Len(backends')
    BY DEF Order
  <1> QED BY <1>1, <1>2 DEF Order

\* The loop hands the event to the backends one after the other.
LEMMA HandedNext ==
  TypeOK /\ HandedInOrder /\ [Next]_vars => HandedInOrder'
  <1> SUFFICES ASSUME TypeOK, HandedInOrder, [Next]_vars, NEW u \in Threads
               PROVE  Order(u)'
    BY DEF HandedInOrder
  <1>0. /\ phase \in [Threads -> Phases]
        /\ results \in [Threads -> Seq(Results)] /\ handed \in [Threads -> Seq(Handings)]
        /\ backends \in Seq(Backend)
        /\ \A t \in Threads : Order(t)
    BY DispatcherAssumption DEF TypeOK, HandedInOrder
  <1>1. ASSUME NEW t \in Threads,
               (\E k \in Keys : NotifyTracked(t, k)) \/ NotifyUntracked(t)
        PROVE  Order(u)'
    <2>1. /\ backends' = backends
          /\ results' = [results EXCEPT ![t] = <<>>]
          /\ handed' = [handed EXCEPT ![t] = <<>>]
          /\ \E p \in {"tracking", "sending"} : phase' = [phase EXCEPT ![t] = p]
      BY <1>1 DEF NotifyTracked, NotifyUntracked, config
    <2>2. CASE u = t
      <3>1. handed'[u] = <<>> /\ results'[u] = <<>> /\ phase'[u] \in {"tracking", "sending"}
        BY <1>0, <2>1, <2>2
      <3>2. Len(backends) \in Nat
        BY <1>0
      <3> QED BY <2>1, <3>1, <3>2 DEF Order
    <2>3. CASE u # t
      BY <1>0, <2>1, <2>3, OrderKept
    <2> QED BY <2>2, <2>3
  <1>2. ASSUME UNCHANGED <<backends, results, handed, phase>>
        PROVE  Order(u)'
    BY <1>0, <1>2, OrderKept
  <1>3. ASSUME NEW t \in Threads, LeavesTracker(t)
        PROVE  Order(u)'
    <2>1. phase[t] = "tracking"
      BY <1>3 DEF LeavesTracker, Suppresses, StartsSending, TrackerRaises, Errors, TypeOK
    <2> QED BY <1>0, <1>3, <2>1, LeavesFrame, OrderKept
  <1>4. ASSUME NEW t \in Threads, GateRaises(t)
        PROVE  Order(u)'
    BY <1>0, <1>4, OrderKept DEF GateRaises, config
  <1>5. ASSUME NEW t \in Threads, NotifyReturns(t)
        PROVE  Order(u)'
    <2>1. /\ phase' = [phase EXCEPT ![t] = "dispatched"]
          /\ phase[t] = "sending" /\ Len(results[t]) = Len(backends)
          /\ UNCHANGED <<backends, results, handed>>
      BY <1>5 DEF NotifyReturns, config
    <2>2. CASE u = t
      <3>1. Order(t) /\ phase'[t] = "dispatched"
        BY <1>0, <2>1
      <3>2. \A i \in 1..Len(handed'[t]) : handed'[t][i] \in Handed(backends'[i])
        BY <2>1, <3>1 DEF Order
      <3>3. /\ Len(handed'[t]) <= Len(backends') /\ Len(handed'[t]) = Len(results'[t])
            /\ Len(results'[t]) = Len(backends')
        BY <2>1, <3>1 DEF Order
      <3> QED BY <2>2, <3>2, <3>3 DEF Order
    <2>3. CASE u # t
      BY <1>0, <2>1, <2>3, OrderKept
    <2> QED BY <2>2, <2>3
  <1>6. ASSUME NEW t \in Threads, Sends(t)
        PROVE  Order(u)'
    <2>1. /\ Sending(t) /\ backends' = backends
          /\ \E h \in Handed(Following(t)) : handed' = [handed EXCEPT ![t] = Append(@, h)]
      BY <1>6 DEF Sends, BackendReturns, BackendRaises, SendEndsNotify, config
    <2>2. /\ Len(handed'[t]) = Len(results[t]) + 1
          /\ Len(handed'[t]) <= Len(backends')
          /\ \A i \in 1..Len(handed'[t]) : handed'[t][i] \in Handed(backends'[i])
      BY <1>0, <2>1, HandsToFollowing
    <2>3. \A v \in Threads \ {t} : /\ handed'[v] = handed[v] /\ results'[v] = results[v]
                                 /\ phase'[v] = phase[v]
      BY <1>0, <1>6, <2>1 DEF Sends, BackendReturns, BackendRaises, SendEndsNotify
    <2>4. CASE u # t
      BY <1>0, <2>1, <2>3, <2>4, OrderKept
    <2>5. CASE u = t /\ SendEndsNotify(t)
      <3>1. phase'[t] = "raised" /\ results'[t] = results[t]
        BY <1>0, <2>5 DEF SendEndsNotify
      <3> QED BY <1>0, <2>1, <2>2, <2>5, <3>1 DEF Order
    <2>6. CASE u = t /\ ~SendEndsNotify(t)
      <3>1. PICK r \in Results : results' = [results EXCEPT ![t] = Append(@, r)]
        BY <1>6, <2>6 DEF Sends, BackendReturns, BackendRaises, Results
      <3>2. Len(results'[t]) = Len(results[t]) + 1
        BY <1>0, <3>1
      <3>3. phase'[t] = "sending"
        BY <1>6, <2>6 DEF Sends, BackendReturns, BackendRaises, Sending
      <3> QED BY <2>1, <2>2, <2>6, <3>2, <3>3 DEF Order
    <2> QED BY <2>4, <2>5, <2>6
  <1>7. ASSUME NEW t \in Threads, Tracks(t) \/ Records(t)
        PROVE  Order(u)'
    BY <1>2, <1>7, TracksFrame DEF Records, config
  <1> QED BY <1>1, <1>2, <1>3, <1>4, <1>5, <1>6, <1>7, NextCases DEF config

-----------------------------------------------------------------------------
(* The theorems                                                            *)

\* The invariant holds initially.
LEMMA InitInvariant == Init => IInv
  <1> SUFFICES ASSUME Init PROVE IInv
    OBVIOUS
  <1>1. TypeOK
    BY InitType
  <1>2. Len(dispatched) = 0 /\ 1..0 = {} /\ \A t \in Threads : handed[t] = <<>>
                                                       /\ results[t] = <<>>
    BY DEF Init
  <1>3. Numbered /\ SeenRecorded /\ Unrecorded /\ Duplicates
    BY <1>2 DEF Init, TrackerInit, Numbered, SeenRecorded, Unrecorded, Duplicates
  <1>4. HandedInOrder
    <2>1. backends \in Seq(Backend)
      BY <1>1, DispatcherAssumption DEF TypeOK
    <2>2. Len(backends) \in Nat /\ Len(<<>>) = 0
      BY <2>1
    <2> QED BY <1>2, <2>2 DEF Init, HandedInOrder, Order
  <1> QED BY <1>1, <1>3, <1>4 DEF IInv

\* The invariant holds always.
THEOREM Invariance == Spec => []IInv
  <1>1. Init => IInv
    BY InitInvariant
  <1>2. IInv /\ [Next]_vars => IInv'
    BY NextType, NumberedNext, SeenRecordedNext, UnrecordedNext, DuplicatesNext,
       HandedNext
    DEF IInv
  <1> QED BY <1>1, <1>2, PTL DEF Spec

\* Dispatcher and tracker keep their types.
THEOREM TypeCorrect == Spec => []TypeOK
  <1>1. IInv => TypeOK
    BY DEF IInv
  <1> QED BY <1>1, Invariance, PTL

\* However many threads meet on the tracker, an event is suppressed only because
\* another call recorded its key less than the window before.
THEOREM SuppressionSound == Spec => []SuppressedOnlyAsDuplicate
  <1>1. ASSUME IInv PROVE SuppressedOnlyAsDuplicate
    <2>1. SUFFICES ASSUME NEW t \in Threads, phase[t] = "suppressed"
                   PROVE  \E d \in Range(dispatched) :
                            /\ d.key = key[t] /\ d.by # number[t]
                            /\ now[t] - d.at < WindowSeconds
      BY DEF SuppressedOnlyAsDuplicate
    <2>2. PICK i \in 1..Len(dispatched) : DuplicateOf(t, i)
      BY <1>1, <2>1 DEF IInv, Duplicates
    <2>3. dispatched[i] \in Range(dispatched)
      BY <1>1 DEF IInv, TypeOK, Range
    <2> QED BY <2>2, <2>3 DEF DuplicateOf
  <1> QED BY <1>1, Invariance, PTL

\* Whatever the backends, none outside receives the event's own content or an
\* attachment that is not egress_safe, and what stays inside is not masked.
THEOREM EgressGated == Spec => []EgressIsGated
  <1>1. ASSUME IInv PROVE EgressIsGated
    <2>1. SUFFICES ASSUME NEW t \in Threads, NEW i \in DOMAIN handed[t]
                   PROVE
                     /\ \A l \in DOMAIN handed[t][i] \cap ExternalLeaves :
                          /\ handed[t][i][l].content = "masked"
                          /\ handed[t][i][l].attachments \subseteq EgressSafe
                     /\ {backends[i].inner, backends[i].dead_letter} \cap ExternalLeaves
                          = {} =>
                          \A l \in DOMAIN handed[t][i] : handed[t][i][l] =
                            [content |-> "original", attachments |-> Attachments]
      BY DEF EgressIsGated
    <2> DEFINE b == backends[i]
    <2>2. i \in 1..Len(handed[t])
      BY <1>1 DEF IInv, TypeOK
    <2>3. handed[t][i] \in Handed(b)
      BY <1>1, <2>2 DEF IInv, HandedInOrder, Order
    <2>4. PICK L \in {{b.inner}, {b.inner, b.dead_letter} \ {NoBackend}} :
            handed[t][i] = [l \in L |-> Gated(b)]
      BY <2>3 DEF Handed
    <2>5. /\ DOMAIN handed[t][i] \subseteq {b.inner, b.dead_letter}
          /\ \A l \in DOMAIN handed[t][i] : handed[t][i][l] = Gated(b)
      BY <2>4
    <2> HIDE DEF b
    <2>6. CASE ExternalEgress(b)
      <3>1. Gated(b).content = "masked" /\ Gated(b).attachments \subseteq EgressSafe
        BY <2>6 DEF Gated
      <3> QED BY <2>5, <2>6, <3>1 DEF ExternalEgress, b
    <2>7. CASE ~ExternalEgress(b)
      <3>1. Gated(b) = [content |-> "original", attachments |-> Attachments]
        BY <2>7 DEF Gated
      <3>2. DOMAIN handed[t][i] \cap ExternalLeaves = {}
        BY <2>5, <2>7 DEF ExternalEgress
      <3> QED BY <2>5, <3>1, <3>2
    <2> QED BY <2>6, <2>7
  <1> QED BY <1>1, Invariance, PTL

\* However the other backends fail, a call that returns has handed its event to
\* every backend.
THEOREM BackendsServed == Spec => []EveryBackendServed
  <1>1. ASSUME IInv PROVE EveryBackendServed
    <2>1. SUFFICES ASSUME NEW t \in Threads, phase[t] = "dispatched"
                   PROVE  /\ Len(results[t]) = Len(backends)
                          /\ Len(handed[t]) = Len(backends)
                          /\ \A i \in 1..Len(backends) :
                               backends[i].inner \in DOMAIN handed[t][i]
      BY DEF EveryBackendServed
    <2>2. /\ Len(results[t]) = Len(backends)
          /\ Len(handed[t]) = Len(backends)
          /\ \A i \in 1..Len(backends) : handed[t][i] \in Handed(backends[i])
      BY <1>1, <2>1 DEF IInv, HandedInOrder, Order
    <2>3. ASSUME NEW b \in Backend, NEW h \in Handed(b)
          PROVE  b.inner \in DOMAIN h
      <3>1. b.inner # NoBackend
        BY DispatcherAssumption DEF Backend
      <3> QED BY <3>1 DEF Handed
    <2>4. \A i \in 1..Len(backends) : backends[i] \in Backend
      <3>1. backends \in Seq(Backend)
        BY <1>1, DispatcherAssumption DEF IInv, TypeOK
      <3> QED BY <3>1, ElementOfSeq
    <2> QED BY <2>2, <2>3, <2>4
  <1> QED BY <1>1, Invariance, PTL

-----------------------------------------------------------------------------
(* Every call comes to its end                                             *)

InNotify(t) == phase[t] \in {"tracking", "sending"}

\* How many of the parts of notify are ahead of thread t's call.
PartsLeft(t) ==
  CASE phase[t] = "sending" -> 1
    [] phase[t] = "tracking" ->
         (CASE step[t] = "looking" -> 9
            [] step[t] = "reading" -> 8
            [] step[t] = "writing" -> 7
            [] step[t] = "measuring" -> 6
            [] step[t] = "starting" -> 5
            [] step[t] \in {"scanning", "weighing"} -> 4
            [] step[t] = "deleting" -> 3
            [] OTHER -> 2)
    [] OTHER -> 0

\* How many steps of its loop, where it is in one: two for each key min() has still to
\* meet and weigh, or one for each backend.
StepsLeft(t) ==
  LET unmet == scan[t].size - Cardinality(scan[t].met) IN
  IF phase[t] = "sending" THEN Len(backends) - Len(results[t])
  ELSE IF step[t] = "scanning" THEN 2 * unmet
  ELSE IF step[t] = "weighing" THEN 2 * unmet + 1
  ELSE 0

Nearer(t) ==
  \/ PartsLeft(t)' < PartsLeft(t)
  \/ PartsLeft(t)' = PartsLeft(t) /\ StepsLeft(t)' \in Nat /\ StepsLeft(t)' < StepsLeft(t)

Untouched(t) == UNCHANGED <<phase[t], step[t], scan[t], results[t]>>

\* min() meets no more keys than there were when it started.
ScanBounded ==
  \A t \in Threads : step[t] \in {"scanning", "weighing"} =>
    IsFiniteSet(scan[t].met) /\ Cardinality(scan[t].met) <= scan[t].size

\* A step of the tracker is its own thread's.
LEMMA TrackerStepOwn ==
  ASSUME TrackerTypeOK, NEW t \in Threads, TrackerStep(t)
  PROVE  \A u \in Threads \ {t} : step'[u] = step[u] /\ scan'[u] = scan[u]
  BY DEF TrackerTypeOK, TrackerStep, LookUp, ReadLastSeen, Measure, StartScan, MeetKey, ScanFails,
         WeighKey, ScanEnds, DeleteOldest, Goto

\* There is always one key less to meet.
LEMMA MeetsOneMore ==
  ASSUME TrackerTypeOK, ScanBounded, NEW t \in Threads, MeetKey(t)
  PROVE  /\ step[t] = "scanning" /\ step'[t] = "weighing"
         /\ scan'[t].size = scan[t].size /\ scan[t].size \in Nat
         /\ Cardinality(scan[t].met) \in Nat
         /\ Cardinality(scan'[t].met) = Cardinality(scan[t].met) + 1
         /\ Cardinality(scan[t].met) < scan[t].size
         /\ IsFiniteSet(scan'[t].met)
  <1>1. PICK k \in DOMAIN seen \ scan[t].met :
          scan' = [scan EXCEPT ![t] = Met(@, k)]
    BY DEF MeetKey
  <1>2. scan[t] \in Scans
    BY DEF TrackerTypeOK
  <1>3. step[t] = "scanning" /\ step'[t] = "weighing"
    BY DEF MeetKey, Goto, TrackerTypeOK
  <1>4. scan'[t].size = scan[t].size /\ scan'[t].met = scan[t].met \cup {k}
    BY <1>1, <1>2 DEF Met, Scans, TrackerTypeOK
  <1>5. IsFiniteSet(scan[t].met) /\ Cardinality(scan[t].met) <= scan[t].size
    BY <1>3 DEF ScanBounded
  <1>6. scan[t].size \in Nat /\ Cardinality(scan[t].met) \in Nat
    BY <1>2, <1>5, FS_CardinalityType DEF Scans
  <1>7. Cardinality(scan[t].met) # scan[t].size
    BY <1>1 DEF MeetKey, IteratorFails
  <1>8. /\ IsFiniteSet(scan[t].met \cup {k})
        /\ Cardinality(scan[t].met \cup {k}) = Cardinality(scan[t].met) + 1
    BY <1>1, <1>5, FS_AddElement
  <1> QED BY <1>3, <1>4, <1>5, <1>6, <1>7, <1>8

\* A key that was weighed is met, and the iterator goes on from there.
LEMMA WeighsOne ==
  ASSUME TrackerTypeOK, NEW t \in Threads, WeighKey(t)
  PROVE  /\ step[t] = "weighing"
         /\ \/ step'[t] = "KeyError"
            \/ /\ step'[t] = "scanning"
               /\ scan'[t].met = scan[t].met /\ scan'[t].size = scan[t].size
  <1>1. scan[t] \in Scans /\ step[t] = "weighing"
    BY DEF TrackerTypeOK, WeighKey
  <1>2. Weighed(scan[t]).met = scan[t].met /\ Weighed(scan[t]).size = scan[t].size
    BY <1>1 DEF Weighed, Scans
  <1>3. CASE scan[t].at \in DOMAIN seen
    <2>1. step'[t] = "scanning" /\ scan'[t] = Weighed(scan[t])
      BY <1>3 DEF TrackerTypeOK, WeighKey, Goto
    <2> QED BY <1>1, <1>2, <2>1
  <1>4. CASE scan[t].at \notin DOMAIN seen
    BY <1>1, <1>4 DEF TrackerTypeOK, WeighKey, Goto
  <1> QED BY <1>3, <1>4

LEMMA ScanBoundedNext ==
  ASSUME TypeOK, ScanBounded, [Next]_vars
  PROVE  ScanBounded'
  <1>0. TrackerTypeOK /\ step \in [Threads -> Steps]
    BY DEF TypeOK, TrackerTypeOK
  <1>1. ASSUME NEW t \in Threads, Tracks(t)
        PROVE  ScanBounded'
    <2>1. TrackerStep(t)
      BY <1>1, TracksFrame
    <2>2. step'[t] \in {"scanning", "weighing"} =>
            IsFiniteSet(scan'[t].met) /\ Cardinality(scan'[t].met) <= scan'[t].size
      <3>1. CASE StartScan(t)
        <4>1. scan'[t].met = {} /\ scan'[t].size = Cardinality(DOMAIN seen)
          BY <1>0, <3>1 DEF StartScan, NoScan, TrackerTypeOK
        <4>2. Cardinality(DOMAIN seen) \in Nat /\ IsFiniteSet({}) /\ Cardinality({}) = 0
          BY <1>0, FS_CardinalityType, FS_EmptySet DEF TrackerTypeOK
        <4> QED BY <4>1, <4>2
      <3>2. CASE MeetKey(t)
        BY <1>0, <3>2, MeetsOneMore
      <3>3. CASE WeighKey(t)
        BY <1>0, <3>3, WeighsOne DEF ScanBounded
      <3>4. CASE \/ LookUp(t) \/ ReadLastSeen(t) \/ Measure(t)
                 \/ ScanFails(t) \/ ScanEnds(t) \/ DeleteOldest(t)
        BY <1>0, <3>4 DEF LookUp, ReadLastSeen, Measure, ScanFails, ScanEnds, DeleteOldest, Goto
      <3> QED BY <2>1, <3>1, <3>2, <3>3, <3>4 DEF TrackerStep
    <2> QED BY <1>0, <2>1, <2>2, TrackerStepOwn DEF ScanBounded
  <1>2. ASSUME NEW t \in Threads, NEW s \in Steps \ {"scanning", "weighing"}, Goto(t, s),
               UNCHANGED scan
        PROVE  ScanBounded'
    BY <1>0, <1>2 DEF ScanBounded, Goto
  <1>3. ASSUME NEW t \in Threads, NEW k \in Keys, NotifyTracked(t, k)
        PROVE  ScanBounded'
    BY <1>2, <1>3 DEF NotifyTracked, CallIsSuppressed, Steps
  <1>4. ASSUME NEW t \in Threads, Records(t)
        PROVE  ScanBounded'
    BY <1>2, <1>4 DEF Records, Write, Steps
  <1>5. ASSUME NEW t \in Threads, LeavesTracker(t)
        PROVE  ScanBounded'
    BY <1>2, <1>5 DEF LeavesTracker, Suppresses, StartsSending, TrackerRaises, Leave, Steps
  <1>6. ASSUME UNCHANGED <<step, scan>>
        PROVE  ScanBounded'
    BY <1>6 DEF ScanBounded
  <1>7. ASSUME NEW t \in Threads, GateRaises(t) \/ NotifyReturns(t) \/ Sends(t)
        PROVE  UNCHANGED <<step, scan>>
    BY <1>7 DEF GateRaises, NotifyReturns, Sends, BackendReturns, BackendRaises,
                SendEndsNotify, trackerVars
  <1> QED BY <1>1, <1>3, <1>4, <1>5, <1>6, <1>7, NextCases DEF NotifyUntracked, trackerVars

\* Whatever a step in the tracker finds, the call is nearer to its end after it.
LEMMA TracksNearer ==
  ASSUME TypeOK, ScanBounded, NEW t \in Threads, Tracks(t)
  PROVE  Nearer(t)
  <1>0. /\ TrackerTypeOK /\ step \in [Threads -> Steps] /\ TrackerStep(t)
        /\ phase[t] = "tracking" /\ phase'[t] = "tracking"
    BY TracksFrame, TrackerStepType DEF TypeOK, TrackerTypeOK
  <1>1. CASE LookUp(t)
    <2>1. step[t] = "looking" /\ step'[t] \in {"reading", "writing"}
      BY <1>0, <1>1 DEF LookUp, Goto
    <2> QED BY <1>0, <2>1 DEF Nearer, PartsLeft
  <1>2. CASE ReadLastSeen(t)
    <2>1. step[t] = "reading" /\ step'[t] \in {"KeyError", "suppressed", "writing"}
      BY <1>0, <1>2 DEF ReadLastSeen, Goto
    <2> QED BY <1>0, <2>1 DEF Nearer, PartsLeft
  <1>3. CASE Measure(t)
    <2>1. step[t] = "measuring" /\ step'[t] \in {"starting", "recorded"}
      BY <1>0, <1>3 DEF Measure, Goto
    <2> QED BY <1>0, <2>1 DEF Nearer, PartsLeft
  <1>9. CASE StartScan(t)
    <2>1. step[t] = "starting" /\ step'[t] \in {"scanning", "ValueError"}
      BY <1>0, <1>9 DEF StartScan, Goto
    <2> QED BY <1>0, <2>1 DEF Nearer, PartsLeft
  <1>4. CASE MeetKey(t)
    <2> DEFINE n == scan[t].size
               m == Cardinality(scan[t].met)
    <2>1. /\ step[t] = "scanning" /\ step'[t] = "weighing"
          /\ n \in Nat /\ m \in Nat /\ m < n
          /\ scan'[t].size = n /\ Cardinality(scan'[t].met) = m + 1
      BY <1>0, <1>4, MeetsOneMore
    <2>2. PartsLeft(t)' = PartsLeft(t)
      BY <1>0, <2>1 DEF PartsLeft
    <2>3. StepsLeft(t) = 2 * (n - m) /\ StepsLeft(t)' = 2 * (n - (m + 1)) + 1
      BY <1>0, <2>1 DEF StepsLeft
    <2> HIDE DEF n, m
    <2>4. /\ 2 * (n - (m + 1)) + 1 \in Nat
          /\ 2 * (n - (m + 1)) + 1 < 2 * (n - m)
      BY <2>1
    <2> QED BY <2>2, <2>3, <2>4, Zenon DEF Nearer
  <1>5. CASE ScanFails(t)
    <2>1. step[t] = "scanning" /\ step'[t] = "RuntimeError"
      BY <1>0, <1>5 DEF ScanFails, Goto
    <2> QED BY <1>0, <2>1 DEF Nearer, PartsLeft
  <1>6. CASE WeighKey(t)
    <2> DEFINE n == scan[t].size
               m == Cardinality(scan[t].met)
    <2>1. step[t] = "weighing"
      BY <1>0, <1>6, WeighsOne
    <2>2. CASE step'[t] = "KeyError"
      BY <1>0, <2>1, <2>2 DEF Nearer, PartsLeft
    <2>3. CASE /\ step'[t] = "scanning"
               /\ scan'[t].met = scan[t].met /\ scan'[t].size = scan[t].size
      <3>1. n \in Nat /\ m \in Nat /\ m <= n
        BY <1>0, <2>1, FS_CardinalityType DEF ScanBounded, TrackerTypeOK, Scans
      <3>2. PartsLeft(t)' = PartsLeft(t)
        BY <1>0, <2>1, <2>3 DEF PartsLeft
      <3>3. StepsLeft(t) = 2 * (n - m) + 1 /\ StepsLeft(t)' = 2 * (n - m)
        BY <1>0, <2>1, <2>3 DEF StepsLeft
      <3> HIDE DEF n, m
      <3>4. 2 * (n - m) \in Nat /\ 2 * (n - m) < 2 * (n - m) + 1
        BY <3>1
      <3> QED BY <3>2, <3>3, <3>4, Zenon DEF Nearer
    <2> QED BY <1>0, <1>6, <2>2, <2>3, WeighsOne
  <1>7. CASE ScanEnds(t)
    <2>1. step[t] = "scanning" /\ step'[t] = "deleting"
      BY <1>0, <1>7 DEF ScanEnds, Goto
    <2> QED BY <1>0, <2>1 DEF Nearer, PartsLeft
  <1>8. CASE DeleteOldest(t)
    <2>1. step[t] = "deleting" /\ step'[t] \in {"KeyError", "recorded"}
      BY <1>0, <1>8 DEF DeleteOldest, Goto
    <2> QED BY <1>0, <2>1 DEF Nearer, PartsLeft
  <1> QED BY <1>0, <1>1, <1>2, <1>3, <1>4, <1>5, <1>6, <1>7, <1>8, <1>9 DEF TrackerStep

\* So it is after the write, and after it leaves the tracker.
LEMMA LeavesNearer ==
  ASSUME TypeOK, NEW t \in Threads, Records(t) \/ LeavesTracker(t)
  PROVE  Nearer(t)
  <1>0. step \in [Threads -> Steps] /\ phase \in [Threads -> Phases]
    BY DEF TypeOK, TrackerTypeOK
  <1>1. CASE Records(t)
    <2>1. /\ step[t] = "writing" /\ step'[t] = "measuring"
          /\ phase[t] = "tracking" /\ phase'[t] = "tracking"
      BY <1>0, <1>1 DEF Records, Write, Goto, TypeOK
    <2> QED BY <2>1 DEF Nearer, PartsLeft
  <1>2. CASE LeavesTracker(t)
    <2>1. /\ step[t] \in {"suppressed", "recorded", "KeyError", "RuntimeError", "ValueError"}
          /\ phase'[t] \in {"suppressed", "sending", "raised"}
      BY <1>0, <1>2 DEF LeavesTracker, Suppresses, StartsSending, TrackerRaises, Errors
    <2>2. phase[t] = "tracking"
      BY <2>1 DEF TypeOK
    <2> QED BY <2>1, <2>2 DEF Nearer, PartsLeft
  <1> QED BY <1>1, <1>2

\* And each backend is one less to go.
LEMMA SendsNearer ==
  ASSUME TypeOK, NEW t \in Threads, GateRaises(t) \/ NotifyReturns(t) \/ Sends(t)
  PROVE  Nearer(t)
  <1>0. /\ phase \in [Threads -> Phases] /\ results \in [Threads -> Seq(Results)]
        /\ backends \in Seq(Backend) /\ phase[t] = "sending"
    BY PhaseFrame, SendsFrame DEF TypeOK
  <1>1. CASE phase'[t] \in {"dispatched", "raised"}
    BY <1>0, <1>1 DEF Nearer, PartsLeft
  <1>2. CASE phase'[t] \notin {"dispatched", "raised"}
    <2>1. PICK r : BackendReturns(t, r) \/ BackendRaises(t)
      BY <1>0, <1>2 DEF GateRaises, NotifyReturns, Sends, SendEndsNotify
    <2>2. /\ phase' = phase /\ backends' = backends
          /\ Len(results[t]) < Len(backends)
          /\ \E x : results' = [results EXCEPT ![t] = Append(@, x)]
      BY <2>1 DEF BackendReturns, BackendRaises, Sending, config
    <2>3. Len(results'[t]) = Len(results[t]) + 1
      BY <1>0, <2>2
    <2>4. PartsLeft(t)' = PartsLeft(t)
      BY <1>0, <2>2 DEF PartsLeft
    <2>5. /\ StepsLeft(t) = Len(backends) - Len(results[t])
          /\ StepsLeft(t)' = Len(backends) - (Len(results[t]) + 1)
      BY <1>0, <2>2, <2>3 DEF StepsLeft
    <2>6. Len(backends) \in Nat /\ Len(results[t]) \in Nat
      BY <1>0
    <2>7. \A n, m \in Nat : m < n => n - (m + 1) \in Nat /\ n - (m + 1) < n - m
      OBVIOUS
    <2>8. /\ Len(backends) - (Len(results[t]) + 1) \in Nat
          /\ Len(backends) - (Len(results[t]) + 1) < Len(backends) - Len(results[t])
      BY <2>2, <2>6, <2>7
    <2> QED BY <2>4, <2>5, <2>8, Zenon DEF Nearer
  <1> QED BY <1>1, <1>2

\* No thread can keep another's call from its end, and none runs round in one: a step
\* that a call of notify notices is its own, and brings it nearer to its end, however
\* often the dictionary changes under min() and whatever the backends do.
THEOREM CallsRunOut ==
  Spec => [][\A t \in Threads : InNotify(t) => Untouched(t) \/ Nearer(t)]_vars
  <1>1. ASSUME TypeOK, ScanBounded, [Next]_vars, NEW t \in Threads, InNotify(t)
        PROVE  Untouched(t) \/ Nearer(t)
    <2>0. /\ TrackerTypeOK /\ step \in [Threads -> Steps] /\ scan \in [Threads -> Scans]
          /\ phase \in [Threads -> Phases] /\ results \in [Threads -> Seq(Results)]
      BY <1>1 DEF TypeOK, TrackerTypeOK
    <2>1. ASSUME NEW u \in Threads, NEW k \in Keys, NotifyTracked(u, k)
          PROVE  Untouched(t)
      <3>1. u # t
        BY <1>1, <2>1 DEF NotifyTracked, InNotify, Ended
      <3> QED BY <2>0, <2>1, <3>1 DEF NotifyTracked, CallIsSuppressed, Goto, Untouched
    <2>2. ASSUME NEW u \in Threads, NotifyUntracked(u)
          PROVE  Untouched(t)
      <3>1. u # t
        BY <1>1, <2>2 DEF NotifyUntracked, InNotify, Ended
      <3> QED BY <2>0, <2>2, <3>1 DEF NotifyUntracked, trackerVars, Untouched
    <2>3. ASSUME NEW u \in Threads, Tracks(u), u # t
          PROVE  Untouched(t)
      BY <2>0, <2>3, TracksFrame, TrackerStepOwn DEF Untouched
    <2>4. ASSUME NEW u \in Threads, Records(u) \/ LeavesTracker(u), u # t
          PROVE  Untouched(t)
      BY <2>0, <2>4 DEF Records, Write, LeavesTracker, Suppresses, StartsSending,
                        TrackerRaises, Leave, Goto, Untouched
    <2>5. ASSUME NEW u \in Threads, GateRaises(u) \/ NotifyReturns(u) \/ Sends(u), u # t
          PROVE  Untouched(t)
      BY <2>0, <2>5 DEF GateRaises, NotifyReturns, Sends, BackendReturns, BackendRaises,
                        SendEndsNotify, trackerVars, Untouched
    <2>6. ASSUME UNCHANGED <<trackerVars, phase, results>>
          PROVE  Untouched(t)
      BY <2>6 DEF trackerVars, Untouched
    <2> QED BY <1>1, <2>1, <2>2, <2>3, <2>4, <2>5, <2>6, NextCases, TracksNearer,
               LeavesNearer, SendsNearer
  <1>2. Init => ScanBounded
    BY DEF Init, TrackerInit, ScanBounded
  <1>3. IInv /\ ScanBounded /\ [Next]_vars => ScanBounded'
    BY ScanBoundedNext DEF IInv
  <1>4. IInv /\ ScanBounded /\ [Next]_vars =>
          [\A t \in Threads : InNotify(t) => Untouched(t) \/ Nearer(t)]_vars
    BY <1>1 DEF IInv
  <1> QED BY <1>2, <1>3, <1>4, Invariance, PTL DEF Spec

=============================================================================
