----------------------------- MODULE TrailStore -----------------------------
(***************************************************************************)
(* What FlushOnWarningHandler promises, with its dictionaries, its lock    *)
(* and its target handler left out: a store that holds, for every flow,    *)
(* the trail of records logged below the flush level, and that hands the   *)
(* whole trail over, oldest record first and the warning last, in ONE step *)
(* when a warning of that flow arrives.  Limits may discard trails, never  *)
(* part of one and never reorder one.                                      *)
(***************************************************************************)
EXTENDS Naturals, Sequences

CONSTANTS Flows,     \* the correlation ids and the bucket of the records that have none
          Capacity   \* how many records a trail keeps

VARIABLES logged,    \* how many records have been logged; it numbers them
          held,      \* held[c] : the trail of flow c
          delivered  \* what the target handler has been given, in order

absVars == <<logged, held, delivered>>

NoTrail == <<>>

Init == /\ logged = 0
        /\ held = [c \in Flows |-> NoTrail]
        /\ delivered = <<>>

NewRecord(c) == [n |-> logged + 1, flow |-> c]

\* a trail that is over its capacity loses its oldest record
Newest(trail) == IF Len(trail) > Capacity THEN Tail(trail) ELSE trail

\* the trails of the flows in D are discarded
Without(D) == [c \in Flows |-> IF c \in D THEN NoTrail ELSE held[c]]

\* a record below the flush level joins the trail of its flow
Hold(c, D) ==
  /\ logged' = logged + 1
  /\ held' = [Without(D) EXCEPT ![c] = Newest(Append(@, NewRecord(c)))]
  /\ UNCHANGED delivered

\* a warning hands the trail of its flow over, and then itself
Release(c, D) ==
  /\ logged' = logged + 1
  /\ delivered' = delivered \o Append(Without(D)[c], NewRecord(c))
  /\ held' = Without(D \cup {c})

\* the cap on the number of trails discards some of them
Discard(D) ==
  /\ held' = Without(D)
  /\ UNCHANGED <<logged, delivered>>

Next == \/ \E c \in Flows, D \in SUBSET Flows : Hold(c, D)
        \/ \E c \in Flows, D \in SUBSET Flows : Release(c, D)
        \/ \E D \in SUBSET Flows : Discard(D)

Spec == Init /\ [][Next]_absVars
=============================================================================
