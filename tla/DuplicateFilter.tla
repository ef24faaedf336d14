--------------------------- MODULE DuplicateFilter ---------------------------
(***************************************************************************)
(* What SuppressionTracker promises to a caller that nobody interrupts:    *)
(* whether an event is a duplicate is decided in one step, and the event   *)
(* that is none is recorded in that step.  Where one key too many would be *)
(* kept, one that was recorded longest ago is forgotten.                   *)
(***************************************************************************)
EXTENDS Integers, FiniteSets, Functions

CONSTANTS Keys, WindowSeconds, MaxCapacity

VARIABLES last,    \* key -> when it was recorded last
          event,   \* the event asked about: its key, and the time it came
          verdict, \* what became of it
          clock    \* the time

filterVars == <<last, event, verdict, clock>>

FilterInit == /\ last = [k \in {} |-> 0]
              /\ event = <<>>
              /\ verdict = "none"
              /\ clock = 0

\* an event comes
Ask(k) ==
  /\ verdict # "pending"
  /\ event' = <<k, clock>>
  /\ verdict' = "pending"
  /\ UNCHANGED <<last, clock>>

IsDuplicate == /\ event[1] \in DOMAIN last
               /\ event[2] - last[event[1]] < WindowSeconds

Suppress ==
  /\ verdict = "pending"
  /\ IsDuplicate
  /\ verdict' = "suppressed"
  /\ UNCHANGED <<last, event, clock>>

\* f with k recorded at time t
Recorded(f, k, t) == [j \in DOMAIN f \cup {k} |-> IF j = k THEN t ELSE f[j]]

\* the keys of f recorded longest ago
Oldest(f) == {k \in DOMAIN f : \A j \in DOMAIN f : f[k] <= f[j]}

\* what may be kept of f
Trimmed(f) == IF Cardinality(DOMAIN f) > MaxCapacity
              THEN {Restrict(f, DOMAIN f \ {k}) : k \in Oldest(f)}
              ELSE {f}

LetThrough ==
  /\ verdict = "pending"
  /\ ~IsDuplicate
  /\ last' \in Trimmed(Recorded(last, event[1], event[2]))
  /\ verdict' = "recorded"
  /\ UNCHANGED <<event, clock>>

\* time.time() may step back
TimeChanges ==
  /\ clock' \in Int
  /\ UNCHANGED <<last, event, verdict>>

FilterNext == \/ \E k \in Keys : Ask(k)
              \/ Suppress
              \/ LetThrough
              \/ TimeChanges

FilterSpec == FilterInit /\ [][FilterNext]_filterVars
=============================================================================
