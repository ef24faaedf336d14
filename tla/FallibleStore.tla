---------------------------- MODULE FallibleStore ----------------------------
(***************************************************************************)
(* What FlushOnWarningHandler promises of a target handler that may raise. *)
(* A warning hands over the trail of its flow, whole, and then itself.  A  *)
(* target that fails has taken a first part of the trail, or all of it but *)
(* not the warning: the warning is lost, but a trail that was not taken    *)
(* whole is still held whole, and goes out with the next warning of its    *)
(* flow.                                                                   *)
(***************************************************************************)
EXTENDS TrailStore

VARIABLE flushing  \* the warning whose flush is under way, if there is one

fallibleVars == <<absVars, flushing>>

FallibleInit == Init /\ flushing = <<>>

Due == flushing[1].flow

HoldBetween(c, D) ==
  /\ flushing = <<>>
  /\ Hold(c, D)
  /\ UNCHANGED flushing

DiscardBetween(D) ==
  /\ flushing = <<>>
  /\ Discard(D)
  /\ UNCHANGED flushing

\* a warning arrives
Arrive(c, D) ==
  /\ flushing = <<>>
  /\ logged' = logged + 1
  /\ held' = Without(D)
  /\ flushing' = <<NewRecord(c)>>
  /\ UNCHANGED delivered

\* the target has taken the trail
HandTrail ==
  /\ flushing # <<>>
  /\ held[Due] # NoTrail
  /\ delivered' = delivered \o held[Due]
  /\ held' = Without({Due})
  /\ UNCHANGED <<logged, flushing>>

\* the target has taken the warning too
HandWarning ==
  /\ flushing # <<>>
  /\ held[Due] = NoTrail
  /\ delivered' = delivered \o flushing
  /\ flushing' = <<>>
  /\ UNCHANGED <<logged, held>>

\* the target fails, when it has taken k records of the trail and not the last
Fail(k) ==
  /\ flushing # <<>>
  /\ k = 0 \/ k < Len(held[Due])
  /\ delivered' = delivered \o SubSeq(held[Due], 1, k)
  /\ flushing' = <<>>
  /\ UNCHANGED <<logged, held>>

FallibleNext == \/ \E c \in Flows, D \in SUBSET Flows : HoldBetween(c, D)
                \/ \E D \in SUBSET Flows : DiscardBetween(D)
                \/ \E c \in Flows, D \in SUBSET Flows : Arrive(c, D)
                \/ HandTrail
                \/ HandWarning
                \/ \E k \in 0..Capacity : Fail(k)

FallibleSpec == FallibleInit /\ [][FallibleNext]_fallibleVars
=============================================================================
