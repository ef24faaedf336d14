-------------------------- MODULE MCCorrelationFlow -------------------------
(***************************************************************************)
(* CorrelationFlow for TLC: every adapter, a worker, and a context for a   *)
(* task or a thread that runs beside it.                                   *)
(***************************************************************************)
EXTENDS CorrelationFlow

\* ASGI middleware does what FastAPI's does, of fewer ids
MCAdapters == AllAdapters \ {"asgi"}

\* a Celery task that runs eagerly, with an id or without one; a middleware inside
\* another sets and clears the id as a task with an id does
MCNestable == {"celery"}

\* an id in each of the four places, behind one that is unsafe or an SNS attribute that
\* is empty, and nowhere
MCCloudEvents ==
  {[i \in 1..4 |-> IF i = k THEN id ELSE Absent] : k \in 1..4, id \in ClientIds}
  \cup {[i \in 1..4 |-> IF i = 1 THEN Absent ELSE IF i = 2 THEN Empty ELSE id] :
          id \in ClientIds}
  \cup {[i \in 1..4 |-> Absent]}
  \cup {[i \in 1..4 |-> IF i = 1 THEN Unsafe ELSE id] : id \in ClientIds}
=============================================================================
