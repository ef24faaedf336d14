---------------------------- MODULE MCDispatcher ----------------------------
(***************************************************************************)
(* Dispatcher for TLC: backends inside and outside, a RetryingBackend whose *)
(* dead-letter backend is outside, and one whose external_egress raises.   *)
(***************************************************************************)
EXTENDS Dispatcher, TLC

CONSTANTS Inside, Outside, Faulty, Safe, Unsafe

MCLeaves == {Inside, Outside, Faulty}
MCExternal == {Outside}
MCFaulty == {Faulty}
MCAttachments == {Safe, Unsafe}
MCEgressSafe == {Safe}

Plain(l) == [inner |-> l, dead_letter |-> NoBackend]
Retrying(l, d) == [inner |-> l, dead_letter |-> d]

Pairs == {<<Plain(Inside), Retrying(Inside, Outside)>>,
          <<Plain(Outside), Retrying(Inside, Faulty)>>,
          <<Plain(Inside), Retrying(Outside, Faulty)>>}

\* all threads: the backends do not matter to the tracker, and there need be none
OnManyThreads == {[backends |-> <<>>, callers |-> Threads]}

\* one thread: pairs of backends, with one of every kind among them
OnOneThread == [backends : Pairs, callers : {{t} : t \in Threads}]

MCDeployments == OnOneThread \cup OnManyThreads

ThreadKeySymmetry == Permutations(Threads) \cup Permutations(Keys)
=============================================================================
