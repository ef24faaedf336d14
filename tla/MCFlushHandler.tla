--------------------------- MODULE MCFlushHandler ---------------------------
(***************************************************************************)
(* FlushHandler for TLC: the correlation ids are interchangeable.          *)
(***************************************************************************)
EXTENDS FlushHandler, TLC

\* sound in the runs that check no liveness property
IdSymmetry == Permutations(CorrelationIds)
=============================================================================
