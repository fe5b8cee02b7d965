--------------------------- MODULE MCSyncPipeline ---------------------------
(***************************************************************************)
(* Instances of SyncPipeline for TLC.                                       *)
(***************************************************************************)
EXTENDS SyncPipeline, TLC

Symmetry == Permutations(Workers) \cup Permutations(JobIds)

\* Bound: a database failure or a crash, not both.
OneDisruption == faults + crashes <= 1
==============================================================================
