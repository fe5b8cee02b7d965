--------------------------- MODULE MCSyncProcessor ---------------------------
(***************************************************************************)
(* Instances of SyncProcessor for TLC.                                      *)
(***************************************************************************)
EXTENDS SyncProcessor, TLC

Symmetry == Permutations(Workers) \cup Permutations(JobIds)

\* Bound: a database failure or a crash, not both.
OneDisruption == faults + crashes <= 1
==============================================================================
