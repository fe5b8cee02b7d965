---------------------------- MODULE MCSyncChannel ----------------------------
(***************************************************************************)
(* Instances of SyncChannel for TLC.  The prefixes are model values: one    *)
(* value for both is a deployment in which the two services share the       *)
(* lists, two are the prefixes their constructors name.                     *)
(***************************************************************************)
EXTENDS SyncChannel
==============================================================================
