------------------------------ MODULE MCDiamond ------------------------------
(***************************************************************************)
(* An instance of Diamond for TLC.                                          *)
(***************************************************************************)
EXTENDS Diamond, TLC

Symmetry == Permutations(Selectors \ {CutSelector})
==============================================================================
