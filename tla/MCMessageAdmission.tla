------------------------- MODULE MCMessageAdmission -------------------------
(***************************************************************************)
(* The instance of MessageAdmission that TLC checks.                       *)
(***************************************************************************)
EXTENDS MessageAdmission, TLC

Symmetry ==
  Permutations(Thread) \cup Permutations(Serialized) \cup Permutations(Msg \ Serialized)
=============================================================================
