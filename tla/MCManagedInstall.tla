-------------------------- MODULE MCManagedInstall --------------------------
(* Instances of ManagedInstall for TLC.                                     *)
EXTENDS ManagedInstall, TLC

CONSTANTS v1, v2, r1, r2, c1, c2

(* Versions, binary paths and callers are only compared for equality.       *)
MCSymmetry ==
  Permutations({v1, v2}) \cup Permutations({r1, r2}) \cup Permutations({c1, c2})
=============================================================================
