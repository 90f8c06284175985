-------------------------- MODULE MCInstallObserver --------------------------
(* An instance of InstallObserver for TLC.                                  *)
EXTENDS InstallObserver, TLC

CONSTANTS v1, v2, r1, c1

MCSymmetry == Permutations({v1, v2})
=============================================================================
