----------------------------- MODULE MCModelCache -----------------------------
(* Instances of ModelCache for TLC.                                         *)
EXTENDS ModelCache, TLC

CONSTANTS m1, m2, c1, c2

(* One model is denied or not; caching is on or off.                        *)
MCConfigs ==
  { [enabled |-> TRUE,  permits |-> {m1, m2}, ttl |-> 2],
    [enabled |-> TRUE,  permits |-> {m1},     ttl |-> 1],
    [enabled |-> TRUE,  permits |-> {m1},     ttl |-> 0],
    [enabled |-> FALSE, permits |-> {m1, m2}, ttl |-> 2] }

MCSymmetry == Permutations(Callers)
=============================================================================
