----------------------------- MODULE MCLdCanvas -----------------------------
(* The ladder canvas on three elements and two rungs.                      *)
EXTENDS LdCanvas, TLC

Symmetric == Permutations(Ids) \cup Permutations(RungIds)
============================================================================
