----------------------------- MODULE MCHashMap -------------------------------
(* Hashes that collide in four slots, in eight, or only by wrapping round. *)
EXTENDS HashMap, TLC

perms == Permutations(Keys)
==============================================================================
