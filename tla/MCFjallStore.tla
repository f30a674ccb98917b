---------------------------- MODULE MCFjallStore ----------------------------
(* Model-checking instances of FjallStore.                                 *)
EXTENDS FjallStore, TLC

(* Owners and secrets are interchangeable.                                 *)
Symmetry == Permutations(Owners) \cup Permutations(Secrets)
=============================================================================
