------------------------------ MODULE MCPolicy -------------------------------
(* Model-checking instances of Policy: one resource with a pattern that is *)
(* a prefix of it, one that is not, and the wildcard.                      *)
EXTENDS Policy, TLC

CONSTANTS r, prefix, other, star

MCCovers == {<<prefix, r>>, <<star, r>>}

Symmetry == Permutations(Identities)
=============================================================================
