---------------------------- MODULE MCRedbStore -----------------------------
(* Model-checking instances of RedbStore.                                  *)
EXTENDS RedbStore, TLC

(* Owners, payloads and sessions are interchangeable.                      *)
Symmetry == Permutations(Sessions) \cup Permutations(Owners)
=============================================================================
