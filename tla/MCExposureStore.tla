--------------------------- MODULE MCExposureStore ---------------------------
(* Model-checking instances of ExposureStore.                              *)
EXTENDS ExposureStore, TLC

Symmetry == Permutations(Events) \cup Permutations(Tasks)
=============================================================================
