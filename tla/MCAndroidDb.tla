----------------------------- MODULE MCAndroidDb -----------------------------
(* Model-checking instance of AndroidDb.                                   *)
EXTENDS AndroidDb, TLC

Symmetry ==
    Permutations(UserKeys) \cup Permutations(Threads)
        \cup Permutations(Handles)
=============================================================================
