----------------------------- MODULE MCExecutor ------------------------------
(* Model-checking instance of Executor, with the texts that callers pass.  *)
EXTENDS Executor, TLC

MCPayloads == {<<"x!">>}
MCArguments ==
    {<<"x!">>, <<Blank, "x!", NewLine>>, <<"x!", NewLine, "x!">>, <<NewLine>>}

Symmetry == Permutations(Sessions)
=============================================================================
