-------------------------- MODULE MCMenuLifecycle --------------------------
EXTENDS MenuLifecycle, TLC

Symm == Permutations(Task) \cup Permutations(Reset)
=============================================================================
