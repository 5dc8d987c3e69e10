-------------------------- MODULE MCFlagLifecycle --------------------------
EXTENDS FlagLifecycle, TLC

CONSTANTS g1, g2, g3, c1, c2

\* c1 runs g1 and g2, c2 the rest.
HomeOf == [g \in Game |-> IF g \in {g1, g2} THEN c1 ELSE c2]

Symm == Permutations({g1, g2} \cap Game)
=============================================================================
