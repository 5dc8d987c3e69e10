-------------------------- MODULE MCAdminSettings --------------------------
EXTENDS AdminSettings

CONSTANTS teams, speed, allowed, low, high

EveryPair == {teams, speed, allowed} \X {low, high}

\* Two releases: the second no longer accepts one value of an ordinary flag
\* nor any value of another.
MCBuilds == {EveryPair, {p \in EveryPair : p # <<teams, high>> /\ p[1] # speed}}
=============================================================================
