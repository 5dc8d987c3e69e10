------------------------ MODULE MCInterventionEvents ------------------------
(* InterventionEvents with two games; symmetry for safety runs. *)
EXTENDS InterventionEvents, TLC

Appended == Cardinality({i \in Event : home[i] # None})

\* Bound: two of what the flag service goes through, or three events of one
\* game, whose list loses the first, with no second game built
Small ==
  \/ /\ Appended + flips + (epoch - 1) + Cardinality(strayed) <= 2
     /\ version <= 3
  \/ /\ version = 1 + Appended /\ flips = 0 /\ epoch = 1 /\ strayed = {}
     /\ \E g \in Game :
          /\ \A i \in Event : home[i] \in {None, g}
          /\ \A h \in Game \ {g} : session[h] = "starting"

Symm == Permutations(Game)
=============================================================================
