--------------------------- MODULE MCGameSessions ---------------------------
(* GameSessions on small sets of start requests; symmetry for safety runs. *)
EXTENDS GameSessions, TLC

\* Bound: three of the start requests are made.
ThreeStarts == Cardinality({s \in Session : start[s] # "idle"}) <= 3

Symm == Permutations(Real) \cup Permutations(Shadow)
=============================================================================
