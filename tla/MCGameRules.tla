---------------------------- MODULE MCGameRules ----------------------------
(* GameRules on three players: a side each, two against one, and a hidden  *)
(* pair beside a third side.                                               *)
EXTENDS GameRules, TLC

CONSTANTS a, b, c

MCDeals == {(a :> 1 @@ b :> 2 @@ c :> 3), (a :> 1 @@ b :> 1 @@ c :> 2)}

\* The second break of a stream comes in the modes with the smallest rosters of
\* other state; one is enough for Nonstop, which has no reconnect.
MCDrops == [m \in AllModes |-> IF m \in {"sides", "wolves"} THEN 2 ELSE 1]
=============================================================================
