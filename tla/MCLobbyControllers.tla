------------------------- MODULE MCLobbyControllers -------------------------
(* Instances of LobbyControllers for TLC. *)
EXTENDS LobbyControllers, TLC

CONSTANTS s1, s2, s3
Symm == Permutations(Controller)
=============================================================================
