---------------------------- MODULE GameVerdict ----------------------------
(***************************************************************************)
(* What a game promises whoever started it (BaseGameMode.run,              *)
(* services/game_coordinator/games/base.py): it is decided at most once or *)
(* stopped at most once, never both, and then reports exactly that, or     *)
(* that it broke.                                                          *)
(***************************************************************************)
CONSTANTS
  Verdict,   \* what a decision may be, and none of these three:
  None, NoWinner, Broken

VARIABLES
  phase,    \* "open", "decided" or "stopped"
  verdict,  \* who won, None unless decided
  report    \* what the end of the game told, None before

verdictVars == <<phase, verdict, report>>

VInit == phase = "open" /\ verdict = None /\ report = None

\* The win check latches the outcome and the winner
Decide(w) ==
  /\ phase = "open" /\ report = None
  /\ phase' = "decided" /\ verdict' = w
  /\ UNCHANGED report

\* A force end before the decision
Stop ==
  /\ phase = "open" /\ report = None
  /\ phase' = "stopped"
  /\ UNCHANGED <<verdict, report>>

\* game_ended
Report ==
  /\ report = None
  /\ \/ phase = "decided" /\ report' = verdict
     \/ phase = "stopped" /\ report' = NoWinner
  /\ UNCHANGED <<phase, verdict>>

\* The run raised, or a streamed intro returned early
Break ==
  /\ report = None
  /\ report' = Broken
  /\ UNCHANGED <<phase, verdict>>

Finish == phase # "open" /\ (Report \/ Break)

VNext == (\E w \in Verdict : Decide(w)) \/ Stop \/ Report \/ Break

VSpec == VInit /\ [][VNext]_verdictVars

\* A decided or stopped game ends
FairVSpec == VSpec /\ WF_verdictVars(Finish)
=============================================================================
