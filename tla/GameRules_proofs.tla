-------------------------- MODULE GameRules_proofs --------------------------
(***************************************************************************)
(* The rules of every mode for any players, deals, reconnects and bounds:  *)
(* the invariants of the kill path and of the verdict, and that a game     *)
(* keeps the promise of GameVerdict step by step.                          *)
(***************************************************************************)
EXTENDS GameRules, FiniteSetTheorems, TLAPS

-----------------------------------------------------------------------------
(* The inductive invariant *)

\* A call of mode m, with the living in and the players gone in out: nobody is in it but at a
\* stage of a kill, and whoever is in it is where the stage needs the player.
InPlace(r, m, in, out) ==
  /\ r.who = None <=> r.at \in {"idle", "respawn"}
  /\ r.at \in {"sound", "beep"} => r.who \in in
  /\ r.at \in {"flash", "beep"} => m \in {"swap", "zombie"}
  /\ r.at = "flash" /\ m = "zombie" => r.who \in in
  /\ r.at \in {"pause", "colour"} => m = "swap"
  /\ r.at = "respawn" => m = "nonstop"
  /\ r.at = "effect" /\ m = "swap" => r.who \in out

\* The calls are in place, the game task waits for its own, and no player is in both.
CallInv ==
  /\ \A c \in Caller : InPlace(call[c], mode, alive, gone)
  /\ call["frame"].at = "idle" <=> task # "kill"
  /\ call["frame"].who = call["agent"].who => call["frame"].who = None

\* Only Swapper and Nonstop take players out for good beside the kills, and only those they
\* rank; the other modes rank whoever falls.
GoneInv ==
  /\ mode \notin {"swap", "nonstop"} => gone = {}
  /\ ~Sided => \A p \in Player : ranks[p] = 1 => p \in gone

\* What a reopening has reached so far is told, or its effect is on the way again.
ResendInv ==
  task = "resend" /\ stream =>
    \A p \in undelivered \ resend : p \in told \cup alive \cup cut \/ InCall(p)

\* Only zombies fall.
FallenInv == mode = "zombie" => \A p \in Player \ alive : side[p] = Zombie

\* The outcome and the winner, as the task passes them on.
OutcomeInv ==
  /\ ~running => forced \/ task \in {"failed", "ended"}
  /\ outcome = "forced" => forced /\ winner \in {Undecided, TimeLimit}
  /\ winner # Undecided =>
       /\ outcome # "none"
       /\ winner = TimeLimit <=> mode = "nonstop"
       /\ mode = "nonstop" => task \in {"over", "ending", "ended"}
       /\ mode # "swap" => honoured = Honoured(winner)
  /\ outcome # "none" /\ winner = Undecided => task \in {"ending", "failed", "ended"}
  /\ outcome = "completed" /\ winner = Undecided => task = "failed"
  /\ task = "hold" => winner # Undecided
  /\ task \in {"over", "ending"} => forced \/ winner # Undecided
  /\ task = "ending" => outcome # "none"
  /\ task # "ended" => result = None

RulesProofInv ==
  /\ TypeOK /\ CallInv /\ GoneInv /\ CountedOnce /\ MidSwapOwned
  /\ DeathTold /\ ResendInv /\ FallenInv /\ DownZombieDue /\ OutcomeInv /\ VerdictHonoured

-----------------------------------------------------------------------------
(* Types *)

LEMMA Sides == Human \in Side /\ Zombie \in Side /\ \A s \in Side : Other(s) \in Side
<1>1. Cardinality(Player) \in Nat
  BY RulesAssumption, FS_CardinalityType
<1> QED BY <1>1, RulesAssumption DEF Side, Human, Zombie, Other

\* Whoever a stage of a kill is about is a player.
LEMMA InKill ==
  ASSUME TypeOK, CallInv, NEW c \in Caller, call[c].at \notin {"idle", "respawn"}
  PROVE  call[c].who \in Player
BY DEF TypeOK, CallInv, InPlace

\* A call that moves on, ends or begins leaves calls.
LEMMA CallType ==
  ASSUME TypeOK, NEW c \in Caller
  PROVE  /\ \A at \in Stage : Goto(c, at) \in [Caller -> [at : Stage, who : Player \cup {None}]]
         /\ [call EXCEPT ![c] = Idle] \in [Caller -> [at : Stage, who : Player \cup {None}]]
         /\ [call EXCEPT ![c] = [at |-> "respawn", who |-> None]]
              \in [Caller -> [at : Stage, who : Player \cup {None}]]
         /\ \A p \in Player : [call EXCEPT ![c] = [at |-> "sound", who |-> p]]
              \in [Caller -> [at : Stage, who : Player \cup {None}]]
BY DEF TypeOK, Goto, Idle, Stage, Writes

LEMMA ReturnType ==
  ASSUME TypeOK, NEW c \in Caller, Return(c)
  PROVE  call' \in [Caller -> [at : Stage, who : Player \cup {None}]] /\ task' \in Task
BY CallType DEF TypeOK, Return, Back, Task

LEMMA LatchedType == TypeOK => Latched \in {"none", "forced", "completed"} /\ Latched # "none"
BY DEF TypeOK, Latched

LEMMA RaiseType ==
  ASSUME TypeOK, NEW c \in Caller, Raise(c)
  PROVE  /\ call' \in [Caller -> [at : Stage, who : Player \cup {None}]] /\ task' \in Task
         /\ running' \in BOOLEAN /\ outcome' \in {"none", "forced", "completed"}
BY CallType, LatchedType DEF TypeOK, Raise, Fail, Task

\* The winner of a check is a side, or nobody.
LEMMA WinnerType ==
  ASSUME TypeOK
  PROVE  /\ LivingSides \subseteq Side
         /\ LivingSides # {} => (CHOOSE s \in LivingSides : TRUE) \in LivingSides
BY DEF TypeOK, LivingSides

LEMMA HonouredType ==
  ASSUME TypeOK, NEW w
  PROVE  Honoured(w) \in SUBSET Player
BY DEF TypeOK, Honoured, SwapWinners, Fewest

LEMMA RankType ==
  ASSUME TypeOK, NEW p \in Player
  PROVE  Rank(p) \in [Player -> Nat]
BY DEF TypeOK, Rank

LEMMA EliminateType ==
  ASSUME TypeOK, NEW c \in Caller, call[c].who \in Player, Eliminate(c)
  PROVE  /\ call' \in [Caller -> [at : Stage, who : Player \cup {None}]] /\ task' \in Task
         /\ alive' \subseteq Player /\ told' \subseteq Player /\ ranks' \in [Player -> Nat]
BY CallType, RankType DEF TypeOK, Eliminate, Stage, Writes

\* A stage of a kill keeps the types.
LEMMA CallStepType ==
  ASSUME TypeOK, CallInv, NEW c \in Caller, CallStep(c)
  PROVE  TypeOK'
<1> DEFINE p == call[c].who
           Calls == [Caller -> [at : Stage, who : Player \cup {None}]]
<1>0. /\ call \in Calls
      /\ {"effect", "flash", "pause", "colour", "beep"} \subseteq Stage
  BY DEF TypeOK, Stage, Writes
<1> USE DEF rosterVars, verdictVars, streamVars
<1>1. CASE KillRefused(c)
  BY <1>1, ReturnType DEF KillRefused, TypeOK
<1>2. CASE KillLands(c)
  <2>1. p \in Player
    BY <1>2, InKill DEF KillLands, At
  <2>2. call' \in Calls
    BY <1>0, <1>2, CallType DEF KillLands
  <2>3. ranks' \in [Player -> Nat] /\ deaths' \in [Player -> Nat]
    BY <1>2, <2>1, RankType DEF KillLands, TypeOK
  <2>4. alive' \subseteq Player /\ due' \subseteq Player /\ told' \subseteq Player
    BY <1>2, <2>1 DEF KillLands, TypeOK
  <2> QED BY <1>2, <2>2, <2>3, <2>4 DEF KillLands, TypeOK
<1>3. CASE HumanTurns(c)
  <2>1. call' \in Calls
    BY <1>0, <1>3, CallType DEF HumanTurns
  <2>2. side' \in [Player -> Side]
    BY <1>3, Sides DEF HumanTurns, TypeOK
  <2> QED BY <1>3, <2>1, <2>2 DEF HumanTurns, TypeOK
<1>4. CASE SwapStarts(c)
  <2>1. p \in Player
    BY <1>4, InKill DEF SwapStarts, At
  <2>2. call' \in Calls
    BY <1>0, <1>4, CallType DEF SwapStarts
  <2>3. side' \in [Player -> Side]
    BY <1>4, <2>1, Sides DEF SwapStarts, TypeOK
  <2> QED BY <1>4, <2>1, <2>2, <2>3 DEF SwapStarts, TypeOK
<1>5. CASE EffectSent(c)
  <2>1. p \in Player
    BY <1>5, InKill DEF EffectSent, At
  <2> QED BY <1>5, <2>1, ReturnType DEF EffectSent, TypeOK
<1>6. CASE EffectFailed(c)
  <2>1. p \in Player
    BY <1>6, InKill DEF EffectFailed, At
  <2> QED BY <1>6, <2>1, RaiseType DEF EffectFailed, TypeOK
<1>7. CASE FlashSent(c)
  <2>1. call' \in Calls
    BY <1>0, <1>7, CallType DEF FlashSent
  <2> QED BY <1>7, <2>1 DEF FlashSent, TypeOK
<1>8. CASE FlashFailed(c)
  <2>1. mode = "swap" => p \in Player
    <3> SUFFICES ASSUME mode = "swap" PROVE call[c].at \notin {"idle", "respawn"}
      BY InKill
    <3> QED BY <1>8 DEF FlashFailed, CallInv, InPlace
  <2>2. cut' \subseteq Player
    BY <1>8, <2>1 DEF FlashFailed, TypeOK
  <2> QED BY <1>8, <2>2, RaiseType DEF FlashFailed, TypeOK
<1>9. CASE SwapWakes(c)
  <2>1. p \in Player
    BY <1>9, InKill DEF SwapWakes, At
  <2>2. call' \in Calls /\ task' \in Task
        /\ alive' \subseteq Player /\ told' \subseteq Player /\ ranks' \in [Player -> Nat]
    <3>1. CASE p \in gone
      BY <1>9, <2>1, <3>1, EliminateType DEF SwapWakes
    <3>2. CASE p \notin gone /\ running /\ winner = Undecided
      BY <1>0, <1>9, <3>2, CallType DEF SwapWakes, TypeOK
    <3>3. CASE p \notin gone /\ ~(running /\ winner = Undecided)
      BY <1>9, <2>1, <3>3, ReturnType DEF SwapWakes, TypeOK
    <3> QED BY <3>1, <3>2, <3>3
  <2> QED BY <1>9, <2>2 DEF SwapWakes, TypeOK
<1>10. CASE ColourSent(c)
  <2>1. p \in Player
    BY <1>10, InKill DEF ColourSent, At
  <2>2. call' \in Calls /\ task' \in Task
        /\ alive' \subseteq Player /\ told' \subseteq Player /\ ranks' \in [Player -> Nat]
    <3>1. CASE p \in gone
      BY <1>10, <2>1, <3>1, EliminateType DEF ColourSent
    <3>2. CASE p \notin gone /\ running /\ winner = Undecided
      BY <1>0, <1>10, <2>1, <3>2, CallType DEF ColourSent, TypeOK
    <3>3. CASE p \notin gone /\ ~(running /\ winner = Undecided)
      BY <1>10, <2>1, <3>3, ReturnType DEF ColourSent, TypeOK
    <3> QED BY <3>1, <3>2, <3>3
  <2> QED BY <1>10, <2>2 DEF ColourSent, TypeOK
<1>11. CASE Beeped(c)
  <2>1. p \in Player
    BY <1>11, InKill DEF Beeped, At
  <2>2. call' \in Calls /\ task' \in Task
        /\ alive' \subseteq Player /\ told' \subseteq Player /\ ranks' \in [Player -> Nat]
    <3>1. CASE p \in gone
      BY <1>11, <2>1, <3>1, EliminateType DEF Beeped
    <3>2. CASE p \notin gone
      BY <1>11, <3>2, ReturnType DEF Beeped, TypeOK
    <3> QED BY <3>1, <3>2
  <2> QED BY <1>11, <2>2 DEF Beeped, TypeOK
<1>12. CASE RespawnShown(c)
  BY <1>12, ReturnType DEF RespawnShown, TypeOK
<1> QED
  BY <1>1, <1>2, <1>3, <1>4, <1>5, <1>6, <1>7, <1>8, <1>9, <1>10, <1>11, <1>12 DEF CallStep

LEMMA BeginType ==
  ASSUME TypeOK, NEW c \in Caller, NEW p \in Player, Begin(c, p)
  PROVE  call' \in [Caller -> [at : Stage, who : Player \cup {None}]] /\ task' \in Task
BY CallType DEF TypeOK, Begin, Task

LEMMA LeavesType ==
  ASSUME TypeOK, NEW p \in Player, Leaves(p)
  PROVE  /\ gone' \subseteq Player /\ due' \subseteq Player /\ ranks' \in [Player -> Nat]
         /\ lastDeath' \in Player \cup {None}
<1>1. CASE mode = "swap" /\ winner = Undecided /\ p \notin gone
  BY <1>1, RankType DEF Leaves, TypeOK
<1>2. CASE mode = "nonstop" /\ p \notin gone
  BY <1>2, RankType DEF Leaves, TypeOK
<1>3. CASE ~(mode = "swap" /\ winner = Undecided /\ p \notin gone)
           /\ ~(mode = "nonstop" /\ p \notin gone)
  BY <1>3 DEF Leaves, TypeOK
<1> QED BY <1>1, <1>2, <1>3

LEMMA DisconnectType ==
  ASSUME TypeOK, NEW p \in Player, Disconnect(p), warm' \subseteq Player
  PROVE  TypeOK'
<1> USE DEF streamVars, verdictVars
<1>1. call' \in [Caller -> [at : Stage, who : Player \cup {None}]] /\ task' \in Task
  <2>1. CASE Begin("frame", p)
    BY <2>1, BeginType DEF Caller
  <2>2. CASE ~Begin("frame", p)
    BY <2>2 DEF Disconnect, TypeOK, Task, Back
  <2> QED BY <2>1, <2>2
<1>2. Leaves(p)
  BY DEF Disconnect
<1> QED BY <1>1, <1>2, LeavesType DEF Disconnect, TypeOK

\* What happens to a player keeps the types.
LEMMA PlayerStepType ==
  ASSUME TypeOK, NEW p \in Player, PlayerStep(p)
  PROVE  TypeOK'
<1> USE DEF rosterVars, verdictVars, streamVars, Returns
<1>0. "frame" \in Caller /\ "agent" \in Caller
  BY DEF Caller
<1>1. CASE RespawnDue(p)
  <2>1. alive' \subseteq Player /\ due' \subseteq Player /\ told' \subseteq Player
    BY <1>1 DEF RespawnDue, TypeOK
  <2> QED BY <1>1, <2>1 DEF RespawnDue, TypeOK
<1>2. CASE FrameRespawn(p)
  <2>1. alive' \subseteq Player /\ due' \subseteq Player /\ told' \subseteq Player
    BY <1>2 DEF FrameRespawn, TypeOK
  <2>2. call' \in [Caller -> [at : Stage, who : Player \cup {None}]] /\ task' \in Task
    BY <1>0, <1>2, CallType DEF FrameRespawn, Task
  <2> QED BY <1>2, <2>1, <2>2 DEF FrameRespawn, TypeOK
<1>3. CASE Revive(p)
  <2>1. alive' \subseteq Player /\ due' \subseteq Player /\ told' \subseteq Player
    BY <1>3 DEF Revive, TypeOK
  <2>2. call' \in [Caller -> [at : Stage, who : Player \cup {None}]]
    BY <1>0, <1>3, CallType DEF Revive, TypeOK
  <2> QED BY <1>3, <2>1, <2>2 DEF Revive, TypeOK
<1>4. CASE AgentKill(p)
  BY <1>0, <1>4, BeginType DEF AgentKill, TypeOK
<1>5. CASE FrameKill(p)
  BY <1>0, <1>5, BeginType DEF FrameKill, TypeOK
<1>6. CASE FrameDisconnect(p)
  BY <1>6, DisconnectType DEF FrameDisconnect, TypeOK
<1>7. CASE WarmupSees(p)
  BY <1>7 DEF WarmupSees, TypeOK
<1> QED BY <1>1, <1>2, <1>3, <1>4, <1>5, <1>6, <1>7 DEF PlayerStep

LEMMA FailType ==
  ASSUME TypeOK, Fail
  PROVE  task' \in Task /\ running' \in BOOLEAN /\ outcome' \in {"none", "forced", "completed"}
BY LatchedType DEF Fail, Task

LEMMA DecideType ==
  ASSUME TypeOK, NEW w \in Side \cup {Undecided, Nobody, TimeLimit}, Decide(w)
  PROVE  /\ task' \in Task /\ outcome' \in {"none", "forced", "completed"}
         /\ winner' \in Side \cup {Undecided, Nobody, TimeLimit} /\ honoured' \subseteq Player
BY LatchedType, HonouredType DEF TypeOK, Decide, Back, Task

LEMMA WinCheckType ==
  ASSUME TypeOK, WinCheck
  PROVE  /\ task' \in Task /\ outcome' \in {"none", "forced", "completed"}
         /\ winner' \in Side \cup {Undecided, Nobody, TimeLimit} /\ honoured' \subseteq Player
<1> DEFINE Out == /\ task' \in Task /\ outcome' \in {"none", "forced", "completed"}
                  /\ winner' \in Side \cup {Undecided, Nobody, TimeLimit}
                  /\ honoured' \subseteq Player
<1>1. CASE GoOn
  BY <1>1 DEF GoOn, TypeOK, Task, Back
<1>2. ASSUME NEW w \in Side \cup {Undecided, Nobody, TimeLimit}, Decide(w) PROVE Out
  BY <1>2, DecideType
<1>3. CASE mode = "nonstop"
  BY <1>1, <1>3, LatchedType, HonouredType DEF WinCheck, Task
<1>4. CASE mode # "nonstop" /\ winner # Undecided
  BY <1>4 DEF WinCheck, TypeOK, Task
<1>5. CASE mode # "nonstop" /\ winner = Undecided /\ forced
  BY <1>1, <1>5 DEF WinCheck
<1>6. CASE mode = "zombie" /\ winner = Undecided /\ ~forced
  <2>1. Decide(Zombie) \/ Decide(Human) \/ GoOn
    BY <1>6 DEF WinCheck
  <2> QED BY <1>1, <1>2, <2>1, Sides
<1>7. CASE mode \notin {"nonstop", "zombie"} /\ winner = Undecided /\ ~forced
  <2>1. \/ Decide(Nobody) \/ GoOn
        \/ LivingSides # {} /\ Decide(CHOOSE s \in LivingSides : TRUE)
    BY <1>7 DEF WinCheck
  <2> QED BY <1>1, <1>2, <2>1, WinnerType
<1> QED BY <1>3, <1>4, <1>5, <1>6, <1>7

LEMMA ReadFailsType ==
  ASSUME TypeOK, ReadFails
  PROVE  /\ task' \in Task /\ running' \in BOOLEAN /\ tries' \in 0..MaxReconnects
         /\ outcome' \in {"none", "forced", "completed"}
<1>1. CASE mode = "nonstop"
  BY <1>1, FailType DEF ReadFails, TypeOK
<1>2. CASE mode # "nonstop" /\ ~running
  BY <1>2 DEF ReadFails, TypeOK, Task
<1>3. CASE mode # "nonstop" /\ running
  <2>1. PICK t \in {tries, 0} :
          IF t = MaxReconnects THEN Fail /\ UNCHANGED tries
          ELSE task' = "backoff" /\ tries' = t + 1 /\ UNCHANGED <<running, outcome>>
    BY <1>3 DEF ReadFails
  <2>2. t \in 0..MaxReconnects
    BY RulesAssumption DEF TypeOK
  <2> QED BY <2>1, <2>2, FailType, RulesAssumption DEF TypeOK, Task
<1> QED BY <1>1, <1>2, <1>3

LEMMA EndGameType ==
  ASSUME TypeOK, EndGame, outcome # "none"
  PROVE  result' \in [outcome : {"forced", "completed"},
                      winner : Side \cup {Undecided, Nobody, TimeLimit}, who : SUBSET Player]
<1> DEFINE w == IF outcome = "forced" THEN Undecided ELSE winner
<1>1. PICK who \in IF w = Undecided THEN {{}}
                   ELSE IF mode = "swap" THEN {honoured}
                   ELSE IF mode = "nonstop" THEN {{p} : p \in Fewest}
                   ELSE {Honoured(w)} :
        result' = [outcome |-> outcome, winner |-> w, who |-> who]
  BY DEF EndGame
<1>2. w \in Side \cup {Undecided, Nobody, TimeLimit}
  BY DEF TypeOK
<1> HIDE DEF w
<1>3. who \in SUBSET Player
  BY HonouredType DEF TypeOK, Fewest
<1>4. outcome \in {"forced", "completed"}
  BY DEF TypeOK
<1> QED BY <1>1, <1>2, <1>3, <1>4

\* The steps of the game task keep the types.
LEMMA TaskStepType ==
  ASSUME TypeOK, CallInv, OutcomeInv, TaskStep
  PROVE  TypeOK'
<1> USE DEF rosterVars, verdictVars, streamVars, Quiet, ToWarm, Task
<1>1. CASE IntroOver
  BY <1>1 DEF IntroOver, TypeOK
<1>2. CASE LoopStarts
  <2>1. stream' \in BOOLEAN /\ warm' \subseteq Player /\ task' \in Task
    BY <1>2 DEF LoopStarts, TypeOK
  <2>2. UNCHANGED <<mode, rosterVars, timeUp, call, warming, running, forced,
                    verdictVars, drops, tries, resend, told, undelivered, cut>>
    BY <1>2 DEF LoopStarts
  <2> QED BY <2>1, <2>2 DEF TypeOK
<1>3. CASE WarmOver
  <2>1. /\ task' \in Task /\ running' \in BOOLEAN /\ warming' \in BOOLEAN
        /\ outcome' \in {"none", "forced", "completed"}
        /\ UNCHANGED <<Quiet, result, streamVars>>
    BY <1>3, FailType DEF WarmOver, TypeOK
  <2> QED BY <2>1 DEF TypeOK
<1>4. CASE FrameStarts
  BY <1>4 DEF FrameStarts, TypeOK
<1>5. CASE ReadFails
  <2>1. /\ UNCHANGED Quiet
        /\ UNCHANGED <<warming, result, stream, drops, resend, told, undelivered, cut>>
    BY <1>5 DEF ReadFails
  <2> QED BY <1>5, <2>1, ReadFailsType DEF TypeOK
<1>6. CASE Reopen
  <2>1. /\ task' \in Task /\ stream' \in BOOLEAN /\ resend' \subseteq Player
        /\ UNCHANGED <<Quiet, warming, running, outcome, result, drops, tries, told,
                       undelivered, cut>>
    BY <1>6 DEF Reopen, TypeOK
  <2> QED BY <2>1 DEF TypeOK
<1>7. CASE ResendFails
  BY <1>7, FailType DEF ResendFails, TypeOK
<1>8. CASE ResendOver
  BY <1>8 DEF ResendOver, TypeOK
<1>9. CASE WinCheck
  BY <1>9, WinCheckType DEF WinCheck, TypeOK
<1>10. CASE HoldOver
  BY <1>10, LatchedType DEF HoldOver, TypeOK
<1>11. CASE Teardown
  BY <1>11, LatchedType DEF Teardown, TypeOK
<1>12. CASE EndGame
  BY <1>12, EndGameType DEF EndGame, TypeOK, OutcomeInv
<1>13. ASSUME NEW p \in Player, WarmDisconnect(p) PROVE TypeOK'
  <2>1. warm' \subseteq Player
    BY <1>13 DEF WarmDisconnect, TypeOK
  <2> QED BY <1>13, <2>1, DisconnectType DEF WarmDisconnect
<1>14. ASSUME NEW p \in Player, ResendOne(p) PROVE TypeOK'
  BY <1>14 DEF ResendOne, TypeOK
<1> QED
  BY <1>1, <1>2, <1>3, <1>4, <1>5, <1>6, <1>7, <1>8, <1>9, <1>10, <1>11, <1>12, <1>13,
     <1>14 DEF TaskStep

LEMMA TypeStep ==
  ASSUME TypeOK, CallInv, OutcomeInv, [Next]_vars
  PROVE  TypeOK'
<1> USE DEF rosterVars, verdictVars, streamVars, Quiet
<1>1. CASE CountdownStops
  <2>1. /\ task' \in Task
        /\ UNCHANGED <<Quiet, warming, running, outcome, result, streamVars>>
    BY <1>1 DEF CountdownStops, Task
  <2> QED BY <2>1 DEF TypeOK
<1>2. CASE ForceEnd
  BY ZenonT(40), <1>2 DEF ForceEnd, TypeOK
<1>3. CASE TimeRunsOut
  <2>1. /\ timeUp' \in BOOLEAN
        /\ UNCHANGED <<mode, rosterVars, call, task, warm, warming, running, forced,
                       verdictVars, streamVars>>
    BY <1>3 DEF TimeRunsOut
  <2> QED BY <2>1 DEF TypeOK
<1>4. CASE StreamBreaks
  <2>1. drops' \in Nat /\ stream' \in BOOLEAN
    <3>1. drops' \in Nat
      BY <1>4 DEF StreamBreaks, TypeOK
    <3>2. stream' = FALSE
      BY <1>4 DEF StreamBreaks
    <3> QED BY <3>1, <3>2
  <2>2. UNCHANGED <<Quiet, task, warming, running, outcome, result, tries, resend, told,
                    undelivered, cut>>
    BY <1>4 DEF StreamBreaks
  <2> QED BY <2>1, <2>2 DEF TypeOK
<1>5. CASE UNCHANGED vars
  BY <1>5 DEF vars, TypeOK
<1> QED
  BY <1>1, <1>2, <1>3, <1>4, <1>5, CallStepType, TaskStepType, PlayerStepType DEF Next

-----------------------------------------------------------------------------
(* The calls *)

LEMMA CallMoves ==
  ASSUME TypeOK, CallInv, NEW c \in Caller, NEW r \in [at : Stage, who : Player \cup {None}],
         call' = [call EXCEPT ![c] = r], mode' = mode, gone \subseteq gone',
         alive \ {call[c].who} \subseteq alive', InPlace(r, mode, alive', gone'),
         \A d \in Caller \ {c} : r.who # None => call[d].who # r.who,
         c = "frame" => (r.at = "idle" <=> task' # "kill"),
         c = "agent" => (task' = "kill" <=> task = "kill")
  PROVE  CallInv'
<1>1. c \in {"frame", "agent"} /\ call'[c] = r /\ \A d \in Caller \ {c} : call'[d] = call[d]
  BY DEF TypeOK, Caller
<1>2. \A d \in Caller \ {c} : call[d].who # None => call[d].who # call[c].who
  BY <1>1 DEF CallInv, Caller
<1>3. \A d \in Caller \ {c} : InPlace(call[d], mode, alive', gone')
  BY <1>2 DEF CallInv, InPlace
<1>4. \A d \in Caller : InPlace(call'[d], mode', alive', gone')
  BY <1>1, <1>3
<1>5. call'["frame"].at = "idle" <=> task' # "kill"
  BY <1>1 DEF CallInv, Caller
<1>6. call'["frame"].who = call'["agent"].who => call'["frame"].who = None
  BY <1>1 DEF Caller
<1> QED BY <1>4, <1>5, <1>6 DEF CallInv

LEMMA GotoCalls ==
  ASSUME TypeOK, CallInv, NEW c \in Caller, NEW at \in Stage \ {"idle", "respawn"},
         call[c].at \notin {"idle", "respawn"},
         call' = Goto(c, at), mode' = mode, gone \subseteq gone',
         alive \ {call[c].who} \subseteq alive', UNCHANGED task,
         InPlace([at |-> at, who |-> call[c].who], mode, alive', gone')
  PROVE  CallInv'
<1> DEFINE r == [at |-> at, who |-> call[c].who]
<1>1. call[c] \in [at : Stage, who : Player \cup {None}] /\ call' = [call EXCEPT ![c] = r]
  <2>1. call[c] \in [at : Stage, who : Player \cup {None}]
    BY DEF TypeOK
  <2>2. [call[c] EXCEPT !.at = at] = r
    BY <2>1
  <2>3. call' = [call EXCEPT ![c] = [call[c] EXCEPT !.at = at]]
    BY DEF Goto
  <2> QED BY <2>1, <2>2, <2>3
<1>2. r \in [at : Stage, who : Player \cup {None}] /\ r.who = call[c].who /\ r.at # "idle"
  BY <1>1
<1>3. \A d \in Caller \ {c} : r.who # None => call[d].who # r.who
  BY <1>2 DEF CallInv, Caller
<1>4. c = "frame" => task = "kill"
  BY DEF CallInv
<1> HIDE DEF r
<1> QED BY <1>1, <1>2, <1>3, <1>4, CallMoves DEF r

LEMMA IdleCalls ==
  ASSUME TypeOK, CallInv, NEW c \in Caller, call' = [call EXCEPT ![c] = Idle], mode' = mode,
         gone \subseteq gone', alive \ {call[c].who} \subseteq alive',
         c = "frame" => task' # "kill", c = "agent" => (task' = "kill" <=> task = "kill")
  PROVE  CallInv'
<1>1. Idle \in [at : Stage, who : Player \cup {None}] /\ Idle.who = None /\ Idle.at = "idle"
  BY DEF Idle, Stage, Writes
<1>2. InPlace(Idle, mode, alive', gone')
  BY <1>1 DEF InPlace
<1> QED BY <1>1, <1>2, CallMoves

LEMMA ReturnCalls ==
  ASSUME TypeOK, CallInv, NEW c \in Caller, Return(c), mode' = mode,
         gone \subseteq gone', alive \ {call[c].who} \subseteq alive'
  PROVE  CallInv'
<1>1. task' # "kill" \/ c # "frame"
  BY DEF Return, Back
<1>2. c = "agent" => task' = task
  BY DEF Return
<1> QED BY <1>1, <1>2, IdleCalls DEF Return

LEMMA RaiseCalls ==
  ASSUME TypeOK, CallInv, NEW c \in Caller, Raise(c), mode' = mode,
         gone \subseteq gone', alive \ {call[c].who} \subseteq alive'
  PROVE  CallInv'
<1>1. task' # "kill" \/ c # "frame"
  BY DEF Raise, Fail
<1>2. c = "agent" => task' = task
  BY DEF Raise
<1> QED BY <1>1, <1>2, IdleCalls DEF Raise

LEMMA BeginCalls ==
  ASSUME TypeOK, CallInv, NEW c \in Caller, NEW p \in Player, Begin(c, p), call[c] = Idle,
         p \in alive, ~InCall(p), mode' = mode, gone \subseteq gone', alive \subseteq alive'
  PROVE  CallInv'
<1> DEFINE r == [at |-> "sound", who |-> p]
<1>1. r \in [at : Stage, who : Player \cup {None}] /\ r.who = p /\ r.at = "sound" /\ p # None
  BY RulesAssumption DEF Stage, Writes
<1>2. InPlace(r, mode, alive', gone')
  BY <1>1 DEF InPlace
<1>3. call' = [call EXCEPT ![c] = r] /\ task' = IF c = "frame" THEN "kill" ELSE task
  BY DEF Begin
<1> HIDE DEF r
<1>4. \A d \in Caller : call[d].who # r.who
  BY <1>1 DEF InCall
<1> QED BY <1>1, <1>2, <1>3, <1>4, CallMoves

LEMMA QuietCalls ==
  ASSUME CallInv, UNCHANGED <<mode, call>>, gone \subseteq gone', alive \subseteq alive',
         task' = "kill" <=> task = "kill"
  PROVE  CallInv'
BY DEF CallInv, InPlace

LEMMA EliminateCalls ==
  ASSUME TypeOK, CallInv, NEW c \in Caller, call[c].at \in {"pause", "colour", "beep"},
         call[c].who \in gone, Eliminate(c), UNCHANGED <<mode, gone>>
  PROVE  CallInv'
<1>1. InPlace([at |-> "effect", who |-> call[c].who], mode, alive', gone')
  BY InKill, RulesAssumption DEF InPlace
<1>2. "effect" \in Stage \ {"idle", "respawn"}
  BY DEF Stage, Writes
<1> QED BY <1>1, <1>2, GotoCalls DEF Eliminate

\* The stages of a kill keep the calls in place.
LEMMA CallStepCalls ==
  ASSUME TypeOK, CallInv, NEW c \in Caller, CallStep(c)
  PROVE  CallInv'
<1> DEFINE p == call[c].who
<1>0. /\ {"effect", "flash", "pause", "colour", "beep"} \subseteq Stage \ {"idle", "respawn"}
      /\ InPlace(call[c], mode, alive, gone)
  BY DEF Stage, Writes, CallInv
<1>k. call[c].at \notin {"idle", "respawn"} => p \in Player /\ p # None
  BY InKill, RulesAssumption
<1> USE DEF At, rosterVars
<1>1. CASE KillRefused(c)
  BY <1>1, ReturnCalls DEF KillRefused
<1>2. CASE KillLands(c)
  <2>1. InPlace([at |-> "effect", who |-> p], mode, alive', gone')
    BY <1>2, <1>k DEF KillLands, InPlace
  <2> QED BY <1>0, <1>2, <2>1, GotoCalls DEF KillLands
<1>3. CASE HumanTurns(c)
  <2>1. InPlace([at |-> "flash", who |-> p], mode, alive', gone')
    BY <1>0, <1>3, <1>k DEF HumanTurns, InPlace
  <2> QED BY <1>0, <1>3, <2>1, GotoCalls DEF HumanTurns
<1>4. CASE SwapStarts(c)
  <2>1. InPlace([at |-> "flash", who |-> p], mode, alive', gone')
    BY <1>4, <1>k DEF SwapStarts, InPlace
  <2> QED BY <1>0, <1>4, <2>1, GotoCalls DEF SwapStarts
<1>5. CASE EffectSent(c)
  BY <1>5, ReturnCalls DEF EffectSent
<1>6. CASE EffectFailed(c)
  BY <1>6, RaiseCalls DEF EffectFailed
<1>7. CASE FlashSent(c)
  <2>1. InPlace([at |-> IF mode = "swap" THEN "pause" ELSE "beep", who |-> p],
                mode, alive', gone')
    BY <1>0, <1>7, <1>k DEF FlashSent, InPlace
  <2> QED BY <1>0, <1>7, <2>1, GotoCalls DEF FlashSent
<1>8. CASE FlashFailed(c)
  BY <1>8, RaiseCalls DEF FlashFailed
<1>9. CASE SwapWakes(c)
  <2>1. CASE p \in gone
    BY <1>9, <2>1, EliminateCalls DEF SwapWakes
  <2>2. CASE p \notin gone /\ running /\ winner = Undecided
    <3>1. InPlace([at |-> "colour", who |-> p], mode, alive', gone')
      BY <1>0, <1>9, <2>2, <1>k DEF SwapWakes, InPlace
    <3> QED BY <1>0, <1>9, <2>2, <3>1, GotoCalls DEF SwapWakes
  <2>3. CASE p \notin gone /\ ~(running /\ winner = Undecided)
    BY <1>9, <2>3, ReturnCalls DEF SwapWakes
  <2> QED BY <2>1, <2>2, <2>3
<1>10. CASE ColourSent(c)
  <2>1. CASE p \in gone
    BY <1>10, <2>1, EliminateCalls DEF ColourSent
  <2>2. CASE p \notin gone /\ running /\ winner = Undecided
    <3>1. InPlace([at |-> "beep", who |-> p], mode, alive', gone')
      BY <1>0, <1>10, <2>2, <1>k DEF ColourSent, InPlace
    <3> QED BY <1>0, <1>10, <2>2, <3>1, GotoCalls DEF ColourSent
  <2>3. CASE p \notin gone /\ ~(running /\ winner = Undecided)
    BY <1>10, <2>3, ReturnCalls DEF ColourSent
  <2> QED BY <2>1, <2>2, <2>3
<1>11. CASE Beeped(c)
  <2>1. CASE p \in gone
    BY <1>11, <2>1, EliminateCalls DEF Beeped
  <2>2. CASE p \notin gone
    BY <1>11, <2>2, ReturnCalls DEF Beeped
  <2> QED BY <2>1, <2>2
<1>12. CASE RespawnShown(c)
  BY <1>12, ReturnCalls DEF RespawnShown
<1> QED
  BY <1>1, <1>2, <1>3, <1>4, <1>5, <1>6, <1>7, <1>8, <1>9, <1>10, <1>11, <1>12 DEF CallStep

\* Nobody goes back in.
LEMMA LeavesGone == ASSUME TypeOK, NEW p \in Player, Leaves(p) PROVE gone \subseteq gone'
<1>1. CASE mode = "swap" /\ winner = Undecided /\ p \notin gone
  BY <1>1 DEF Leaves
<1>2. CASE mode = "nonstop" /\ p \notin gone
  BY <1>2 DEF Leaves
<1>3. CASE ~(mode = "swap" /\ winner = Undecided /\ p \notin gone)
           /\ ~(mode = "nonstop" /\ p \notin gone)
  BY <1>3 DEF Leaves
<1> QED BY <1>1, <1>2, <1>3

LEMMA DisconnectCalls ==
  ASSUME TypeOK, CallInv, NEW p \in Player, Disconnect(p), task \in {"warm", "frame"}
  PROVE  CallInv'
<1>1. gone \subseteq gone' /\ UNCHANGED <<mode, alive>>
  BY LeavesGone DEF Disconnect
<1>2. "frame" \in Caller /\ call["frame"] = Idle
  <2>1. call["frame"] \in [at : Stage, who : Player \cup {None}] /\ "frame" \in Caller
    BY DEF TypeOK, Caller
  <2>2. call["frame"].at = "idle" /\ call["frame"].who = None
    BY <2>1 DEF CallInv, InPlace
  <2> QED BY <2>1, <2>2 DEF Idle
<1>3. CASE CanDie(p, gone') /\ Begin("frame", p)
  BY <1>1, <1>2, <1>3, BeginCalls DEF CanDie
<1>4. CASE UNCHANGED call /\ task' # "kill"
  BY <1>1, <1>4, QuietCalls
<1> QED BY <1>3, <1>4 DEF Disconnect, Back

LEMMA PlayerStepCalls ==
  ASSUME TypeOK, CallInv, NEW p \in Player, PlayerStep(p)
  PROVE  CallInv'
<1> USE DEF Returns, rosterVars
<1>0. "frame" \in Caller /\ "agent" \in Caller
  BY DEF Caller
<1>r. ASSUME NEW c \in Caller, call' = [call EXCEPT ![c] = [at |-> "respawn", who |-> None]],
             mode = "nonstop", UNCHANGED <<mode, gone>>, alive \subseteq alive',
             c = "frame" => task' = "kill", c = "agent" => task' = task
      PROVE  CallInv'
  <2> DEFINE r == [at |-> "respawn", who |-> None]
  <2>1. r \in [at : Stage, who : Player \cup {None}] /\ r.who = None /\ r.at = "respawn"
    BY DEF Stage, Writes
  <2>2. InPlace(r, mode, alive', gone')
    BY <1>r, <2>1 DEF InPlace
  <2> HIDE DEF r
  <2> QED BY <1>r, <2>1, <2>2, CallMoves DEF r
<1>1. CASE RespawnDue(p)
  BY <1>1, QuietCalls DEF RespawnDue
<1>2. CASE FrameRespawn(p)
  BY <1>0, <1>2, <1>r DEF FrameRespawn
<1>3. CASE Revive(p)
  <2>1. CASE mode = "zombie"
    BY <1>3, <2>1, QuietCalls DEF Revive
  <2>2. CASE mode # "zombie"
    BY <1>0, <1>3, <1>r, <2>2 DEF Revive, MayReturn
  <2> QED BY <2>1, <2>2
<1>4. CASE AgentKill(p)
  BY <1>0, <1>4, BeginCalls DEF AgentKill, CanDie
<1>5. CASE FrameKill(p)
  <2>1. call["frame"] \in [at : Stage, who : Player \cup {None}]
    BY <1>0 DEF TypeOK
  <2>2. call["frame"].at = "idle" /\ call["frame"].who = None
    BY <1>0, <1>5, <2>1 DEF CallInv, InPlace, FrameKill
  <2>3. call["frame"] = Idle
    BY <2>1, <2>2 DEF Idle
  <2> QED BY <1>0, <1>5, <2>3, BeginCalls DEF FrameKill, CanDie
<1>6. CASE FrameDisconnect(p)
  BY <1>6, DisconnectCalls DEF FrameDisconnect
<1>7. CASE WarmupSees(p)
  BY <1>7, QuietCalls DEF WarmupSees
<1> QED BY <1>1, <1>2, <1>3, <1>4, <1>5, <1>6, <1>7 DEF PlayerStep

LEMMA WinCheckGoes ==
  ASSUME TypeOK, WinCheck
  PROVE  task \in {"check", "frame"} /\ task' \in {"warm", "frame", "loop", "over", "hold"}
<1> DEFINE To == {"warm", "frame", "loop", "over", "hold"}
<1>1. ASSUME GoOn PROVE task' \in To
  BY <1>1 DEF GoOn, Back
<1>2. ASSUME NEW w, Decide(w) PROVE task' \in To
  BY <1>2 DEF Decide, Back
<1>3. task \in {"check", "frame"}
  BY DEF WinCheck
<1>4. \/ GoOn \/ task' \in {"over", "hold"}
      \/ \E w \in {Zombie, Human, Nobody, CHOOSE s \in LivingSides : TRUE} : Decide(w)
  BY DEF WinCheck
<1> QED BY <1>1, <1>2, <1>3, <1>4

\* What the game task does leaves the calls in place.
LEMMA TaskStepCalls ==
  ASSUME TypeOK, CallInv, TaskStep
  PROVE  CallInv'
<1> USE DEF Quiet, rosterVars, ToWarm
<1>1. CASE IntroOver \/ LoopStarts \/ FrameStarts \/ HoldOver \/ Teardown \/ EndGame
  BY <1>1, QuietCalls DEF IntroOver, LoopStarts, FrameStarts, HoldOver, Teardown, EndGame
<1>2. CASE WarmOver \/ Reopen \/ ResendFails \/ ResendOver
  BY <1>2, QuietCalls DEF WarmOver, Reopen, ResendFails, ResendOver, Fail
<1>3. CASE ReadFails
  <2>1. task = "loop" /\ task' # "kill" /\ UNCHANGED Quiet
    BY <1>3 DEF ReadFails, Fail
  <2> QED BY <2>1, QuietCalls
<1>4. CASE WinCheck
  BY <1>4, WinCheckGoes, QuietCalls DEF WinCheck
<1>5. ASSUME NEW p \in Player, WarmDisconnect(p) PROVE CallInv'
  BY <1>5, DisconnectCalls DEF WarmDisconnect
<1>6. ASSUME NEW p \in Player, ResendOne(p) PROVE CallInv'
  BY <1>6, QuietCalls DEF ResendOne
<1> QED BY <1>1, <1>2, <1>3, <1>4, <1>5, <1>6 DEF TaskStep

LEMMA CallInvStep ==
  ASSUME TypeOK, CallInv, [Next]_vars
  PROVE  CallInv'
<1> USE DEF Quiet, rosterVars
<1>1. CASE CountdownStops \/ ForceEnd
  BY <1>1, QuietCalls DEF CountdownStops, ForceEnd
<1>2. CASE TimeRunsOut \/ StreamBreaks \/ UNCHANGED vars
  BY <1>2, QuietCalls DEF TimeRunsOut, StreamBreaks, vars
<1> QED BY <1>1, <1>2, CallStepCalls, PlayerStepCalls, TaskStepCalls DEF Next

-----------------------------------------------------------------------------
(* The players *)

\* The invariants of the roster, player by player.
PlayerInv(p) ==
  /\ mode \notin {"swap", "nonstop"} => p \notin gone
  /\ ranks[p] <= 1
  /\ ranks[p] = 1 => p \notin alive
  /\ Sided /\ p \notin alive => ranks[p] = 1
  /\ ~Sided /\ ranks[p] = 1 => p \in gone
  /\ MidSwap(p) => InCall(p) \/ p \in cut
  /\ mode = "zombie" /\ p \notin alive => side[p] = Zombie
  /\ mode = "zombie" /\ running /\ winner = Undecided /\ p \notin alive => p \in due

RosterInv == GoneInv /\ CountedOnce /\ MidSwapOwned /\ FallenInv /\ DownZombieDue

LEMMA RosterPlayers ==
  ASSUME TypeOK
  PROVE  RosterInv <=> \A p \in Player : PlayerInv(p)
<1>1. RosterInv => \A p \in Player : PlayerInv(p)
  BY DEF RosterInv, PlayerInv, GoneInv, CountedOnce, MidSwapOwned, FallenInv, DownZombieDue
<1>2. (\A p \in Player : PlayerInv(p)) => GoneInv /\ CountedOnce /\ MidSwapOwned
  BY DEF PlayerInv, GoneInv, CountedOnce, MidSwapOwned, TypeOK
<1>3. (\A p \in Player : PlayerInv(p)) => FallenInv /\ DownZombieDue
  BY DEF PlayerInv, FallenInv, DownZombieDue
<1> QED BY <1>1, <1>2, <1>3 DEF RosterInv

\* A call that ends or moves on takes nobody else out of a kill.
LEMMA CallKeeps ==
  ASSUME TypeOK, NEW c \in Caller, NEW q \in Player, InCall(q)
  PROVE  /\ \A at : call' = Goto(c, at) => InCall(q)'
         /\ \A r : call' = [call EXCEPT ![c] = r] /\ q # call[c].who => InCall(q)'
BY DEF InCall, Goto, TypeOK

\* What only goes one way.
LEMMA WinnerStays ==
  ASSUME TypeOK, WinCheck
  PROVE  winner' = Undecided => winner = Undecided
<1>1. CASE mode = "nonstop"
  BY <1>1, RulesAssumption DEF WinCheck, GoOn
<1>2. CASE mode # "nonstop" /\ winner # Undecided
  BY <1>2 DEF WinCheck
<1>3. CASE winner = Undecided
  BY <1>3
<1> QED BY <1>1, <1>2, <1>3

OneWay ==
  /\ mode' = mode
  /\ running' => running
  /\ winner' = Undecided => winner = Undecided

LEMMA CallStepOneWay == ASSUME TypeOK, NEW c \in Caller, CallStep(c) PROVE OneWay
<1> USE DEF OneWay, verdictVars, Raise, Fail
<1>1. CASE KillRefused(c) \/ KillLands(c) \/ HumanTurns(c) \/ SwapStarts(c)
  BY <1>1 DEF KillRefused, KillLands, HumanTurns, SwapStarts
<1>2. CASE EffectSent(c) \/ EffectFailed(c) \/ FlashSent(c) \/ FlashFailed(c)
  BY <1>2 DEF EffectSent, EffectFailed, FlashSent, FlashFailed
<1>3. CASE SwapWakes(c) \/ ColourSent(c) \/ Beeped(c) \/ RespawnShown(c)
  BY <1>3 DEF SwapWakes, ColourSent, Beeped, RespawnShown
<1> QED BY <1>1, <1>2, <1>3 DEF CallStep

LEMMA PlayerStepOneWay == ASSUME TypeOK, NEW p \in Player, PlayerStep(p) PROVE OneWay
<1> USE DEF OneWay, verdictVars
<1>1. CASE RespawnDue(p) \/ FrameRespawn(p) \/ Revive(p) \/ AgentKill(p)
  BY <1>1 DEF RespawnDue, FrameRespawn, Revive, AgentKill
<1>2. CASE FrameKill(p) \/ FrameDisconnect(p) \/ WarmupSees(p)
  BY <1>2 DEF FrameKill, FrameDisconnect, Disconnect, WarmupSees
<1> QED BY <1>1, <1>2 DEF PlayerStep

LEMMA TaskStepOneWay == ASSUME TypeOK, TaskStep PROVE OneWay
<1> USE DEF OneWay, verdictVars, Quiet, Fail
<1>1. CASE IntroOver \/ LoopStarts \/ WarmOver \/ FrameStarts \/ Reopen
  BY <1>1 DEF IntroOver, LoopStarts, WarmOver, FrameStarts, Reopen
<1>2. CASE ReadFails
  <2>1. UNCHANGED Quiet /\ (running' => running)
    BY <1>2 DEF ReadFails
  <2> QED BY <2>1
<1>3. CASE ResendFails \/ ResendOver \/ HoldOver \/ Teardown \/ EndGame
  BY <1>3 DEF ResendFails, ResendOver, HoldOver, Teardown, EndGame
<1>4. CASE WinCheck
  BY <1>4, WinnerStays DEF WinCheck
<1>5. ASSUME NEW p \in Player, WarmDisconnect(p) \/ ResendOne(p) PROVE OneWay
  BY <1>5 DEF WarmDisconnect, Disconnect, ResendOne
<1> QED BY <1>1, <1>2, <1>3, <1>4, <1>5 DEF TaskStep

LEMMA OneWayStep == ASSUME TypeOK, [Next]_vars PROVE OneWay
<1>1. CASE CountdownStops \/ ForceEnd \/ TimeRunsOut \/ StreamBreaks \/ UNCHANGED vars
  BY <1>1 DEF OneWay, CountdownStops, ForceEnd, TimeRunsOut, StreamBreaks, vars, verdictVars,
     Quiet
<1> QED BY <1>1, CallStepOneWay, PlayerStepOneWay, TaskStepOneWay DEF Next

\* A player nothing happens to.
LEMMA PlayerStays ==
  ASSUME NEW q \in Player, PlayerInv(q), OneWay,
         ranks'[q] = ranks[q], side'[q] = side[q],
         q \in alive' <=> q \in alive, q \in gone' <=> q \in gone, q \in due => q \in due',
         InCall(q) => InCall(q)', q \in cut => q \in cut'
  PROVE  PlayerInv(q)'
BY DEF PlayerInv, OneWay, MidSwap, Sided

\* A player who is alive, out of no swap and in no ranking, is fine.
LEMMA AliveFine ==
  ASSUME NEW q \in Player, PlayerInv(q), OneWay, ranks'[q] = ranks[q],
         q \in gone' <=> q \in gone, q \in alive', q \in alive \/ ranks[q] # 1
  PROVE  PlayerInv(q)'
BY DEF PlayerInv, OneWay, MidSwap, Sided

LEMMA ReturnKeeps ==
  ASSUME TypeOK, NEW c \in Caller, Return(c) \/ Raise(c), NEW q \in Player, q # call[c].who
  PROVE  InCall(q) => InCall(q)'
BY CallKeeps DEF Return, Raise

\* A player who is out is fine wherever the call goes.
LEMMA GoneFine ==
  ASSUME TypeOK, NEW q \in Player, PlayerInv(q), OneWay, mode = "swap",
         q \in gone, q \in gone', q \notin alive', ranks'[q] <= 1
  PROVE  PlayerInv(q)'
BY DEF PlayerInv, OneWay, MidSwap, Sided

LEMMA EliminatePlayer ==
  ASSUME TypeOK, NEW q \in Player, PlayerInv(q), OneWay, mode = "swap",
         NEW c \in Caller, call[c].who \in gone, call[c].who \in Player, Eliminate(c),
         UNCHANGED <<side, gone, due, cut>>
  PROVE  PlayerInv(q)'
<1> DEFINE p == call[c].who
<1>1. ranks'[q] = (IF q = p /\ running THEN 1 ELSE ranks[q])
  BY DEF Eliminate, Rank, TypeOK
<1>2. alive' = alive \ {p}
  BY DEF Eliminate
<1>3. CASE q = p
  <2>1. ranks'[q] <= 1
    BY <1>1 DEF PlayerInv, TypeOK
  <2> QED BY <1>2, <1>3, <2>1, GoneFine
<1>4. CASE q # p
  <2>1. InCall(q) => InCall(q)'
    BY CallKeeps DEF Eliminate
  <2> QED BY <1>1, <1>2, <1>4, <2>1, PlayerStays
<1> QED BY <1>3, <1>4

\* A stage of a kill keeps every player's part of the invariants.
LEMMA CallStepPlayer ==
  ASSUME TypeOK, CallInv, NEW c \in Caller, CallStep(c), NEW q \in Player, PlayerInv(q)
  PROVE  PlayerInv(q)'
<1> DEFINE p == call[c].who
<1>0. OneWay /\ InPlace(call[c], mode, alive, gone)
  BY CallStepOneWay DEF CallInv
<1>k. call[c].at \notin {"idle", "respawn"} => p \in Player
  BY InKill
<1>g. \A at : call' = Goto(c, at) => (InCall(q) => InCall(q)')
  BY CallKeeps
<1>r. ASSUME Return(c) \/ Raise(c), UNCHANGED <<side, alive, gone, ranks, due>>,
             cut \subseteq cut', p = q => q \in alive \/ q \in gone \/ q \in cut'
      PROVE  PlayerInv(q)'
  <2>1. q # p => (InCall(q) => InCall(q)')
    BY <1>r, ReturnKeeps
  <2>2. CASE q # p \/ q \in cut'
    BY <1>0, <1>r, <2>1, <2>2, PlayerStays DEF PlayerInv, MidSwap, OneWay, Sided
  <2>3. CASE q \in alive
    BY <1>0, <1>r, <2>3, AliveFine
  <2>4. CASE q \in gone
    BY <1>0, <1>r, <2>4 DEF PlayerInv, MidSwap, OneWay, Sided
  <2> QED BY <1>r, <2>2, <2>3, <2>4
<1> USE DEF At, rosterVars, streamVars
<1>1. CASE KillRefused(c)
  <2>1. p \in alive
    BY <1>0, <1>1 DEF KillRefused, InPlace
  <2> QED BY <1>1, <1>r, <2>1 DEF KillRefused
<1>2. CASE KillLands(c)
  <2>1. p \in Player /\ p \in alive
    BY <1>0, <1>2, <1>k DEF KillLands, InPlace
  <2>2. InCall(q) => InCall(q)'
    BY <1>2, <1>g DEF KillLands
  <2>3. CASE q # p
    <3>1. ranks'[q] = ranks[q]
      BY <1>2, <2>1, <2>3 DEF KillLands, Rank, TypeOK
    <3> QED BY <1>0, <1>2, <2>2, <2>3, <3>1, PlayerStays DEF KillLands
  <2>4. CASE q = p
    <3>1. /\ q \in alive /\ q \notin alive' /\ side' = side /\ gone' = gone /\ mode' = mode
          /\ mode = "swap" => q \in gone
          /\ mode = "zombie" => side[q] = Zombie
      BY <1>2, <2>1, <2>4 DEF KillLands
    <3>2. ranks'[q] = IF Sided \/ q \in gone THEN (IF mode = "swap" THEN 1 ELSE ranks[q] + 1)
                      ELSE ranks[q]
      BY <1>2, <2>1, <2>4 DEF KillLands, Rank, TypeOK
    <3>3. Sided \/ q \in gone \/ q \in due'
      BY <1>2, <2>4 DEF KillLands
    <3>4. ranks[q] = 0
      BY <3>1 DEF PlayerInv, TypeOK
    <3> QED BY <3>1, <3>2, <3>3, <3>4 DEF PlayerInv, MidSwap, Sided
  <2> QED BY <2>3, <2>4
<1>3. CASE HumanTurns(c)
  <2>1. InCall(q) => InCall(q)'
    BY <1>3, <1>g DEF HumanTurns
  <2>2. CASE q # p
    BY <1>0, <1>3, <2>1, <2>2, PlayerStays DEF HumanTurns, TypeOK
  <2>3. CASE q = p
    <3>1. q \in alive
      BY <1>0, <1>3, <2>3 DEF HumanTurns, InPlace
    <3> QED BY <1>0, <1>3, <3>1, AliveFine DEF HumanTurns
  <2> QED BY <2>2, <2>3
<1>4. CASE SwapStarts(c)
  <2>1. InCall(q) => InCall(q)'
    BY <1>4, <1>g DEF SwapStarts
  <2>2. CASE q # p
    BY <1>0, <1>4, <2>1, <2>2, PlayerStays DEF SwapStarts, TypeOK
  <2>3. CASE q = p
    <3>1. InCall(q)
      BY <2>3 DEF InCall
    <3> QED BY <1>0, <1>4, <2>1, <2>3, <3>1 DEF SwapStarts, PlayerInv, OneWay, MidSwap, Sided
  <2> QED BY <2>2, <2>3
<1>5. CASE EffectSent(c) \/ EffectFailed(c)
  <2>1. mode = "swap" => p \in gone
    BY <1>0, <1>5 DEF EffectSent, EffectFailed, InPlace
  <2>2. CASE mode = "swap"
    BY <1>5, <1>r, <2>1, <2>2 DEF EffectSent, EffectFailed
  <2>3. CASE mode # "swap"
    BY <1>0, <1>5, <2>3 DEF EffectSent, EffectFailed, PlayerInv, OneWay, MidSwap, Sided
  <2> QED BY <2>2, <2>3
<1>6. CASE FlashSent(c)
  <2>1. InCall(q) => InCall(q)'
    BY <1>6, <1>g DEF FlashSent
  <2> QED BY <1>0, <1>6, <2>1, PlayerStays DEF FlashSent
<1>7. CASE FlashFailed(c)
  <2>1. CASE mode = "swap"
    <3>1. cut' = cut \cup {p}
      BY <1>7, <2>1 DEF FlashFailed
    <3> QED BY <1>7, <1>r, <3>1 DEF FlashFailed
  <2>2. CASE mode # "swap"
    BY <1>0, <1>7, <2>2 DEF FlashFailed, PlayerInv, OneWay, MidSwap, Sided
  <2> QED BY <2>1, <2>2
<1>8. CASE SwapWakes(c)
  <2>0. mode = "swap" /\ p \in Player /\ UNCHANGED <<side, gone, due, cut>>
    BY <1>0, <1>8, <1>k DEF SwapWakes, InPlace
  <2>1. CASE p \in gone
    BY <1>0, <1>8, <2>0, <2>1, EliminatePlayer DEF SwapWakes
  <2>2. CASE p \notin gone /\ running /\ winner = Undecided
    <3>1. InCall(q) => InCall(q)'
      BY <1>8, <1>g, <2>2 DEF SwapWakes
    <3> QED BY <1>0, <1>8, <2>2, <3>1, PlayerStays DEF SwapWakes
  <2>3. CASE p \notin gone /\ ~(running /\ winner = Undecided)
    <3>1. Return(c) /\ alive' = alive \cup {p} /\ ranks' = ranks
      BY <1>8, <2>3 DEF SwapWakes
    <3>2. CASE q = p
      <4>1. ranks[q] # 1
        BY <2>0, <2>3, <3>2 DEF PlayerInv, Sided
      <4> QED BY <1>0, <2>0, <3>1, <3>2, <4>1, AliveFine
    <3>3. CASE q # p
      <4>1. InCall(q) => InCall(q)'
        BY <3>1, <3>3, ReturnKeeps
      <4> QED BY <1>0, <2>0, <3>1, <3>3, <4>1, PlayerStays
    <3> QED BY <3>2, <3>3
  <2> QED BY <2>1, <2>2, <2>3
<1>9. CASE ColourSent(c)
  <2>0. mode = "swap" /\ p \in Player /\ UNCHANGED <<side, gone, due, cut>>
    BY <1>0, <1>9, <1>k DEF ColourSent, InPlace
  <2>1. CASE p \in gone
    BY <1>0, <1>9, <2>0, <2>1, EliminatePlayer DEF ColourSent
  <2>2. CASE p \notin gone
    <3>1. alive' = alive \cup {p} /\ ranks' = ranks /\ (Return(c) \/ call' = Goto(c, "beep"))
      BY <1>9, <2>2 DEF ColourSent
    <3>2. CASE q = p
      <4>1. ranks[q] # 1
        BY <2>0, <2>2, <3>2 DEF PlayerInv, Sided
      <4> QED BY <1>0, <2>0, <3>1, <3>2, <4>1, AliveFine
    <3>3. CASE q # p
      <4>1. InCall(q) => InCall(q)'
        BY <1>g, <3>1, <3>3, ReturnKeeps
      <4> QED BY <1>0, <2>0, <3>1, <3>3, <4>1, PlayerStays
    <3> QED BY <3>2, <3>3
  <2> QED BY <2>1, <2>2
<1>10. CASE Beeped(c)
  <2>0. mode \in {"swap", "zombie"} /\ p \in Player /\ p \in alive
        /\ UNCHANGED <<side, gone, due, cut>>
    BY <1>0, <1>10, <1>k DEF Beeped, InPlace
  <2>1. CASE p \in gone
    <3>1. mode = "swap" \/ q # p
      BY <2>0, <2>1 DEF PlayerInv
    <3>2. CASE mode = "swap"
      BY <1>0, <1>10, <2>0, <2>1, <3>2, EliminatePlayer DEF Beeped
    <3>3. CASE q # p
      <4>1. /\ InCall(q) => InCall(q)'
            /\ ranks'[q] = ranks[q] /\ (q \in alive' <=> q \in alive)
        BY <1>10, <1>g, <2>0, <2>1, <3>3 DEF Beeped, Eliminate, Rank, TypeOK
      <4> QED BY <1>0, <2>0, <4>1, PlayerStays
    <3> QED BY <3>1, <3>2, <3>3
  <2>2. CASE p \notin gone
    BY <1>10, <1>r, <2>0, <2>2 DEF Beeped
  <2> QED BY <2>1, <2>2
<1>11. CASE RespawnShown(c)
  <2>1. mode = "nonstop"
    BY <1>0, <1>11 DEF RespawnShown, InPlace
  <2> QED BY <1>0, <1>11, <2>1 DEF RespawnShown, PlayerInv, OneWay, MidSwap, Sided
<1> QED
  BY <1>1, <1>2, <1>3, <1>4, <1>5, <1>6, <1>7, <1>8, <1>9, <1>10, <1>11 DEF CallStep

\* A call that begins takes nobody else out of a kill.
LEMMA BeginKeeps ==
  ASSUME TypeOK, NEW c \in Caller, call[c].who = None, NEW p \in Player, Begin(c, p),
         NEW q \in Player, InCall(q)
  PROVE  InCall(q)'
<1>1. q # call[c].who
  BY RulesAssumption
<1> QED BY <1>1, CallKeeps DEF Begin

\* A player's part of a disconnect is the player's alone.
LEMMA LeavesOthers ==
  ASSUME TypeOK, NEW p \in Player, Leaves(p), NEW q \in Player \ {p}
  PROVE  /\ q \in gone' <=> q \in gone
         /\ q \in due' <=> q \in due
         /\ ranks'[q] = ranks[q]
<1>1. Rank(p)[q] = ranks[q]
  BY DEF Rank, TypeOK
<1>2. CASE mode = "swap" /\ winner = Undecided /\ p \notin gone
  BY <1>1, <1>2 DEF Leaves
<1>3. CASE mode = "nonstop" /\ p \notin gone
  BY <1>1, <1>3 DEF Leaves
<1>4. CASE ~(mode = "swap" /\ winner = Undecided /\ p \notin gone)
           /\ ~(mode = "nonstop" /\ p \notin gone)
  BY <1>4 DEF Leaves
<1> QED BY <1>2, <1>3, <1>4

LEMMA LeaverFine ==
  ASSUME TypeOK, NEW p \in Player, PlayerInv(p), Leaves(p), OneWay,
         UNCHANGED <<side, alive, cut>>, InCall(p) => InCall(p)'
  PROVE  PlayerInv(p)'
<1>1. Rank(p)[p] = IF mode = "swap" THEN 1 ELSE ranks[p] + 1
  BY DEF Rank, TypeOK
<1>2. CASE mode = "swap" /\ winner = Undecided /\ p \notin gone
  <2>1. p \in gone' /\ ranks'[p] = IF MidSwap(p) /\ running THEN 1 ELSE ranks[p]
    BY <1>1, <1>2 DEF Leaves
  <2> QED BY <1>2, <2>1 DEF PlayerInv, OneWay, MidSwap, Sided
<1>3. CASE mode = "nonstop" /\ p \notin gone
  <2>1. p \in gone' /\ ranks'[p] \in {ranks[p], IF p \notin alive THEN ranks[p] + 1 ELSE ranks[p]}
    BY <1>1, <1>3 DEF Leaves
  <2>2. ranks[p] = 0
    BY <1>3 DEF PlayerInv, TypeOK, Sided
  <2> QED BY <1>3, <2>1, <2>2 DEF PlayerInv, OneWay, MidSwap, Sided
<1>4. CASE ~(mode = "swap" /\ winner = Undecided /\ p \notin gone)
           /\ ~(mode = "nonstop" /\ p \notin gone)
  <2>1. UNCHANGED <<gone, ranks, due>>
    BY <1>4 DEF Leaves
  <2> QED BY <2>1, PlayerStays
<1> QED BY <1>2, <1>3, <1>4

LEMMA FrameFree ==
  ASSUME TypeOK, CallInv, task # "kill"
  PROVE  call["frame"].who = None /\ "frame" \in Caller
BY DEF TypeOK, CallInv, InPlace, Caller

LEMMA DisconnectPlayer ==
  ASSUME TypeOK, CallInv, OneWay, NEW p \in Player, Disconnect(p), task \in {"warm", "frame"},
         NEW q \in Player, PlayerInv(q)
  PROVE  PlayerInv(q)'
<1>1. InCall(q) => InCall(q)'
  <2>1. CASE Begin("frame", p)
    BY <2>1, FrameFree, BeginKeeps
  <2>2. CASE UNCHANGED call
    BY <2>2 DEF InCall
  <2> QED BY <2>1, <2>2 DEF Disconnect
<1>2. Leaves(p) /\ UNCHANGED <<side, alive, cut>>
  BY DEF Disconnect, streamVars
<1>3. CASE q = p
  BY <1>1, <1>2, <1>3, LeaverFine
<1>4. CASE q # p
  BY <1>1, <1>2, <1>4, LeavesOthers, PlayerStays
<1> QED BY <1>3, <1>4

LEMMA PlayerStepPlayer ==
  ASSUME TypeOK, CallInv, NEW p \in Player, PlayerStep(p), NEW q \in Player, PlayerInv(q)
  PROVE  PlayerInv(q)'
<1>0. OneWay /\ "agent" \in Caller
  BY PlayerStepOneWay DEF Caller
<1> USE DEF rosterVars, streamVars, Returns
<1>1. CASE RespawnDue(p)
  <2>1. mode = "zombie" /\ UNCHANGED <<side, gone, ranks, call, cut>>
        /\ \A x \in Player \ {p} : (x \in alive' <=> x \in alive) /\ (x \in due' <=> x \in due)
    BY <1>1 DEF RespawnDue
  <2>2. InCall(q) => InCall(q)'
    BY <2>1 DEF InCall
  <2>3. CASE q # p
    BY <1>0, <2>1, <2>2, <2>3, PlayerStays
  <2>4. CASE q = p /\ MayReturn(p)
    <3>1. q \in alive' /\ ranks[q] # 1
      BY <1>1, <2>1, <2>4 DEF RespawnDue, PlayerInv, Sided
    <3> QED BY <1>0, <2>1, <3>1, AliveFine
  <2>5. CASE q = p /\ ~MayReturn(p)
    <3>1. q \in alive \/ ~(running /\ winner = Undecided)
      BY <2>1, <2>5 DEF MayReturn, PlayerInv
    <3>2. UNCHANGED alive
      BY <1>1, <2>5 DEF RespawnDue
    <3> QED BY <1>0, <2>1, <3>1, <3>2 DEF PlayerInv, OneWay, MidSwap, Sided
  <2> QED BY <2>3, <2>4, <2>5
<1>2. CASE FrameRespawn(p) \/ Revive(p)
  <2>1. /\ MayReturn(p) /\ UNCHANGED <<side, gone, ranks, cut>>
        /\ alive' = alive \cup {p} /\ due' = due \ {p}
    BY <1>2 DEF FrameRespawn, Revive
  <2>2. mode \in {"zombie", "nonstop"} /\ (mode = "nonstop" => p \notin gone)
    BY <2>1 DEF MayReturn
  <2>3. CASE q = p
    <3>1. ranks[q] # 1
      BY <2>2, <2>3 DEF PlayerInv, Sided
    <3> QED BY <1>0, <2>1, <2>3, <3>1, AliveFine
  <2>4. CASE q # p
    BY <1>0, <2>1, <2>2, <2>4 DEF PlayerInv, OneWay, MidSwap, Sided
  <2> QED BY <2>3, <2>4
<1>3. CASE AgentKill(p)
  <2>1. InCall(q) => InCall(q)'
    BY <1>0, <1>3, BeginKeeps DEF AgentKill, Idle
  <2> QED BY <1>0, <1>3, <2>1, PlayerStays DEF AgentKill
<1>4. CASE FrameKill(p)
  <2>1. InCall(q) => InCall(q)'
    BY <1>4, BeginKeeps, FrameFree DEF FrameKill
  <2> QED BY <1>0, <1>4, <2>1, PlayerStays DEF FrameKill
<1>5. CASE FrameDisconnect(p)
  BY <1>0, <1>5, DisconnectPlayer DEF FrameDisconnect
<1>6. CASE WarmupSees(p)
  <2>1. UNCHANGED <<rosterVars, cut, call>>
    BY <1>6 DEF WarmupSees
  <2> QED BY <1>0, <2>1, PlayerStays DEF InCall
<1> QED BY <1>1, <1>2, <1>3, <1>4, <1>5, <1>6 DEF PlayerStep

LEMMA TaskStepPlayer ==
  ASSUME TypeOK, CallInv, TaskStep, NEW q \in Player, PlayerInv(q)
  PROVE  PlayerInv(q)'
<1>0. OneWay
  BY TaskStepOneWay
<1>1. ASSUME NEW p \in Player, WarmDisconnect(p) PROVE PlayerInv(q)'
  BY <1>0, <1>1, DisconnectPlayer DEF WarmDisconnect
<1>2. UNCHANGED <<rosterVars, cut, call>> => PlayerInv(q)'
  BY <1>0, PlayerStays DEF InCall, rosterVars
<1> USE <1>2 DEF Quiet, streamVars
<1>3. CASE IntroOver \/ LoopStarts \/ WarmOver \/ FrameStarts \/ Reopen
  BY <1>3 DEF IntroOver, LoopStarts, WarmOver, FrameStarts, Reopen
<1>4. CASE ReadFails
  BY <1>4 DEF ReadFails
<1>5. CASE ResendFails \/ ResendOver \/ WinCheck
  BY <1>5 DEF ResendFails, ResendOver, WinCheck
<1>6. CASE HoldOver \/ Teardown \/ EndGame
  BY <1>6 DEF HoldOver, Teardown, EndGame
<1>7. ASSUME NEW p \in Player, ResendOne(p) PROVE PlayerInv(q)'
  BY <1>7 DEF ResendOne
<1> QED BY <1>1, <1>3, <1>4, <1>5, <1>6, <1>7 DEF TaskStep

\* Every step keeps the invariants of the roster.
LEMMA RosterStep ==
  ASSUME TypeOK, CallInv, RosterInv, OutcomeInv, [Next]_vars
  PROVE  RosterInv'
<1>1. TypeOK' /\ OneWay
  BY TypeStep, OneWayStep
<1>2. SUFFICES ASSUME NEW q \in Player PROVE PlayerInv(q)'
  <2> SUFFICES ASSUME \A q \in Player : PlayerInv(q)' PROVE RosterInv'
    OBVIOUS
  <2>1. GoneInv' /\ CountedOnce' /\ MidSwapOwned'
    BY <1>1 DEF PlayerInv, GoneInv, CountedOnce, MidSwapOwned, TypeOK
  <2>2. FallenInv' /\ DownZombieDue'
    BY DEF PlayerInv, FallenInv, DownZombieDue
  <2> QED BY <2>1, <2>2 DEF RosterInv
<1>3. PlayerInv(q)
  BY RosterPlayers
<1>4. UNCHANGED <<rosterVars, cut, call>> => PlayerInv(q)'
  BY <1>1, <1>3, PlayerStays DEF InCall, rosterVars
<1>5. CASE CountdownStops \/ ForceEnd \/ TimeRunsOut \/ StreamBreaks \/ UNCHANGED vars
  BY <1>4, <1>5 DEF CountdownStops, ForceEnd, TimeRunsOut, StreamBreaks, Quiet, streamVars, vars
<1> QED BY <1>3, <1>5, CallStepPlayer, PlayerStepPlayer, TaskStepPlayer DEF Next

-----------------------------------------------------------------------------
(* What the controllers were told *)

\* DeathTold and ResendInv, player by player.
ToldInv(p) ==
  /\ ~InCall(p) /\ p \notin alive /\ ~MidSwap(p) => p \in told \cup undelivered \cup cut
  /\ task = "resend" /\ stream /\ p \in undelivered \ resend =>
       p \in told \cup alive \cup cut \/ InCall(p)

LEMMA ToldPlayers ==
  ASSUME TypeOK
  PROVE  DeathTold /\ ResendInv <=> \A p \in Player : ToldInv(p)
BY DEF TypeOK, ToldInv, DeathTold, ResendInv

\* Nothing is due for a player who is alive, or whose kill is under way.
LEMMA ToldLater ==
  ASSUME NEW q \in Player, q \in alive' \/ InCall(q)'
  PROVE  ToldInv(q)'
BY DEF ToldInv

LEMMA ToldStays ==
  ASSUME NEW q \in Player, ToldInv(q), mode' = mode,
         q \in alive' <=> q \in alive, q \in gone' <=> q \in gone,
         InCall(q) => InCall(q)',
         q \in told => q \in told', q \in cut => q \in cut', q \in undelivered => q \in undelivered',
         task' = "resend" /\ stream' =>
           /\ task = "resend" /\ stream
           /\ q \in resend => q \in resend'
           /\ q \in undelivered' => q \in undelivered
  PROVE  ToldInv(q)'
BY DEF ToldInv, MidSwap

LEMMA GotoIn ==
  ASSUME TypeOK, NEW c \in Caller, NEW at, call' = Goto(c, at)
  PROVE  \E d \in Caller : call'[d].who = call[c].who
BY DEF TypeOK, Goto

LEMMA ReturnGoes ==
  ASSUME TypeOK, NEW c \in Caller, Return(c) \/ Raise(c)
  PROVE  task' = "resend" => task = "resend"
BY DEF Return, Raise, Fail, Back

LEMMA EliminateTold ==
  ASSUME TypeOK, NEW c \in Caller, Eliminate(c), NEW q \in Player, ToldInv(q),
         UNCHANGED <<mode, gone, undelivered, cut, task, stream, resend>>
  PROVE  ToldInv(q)'
<1>1. CASE q = call[c].who
  BY <1>1, GotoIn, ToldLater DEF Eliminate, InCall
<1>2. CASE q # call[c].who
  <2>1. InCall(q) => InCall(q)'
    BY CallKeeps DEF Eliminate
  <2> QED BY <1>2, <2>1, ToldStays DEF Eliminate
<1> QED BY <1>1, <1>2

\* A stage of a kill leaves the deaths told, or to be told.
LEMMA CallStepTold ==
  ASSUME TypeOK, CallInv, NEW c \in Caller, CallStep(c), NEW q \in Player, ToldInv(q)
  PROVE  ToldInv(q)'
<1> DEFINE p == call[c].who
<1>0. mode' = mode /\ InPlace(call[c], mode, alive, gone)
  BY CallStepOneWay DEF CallInv, OneWay
<1>g. \A at : call' = Goto(c, at) =>
        (InCall(q) => InCall(q)') /\ (q = p => q \in alive' \/ InCall(q)')
  BY CallKeeps, GotoIn DEF InCall
<1>r. ASSUME Return(c) \/ Raise(c), gone' = gone, stream' = stream,
             UNCHANGED <<told, cut, undelivered, resend>>,
             \A x \in Player \ {p} : x \in alive' <=> x \in alive,
             p = q => q \in alive'
      PROVE  ToldInv(q)'
  <2>1. CASE q = p
    BY <1>r, <2>1, ToldLater
  <2>2. CASE q # p
    <3>1. InCall(q) => InCall(q)'
      BY <1>r, <2>2, ReturnKeeps
    <3>2. task' = "resend" => task = "resend"
      BY <1>r, ReturnGoes
    <3> QED BY <1>0, <1>r, <2>2, <3>1, <3>2, ToldStays
  <2> QED BY <2>1, <2>2
<1> USE DEF At, rosterVars, streamVars
<1>1. CASE KillRefused(c)
  <2>1. p = q => q \in alive'
    BY <1>0, <1>1 DEF KillRefused, InPlace
  <2> QED BY <1>1, <1>r, <2>1 DEF KillRefused
<1>2. CASE KillLands(c)
  <2>1. /\ alive' = alive \ {p} /\ told' = told \ {p}
        /\ UNCHANGED <<gone, cut, undelivered, task, stream, resend>>
        /\ (InCall(q) => InCall(q)') /\ (q = p => q \in alive' \/ InCall(q)')
    BY <1>2, <1>g DEF KillLands
  <2>2. CASE q = p
    BY <2>1, <2>2, ToldLater
  <2>3. CASE q # p
    BY <1>0, <2>1, <2>3, ToldStays
  <2> QED BY <2>2, <2>3
<1>3. CASE HumanTurns(c) \/ FlashSent(c)
  <2>1. UNCHANGED <<alive, gone, task, streamVars>> /\ (InCall(q) => InCall(q)')
    BY <1>3, <1>g DEF HumanTurns, FlashSent
  <2> QED BY <1>0, <2>1, ToldStays
<1>4. CASE SwapStarts(c)
  <2>1. alive' = alive \ {p} /\ UNCHANGED <<gone, task, streamVars>>
        /\ (InCall(q) => InCall(q)') /\ (q = p => q \in alive' \/ InCall(q)')
    BY <1>4, <1>g DEF SwapStarts
  <2>2. CASE q = p
    BY <2>1, <2>2, ToldLater
  <2>3. CASE q # p
    BY <1>0, <2>1, <2>3, ToldStays
  <2> QED BY <2>2, <2>3
<1>5. CASE EffectSent(c)
  <2>1. /\ Return(c) /\ told' = told \cup ({p} \ alive)
        /\ UNCHANGED <<alive, gone, cut, undelivered, stream, resend>>
    BY <1>5 DEF EffectSent
  <2>2. CASE q = p
    <3>1. CASE q \in alive
      BY <2>1, <3>1, ToldLater
    <3>2. CASE q \notin alive
      BY <2>1, <2>2, <3>2 DEF ToldInv
    <3> QED BY <3>1, <3>2
  <2>3. CASE q # p
    <3>1. (InCall(q) => InCall(q)') /\ (task' = "resend" => task = "resend")
      BY <2>1, <2>3, ReturnKeeps, ReturnGoes
    <3> QED BY <1>0, <2>1, <3>1, ToldStays
  <2> QED BY <2>2, <2>3
<1>6. CASE EffectFailed(c)
  <2>1. /\ Raise(c) /\ undelivered' = undelivered \cup {p} /\ ~stream
        /\ UNCHANGED <<alive, gone, cut, told, stream, resend>>
    BY <1>6 DEF EffectFailed
  <2>2. CASE q = p
    BY <2>1, <2>2 DEF ToldInv
  <2>3. CASE q # p
    <3>1. InCall(q) => InCall(q)'
      BY <2>1, <2>3, ReturnKeeps
    <3> QED BY <1>0, <2>1, <3>1, ToldStays
  <2> QED BY <2>2, <2>3
<1>7. CASE FlashFailed(c)
  <2>1. /\ Raise(c) /\ ~stream /\ UNCHANGED <<alive, gone, told, undelivered, stream, resend>>
        /\ cut' = IF mode = "swap" THEN cut \cup {p} ELSE cut
        /\ call[c].at \in {"flash", "colour", "respawn"}
    BY <1>7 DEF FlashFailed
  <2>2. CASE q = p
    <3>1. CASE mode = "swap"
      BY <2>1, <2>2, <3>1 DEF ToldInv
    <3>2. CASE mode # "swap"
      <4>1. q \in alive'
        BY <1>0, <2>1, <2>2, <3>2, RulesAssumption DEF InPlace
      <4> QED BY <4>1, ToldLater
    <3> QED BY <3>1, <3>2
  <2>3. CASE q # p
    <3>1. InCall(q) => InCall(q)'
      BY <2>1, <2>3, ReturnKeeps
    <3> QED BY <1>0, <2>1, <3>1, ToldStays
  <2> QED BY <2>2, <2>3
<1>8. CASE SwapWakes(c)
  <2>1. CASE p \in gone
    BY <1>0, <1>8, <2>1, EliminateTold DEF SwapWakes, Eliminate
  <2>2. CASE p \notin gone /\ running /\ winner = Undecided
    <3>1. UNCHANGED <<alive, gone, task, streamVars>> /\ (InCall(q) => InCall(q)')
      BY <1>8, <1>g, <2>2 DEF SwapWakes
    <3> QED BY <1>0, <3>1, ToldStays
  <2>3. CASE p \notin gone /\ ~(running /\ winner = Undecided)
    BY <1>8, <1>r, <2>3 DEF SwapWakes
  <2> QED BY <2>1, <2>2, <2>3
<1>9. CASE ColourSent(c)
  <2>1. CASE p \in gone
    BY <1>0, <1>9, <2>1, EliminateTold DEF ColourSent, Eliminate
  <2>2. CASE p \notin gone /\ running /\ winner = Undecided
    <3>1. alive' = alive \cup {p} /\ UNCHANGED <<gone, task, streamVars>>
          /\ (InCall(q) => InCall(q)')
      BY <1>9, <1>g, <2>2 DEF ColourSent
    <3>2. CASE q = p
      BY <3>1, <3>2, ToldLater
    <3>3. CASE q # p
      BY <1>0, <3>1, <3>3, ToldStays
    <3> QED BY <3>2, <3>3
  <2>3. CASE p \notin gone /\ ~(running /\ winner = Undecided)
    BY <1>9, <1>r, <2>3 DEF ColourSent
  <2> QED BY <2>1, <2>2, <2>3
<1>10. CASE Beeped(c)
  <2>1. CASE p \in gone
    BY <1>0, <1>10, <2>1, EliminateTold DEF Beeped, Eliminate
  <2>2. CASE p \notin gone
    <3>1. p = q => q \in alive'
      BY <1>0, <1>10, <2>2 DEF Beeped, InPlace
    <3> QED BY <1>10, <1>r, <2>2, <3>1 DEF Beeped
  <2> QED BY <2>1, <2>2
<1>11. CASE RespawnShown(c)
  <2>1. p # q
    BY <1>0, <1>11, RulesAssumption DEF RespawnShown, InPlace
  <2> QED BY <1>11, <1>r, <2>1 DEF RespawnShown
<1> QED
  BY <1>1, <1>2, <1>3, <1>4, <1>5, <1>6, <1>7, <1>8, <1>9, <1>10, <1>11 DEF CallStep

\* A frame's disconnect leaves the player's death told, or to be told.
LEMMA DisconnectTold ==
  ASSUME TypeOK, CallInv, NEW p \in Player, Disconnect(p), task \in {"warm", "frame"},
         NEW q \in Player, ToldInv(q), PlayerInv(q)
  PROVE  ToldInv(q)'
<1>1. InCall(q) => InCall(q)'
  <2>1. CASE Begin("frame", p)
    BY <2>1, FrameFree, BeginKeeps
  <2>2. CASE UNCHANGED call
    BY <2>2 DEF InCall
  <2> QED BY <2>1, <2>2 DEF Disconnect
<1>2. Leaves(p) /\ UNCHANGED <<mode, alive, streamVars>>
  BY DEF Disconnect
<1>3. task' # "resend"
  BY DEF Disconnect, Begin, Back
<1>4. CASE q = p
  BY <1>1, <1>2, <1>3 DEF ToldInv, PlayerInv, MidSwap, streamVars
<1>5. CASE q # p
  <2>1. q \in gone' <=> q \in gone
    BY <1>2, <1>5, LeavesOthers
  <2> QED BY <1>1, <1>2, <1>3, <2>1, ToldStays DEF streamVars
<1> QED BY <1>4, <1>5

LEMMA PlayerStepTold ==
  ASSUME TypeOK, CallInv, NEW p \in Player, PlayerStep(p),
         NEW q \in Player, ToldInv(q), PlayerInv(q)
  PROVE  ToldInv(q)'
<1>0. mode' = mode /\ "agent" \in Caller
  BY PlayerStepOneWay DEF OneWay, Caller
<1> USE DEF rosterVars, streamVars
<1>r. ASSUME alive' = alive \cup {p}, told' = told \ {p}, InCall(q) => InCall(q)',
             UNCHANGED <<gone, cut, undelivered, stream, resend>>, task' \in {task, "kill"}
      PROVE  ToldInv(q)'
  <2>1. CASE q = p
    BY <1>r, <2>1, ToldLater
  <2>2. CASE q # p
    BY <1>0, <1>r, <2>2, ToldStays
  <2> QED BY <2>1, <2>2
<1>s. ASSUME UNCHANGED <<alive, gone, streamVars>>, InCall(q) => InCall(q)',
             task' \in {task, "kill"}
      PROVE  ToldInv(q)'
  BY <1>0, <1>s, ToldStays
<1>1. CASE RespawnDue(p)
  <2>1. InCall(q) => InCall(q)'
    BY <1>1 DEF RespawnDue, InCall
  <2>2. CASE MayReturn(p)
    BY <1>1, <1>r, <2>1, <2>2 DEF RespawnDue, Returns
  <2>3. CASE ~MayReturn(p)
    BY <1>1, <1>s, <2>1, <2>3 DEF RespawnDue
  <2> QED BY <2>2, <2>3
<1>2. CASE FrameRespawn(p)
  <2>1. q # None
    BY RulesAssumption
  <2>2. InCall(q) => InCall(q)'
    BY <1>2, <2>1, FrameFree, CallKeeps DEF FrameRespawn
  <2> QED BY <1>2, <1>r, <2>2 DEF FrameRespawn, Returns
<1>3. CASE Revive(p)
  <2>1. q # call["agent"].who
    BY <1>3, RulesAssumption DEF Revive, Idle
  <2>2. InCall(q) => InCall(q)'
    <3>1. CASE call' = call
      BY <3>1 DEF InCall
    <3>2. CASE call' = [call EXCEPT !["agent"] = [at |-> "respawn", who |-> None]]
      BY <1>0, <2>1, <3>2, CallKeeps
    <3> QED BY <1>3, <3>1, <3>2 DEF Revive
  <2> QED BY <1>3, <1>r, <2>2 DEF Revive, Returns
<1>4. CASE AgentKill(p)
  <2>1. InCall(q) => InCall(q)'
    BY <1>0, <1>4, BeginKeeps DEF AgentKill, Idle
  <2> QED BY <1>4, <1>s, <2>1 DEF AgentKill, Begin
<1>5. CASE FrameKill(p)
  <2>1. InCall(q) => InCall(q)'
    BY <1>5, BeginKeeps, FrameFree DEF FrameKill
  <2> QED BY <1>5, <1>s, <2>1 DEF FrameKill, Begin
<1>6. CASE FrameDisconnect(p)
  BY <1>6, DisconnectTold DEF FrameDisconnect
<1>7. CASE WarmupSees(p)
  BY <1>7, <1>s DEF WarmupSees, InCall
<1> QED BY <1>1, <1>2, <1>3, <1>4, <1>5, <1>6, <1>7 DEF PlayerStep

\* What the game task does keeps the deaths told: a reopening asks for everybody again, and
\* forgets the undelivered once it has reached them all.
LEMMA TaskStepTold ==
  ASSUME TypeOK, CallInv, TaskStep, NEW q \in Player, ToldInv(q), PlayerInv(q)
  PROVE  ToldInv(q)'
<1>0. mode' = mode
  BY TaskStepOneWay DEF OneWay
<1> USE DEF rosterVars, streamVars, Quiet
<1>s. ASSUME UNCHANGED <<alive, gone, call, told, undelivered, cut, resend>>,
             task' = "resend" /\ stream' => task = "resend" /\ stream
      PROVE  ToldInv(q)'
  BY <1>0, <1>s, ToldStays DEF InCall
<1>1. CASE IntroOver \/ FrameStarts \/ HoldOver \/ Teardown \/ EndGame
  BY <1>1, <1>s DEF IntroOver, FrameStarts, HoldOver, Teardown, EndGame
<1>2. CASE LoopStarts \/ WarmOver
  BY <1>2, <1>s DEF LoopStarts, WarmOver, ToWarm, Fail
<1>3. CASE ReadFails
  <2>1. UNCHANGED <<alive, gone, call, told, undelivered, cut, resend, stream>> /\ ~stream
    BY <1>3 DEF ReadFails
  <2> QED BY <1>s, <2>1
<1>4. CASE Reopen
  <2>1. UNCHANGED <<alive, gone, call, told, undelivered, cut>>
    BY <1>4 DEF Reopen
  <2>2. task' = "resend" => resend' = Player
    BY <1>4 DEF Reopen
  <2> QED BY <1>0, <2>1, <2>2 DEF ToldInv, MidSwap, InCall
<1>5. CASE ResendFails
  <2>1. UNCHANGED <<alive, gone, call, told, undelivered, cut, resend, stream>> /\ ~stream
    BY <1>5 DEF ResendFails
  <2> QED BY <1>s, <2>1
<1>6. CASE ResendOver
  <2>1. UNCHANGED <<alive, gone, call, told, cut>> /\ undelivered' = {} /\ resend = {}
        /\ task = "resend" /\ stream
    BY <1>6 DEF ResendOver
  <2> QED BY <1>0, <2>1 DEF ToldInv, MidSwap, InCall
<1>7. CASE WinCheck
  <2>1. task' # "resend"
    BY <1>7, WinCheckGoes
  <2> QED BY <1>7, <1>s, <2>1 DEF WinCheck
<1>8. ASSUME NEW p \in Player, WarmDisconnect(p) PROVE ToldInv(q)'
  BY <1>8, DisconnectTold DEF WarmDisconnect
<1>9. ASSUME NEW p \in Player, ResendOne(p) PROVE ToldInv(q)'
  <2>1. /\ UNCHANGED <<alive, gone, call, undelivered, cut, task, stream>>
        /\ resend' = resend \ {p} /\ told \subseteq told'
        /\ p \notin alive /\ ~MidSwap(p) /\ p \in undelivered => p \in told'
    BY <1>9 DEF ResendOne
  <2>2. CASE q = p
    BY <1>0, <2>1, <2>2 DEF ToldInv, PlayerInv, MidSwap, InCall
  <2>3. CASE q # p
    BY <1>0, <2>1, <2>3, ToldStays DEF InCall
  <2> QED BY <2>2, <2>3
<1> QED
  BY <1>1, <1>2, <1>3, <1>4, <1>5, <1>6, <1>7, <1>8, <1>9 DEF TaskStep

\* Every step keeps the deaths told.
LEMMA ToldStep ==
  ASSUME TypeOK, CallInv, RosterInv, OutcomeInv, DeathTold, ResendInv, [Next]_vars
  PROVE  DeathTold' /\ ResendInv'
<1>1. TypeOK' /\ OneWay
  BY TypeStep, OneWayStep
<1>2. SUFFICES ASSUME NEW q \in Player PROVE ToldInv(q)'
  BY <1>1 DEF TypeOK, ToldInv, DeathTold, ResendInv
<1>3. ToldInv(q) /\ PlayerInv(q)
  BY ToldPlayers, RosterPlayers
<1>4. UNCHANGED <<alive, gone, call, told, undelivered, cut, resend>>
        /\ (task' = "resend" /\ stream' => task = "resend" /\ stream) => ToldInv(q)'
  BY <1>1, <1>3, ToldStays DEF InCall, OneWay
<1>5. CASE CountdownStops \/ ForceEnd \/ TimeRunsOut \/ StreamBreaks \/ UNCHANGED vars
  BY <1>4, <1>5 DEF CountdownStops, ForceEnd, TimeRunsOut, StreamBreaks, Quiet, streamVars,
     rosterVars, vars
<1> QED BY <1>3, <1>5, CallStepTold, PlayerStepTold, TaskStepTold DEF Next

-----------------------------------------------------------------------------
(* The verdict *)

\* Whoever the end honours stays who he is while nobody falls, returns or changes sides.
LEMMA HonouredStays ==
  ASSUME UNCHANGED <<mode, side, alive, deaths, winner>>, mode # "swap"
  PROVE  Honoured(winner)' = Honoured(winner)
BY DEF Honoured, Fewest

\* What most steps do to the verdict: nothing, and the task stays short of its end.
Kept ==
  /\ UNCHANGED <<mode, verdictVars>>
  /\ winner # Undecided /\ mode # "swap" => UNCHANGED <<side, alive, deaths>>

Short ==
  \/ task' = task
  \/ /\ task \notin {"over", "ending", "ended", "failed"}
     /\ task' \notin {"hold", "over", "ending", "ended", "failed"}

LEMMA OutcomeKept ==
  ASSUME TypeOK, OutcomeInv, Kept, Short, forced' = forced \/ forced',
         running' = running \/ forced'
  PROVE  OutcomeInv'
<1>1. winner # Undecided /\ mode # "swap" => Honoured(winner)' = Honoured(winner)
  BY HonouredStays DEF Kept, verdictVars
<1>2. UNCHANGED <<mode, outcome, winner, honoured, result>>
  BY DEF Kept, verdictVars
<1>3. forced => forced'
  OBVIOUS
<1>4. (~running => forced \/ task \in {"failed", "ended"})'
  BY <1>3 DEF OutcomeInv, Short
<1>5. (outcome = "forced" => forced /\ winner \in {Undecided, TimeLimit})'
  BY <1>2, <1>3 DEF OutcomeInv
<1>6. (winner # Undecided =>
         /\ outcome # "none"
         /\ winner = TimeLimit <=> mode = "nonstop"
         /\ mode = "nonstop" => task \in {"over", "ending", "ended"}
         /\ mode # "swap" => honoured = Honoured(winner))'
  BY <1>1, <1>2 DEF OutcomeInv, Short
<1>7. /\ (outcome # "none" /\ winner = Undecided => task \in {"ending", "failed", "ended"})'
      /\ (outcome = "completed" /\ winner = Undecided => task = "failed")'
      /\ (task = "hold" => winner # Undecided)'
      /\ (task \in {"over", "ending"} => forced \/ winner # Undecided)'
      /\ (task = "ending" => outcome # "none")'
      /\ (task # "ended" => result = None)'
  BY <1>2, <1>3 DEF OutcomeInv, Short
<1> QED BY <1>4, <1>5, <1>6, <1>7 DEF OutcomeInv

\* A game that stops before the end, at a force end, is over or closed.
LEMMA OutcomeStopped ==
  ASSUME TypeOK, OutcomeInv, Kept, UNCHANGED <<forced, running>>, ~running,
         task \notin {"over", "ending", "ended", "failed"}, task' \in {"over", "closed"}
  PROVE  OutcomeInv'
<1>1. winner # Undecided /\ mode # "swap" => Honoured(winner)' = Honoured(winner)
  BY HonouredStays DEF Kept, verdictVars
<1>2. UNCHANGED <<mode, outcome, winner, honoured, result>> /\ forced
  BY DEF Kept, verdictVars, OutcomeInv
<1>3. (winner # Undecided =>
         /\ outcome # "none"
         /\ winner = TimeLimit <=> mode = "nonstop"
         /\ mode = "nonstop" => task \in {"over", "ending", "ended"}
         /\ mode # "swap" => honoured = Honoured(winner))'
  BY <1>1, <1>2 DEF OutcomeInv
<1>4. (outcome = "forced" => forced /\ winner \in {Undecided, TimeLimit})'
  BY <1>2 DEF OutcomeInv
<1>5. /\ (~running => forced \/ task \in {"failed", "ended"})'
      /\ (outcome # "none" /\ winner = Undecided => task \in {"ending", "failed", "ended"})'
      /\ (outcome = "completed" /\ winner = Undecided => task = "failed")'
      /\ (task = "hold" => winner # Undecided)'
      /\ (task \in {"over", "ending"} => forced \/ winner # Undecided)'
      /\ (task = "ending" => outcome # "none")'
      /\ (task # "ended" => result = None)'
  BY <1>2 DEF OutcomeInv
<1> QED BY <1>3, <1>4, <1>5 DEF OutcomeInv

\* A game that fails latches what it had come to.
LEMMA OutcomeFails ==
  ASSUME TypeOK, OutcomeInv, Fail, task \notin {"over", "ending", "ended"},
         UNCHANGED <<mode, side, alive, deaths, forced, winner, honoured, result>>
  PROVE  OutcomeInv'
<1>1. winner # Undecided /\ mode # "swap" => Honoured(winner)' = Honoured(winner)
  BY HonouredStays
<1>2. task' = "failed" /\ outcome' = Latched
  BY DEF Fail
<1>3. /\ outcome' # "none"
      /\ outcome # "none" => outcome' = outcome
      /\ outcome' = "forced" => outcome = "forced" \/ (outcome = "none" /\ forced)
  BY <1>2 DEF Latched
<1>4. (winner # Undecided =>
         /\ outcome # "none"
         /\ winner = TimeLimit <=> mode = "nonstop"
         /\ mode = "nonstop" => task \in {"over", "ending", "ended"}
         /\ mode # "swap" => honoured = Honoured(winner))'
  BY <1>1, <1>3 DEF OutcomeInv
<1>5. (outcome = "forced" => forced /\ winner \in {Undecided, TimeLimit})'
  BY <1>3 DEF OutcomeInv
<1>6. /\ (~running => forced \/ task \in {"failed", "ended"})'
      /\ (outcome # "none" /\ winner = Undecided => task \in {"ending", "failed", "ended"})'
      /\ (outcome = "completed" /\ winner = Undecided => task = "failed")'
      /\ (task = "hold" => winner # Undecided)'
      /\ (task \in {"over", "ending"} => forced \/ winner # Undecided)'
      /\ (task = "ending" => outcome # "none")'
      /\ (task # "ended" => result = None)'
  BY <1>2 DEF OutcomeInv
<1> QED BY <1>4, <1>5, <1>6 DEF OutcomeInv

\* The call of the frames ends or fails while the game is at the kill.
LEMMA ReturnOutcome ==
  ASSUME TypeOK, CallInv, OutcomeInv, NEW c \in Caller, call[c].at # "idle",
         UNCHANGED <<mode, side, forced, deaths, winner, honoured, result>>,
         winner # Undecided /\ mode # "swap" => UNCHANGED alive,
         \/ Return(c) /\ UNCHANGED <<running, outcome>>
         \/ Raise(c) /\ UNCHANGED alive
  PROVE  OutcomeInv'
<1>1. c = "frame" => task = "kill"
  BY DEF CallInv
<1>2. CASE Return(c) /\ UNCHANGED <<running, outcome>>
  <2>1. Short
    BY <1>1, <1>2 DEF Short, Return, Back, Caller
  <2> QED BY <1>2, <2>1, OutcomeKept DEF Kept, verdictVars
<1>3. CASE Raise(c) /\ UNCHANGED alive
  <2>1. CASE Fail /\ c = "frame"
    BY <1>1, <1>3, <2>1, OutcomeFails
  <2>2. CASE ~(c = "frame" /\ (warming \/ mode = "nonstop"))
    <3>1. UNCHANGED <<running, outcome>> /\ Short
      BY <1>1, <1>3, <2>2 DEF Short, Raise
    <3> QED BY <1>3, <3>1, OutcomeKept DEF Kept, verdictVars
  <2> QED BY <1>3, <2>1, <2>2 DEF Raise
<1> QED BY <1>2, <1>3

LEMMA CallStepOutcome ==
  ASSUME TypeOK, CallInv, GoneInv, OutcomeInv, NEW c \in Caller, CallStep(c)
  PROVE  OutcomeInv'
<1>0. InPlace(call[c], mode, alive, gone)
  BY DEF CallInv
<1>w. winner # Undecided => outcome # "none"
  BY DEF OutcomeInv
<1> USE DEF At, rosterVars, streamVars, Kept, verdictVars
<1>1. CASE KillRefused(c) \/ EffectSent(c) \/ RespawnShown(c)
  BY <1>1, ReturnOutcome DEF KillRefused, EffectSent, RespawnShown
<1>2. CASE EffectFailed(c) \/ FlashFailed(c)
  <2>1. call[c].at # "idle" /\ Raise(c)
        /\ UNCHANGED <<mode, side, alive, forced, deaths, winner, honoured, result>>
    BY <1>2 DEF EffectFailed, FlashFailed
  <2> QED BY <2>1, ReturnOutcome
<1>3. CASE KillLands(c) \/ HumanTurns(c) \/ SwapStarts(c) \/ FlashSent(c)
  <2>1. /\ UNCHANGED <<mode, outcome, winner, honoured, result, forced, running, task>>
        /\ UNCHANGED <<side, alive, deaths>> \/ mode = "swap" \/ outcome = "none"
    BY <1>3 DEF KillLands, HumanTurns, SwapStarts, FlashSent, GateOpen
  <2> QED BY <1>w, <2>1, OutcomeKept DEF Short
<1>4. CASE SwapWakes(c) \/ ColourSent(c)
  <2>1. mode = "swap" /\ call[c].at # "idle"
        /\ UNCHANGED <<mode, side, forced, deaths, winner, honoured, result, running, outcome>>
    BY <1>0, <1>4 DEF SwapWakes, ColourSent, InPlace
  <2>2. Return(c) \/ UNCHANGED task
    BY <1>4 DEF SwapWakes, ColourSent, Eliminate
  <2>3. CASE Return(c)
    BY <2>1, <2>3, ReturnOutcome
  <2>4. CASE UNCHANGED task
    BY <2>1, <2>4, OutcomeKept DEF Short
  <2> QED BY <2>2, <2>3, <2>4
<1>5. CASE Beeped(c)
  <2>1. call[c].at # "idle"
        /\ UNCHANGED <<mode, side, forced, deaths, winner, honoured, result, running, outcome>>
    BY <1>5 DEF Beeped
  <2>2. CASE call[c].who \in gone
    <3>1. mode = "swap"
      BY <1>0, <1>5, <2>2 DEF Beeped, InPlace, GoneInv
    <3>2. UNCHANGED task
      BY <1>5, <2>2 DEF Beeped, Eliminate
    <3> QED BY <2>1, <3>1, <3>2, OutcomeKept DEF Short
  <2>3. CASE call[c].who \notin gone
    BY <1>5, <2>1, <2>3, ReturnOutcome DEF Beeped
  <2> QED BY <2>2, <2>3
<1> QED BY <1>1, <1>2, <1>3, <1>4, <1>5 DEF CallStep

LEMMA PlayerStepOutcome ==
  ASSUME TypeOK, CallInv, OutcomeInv, NEW p \in Player, PlayerStep(p)
  PROVE  OutcomeInv'
<1>w. winner # Undecided => outcome # "none"
  BY DEF OutcomeInv
<1> USE DEF rosterVars, Kept, verdictVars, Returns
<1>1. UNCHANGED <<mode, verdictVars, forced, running>>
  BY DEF PlayerStep, RespawnDue, FrameRespawn, Revive, AgentKill, FrameKill, FrameDisconnect,
     Disconnect, WarmupSees
<1>2. UNCHANGED <<side, deaths>>
      /\ (winner = Undecided \/ mode = "swap" \/ UNCHANGED alive)
  BY <1>w DEF PlayerStep, RespawnDue, FrameRespawn, Revive, AgentKill, FrameKill, FrameDisconnect,
     Disconnect, WarmupSees, MayReturn
<1>3. Short
  BY DEF Short, PlayerStep, RespawnDue, FrameRespawn, Revive, AgentKill, FrameKill,
     FrameDisconnect, Disconnect, WarmupSees, Begin, Back
<1> QED BY <1>1, <1>2, <1>3, OutcomeKept

\* What a win check decides, given that the game was undecided and not stopped.
LEMMA DecideOutcome ==
  ASSUME TypeOK, OutcomeInv, NEW w \in Side \cup {Nobody}, Decide(w),
         task \in {"check", "frame"}, mode # "nonstop", winner = Undecided, ~forced,
         UNCHANGED <<mode, side, alive, gone, deaths, lastDeath, forced, running, result>>
  PROVE  OutcomeInv' /\ winner' # Undecided
<1>1. outcome = "none"
  BY DEF OutcomeInv
<1>2. Latched = "completed"
  BY <1>1 DEF Latched
<1>3. task' = "hold" /\ outcome' = "completed" /\ winner' = w /\ honoured' = Honoured(w)
  BY <1>2 DEF Decide
<1>4. w # Undecided /\ w # TimeLimit
  BY RulesAssumption
<1>5. mode # "swap" => honoured' = Honoured(winner)'
  BY <1>3 DEF Honoured, Fewest
<1>6. running /\ result = None
  BY DEF OutcomeInv
<1> QED BY <1>3, <1>4, <1>5, <1>6 DEF OutcomeInv

\* A check decides what an undecided game had come to, ends Nonstop at its limit, or holds and
\* goes on.
LEMMA WinCheckCases ==
  ASSUME TypeOK, WinCheck
  PROVE  \/ mode = "nonstop" /\ task' = "over" /\ outcome' = Latched
              /\ winner' = TimeLimit /\ honoured' = Honoured(TimeLimit)
         \/ mode # "nonstop" /\ winner # Undecided /\ task' = "hold"
              /\ UNCHANGED <<outcome, winner, honoured>>
         \/ GoOn
         \/ mode # "nonstop" /\ winner = Undecided /\ ~forced
              /\ \E w \in Side \cup {Nobody} : Decide(w)
<1>1. CASE mode = "nonstop"
  BY <1>1 DEF WinCheck
<1>2. CASE mode # "nonstop" /\ winner # Undecided
  BY <1>2 DEF WinCheck
<1>3. CASE mode # "nonstop" /\ winner = Undecided /\ forced
  BY <1>3 DEF WinCheck
<1>4. CASE mode = "zombie" /\ winner = Undecided /\ ~forced
  <2>1. GoOn \/ Decide(Zombie) \/ Decide(Human)
    BY <1>4 DEF WinCheck
  <2> QED BY <1>4, <2>1, Sides
<1>5. CASE mode \notin {"nonstop", "zombie"} /\ winner = Undecided /\ ~forced
  <2>1. \/ GoOn \/ Decide(Nobody)
        \/ LivingSides # {} /\ Decide(CHOOSE s \in LivingSides : TRUE)
    BY <1>5 DEF WinCheck
  <2> QED BY <1>5, <2>1, WinnerType
<1> QED BY <1>1, <1>2, <1>3, <1>4, <1>5

LEMMA WinCheckOutcome ==
  ASSUME TypeOK, OutcomeInv, WinCheck
  PROVE  OutcomeInv'
<1> USE DEF rosterVars, Kept, verdictVars
<1>1. task \in {"check", "frame"}
      /\ UNCHANGED <<mode, side, alive, gone, deaths, lastDeath, forced, running, result>>
  BY DEF WinCheck
<1>2. CASE mode = "nonstop" /\ task' = "over" /\ outcome' = Latched
             /\ winner' = TimeLimit /\ honoured' = Honoured(TimeLimit)
  <2>1. winner = Undecided /\ outcome = "none" /\ result = None
    BY <1>1, <1>2 DEF OutcomeInv
  <2>2. honoured' = Honoured(winner)'
    BY <1>1, <1>2 DEF Honoured, Fewest
  <2>3. outcome' # "none" /\ (outcome' = "forced" => forced)
    BY <1>2, <2>1 DEF Latched
  <2> QED BY <1>1, <1>2, <2>1, <2>2, <2>3, RulesAssumption DEF OutcomeInv
<1>3. CASE mode # "nonstop" /\ winner # Undecided /\ task' = "hold"
             /\ UNCHANGED <<outcome, winner, honoured>>
  <2>1. mode # "swap" => Honoured(winner)' = Honoured(winner)
    BY <1>1, <1>3, HonouredStays
  <2> QED BY <1>1, <1>3, <2>1 DEF OutcomeInv
<1>4. CASE GoOn
  BY <1>1, <1>4, OutcomeKept DEF GoOn, Back, Short
<1>5. ASSUME mode # "nonstop", winner = Undecided, ~forced,
             NEW w \in Side \cup {Nobody}, Decide(w)
      PROVE  OutcomeInv'
  BY <1>1, <1>5, DecideOutcome
<1> QED BY <1>2, <1>3, <1>4, <1>5, WinCheckCases

\* The last three steps of a game: the outcome is latched for good on the way.
LEMMA EndingOutcome ==
  ASSUME TypeOK, OutcomeInv, HoldOver \/ Teardown \/ EndGame
  PROVE  OutcomeInv'
<1>1. UNCHANGED <<mode, side, alive, deaths, forced, winner, honoured>>
  BY DEF HoldOver, Teardown, EndGame, Quiet, rosterVars
<1>2. winner # Undecided /\ mode # "swap" => Honoured(winner)' = Honoured(winner)
  BY <1>1, HonouredStays
<1>3. /\ outcome # "none" => outcome' = outcome
      /\ outcome' = "forced" => outcome = "forced" \/ (outcome = "none" /\ forced)
      /\ outcome' = "completed" => outcome = "completed" \/ (outcome = "none" /\ ~forced)
  BY DEF HoldOver, Teardown, EndGame, Latched
<1>4. (winner # Undecided =>
         /\ outcome # "none"
         /\ winner = TimeLimit <=> mode = "nonstop"
         /\ mode = "nonstop" => task \in {"over", "ending", "ended"}
         /\ mode # "swap" => honoured = Honoured(winner))'
  BY <1>1, <1>2, <1>3 DEF OutcomeInv, HoldOver, Teardown, EndGame
<1>5. (outcome = "forced" => forced /\ winner \in {Undecided, TimeLimit})'
  BY <1>1, <1>3 DEF OutcomeInv
<1>6. CASE HoldOver
  BY <1>1, <1>3, <1>4, <1>5, <1>6 DEF OutcomeInv, HoldOver
<1>7. CASE Teardown
  <2>1. outcome' # "none" /\ task' = "ending" /\ UNCHANGED <<running, result>>
    BY <1>7 DEF Teardown, Latched
  <2> QED BY <1>1, <1>3, <1>4, <1>5, <1>7, <2>1 DEF OutcomeInv, Teardown
<1>8. CASE EndGame
  BY <1>1, <1>3, <1>4, <1>5, <1>8 DEF OutcomeInv, EndGame
<1> QED BY <1>6, <1>7, <1>8

LEMMA TaskStepOutcome ==
  ASSUME TypeOK, CallInv, OutcomeInv, TaskStep
  PROVE  OutcomeInv'
<1> USE DEF Quiet, rosterVars, Kept, verdictVars, ToWarm
<1>1. CASE IntroOver
  <2>1. CASE running
    BY <1>1, <2>1, OutcomeKept DEF IntroOver, Short
  <2>2. CASE ~running
    BY <1>1, <2>2, OutcomeStopped DEF IntroOver
  <2> QED BY <2>1, <2>2
<1>2. CASE LoopStarts \/ ResendOver
  BY <1>2, OutcomeKept DEF LoopStarts, ResendOver, Short
<1>3. CASE WarmOver
  <2>1. CASE task' = "loop" /\ UNCHANGED <<running, outcome>>
    BY <1>3, <2>1, OutcomeKept DEF WarmOver, Short
  <2>2. CASE Fail
    BY <1>3, <2>2, OutcomeFails DEF WarmOver
  <2> QED BY <1>3, <2>1, <2>2 DEF WarmOver
<1>4. CASE FrameStarts
  <2>1. CASE running
    BY <1>4, <2>1, OutcomeKept DEF FrameStarts, Short
  <2>2. CASE ~running
    BY <1>4, <2>2, OutcomeStopped DEF FrameStarts
  <2> QED BY <2>1, <2>2
<1>5. CASE ReadFails
  <2>1. task = "loop" /\ UNCHANGED <<Quiet, result>>
    BY <1>5 DEF ReadFails
  <2>2. \/ Fail
        \/ ~running /\ task' = "over" /\ UNCHANGED <<running, outcome>>
        \/ task' = "backoff" /\ UNCHANGED <<running, outcome>>
    BY <1>5 DEF ReadFails
  <2>3. CASE Fail
    BY <2>1, <2>3, OutcomeFails
  <2>4. CASE ~running /\ task' = "over" /\ UNCHANGED <<running, outcome>>
    BY <2>1, <2>4, OutcomeStopped
  <2>5. CASE task' = "backoff" /\ UNCHANGED <<running, outcome>>
    BY <2>1, <2>5, OutcomeKept DEF Short
  <2> QED BY <2>2, <2>3, <2>4, <2>5
<1>6. CASE Reopen
  <2>1. CASE running
    BY <1>6, <2>1, OutcomeKept DEF Reopen, Short
  <2>2. CASE ~running
    BY <1>6, <2>2, OutcomeStopped DEF Reopen
  <2> QED BY <2>1, <2>2
<1>7. CASE ResendFails
  <2>1. CASE warming
    BY <1>7, <2>1, OutcomeKept DEF ResendFails, Short
  <2>2. CASE ~warming
    BY <1>7, <2>2, OutcomeFails DEF ResendFails
  <2> QED BY <2>1, <2>2
<1>8. CASE WinCheck
  BY <1>8, WinCheckOutcome
<1>9. CASE HoldOver \/ Teardown \/ EndGame
  BY <1>9, EndingOutcome
<1>10. ASSUME NEW p \in Player, WarmDisconnect(p) \/ ResendOne(p) PROVE OutcomeInv'
  BY <1>10, OutcomeKept DEF WarmDisconnect, Disconnect, Begin, Back, ResendOne, Short
<1> QED
  BY <1>1, <1>2, <1>3, <1>4, <1>5, <1>6, <1>7, <1>8, <1>9, <1>10 DEF TaskStep

LEMMA OutcomeStep ==
  ASSUME TypeOK, CallInv, GoneInv, OutcomeInv, [Next]_vars
  PROVE  OutcomeInv'
<1> USE DEF Quiet, rosterVars, Kept, verdictVars
<1>1. CASE CountdownStops
  BY <1>1, OutcomeStopped DEF CountdownStops
<1>2. CASE ForceEnd \/ TimeRunsOut \/ StreamBreaks \/ UNCHANGED vars
  BY <1>2, OutcomeKept DEF ForceEnd, TimeRunsOut, StreamBreaks, vars, Short
<1> QED BY <1>1, <1>2, CallStepOutcome, PlayerStepOutcome, TaskStepOutcome DEF Next

\* The report of a step that ends no game stays.
LEMMA VerdictSame ==
  ASSUME OutcomeInv, VerdictHonoured, UNCHANGED result,
         task = "ended" => UNCHANGED <<winner, honoured>>
  PROVE  VerdictHonoured'
BY DEF OutcomeInv, VerdictHonoured

\* The end of a game honours whom the decision did.
LEMMA EndGameVerdict ==
  ASSUME TypeOK, OutcomeInv, EndGame
  PROVE  VerdictHonoured'
<1>1. task = "ending" /\ outcome # "none" /\ UNCHANGED <<mode, winner, honoured>>
  BY DEF EndGame, OutcomeInv, Quiet
<1>2. CASE outcome = "forced"
  <2>1. winner \in {Undecided, TimeLimit}
    BY <1>2 DEF OutcomeInv
  <2>2. result'.outcome = "forced" /\ result'.who = {}
    BY <1>2 DEF EndGame
  <2> QED BY <1>1, <2>1, <2>2 DEF VerdictHonoured
<1>3. CASE outcome # "forced"
  <2>1. outcome = "completed" /\ winner # Undecided
    BY <1>1, <1>3 DEF OutcomeInv, TypeOK
  <2>2. PICK who \in IF mode = "swap" THEN {honoured}
                     ELSE IF mode = "nonstop" THEN {{p} : p \in Fewest}
                     ELSE {Honoured(winner)} :
             result' = [outcome |-> outcome, winner |-> winner, who |-> who]
    BY <1>3, <2>1 DEF EndGame
  <2>3. mode # "swap" => honoured = Honoured(winner)
    BY <2>1 DEF OutcomeInv
  <2>4. mode = "nonstop" => honoured = Fewest
    <3>1. mode = "nonstop" => winner = TimeLimit
      BY <2>1 DEF OutcomeInv
    <3> QED BY <2>3, <3>1, RulesAssumption DEF Honoured
  <2>5. who \subseteq honoured /\ (who = {} => honoured = {})
    <3>1. CASE mode = "nonstop"
      BY <2>2, <2>4, <3>1
    <3>2. CASE mode # "nonstop"
      BY <2>2, <2>3, <3>2
    <3> QED BY <3>1, <3>2
  <2>6. result'.outcome = "completed" /\ result'.winner = winner /\ result'.who = who
    BY <2>1, <2>2
  <2> QED BY <1>1, <2>1, <2>5, <2>6 DEF VerdictHonoured
<1> QED BY <1>2, <1>3

LEMMA VerdictStep ==
  ASSUME TypeOK, OutcomeInv, VerdictHonoured, [Next]_vars
  PROVE  VerdictHonoured'
<1> USE DEF verdictVars, Quiet
<1>1. ASSUME NEW c \in Caller, CallStep(c) PROVE UNCHANGED <<result, winner, honoured>>
  BY <1>1 DEF CallStep, KillRefused, KillLands, HumanTurns, SwapStarts, EffectSent, EffectFailed,
     FlashSent, FlashFailed, SwapWakes, ColourSent, Beeped, RespawnShown
<1>2. ASSUME NEW p \in Player, PlayerStep(p) PROVE UNCHANGED <<result, winner, honoured>>
  BY <1>2 DEF PlayerStep, RespawnDue, FrameRespawn, Revive, AgentKill, FrameKill,
     FrameDisconnect, Disconnect, WarmupSees
<1>3. ASSUME TaskStep PROVE VerdictHonoured'
  <2>1. CASE EndGame
    BY <2>1, EndGameVerdict
  <2>2. CASE WinCheck
    BY <2>2, VerdictSame DEF WinCheck
  <2>3. CASE IntroOver \/ LoopStarts \/ WarmOver \/ FrameStarts \/ ReadFails \/ Reopen
    BY <2>3, VerdictSame DEF IntroOver, LoopStarts, WarmOver, FrameStarts, ReadFails, Reopen
  <2>4. CASE ResendFails \/ ResendOver \/ HoldOver \/ Teardown
    BY <2>4, VerdictSame DEF ResendFails, ResendOver, HoldOver, Teardown
  <2>5. ASSUME NEW p \in Player, WarmDisconnect(p) \/ ResendOne(p) PROVE VerdictHonoured'
    BY <2>5, VerdictSame DEF WarmDisconnect, Disconnect, ResendOne
  <2> QED BY <1>3, <2>1, <2>2, <2>3, <2>4, <2>5 DEF TaskStep
<1>4. CASE CountdownStops \/ ForceEnd \/ TimeRunsOut \/ StreamBreaks \/ UNCHANGED vars
  BY <1>4, VerdictSame DEF CountdownStops, ForceEnd, TimeRunsOut, StreamBreaks, vars
<1> QED BY <1>1, <1>2, <1>3, <1>4, VerdictSame DEF Next

-----------------------------------------------------------------------------
(* The theorems *)

LEMMA InitRules ==
  ASSUME Init
  PROVE  RulesProofInv
<1> USE DEF Init
<1>1. TypeOK
  <2>1. side \in [Player -> Side] /\ ranks \in [Player -> Nat] /\ deaths \in [Player -> Nat]
    BY RulesAssumption
  <2>2. call \in [Caller -> [at : Stage, who : Player \cup {None}]]
    BY DEF Idle, Stage
  <2>3. mode \in Modes /\ task \in Task /\ lastDeath \in Player \cup {None}
        /\ drops \in Nat /\ tries \in 0..MaxReconnects
    BY RulesAssumption DEF Task
  <2>4. outcome \in {"none", "forced", "completed"} /\ result = None
        /\ winner \in Side \cup {Undecided, Nobody, TimeLimit}
    OBVIOUS
  <2>5. /\ timeUp \in BOOLEAN /\ warming \in BOOLEAN /\ running \in BOOLEAN
        /\ forced \in BOOLEAN /\ stream \in BOOLEAN
    OBVIOUS
  <2>6. /\ alive \subseteq Player /\ gone \subseteq Player /\ due \subseteq Player
        /\ warm \subseteq Player /\ resend \subseteq Player /\ told \subseteq Player
        /\ undelivered \subseteq Player /\ cut \subseteq Player /\ honoured \subseteq Player
    OBVIOUS
  <2> HIDE DEF Init
  <2> QED BY <2>1, <2>2, <2>3, <2>4, <2>5, <2>6 DEF TypeOK
<1>2. CallInv
  <2>1. \A c \in Caller : call[c] = Idle
    OBVIOUS
  <2> QED BY <2>1 DEF CallInv, InPlace, Idle, Caller
<1>3. GoneInv /\ CountedOnce /\ MidSwapOwned /\ FallenInv /\ DownZombieDue
  BY DEF GoneInv, CountedOnce, MidSwapOwned, MidSwap, FallenInv, DownZombieDue
<1>4. DeathTold /\ ResendInv /\ OutcomeInv /\ VerdictHonoured
  BY DEF DeathTold, ResendInv, OutcomeInv, VerdictHonoured
<1> QED BY <1>1, <1>2, <1>3, <1>4 DEF RulesProofInv

LEMMA NextRules ==
  ASSUME RulesProofInv, [Next]_vars
  PROVE  RulesProofInv'
<1>1. TypeOK /\ CallInv /\ RosterInv /\ GoneInv /\ OutcomeInv /\ DeathTold /\ ResendInv
      /\ VerdictHonoured
  BY DEF RulesProofInv, RosterInv
<1>2. TypeOK' /\ CallInv'
  BY <1>1, TypeStep, CallInvStep
<1>3. RosterInv' /\ DeathTold' /\ ResendInv'
  BY <1>1, RosterStep, ToldStep
<1>4. OutcomeInv' /\ VerdictHonoured'
  BY <1>1, OutcomeStep, VerdictStep
<1> QED BY <1>2, <1>3, <1>4 DEF RulesProofInv, RosterInv

\* The inductive invariant of a game: calls, roster, deaths told, and verdict.
THEOREM RulesInvariant == Spec => []RulesProofInv
<1>1. Init => RulesProofInv
  BY InitRules
<1>2. RulesProofInv /\ [Next]_vars => RulesProofInv'
  BY NextRules
<1> QED BY <1>1, <1>2, PTL DEF Spec

\* In every mode, with any players and deals, the elimination order counts whoever falls once,
\* and whoever is between two sides of Swapper is carried to one.
THEOREM RulesHold == Spec => []RulesInv
<1>1. RulesProofInv => RulesInv
  BY DEF RulesProofInv, RulesInv
<1> QED BY <1>1, RulesInvariant, PTL

\* game_ended reports the winner and the players the win check decided on, whatever kills,
\* revives, respawns and force ends fall between the decision and the end.
THEOREM VerdictKept == Spec => []VerdictHonoured
<1>1. RulesProofInv => VerdictHonoured
  BY DEF RulesProofInv
<1> QED BY <1>1, RulesInvariant, PTL

\* However often the stream breaks, no death is lost on its way to the player's controller.
THEOREM DeathsTold == Spec => []DeathTold
<1>1. RulesProofInv => DeathTold
  BY DEF RulesProofInv
<1> QED BY <1>1, RulesInvariant, PTL

\* A zombie that is down has a respawn of its own pending while the game goes on.
THEOREM ZombiesReturn == Spec => []DownZombieDue
<1>1. RulesProofInv => DownZombieDue
  BY DEF RulesProofInv
<1> QED BY <1>1, RulesInvariant, PTL

-----------------------------------------------------------------------------
(* A game keeps the promise of GameVerdict. *)

\* The mapping of Promise, by name.
PhaseOf == IF Stopped THEN "stopped" ELSE IF winner # Undecided THEN "decided" ELSE "open"
VerdictOf == IF Stopped \/ winner = Undecided THEN None ELSE winner
ReportOf == IF task = "ended" THEN result.winner
            ELSE IF task \in Done THEN "broken" ELSE None

\* A step that leaves winner and force end alone, and at most latches the outcome.
Passes ==
  /\ UNCHANGED <<winner, forced, result>>
  /\ outcome' \in {outcome, Latched}
  /\ task' = task \/ (task \notin Done /\ task' # "ended")

LEMMA PhaseStays ==
  ASSUME OutcomeInv, UNCHANGED <<winner, forced>>, outcome' \in {outcome, Latched}
  PROVE  UNCHANGED <<PhaseOf, VerdictOf>>
<1>1. outcome = "none" => winner = Undecided
  BY DEF OutcomeInv
<1>2. Stopped' <=> Stopped
  BY <1>1 DEF Stopped, Latched
<1> QED BY <1>2 DEF PhaseOf, VerdictOf

LEMMA PassesPromise ==
  ASSUME OutcomeInv, Passes
  PROVE  [Promise!VNext]_(Promise!verdictVars)
<1>1. UNCHANGED <<PhaseOf, VerdictOf>>
  BY PhaseStays DEF Passes
<1>2. UNCHANGED ReportOf \/ (ReportOf = None /\ ReportOf' = "broken")
  BY DEF Passes, ReportOf, Done
<1>3. CASE UNCHANGED ReportOf
  BY <1>1, <1>3 DEF Promise!verdictVars, PhaseOf, VerdictOf, ReportOf
<1>4. CASE ReportOf = None /\ ReportOf' = "broken"
  BY <1>1, <1>4 DEF Promise!VNext, Promise!Break, PhaseOf, VerdictOf, ReportOf
<1> QED BY <1>2, <1>3, <1>4

\* The end of the game reports the decision, or that there was none.
LEMMA EndGamePromise ==
  ASSUME TypeOK, OutcomeInv, EndGame
  PROVE  Promise!Report
<1>1. UNCHANGED <<PhaseOf, VerdictOf>>
  BY PhaseStays DEF EndGame, Quiet
<1>2. ReportOf = None /\ task' = "ended" /\ outcome \in {"forced", "completed"}
      /\ (outcome = "completed" => winner # Undecided)
  BY DEF EndGame, ReportOf, Done, OutcomeInv, TypeOK
<1>3. result'.winner = IF outcome = "forced" THEN Undecided ELSE winner
  BY DEF EndGame
<1>4. ReportOf' = IF outcome = "forced" THEN Undecided ELSE winner
  BY <1>2, <1>3 DEF ReportOf
<1>5. \/ PhaseOf = "decided" /\ ReportOf' = VerdictOf
      \/ PhaseOf = "stopped" /\ ReportOf' = Undecided
  BY <1>2, <1>4 DEF PhaseOf, VerdictOf, Stopped
<1> QED BY <1>1, <1>2, <1>5 DEF Promise!Report, PhaseOf, VerdictOf, ReportOf

\* A force end stops an undecided game, and changes nothing of a decided one.
LEMMA ForceEndPromise ==
  ASSUME TypeOK, OutcomeInv, ForceEnd
  PROVE  Promise!Stop \/ UNCHANGED Promise!verdictVars
<1>1. /\ ~Stopped /\ UNCHANGED <<winner, ReportOf>> /\ ReportOf = None
      /\ Stopped' <=> winner = Undecided
  BY DEF ForceEnd, verdictVars, Stopped, ReportOf, Done, OutcomeInv
<1> QED BY <1>1 DEF Promise!Stop, Promise!verdictVars, ReportOf

\* A win check decides an open game with a verdict, or leaves it as it is.
LEMMA WinCheckPromise ==
  ASSUME TypeOK, OutcomeInv, WinCheck
  PROVE  [Promise!VNext]_(Promise!verdictVars)
<1>1. task \in {"check", "frame"} /\ UNCHANGED <<mode, forced, result>> /\ task' \notin Done
  BY WinCheckGoes DEF WinCheck, rosterVars, Done
<1>2. ReportOf = None /\ ReportOf' = None
  BY <1>1 DEF ReportOf, Done
<1>3. ASSUME UNCHANGED <<outcome, winner>> PROVE UNCHANGED Promise!verdictVars
  <2>1. UNCHANGED <<PhaseOf, VerdictOf>>
    BY <1>1, <1>3, PhaseStays
  <2> QED BY <1>2, <2>1 DEF Promise!verdictVars, PhaseOf, VerdictOf, ReportOf
<1>4. ASSUME NEW w \in Side \cup {Nobody, TimeLimit}, ~Stopped, winner = Undecided,
             winner' = w, outcome' = "completed"
      PROVE  Promise!Decide(w)
  <2>1. PhaseOf = "open" /\ PhaseOf' = "decided" /\ VerdictOf' = w
    BY <1>4, RulesAssumption DEF PhaseOf, VerdictOf, Stopped
  <2> QED BY <1>2, <2>1 DEF Promise!Decide, PhaseOf, VerdictOf, ReportOf
<1>5. CASE mode = "nonstop" /\ outcome' = Latched /\ winner' = TimeLimit
  <2>1. winner = Undecided /\ outcome = "none"
    BY <1>1, <1>5 DEF OutcomeInv
  <2>2. CASE forced
    <3>1. Stopped /\ Stopped'
      BY <1>1, <1>5, <2>1, <2>2 DEF Stopped, Latched
    <3> QED BY <1>2, <3>1 DEF Promise!verdictVars, ReportOf
  <2>3. CASE ~forced
    BY <1>4, <1>5, <2>1, <2>3 DEF Stopped, Latched, Promise!VNext
  <2> QED BY <2>2, <2>3
<1>6. ASSUME winner = Undecided, ~forced, NEW w \in Side \cup {Nobody}, Decide(w)
      PROVE  Promise!VNext
  <2>1. outcome = "none"
    BY <1>1, <1>6 DEF OutcomeInv
  <2>2. winner' = w /\ outcome' = "completed" /\ ~Stopped
    BY <1>6, <2>1 DEF Decide, Latched, Stopped
  <2> QED BY <1>4, <1>6, <2>2 DEF Promise!VNext
<1> QED BY <1>3, <1>5, <1>6, WinCheckCases DEF GoOn

\* Every step of a game is a step of its promise, or none.
LEMMA NextPromise ==
  ASSUME RulesProofInv, [Next]_vars
  PROVE  [Promise!VNext]_(Promise!verdictVars)
<1>0. TypeOK /\ CallInv /\ OutcomeInv
  BY DEF RulesProofInv
<1> USE DEF verdictVars, Quiet
<1>1. ASSUME NEW c \in Caller, CallStep(c) PROVE Passes
  <2>1. UNCHANGED <<winner, forced, result>> /\ task \notin Done
    BY <1>1 DEF CallStep, KillRefused, KillLands, HumanTurns, SwapStarts, EffectSent,
       EffectFailed, FlashSent, FlashFailed, SwapWakes, ColourSent, Beeped, RespawnShown, At
  <2>2. outcome' \in {outcome, Latched}
    BY <1>1 DEF CallStep, KillRefused, KillLands, HumanTurns, SwapStarts, EffectSent,
       EffectFailed, FlashSent, FlashFailed, SwapWakes, ColourSent, Beeped, RespawnShown,
       Raise, Fail
  <2>3. task' # "ended"
    BY <1>1, <2>1 DEF CallStep, KillRefused, KillLands, HumanTurns, SwapStarts, EffectSent,
       EffectFailed, FlashSent, FlashFailed, SwapWakes, ColourSent, Beeped, RespawnShown,
       Eliminate, Return, Raise, Fail, Back, Done
  <2> QED BY <2>1, <2>2, <2>3 DEF Passes
<1>2. ASSUME NEW p \in Player, PlayerStep(p) PROVE Passes
  <2>1. UNCHANGED <<winner, forced, result, outcome>>
    BY <1>2 DEF PlayerStep, RespawnDue, FrameRespawn, Revive, AgentKill, FrameKill,
       FrameDisconnect, Disconnect, WarmupSees
  <2>2. task' = task \/ (task \notin Done /\ task' # "ended")
    BY <1>2 DEF PlayerStep, RespawnDue, FrameRespawn, Revive, AgentKill, FrameKill,
       FrameDisconnect, Disconnect, WarmupSees, Begin, Back, Done
  <2> QED BY <2>1, <2>2 DEF Passes
<1>3. ASSUME TaskStep PROVE Passes \/ WinCheck \/ EndGame
  <2> USE DEF Passes, Done, ToWarm, Fail
  <2>1. CASE IntroOver \/ LoopStarts \/ WarmOver \/ FrameStarts
    BY <2>1 DEF IntroOver, LoopStarts, WarmOver, FrameStarts
  <2>2. CASE ReadFails
    <3>1. task = "loop" /\ UNCHANGED <<winner, forced, result>>
      BY <2>2 DEF ReadFails
    <3>2. outcome' \in {outcome, Latched} /\ task' \in {"failed", "over", "backoff"}
      BY <2>2 DEF ReadFails
    <3> QED BY <3>1, <3>2
  <2>3. CASE Reopen \/ ResendFails \/ ResendOver \/ HoldOver \/ Teardown
    BY <2>3 DEF Reopen, ResendFails, ResendOver, HoldOver, Teardown
  <2>4. ASSUME NEW p \in Player, WarmDisconnect(p) \/ ResendOne(p) PROVE Passes
    BY <2>4 DEF WarmDisconnect, Disconnect, Begin, Back, ResendOne
  <2> QED BY <1>3, <2>1, <2>2, <2>3, <2>4 DEF TaskStep
<1>4. CASE CountdownStops \/ TimeRunsOut \/ StreamBreaks \/ UNCHANGED vars
  <2>1. Passes
    BY <1>4 DEF CountdownStops, TimeRunsOut, StreamBreaks, vars, Passes, Done
  <2> QED BY <1>0, <2>1, PassesPromise
<1>5. CASE ForceEnd
  BY <1>0, <1>5, ForceEndPromise DEF Promise!VNext
<1>6. CASE WinCheck
  BY <1>0, <1>6, WinCheckPromise
<1>7. CASE EndGame
  BY <1>0, <1>7, EndGamePromise DEF Promise!VNext
<1> QED BY <1>0, <1>1, <1>2, <1>3, <1>4, <1>5, <1>6, <1>7, PassesPromise DEF Next

\* Step by step a game does what GameVerdict promises: it is decided at most once or stopped at
\* most once, and reports exactly that, or that it broke.
THEOREM RulesKeepPromise == Spec => Promise!VSpec
<1>1. Init => Promise!VInit
  BY DEF Init, Promise!VInit, Stopped, Done
<1>2. RulesProofInv /\ [Next]_vars => [Promise!VNext]_(Promise!verdictVars)
  BY NextPromise
<1> QED BY <1>1, <1>2, RulesInvariant, PTL DEF Spec, Promise!VSpec
=============================================================================
