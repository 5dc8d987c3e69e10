----------------------------- MODULE GameRules -----------------------------
(***************************************************************************)
(* One game on its asyncio loop: the kill path of BaseGameMode             *)
(* (services/game_coordinator/games/base.py) and the rules of the modes    *)
(* built on it.  Two coroutines kill: "frame", the game task, which        *)
(* handles one gameplay frame at a time, and "agent", the one intervention *)
(* effect the dispatcher runs at a time.  A kill suspends at its sound and *)
(* at every write, so each stretch between two awaits is one action.       *)
(*                                                                         *)
(* Modes: "sides" is FFA (a side each), Teams, Random Teams and Traitor    *)
(* (the secret teams); "wolves" is Werewolf, the same rule behind an intro *)
(* that may return early; "swap", "zombie" and "nonstop".  Motion, grace   *)
(* and shields are abstracted: any living player may be hit in any frame.  *)
(***************************************************************************)
EXTENDS Integers, FiniteSets

CONSTANTS
  Player,
  Modes,          \* the modes to play
  Deals,          \* the side of each player at the start
  None, Undecided,
  Nobody,         \* the winner of a tie
  TimeLimit,      \* the winner Nonstop has yet to pick when its time is up
  MaxReconnects,  \* max_reconnect_attempts
  MaxDrops,       \* bound: how often the gameplay stream breaks, by mode
  MaxDeaths,      \* bound: how often a player is hit in Nonstop and Swapper
  Early           \* bound: players who drop off before the frames' loop

Side == 1..Cardinality(Player)
Human == 1
Zombie == 2
AllModes == {"sides", "wolves", "swap", "zombie", "nonstop"}

ASSUME RulesAssumption ==
  /\ IsFiniteSet(Player)
  /\ Cardinality(Player) >= 2
  /\ None \notin Player
  /\ Modes \subseteq AllModes
  /\ Deals \subseteq [Player -> Side]
  /\ Undecided \notin Side \cup {Nobody, TimeLimit}
  /\ Side \cap {Nobody, TimeLimit} = {}
  /\ Nobody # TimeLimit
  /\ MaxReconnects \in Nat
  /\ MaxDrops \in [AllModes -> Nat]
  /\ MaxDeaths \in Nat
  /\ Early \subseteq Player

Caller == {"frame", "agent"}
Writes == {"flash", "colour", "effect", "respawn"}
Stage == Writes \cup {"idle", "sound", "pause", "beep"}
Task == {"intro", "collect", "warm", "loop", "frame", "kill", "check", "hold",
         "backoff", "resend", "over", "ending", "ended", "closed", "failed"}
Done == {"ended", "closed", "failed"}

VARIABLES
  mode,
  side,         \* team, secret_team or role of each player
  alive,
  gone,         \* Swapper's _eliminated, Nonstop's disconnected
  ranks,        \* how often each player was put in the elimination order
  deaths,       \* Nonstop's deaths, Swapper's swap_count
  lastDeath,    \* Swapper's last_death_serial
  due,          \* players with a respawn pending
  timeUp,       \* the clock of Zombie or Nonstop ran out
  call,         \* where the kill of each caller stands, and its victim
  task,         \* where the game task stands
  warm,         \* _warmup_disconnects
  warming,      \* the frames' loop has not begun
  running,
  forced,       \* force_end_reason is set
  outcome,      \* _latched_outcome
  winner,       \* _win_latched with _latched_team, _winner_side, or
                \* _time_limit_reached
  honoured,     \* the winners as of the decision (Swapper keeps the list)
  result,       \* the payload of game_ended
  stream,       \* the gameplay call works
  drops, tries, \* reconnect_attempt
  resend,       \* players _resend_dead_player_state has still to reach
  told,         \* dead players whose controller was sent the death effect (or
                \* was not on a stream yet, which opens with them off)
  undelivered,  \* _undelivered_deaths
  cut           \* history: a stream error ended the player's swap half way

rosterVars == <<side, alive, gone, ranks, deaths, lastDeath, due>>
verdictVars == <<outcome, winner, honoured, result>>
streamVars == <<stream, drops, tries, resend, told, undelivered, cut>>
vars == <<mode, rosterVars, timeUp, call, task, warm, warming, running, forced,
          verdictVars, streamVars>>

Idle == [at |-> "idle", who |-> None]

Other(s) == IF s = 1 THEN 2 ELSE 1
Sided == mode \in {"sides", "wolves"}

-----------------------------------------------------------------------------
(* What the rules read. *)

\* _get_alive_teams: Swapper counts everybody who is not eliminated
LivingSides ==
  {side[p] : p \in IF mode = "swap" THEN Player \ gone ELSE alive}

Humans == {p \in alive : side[p] = Human}
MidSwap(p) == mode = "swap" /\ p \notin gone /\ p \notin alive

\* Fault: a decided game still takes kills.
GateOpenToTheEnd(p, out) == ~forced

\* _kill_gate_open and _accepts_kill; out: the players eliminated by now
GateOpen(p, out) ==
  /\ ~forced
  /\ IF mode = "swap" THEN p \in out \/ (running /\ winner = Undecided)
                      ELSE outcome = "none"

\* The attributes _latch_game_outcome keeps
Latched ==
  IF outcome # "none" THEN outcome
  ELSE IF forced THEN "forced" ELSE "completed"

\* Swapper's _excluded_serial and _team_winners
Excluded ==
  {p \in {lastDeath} \cap Player :
     /\ p \notin gone
     /\ \E q \in Player \ (gone \cup {p}) : side[q] = side[p]}
SwapWinners(s) == {p \in Player \ gone : side[p] = s} \ Excluded

\* Nonstop: the best (score, -deaths)
Fewest == {p \in Player : \A q \in Player : deaths[p] <= deaths[q]}

\* The players the end of the game honours
Honoured(w) ==
  CASE w \in {Undecided, Nobody} -> {}
    [] mode = "swap" -> SwapWinners(w)
    [] mode = "nonstop" -> Fewest
    [] mode = "zombie" /\ w = Zombie -> {p \in Player : side[p] = Zombie}
    [] OTHER -> {p \in alive : side[p] = w}

InCall(p) == \E c \in Caller : call[c].who = p
Goto(c, at) == [call EXCEPT ![c].at = at]

Init ==
  /\ mode \in Modes
  /\ side \in IF Sided THEN Deals
              ELSE {d \in Deals : \A p \in Player : d[p] \in {1, 2}}
  /\ alive = Player
  /\ gone = {} /\ due = {} /\ warm = {}
  /\ ranks = [p \in Player |-> 0]
  /\ deaths = [p \in Player |-> 0]
  /\ lastDeath = None
  /\ timeUp = FALSE
  /\ call = [c \in Caller |-> Idle]
  /\ task = "intro"
  /\ warming = TRUE
  /\ running = TRUE
  /\ forced = FALSE
  /\ outcome = "none" /\ winner = Undecided /\ honoured = {} /\ result = None
  /\ stream = TRUE
  /\ drops = 0 /\ tries = 0
  /\ resend = {} /\ told = {} /\ undelivered = {} /\ cut = {}

-----------------------------------------------------------------------------
(* The kill path: _kill_player, _run_kill, each mode's _kill_player_impl. *)

Back == IF warming THEN "warm" ELSE "frame"

\* The item of the frame is done: the win check is next, Nonstop has none
Return(c) ==
  /\ call' = [call EXCEPT ![c] = Idle]
  /\ task' = IF c = "agent" THEN task
             ELSE IF mode = "nonstop" THEN Back ELSE "check"

Fail ==
  /\ task' = "failed"
  /\ running' = FALSE
  /\ outcome' = Latched

\* A write raised: the agent's effect is lost; in a frame the loop reconnects,
\* which neither the warm-up's disconnects nor Nonstop's loop are inside of
Raise(c) ==
  /\ call' = [call EXCEPT ![c] = Idle]
  /\ IF c = "frame" /\ (warming \/ mode = "nonstop")
     THEN Fail
     ELSE /\ task' = IF c = "frame" THEN "loop" ELSE task
          /\ UNCHANGED <<running, outcome>>

\* Fault: _kills_in_progress is not looked at.
CanDieTwice(p, out) == p \in alive /\ GateOpen(p, out)

CanDie(p, out) ==
  /\ p \in alive
  /\ ~InCall(p)
  /\ GateOpen(p, out)

Begin(c, p) ==
  /\ call' = [call EXCEPT ![c] = [at |-> "sound", who |-> p]]
  /\ task' = IF c = "frame" THEN "kill" ELSE task

Rank(p) == [ranks EXCEPT ![p] = IF mode = "swap" THEN 1 ELSE @ + 1]

At(c, stage) == call[c].at = stage /\ task \notin Done

\* The gate closed while the explosion sounded
KillRefused(c) ==
  /\ At(c, "sound")
  /\ ~GateOpen(call[c].who, gone)
  /\ Return(c)
  /\ UNCHANGED <<mode, rosterVars, timeUp, warm, warming, running, forced,
                 verdictVars, streamVars>>

\* Fault: a zombie's death starts no respawn.
KillLandsForGood(c) ==
  LET p == call[c].who IN
  /\ At(c, "sound")
  /\ GateOpen(p, gone)
  /\ mode = "swap" => p \in gone
  /\ mode = "zombie" => side[p] = Zombie
  /\ alive' = alive \ {p}
  /\ told' = told \ {p}
  /\ call' = Goto(c, "effect")
  /\ UNCHANGED <<mode, side, gone, ranks, deaths, lastDeath, due, timeUp, task,
                 warm, warming, running, forced, verdictVars, stream, drops,
                 tries, resend, undelivered, cut>>

\* Every death that leaves the player out, or down until a respawn
KillLands(c) ==
  LET p == call[c].who IN
  /\ At(c, "sound")
  /\ GateOpen(p, gone)
  /\ mode = "swap" => p \in gone
  /\ mode = "zombie" => side[p] = Zombie
  /\ alive' = alive \ {p}
  /\ ranks' = IF Sided \/ p \in gone THEN Rank(p) ELSE ranks
  /\ deaths' = IF mode = "nonstop" THEN [deaths EXCEPT ![p] = @ + 1] ELSE deaths
  /\ due' = IF Sided \/ p \in gone THEN due \ {p} ELSE due \cup {p}
  /\ told' = told \ {p}
  /\ call' = Goto(c, "effect")
  /\ UNCHANGED <<mode, side, gone, lastDeath, timeUp, task, warm, warming,
                 running, forced, verdictVars, stream, drops, tries, resend,
                 undelivered, cut>>

HumanTurns(c) ==
  /\ At(c, "sound")
  /\ mode = "zombie"
  /\ GateOpen(call[c].who, gone)
  /\ side[call[c].who] = Human
  /\ side' = [side EXCEPT ![call[c].who] = Zombie]
  /\ call' = Goto(c, "flash")
  /\ UNCHANGED <<mode, alive, gone, ranks, deaths, lastDeath, due, timeUp, task,
                 warm, warming, running, forced, verdictVars, streamVars>>

SwapStarts(c) ==
  LET p == call[c].who IN
  /\ At(c, "sound")
  /\ mode = "swap" /\ p \notin gone
  /\ GateOpen(p, gone)
  /\ alive' = alive \ {p}
  /\ side' = [side EXCEPT ![p] = Other(@)]
  /\ lastDeath' = p
  /\ deaths' = [deaths EXCEPT ![p] = @ + 1]
  /\ call' = Goto(c, "flash")
  /\ UNCHANGED <<mode, gone, ranks, due, timeUp, task, warm, warming,
                 running, forced, verdictVars, streamVars>>

EffectSent(c) ==
  /\ At(c, "effect")
  /\ stream
  /\ told' = told \cup ({call[c].who} \ alive)
  /\ Return(c)
  /\ UNCHANGED <<mode, rosterVars, timeUp, warm, warming, running, forced,
                 verdictVars, stream, drops, tries, resend, undelivered, cut>>

\* Fault: a failed death effect is not kept.
EffectForgotten(c) ==
  /\ At(c, "effect")
  /\ ~stream
  /\ Raise(c)
  /\ UNCHANGED <<mode, rosterVars, timeUp, warm, warming, forced, winner,
                 honoured, result, stream, drops, tries, resend, told,
                 undelivered, cut>>

EffectFailed(c) ==
  /\ At(c, "effect")
  /\ ~stream
  /\ undelivered' = undelivered \cup {call[c].who}
  /\ Raise(c)
  /\ UNCHANGED <<mode, rosterVars, timeUp, warm, warming, forced, winner,
                 honoured, result, stream, drops, tries, resend, told, cut>>

\* The flash of a swap or of a turned human is out
FlashSent(c) ==
  /\ At(c, "flash")
  /\ stream
  /\ call' = Goto(c, IF mode = "swap" THEN "pause" ELSE "beep")
  /\ UNCHANGED <<mode, rosterVars, timeUp, task, warm, warming, running, forced,
                 verdictVars, streamVars>>

\* _kill_player_impl writes unguarded: an error leaves a swap where it is
FlashFailed(c) ==
  /\ call[c].at \in {"flash", "colour", "respawn"} /\ task \notin Done
  /\ ~stream
  /\ cut' = IF mode = "swap" THEN cut \cup {call[c].who} ELSE cut
  /\ Raise(c)
  /\ UNCHANGED <<mode, rosterVars, timeUp, warm, warming, forced, winner,
                 honoured, result, stream, drops, tries, resend, told,
                 undelivered>>

\* _eliminate: the disconnect that came during the swap takes the player out
Eliminate(c) ==
  LET p == call[c].who IN
  /\ alive' = alive \ {p}
  /\ ranks' = IF running THEN Rank(p) ELSE ranks
  /\ told' = told \ {p}
  /\ call' = Goto(c, "effect")
  /\ UNCHANGED task

\* A step of a swap after one of its awaits: out, cut short, or on to next
SwapWakes(c) ==
  LET p == call[c].who IN
  /\ At(c, "pause")
  /\ IF p \in gone THEN Eliminate(c)
     ELSE IF running /\ winner = Undecided
     THEN call' = Goto(c, "colour") /\ UNCHANGED <<alive, ranks, told, task>>
     ELSE alive' = alive \cup {p} /\ Return(c) /\ UNCHANGED <<ranks, told>>
  /\ UNCHANGED <<mode, side, gone, deaths, lastDeath, due, timeUp, warm, warming,
                 running, forced, verdictVars, stream, drops, tries, resend,
                 undelivered, cut>>

ColourSent(c) ==
  LET p == call[c].who IN
  /\ At(c, "colour")
  /\ stream
  /\ IF p \in gone THEN Eliminate(c)
     ELSE /\ alive' = alive \cup {p}
          /\ IF running /\ winner = Undecided
             THEN call' = Goto(c, "beep") /\ UNCHANGED task
             ELSE Return(c)
          /\ UNCHANGED <<ranks, told>>
  /\ UNCHANGED <<mode, side, gone, deaths, lastDeath, due, timeUp, warm, warming,
                 running, forced, verdictVars, stream, drops, tries, resend,
                 undelivered, cut>>

\* The sound that closes a swap or a conversion is over
Beeped(c) ==
  /\ At(c, "beep")
  /\ IF call[c].who \in gone THEN Eliminate(c)
     ELSE Return(c) /\ UNCHANGED <<alive, ranks, told>>
  /\ UNCHANGED <<mode, side, gone, deaths, lastDeath, due, timeUp, warm, warming,
                 running, forced, verdictVars, stream, drops, tries, resend,
                 undelivered, cut>>

-----------------------------------------------------------------------------
(* Coming back: the zombie's timer, Nonstop's countdown, the agent's revive *)

\* The guards of _respawn_player: Zombie's and Nonstop's
MayReturn(p) ==
  /\ p \notin alive
  /\ \/ mode = "zombie" /\ side[p] = Zombie /\ running /\ winner = Undecided
     \/ mode = "nonstop" /\ p \notin gone /\ outcome = "none"
        /\ task \notin {"intro", "ending"} \cup Done

Returns(p) ==
  /\ alive' = alive \cup {p}
  /\ due' = due \ {p}
  /\ told' = told \ {p}

\* _respawn_zombie: a task of its own, done whether or not the zombie is back
RespawnDue(p) ==
  /\ mode = "zombie" /\ p \in due /\ task \notin Done
  /\ IF MayReturn(p) THEN Returns(p)
     ELSE due' = due \ {p} /\ UNCHANGED <<alive, told>>
  /\ UNCHANGED <<mode, side, gone, ranks, deaths, lastDeath, timeUp, call, task,
                 warm, warming, running, forced, verdictVars, stream, drops,
                 tries, resend, undelivered, cut>>

\* _update_respawn_timers: its deadline passed; sound and colour follow
FrameRespawn(p) ==
  /\ mode = "nonstop" /\ p \in due /\ task = "frame"
  /\ MayReturn(p)
  /\ Returns(p)
  /\ call' = [call EXCEPT !["frame"] = [at |-> "respawn", who |-> None]]
  /\ task' = "kill"
  /\ UNCHANGED <<mode, side, gone, ranks, deaths, lastDeath, timeUp, warm,
                 warming, running, forced, verdictVars, stream, drops, tries,
                 resend, undelivered, cut>>

\* handle_revive_player; the other modes' capability matrix denies it
Revive(p) ==
  /\ call["agent"] = Idle
  /\ MayReturn(p)
  /\ Returns(p)
  /\ call' = IF mode = "zombie" THEN call
             ELSE [call EXCEPT !["agent"] = [at |-> "respawn", who |-> None]]
  /\ UNCHANGED <<mode, side, gone, ranks, deaths, lastDeath, timeUp, task, warm,
                 warming, running, forced, verdictVars, stream, drops, tries,
                 resend, undelivered, cut>>

RespawnShown(c) ==
  /\ At(c, "respawn")
  /\ stream
  /\ Return(c)
  /\ UNCHANGED <<mode, rosterVars, timeUp, warm, warming, running, forced,
                 verdictVars, streamVars>>

\* handle_eliminate_player
AgentKill(p) ==
  /\ call["agent"] = Idle /\ task \notin Done
  /\ CanDie(p, gone)
  /\ deaths[p] < MaxDeaths
  /\ Begin("agent", p)
  /\ UNCHANGED <<mode, rosterVars, timeUp, warm, warming, running, forced,
                 verdictVars, streamVars>>

-----------------------------------------------------------------------------
(* What a frame brings. *)

\* _process_controller_state: a motion over the threshold
FrameKill(p) ==
  /\ task = "frame"
  /\ CanDie(p, gone)
  /\ deaths[p] < MaxDeaths
  /\ Begin("frame", p)
  /\ UNCHANGED <<mode, rosterVars, timeUp, warm, warming, running, forced,
                 verdictVars, streamVars>>

\* The player's own part of a disconnect, before the kill path
Leaves(p) ==
  LET out == gone \cup {p}
      before == LivingSides
      after == {side[q] : q \in Player \ out}
  IN
  CASE mode = "swap" /\ winner = Undecided /\ p \notin gone ->
         /\ gone' = out
         /\ lastDeath' = IF Cardinality(before) > 1 /\ Cardinality(after) <= 1
                         THEN None ELSE lastDeath
         /\ ranks' = IF MidSwap(p) /\ running THEN Rank(p) ELSE ranks
         /\ UNCHANGED due
    [] mode = "nonstop" /\ p \notin gone ->
         /\ gone' = out
         /\ due' = due \ {p}
         /\ ranks' = IF p \notin alive /\ GateOpen(p, gone) THEN Rank(p)
                     ELSE ranks
         /\ UNCHANGED lastDeath
    [] OTHER -> UNCHANGED <<gone, lastDeath, ranks, due>>

\* _handle_disconnect; Nonstop drops a repeated one, Swapper one after the win
Disconnect(p) ==
  /\ Leaves(p)
  /\ IF /\ CanDie(p, gone')
        /\ ~(mode = "nonstop" /\ p \in gone)
        /\ ~(mode = "swap" /\ winner # Undecided)
     THEN Begin("frame", p)
     ELSE UNCHANGED call /\ task' = IF mode = "nonstop" THEN Back ELSE "check"
  /\ UNCHANGED <<mode, side, alive, deaths, timeUp, warming, running, forced,
                 verdictVars, streamVars>>

FrameDisconnect(p) ==
  /\ task = "frame"
  /\ CanDie(p, gone) \/ (mode \in {"swap", "nonstop"} /\ p \notin gone)
  /\ Disconnect(p)
  /\ UNCHANGED warm

\* _handle_warmup_disconnects
WarmDisconnect(p) ==
  /\ task = "warm" /\ p \in warm
  /\ Disconnect(p)
  /\ warm' = warm \ {p}

-----------------------------------------------------------------------------
(* The win check after each disconnect and each controller of a frame. *)

\* _latch_win and its like: the outcome first, then the winner
Decide(w) ==
  /\ outcome' = Latched
  /\ IF Latched = "forced"
     THEN task' = Back /\ UNCHANGED <<winner, honoured>>
     ELSE task' = "hold" /\ winner' = w /\ honoured' = Honoured(w)

GoOn ==
  /\ task' = IF task = "check" THEN Back ELSE "loop"
  /\ UNCHANGED <<outcome, winner, honoured>>

\* _check_win_condition after a kill or a disconnect ("check"), and after the
\* last controller of the frame ("frame"); Nonstop checks at the end only
WinCheck ==
  /\ task \in {"check", "frame"}
  /\ CASE mode = "nonstop" ->
            IF timeUp
            THEN /\ task' = "over" /\ outcome' = Latched
                 /\ winner' = TimeLimit /\ honoured' = Honoured(TimeLimit)
            ELSE GoOn
       [] mode # "nonstop" /\ winner # Undecided ->
            task' = "hold" /\ UNCHANGED <<outcome, winner, honoured>>
       [] mode # "nonstop" /\ winner = Undecided /\ forced -> GoOn
       [] mode = "zombie" /\ winner = Undecided /\ ~forced ->
            IF Humans = {} THEN Decide(Zombie)
            ELSE IF timeUp THEN Decide(Human) ELSE GoOn
       [] OTHER ->
            IF LivingSides = {} THEN Decide(Nobody)
            ELSE IF Cardinality(LivingSides) = 1
            THEN Decide(CHOOSE s \in LivingSides : TRUE)
            ELSE GoOn
  /\ UNCHANGED <<mode, rosterVars, timeUp, call, warm, warming, running, forced,
                 result, streamVars>>

-----------------------------------------------------------------------------
(* The run: intro, warm-up, _game_loop with its reconnects, teardown. *)

Quiet == <<mode, rosterVars, timeUp, call, warm, forced, winner, honoured>>

\* A streamed intro (Werewolf, Zombie) returns early once the game is stopped
IntroOver ==
  /\ task = "intro"
  /\ IF running THEN task' = "collect"
     ELSE task' = IF mode \in {"wolves", "zombie"} THEN "closed" ELSE "over"
  /\ UNCHANGED <<Quiet, warming, running, outcome, result, streamVars>>

\* A force end in the countdown of a streamed intro
CountdownStops ==
  /\ task = "collect" /\ mode \in {"wolves", "zombie"} /\ ~running
  /\ task' = "closed"
  /\ UNCHANGED <<Quiet, warming, running, outcome, result, streamVars>>

\* The drain of the early stream and the warm-up keep the disconnects they read
WarmupSees(p) ==
  /\ task \in {"intro", "collect"} \/ (task = "resend" /\ warming)
  /\ p \in Early /\ warm' = warm \cup {p}
  /\ UNCHANGED <<mode, rosterVars, timeUp, call, task, warming, running, forced,
                 verdictVars, streamVars>>

\* _game_loop begins: a stopped game leaves the kept disconnects unread
ToWarm == task' = "warm" /\ warm' = IF running THEN warm ELSE {}

\* Nonstop's loop opens a call of its own
LoopStarts ==
  /\ task = "collect"
  /\ ToWarm
  /\ stream' = (stream \/ mode = "nonstop")
  /\ UNCHANGED <<mode, rosterVars, timeUp, call, warming, running, forced,
                 verdictVars, drops, tries, resend, told, undelivered, cut>>

\* The alive filter is written when somebody died: outside of the reconnects
WarmOver ==
  /\ task = "warm" /\ warm = {}
  /\ warming' = FALSE
  /\ \/ task' = "loop" /\ UNCHANGED <<running, outcome>>
     \/ ~stream /\ alive # Player /\ (mode = "nonstop" => running) /\ Fail
  /\ UNCHANGED <<Quiet, result, streamVars>>

\* Fault: running is not read again before a frame.
FrameStartsAnyway ==
  /\ task = "loop" /\ stream
  /\ task' = "frame"
  /\ UNCHANGED <<Quiet, warming, running, outcome, result, streamVars>>

FrameStarts ==
  /\ task = "loop" /\ stream
  /\ task' = IF running THEN "frame" ELSE "over"
  /\ UNCHANGED <<Quiet, warming, running, outcome, result, streamVars>>

\* The read failed; Nonstop's own loop has no reconnect.  The count starts again
\* (t = 0) if _RECONNECT_HEALTHY_FRAMES were read since the last one
ReadFails ==
  /\ task = "loop" /\ ~stream
  /\ CASE mode = "nonstop" -> Fail /\ UNCHANGED tries
       [] mode # "nonstop" /\ ~running ->
            task' = "over" /\ UNCHANGED <<running, outcome, tries>>
       [] OTHER -> \E t \in {tries, 0} :
            IF t = MaxReconnects THEN Fail /\ UNCHANGED tries
            ELSE /\ task' = "backoff"
                 /\ tries' = t + 1
                 /\ UNCHANGED <<running, outcome>>
  /\ UNCHANGED <<Quiet, warming, result, stream, drops, resend, told,
                 undelivered, cut>>

\* After the backoff, or at once in the warm-up.  A write pending on the broken
\* call has failed by then
Reopen ==
  /\ task = "backoff" \/ (task = "collect" /\ running /\ ~stream)
  /\ \A c \in Caller : call[c].at \notin Writes
  /\ IF running THEN task' = "resend" /\ stream' = TRUE /\ resend' = Player
     ELSE task' = "over" /\ UNCHANGED <<stream, resend>>
  /\ UNCHANGED <<Quiet, warming, running, outcome, result, drops, tries, told,
                 undelivered, cut>>

\* _resend_dead_player_state: the death effect that was never delivered
ResendOne(p) ==
  /\ task = "resend" /\ stream /\ p \in resend
  /\ resend' = resend \ {p}
  /\ told' = IF p \notin alive /\ ~MidSwap(p) /\ p \in undelivered
             THEN told \cup {p} ELSE told
  /\ UNCHANGED <<Quiet, task, warming, running, outcome, result, stream, drops,
                 tries, undelivered, cut>>

\* The reopened call broke too: its write raises out of the loop's handler; the
\* warm-up leaves it to the loop
ResendFails ==
  /\ task = "resend" /\ ~stream
  /\ IF warming THEN ToWarm /\ UNCHANGED <<running, outcome>>
                ELSE Fail /\ UNCHANGED warm
  /\ UNCHANGED <<mode, rosterVars, timeUp, call, forced, winner, honoured,
                 warming, result, streamVars>>

ResendOver ==
  /\ task = "resend" /\ stream /\ resend = {}
  /\ undelivered' = {}
  /\ IF warming THEN ToWarm ELSE task' = "loop" /\ UNCHANGED warm
  /\ UNCHANGED <<mode, rosterVars, timeUp, call, forced, warming, running,
                 verdictVars, stream, drops, tries, resend, told, cut>>

\* _hold_win_display
HoldOver ==
  /\ task = "hold"
  /\ task' = "over"
  /\ outcome' = Latched
  /\ UNCHANGED <<Quiet, warming, running, result, streamVars>>

Teardown ==
  /\ task = "over"
  /\ task' = "ending"
  /\ outcome' = Latched
  /\ UNCHANGED <<Quiet, warming, running, result, streamVars>>

\* _end_game_impl: Swapper honours the list it kept, the others look again
EndGame ==
  /\ task = "ending"
  /\ task' = "ended"
  /\ running' = FALSE
  /\ LET w == IF outcome = "forced" THEN Undecided ELSE winner IN
     \E who \in IF w = Undecided THEN {{}}
                ELSE IF mode = "swap" THEN {honoured}
                ELSE IF mode = "nonstop" THEN {{p} : p \in Fewest}
                ELSE {Honoured(w)} :
       result' = [outcome |-> outcome, winner |-> w, who |-> who]
  /\ UNCHANGED <<Quiet, warming, outcome, streamVars>>

ForceEnd ==
  /\ task \notin Done /\ ~forced
  /\ forced' = TRUE
  /\ running' = FALSE
  /\ UNCHANGED <<mode, rosterVars, timeUp, call, task, warm, warming, verdictVars,
                 streamVars>>

\* The zombie timer, or Nonstop's limit
TimeRunsOut ==
  /\ mode \in {"zombie", "nonstop"}
  /\ task \notin {"intro"} \cup Done
  /\ ~timeUp /\ timeUp' = TRUE
  /\ UNCHANGED <<mode, rosterVars, call, task, warm, warming, running, forced,
                 verdictVars, streamVars>>

StreamBreaks ==
  /\ stream /\ drops < MaxDrops[mode] /\ task \notin {"intro"} \cup Done
  /\ stream' = FALSE /\ drops' = drops + 1
  /\ UNCHANGED <<Quiet, task, warming, running, outcome, result, tries, resend,
                 told, undelivered, cut>>

-----------------------------------------------------------------------------
CallStep(c) ==
  \/ KillRefused(c) \/ KillLands(c) \/ HumanTurns(c) \/ SwapStarts(c)
  \/ EffectSent(c) \/ EffectFailed(c) \/ FlashSent(c) \/ FlashFailed(c)
  \/ SwapWakes(c) \/ ColourSent(c) \/ Beeped(c) \/ RespawnShown(c)

\* What the game task does without waiting for a player
TaskStep ==
  \/ IntroOver \/ LoopStarts \/ WarmOver \/ FrameStarts \/ ReadFails \/ Reopen
  \/ ResendFails \/ ResendOver \/ WinCheck \/ HoldOver \/ Teardown \/ EndGame
  \/ \E p \in Player : WarmDisconnect(p) \/ ResendOne(p)

PlayerStep(p) ==
  \/ RespawnDue(p) \/ FrameRespawn(p) \/ Revive(p) \/ AgentKill(p)
  \/ FrameKill(p) \/ FrameDisconnect(p) \/ WarmupSees(p)

Next ==
  \/ \E c \in Caller : CallStep(c)
  \/ TaskStep
  \/ \E p \in Player : PlayerStep(p)
  \/ CountdownStops \/ ForceEnd \/ TimeRunsOut \/ StreamBreaks

Spec == Init /\ [][Next]_vars

\* Frames keep coming while the call works, writes and sounds answer, and the
\* respawn tasks run.
FairSpec ==
  /\ Spec
  /\ WF_vars(TaskStep)
  /\ \A c \in Caller : WF_vars(CallStep(c))
  /\ \A p \in Player : WF_vars(RespawnDue(p))

-----------------------------------------------------------------------------
(* Properties *)

TypeOK ==
  /\ mode \in Modes
  /\ side \in [Player -> Side]
  /\ alive \subseteq Player /\ gone \subseteq Player /\ due \subseteq Player
  /\ ranks \in [Player -> Nat] /\ deaths \in [Player -> Nat]
  /\ lastDeath \in Player \cup {None}
  /\ timeUp \in BOOLEAN /\ warming \in BOOLEAN /\ running \in BOOLEAN
  /\ forced \in BOOLEAN /\ stream \in BOOLEAN
  /\ call \in [Caller -> [at : Stage, who : Player \cup {None}]]
  /\ task \in Task
  /\ warm \subseteq Player /\ resend \subseteq Player /\ told \subseteq Player
  /\ undelivered \subseteq Player /\ cut \subseteq Player
  /\ outcome \in {"none", "forced", "completed"}
  /\ winner \in Side \cup {Undecided, Nobody, TimeLimit}
  /\ honoured \subseteq Player
  /\ result \in {None} \cup
       [outcome : {"forced", "completed"},
        winner : Side \cup {Undecided, Nobody, TimeLimit}, who : SUBSET Player]
  /\ drops \in Nat /\ tries \in 0..MaxReconnects

\* However an agent's kill, a motion kill and a disconnect of one player
\* overlap, the elimination order counts the player once, and only when out.
CountedOnce ==
  \A p \in Player :
    /\ ranks[p] <= 1
    /\ ranks[p] = 1 => p \notin alive
    /\ Sided /\ p \notin alive => ranks[p] = 1

\* What game_ended reports is what the win check decided: no kill, revive,
\* respawn or force end between the decision and the end changes who won, and
\* a game force-ended before its decision has no winner.
VerdictHonoured ==
  result # None =>
    IF result.outcome = "forced"
    THEN winner \in {Undecided, TimeLimit} /\ result.who = {}
    ELSE /\ result.winner = winner /\ winner # Undecided
         /\ result.who \subseteq honoured
         /\ result.who = {} => honoured = {}

\* Swapper: a player who is neither alive nor out is in a swap some coroutine
\* carries on, unless a stream error cut that swap.
MidSwapOwned == \A p \in Player : MidSwap(p) => InCall(p) \/ p \in cut

\* Whoever fell was counted, and whoever is between two sides is carried to one.
RulesInv == TypeOK /\ CountedOnce /\ MidSwapOwned

\* A death whose effect is not on its way was delivered, or is owed to the next
\* stream; no reopening forgets one that fails beside it.
DeathTold ==
  \A p \in Player : ~InCall(p) /\ p \notin alive /\ ~MidSwap(p)
     => p \in told \cup undelivered \cup cut

\* The game as the promise of GameVerdict
Stopped == outcome = "forced" \/ (forced /\ winner = Undecided)
Promise == INSTANCE GameVerdict WITH
  Verdict <- Side \cup {Nobody, TimeLimit},
  NoWinner <- Undecided,
  Broken <- "broken",
  phase <- IF Stopped THEN "stopped"
           ELSE IF winner # Undecided THEN "decided" ELSE "open",
  verdict <- IF Stopped \/ winner = Undecided THEN None ELSE winner,
  report <- IF task = "ended" THEN result.winner
            ELSE IF task \in Done THEN "broken" ELSE None

\* However frames, disconnects, the agent, the clock, force ends and a breaking
\* stream interleave, the game is decided or stopped once, reports that, and a
\* decided or stopped game comes to its end.
KeepsPromise == Promise!FairVSpec

\* A zombie that is down has a respawn of its own pending while the game goes
\* on: a revive, a second death or a cancelled task never strands it.
DownZombieDue ==
  mode = "zombie" /\ running /\ winner = Undecided => Player \ alive \subseteq due
=============================================================================
