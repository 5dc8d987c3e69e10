-------------------------- MODULE ControllerLinks ---------------------------
(***************************************************************************)
(* The controller manager between controllers that come and go and the     *)
(* games that play with them (services/controller_manager): the 1 Hz       *)
(* discovery pass with its worker thread, the output store of the          *)
(* multiplexer backend with the LED batch thread, the rosters, alive       *)
(* filters and pending disconnects of the game streams, the colour a       *)
(* returning controller gets, and Identify.  On the other end of a stream  *)
(* is the coordinator's game: the disconnects it reads, the kills and the  *)
(* filters it sends, a stream that fails and is opened again.              *)
(*                                                                         *)
(* The manager is one asyncio loop: an action runs between two real        *)
(* suspensions.  Discovery and the LED batch run in threads, serialised    *)
(* with each other by _led_lock.                                           *)
(*                                                                         *)
(* A colour is the name of the stream whose game gave it, "lobby" or       *)
(* "off".  Rumble, shields and the frames of an effect are left out: a     *)
(* death effect is the "off" it ends with.  Pending disconnects are counts *)
(* per controller: their order decides nothing here.  A pass of discovery  *)
(* that fails, and its carried routes, are left out.                       *)
(***************************************************************************)
EXTENDS Integers, FiniteSets, Sequences

CONSTANTS
  Controller,
  Stream,      \* gameplay streams that send colours, each opened once
  MaxMoves,    \* bound: how often a link may come, go or fall silent
  MaxWire,     \* bound: commands under way on one stream
  None

ASSUME LinksAssumption ==
  /\ MaxMoves \in Nat /\ MaxWire \in Nat \ {0}
  /\ None \notin Stream \cup {"lobby", "off"}
  /\ {"lobby", "off"} \cap Stream = {}

VARIABLES
  link,       \* what the backend sees of a controller: "live", "silent" (no report), "gone"
  routed,     \* _serial_to_adapter
  want,       \* _led_colors
  held,       \* _unrouted_output
  tracked,    \* tracked_controllers
  silenced,   \* _silent_serials
  base,       \* base_colors
  pass,       \* the discovery pass: its step and the serials it still has to handle
  queue,      \* _gameplay_disconnects
  dropped,    \* _dropped_serials
  ident,      \* an identify of a controller
  phase,      \* a stream in the manager
  alive,      \* _game_stream_alive
  handed,     \* _handed_disconnects
  pending,    \* _pending_disconnects
  play,       \* a stream in the coordinator
  roster,     \* the players of the stream's game
  out,        \* its players that are out
  intro,      \* its frames are discarded, disconnects kept (_early_drain_disconnects)
  mail,       \* disconnects its game has not acted on
  asked,      \* the alive set the game sent last
  wire,       \* commands under way to the manager
  known,      \* history: controllers that registered once
  owed,       \* history: disconnects an open stream has yet to be handed
  refused,    \* history: out players whose PLAYER_DEATH found no controller
  slipped,    \* history: exempt, see OutStaysOut, GameColourForgotten, NoIdentifyInGame
  moves

backend == <<routed, want, held>>
manager == <<tracked, silenced, base, pass, queue, dropped>>
streams == <<phase, alive, handed, pending>>
game == <<play, roster, out, intro, mail, asked, wire>>
history == <<known, owed, refused, slipped>>
vars == <<link, routed, want, held, tracked, silenced, base, pass, queue, dropped,
          ident, phase, alive, handed, pending, play, roster, out, intro, mail, asked, wire,
          known, owed, refused, slipped, moves>>

Colour == Stream \cup {"lobby", "off"}
Lamp == Colour \cup {None}
Command ==
  [kind : {"config"}, lit : SUBSET Controller] \cup [kind : {"death"}, of : Controller]
    \cup [kind : {"filter"}, keep : SUBSET Controller]

TypeOK ==
  /\ link \in [Controller -> {"live", "silent", "gone"}]
  /\ routed \subseteq Controller /\ held \subseteq Controller
  /\ want \in [Controller -> Lamp]
  /\ tracked \subseteq Controller /\ silenced \subseteq Controller \ tracked
  /\ base \in [Controller -> Lamp]
  /\ pass \in [step : {"idle", "listed", "registering"}, todo : SUBSET Controller]
  /\ queue \in [Controller -> Nat] /\ dropped \subseteq Controller
  /\ ident \in [Controller -> {"none", "starting", "running"}]
  /\ phase \in [Stream -> {"new", "claiming", "open", "closed"}]
  /\ alive \in [Stream -> SUBSET Controller] /\ handed \in [Stream -> SUBSET Controller]
  /\ pending \in [Stream -> [Controller -> Nat]]
  /\ play \in [Stream -> {"none", "running", "failed", "ended"}]
  /\ roster \in [Stream -> SUBSET Controller]
  /\ out \in [Stream -> SUBSET Controller]
  /\ \A s \in Stream : out[s] \subseteq roster[s]
  /\ intro \subseteq Stream
  /\ mail \in [Stream -> SUBSET Controller] /\ asked \in [Stream -> SUBSET Controller]
  /\ wire \in [Stream -> Seq(Command)]
  /\ known \subseteq Controller
  /\ owed \in [Stream -> [Controller -> Nat]]
  /\ refused \in [Stream -> SUBSET Controller]
  /\ slipped \in [Controller -> SUBSET {"lit", "late", "claim"}]
  /\ moves \in 0 .. MaxMoves

Init ==
  /\ link \in [Controller -> {"live", "gone"}]
  /\ routed = {} /\ held = {}
  /\ want = [c \in Controller |-> None] /\ base = want
  /\ tracked = {} /\ silenced = {}
  /\ pass = [step |-> "idle", todo |-> {}]
  /\ queue = [c \in Controller |-> 0] /\ dropped = {}
  /\ ident = [c \in Controller |-> "none"]
  /\ phase = [s \in Stream |-> "new"] /\ play = [s \in Stream |-> "none"]
  /\ alive = [s \in Stream |-> {}] /\ handed = alive /\ roster = alive /\ out = alive
  /\ mail = alive /\ asked = alive /\ refused = alive
  /\ pending = [s \in Stream |-> queue] /\ owed = pending
  /\ intro = {}
  /\ wire = [s \in Stream |-> << >>]
  /\ known = {}
  /\ slipped = [c \in Controller |-> {}]
  /\ moves = 0

-----------------------------------------------------------------------------
(* What several actions share. *)

\* A colour for tracked controllers: kept by the backend, and held back from a controller
\* without a route until it registers.  The batch sends it.
Written(colour, kept) ==
  /\ want' = [c \in Controller |-> IF c \in DOMAIN colour THEN colour[c] ELSE kept[c]]
  /\ held' = held \cup (DOMAIN colour \ routed)

InGame(c) == \E s \in Stream : phase[s] = "open" /\ c \in roster[s]

\* The game of a stream goes on, over this stream or over one that has yet to be reopened
GoesOn(s) == play[s] \in {"running", "failed"}

\* The disconnects queued by discovery, once moved to the streams that are open
Collected == {c \in Controller : queue[c] > 0}
\* Mutant of Extended: only the disconnects of a stream's own players reach it
Filtered ==
  [s \in Stream |-> IF phase[s] = "open"
                    THEN [c \in Controller |->
                            pending[s][c] + (IF c \in alive[s] THEN queue[c] ELSE 0)]
                    ELSE pending[s]]

Extended ==
  [s \in Stream |-> IF phase[s] = "open"
                    THEN [c \in Controller |-> pending[s][c] + queue[c]]
                    ELSE pending[s]]
Emptied == [c \in Controller |-> 0]

-----------------------------------------------------------------------------
(* Controllers: they come, go, and fall silent with their link still up. *)

LinkMoves(c) ==
  /\ moves < MaxMoves
  /\ moves' = moves + 1
  /\ \E to \in {"live", "silent", "gone"} \ {link[c]} :
       /\ to = "silent" => link[c] = "live"
       /\ link' = [link EXCEPT ![c] = to]
  /\ UNCHANGED <<backend, manager, ident, streams, game, history>>

-----------------------------------------------------------------------------
(* One discovery pass.  The listing runs in a thread and swaps the routes;  *)
(* the loop acts on it only once the thread has answered.                   *)

PassLists ==
  /\ pass.step = "idle"
  /\ routed' = {c \in Controller : link[c] # "gone"}
  \* the cleanup keeps an output written while there was no route
  /\ want' = [c \in Controller |-> IF c \in routed' \cup held THEN want[c] ELSE None]
  /\ pass' = [step |-> "listed", todo |-> routed']
  /\ UNCHANGED <<link, held, tracked, silenced, base, queue, dropped, ident, streams,
                 game, history, moves>>

\* A colour of a game nobody plays any more stays behind with a controller dropped between
\* the release of its stream and the lobby's repaint.
LeftLit(c) == base[c] \in Stream /\ ~InGame(c)

DropOutput(mute) ==
  /\ want' = [c \in Controller |-> IF c \in mute THEN None ELSE want[c]]
  /\ held' = held \ mute

\* Gone from the list, or listed and silent for too long
PassDrops ==
  /\ pass.step = "listed"
  /\ \E mute \in SUBSET {c \in tracked \cap pass.todo : link[c] # "live"} :
       LET lost == (tracked \ pass.todo) \cup mute
       IN  /\ tracked' = tracked \ lost
           /\ silenced' = (silenced \cap pass.todo) \cup mute
           /\ DropOutput(mute)
           /\ queue' = [c \in Controller |-> queue[c] + (IF c \in lost THEN 1 ELSE 0)]
           /\ ident' = [c \in Controller |-> IF c \in lost THEN "none" ELSE ident[c]]
           /\ pass' = [step |-> "registering", todo |-> pass.todo \ tracked']
           /\ owed' = [s \in Stream |-> [c \in Controller |->
                         owed[s][c] + (IF phase[s] = "open" /\ c \in lost THEN 1 ELSE 0)]]
           /\ slipped' = [c \in Controller |->
                            IF c \notin lost THEN slipped[c]
                            ELSE (slipped[c] \ {"claim", "late"})
                                   \cup (IF LeftLit(c) THEN {"late"} ELSE {})]
  /\ UNCHANGED <<link, routed, base, dropped, streams, game, known, refused, moves>>

\* Mutant of OutOfGame: every player whose disconnect a game was handed
EverHanded(c) == \E s \in Stream : phase[s] = "open" /\ c \in roster[s] \cap handed[s]

\* Mutant of OutOfGame: the base colour decides alone
NeverOut(c) == FALSE

\* Eliminated by a game that was handed the disconnect: the out state, kept out of base
OutOfGame(c) ==
  \E s \in Stream : phase[s] = "open" /\ c \in roster[s] /\ c \in handed[s] \ alive[s]

ReconnectColor(c) == IF OutOfGame(c) THEN "off" ELSE base[c]

\* Tracked again, announced and lit by its owner without a suspension in between
Register(c) ==
  /\ tracked' = tracked \cup {c}
  /\ silenced' = silenced \ {c}
  /\ held' = held \ {c}
  /\ want' = [want EXCEPT ![c] = IF ReconnectColor(c) = None THEN @ ELSE ReconnectColor(c)]
  /\ known' = known \cup {c}
  \* the kill's effect found no controller, and the filter or the disconnect is still under way
  /\ slipped' = [slipped EXCEPT ![c] =
       IF \E s \in Stream : c \in refused[s] /\ ~(c \in handed[s] \ alive[s])
       THEN @ \cup {"lit"} ELSE @ \ {"lit"}]

\* A silenced one needs a new sample; a spawn without a first state leaves it untracked
PassRegisters(c) ==
  /\ pass.step = "registering" /\ c \in pass.todo
  /\ pass' = [pass EXCEPT !.todo = @ \ {c}]
  /\ \/ /\ link[c] = "live" \/ c \notin silenced
        /\ Register(c)
     \/ /\ link[c] # "live"
        /\ UNCHANGED <<tracked, silenced, held, want, known, slipped>>
  /\ UNCHANGED <<link, routed, base, queue, dropped, ident, streams, game, owed,
                 refused, moves>>

PassEnds ==
  /\ pass = [step |-> "registering", todo |-> {}]
  /\ pass' = [step |-> "idle", todo |-> {}]
  /\ UNCHANGED <<link, backend, tracked, silenced, base, queue, dropped, ident, streams, game,
                 history, moves>>

\* What the 20 Hz batch of the LED thread sends, on a change and as keep-alive
Sends(c) == c \in routed \ held /\ want[c] # None

-----------------------------------------------------------------------------
(* A game stream in the manager. *)

\* Mutant of Away: a new stream starts with nothing pending
NobodyAway(s) == {}

\* The disconnects of before belong to the streams open then; a player that dropped and is
\* not back is pending for the new one.
Away(s) == {c \in roster[s] : c \in (dropped \cup Collected) \ tracked}

Open(s) ==
  LET lit == Head(wire[s]).lit
      paint == [c \in roster[s] |-> IF c \in lit THEN s ELSE "off"]
  IN  /\ base' = [c \in Controller |-> IF c \in roster[s] THEN paint[c] ELSE base[c]]
      /\ Written([c \in roster[s] \cap tracked |-> paint[c]], want)
      /\ dropped' = (dropped \cup Collected) \ tracked
      /\ queue' = Emptied
      /\ pending' = [Extended EXCEPT ![s] = [c \in Controller |-> IF c \in Away(s) THEN 1 ELSE 0]]
      /\ phase' = [phase EXCEPT ![s] = "open"]
      /\ alive' = [alive EXCEPT ![s] = roster[s]]
      /\ wire' = [wire EXCEPT ![s] = Tail(@)]
      /\ owed' = [owed EXCEPT ![s] = [c \in Controller |->
                    IF c \in (roster[s] \cap known) \ tracked THEN 1 ELSE 0]]
      /\ UNCHANGED <<link, routed, tracked, silenced, pass, ident, handed, play, roster,
                     out, intro, mail, asked, known, refused, slipped, moves>>

\* Identifies of its players end before the game's colours are written; ending one suspends
Claimed(s) == {c \in roster[s] : ident[c] # "none"}

Claim(s) ==
  /\ ident' = [c \in Controller |-> IF c \in Claimed(s) THEN "none" ELSE ident[c]]
  /\ phase' = [phase EXCEPT ![s] = "claiming"]
  /\ slipped' = [c \in Controller |-> IF c \in Claimed(s) THEN slipped[c] \ {"claim"}
                                      ELSE slipped[c]]
  /\ UNCHANGED <<link, backend, manager, alive, handed, pending, game, known, owed,
                 refused, moves>>

Configures(s) ==
  /\ wire[s] # << >> /\ Head(wire[s]).kind = "config"
  /\ \/ /\ phase[s] = "new" /\ Claimed(s) # {}
        /\ Claim(s)
     \/ /\ phase[s] = "claiming" \/ (phase[s] = "new" /\ Claimed(s) = {})
        /\ Open(s)

\* PLAYER_DEATH marks the base colour off at once; one for an untracked player is refused
Dies(s) ==
  /\ phase[s] = "open" /\ wire[s] # << >> /\ Head(wire[s]).kind = "death"
  /\ wire' = [wire EXCEPT ![s] = Tail(@)]
  /\ LET c == Head(wire[s]).of IN
       \/ /\ c \in tracked
          /\ base' = [base EXCEPT ![c] = "off"]
          /\ Written([x \in {c} |-> "off"], want)
          /\ ident' = [ident EXCEPT ![c] = "none"]
          /\ slipped' = [slipped EXCEPT ![c] = @ \ {"claim"}]
          /\ UNCHANGED refused
       \/ /\ c \notin tracked
          /\ refused' = [refused EXCEPT ![s] = @ \cup {c}]
          /\ UNCHANGED <<base, want, held, ident, slipped>>
  /\ UNCHANGED <<link, routed, tracked, silenced, pass, queue, dropped, streams, play,
                 roster, out, intro, mail, asked, known, owed, moves>>

\* The game's alive set
Filters(s) ==
  /\ phase[s] = "open" /\ wire[s] # << >> /\ Head(wire[s]).kind = "filter"
  /\ alive' = [alive EXCEPT ![s] = Head(wire[s]).keep]
  /\ wire' = [wire EXCEPT ![s] = Tail(@)]
  /\ UNCHANGED <<link, backend, manager, ident, phase, handed, pending, play, roster, out,
                 intro, mail, asked, history, moves>>

\* A frame takes the stream's disconnects, also one nobody reads because the call broke and
\* the manager does not know yet.  During the intro the game keeps them, but for players the
\* same frame shows back.
Frame(s) ==
  /\ phase[s] = "open"
  /\ LET new == {c \in Controller : Extended[s][c] > 0}
         back == IF s \in intro THEN tracked \cap alive[s] ELSE {}
     IN  /\ dropped' = dropped \cup Collected
         /\ queue' = Emptied
         /\ pending' = [Extended EXCEPT ![s] = Emptied]
         /\ handed' = [handed EXCEPT ![s] = @ \cup new]
         /\ mail' = [mail EXCEPT ![s] =
              IF play[s] = "running" THEN (@ \cup new) \ back ELSE @]
         /\ owed' = [owed EXCEPT ![s] = [c \in Controller |-> @[c] - Extended[s][c]]]
  /\ UNCHANGED <<link, backend, tracked, silenced, base, pass, ident, phase, alive, play,
                 roster, out, intro, asked, wire, known, refused, slipped, moves>>

\* Mutant of Forgotten: the colours of its last alive players only
ForgottenAlive(s) ==
  {c \in alive[s] \ tracked : \A t \in Stream \ {s} : ~(phase[t] = "open" /\ c \in roster[t])}

\* The call is over and what the manager had received of it is applied: a player that is
\* not connected keeps no game colour, stored or held
Forgotten(s) ==
  {c \in roster[s] \ tracked : \A t \in Stream \ {s} : ~(phase[t] = "open" /\ c \in roster[t])}

Release(s) ==
  /\ play[s] \in {"failed", "ended"} /\ wire[s] = << >>
  /\ phase[s] \in {"new", "open"}
  /\ phase' = [phase EXCEPT ![s] = "closed"]
  /\ alive' = [alive EXCEPT ![s] = {}] /\ handed' = [handed EXCEPT ![s] = {}]
  /\ pending' = [pending EXCEPT ![s] = Emptied]
  /\ refused' = [refused EXCEPT ![s] = {}]
  /\ \/ /\ phase[s] = "open"
        /\ base' = [c \in Controller |-> IF c \in Forgotten(s) THEN None ELSE base[c]]
        /\ DropOutput(Forgotten(s))
     \/ phase[s] = "new" /\ UNCHANGED <<base, want, held>>
  /\ UNCHANGED <<link, routed, tracked, silenced, pass, queue, dropped, ident, game,
                 known, owed, slipped, moves>>

-----------------------------------------------------------------------------
(* The operator's Identify, and the lobby's colours. *)

\* Bound: the operator looks for one controller at a time
IdentifyAsked(c) ==
  /\ \A x \in Controller : ident[x] = "none"
  /\ c \in tracked /\ ~InGame(c)
  /\ ident' = [ident EXCEPT ![c] = "starting"]
  /\ UNCHANGED <<link, backend, manager, streams, game, history, moves>>

\* It looks for a game again once it has started
IdentifyStarts(c) ==
  /\ ident[c] = "starting"
  /\ \/ /\ InGame(c)
        /\ ident' = [ident EXCEPT ![c] = "none"]
        /\ UNCHANGED slipped
     \/ /\ ~InGame(c)
        /\ ident' = [ident EXCEPT ![c] = "running"]
        /\ slipped' = [slipped EXCEPT ![c] =
             IF \E s \in Stream : phase[s] = "claiming" /\ c \in roster[s]
             THEN @ \cup {"claim"} ELSE @]
  /\ UNCHANGED <<link, backend, manager, streams, game, known, owed, refused, moves>>

IdentifyEnds(c) ==
  /\ ident[c] = "running"
  /\ ident' = [ident EXCEPT ![c] = "none"]
  /\ slipped' = [slipped EXCEPT ![c] = @ \ {"claim"}]
  /\ UNCHANGED <<link, backend, manager, streams, game, known, owed, refused, moves>>

\* The menu repaints no controller that plays; a colour for an untracked one is refused
LobbyPaints(c) ==
  /\ c \in tracked
  /\ \A s \in Stream : GoesOn(s) => c \notin roster[s]
  /\ base' = [base EXCEPT ![c] = "lobby"]
  /\ Written([x \in {c} |-> "lobby"], want)
  /\ UNCHANGED <<link, routed, tracked, silenced, pass, queue, dropped, ident, streams,
                 game, history, moves>>

-----------------------------------------------------------------------------
(* The game at the other end of a stream. *)

Config(lit) == [kind |-> "config", lit |-> lit]
Death(c) == [kind |-> "death", of |-> c]
Filter(keep) == [kind |-> "filter", keep |-> keep]

\* Players of one game at a time; the streams of their last game are released by then
NewGame(s) ==
  /\ play[s] = "none"
  /\ \E players \in (SUBSET Controller) \ {{}} :
       /\ \A t \in Stream : GoesOn(t) \/ phase[t] # "closed" => players \cap roster[t] = {}
       /\ roster' = [roster EXCEPT ![s] = players]
       /\ asked' = [asked EXCEPT ![s] = players]
       /\ wire' = [wire EXCEPT ![s] = <<Config(players)>>]
  /\ play' = [play EXCEPT ![s] = "running"]
  /\ intro' = intro \cup {s}
  /\ UNCHANGED <<link, backend, manager, ident, streams, out, mail, history, moves>>

GameBegins(s) ==
  /\ play[s] = "running" /\ s \in intro
  /\ intro' = intro \ {s}
  /\ UNCHANGED <<link, backend, manager, ident, streams, play, roster, out, mail, asked, wire,
                 history, moves>>

CanSend(s) == play[s] = "running" /\ s \notin intro /\ Len(wire[s]) < MaxWire

Out(s, c) ==
  /\ out' = [out EXCEPT ![s] = @ \cup {c}]
  /\ wire' = [wire EXCEPT ![s] = Append(@, Death(c))]

\* A disconnect goes through the kill path once
GameHandles(s, c) ==
  /\ CanSend(s) /\ c \in mail[s]
  /\ mail' = [mail EXCEPT ![s] = @ \ {c}]
  /\ \/ c \in roster[s] \ out[s] /\ Out(s, c)
     \/ c \notin roster[s] \ out[s] /\ UNCHANGED <<out, wire>>
  /\ UNCHANGED <<link, backend, manager, ident, streams, play, roster, intro, asked, history,
                 moves>>

\* A death of any other cause
GameKills(s, c) ==
  /\ CanSend(s) /\ c \in roster[s] \ out[s]
  /\ Out(s, c)
  /\ UNCHANGED <<link, backend, manager, ident, streams, play, roster, intro, mail, asked,
                 history, moves>>

GameFilters(s) ==
  /\ CanSend(s) /\ asked[s] # roster[s] \ out[s]
  /\ asked' = [asked EXCEPT ![s] = roster[s] \ out[s]]
  /\ wire' = [wire EXCEPT ![s] = Append(@, Filter(roster[s] \ out[s]))]
  /\ UNCHANGED <<link, backend, manager, ident, streams, play, roster, out, intro, mail,
                 history, moves>>

GameEnds(s) ==
  /\ GoesOn(s)
  /\ play' = [play EXCEPT ![s] = "ended"]
  /\ mail' = [mail EXCEPT ![s] = {}]
  /\ intro' = intro \ {s}
  /\ UNCHANGED <<link, backend, manager, ident, streams, roster, out, asked, wire, history,
                 moves>>

\* The call breaks: what it had not delivered is lost in both directions.  A config that
\* waits for its claim was delivered.
StreamFails(s) ==
  /\ play[s] = "running"
  /\ play' = [play EXCEPT ![s] = "failed"]
  /\ \E n \in 0 .. Len(wire[s]) :
       /\ phase[s] = "claiming" => n > 0
       /\ wire' = [wire EXCEPT ![s] = SubSeq(@, 1, n)]
  /\ mail' \in {mail, [mail EXCEPT ![s] = {}]}
  /\ UNCHANGED <<link, backend, manager, ident, streams, roster, out, intro, asked, history,
                 moves>>

\* The same game goes on over a new call, opened a backoff later: by then the old call's
\* commands are applied.  A dead player's colour is off.
Reopen(s, t) ==
  /\ play[s] = "none" /\ play[t] = "failed" /\ wire[t] = << >>
  /\ play' = [play EXCEPT ![s] = "running", ![t] = "ended"]
  /\ roster' = [roster EXCEPT ![s] = roster[t]] /\ out' = [out EXCEPT ![s] = out[t]]
  /\ mail' = [mail EXCEPT ![s] = mail[t], ![t] = {}]
  /\ intro' = IF t \in intro THEN (intro \ {t}) \cup {s} ELSE intro
  /\ LET lit == roster[t] \ out[t]
     IN  /\ asked' = [asked EXCEPT ![s] = lit]
         /\ wire' = [wire EXCEPT ![s] =
              IF out[t] = {} THEN <<Config(lit)>> ELSE <<Config(lit), Filter(lit)>>]
  /\ UNCHANGED <<link, backend, manager, ident, streams, history, moves>>

-----------------------------------------------------------------------------
Discovery == PassLists \/ PassDrops \/ PassEnds \/ \E c \in Controller : PassRegisters(c)

Applies(s) == Configures(s) \/ Dies(s) \/ Filters(s)

Next ==
  \/ Discovery
  \/ \E c \in Controller :
       \/ LinkMoves(c) \/ LobbyPaints(c)
       \/ IdentifyAsked(c) \/ IdentifyStarts(c) \/ IdentifyEnds(c)
       \/ \E s \in Stream : GameHandles(s, c) \/ GameKills(s, c)
  \/ \E s \in Stream :
       \/ Applies(s) \/ Frame(s) \/ Release(s)
       \/ NewGame(s) \/ GameBegins(s) \/ GameFilters(s) \/ GameEnds(s) \/ StreamFails(s)
       \/ \E t \in Stream : Reopen(s, t)

Spec == Init /\ [][Next]_vars

-----------------------------------------------------------------------------
(* Properties. *)

Quiet(s) == phase[s] = "open" /\ play[s] = "running" /\ wire[s] = << >>

\* UC-002 BR-004: a game stream is handed every disconnect that happened while it was open
\* exactly once, the earlier ones only of players that are not back, and none of another
\* stream's: what waits for it is what it is still owed, whichever stream's frame emptied
\* the queue.
HandedOnce ==
  \A s \in Stream : phase[s] = "open" =>
    \A c \in Controller : pending[s][c] + queue[c] = owed[s][c]

\* UC-020 A2: a player that is away is out of its game, or its disconnect is still on the way
\* there: lost to no other stream, no failed call and no forgiving intro.
AwayIsOut ==
  \A s \in Stream : phase[s] = "open" /\ play[s] = "running" =>
    \A c \in (roster[s] \cap known) \ tracked :
      c \in out[s] \cup mail[s] \/ pending[s][c] + queue[c] > 0

\* UC-002 BR-008: a player that is out does not get its game colour back by reconnecting,
\* however death, filter, disconnect, return and a reopened stream are ordered.  Exempt: one
\* whose death effect found it away and that registers before the filter or the disconnect
\* has got through.
OutStaysOut ==
  \A s \in Stream : Quiet(s) /\ asked[s] = roster[s] \ out[s] =>
    \A c \in out[s] \cap tracked : "lit" \notin slipped[c] => want[c] \notin Stream

\* UC-002 BR-008, other way round: a connected player its game counts as alive shows that
\* game's colour, also after a disconnect the game forgave in its intro.
LivePlayerLit ==
  \A s \in Stream : Quiet(s) =>
    \A c \in (roster[s] \ out[s]) \cap tracked \cap routed : want[c] = s

\* UC-002 BR-008: a controller that is away when its game's streams are closed has no game
\* colour left, neither as base colour nor as an output waiting for its return.  Exempt: one
\* that leaves between that close and the lobby's repaint.
GameColourForgotten ==
  \A c \in Controller \ tracked :
    ~InGame(c) /\ "late" \notin slipped[c] => base[c] \notin Stream /\ want[c] \notin Stream

\* UC-004 BR-003: no identify paints over a player of an open game stream.  Exempt: one that
\* got through while the game's claim waited for another identify to end.
NoIdentifyInGame ==
  \A c \in Controller : InGame(c) /\ "claim" \notin slipped[c] => ident[c] # "running"

\* UC-002 BR-008: nothing is sent to a controller before it has registered (again), whatever
\* was written for it while it had no route.
NothingSentWhileAway == \A c \in Controller : Sends(c) => c \in tracked

-----------------------------------------------------------------------------
(* What the properties rest on. *)

\* Whoever registered once and is away is queued as dropped, or was.
KnownInv == tracked \subseteq known /\ known \ tracked = (dropped \cup Collected) \ tracked

\* Between two passes a tracked controller has its route, and no output is kept for one that
\* has neither a route nor one to wait for.
RouteInv ==
  /\ pass.step = "listed" => pass.todo = routed
  /\ pass.todo \subseteq routed
  /\ pass.step # "listed" => tracked \subseteq routed
  /\ \A c \in Controller : want[c] # None => c \in routed \cup held

\* Only an identify that slipped into a claim runs on a player of a game about to open.
ClaimInv ==
  \A s \in Stream : phase[s] = "claiming" =>
    \A c \in roster[s] : ident[c] = "running" => "claim" \in slipped[c]

\* A game colour in the output of a tracked controller is its base colour, and an output
\* that waits for a return has a base colour to be replaced by.
ColourInv ==
  /\ \A c \in Controller : want[c] \in Stream => base[c] # None
  /\ \A c \in tracked : want[c] \in Stream => base[c] = want[c]

\* A stream in the manager and in the coordinator.
StreamInv ==
  \A s \in Stream :
    /\ play[s] = "none" => phase[s] = "new" /\ wire[s] = << >> /\ roster[s] = {}
    /\ phase[s] = "closed" => play[s] \in {"failed", "ended"} /\ wire[s] = << >>
    /\ phase[s] # "open" => refused[s] = {}

Present(s) == GoesOn(s) \/ phase[s] # "closed"

\* Two streams that are not through with a player belong to one game, and the earlier one
\* has nothing under way any more.
SharedInv ==
  \A s, t \in Stream :
    s # t /\ GoesOn(s) /\ Present(t) /\ roster[s] \cap roster[t] # {} =>
      play[t] = "ended" /\ wire[t] = << >> /\ roster[t] = roster[s] /\ out[t] \subseteq out[s]

DeathSent(s, c) == \E i \in 1 .. Len(wire[s]) : wire[s][i] = Death(c)

\* Deaths under way are of players that are out; no alive set under way or in force leaves
\* out one that is not; a stream's config comes first and lights whoever is in, and no one
\* that is out but those whose death follows.
WireInv ==
  \A s \in Stream :
    /\ \A c \in Controller : DeathSent(s, c) => c \in out[s]
    /\ \A i \in 1 .. Len(wire[s]) :
         wire[s][i].kind = "filter" => roster[s] \ out[s] \subseteq wire[s][i].keep
    /\ phase[s] = "open" => roster[s] \ out[s] \subseteq alive[s]
    /\ phase[s] \in {"new", "claiming"} /\ play[s] = "running" =>
         /\ wire[s] # << >> /\ Head(wire[s]).kind = "config"
         /\ roster[s] \ out[s] \subseteq Head(wire[s]).lit
         /\ \A c \in out[s] \cap Head(wire[s]).lit : DeathSent(s, c)

\* A player that is not out has its game's colour as base colour, and shows it if it can.
LitInv ==
  \A s \in Stream : phase[s] = "open" /\ play[s] = "running" =>
    \A c \in roster[s] \ out[s] :
      base[c] = s /\ (c \in tracked \cap routed => want[c] = s)

\* One that is out, as the manager knows, is dark in base colour, or its death found it away
\* and its return has to tell.
DarkInv ==
  \A s \in Stream : phase[s] = "open" /\ play[s] = "running" =>
    \A c \in out[s] : ~DeathSent(s, c) =>
      /\ c \notin refused[s] => base[c] = "off"
      /\ c \in tracked /\ (c \in refused[s] => "lit" \notin slipped[c]) => want[c] \notin Stream

\* A controller that is away is out of what it played, and out of reach; one that plays is
\* left to its game and shows what it is in it.
LinksInv ==
  /\ TypeOK /\ KnownInv /\ AwayIsOut
  /\ RouteInv /\ NothingSentWhileAway
  /\ ClaimInv /\ NoIdentifyInGame /\ ColourInv
  /\ StreamInv /\ SharedInv /\ WireInv /\ LitInv /\ DarkInv
=============================================================================
