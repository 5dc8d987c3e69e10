# JoustMania: TLA+ models, model checks and proofs

JoustMania runs party games with motion controllers.  It is a set of services: a
*controller manager* (controllers in, LEDs and rumble out), a *menu* (the lobby), a *game
coordinator* (the games), a *flag service* (every setting and live parameter), an *agent*
that experiments with those parameters, and around them a dashboard, an operator pad, audio,
a proxy and device daemons.  This directory holds TLA+ modules of the parts whose
correctness depends on the order of steps of several actors, the TLC configurations that
check them, and theorems about them that TLAPS checks.  `PROJECT.json` lists components,
runs, the source lines of every definition, the hazards and the theorems.

    tlc -workers 2 -config Menu_lobby.cfg MCMenuLifecycle.tla    # check a model
    tlapm MenuLifecycle_proofs.tla                               # check proofs

## Contents

| module | models | proofs |
|---|---|---|
| `GameSessions` | the coordinator's session registry, starts, preemption, force ends, game threads | `GameSessions_proofs` |
| `GameVerdict`, `GameRules` | what a game promises; the kill path, the modes' win checks and the gameplay stream that keep it | `GameRules_proofs` |
| `InterventionEvents` | one-shot events from the flag service's lists to a game's loop | `InterventionEvents_proofs` |
| `ScopeRegistry` | the flag service's registry of game scopes | `FlagService_proofs` |
| `FlagLifecycle` (extends `ScopeRegistry`) | the coordinators' client that keeps that registry in step, HTTP calls, crashes and restarts on both sides | `FlagService_proofs` |
| `AdminSettings` | the flag service's admin settings and its state file | `FlagService_proofs` |
| `MenuLifecycle` | the menu's lobby, every way to start a game, the lifecycle task, reset_menu | `MenuLifecycle_proofs` |
| `LobbyControllers` | the controllers in that lobby: states, lamps, the admin session, idle mode | `LobbyControllers_proofs` |
| `ControllerLinks` | the controller manager between controllers that come and go and the games that play with them | `ControllerLinks_proofs` |
| `Experiments` | the agent's experiments: registry, journals, targeting branches, promotion | `Experiments_proofs` |

`MC*` modules give the constants their values for TLC.  Definitions whose comment says
*Fault* or *Mutant* are not part of a specification: they are plausible bugs of the
definition that follows them, kept to show that each property can tell.

## The system: components, state, operations, interactions

**Coordinator: session registry** (`game_coordinator/servicer.py`, `game_session.py`).
State: the registered sessions, the primary slot, per session its game state, running and
force-ending flags, current game, thread and end task.  Operations: StartGame and
StreamGameEvents with a config (admission with caps, sweep of ended sessions, preemption of
shadow games by a real start), ForceEndGame, the agent's end_game, and what the game thread
does to its session.  Interactions: the menu starts *real* games, the agent *shadow* games;
the game's event bus calls back into the session state; ends are queued for the flag
service.  Hard: an asyncio loop and one thread per game share the state; a force end lands
between any two steps; joins time out at 2 s; four paths end a session.  Correct when: the
primary slot is the one registered real session, real games exclude each other, no game
plays on behind a session that was ended, every end is reported exactly once, a real start
gets an answer.

**Coordinator: flag-service lifecycle client** (`flag_service_client.py`).  State: a queue
of ends, registrations under way, the wish for a reconcile, the last boot epoch seen.
Operations: register (waited for 200 ms), end, reconcile every 15 s or when wanted, epoch
check; one worker task.  Interactions: PUT/DELETE/PUT-all to the flag service from threads
with a 500 ms time-out.  Hard: a request given up by its caller may be served later or
never; both sides restart; answers arrive out of order.  Correct when: a live game's scope
is there or on its way back, an ended game's scope is gone or its removal is under way, and
a start never waits for a silent service.

**Flag service: game scopes** (`flag-service/state/games.go`).  State: the holder, age and
values of each game; the boot epoch.  Operations: RegisterGame, EndGame, Reconcile,
ExpireGames, all under one mutex.  Hard: the cap against whole-set replacement, several
coordinator instances.  Correct when: the cap holds and a game is never handed to another
instance.

**Flag service: admin settings** (`state/write.go`, `persist.go`, `state.go`).  State: admin
values and overlays in memory, the persisted mark, the state file, what was answered.
Operations: PUT and DELETE with and without `persist`, overlay expiry, start-up load, save
by temporary file and rename.  Hard: a save that fails after memory changed, a death inside
a save, damaged, unreadable or newer files, kill switches that apply even when they cannot
be saved.  Correct when: memory, file, marks and answers agree.

**Flag service: event lists, snapshots** (`state/write.go`, `games.go`, `subscription.go`).
State: per game and one-shot flag a list with a sequence number, the allow-list, epoch and
version of the whole state.  Operations: append, clear, keep the last K, drop with the
scope, render to every sync stream.  Hard: a reader sees only the newest snapshot, two
streams of different selectors are behind by different amounts, a restart starts the numbers
again.  Correct when: whoever reads by (epoch, seq) applies each event once, in order, and
none that the allow-list forbade.

**Flag service: other scopes, HTTP API, registry, baseline.**  State: values by scope and
writer.  Hard: precedence of layers, expiry.  Only the game routes (in `FlagLifecycle`) and
the streams are modelled.

**Coordinator: interventions** (`interventions.py`, `game_loop_dispatch.py`).  State: a
bucket (epoch, seq) per session, the pass under way, `_eval_dirty`, the deferral recheck,
per game the chain of effects on its loop.  Operations: a flag change schedules an
evaluation; a pass walks the live sessions, reads lists, checks and dispatches to the game's
loop with a 5 s limit.  Hard: a pass suspends on every effect while games end and flags
change; an effect given up may still be queued; the allow-list comes on another stream.
Correct when: every event of a live game is handled once and recorded as what happened, and
the kill switch holds.

**Coordinator: game loop and modes** (`games/base.py`, `ffa.py`, `teams_base.py`,
`random_teams.py`, `traitor.py`, `werewolf.py`, `swapper.py`, `zombie.py`,
`nonstop_joust.py`).  State: alive players, sides, elimination order, respawns, the latched
outcome, the gameplay stream with its disconnects and reconnects.  Operations: a frame with
kills, an agent's kill, revive or respawn, the clock, force end, a win check, a stream that
breaks and is opened again.  Hard: a kill awaits its sound and its writes between its gate
and its bookkeeping; several coroutines kill; a broken stream loses what was written to it.
Correct when: a player's death counts once and is told to the controller, and the game
reports exactly what it decided.

**Menu: lobby and game lifecycle** (`menu/servicer.py`, `game_lifecycle.py`,
`controller_events.py`, `server.py`).  State: MenuState, the idle and button monitors, the
ready latch, the one lifecycle task, flags for a deferred StartMenu and for a restore in
progress, the lifecycle generation.  Operations: StartMenu, StopMenu, boot entry, five ways
to start a game (ready players, trigger, web, the admin's hold, the operator pad),
reset_menu, and the lifecycle task: delay, roster check, preparation, the game's event
stream, the restore of the lobby.  Interactions: the coordinator's event stream and
GetGameState, audio, controller manager; gRPC cancels a handler whose caller goes away.
Hard: one asyncio loop, but almost every step awaits, and state read before an await is
used after it.  Correct when: one lifecycle at a time, the lobby is quiet in a game and
whole after it, GAME_STARTING always ends, the operator's last StartMenu or StopMenu counts.

**Menu: controllers in the lobby** (`state_manager.py`, `handlers/`, `idle_monitor.py`,
`controller_events.py`).  State: per controller CONNECTED, READY, ADMIN or IDLE and its base
colour, one admin session with a timeout and a held trigger, the ready latch, idle mode with
its sentinels.  Operations: buttons by state, combos, force start, timeouts, connects and
disconnects, a stream that reconnects, the restores of `MenuLifecycle`.  Hard: sessions are
taken over while a task of the earlier owner sleeps; idle mode is a flag beside the states.
Correct when: a lamp shows its state, a hold starts a game only for the session it was
pressed in, the lobby wakes when touched.

**Controller manager** (`discovery_loop.py`, `servicer.py`, `feedback_manager.py`,
`multiplexer/`).  State: tracked and silent controllers, routes, base colours, output kept
for absent ones, per gameplay stream its alive filter and pending disconnects, a running
identify.  Operations: the 1 Hz discovery pass with its thread, game streams that open,
claim, filter, break, are reopened and released, identify.  Hard: a loop and a worker thread;
one queue of disconnects for all streams; a returning controller's colour depends on what
has been handed to whom.  Correct when: every game hears of every disconnect once, whoever
is out stays dark, whoever plays is lit.

**Agent: experiments** (`experiment/registry.go`, `journal/`, `experiment_loop.go`).  State:
the entries, one append-only journal each, the targeting branch on the flag service, the
loop's gates, `promotionInFlight`, held later promotions.  Operations: declare, start,
re-assert, conclude, promote, tear down, AbortAll, restore after a crash.  Hard: each write
to the flag service is outside the lock; appends fail or tear; a promotion cannot be undone.
Correct when: one live experiment per flag, no branch without an owner, one promotion, a
truthful journal, everything ended when it must be.

**Coordinator: event bus, shields; menu: publisher; rust-hid, python_hid, pairing daemon,
operator pad, audio, connect proxy, the agent's decisions, games and promoter, dashboard,
shared libraries, deployment and generated code**: see *Not modelled*.

## GameSessions

Actors are start requests (`Real`, `Shadow`): a session is named by the request that may
create it.  What the servicer's loop does between two awaits is one action; each access of
a game thread to shared state (a lock section, a publish) is one action.

| code | action or definition |
|---|---|
| `_admit_session_locked`, the sweep | `Admit`, `TurnAway`, `Swept` |
| the passes of `_preempt_shadows`, `_end_session_once` | `BeginPass`, `NextInPass`, `PassDone`, `ScheduleEnd` |
| registration returned, thread started; failure or cancel | `FinishStart`, `AbortStart`, `CancelStart` |
| ForceEndGame, `force_end` and its join | `RequestEnd`, `EndBegins`, `EndRefused`, `EndWaited` |
| retiring, the report of an end | `Retire`, `QueueEnd` |
| the game thread from connect to its `finally` and hook | `Connected` ... `Exit`, `OnGameEnded` |
| the bus's state sync | `SyncTarget`, `Synced`; `misrouted` records that it hit another session |

Abstracted: the end queue is a count per game; an orderly shutdown, metrics and the
subscriber side of StreamGameEvents are left out; a raised error and the `finally` that
follows it end the session in one step; a preemption pass takes its shadows in any order;
`game.force_end` does not raise.

## GameVerdict and GameRules

`GameVerdict` is what a game promises whoever started it: decided at most once or stopped at
most once, never both, reported as that, and then over.  `GameRules` is one game of one of
five kinds of mode; `Promise` is its refinement mapping and `KeepsPromise`, the whole
`FairVSpec` with its fairness, is a property of the run.

| code | action or definition |
|---|---|
| `_kill_player` and the modes' overrides, from gate to bookkeeping | the actions of `CallStep`, one for each await of a caller's kill |
| `_game_loop`, frames, disconnects, intro, warm-up | `TaskStep` and what it is made of |
| reopening a broken stream, backoff, resend of deaths | the tasks "backoff", "resend"; `StreamBreaks` |
| respawns, revives | `PlayerStep` |
| `force_end`, the clocks of Zombie and Nonstop | `ForceEnd`, `TimeRunsOut` |
| `_check_win_condition`, `_latched_outcome`, game_ended | the latch, `winner`, `honoured`, `result` |

"sides" stands for FFA, Teams, Random Teams and Traitor, whose win checks are one rule over
sides, teams or secret teams.  Abstracted: movement, grace and shields (any living player may be
hit in any frame); a stream ends only by an error; writes pending on a broken call fail
before its backoff ends; a frame carries at least one controller; FFA's own outcome text is
"completed"; a death during the intro has no stream to be told on.

## ScopeRegistry and FlagLifecycle

`ScopeRegistry` has one action per operation, since each holds the state's mutex.
`FlagLifecycle` extends it: `Admit`, `Register`, `RegisterTimeout`, `RegisterDone`,
`AbortStart`, `GameOver` and `End` are the servicer's side of a game; `StartReconcile`,
`ReconcileDone`, `TakeEnd`, `RegistrationAwaited`, `EndDone`, `CheckEpoch` and
`EpochChecked` are the passes of the worker's `_run`; `Serve*` are the service's handling of
one request.  `GiveUp` is a request's time-out: its answer is lost, and the service has
served it, never gets it, or serves it later (`late`, `ServeLate`).  `Crash`, `Boot` and
`RestartService` are the two processes' restarts.

Abstracted: a scope's age is whether the maximum age has passed, and it passes only while
the coordinator is off (a running one reconciles every 15 s against an hour); serials and
values go with the scope; the order of the ends in the queue; an orderly stop of the
coordinator behaves as a crash after its queue was served.

## AdminSettings

One action per request, each under the mutex: `Put` (`PutPersisted`, `PutKillSwitch`,
`RefusePut`), `PutOverlay`, `Clear` (`ClearPersisted`, `ClearKillSwitch`, `RefuseClear`,
`ClearAbsent`), `DropOverlays`; `Start` with `LoadAdmin` or `StartWithoutFile`;
`Saves`/`SaveFails` are `saveAdminLocked`.  `DieInPut` and `DieInClear` are a death inside a
save, before (`Stop`) or after the rename.  `Builds` are releases that accept different
values.  `told` records what answers claimed.

Abstracted: an overlay is its presence (so its writer and expiry time are gone); request
checks and other scopes; a file is damaged or replaced only while the service is down;
temporary files and the pruning of corrupt copies.

## InterventionEvents

| code | action or definition |
|---|---|
| `AppendEvent`, clear, keep the last K, scope dropped, restart | `AppendEvent`, `ClearList`, `DropScope`, `RestartService`, `SetAllowed` |
| a sync stream and the provider's change handler | `Deliver` |
| the session's life | `Built`, `LoopStops`, `Retire` |
| `GameLoopDispatcher.run`, `try_start`, `try_skip`, the 5 s limit | `Dispatch`, `EffectTurn`, `EffectEnds`, `GiveUp` |
| `evaluate_all`, `_eval_dirty`, `_deferral_recheck` | `EvaluateAll`, `PassStarts`, `NextGame`, `PassOver`, `RecheckFires` |
| `_evaluate_event_list`, `_allow_list_lags` | `ReadEvents`, `Unread`, `Fresh`, `Lags`, `Covers`; `Block` and `Dispatch` for each event |

Abstracted: one one-shot flag of one type; a stream delivers the newest snapshot at once; the
mode, battery and rate checks may block anything; the end of a loop and `current_game = None`
are one step; the allow-list seen is forgotten at the end of a pass instead of the next
beginning.  A retired session loses its dispatcher with its bucket (`forgotten`), so that a
later effect of it begins a chain of its own.  `fate` is what was recorded: a handler that
raises, or says that it did not apply, is "refused" although its effect has started.
`haunted` and `strayed` name two rare cases that properties leave out
(observations below).

## MenuLifecycle

The menu is one asyncio loop: an action runs from one suspension to the next.  Lifecycle
tasks are slots of `Task`.

| code | action or definition |
|---|---|
| `_start_game` / `_reject_start_while_active` | `Accept` / `Reject` |
| ready players, trigger and web, admin hold, pad | `AllReady`+`ReadyStart`, `WebStart`, `ForceStart`, `PadHold`+`PadForceStart`+`PadRosterDone` |
| `_run_game_lifecycle`, its steps | `Begin`, `DropReadyStart`, `RosterTooShort`, `RosterAborted`, `Prepare`, `MusicStopped`, `Prepared` |
| the event stream | `StartConfirmed`, `StreamOver` |
| `_restart_lobby` | `BeginRestore`, `Reregister`, `Restored` |
| the `finally` that settles GAME_STARTING | `Settled`, `TaskCancelled` |
| StartMenu, `enter_lobby`, `start_menu_during_game`, boot, StopMenu | `StartMenu`, `EnterLobby`, `LobbyEntered`, `DeferStartMenu`, `Boot`, `StopMenu` |
| `_handle_reset_menu` | `ResetMenu`, `LookupInactive`, `ResetKept`, `CancelLifecycle`, `RestoreByReset`, `ResetDone` |
| callers that go away | `StartMenuHungUp`, `ResetHungUp` |

`lifecycle_generation` is 2 x starts - live, so a pad's snapshot of it is modelled by what
it decides: `pad` turns stale when the current task is replaced or ends.  `GenerationMoves`
says when the code's number changes, from the tasks alone, and `PadStartsHeldLobby` compares
the two at every step.  `accidents` names rare races that happened and still matter, so that
properties can leave them out by name: a caller hung up, a lobby entry was overtaken by a
stop or a start, a stop was undone, two lifecycles met, and a reset's cancel arrived inside
the button monitor's `stop()`, which swallows it ("cancelLost").  `ResetRecovers` asks of
every other cancel that the reset comes to its end although the game hangs; a cancel that is
never sent leaves it waiting, and violates it.

Abstracted: a roster is long enough or not; a reconnect of the stream that works changes
nothing; publishing never suspends, LEDs and controller resets neither suspend nor raise;
`enter_lobby`'s awaits are one; the voice line and the controller reset of an aborted start
are one; a cancel takes effect at the task's next step; a pad without a generation is
`ForceStart`; a trigger's ready start is a ready start without delay.

## LobbyControllers

The same loop as `MenuLifecycle`, whose stages appear here with one task at most.  The
handlers are `ReadyUp`, `FeedbackOver`, `TriggerAgain`, `Unready`, `SelectMode`, `OptionOver`,
`WakeUp`; the admin session is `Combo`, `FaceReleased`, `AdminLeaves`, `AdminOption`, `AdminMode`,
`TimeoutExit`; the force start is `HoldTrigger`, `ReleaseTrigger`, `HoldFires`, `RosterBack`,
`PauseOver`; idle mode is `EnterIdle`, `Pulse`, `RotateSentinels`; the stream is `Connect`,
`Disconnect`, `LoseDisconnect`, `StreamBreaks`, `Reconnect`; `Prepare` to `StopMenu` are what
lifecycles do to controllers.  `ReadyUp` and `MenuLifecycle`'s `AllReady` are the two sides
of one event.  Abstracted: a lamp is its base colour with the mode's colour as dim or
bright; one hold task per controller; one controller at a time whose DISCONNECT was lost;
the debouncer may or may not let an option suspend; the idle timeout may come any time; a
CONNECT that a full queue dropped is not modelled.

## ControllerLinks

| code | action or definition |
|---|---|
| the discovery pass and its thread, the LED batch | `Discovery` (its steps by `pass`), `Sends` |
| `_handle_disconnect`, `_gameplay_disconnects`, `_handed_disconnects` | the steps of `pass` for gone controllers, `Frame` |
| StreamGameplay: config, filter, kill, frames, release | `Applies`, `Frame`, `Release` |
| the game at the other end | `NewGame`, `GameBegins`, `GameHandles`, `GameKills`, `GameFilters`, `GameEnds`, `StreamFails`, `Reopen` |
| `_reconnect_color`, `_unrouted_output` | the registering step of `pass`, `want`, `held` |
| Identify | `IdentifyAsked`, `IdentifyStarts`, `IdentifyEnds` |

Abstracted: a colour is the stream whose game gave it; a death effect is the "off" it ends
with; effect frames, rumble and shields; failed discovery passes and carried routes; pending
disconnects are counts; one identify at a time; a stream that fails loses what was under
way; a stream is reopened only after the old call's commands were applied; players come from
released streams; modes without respawns; the lobby paints no controller of a running game.
`slipped` names three races the properties leave out (observations below).

## Experiments

A locked section of `Registry.mu` is one step; the targeting write, the strip and the
promoter are steps of their own.  `job` says where each worker is: the loop, the declarer,
the keeper that writes the arm again, and the game end that concludes each experiment.

| code | action or definition |
|---|---|
| Declare, Start, Abort of a failed start | `DeclarerStep` |
| Reassert | `KeeperStep` |
| the loop: gates, first tick's Rehydrate, AbortAll, shutdown | `LoopStep` |
| conclude, promote, RecordPromotion and flushLaterPromotionsLocked | `Conclude`, `CloserStep`, `RecordPromotion` |
| teardown, stripLateTargetingWrite | `Teardown`, `Land`, `Restrip` |
| a stop, a crash, the gates, a restart of the flag service | `Stop`, `Crash`, `Flip`, `FlagServiceRestarts` |

A line of a journal is written, refused or torn (`How`); a torn line swallows the next.
Abstracted: games, arms and verdicts; spans; progress snapshots; pattern experiments; an
fsync that fails counts as refused or torn; a declarer's look at the flags under test
(`Busy`) and its Declare are two steps under the declarers' mutex (`Choose`, `Declare`),
which Rehydrate does not take: `beside` holds the pairs a restore brought side by side, live
already, also restored or about to be declared, and `OneLivePerFlag` leaves out those alone;
the promoter's own journaling is assumed to work; restored reverts; the epoch comparison of
a re-assert is whether the branch is there; a start whose write erred lands it before the
error or never.

## Runs

| run | constants | distinct states | shows |
|---|---|---|---|
| `sessions_safe` | 2 real, 2 shadows, three of them start, caps 2 | 2.33 million | registry, slot and reports are consistent; real games exclude each other unless an event was misrouted; no shadow beside a real game under policy block |
| `sessions_live` | 1 real, 1 shadow | 14 thousand | real starts are answered, ends are reported |
| `sessions_overlap` | 3 real | (violation) | the finding below |
| `flags_live` | 1 game, 2 boots, 2 faults | 234 thousand | an ended game's scope has its removal under way, a live game gets its scope back, convergence, starts never blocked |
| `admin_kept` | 3 flags (1 kill switch), 2 values, 2 releases | 86 thousand | memory, file, marks and answers agree |
| `menu_lobby` | 2 task slots, 1 reset_menu, 1 entry | 492 thousand | the lobby is whole, the last word counts, starts settle, resets recover |
| `rules` | 3 players, 5 kinds of mode, 2 deals | 1.28 million | deaths count once and are told, the verdict is honoured, every game keeps the promise of `GameVerdict` |
| `events_once` | 2 games, 3 events, lists of 2, 2 epochs | 2.93 million | events start once, in order, never against the allow-list, and none is skipped |
| `events_live` | 1 game, 1 event, 2 epochs | 754 thousand | an event of a live game is handled in the end |
| `lobby` | 2 controllers, 1 sentinel | 3.80 million | lamps, idle mode, the admin's hold |
| `links` | 2 controllers, 2 streams, 4 moves | 1.76 million | disconnects are handed once, whoever is out stays dark, whoever plays is lit |
| `experiments` | 2 experiments of one flag, two troubles | 668 thousand | branches have owners, one promotion, clean stops, closed gates end everything |

Why the bounds are enough for what they are for.  *Sessions*: the conflicts are between a
primary and its successor (two real), and between a preemption pass and a shadow admitted
behind it (two shadows); `ThreeStarts` leaves one of the four out.  *Flags*: races are
between a game's registration, its end and one worker's reconcile; two faults let a request
be both lost and overtaken by a restart, and epochs matter only by being different; the cap
and several instances are covered by the theorems about `ScopeRegistry`.  *Admin*: a save
of one flag writes all others, so a second flag and the kill switch are needed, and a second
release to drop entries.  *Menu*: a second slot for the task that must not be.  *Rules*:
three players are the fewest with a side of two, a survivor and a victim; both deals cover
"a side each" and "two against one"; two stream failures in the modes that reconnect, one
elsewhere (`MCDrops`); `MaxDeaths` bounds hits only where players come back, `Early` who may
drop off before the frames.  *Events*: two events overlap two games or two epochs, a third
pushes the first out of a list of two (`Small` in the MC module).  *Lobby*: two controllers
let a session be taken over, a third only repeats.  *Links*: a controller that leaves and
returns twice (`MaxMoves` 4), two streams so that a disconnect may go to the wrong one;
`Small` bounds what goes on at once.  *Experiments*: one experiment meets any two troubles, a
pair one crash, stop or switch (`Few`).  `MaxFaults`, `MaxBoots`, `MaxFlips`, `MaxStrays`,
`MaxWire`, `Budget` bound the models, not the code.  Runs set `CHECK_DEADLOCK FALSE` where
the system may come to rest (every request answered, games over, bounds used up);
`admin_kept` keeps it on.  Symmetry is used in safety runs only.

Every action of every specification fires in a passing run, and every property of a
passing run has a mutant of the code that violates it.

### Fairness

*Sessions*: weak fairness of the servicer's coroutines, whose awaits are bounded (200 ms
for the registration, 2 s for an end); game threads get fairness only in the hypothesis
of `StartedGameReported`, so a hung thread is allowed everywhere else.  *Flags*: the starts
are fair, nothing else; `Converges` assumes the worker loop and the service besides: strong
fairness of `PeriodOver` is the 15 s clock that every pass compares with, strong fairness
of `TakeEnd` is the queue's order, and a request comes to an end by its 500 ms time-out.
`StartNotBlocked` needs no fairness of the service at all.  *Menu*: weak fairness of the
lifecycle's own steps (0.1 s and 0.3 s sleeps, 2 s deadlines for audio and GetGameState,
10 s for restore steps) and of reset_menu; none of the game's stream, the coordinator or
the operator.  *Rules*: frames keep coming while the call works, sounds and writes answer or
fail, respawn timers fire; nothing hits, kills, revives or ends.  *Events*: streams reconnect
and deliver, the tasks and timers of the servicer's loop run; an effect need not end, and
nobody need append or clear.  *Experiments*: calls return (they carry deadlines), a loop that
runs ticks; nothing obliges an experiment to be declared or to conclude.

## Proofs

Each theorem holds for every value of the constants that the named assumptions
(`SessionsAssumption`, `RegistryAssumption`, `LifecycleAssumption`, `SettingsAssumption`,
`MenuAssumption`, `RulesAssumption`, `EventsAssumption`, `LobbyAssumption`,
`LinksAssumption`, `ExperimentAssumption`) allow; TLC evaluates those in the runs.  The
eight modules have about 18 thousand obligations.

- `GameSessions_proofs`: `SessionInv` is inductive; from it type correctness,
  `PrimarySlot`, `EndsReportedOnce`, `NoOrphanGame`.  The strengthening says that a running
  game is its session's current game (or a force end could miss it) and that whatever has
  a task, a thread or a registration was admitted (or an end could be reported for a game
  that never was).  `ExclusionInv` on top of it gives `OneRealGame` and
  `NoShadowBesideReal`: a session that left the registry, or is ENDED in it, is past its
  game; a session being forced keeps its end task until then; a shadow next to a live real
  game is ended or still in that game's eviction pass.
- `FlagService_proofs`, on the registry: types, the cap (from cardinalities of the registry
  after each operation) and that games are never re-homed.  On the client: `LifecycleInv` is
  inductive and contains `EndedScopeOwed` and `LiveScopeOwed`.  They need to know whose games
  requests name (`OwnGames`, `OffCoordinator`), which epochs are known (`EpochsKnown`), what a
  reconcile lists (`ListedGames`) and that an end waits for its game's registration
  (`RegistrationFirst`).
  On the admin settings: `AdminInv` is inductive; from it `MemoryMatchesFile`,
  `MarkedOnFile`, `AnswersKept`.  The strengthening relates answers to memory
  (`AnswersHeld`), since a save of another flag writes memory, not answers.
  `HostSettingSeen` is an action property.
- `MenuLifecycle_proofs`: `MenuInv` is inductive; from it `OneLifecycle`, `QuietInGame`,
  `StartNotStuck`, `LobbyWhole`, `LastWordKept`.  While the tasks are followed at most one is
  alive, so a step is about that one: lemmas say what its creation (`Comes`), going on
  (`GoesOn`) and end (`GoesAway`) do to the invariant, and each action is one of them.  A
  cancel is owned by a reset_menu that will create the restore (`CancelOwned`), which is why
  a cancelled start does not leave GAME_STARTING to nobody (`StartOwed`).  `OwedInv` is what
  the last two properties rest on: whatever is not yet as it should be at rest (a monitor off
  in a RUNNING menu, a latch set, the operator's word not true) is owed by a named actor that
  has yet to act.  `PadStartsHeldLobby` is an action
  property: any step that moves the generation, a lifecycle's begin, end or replacement,
  withdraws a held pad and makes one at its roster lookup stale, and a stale one starts nothing.
- `GameRules_proofs`: `RulesProofInv` is inductive; from it `RulesInv`, `VerdictHonoured`,
  `DeathTold` and `DownZombieDue` in every mode at once.  The strengthening says where a kill
  call may stand for its victim and the mode (`CallInv`), which modes take players out beside
  the kills (`GoneInv`), what a reopening has yet to send again (`ResendInv`) and how outcome
  and winner go with the task that passes them on (`OutcomeInv`).  `RulesKeepPromise` is the
  refinement of `GameVerdict` without its fairness: initial states map to initial states and
  every action to a step of the promise or a stutter.
- `InterventionEvents_proofs`: `KillInv` (types, `StampInv`, `NewInv`, `ForbiddenInv`) is
  inductive; from it `KillSwitchHeld`.  The argument follows an event that was appended while
  its type was forbidden: it cannot be shown beside an allow-list that covers the lists and
  permits it, since a stamp names one state (`StampInv`) and the allow-list has not changed
  since; it is queued only from what is shown beside a covering allow-list (`Lags`), and put
  on a loop only if the allow-list held permits it.  `NewInv` says that an event nobody
  appended is nowhere, so that the argument may begin at its append.  `EventsInv` is a second
  inductive invariant, about the way of every event: each one at or below a bucket's seq is
  handled, in the pass or on a chain; chains are in order of seq; a bucket that lags behind
  what is shown has a wake-up due.  From it `RecordTrue`, `NothingSkipped` and the action
  property `InOrder`.
- `LobbyControllers_proofs`: `LobbyInv` is inductive; from it `LampTrue`, `IdleWakes` and the
  action property `HoldHonest`.  Handlers are operators on one record of controllers and admin
  session, and so is the argument: lemmas say that each operator turns a good record into a
  good one, fires no hold and puts nobody to sleep, and an action is one of them or touches a
  hold, a lamp or the stream itself.  The strengthening says that lamps are true in every
  stage while the stream is open (`LampsKept`), that the running hold is the one the task
  reference names and a released one is not the session owner's (`HoldsOwned`), and that a
  sleeper has idle mode in every stage that is not away from the lobby (`SleepersWake`).
- `ControllerLinks_proofs`: `LinksInv` is inductive together with `HandedOnce` and
  `GameColourForgotten`; `LivePlayerLit` and `OutStaysOut` follow from it.  Its parts follow a
  colour from the game to the LED.  `WireInv` says what is under way: a death only of a player
  that is out, an alive set only one that covers whoever is in, a config first, which lights
  nobody that is out unless its death follows.  `StreamInv` and `SharedInv` say that two
  streams not through with one player are one game's, of which the earlier is applied, so
  that two games never paint one controller.  `LitInv` and `DarkInv` are what the manager has
  made of the commands so far, for players in reach and for those away: the base colour
  decides, since a registration copies it (`ColourInv`).  `RouteInv` carries outputs over the
  two halves of a discovery pass, whose thread sees links that the loop has not seen yet.
  `KnownInv` says that whoever registered once and is away is among the queued or dropped ones,
  from which a stream opened later learns of it; `ClaimInv` why an identify on a player has to
  have slipped into the claim.
- `Experiments_proofs`: `RegistryInv` is inductive; from it types, `OneLivePerFlag`,
  `BranchOwned` and `StopClean`.  `ChosenInv` carries the declarer's look at the flags to its
  Declare: nothing else of that flag comes to life in between but by a restore, which `beside`
  then tells.  `PresentInv` says that whatever a worker does is about a
  registered entry; `BranchInv` that a branch belongs to an experiment no teardown has begun
  for, or to a worker that will strip it (the mark set before the strip is what a late write
  looks at after it landed); `ClosingInv` that behind the stop's AbortAll every live
  experiment has somebody who ends it.  `JournalInv` adds, experiment by experiment, what its
  journal may tell given what registry, worker and promoter have done; from it `PromotedOnce`
  and `ExperimentsInv`.  A journal is a sequence, so its lemmas are about positions of lines,
  not about recursion.

Only model-checked: liveness (`RealStartAnswered`, `StartedGameReported`, `Converges`,
`StartNotBlocked`, `ResetRecovers`, `StartSettles`, `EventuallyHandled`, `OffSettles`, the
fairness of `KeepsPromise`), which is out of the prover's reach.  Proved and no longer run on
an instance: the registry's cap and holders, `HostSettingSeen`, `PadStartsHeldLobby`.

## Finding

**`sessions_overlap`** (`servicer.py:343`): the state sync of the persistent primary bus
applies an event of an earlier primary game to the session that holds the slot now; a late
end event ends its successor's session, and a further real game can start beside it.

## Smaller observations

Made while modelling; no run claims them, and where a property would trip over one it leaves
it out by name.

*Flag lifecycle and admin settings.*  A registration sent after its game was force-ended and
its DELETE served brings the scope back until the next reconcile
(`flag_service_client.py:262`).  A reconcile may drop a scope registered meanwhile until the
next one, 15 s later.  The retry of a kill switch's clear that could not be saved is answered
a plain 204 while the file still holds the value (`write.go:583`).  With persistence switched
off, a DELETE with `persist` of a value in memory answers `X-Flag-Persisted: true`; an entry
of a flag that is no longer persistable stays in the file after a plain 204.

*Sessions.*  One more preemption may leave a real start refused although the comment calls
its retry guaranteed (`servicer.py:716`).

*Menu.*  A StopMenu in the 0.1 s before the preparation of a force, web or pad start is taken
for a stop of before the start, and undone (`game_lifecycle.py:342`, "stopUndone" in
`LastWordKept`).  A StopMenu or a start during `enter_lobby`'s awaits leaves the idle monitor
running on a stopped menu (`servicer.py:327`); a caller that hangs up inside StartMenu leaves
a RUNNING menu without it; a start accepted between the end of a cancelled task and
reset_menu's restore runs beside it (`servicer.py:708`); a cancel that arrives while the
button monitor is stopped is swallowed by `stop()` (`controller_events.py:146`, "cancelLost"
in `ResetRecovers`).

*Lobby.*  After a stream reconnect, a reset or a returning sentinel in idle mode, idle mode
stays active without IDLE controllers: sentinels pulse over lamps and the lobby never sleeps
again until the monitor stops (against UC-010 A2; "left" in `LampTrue`).  StopMenu and
StartMenu inside the restore's music step leave lamps unpainted.  Two controllers can be in
ADMIN after a force start's `exit()` or a pad's takeover (against `entity_model.md:95`);
`exit()` behind the roster RPC closes the session of whoever owns it then.  A release of the
trigger is ignored while another force start runs or after the owner left ADMIN ("stray" in
`HoldHonest`).  A stale owner's timeout un-readies a READY player.

*Games.*  A stream error at a swap's flash or colour write leaves a Swapper player neither
alive nor eliminated (`swapper.py:268`, 283).  A reconnect whose config write fails, and a
stream error under the handling of warm-up disconnects, end the game without a further
attempt (`base.py:2157`, 2060).

*Interventions.*  A session retired while the pass stands at it gets a bucket again and its
effects dispatched (`interventions.py:1230`, `haunted`).  A scope dropped and registered
again in one epoch numbers from 1, and the coordinator takes its new events for old
(`strayed`).  Events delivered before the game is built wait for the next push.

*Controllers.*  A player killed while its controller is away, which registers before the
game's next filter or its disconnect has got through, gets its game colour back ("lit"); a
controller dropped between its stream's release and the lobby's repaint keeps the game
colour until the repaint ("late"); while a claim awaits the end of a cancelled identify,
another identify passes both checks ("claim").

*Experiments.* A torn append merged with the next line loses an acknowledged event; two such
can restore a promoted experiment as RUNNING (against UC-043 BR-007).  A Declare that fails
after its intent file is restored as RUNNING though it never started; a refused outcome
append resurrects an ended experiment at the restart; a declare before the restore, or one
whose look at the flags is followed by the restore (`registry_sink.go:43`, Rehydrate is not
under the declarers' mutex), can leave two live experiments on one flag ("beside"); a start
that fails because the agent stops is aborted with the context that the stop cancelled
(`registry_sink.go:65`), so that its strip fails and the branch may stay ("leak" in
`BranchOwned`); with the gates off at a restart the predecessor's branches stay until the
first enabled tick; a crash between a late write and its second strip leaks the branch; a
deferred promotion restored as unfinished is marked lost only at the restart after (against
`UC-043.md:142`).

## Not modelled

- *Shields, phases' music and lights, movement*: real-valued time and thresholds; unit tests
  fit them better.
- *rust-hid, python_hid, pairing daemon*: device I/O below `ControllerLinks`, which sees it
  as links that come, go and fall silent.
- *Tournament, Fight Club*: their pairings would be another kind of mode of `GameRules`.
- *Event bus*: `GameSessions` keeps the state-sync callback; subscriber queues that drop when
  full are the next module to write.
- *The flag writer client* (`lib/flag_service_writer.py`): would be a client of
  `AdminSettings`.
- *Layer precedence and rendering of the flag service; the agent's decisions, games, samples
  and verdicts; the promoter*: data and policies rather than protocols, except the promoter,
  which appears in `Experiments` as an external action with its three results.
- *Audio, proxy, dashboard, operator pad's gestures, telemetry, deployment, generated code*:
  forwarding, rendering, configuration.

## What comes next

Every safety and action property of the passing runs is a theorem.  Next is breadth: the
event bus's subscriber queues, and the device daemons below `ControllerLinks`.
