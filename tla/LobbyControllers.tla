-------------------------- MODULE LobbyControllers --------------------------
(***************************************************************************)
(* The controllers in the menu's lobby (services/menu/state_manager.py,    *)
(* handlers/, idle_monitor.py, controller_events.py and the callbacks of   *)
(* servicer.py): their lobby states and lamps, the one admin session with  *)
(* its timeout and its held trigger, the ready start, idle mode with its   *)
(* pulsing sentinels, and the button stream that comes and goes, all while *)
(* starts, stops and restores of MenuLifecycle pass over them.             *)
(*                                                                         *)
(* The menu is one asyncio loop.  Sending a colour and publishing an event *)
(* never suspend, so an action runs from one real suspension to the next:  *)
(* the 0.3 s of ready feedback, an option's write and voice, the timers, a *)
(* roster RPC, the steps of a lifecycle.  The stream's task dispatches one *)
(* event at a time and waits for the handler.                              *)
(*                                                                         *)
(* A lamp is the base colour last sent to a controller the menu knows:     *)
(* "dim" and "bright" are those of the selected mode, effects are left     *)
(* out.  Lifecycles are the stages of MenuLifecycle with one task at most. *)
(***************************************************************************)
EXTENDS FiniteSets, Integers

CONSTANTS
  Controller,     \* the controllers that come and go
  SentinelCount,  \* the flag sentinel.count
  None

ASSUME LobbyAssumption == SentinelCount \in Nat /\ None \notin Controller

VARIABLES
  ctl,        \* controller_states, "gone" for a controller that has none
  lamp,       \* base colours; "left" is a colour nobody repaints
  session,    \* controller_serial of the active admin session
  timer,      \* the controller _timeout_task waits for
  hold,       \* the force-start hold task of a controller
  holdTask,   \* whose hold _trigger_hold_task refers to
  forcing,    \* _force_starting
  shown,      \* combo_shown
  latch,      \* _game_start_in_progress
  idle,       \* the idle monitor
  stream,     \* the button stream is open
  told,       \* controllers whose CONNECT was dispatched on it, and no DISCONNECT since
  busy,       \* what the stream's task waits for in a handler
  menu,       \* MenuState
  stage,      \* where the lifecycle task is
  entering    \* an enter_lobby waits for its music

controllers == <<ctl, lamp>>
admin == <<session, timer, hold, holdTask, forcing>>
wire == <<stream, told>>
life == <<menu, stage, entering>>
vars == <<ctl, lamp, session, timer, hold, holdTask, forcing, shown, latch, idle, stream,
          told, busy, menu, stage, entering>>

\* A hold's timer: "loose" after a release of the trigger the menu heard and that did not
\* cancel it, "stray" when it outlived its cancel because another force start ran.
Timing == {"timing", "loose", "stray"}
Starting == {"roster", "pause"}
Restarting == {"restore", "music"}

TypeOK ==
  /\ ctl \in [Controller -> {"gone", "CONNECTED", "READY", "ADMIN", "IDLE"}]
  /\ lamp \in [Controller -> {"dark", "dim", "bright", "white", "pulse", "left"}]
  /\ session \in Controller \cup {None}
  /\ timer \in Controller \cup {None}
  /\ hold \in [Controller -> {"none"} \cup Timing \cup Starting]
  /\ holdTask \in Controller \cup {None}
  /\ forcing \in BOOLEAN /\ shown \in BOOLEAN /\ latch \in BOOLEAN
  /\ idle \in [on : BOOLEAN, active : BOOLEAN, sentinels : SUBSET Controller,
               pulsing : BOOLEAN]
  /\ stream \in BOOLEAN
  /\ told \subseteq Controller
  /\ busy \in {"free", "option", "feedback"}
  /\ menu \in {"STOPPED", "RUNNING", "GAME_STARTING"}
  /\ stage \in {"none", "readyDelay", "delay", "short", "leaving", "leavingStopped", "game"}
               \cup Restarting
  /\ entering \in BOOLEAN

IdleOff == [on |-> FALSE, active |-> FALSE, sentinels |-> {}, pulsing |-> FALSE]

Init ==
  /\ ctl = [s \in Controller |-> "gone"]
  /\ lamp = [s \in Controller |-> "dark"]
  /\ session = None /\ timer = None
  /\ hold = [s \in Controller |-> "none"] /\ holdTask = None
  /\ forcing = FALSE /\ shown = FALSE /\ latch = FALSE
  /\ idle = IdleOff
  /\ stream = FALSE /\ told = {}
  /\ busy = "free"
  /\ menu = "STOPPED" /\ stage = "none" /\ entering = FALSE

Live == stage # "none"
Tracked == {s \in Controller : ctl[s] # "gone"}

----------------------------------------------------------------------------
\* What the handlers do to the controllers and to the admin session, on a record of both

Lobby == [ctl |-> ctl, lamp |-> lamp, session |-> session, timer |-> timer, hold |-> hold,
          holdTask |-> holdTask]

Becomes(m) ==
  /\ ctl' = m.ctl /\ lamp' = m.lamp
  /\ session' = m.session /\ timer' = m.timer
  /\ hold' = m.hold /\ holdTask' = m.holdTask

\* A colour sent while the stream is down is lost.
Paint(m, s, colour) == IF stream THEN [m EXCEPT !.lamp[s] = colour] ELSE m

OwnedByOther(m, s) == m.session \notin {s, None}
Stale(m) == m.session # None /\ m.ctl[m.session] # "ADMIN"
HeldByOther(m, s) == OwnedByOther(m, s) /\ ~Stale(m)

\* Mutant: leaving admin mode keeps a running hold, as before #2377.
ClosedHolding(m) == [m EXCEPT !.session = None, !.timer = None]

\* exit and abandon_session: no session, no timeout, no hold, unless a force start runs.
Closed(m) ==
  IF m.session = None THEN m ELSE
  [m EXCEPT !.session = None, !.timer = None, !.holdTask = None,
            !.hold = [s \in Controller |-> IF s # m.holdTask THEN m.hold[s]
                                           ELSE IF ~forcing THEN "none"
                                           ELSE IF m.hold[s] \in Timing THEN "stray"
                                           ELSE m.hold[s]]]

\* AdminModeHandler.on_exit; the other handlers leave nothing behind.
Exited(m, s) == IF m.ctl[s] = "ADMIN" /\ ~OwnedByOther(m, s) THEN Closed(m) ELSE m

\* AdminModeHandler.enter.
Entered(m, s) == Paint([m EXCEPT !.session = s, !.timer = s], s, "white")

\* transition_to; a controller the menu does not track counts as CONNECTED.
Moved(m, s, new) ==
  LET old == IF m.ctl[s] = "gone" THEN "CONNECTED" ELSE m.ctl[s]
      a   == [Exited(m, s) EXCEPT !.ctl[s] = new]
  IN  CASE old = new -> m
        [] old # new /\ new = "ADMIN" -> Entered(a, s)
        [] old # new /\ new = "CONNECTED" -> Paint(a, s, "dim")
        [] old # new /\ new = "READY" -> Paint(a, s, "bright")
        [] old # new /\ new = "IDLE" -> Paint(a, s, "dark")

Everyone(m, S, state) ==
  [m EXCEPT !.ctl = [s \in Controller |-> IF s \in S THEN state ELSE m.ctl[s]],
            !.lamp = [s \in Controller |->
                        CASE s \notin S -> m.lamp[s]
                          [] s \in S /\ state = "gone" -> "dark"
                          [] s \in S /\ state = "CONNECTED" /\ stream -> "dim"
                          [] s \in S /\ state = "IDLE" /\ stream -> "dark"
                          [] OTHER -> m.lamp[s]]]

\* Mutant: reset does not paint.
ResetUnpainted(m) ==
  [Closed(m) EXCEPT !.ctl = [s \in Controller |-> IF m.ctl[s] = "gone" THEN "gone"
                                                   ELSE "CONNECTED"]]

\* StateManager.reset: everybody is CONNECTED again and painted.
Reset(m) == Everyone(Closed(m), {s \in Controller : m.ctl[s] # "gone"}, "CONNECTED")

\* on_controller_disconnected for each of S.
Dropped(m, S) ==
  LET a == IF \E s \in S : m.ctl[s] = "ADMIN" /\ ~OwnedByOther(m, s) THEN Closed(m) ELSE m
  IN  Everyone(a, S, "gone")

\* show_lobby_colors of a new mode.
Repainted(m) ==
  [m EXCEPT !.lamp = [s \in Controller |->
                        CASE stream /\ m.ctl[s] = "CONNECTED" -> "dim"
                          [] stream /\ m.ctl[s] = "READY" -> "bright"
                          [] OTHER -> m.lamp[s]]]

AllReady(m) ==
  LET ready == {s \in Controller : m.ctl[s] = "READY"}
  IN  Cardinality(ready) >= 2 /\ \A s \in Controller : m.ctl[s] \in {"READY", "gone"}

----------------------------------------------------------------------------
\* Starting a game

\* Mutant: a refused start keeps the ready latch.
StartKeepingLatch(kind, taken) ==
  /\ stage' = IF Live THEN stage ELSE kind
  /\ latch' = taken

\* _start_game: a lifecycle, or a refusal that releases the ready latch.
Start(kind, taken) ==
  /\ stage' = IF Live THEN stage ELSE kind
  /\ latch' = (taken /\ ~Live)

\* _ready_start_game, the callback of the ready handler.
ReadyStart ==
  IF menu = "STOPPED" THEN latch' = FALSE /\ UNCHANGED stage ELSE Start("readyDelay", TRUE)

\* The web dashboard, an API press of the trigger: started, or refused.
WebStart ==
  /\ Start("delay", latch)
  /\ UNCHANGED <<controllers, admin, shown, idle, wire, busy, menu, entering>>

\* The operator pad ends an admin session before it asks for the roster ...
PadTakesOver ==
  /\ ~Live /\ session # None
  /\ Becomes(Closed(Lobby))
  /\ UNCHANGED <<forcing, shown, latch, idle, wire, busy, life>>

\* ... and starts when it has it.
PadStart ==
  /\ ~Live
  /\ menu' = "GAME_STARTING"
  /\ Start("delay", latch)
  /\ UNCHANGED <<controllers, admin, shown, idle, wire, busy, entering>>

----------------------------------------------------------------------------
\* Buttons.  A button event is dispatched on the open stream, after its controller's
\* CONNECT, one at a time, and dropped unless the menu is RUNNING.

Heard(s) == stream /\ busy = "free" /\ s \in told /\ menu = "RUNNING"

ReadyUp(s) ==
  LET m == Moved(Lobby, s, "READY")
      starts == AllReady(m) /\ ~latch
  IN  /\ Heard(s) /\ ctl[s] = "CONNECTED"
      /\ Becomes(m)
      /\ latch' = (latch \/ starts)
      /\ busy' = IF starts THEN "feedback" ELSE busy
      /\ UNCHANGED <<forcing, shown, idle, wire, life>>

\* The 0.3 s after the last one got ready are over.
FeedbackOver ==
  /\ busy = "feedback"
  /\ busy' = "free"
  /\ ReadyStart
  /\ UNCHANGED <<controllers, admin, shown, idle, wire, menu, entering>>

\* A trigger of a READY player whose lobby is ready but has not started.
TriggerAgain(s) ==
  /\ Heard(s) /\ ctl[s] = "READY"
  /\ AllReady(Lobby) /\ ~latch
  /\ ReadyStart
  /\ UNCHANGED <<controllers, admin, shown, idle, wire, busy, menu, entering>>

Unready(s) ==
  /\ Heard(s) /\ ctl[s] = "READY"
  /\ Becomes(Moved(Lobby, s, "CONNECTED"))
  /\ UNCHANGED <<forcing, shown, latch, idle, wire, busy, life>>

\* Select: the next mode, its write and its voice.
SelectMode(s) ==
  /\ Heard(s) /\ ctl[s] = "CONNECTED"
  /\ Becomes(Repainted(Lobby))
  /\ busy' = "option"
  /\ UNCHANGED <<forcing, shown, latch, idle, wire, life>>

OptionOver ==
  /\ busy = "option"
  /\ busy' = "free"
  /\ UNCHANGED <<controllers, admin, shown, latch, idle, wire, life>>

\* Any press of an IDLE controller; wake_all takes the others along while idle mode is on.
WakeUp(s) ==
  LET m == Moved(Lobby, s, "CONNECTED")
      sleepers == {r \in Controller : m.ctl[r] = "IDLE"}
  IN  /\ Heard(s) /\ ctl[s] = "IDLE"
      /\ IF idle.active
         THEN /\ Becomes(Everyone(m, sleepers, "CONNECTED"))
              /\ idle' = [IdleOff EXCEPT !.on = idle.on]
         ELSE Becomes(m) /\ UNCHANGED idle
      /\ UNCHANGED <<forcing, shown, latch, wire, busy, life>>

\* A button of an ADMIN controller whose session is over takes it out of ADMIN, as PS
\* does to one that has it.
AdminLeaves(s) ==
  /\ Heard(s) /\ ctl[s] = "ADMIN" /\ ~HeldByOther(Lobby, s)
  /\ Becomes(Moved(Lobby, s, "CONNECTED"))
  /\ UNCHANGED <<forcing, shown, latch, idle, wire, busy, life>>

\* An option's value goes up or down, or is announced: a write or a read, then a voice.
AdminOption(s) ==
  /\ Heard(s) /\ ctl[s] = "ADMIN" /\ ~HeldByOther(Lobby, s) /\ session # None
  /\ busy' = "option"
  /\ UNCHANGED <<controllers, admin, shown, latch, idle, wire, life>>

\* The next mode, which repaints the lobby.
AdminMode(s) ==
  /\ Heard(s) /\ ctl[s] = "ADMIN" /\ ~HeldByOther(Lobby, s) /\ session # None
  /\ Becomes(Repainted(Lobby))
  /\ busy' = "option"
  /\ UNCHANGED <<forcing, shown, latch, idle, wire, life>>

\* A hold takes the place of the one before it, whatever that one is doing.  Bound: a
\* controller holds once at a time (a second hold would have to fit into a roster RPC or
\* the 0.3 s after it).
HoldTrigger(s) ==
  LET a == IF holdTask = None THEN hold ELSE [hold EXCEPT ![holdTask] = "none"]
  IN  /\ Heard(s) /\ ctl[s] = "ADMIN" /\ ~HeldByOther(Lobby, s) /\ session # None
      /\ a[s] = "none"
      /\ hold' = [a EXCEPT ![s] = "timing"]
      /\ holdTask' = s
      /\ forcing' = (forcing /\ (holdTask # None => hold[holdTask] \notin Starting))
      /\ UNCHANGED <<controllers, session, timer, shown, latch, idle, wire, busy, life>>

\* The trigger is released: the hold ends if its owner is still in ADMIN and no force start
\* runs.
ReleaseTrigger(s) ==
  LET ends == ctl[s] = "ADMIN" /\ session = s /\ holdTask # None /\ ~forcing
      heard == IF forcing \/ Stale(Lobby) THEN "stray" ELSE "loose"
  IN  /\ Heard(s)
      /\ \/ /\ ends
            /\ Becomes(Paint([Lobby EXCEPT !.hold[holdTask] = "none", !.holdTask = None],
                             s, "white"))
         \/ /\ ~ends /\ hold[s] = "timing"
            /\ Becomes([Lobby EXCEPT !.hold[s] = heard])
      /\ UNCHANGED <<forcing, shown, latch, idle, wire, busy, life>>

\* The fourth face button goes down: a stale session is released, a free one entered, and
\* the button itself is an option, or the mode, of the session.
Combo(s) ==
  LET a == IF Stale(Lobby) THEN Closed(Lobby) ELSE Lobby
      m == Moved(a, s, "ADMIN")
  IN  /\ Heard(s) /\ ~HeldByOther(Lobby, s)
      /\ \/ /\ ~shown /\ shown' = TRUE
            /\ IF m.session = None
               THEN Becomes(Moved(m, s, "CONNECTED")) /\ UNCHANGED busy
               ELSE (Becomes(m) \/ Becomes(Repainted(m))) /\ busy' \in {"free", "option"}
         \/ /\ shown /\ ctl[s] \in {"CONNECTED", "READY"}
            /\ Becomes(a)
            /\ UNCHANGED <<shown, busy>>
      /\ UNCHANGED <<forcing, latch, idle, wire, life>>

FaceReleased(s) ==
  /\ Heard(s) /\ shown
  /\ shown' = FALSE
  /\ UNCHANGED <<controllers, admin, latch, idle, wire, busy, life>>

----------------------------------------------------------------------------
\* Timers of the admin session

\* 60 s after the session began.
TimeoutExit ==
  LET m == Moved(Lobby, timer, "CONNECTED")
  IN  /\ timer # None
      /\ Becomes(CASE session # timer -> [Lobby EXCEPT !.timer = None]
                   [] session = timer /\ m.session = timer -> Closed(m)
                   [] OTHER -> m)
      /\ UNCHANGED <<forcing, shown, latch, idle, wire, busy, life>>

\* The trigger was held long enough: a force start, if its session still runs.
HoldFires(s) ==
  /\ hold[s] \in Timing
  /\ IF session = s
     THEN hold' = [hold EXCEPT ![s] = "roster"] /\ forcing' = TRUE /\ UNCHANGED holdTask
     ELSE /\ hold' = [hold EXCEPT ![s] = "none"]
          /\ holdTask' = IF holdTask = s THEN None ELSE holdTask
          /\ UNCHANGED forcing
  /\ UNCHANGED <<controllers, session, timer, shown, latch, idle, wire, busy, life>>

\* The roster is there: the session ends, whosever it is, and 0.3 s pass.
RosterBack(s) ==
  /\ hold[s] = "roster"
  /\ Becomes([Closed(Lobby) EXCEPT !.hold[s] = "pause"])
  /\ UNCHANGED <<forcing, shown, latch, idle, wire, busy, life>>

\* The start is asked for in GAME_STARTING, which a refusal takes back.
PauseOver(s) ==
  /\ hold[s] = "pause"
  /\ hold' = [hold EXCEPT ![s] = "none"]
  /\ holdTask' = IF holdTask = s THEN None ELSE holdTask
  /\ forcing' = FALSE
  /\ menu' = IF Live THEN menu ELSE "GAME_STARTING"
  /\ Start("delay", latch)
  /\ UNCHANGED <<controllers, session, timer, shown, idle, wire, busy, entering>>

----------------------------------------------------------------------------
\* Idle mode

\* IdleMonitor.start.
Started(i) == IF i.on THEN i ELSE [i EXCEPT !.on = TRUE, !.active = FALSE]

\* _select_sentinels: the ones with the fullest batteries, whoever they are.
Sentinels(S) ==
  IF Cardinality(S) <= SentinelCount THEN {S}
  ELSE {T \in SUBSET S : Cardinality(T) = SentinelCount}

\* No button for the timeout: the CONNECTED ones go IDLE, some of them pulse.
EnterIdle ==
  LET waiting == {s \in Controller : ctl[s] = "CONNECTED"}
  IN  /\ idle.on /\ ~idle.active /\ waiting # {}
      /\ Becomes(Everyone(Lobby, waiting, "IDLE"))
      /\ \E S \in Sentinels(waiting) :
           idle' = [on |-> TRUE, active |-> TRUE, sentinels |-> S, pulsing |-> S # {}]
      /\ UNCHANGED <<admin, shown, latch, wire, busy, life>>

\* What the sentinels show: on a controller that is not IDLE any more it is a colour that
\* stays until something else paints.
Shown(s, colour) == IF ctl[s] = "IDLE" THEN colour ELSE "left"

Painted(S, colour) ==
  lamp' = [s \in Controller |-> IF s \in S /\ stream /\ ctl[s] # "gone"
                                THEN Shown(s, colour) ELSE lamp[s]]

Pulse ==
  /\ idle.pulsing /\ stream
  /\ Painted(idle.sentinels, "pulse")
  /\ UNCHANGED <<ctl, admin, shown, latch, idle, wire, busy, life>>

\* Other IDLE controllers take a turn if there are any.
RotateSentinels ==
  LET sleepers == {s \in Controller : ctl[s] = "IDLE"}
      others == sleepers \ idle.sentinels
  IN  /\ idle.on /\ idle.active /\ sleepers # {}
      /\ \E S \in Sentinels(IF others = {} THEN sleepers ELSE others) :
           /\ S # idle.sentinels
           /\ idle' = [idle EXCEPT !.sentinels = S]
           /\ Painted(idle.sentinels \ S, "dark")
      /\ UNCHANGED <<ctl, admin, shown, latch, wire, busy, life>>

----------------------------------------------------------------------------
\* The button stream

\* _reconcile_controllers: a controller that is not on the event's roster is a ghost.  The
\* roster names whoever the menu was told of, and maybe a ghost that has come back.
Reconciled(m) ==
  \E ghosts \in SUBSET {s \in Controller : m.ctl[s] # "gone" /\ s \notin told'} :
    Becomes(Dropped(m, ghosts))

\* A CONNECT is dispatched: the controller is CONNECTED whatever it was.
Connect(s) ==
  /\ stream /\ busy = "free" /\ s \notin told
  /\ told' = told \cup {s}
  /\ Reconciled(Everyone(Lobby, {s}, "CONNECTED"))
  /\ UNCHANGED <<forcing, shown, latch, idle, stream, busy, life>>

Disconnect(s) ==
  /\ stream /\ busy = "free" /\ s \in told
  /\ told' = told \ {s}
  /\ Reconciled(Dropped(Lobby, {s}))
  /\ UNCHANGED <<forcing, shown, latch, idle, stream, busy, life>>

\* The queue of the stream is full: the DISCONNECT is dropped.  Bound: one ghost at once.
LoseDisconnect(s) ==
  /\ stream /\ s \in told /\ Tracked \subseteq told
  /\ told' = told \ {s}
  /\ UNCHANGED <<controllers, admin, shown, latch, idle, stream, busy, life>>

StreamBreaks ==
  /\ stream /\ busy = "free"
  /\ stream' = FALSE
  /\ told' = {}
  /\ UNCHANGED <<controllers, admin, shown, latch, idle, busy, life>>

\* on_stream_reconnected clears the lobby, then the new stream opens.  There is no button
\* loop while a game is followed.
Reconnect ==
  /\ ~stream /\ stage # "game"
  /\ stream' = TRUE
  /\ Becomes(Everyone(Closed(Lobby), Controller, "gone"))
  /\ UNCHANGED <<forcing, shown, latch, idle, told, busy, life>>

----------------------------------------------------------------------------
\* The lifecycle that a start begins, and the calls on the menu

\* A ready start on a menu that was stopped meanwhile.
DropReadyStart ==
  /\ stage = "readyDelay" /\ menu = "STOPPED"
  /\ stage' = "none" /\ latch' = FALSE
  /\ UNCHANGED <<controllers, admin, shown, idle, wire, busy, menu, entering>>

Delayed == stage = "delay" \/ (stage = "readyDelay" /\ menu # "STOPPED")

\* Too few players: the voice, then the lobby's reset.
TooFew ==
  /\ Delayed
  /\ stage' = "short"
  /\ IF menu = "GAME_STARTING"
     THEN menu' = "RUNNING" /\ idle' = Started(idle)
     ELSE UNCHANGED <<menu, idle>>
  /\ UNCHANGED <<controllers, admin, shown, latch, wire, busy, entering>>

\* A StartMenu that came meanwhile is settled with the lifecycle's end.
ShortOver ==
  /\ stage = "short"
  /\ Becomes(Reset(Lobby))
  /\ stage' = "none" /\ latch' = FALSE
  /\ IF menu = "GAME_STARTING"
     THEN menu' = "RUNNING" /\ idle' = Started(idle)
     ELSE UNCHANGED <<menu, idle>>
  /\ UNCHANGED <<forcing, shown, wire, busy, entering>>

\* _prepare_game_start: the idle monitor, then the music, then the button loop stop.
Prepare ==
  /\ Delayed
  /\ stage' = IF menu = "STOPPED" THEN "leavingStopped" ELSE "leaving"
  /\ idle' = IdleOff
  /\ UNCHANGED <<controllers, admin, shown, latch, wire, busy, menu, entering>>

Restore ==
  /\ stage' = "restore"
  /\ menu' = IF menu = "STOPPED" THEN menu ELSE "RUNNING"

\* The stream's task is cancelled in whatever it does.
Prepared ==
  /\ stage \in {"leaving", "leavingStopped"}
  /\ stream' = FALSE /\ busy' = "free"
  /\ told' = {}
  /\ IF stage = "leaving" /\ menu = "STOPPED"
     THEN Restore
     ELSE stage' = "game" /\ menu' = "GAME_STARTING"
  /\ UNCHANGED <<controllers, admin, shown, latch, idle, entering>>

\* The game ends or its start fails.
GameOver ==
  /\ stage = "game"
  /\ Restore
  /\ UNCHANGED <<controllers, admin, shown, latch, idle, wire, busy, entering>>

\* reset_menu cancels a lifecycle whose game is not active.
ResetMenu ==
  /\ Live /\ stage \notin Restarting
  /\ Restore
  /\ UNCHANGED <<controllers, admin, shown, latch, idle, wire, busy, entering>>

\* Mutant: the restore leaves the controllers as they are.
ReregisterNobody ==
  /\ stage = "restore"
  /\ stage' = "music" /\ latch' = FALSE
  /\ UNCHANGED <<controllers, admin, shown, idle, wire, busy, menu, entering>>

\* The button loop is connected again, or 5 s are over.
Reregister ==
  /\ stage = "restore"
  /\ Becomes(Reset(Lobby))
  /\ stage' = "music" /\ latch' = FALSE
  /\ UNCHANGED <<forcing, shown, idle, wire, busy, menu, entering>>

Restored ==
  /\ stage = "music"
  /\ stage' = "none"
  /\ idle' = IF menu = "STOPPED" THEN idle ELSE Started(idle)
  /\ UNCHANGED <<controllers, admin, shown, latch, wire, busy, menu, entering>>

\* StartMenu and the boot outside a lifecycle, or StartMenu during one.
StartMenu ==
  \/ /\ ~Live /\ menu # "RUNNING" /\ ~entering
     /\ menu' = "RUNNING" /\ entering' = TRUE
     /\ Becomes(Reset(Lobby)) /\ latch' = FALSE
     /\ UNCHANGED <<forcing, shown, idle, wire, busy, stage>>
  \/ /\ Live /\ menu = "STOPPED"
     /\ menu' = IF stage \in Restarting THEN "RUNNING" ELSE "GAME_STARTING"
     /\ UNCHANGED <<controllers, admin, shown, latch, idle, wire, busy, stage, entering>>

LobbyEntered ==
  /\ entering /\ entering' = FALSE
  /\ idle' = Started(idle)
  /\ UNCHANGED <<controllers, admin, shown, latch, wire, busy, menu, stage>>

\* StopMenu: nobody is ready or idle any more, and nobody is painted.
StopMenu ==
  LET m == Closed(Lobby)
      kept == {s \in Controller : ctl[s] \in {"gone", "CONNECTED"}}
  IN  /\ menu # "STOPPED" /\ menu' = "STOPPED"
      /\ idle' = IdleOff
      /\ Becomes([m EXCEPT !.ctl = [s \in Controller |-> IF s \in kept THEN ctl[s]
                                                         ELSE "CONNECTED"],
                           !.lamp = [s \in Controller |-> IF s \in kept THEN lamp[s]
                                                          ELSE "left"]])
      /\ UNCHANGED <<forcing, shown, latch, wire, busy, stage, entering>>

\* A mode from the dashboard or the pad.
ModeSelected ==
  /\ Becomes(Repainted(Lobby))
  /\ UNCHANGED <<forcing, shown, latch, idle, wire, busy, life>>

Next ==
  \/ WebStart \/ PadTakesOver \/ PadStart
  \/ \E s \in Controller : ReadyUp(s)
  \/ FeedbackOver
  \/ \E s \in Controller : TriggerAgain(s)
  \/ \E s \in Controller : Unready(s)
  \/ \E s \in Controller : SelectMode(s)
  \/ OptionOver
  \/ \E s \in Controller : WakeUp(s)
  \/ \E s \in Controller : AdminLeaves(s)
  \/ \E s \in Controller : AdminOption(s)
  \/ \E s \in Controller : AdminMode(s)
  \/ \E s \in Controller : HoldTrigger(s)
  \/ \E s \in Controller : ReleaseTrigger(s)
  \/ \E s \in Controller : Combo(s)
  \/ \E s \in Controller : FaceReleased(s)
  \/ TimeoutExit
  \/ \E s \in Controller : HoldFires(s)
  \/ \E s \in Controller : RosterBack(s)
  \/ \E s \in Controller : PauseOver(s)
  \/ EnterIdle \/ Pulse \/ RotateSentinels
  \/ \E s \in Controller : LoseDisconnect(s)
  \/ \E s \in Controller : Connect(s)
  \/ \E s \in Controller : Disconnect(s)
  \/ StreamBreaks \/ Reconnect
  \/ DropReadyStart \/ TooFew \/ ShortOver \/ Prepare \/ Prepared \/ GameOver \/ ResetMenu
  \/ Reregister \/ Restored \/ StartMenu \/ LobbyEntered \/ StopMenu \/ ModeSelected

Spec == Init /\ [][Next]_vars

----------------------------------------------------------------------------
\* Properties

\* The lobby the players look at: nothing of a lifecycle or of a lobby entry is under way,
\* and the stream that carries the colours is open.
AtRest == stream /\ menu = "RUNNING" /\ stage = "none"

\* Whatever connects, wakes, readies, leaves ADMIN or comes back from a game or a stopped
\* menu, a lamp shows the lobby state behind it (UC-002 step 6, UC-010 A1, A2), unless
\* nobody painted over a colour the sentinels or a stop left.
LampTrue ==
  AtRest => \A s \in Controller :
    /\ ctl[s] = "CONNECTED" => lamp[s] \in {"dim", "left"}
    /\ ctl[s] = "READY" => lamp[s] \in {"bright", "left"}
    /\ ctl[s] = "IDLE" => lamp[s] \in {"dark", "pulse", "left"}

\* A sleeper of a lobby at rest has its idle mode, so that any button wakes all of them
\* (UC-010 A2): no start, stop, restore or entry takes one without the other.
IdleWakes ==
  menu = "RUNNING" /\ stage \notin {"leaving", "leavingStopped", "restore"}
    => \A s \in Controller : ctl[s] = "IDLE" => idle.active

\* The ready latch is held by a start that is to come or to be refused, never left behind:
\* otherwise no lobby could start by readiness again (UC-010 A4).
LatchOwned == latch => busy = "feedback" \/ Live

\* A hold whose trigger was released, as the menu heard it, never becomes a force start,
\* not even after its owner left ADMIN and came back (UC-014 A1), unless another force
\* start or a controller that came back without having left overtook the release.
HoldHonest ==
  [][\A s \in Controller : hold[s] = "loose" => hold'[s] # "roster"]_vars

\* _force_starting never outlives the force start it stands for: left behind, no release
\* of the trigger would end a hold any more.
ForcingOwned == forcing => \E s \in Controller : hold[s] \in Starting

\* Every session has its own timeout and no other runs: it ends 60 s after it began, not
\* later (UC-012) and not earlier for a session that was left and entered again.
SessionTimed == timer = session

----------------------------------------------------------------------------
\* What the properties rest on

\* Behind the lobby's reset a latch is the one of a ready start that sleeps its feedback.
LatchFresh == latch /\ stage = "music" => busy = "feedback"

\* Nobody sleeps without idle mode, whatever the menu is, from the lobby's reset on.
SleepersWake ==
  stage \notin {"leaving", "leavingStopped", "game", "restore"}
    => \A s \in Controller : ctl[s] = "IDLE" => idle.active

\* A game leaves no RUNNING menu.
GameNotRunning == stage = "game" => menu # "RUNNING"

\* Idle mode is the running monitor's.
ActiveIsOn == idle.active => idle.on

\* While the stream that carries the colours is open, lamps are true in every stage.
LampsKept ==
  stream => \A s \in Controller :
    /\ ctl[s] = "CONNECTED" => lamp[s] \in {"dim", "left"}
    /\ ctl[s] = "READY" => lamp[s] \in {"bright", "left"}
    /\ ctl[s] = "IDLE" => lamp[s] \in {"dark", "pulse", "left"}

\* A running hold is the one _trigger_hold_task refers to, and ends with the session.
HoldsOwned ==
  \A s \in Controller :
    /\ hold[s] \in {"timing", "loose"} => holdTask = s /\ session # None
    /\ hold[s] = "loose" => session # s

\* The inductive invariant: what holds a start back or carries one out, latch, flag, hold
\* and timer, has its owner; what shows or sleeps has its reason.
LobbyInv ==
  /\ TypeOK /\ LatchOwned /\ LatchFresh /\ ForcingOwned /\ SessionTimed
  /\ SleepersWake /\ GameNotRunning /\ ActiveIsOn /\ LampsKept /\ HoldsOwned
=============================================================================
