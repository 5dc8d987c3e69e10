--------------------------- MODULE MenuLifecycle ---------------------------
(***************************************************************************)
(* The menu's lobby and its game lifecycle (services/menu/servicer.py and  *)
(* game_lifecycle.py): StartMenu, StopMenu, reset_menu, every way to start *)
(* a game, the lifecycle task that leaves the lobby, follows the game and  *)
(* restores the lobby.  The menu is one asyncio loop: an action runs from  *)
(* one suspension to the next, so whatever is read before an await may be  *)
(* stale after it.                                                         *)
(*                                                                         *)
(* A lifecycle is a slot of Task while it runs.  Rosters are abstracted to *)
(* "long enough or not", the coordinator to whether its primary game plays *)
(* and to a stream that may confirm, end, fail or stay silent; a reconnect *)
(* that works leaves the lifecycle where it is.  Publishing an event never *)
(* suspends (its lock is never contended).                                 *)
(***************************************************************************)
EXTENDS Integers

CONSTANTS
  Task,        \* lifecycle tasks that may exist at once
  Reset,       \* reset_menu calls in progress at once
  MaxEntries,  \* bound: lobby entries in progress at once
  None

ASSUME MenuAssumption == /\ None \notin Task
                         /\ MaxEntries \in Nat \ {0}

VARIABLES
  state,        \* MenuState
  idle,         \* the idle monitor runs
  buttons,      \* the button monitor runs
  latch,        \* ReadyHandler._game_start_in_progress
  readying,     \* a ready start sleeps its 0.3 s feedback delay
  task,         \* the lifecycle tasks
  cancelling,   \* tasks a cancel was requested for
  current,      \* _game_lifecycle_task
  deferred,     \* _start_menu_deferred
  restarting,   \* _lobby_restarting
  entering,     \* enter_lobby calls in progress
  booted,       \* the boot auto start is over
  reset,        \* the reset_menu calls
  pad,          \* the operator pad's force start
  playing,      \* the coordinator's primary game is STARTING or RUNNING
  asked,        \* history: the operator's last word
  accidents     \* history: the rare races that happened and still matter

lobby == <<state, idle, buttons, latch, readying>>
calls == <<entering, booted, reset, pad>>
vars == <<state, idle, buttons, latch, readying, task, cancelling, current, deferred,
          restarting, entering, booted, reset, pad, playing, asked, accidents>>

Preparing == {"music", "buttons"}
InGame == {"open", "follow"}
Restoring == {"connect", "recolour"}

TypeOK ==
  /\ state \in {"STOPPED", "RUNNING", "GAME_STARTING"}
  /\ idle \in BOOLEAN /\ buttons \in BOOLEAN
  /\ latch \in BOOLEAN /\ readying \in BOOLEAN
  /\ task \in [Task -> [pc : {"free", "created", "delay", "aborting"}
                              \cup Preparing \cup InGame \cup Restoring,
                        kind : {"ready", "other", "restore"},
                        stoppedBefore : BOOLEAN]]
  /\ cancelling \subseteq Task
  /\ current \in Task \cup {None}
  /\ deferred \in BOOLEAN /\ restarting \in BOOLEAN
  /\ entering \in 0..MaxEntries /\ booted \in BOOLEAN
  /\ reset \in [Reset -> [pc : {"idle", "lookup", "inactive", "cancelling", "restoring"},
                          task : Task \cup {None}]]
  /\ \A r \in Reset : reset[r].pc # "idle" => reset[r].task # None
  /\ pad \in {"away", "held", "roster", "stale"}
  /\ playing \in BOOLEAN
  /\ asked \in {"stop", "menu", "game"}
  /\ accidents \subseteq {"hungUp", "entryOvertaken", "twoTasks", "stopUndone", "cancelLost"}

NoTask == [pc |-> "free", kind |-> "other", stoppedBefore |-> FALSE]
NoReset == [pc |-> "idle", task |-> None]

Alive(t) == task[t].pc # "free"
Live == current # None /\ Alive(current)

Init ==
  /\ state = "STOPPED" /\ idle = FALSE /\ buttons = TRUE
  /\ latch = FALSE /\ readying = FALSE
  /\ task = [t \in Task |-> NoTask] /\ cancelling = {} /\ current = None
  /\ deferred = FALSE /\ restarting = FALSE
  /\ entering = 0 /\ booted = FALSE
  /\ reset = [r \in Reset |-> NoReset]
  /\ pad = "away"
  /\ playing = FALSE
  /\ asked = "stop" /\ accidents = {}

----------------------------------------------------------------------------
\* Tasks: creation, the restore of the lobby, the end

\* lifecycle_generation is 2 * starts - live, so a snapshot of it goes stale exactly
\* when the current task is replaced or ends.  A stale hold is refused when it arrives.
Moved(p) == CASE p = "held" -> "away"
              [] p = "roster" -> "stale"
              [] OTHER -> p

\* The operator's word is a new one: a stop that was undone before it counts no more.
Word(w) == asked' = w /\ accidents' = accidents \ {"stopUndone"}

\* A new task takes a slot that none of the reset_menu calls R refers to.
Spawn(t, kind, R) ==
  /\ ~Alive(t) /\ \A r \in R : reset[r].task # t
  /\ task' = [task EXCEPT ![t] = [NoTask EXCEPT !.pc = "created", !.kind = kind]]
  /\ current' = t

Leave(t) ==
  /\ task' = [task EXCEPT ![t] = NoTask]
  /\ cancelling' = cancelling \ {t}
  /\ pad' = IF t = current THEN Moved(pad) ELSE pad
  /\ UNCHANGED current

At(t, pc) == task[t].pc = pc /\ t \notin cancelling
Goto(t, pc) == task' = [task EXCEPT ![t].pc = pc] /\ UNCHANGED <<cancelling, current, pad>>

\* The lifecycle's end settles a GAME_STARTING that a deferred StartMenu left.
Settled(t, s) ==
  IF task[t].kind # "restore" /\ deferred /\ s = "GAME_STARTING" THEN "RUNNING" ELSE s

\* Mutant: the restore of before #2379 starts a stopped menu.
BeginRestoreStarting(t) ==
  /\ restarting' = TRUE
  /\ state' = "RUNNING"
  /\ buttons' = TRUE
  /\ Goto(t, "connect")
  /\ UNCHANGED <<idle, latch, readying, deferred>>

\* Mutant: the restore is not marked, so a StartMenu during it leaves GAME_STARTING.
BeginRestoreUnmarked(t) ==
  /\ state' = IF state = "STOPPED" THEN state ELSE "RUNNING"
  /\ buttons' = TRUE
  /\ Goto(t, "connect")
  /\ UNCHANGED <<idle, latch, readying, deferred, restarting>>

\* _restart_lobby up to its first suspension.
BeginRestore(t) ==
  /\ restarting' = TRUE
  /\ state' = IF state = "STOPPED" THEN state ELSE "RUNNING"
  /\ buttons' = TRUE
  /\ Goto(t, "connect")
  /\ UNCHANGED <<idle, latch, readying, deferred>>

----------------------------------------------------------------------------
\* Starting a game

\* _start_game outside a live lifecycle; a force start has set GAME_STARTING.
Accept(t, kind, s) ==
  /\ ~Live
  /\ Spawn(t, kind, Reset)
  /\ state' = s
  /\ UNCHANGED <<idle, buttons, latch, cancelling>>

\* _reject_start_while_active.
Reject ==
  /\ Live
  /\ latch' = FALSE
  /\ UNCHANGED <<state, idle, buttons, task, cancelling, current>>

\* Bound: one ready start at a time sleeps its delay.
AllReady ==
  /\ buttons /\ state = "RUNNING" /\ ~latch /\ ~readying
  /\ latch' = TRUE /\ readying' = TRUE
  /\ UNCHANGED <<state, idle, buttons, task, cancelling, current, deferred, restarting,
                 calls, playing, asked, accidents>>

ReadyStart ==
  /\ readying
  /\ readying' = FALSE
  /\ \/ /\ state = "STOPPED"
        /\ latch' = FALSE
        /\ UNCHANGED <<state, idle, buttons, task, cancelling, current, pad>>
     \/ /\ state # "STOPPED"
        /\ Reject
        /\ UNCHANGED pad
     \/ /\ state # "STOPPED"
        /\ \E t \in Task : Accept(t, "ready", state)
        /\ pad' = Moved(pad)
  /\ UNCHANGED <<deferred, restarting, entering, booted, reset, playing, asked, accidents>>

\* start_game of the web and the ProcessInput trigger, whatever the menu's state.
WebStart ==
  /\ \/ Reject /\ UNCHANGED <<pad, asked, accidents>>
     \/ /\ \E t \in Task : Accept(t, "other", state)
        /\ pad' = Moved(pad)
        /\ Word("game")
  /\ UNCHANGED <<readying, deferred, restarting, entering, booted, reset, playing>>

\* The admin's two-second hold, and a pad that sends no generation; a refusal puts the
\* state back in the same step.
ForceStart ==
  /\ \/ Reject /\ UNCHANGED <<pad, asked, accidents>>
     \/ /\ \E t \in Task : Accept(t, "other", "GAME_STARTING")
        /\ pad' = Moved(pad)
        /\ Word("game")
  /\ UNCHANGED <<readying, deferred, restarting, entering, booted, reset, playing>>

\* The operator sees the lobby (GetMenuStatus) and holds the pad.
PadHold ==
  /\ pad = "away" /\ ~Live
  /\ pad' = "held"
  /\ UNCHANGED <<lobby, task, cancelling, current, deferred, restarting, entering, booted,
                 reset, playing, asked, accidents>>

PadForceStart ==
  /\ pad = "held" /\ ~Live
  /\ pad' = "roster"
  /\ UNCHANGED <<lobby, task, cancelling, current, deferred, restarting, entering, booted,
                 reset, playing, asked, accidents>>

\* After the roster lookup both checks run again.
PadRosterDone ==
  /\ pad \in {"roster", "stale"}
  /\ pad' = "away"
  /\ \/ /\ Live \/ pad = "stale"
        /\ UNCHANGED <<state, idle, buttons, latch, task, cancelling, current, asked,
                       accidents>>
     \/ /\ pad = "roster"
        /\ \E t \in Task : Accept(t, "other", "GAME_STARTING")
        /\ Word("game")
  /\ UNCHANGED <<readying, deferred, restarting, entering, booted, reset, playing>>

----------------------------------------------------------------------------
\* The lifecycle task

Begin(t) ==
  /\ At(t, "created") /\ task[t].kind # "restore"
  /\ deferred' = FALSE
  /\ Goto(t, "delay")
  /\ UNCHANGED <<lobby, restarting, entering, booted, reset, playing, asked, accidents>>

Dropped(t) == task[t].kind = "ready" /\ state = "STOPPED"

\* A StopMenu during the delay drops a ready start.
DropReadyStart(t) ==
  /\ At(t, "delay") /\ Dropped(t)
  /\ latch' = FALSE
  /\ Leave(t)
  /\ UNCHANGED <<state, idle, buttons, readying, deferred, restarting, entering, booted,
                 reset, playing, asked, accidents>>

\* Mutant: the abort leaves GAME_STARTING to nobody.
RosterTooShortStuck(t) ==
  /\ At(t, "delay") /\ ~Dropped(t)
  /\ Goto(t, "aborting")
  /\ UNCHANGED <<lobby, deferred, restarting, entering, booted, reset, playing, asked,
                 accidents>>

\* Mutant: the abort relies on the idle monitor of before the start.
RosterTooShortIdleKept(t) ==
  /\ At(t, "delay") /\ ~Dropped(t)
  /\ state' = IF state = "GAME_STARTING" THEN "RUNNING" ELSE state
  /\ Goto(t, "aborting")
  /\ UNCHANGED <<idle, buttons, latch, readying, deferred, restarting, entering, booted,
                 reset, playing, asked, accidents>>

\* The roster is below the mode's minimum.
RosterTooShort(t) ==
  /\ At(t, "delay") /\ ~Dropped(t)
  /\ state' = IF state = "GAME_STARTING" THEN "RUNNING" ELSE state
  /\ idle' = (idle \/ state = "GAME_STARTING")
  /\ Goto(t, "aborting")
  /\ UNCHANGED <<buttons, latch, readying, deferred, restarting, entering, booted, reset,
                 playing, asked, accidents>>

RosterAborted(t) ==
  /\ At(t, "aborting")
  /\ latch' = FALSE
  /\ state' = Settled(t, state)
  /\ idle' = (idle \/ state' # state)
  /\ Leave(t)
  /\ UNCHANGED <<buttons, readying, deferred, restarting, entering, booted, reset,
                 playing, asked, accidents>>

Prepare(t) ==
  /\ At(t, "delay") /\ ~Dropped(t)
  /\ idle' = FALSE
  /\ task' = [task EXCEPT ![t] = [pc |-> "music", kind |-> "other",
                                 stoppedBefore |-> state = "STOPPED"]]
  /\ accidents' = accidents \ {"entryOvertaken"}
  /\ UNCHANGED <<state, buttons, latch, readying, cancelling, current, deferred, restarting,
                 calls, playing, asked>>

\* Stopping the button monitor cancels its task, and a ready start that sleeps in it.
MusicStopped(t) ==
  /\ At(t, "music")
  /\ buttons' = FALSE /\ readying' = FALSE
  /\ Goto(t, "buttons")
  /\ UNCHANGED <<state, idle, latch, deferred, restarting, entering, booted, reset, playing,
                 asked, accidents>>

\* stop() suppresses the CancelledError of its own await, and with it a cancel of the
\* lifecycle that arrives meanwhile: the game it was to prevent is requested.
Prepared(t) ==
  /\ task[t].pc = "buttons"
  /\ cancelling' = cancelling \ {t}
  /\ UNCHANGED <<current, pad>>
  /\ \/ /\ ~task[t].stoppedBefore /\ state = "STOPPED"
        /\ restarting' = TRUE /\ buttons' = TRUE
        /\ task' = [task EXCEPT ![t] = [NoTask EXCEPT !.pc = "connect"]]
        /\ UNCHANGED <<state, accidents>>
     \/ /\ task[t].stoppedBefore \/ state # "STOPPED"
        /\ state' = "GAME_STARTING"
        /\ task' = [task EXCEPT ![t] = [NoTask EXCEPT !.pc = "open"]]
        /\ accidents' = accidents \cup {a \in {"cancelLost"} : t \in cancelling}
        /\ UNCHANGED <<restarting, buttons>>
  /\ UNCHANGED <<idle, latch, readying, deferred, entering, booted, reset, playing, asked>>

\* The first event: the coordinator started the game.
StartConfirmed(t) ==
  /\ At(t, "open") /\ playing
  /\ Goto(t, "follow")
  /\ UNCHANGED <<lobby, deferred, restarting, entering, booted, reset, playing, asked,
                 accidents>>

\* A start error, an ending event, a game gone at a reconnect, a stream that ends or
\* fails for good: each restores the lobby.
StreamOver(t) ==
  /\ At(t, "open") \/ At(t, "follow")
  /\ BeginRestore(t)
  /\ accidents' = accidents \ {"cancelLost"}
  /\ UNCHANGED <<entering, booted, reset, playing, asked>>

RestoreTask(t) ==
  /\ At(t, "created") /\ task[t].kind = "restore"
  /\ BeginRestore(t)
  /\ UNCHANGED <<entering, booted, reset, playing, asked, accidents>>

\* The button monitor is connected, or its bound is over; state_manager.reset.
Reregister(t) ==
  /\ At(t, "connect")
  /\ latch' = FALSE
  /\ Goto(t, "recolour")
  /\ UNCHANGED <<state, idle, buttons, readying, deferred, restarting, entering, booted,
                 reset, playing, asked, accidents>>

\* The music plays, or its bound is over; the state is read here.
Restored(t) ==
  /\ At(t, "recolour")
  /\ restarting' = FALSE
  /\ state' = Settled(t, state)
  /\ idle' = (idle \/ state # "STOPPED")
  /\ Leave(t)
  /\ UNCHANGED <<buttons, latch, readying, deferred, entering, booted, reset, playing,
                 asked, accidents>>

\* The CancelledError arrives at the task's await.
TaskCancelled(t) ==
  /\ t \in cancelling /\ task[t].pc # "buttons"
  /\ restarting' = (restarting /\ task[t].pc \notin Restoring)
  /\ Leave(t)
  /\ accidents' = accidents \ {"cancelLost"}
  /\ UNCHANGED <<lobby, deferred, entering, booted, reset, playing, asked>>

----------------------------------------------------------------------------
\* The operator's calls

EnterLobby ==
  /\ entering < MaxEntries
  /\ entering' = entering + 1
  /\ state' = "RUNNING"
  /\ latch' = FALSE
  /\ Word("menu")
  /\ UNCHANGED <<idle, buttons, readying, deferred>>

\* start_menu_during_game: only a stopped menu is marked started again.
DeferStartMenu ==
  /\ Live /\ state = "STOPPED"
  /\ state' = IF restarting THEN "RUNNING" ELSE "GAME_STARTING"
  /\ deferred' = TRUE
  /\ Word("menu")
  /\ UNCHANGED <<idle, buttons, latch, readying, entering>>

StartMenu ==
  /\ \/ ~Live /\ state # "RUNNING" /\ EnterLobby
     \/ DeferStartMenu
  /\ UNCHANGED <<task, cancelling, current, restarting, booted, reset, pad, playing>>

\* server.py enters the lobby once at boot unless the menu is already RUNNING.
Boot ==
  /\ ~booted
  /\ booted' = TRUE
  /\ \/ state # "RUNNING" /\ EnterLobby
     \/ UNCHANGED <<lobby, deferred, entering, asked, accidents>>
  /\ UNCHANGED <<task, cancelling, current, restarting, reset, pad, playing>>

\* enter_lobby after its awaits: the idle monitor starts whatever happened meanwhile.
LobbyEntered ==
  /\ entering > 0
  /\ entering' = entering - 1
  /\ idle' = TRUE
  /\ accidents' = IF state # "RUNNING" \/ \E t \in Task : Alive(t)
                  THEN accidents \cup {"entryOvertaken"} ELSE accidents
  /\ UNCHANGED <<state, buttons, latch, readying, task, cancelling, current, deferred,
                 restarting, booted, reset, pad, playing, asked>>

\* The caller of StartMenu goes away: gRPC cancels the handler at its await.
StartMenuHungUp ==
  /\ entering > 0
  /\ entering' = entering - 1
  /\ accidents' = accidents \cup {"hungUp"}
  /\ UNCHANGED <<lobby, task, cancelling, current, deferred, restarting, booted, reset, pad,
                 playing, asked>>

\* A start that goes on although the menu is stopped now: only a ready start looks at
\* the state after its delay, and the preparation compares it with the one it found.
TooLateToStop(t) ==
  \/ task[t].pc \in {"created", "delay"} /\ task[t].kind = "other"
  \/ task[t].pc \in Preparing /\ task[t].stoppedBefore

StopMenu ==
  /\ state # "STOPPED"
  /\ state' = "STOPPED"
  /\ idle' = FALSE
  /\ asked' = "stop"
  /\ accidents' = (accidents \ {"entryOvertaken", "stopUndone"})
                  \cup {a \in {"stopUndone"} : \E t \in Task : TooLateToStop(t)}
  /\ UNCHANGED <<buttons, latch, readying, task, cancelling, current, deferred, restarting,
                 calls, playing>>

----------------------------------------------------------------------------
\* reset_menu

ResetMenu(r) ==
  /\ reset[r].pc = "idle" /\ ~restarting
  /\ \/ /\ Live
        /\ reset' = [reset EXCEPT ![r] = [pc |-> "lookup", task |-> current]]
        /\ UNCHANGED state
     \/ /\ ~Live /\ state = "GAME_STARTING"
        /\ state' = "RUNNING"
        /\ UNCHANGED reset
  /\ UNCHANGED <<idle, buttons, latch, readying, task, cancelling, current, deferred,
                 restarting, entering, booted, pad, playing, asked, accidents>>

ResetStep(r, pc) == reset' = [reset EXCEPT ![r].pc = pc]
ResetOver(r) == reset' = [reset EXCEPT ![r] = NoReset]

\* GetGameState served while no primary game is STARTING or RUNNING.
LookupInactive(r) ==
  /\ reset[r].pc = "lookup" /\ ~playing
  /\ ResetStep(r, "inactive")
  /\ UNCHANGED <<lobby, task, cancelling, current, deferred, restarting, entering, booted,
                 pad, playing, asked, accidents>>

\* A game is active, the lookup failed, or the caller went away.
ResetKept(r) ==
  /\ reset[r].pc = "lookup"
  /\ ResetOver(r)
  /\ UNCHANGED <<lobby, task, cancelling, current, deferred, restarting, entering, booted,
                 pad, playing, asked, accidents>>

\* Mutant: reset_menu waits for the lifecycle without cancelling it.
CancelLifecycleForgotten(r) ==
  /\ reset[r].pc = "inactive"
  /\ IF current = reset[r].task /\ Alive(current)
     THEN ResetStep(r, "cancelling")
     ELSE ResetOver(r)
  /\ UNCHANGED <<lobby, task, cancelling, current, deferred, restarting, entering, booted,
                 pad, playing, asked, accidents>>

CancelLifecycle(r) ==
  /\ reset[r].pc = "inactive"
  /\ IF current = reset[r].task /\ Alive(current)
     THEN ResetStep(r, "cancelling") /\ cancelling' = cancelling \cup {current}
     ELSE ResetOver(r) /\ UNCHANGED cancelling
  /\ UNCHANGED <<lobby, task, current, deferred, restarting, entering, booted, pad, playing,
                 asked, accidents>>

\* The cancelled task has ended; the restore becomes the lifecycle task.
RestoreByReset(r) ==
  /\ reset[r].pc = "cancelling" /\ ~Alive(reset[r].task)
  /\ \E t \in Task :
        /\ Spawn(t, "restore", Reset \ {r})
        /\ reset' = [reset EXCEPT ![r] = [pc |-> "restoring", task |-> t]]
  /\ pad' = Moved(pad)
  /\ accidents' = IF Live THEN accidents \cup {"twoTasks"} ELSE accidents
  /\ UNCHANGED <<lobby, cancelling, deferred, restarting, entering, booted, playing, asked>>

ResetDone(r) ==
  /\ reset[r].pc = "restoring" /\ ~Alive(reset[r].task)
  /\ current' = IF current = reset[r].task THEN None ELSE current
  /\ ResetOver(r)
  /\ UNCHANGED <<lobby, task, cancelling, deferred, restarting, entering, booted, pad,
                 playing, asked, accidents>>

\* The caller of reset_menu goes away: the cancel reaches the task the handler awaits.
ResetHungUp(r) ==
  /\ reset[r].pc \in {"cancelling", "restoring"} /\ Alive(reset[r].task)
  /\ cancelling' = cancelling \cup {reset[r].task}
  /\ accidents' = accidents \cup {"hungUp"}
  /\ UNCHANGED <<lobby, task, current, deferred, restarting, entering, booted, reset, pad,
                 playing, asked>>

----------------------------------------------------------------------------
\* The coordinator

GameAdmitted ==
  /\ ~playing /\ \E t \in Task : task[t].pc = "open"
  /\ playing' = TRUE
  /\ UNCHANGED <<lobby, task, cancelling, current, deferred, restarting, calls, asked,
                 accidents>>

GameOver ==
  /\ playing
  /\ playing' = FALSE
  /\ UNCHANGED <<lobby, task, cancelling, current, deferred, restarting, calls, asked,
                 accidents>>

\* Bound: what two tasks do to one another is not followed.
Followed == "twoTasks" \notin accidents

Next ==
  \/ Followed /\ AllReady
  \/ Followed /\ ReadyStart
  \/ Followed /\ WebStart
  \/ Followed /\ ForceStart
  \/ Followed /\ PadHold
  \/ Followed /\ PadForceStart
  \/ Followed /\ PadRosterDone
  \/ \E t \in Task : Followed /\ Begin(t)
  \/ \E t \in Task : Followed /\ DropReadyStart(t)
  \/ \E t \in Task : Followed /\ RosterTooShort(t)
  \/ \E t \in Task : Followed /\ RosterAborted(t)
  \/ \E t \in Task : Followed /\ Prepare(t)
  \/ \E t \in Task : Followed /\ MusicStopped(t)
  \/ \E t \in Task : Followed /\ Prepared(t)
  \/ \E t \in Task : Followed /\ StartConfirmed(t)
  \/ \E t \in Task : Followed /\ StreamOver(t)
  \/ \E t \in Task : Followed /\ RestoreTask(t)
  \/ \E t \in Task : Followed /\ Reregister(t)
  \/ \E t \in Task : Followed /\ Restored(t)
  \/ \E t \in Task : Followed /\ TaskCancelled(t)
  \/ Followed /\ StartMenu
  \/ Followed /\ Boot
  \/ Followed /\ LobbyEntered
  \/ Followed /\ StartMenuHungUp
  \/ Followed /\ StopMenu
  \/ \E r \in Reset : Followed /\ ResetMenu(r)
  \/ \E r \in Reset : Followed /\ LookupInactive(r)
  \/ \E r \in Reset : Followed /\ ResetKept(r)
  \/ \E r \in Reset : Followed /\ CancelLifecycle(r)
  \/ \E r \in Reset : Followed /\ RestoreByReset(r)
  \/ \E r \in Reset : Followed /\ ResetDone(r)
  \/ \E r \in Reset : Followed /\ ResetHungUp(r)
  \/ Followed /\ GameAdmitted
  \/ Followed /\ GameOver

Spec == Init /\ [][Next]_vars

----------------------------------------------------------------------------
\* Fairness: every await of the menu's own is bounded (0.1 s and 0.3 s sleeps, 2 s audio
\* and GetGameState deadlines, 10 s restore steps); a game's stream may stay silent.
OwnStep(t) ==
  \/ Begin(t) \/ DropReadyStart(t) \/ RosterTooShort(t) \/ RosterAborted(t) \/ Prepare(t)
  \/ MusicStopped(t) \/ Prepared(t) \/ RestoreTask(t) \/ Reregister(t) \/ Restored(t)
  \/ TaskCancelled(t)

ResetStepOn(r) ==
  \/ LookupInactive(r) \/ ResetKept(r) \/ CancelLifecycle(r)
  \/ RestoreByReset(r) \/ ResetDone(r)

FairSpec ==
  /\ Spec
  /\ \A t \in Task : WF_vars(Followed /\ OwnStep(t))
  /\ \A r \in Reset : WF_vars(Followed /\ ResetStepOn(r))

----------------------------------------------------------------------------
\* Properties

AtRest ==
  /\ \A t \in Task : ~Alive(t)
  /\ \A r \in Reset : reset[r].pc = "idle"
  /\ entering = 0 /\ ~readying

\* No caller of StartMenu or reset_menu went away in the middle, and no start came
\* between the end of a cancelled task and the restore that replaces it.
Undisturbed == accidents \cap {"hungUp", "twoTasks"} = {}

\* However lifecycles, resets, stops and starts interleave, a menu at rest is a whole
\* lobby when RUNNING: idle monitor and button monitor run and the ready latch is free
\* (_run_game_lifecycle: "A RUNNING menu has its idle monitor"), unless a caller went away
\* in the middle of a StartMenu or reset_menu; and when STOPPED its idle monitor sleeps,
\* unless the stop overtook a lobby entry.
LobbyWhole ==
  AtRest =>
    /\ state = "RUNNING" /\ "hungUp" \notin accidents => idle /\ buttons /\ ~latch
    /\ state = "STOPPED" /\ "entryOvertaken" \notin accidents => ~idle

\* StartMenu and StopMenu during a lifecycle: the last one wins once it is over (UC-010
\* A11, A12).
LastWordWins ==
  AtRest => /\ asked = "stop" => state = "STOPPED"
            /\ asked = "menu" => state = "RUNNING"

\* ... which the code keeps but for a StopMenu that comes too late for a start it does
\* not undo (before the preparation of a start that is no ready start, or during the
\* preparation of one that found the menu stopped), and but for the two accidents below.
LastWordKept == "stopUndone" \notin accidents /\ Undisturbed => LastWordWins

\* GAME_STARTING never outlives the start it stands for: a task that is to leave it, or
\* a reset_menu that is to, is always there (UC-010 A12: "however the lifecycle ends").
StartNotStuck ==
  state = "GAME_STARTING" /\ Undisturbed
    => \/ \E t \in Task : Alive(t)
       \/ \E r \in Reset : reset[r].pc # "idle"

\* One lifecycle task at a time (UC-010 BR-008), but for a start that enters between the
\* end of a cancelled task and reset_menu's restore.
OneLifecycle ==
  "twoTasks" \notin accidents => \A t \in Task : Alive(t) => t = current

\* While a game is requested or followed the lobby is quiet: the button monitor is off,
\* and the idle monitor unless a lobby entry was overtaken.
QuietInGame ==
  (\E t \in Task : task[t].pc \in InGame) /\ "twoTasks" \notin accidents
    => /\ ~buttons
       /\ idle => "entryOvertaken" \in accidents

\* lifecycle_generation has another value after the step: the current task lives where it
\* did not, or lives no more, or is another one.
GenerationMoves == Live' # Live \/ (Live' /\ current' # current)

\* A pad start that sent a generation starts the lobby its operator held (UC-015 A5):
\* whatever step moves the generation, a hold is refused from then on and a start at its
\* roster lookup is stale, but for the start that the pad itself makes; and a stale one
\* ends without a start.
PadStartsHeldLobby ==
  [][/\ GenerationMoves => CASE pad = "held" -> pad' = "away"
                             [] pad = "roster" -> pad' = "stale" \/ (Live' /\ pad' = "away")
                             [] OTHER -> pad' = pad
     /\ pad = "stale" /\ ~GenerationMoves => pad' \in {"stale", "away"}]_vars

\* A reset_menu that cancels a lifecycle gives the lobby back and answers (UC-010 BR-008),
\* although the game that hangs never ends; when the cancel was swallowed because the
\* button monitor just stopped, the lifecycle's game goes on and it answers after that.
ResetRecovers ==
  \A r \in Reset :
    reset[r].pc = "cancelling"
      ~> reset[r].pc = "idle" \/ accidents \cap {"twoTasks", "cancelLost"} # {}

\* A start leaves GAME_STARTING again unless its game goes on.
StartSettles ==
  state = "GAME_STARTING"
    ~> \/ state # "GAME_STARTING" \/ ~Undisturbed
       \/ \E t \in Task : task[t].pc \in InGame

----------------------------------------------------------------------------
\* What OneLifecycle, QuietInGame and StartNotStuck rest on

\* The button monitor is off once it was stopped for a game.
ButtonsOff == Followed => \A t \in Task : task[t].pc = "buttons" => ~buttons

\* So is the idle monitor while a game is prepared.
IdleOff ==
  Followed => \A t \in Task :
    task[t].pc \in Preparing => (idle => "entryOvertaken" \in accidents)

\* Only a StartMenu leaves GAME_STARTING to an abort, which settles it.
AbortSettles ==
  Followed => \A t \in Task :
    task[t].pc = "aborting" /\ state = "GAME_STARTING" => deferred

\* A restore task has no roster.
KindKept == \A t \in Task : task[t].pc \in {"delay", "aborting"} => task[t].kind # "restore"

\* A restore is marked as such and never leaves GAME_STARTING behind.
RestoreMarked ==
  Followed => \A t \in Task :
    task[t].pc \in Restoring => restarting /\ state # "GAME_STARTING"

\* A cancel is on its way to a task that runs, and a reset_menu waits for it.
CancelOwned ==
  \A t \in cancelling :
    /\ Alive(t)
    /\ Undisturbed => \E r \in Reset : reset[r].pc = "cancelling" /\ reset[r].task = t

\* GAME_STARTING has a task, or a reset_menu that is about to create its restore.
StartOwed ==
  state = "GAME_STARTING" /\ Undisturbed
    => \/ \E t \in Task : Alive(t)
       \/ \E r \in Reset : reset[r].pc = "cancelling"

----------------------------------------------------------------------------
\* What LobbyWhole and LastWordKept rest on

\* A restore of the lobby is on its way: a reset_menu that will create it, or its task.
RestoreDue ==
  \/ \E r \in Reset : reset[r].pc = "cancelling"
  \/ \E t \in Task : task[t].pc = "created" /\ task[t].kind = "restore"

\* The mark of a restore is the one of a task that is at it.
RestartOwned == Followed /\ restarting => \E t \in Task : task[t].pc \in Restoring

\* Whoever put the idle monitor of a RUNNING menu to sleep, and whoever started the menu
\* while it slept, leaves somebody who wakes it.
IdleOwed ==
  state = "RUNNING" /\ Undisturbed
    => \/ idle \/ entering > 0 \/ RestoreDue
       \/ \E t \in Task : task[t].pc \in Preparing \cup InGame \cup Restoring

\* The button monitor is off only for a game, or until the restore that follows it.
ButtonsOwed ==
  Undisturbed
    => \/ buttons \/ RestoreDue
       \/ \E t \in Task : task[t].pc \in {"buttons"} \cup InGame

\* A latch that is set has a start that will release it, or a restore.
LatchOwed ==
  latch /\ Undisturbed
    => \/ readying \/ RestoreDue
       \/ \E t \in Task : Alive(t) /\ task[t].pc # "recolour"

\* The idle monitor of a stopped menu sleeps.
IdleStopped == state = "STOPPED" /\ idle => "entryOvertaken" \in accidents

\* A menu stopped last stays so, and no task is left that would undo it.
StopHeld ==
  asked = "stop" /\ "stopUndone" \notin accidents
    => state = "STOPPED" /\ \A t \in Task : ~TooLateToStop(t)

\* A menu started last is not stopped again.
MenuHeld == asked = "menu" => state # "STOPPED"

\* Two tasks are never both at their end.
SecondTask == Followed \/ \E t \in Task : Alive(t)

\* What the menu's parts owe one another.
OwedInv ==
  /\ RestartOwned /\ IdleOwed /\ ButtonsOwed /\ LatchOwed
  /\ IdleStopped /\ StopHeld /\ MenuHeld /\ SecondTask

\* The inductive invariant of the menu's lifecycles.
MenuInv ==
  /\ TypeOK /\ OneLifecycle /\ QuietInGame
  /\ ButtonsOff /\ IdleOff /\ AbortSettles /\ KindKept /\ RestoreMarked
  /\ CancelOwned /\ StartOwed /\ OwedInv
=============================================================================
