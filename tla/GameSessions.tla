---------------------------- MODULE GameSessions ----------------------------
(***************************************************************************)
(* The session registry of the game coordinator: GameCoordinatorServicer   *)
(* (services/game_coordinator/servicer.py) and its GameSessions            *)
(* (game_session.py).                                                      *)
(*                                                                         *)
(* Two kinds of actors share the state.  The servicer runs on one asyncio  *)
(* loop: what it does between two awaits is one action here.  Every        *)
(* admitted game runs in a thread of its own, and each of that thread's    *)
(* accesses to shared state (a lock section, a publish) is one action.     *)
(*                                                                         *)
(* A session is named by the start request that may create it: the menu's  *)
(* starts are Real, the agent's are Shadow.                                *)
(***************************************************************************)
EXTENDS Integers, FiniteSets

CONSTANTS
  Real,                \* start requests with GAME_ORIGIN_MENU
  Shadow,              \* start requests of every other origin
  None,                \* no session
  MaxShadowGames,      \* the max_shadow_games flag
  MaxConcurrentGames,  \* the max_concurrent_games flag
  ShadowPolicy         \* the shadow_policy flag

ASSUME SessionsAssumption ==
  /\ Real \cap Shadow = {}
  /\ None \notin Real \cup Shadow
  /\ MaxShadowGames \in Nat \ {0}
  /\ MaxConcurrentGames \in Nat \ {0}
  /\ ShadowPolicy \in {"block", "allow"}

Session == Real \cup Shadow

VARIABLES
  start,        \* where the coroutine of each start request stands
  todo,         \* the shadows a preemption pass has not reached yet
  awaits,       \* the shadow whose end task a preemption pass awaits, None
                \* once that task is done
  sessions,     \* the registry (its keys)
  primary,      \* _primary_game_id
  gameState,    \* game_state of each session, "NONE" before admission
  gameRunning,  \* game_running
  forceEnding,  \* _force_ending
  currentGame,  \* current_game is set
  endTask,      \* the session's task in _session_endings
  stopQueued,   \* game.force_end is queued on the game's loop
  stopped,      \* game.force_end was applied: the game knows it has to stop
  thread,       \* where the game thread stands
  admitted,     \* the thread's local: game_running before the provider wait
  ends,         \* how often flag_service.end was called for the game
  misrouted     \* history: a primary-bus event moved another session's state

threadVars == <<thread, admitted, currentGame, stopped>>
vars == <<start, todo, awaits, sessions, primary, gameState, gameRunning,
          forceEnding, currentGame, endTask, stopQueued, stopped, thread,
          admitted, ends, misrouted>>

Passing == {"preempt0", "preempt1", "evict"}
InGame == {"init", "music", "play", "teardown"}

TypeOK ==
  /\ start \in [Session -> {"idle", "register", "started", "refused", "aborted"}
                             \cup Passing]
  /\ todo \in [Session -> SUBSET Shadow]
  /\ awaits \in [Session -> Shadow \cup {None}]
  /\ sessions \subseteq Session
  /\ primary \in Real \cup {None}
  /\ gameState \in [Session -> {"NONE", "STARTING", "RUNNING", "ENDED"}]
  /\ gameRunning \in [Session -> BOOLEAN]
  /\ forceEnding \in [Session -> BOOLEAN]
  /\ currentGame \in [Session -> BOOLEAN]
  /\ endTask \in [Session -> {"none", "scheduled", "waiting"}]
  /\ stopQueued \in [Session -> BOOLEAN]
  /\ stopped \in [Session -> BOOLEAN]
  /\ thread \in [Session -> {"none", "connect", "wait", "build", "failing",
                             "exit", "hook", "gone"} \cup InGame]
  /\ admitted \in [Session -> BOOLEAN]
  /\ ends \in [Session -> Nat]
  /\ misrouted \in BOOLEAN

Init ==
  /\ start = [s \in Session |-> "idle"]
  /\ todo = [s \in Session |-> {}]
  /\ awaits = [s \in Session |-> None]
  /\ sessions = {}
  /\ primary = None
  /\ gameState = [s \in Session |-> "NONE"]
  /\ gameRunning = [s \in Session |-> FALSE]
  /\ forceEnding = [s \in Session |-> FALSE]
  /\ currentGame = [s \in Session |-> FALSE]
  /\ endTask = [s \in Session |-> "none"]
  /\ stopQueued = [s \in Session |-> FALSE]
  /\ stopped = [s \in Session |-> FALSE]
  /\ thread = [s \in Session |-> "none"]
  /\ admitted = [s \in Session |-> FALSE]
  /\ ends = [s \in Session |-> 0]
  /\ misrouted = FALSE

-----------------------------------------------------------------------------
(* Helpers shared by the handlers. *)

Live(s) == gameState[s] \in {"STARTING", "RUNNING"}

LiveShadows == {s \in sessions \cap Shadow : Live(s)}

HasLiveRealGame == primary # None /\ Live(primary)

\* The end of s is reported to the flag service unless it already was.
QueueEnd(e, s) == IF e[s] = 0 THEN [e EXCEPT ![s] = 1] ELSE e

\* Drop s from the registry, report its end and free the primary slot.
Retire(s) ==
  IF s \in sessions
  THEN /\ sessions' = sessions \ {s}
       /\ ends' = QueueEnd(ends, s)
       /\ primary' = IF primary = s THEN None ELSE primary
  ELSE UNCHANGED <<sessions, ends, primary>>

\* A real game publishes on the one persistent primary bus, whose state sync
\* goes to whichever session holds the primary slot; a shadow's bus is its own.
SyncTarget(s) == IF s \in Real THEN primary ELSE s

\* The session states gs after s publishes an event that sets state v.
Synced(gs, s, v) ==
  IF SyncTarget(s) = None THEN gs ELSE [gs EXCEPT ![SyncTarget(s)] = v]

NoteRoute(s) == misrouted' = (misrouted \/ SyncTarget(s) \notin {s, None})

-----------------------------------------------------------------------------
(* Starting a game. *)

\* What the sweep at the head of an admission leaves registered.
Swept == {s \in sessions : gameState[s] # "ENDED"}

SlotAfterSweep == IF primary \in Swept THEN primary ELSE None

SweptEnds == [s \in Session |->
                IF s \in sessions \ Swept /\ ends[s] = 0 THEN 1 ELSE ends[s]]

ShadowCap == IF MaxShadowGames < MaxConcurrentGames
             THEN MaxShadowGames ELSE MaxConcurrentGames

\* Fault: the single-game guard of real starts is missing.
CapFullByCount(s) ==
  \/ s \in Shadow /\ Cardinality(Swept \cap Shadow) >= ShadowCap
  \/ Cardinality(Swept) >= MaxConcurrentGames

CapFull(s) ==
  \/ s \in Real /\ SlotAfterSweep # None
  \/ s \in Shadow /\ Cardinality(Swept \cap Shadow) >= ShadowCap
  \/ Cardinality(Swept) >= MaxConcurrentGames

\* The end task of x: the one under way, or a new one.
ScheduleEnd(x) ==
  endTask' = [endTask EXCEPT ![x] = IF @ = "none" THEN "scheduled" ELSE @]

\* A preemption pass over the shadows in xs, standing at pc, ends the first.
BeginPass(s, xs, pc) ==
  \E x \in xs :
    /\ start' = [start EXCEPT ![s] = pc]
    /\ awaits' = [awaits EXCEPT ![s] = x]
    /\ todo' = [todo EXCEPT ![s] = xs \ {x}]
    /\ ScheduleEnd(x)

LeavePass(s, pc) ==
  /\ start' = [start EXCEPT ![s] = pc]
  /\ UNCHANGED <<todo, awaits, endTask>>

\* Fault: no second pass after the admission.
AdmitWithoutEviction(s) ==
  /\ ~CapFull(s)
  /\ sessions' = Swept \cup {s}
  /\ primary' = IF s \in Real THEN s ELSE SlotAfterSweep
  /\ ends' = SweptEnds
  /\ gameState' = [gameState EXCEPT ![s] = "STARTING"]
  /\ LeavePass(s, "register")

\* The start is registered.  A real start goes on with a second pass over the
\* shadows registered by now, which no longer can see one slip in.
Admit(s) ==
  /\ ~CapFull(s)
  /\ sessions' = Swept \cup {s}
  /\ primary' = IF s \in Real THEN s ELSE SlotAfterSweep
  /\ ends' = SweptEnds
  /\ gameState' = [gameState EXCEPT ![s] = "STARTING"]
  /\ IF s \in Real /\ Swept \cap Shadow # {}
     THEN BeginPass(s, Swept \cap Shadow, "evict")
     ELSE LeavePass(s, "register")

\* No room: a real start preempts once more, any other start is refused.
TurnAway(s, attempt) ==
  /\ CapFull(s)
  /\ sessions' = Swept
  /\ primary' = SlotAfterSweep
  /\ ends' = SweptEnds
  /\ IF s \in Real /\ attempt = 0 /\ LiveShadows # {}
     THEN BeginPass(s, LiveShadows, "preempt1")
     ELSE LeavePass(s, "refused")
  /\ UNCHANGED gameState

TryAdmit(s, attempt) ==
  /\ Admit(s) \/ TurnAway(s, attempt)
  /\ UNCHANGED <<gameRunning, forceEnding, stopQueued, misrouted>>
  /\ UNCHANGED threadVars

StartShadow(s) ==
  /\ s \in Shadow
  /\ start[s] = "idle"
  /\ ~(HasLiveRealGame /\ ShadowPolicy = "block")
  /\ TryAdmit(s, 0)

RefuseShadow(s) ==
  /\ s \in Shadow
  /\ start[s] = "idle"
  /\ HasLiveRealGame /\ ShadowPolicy = "block"
  /\ start' = [start EXCEPT ![s] = "refused"]
  /\ UNCHANGED <<todo, awaits, sessions, primary, gameState, gameRunning,
                 forceEnding, endTask, stopQueued, ends, misrouted>>
  /\ UNCHANGED threadVars

StartReal(s) ==
  /\ s \in Real
  /\ start[s] = "idle"
  /\ IF LiveShadows = {}
     THEN TryAdmit(s, 0)
     ELSE /\ BeginPass(s, LiveShadows, "preempt0")
          /\ UNCHANGED <<sessions, primary, gameState, gameRunning,
                         forceEnding, stopQueued, ends, misrouted>>
          /\ UNCHANGED threadVars

\* The awaited end is over: on to the next shadow of the snapshot.
NextInPass(s) ==
  /\ start[s] \in Passing
  /\ awaits[s] = None
  /\ todo[s] # {}
  /\ BeginPass(s, todo[s], start[s])
  /\ UNCHANGED <<sessions, primary, gameState, gameRunning, forceEnding,
                 stopQueued, ends, misrouted>>
  /\ UNCHANGED threadVars

\* The pass is over: admit, or go on to the registration.
PassDone(s) ==
  /\ start[s] \in Passing
  /\ awaits[s] = None
  /\ todo[s] = {}
  /\ \/ start[s] = "preempt0" /\ TryAdmit(s, 0)
     \/ start[s] = "preempt1" /\ TryAdmit(s, 1)
     \/ /\ start[s] = "evict"
        /\ LeavePass(s, "register")
        /\ UNCHANGED <<sessions, primary, gameState, gameRunning, forceEnding,
                       stopQueued, ends, misrouted>>
        /\ UNCHANGED threadVars

\* The flag-service registration returned (in time or not): the thread starts.
FinishStart(s) ==
  /\ start[s] = "register"
  /\ start' = [start EXCEPT ![s] = "started"]
  /\ gameRunning' = [gameRunning EXCEPT ![s] = TRUE]
  /\ thread' = [thread EXCEPT ![s] = "connect"]
  /\ UNCHANGED <<todo, awaits, sessions, primary, gameState, forceEnding,
                 currentGame, endTask, stopQueued, stopped, admitted, ends,
                 misrouted>>

\* The client cancelled, or the start raised, after the admission.
AbortStart(s) ==
  /\ start[s] \in {"evict", "register"}
  /\ start' = [start EXCEPT ![s] = "aborted"]
  /\ gameRunning' = [gameRunning EXCEPT ![s] = FALSE]
  /\ gameState' = [gameState EXCEPT ![s] = "ENDED"]
  /\ todo' = [todo EXCEPT ![s] = {}]
  /\ awaits' = [awaits EXCEPT ![s] = None]
  /\ Retire(s)
  /\ UNCHANGED <<forceEnding, endTask, stopQueued, misrouted>>
  /\ UNCHANGED threadVars

\* The client cancelled during the preemption: the ends under way go on.
CancelStart(s) ==
  /\ start[s] \in {"preempt0", "preempt1"}
  /\ start' = [start EXCEPT ![s] = "aborted"]
  /\ todo' = [todo EXCEPT ![s] = {}]
  /\ awaits' = [awaits EXCEPT ![s] = None]
  /\ UNCHANGED <<sessions, primary, gameState, gameRunning,
                 forceEnding, endTask, stopQueued, ends, misrouted>>
  /\ UNCHANGED threadVars

-----------------------------------------------------------------------------
(* Ending a session from outside. *)

\* ForceEndGame, or the agent's end_game, for a registered session.
RequestEnd(s) ==
  /\ s \in sessions
  /\ endTask[s] = "none"
  /\ ScheduleEnd(s)
  /\ UNCHANGED <<start, todo, awaits, sessions, primary, gameState,
                 gameRunning, forceEnding, stopQueued, ends, misrouted>>
  /\ UNCHANGED threadVars

\* The end task of s is over: whoever awaits it goes on.
TaskOver(s) ==
  /\ endTask' = [endTask EXCEPT ![s] = "none"]
  /\ awaits' = [p \in Session |-> IF awaits[p] = s THEN None ELSE awaits[p]]

\* The session is ENDED, game_force_ended goes out on its bus, and the session
\* is retired if it still is registered; no await in between.
EndCompletes(s) ==
  /\ TaskOver(s)
  /\ gameState' = Synced([gameState EXCEPT ![s] = "ENDED"], s, "ENDED")
  /\ NoteRoute(s)
  /\ Retire(s)

ThreadAlive(s) == thread[s] \notin {"none", "gone"}

EndRefused(s) ==
  /\ endTask[s] = "scheduled"
  /\ ~Live(s) \/ forceEnding[s]
  /\ TaskOver(s)
  /\ UNCHANGED <<start, todo, sessions, primary, gameState,
                 gameRunning, forceEnding, stopQueued, ends, misrouted>>
  /\ UNCHANGED threadVars

\* force_end claims the session.  With a game it queues the game's force_end
\* on the game's loop; with a live thread it waits for it, else it is done.
EndBegins(s) ==
  /\ endTask[s] = "scheduled"
  /\ Live(s) /\ ~forceEnding[s]
  /\ forceEnding' = [forceEnding EXCEPT ![s] = TRUE]
  /\ gameRunning' = [gameRunning EXCEPT ![s] = FALSE]
  /\ stopQueued' = [stopQueued EXCEPT ![s] = currentGame[s]]
  /\ IF ThreadAlive(s)
     THEN /\ endTask' = [endTask EXCEPT ![s] = "waiting"]
          /\ UNCHANGED <<awaits, sessions, primary, gameState, ends, misrouted>>
     ELSE EndCompletes(s)
  /\ UNCHANGED <<start, todo>>
  /\ UNCHANGED threadVars

\* Fault: the join has no time limit.
EndJoined(s) ==
  /\ endTask[s] = "waiting"
  /\ thread[s] = "gone"
  /\ EndCompletes(s)
  /\ UNCHANGED <<start, todo, gameRunning, forceEnding, stopQueued>>
  /\ UNCHANGED threadVars

\* The thread ended or the 2 s are over; a force_end still queued stays queued.
EndWaited(s) ==
  /\ endTask[s] = "waiting"
  /\ EndCompletes(s)
  /\ UNCHANGED <<start, todo, gameRunning, forceEnding, stopQueued>>
  /\ UNCHANGED threadVars

-----------------------------------------------------------------------------
(* The game thread. *)

Goto(s, pc) == thread' = [thread EXCEPT ![s] = pc]

\* A thread step that leaves the servicer's tasks and the registry alone.
OnlyThread == UNCHANGED <<start, todo, awaits, endTask, sessions, primary,
                          forceEnding, ends>>

\* The clients do not connect, or the factory rejects the mode: the session is
\* ENDED at once and game_error follows.
CannotRun(s) ==
  /\ thread[s] \in {"connect", "build"}
  /\ gameState' = [gameState EXCEPT ![s] = "ENDED"]
  /\ Goto(s, "failing")
  /\ OnlyThread
  /\ UNCHANGED <<gameRunning, currentGame, stopQueued, stopped, admitted,
                 misrouted>>

Connected(s) ==
  /\ thread[s] = "connect"
  /\ admitted' = [admitted EXCEPT ![s] = gameRunning[s]]
  /\ Goto(s, "wait")
  /\ OnlyThread
  /\ UNCHANGED <<gameState, gameRunning, currentGame, stopQueued, stopped,
                 misrouted>>

\* The flag providers are READY or the wait timed out.
ProvidersAwaited(s) ==
  /\ thread[s] = "wait"
  /\ Goto(s, IF admitted[s] /\ ~gameRunning[s] THEN "exit" ELSE "build")
  /\ OnlyThread
  /\ UNCHANGED <<gameState, gameRunning, currentGame, stopQueued, stopped,
                 admitted, misrouted>>

\* Fault: the built game is not checked against a force end.
GameBuiltUnchecked(s) ==
  /\ thread[s] = "build"
  /\ Goto(s, "init") /\ currentGame' = [currentGame EXCEPT ![s] = TRUE]
  /\ OnlyThread
  /\ UNCHANGED <<gameState, gameRunning, stopQueued, stopped, admitted,
                 misrouted>>

\* The game is built; it runs unless a force end came first.
GameBuilt(s) ==
  /\ thread[s] = "build"
  /\ IF forceEnding[s]
     THEN Goto(s, "exit") /\ UNCHANGED currentGame
     ELSE Goto(s, "init") /\ currentGame' = [currentGame EXCEPT ![s] = TRUE]
  /\ OnlyThread
  /\ UNCHANGED <<gameState, gameRunning, stopQueued, stopped, admitted,
                 misrouted>>

\* The game's loop takes the queued force_end between two of its awaits.
TakeForceEnd(s) ==
  /\ stopQueued[s] /\ thread[s] \in InGame
  /\ stopped' = [stopped EXCEPT ![s] = TRUE]
  /\ stopQueued' = [stopQueued EXCEPT ![s] = FALSE]
  /\ OnlyThread
  /\ UNCHANGED <<gameState, gameRunning, thread, currentGame, admitted,
                 misrouted>>

\* The initialization is over.  A force-ended game skips the start; some modes
\* skip the teardown too.
Initialized(s) ==
  /\ thread[s] = "init"
  /\ IF stopped[s]
     THEN Goto(s, "teardown") \/ Goto(s, "exit")
     ELSE Goto(s, "music")
  /\ OnlyThread
  /\ UNCHANGED <<gameState, gameRunning, currentGame, stopQueued, stopped,
                 admitted, misrouted>>

\* Countdown and game loop end: a winner, the time limit, or a force end.
GameOver(s) ==
  /\ thread[s] = "play"
  /\ Goto(s, "teardown") \/ (stopped[s] /\ Goto(s, "exit"))
  /\ OnlyThread
  /\ UNCHANGED <<gameState, gameRunning, currentGame, stopQueued, stopped,
                 admitted, misrouted>>

\* One publish by the game thread that moves a session state.
Publish(s, state, next) ==
  /\ gameState' = Synced(gameState, s, state)
  /\ NoteRoute(s)
  /\ Goto(s, next)
  /\ OnlyThread
  /\ UNCHANGED <<gameRunning, currentGame, stopQueued, stopped, admitted>>

PublishStarted(s) == thread[s] = "music" /\ Publish(s, "RUNNING", "play")

PublishEnded(s) == thread[s] = "teardown" /\ Publish(s, "ENDED", "exit")

\* game_error: of a game that cannot run, or of a run that raised.
PublishError(s) ==
  /\ thread[s] \in {"failing"} \cup InGame
  /\ Publish(s, "ENDED", "exit")

\* The finally block of the thread, under the session's lock ...
Exit(s) ==
  /\ thread[s] = "exit"
  /\ gameRunning' = [gameRunning EXCEPT ![s] = FALSE]
  /\ currentGame' = [currentGame EXCEPT ![s] = FALSE]
  /\ gameState' = [gameState EXCEPT ![s] = "ENDED"]
  /\ Goto(s, "hook")
  /\ OnlyThread
  /\ UNCHANGED <<stopQueued, stopped, admitted, misrouted>>

\* Fault: the thread leaves the report to the next start's sweep.
OnGameEndedSilent(s) ==
  /\ thread[s] = "hook"
  /\ Goto(s, "gone")
  /\ UNCHANGED <<start, todo, awaits, endTask, sessions, primary, gameState,
                 gameRunning, forceEnding, currentGame, stopQueued, stopped,
                 admitted, ends, misrouted>>

\* ... and its hook, under the registry's lock.
OnGameEnded(s) ==
  /\ thread[s] = "hook"
  /\ ends' = QueueEnd(ends, s)
  /\ Goto(s, "gone")
  /\ UNCHANGED <<start, todo, awaits, endTask, sessions, primary, gameState,
                 gameRunning, forceEnding, currentGame, stopQueued, stopped,
                 admitted, misrouted>>

-----------------------------------------------------------------------------
StartStep(s) == NextInPass(s) \/ PassDone(s) \/ FinishStart(s)

EndStep(s) == EndRefused(s) \/ EndBegins(s) \/ EndWaited(s)

ThreadStep(s) ==
  \/ CannotRun(s) \/ Connected(s) \/ ProvidersAwaited(s) \/ GameBuilt(s)
  \/ TakeForceEnd(s) \/ Initialized(s) \/ GameOver(s) \/ PublishStarted(s)
  \/ PublishEnded(s) \/ PublishError(s) \/ Exit(s) \/ OnGameEnded(s)

Request(s) ==
  \/ StartShadow(s) \/ RefuseShadow(s) \/ StartReal(s)
  \/ AbortStart(s) \/ CancelStart(s) \/ RequestEnd(s)

Next == \E s \in Session : Request(s) \/ StartStep(s) \/ EndStep(s) \/ ThreadStep(s)

Spec == Init /\ [][Next]_vars

\* The servicer's loop keeps running its coroutines: every await there is
\* bounded (200 ms for the registration, 2 s for an end).
ServicerFairness ==
  \A s \in Session : WF_vars(StartStep(s)) /\ WF_vars(EndStep(s))

\* A game thread that is scheduled, and a game that comes to its end.
ThreadFairness == \A s \in Session : WF_vars(ThreadStep(s))

FairSpec == Spec /\ ServicerFairness

-----------------------------------------------------------------------------
(* Properties. *)

\* The primary slot and the registry agree: the slot names a registered
\* session, and a registered real session holds the slot.  A slot that outlived
\* its session would refuse every real start; a real session without it would
\* run beside the next one.
PrimarySlot == sessions \cap Real = {primary} \ {None}

\* The four paths that end a session (its thread, the sweep, a force end, an
\* aborted start) report it to the flag service exactly once between them.
EndsReportedOnce ==
  \A s \in Session :
    /\ ends[s] <= 1
    /\ gameState[s] # "NONE" /\ s \notin sessions => ends[s] = 1
    /\ thread[s] = "gone" => ends[s] = 1

\* A game runs whose session was force-ended: it has been told to stop, or will
\* be when its loop runs.  In particular a force end that lands while the
\* session still connects or builds never leaves a game playing behind it.
NoOrphanGame ==
  \A s \in Session :
    forceEnding[s] /\ thread[s] \in InGame => stopQueued[s] \/ stopped[s]

\* The inductive strengthening of the three: a game that runs is the thread's
\* current game, and whatever has a state of its own was admitted.
Admitted(s) ==
  \/ start[s] \in {"evict", "register", "started"}
  \/ thread[s] # "none"
  \/ endTask[s] = "waiting"
  \/ s \in sessions

SessionInv ==
  /\ TypeOK
  /\ PrimarySlot
  /\ EndsReportedOnce
  /\ NoOrphanGame
  /\ \A s \in Session : thread[s] \in InGame => currentGame[s]
  /\ \A s \in Session : Admitted(s) => gameState[s] # "NONE"

\* A game that plays and that nobody asked to stop.
Plays(s) == thread[s] \in {"init", "music", "play"} /\ ~forceEnding[s]

\* Under policy block a real game past its preemption has the floor: no live
\* shadow session and no shadow game that nobody asked to stop.
NoShadowBesideReal ==
  ShadowPolicy = "block" /\ ~misrouted =>
    \A r \in Real \cap sessions :
      start[r] \in {"register", "started"} /\ Live(r) =>
        LiveShadows = {} /\ \A x \in Shadow : ~Plays(x)

\* Two real games never play at the same time, as long as no event of one
\* session moved the state of another (see the finding).
OneRealGame ==
  ~misrouted => \A r, q \in Real : Plays(r) /\ Plays(q) => r = q

\* The same without the condition: what the servicer's comments promise.
OneRealGameEver == \A r, q \in Real : Plays(r) /\ Plays(q) => r = q

\* A real start always comes to an answer, even when every shadow it preempts
\* hangs in its game.
RealStartAnswered ==
  \A r \in Real : start[r] \in Passing ~> start[r] \notin Passing

\* With game threads that run too, the end of every game that was started is
\* reported to the flag service.
StartedGameReported ==
  ThreadFairness => \A s \in Session : start[s] = "started" ~> ends[s] = 1
=============================================================================
